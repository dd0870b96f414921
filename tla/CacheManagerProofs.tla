-------------------------- MODULE CacheManagerProofs --------------------------
(***************************************************************************)
(* What holds of the cache for any number of keys, reads and edits, for    *)
(* any livetimes, with and without clear().                                *)
(*                                                                         *)
(* The argument has three parts that hardly touch: the list of expirations *)
(* against the entries; `inflight` against the loads; and what a load has  *)
(* read, and therefore will put, against the data.                         *)
(***************************************************************************)
EXTENDS CacheManager, TLAPS

(* What a load has read is current, unless an edit has not invalidated yet *)
(* or did so during the load.                                              *)
ReadsAreCurrent ==
    \A c \in Calls : pc[c] = "read" =>
        \/ c \in raced
        \/ value[c] = data[KeyOf[c]]
        \/ \E w \in Writers : edit[w] = "saved" /\ KeyOf[c] \in Touched[w]

InflightOfKey == \A k \in Keys : inflight[k] # None => KeyOf[inflight[k]] = k

(* Until clear() is called, a load is the one `inflight` has for its key.  *)
LoadsAreNoted == clears = 0 => \A c \in Loading : inflight[KeyOf[c]] = c

TypedCache ==
    /\ cached \subseteq Keys /\ entry \in [Keys -> Entry]
    /\ expirations \subseteq [key: Keys, left: Nat]
    /\ scheduler \in Nat \union {None}
TypedRest ==
    /\ inflight \in [Keys -> Calls \union {None}]
    /\ pc \in [Calls -> {"uncalled", "reading", "read", "joined", "settled"}]
    /\ promise \in [Calls -> Calls \union {None}]
    /\ value \in [Calls -> Nat]
    /\ data \in [Keys -> Nat]
    /\ edit \in [Writers -> {"unsaved", "saved", "done"}]
    /\ raced \subseteq Calls /\ clears \in Nat

InflightInv == InflightIsAlive /\ InflightOfKey /\ LoadsAreNoted

IInv == /\ TypedCache /\ TypedRest /\ TimerIsArmed /\ InflightInv
        /\ ReadsAreCurrent /\ CacheIsCurrent

LEMMA Typed == TypeOK <=> TypedCache /\ TypedRest
BY DEF TypeOK, TypedCache, TypedRest

-----------------------------------------------------------------------------
(* The operations on the cache.                                            *)

LEMMA Scheduling ==
    ASSUME TypedCache, NEW k \in Keys, scheduleExpire(k)
    PROVE  /\ expirations' = expirations \union {[key |-> k, left |-> Livetime[k]]}
           /\ expirations' \subseteq [key: Keys, left: Nat]
           /\ scheduler' \in Nat
<1>0. Livetime[k] \in Nat
  BY Times
<1>1. expirations' = expirations \union {[key |-> k, left |-> Livetime[k]]}
  BY Zenon DEF scheduleExpire
<1>2. expirations' \subseteq [key: Keys, left: Nat]
  BY <1>0, <1>1 DEF TypedCache
<1>3. scheduler' \in Nat
  <2>1. CASE scheduler # None
    BY <2>1 DEF scheduleExpire, TypedCache
  <2>2. CASE scheduler = None
    <3>1. \E x \in expirations' : scheduler' = x.left
      BY <1>1, <2>2 DEF scheduleExpire
    <3>2. PICK x \in expirations' : scheduler' = x.left
      BY <3>1
    <3>3. x \in [key: Keys, left: Nat]
      BY <1>2
    <3> QED  BY <3>2, <3>3
  <2> QED  BY <2>1, <2>2
<1> QED  BY <1>1, <1>2, <1>3

(* A key gets an entry with its whole livetime: by put, or by extension of *)
(* the entry it has.                                                       *)
LEMMA Renewing ==
    ASSUME TypedCache, TimerIsArmed, NEW k \in Keys, NEW e \in Entry, e.left = Livetime[k],
           cached' = cached \union {k}, entry' = [entry EXCEPT ![k] = e], scheduleExpire(k)
    PROVE  TypedCache' /\ TimerIsArmed'
<1>1. TypedCache'
  BY Scheduling DEF TypedCache
<1>2. \A j \in cached' : [key |-> j, left |-> entry'[j].left] \in expirations'
  <2> SUFFICES ASSUME NEW j \in cached' PROVE [key |-> j, left |-> entry'[j].left] \in expirations'
    OBVIOUS
  <2>1. CASE j = k
    BY <2>1, Scheduling DEF TypedCache
  <2>2. CASE j # k
    <3>1. j \in cached /\ entry'[j] = entry[j]
      BY <2>2 DEF TypedCache
    <3> QED  BY <3>1, Scheduling DEF TimerIsArmed
  <2> QED  BY <2>1, <2>2
<1>3. scheduler' # None /\ expirations' # {}
  BY Scheduling, Absent
<1> QED  BY <1>1, <1>2, <1>3 DEF TimerIsArmed

LEMMA NoEntryIsEntry == NoEntry \in Entry
BY DEF NoEntry, Entry

LEMMA Evicting ==
    ASSUME TypedCache, TimerIsArmed, NEW ks, evict(ks)
    PROVE  /\ TypedCache' /\ TimerIsArmed' /\ cached' = cached \ ks
           /\ \A k \in cached' : entry'[k] = entry[k]
<1>1. CASE cached \intersect ks = {}
  <2>1. UNCHANGED cache
    BY <1>1 DEF evict
  <2> QED  BY <1>1, <2>1 DEF cache, TypedCache, TimerIsArmed
<1>2. CASE cached \intersect ks # {}
  <2>1. /\ cached' = cached \ ks /\ entry' = Without(ks)
        /\ expirations' = {x \in expirations : x.key \notin cached \intersect ks}
        /\ scheduler' = IF expirations' = {} THEN None ELSE scheduler
    BY <1>2 DEF evict
  <2>2. \A k \in cached' : entry'[k] = entry[k]
    BY <2>1 DEF Without, TypedCache
  <2>3. TypedCache'
    BY <2>1, NoEntryIsEntry DEF TypedCache, Without
  <2>4. \A k \in cached' : [key |-> k, left |-> entry'[k].left] \in expirations'
    BY <2>1, <2>2 DEF TimerIsArmed
  <2>5. scheduler' = None <=> expirations' = {}
    BY <2>1 DEF TimerIsArmed
  <2> QED  BY <2>1, <2>2, <2>3, <2>4, <2>5 DEF TimerIsArmed
<1> QED  BY <1>1, <1>2

-----------------------------------------------------------------------------
(* What a step may do to the cache and to the data without making the one  *)
(* older than the other: entries go, and the rest is left alone.           *)
LEMMA CurrentWithFewer ==
    ASSUME CacheIsCurrent, cached' \subseteq cached,
           \A k \in cached' : entry'[k].value = entry[k].value /\ entry'[k].by = entry[k].by,
           UNCHANGED writes
    PROVE  CacheIsCurrent'
BY DEF CacheIsCurrent, writes

LEMMA ReadsAlone ==
    ASSUME ReadsAreCurrent, UNCHANGED <<value, writes>>,
           \A c \in Calls : pc'[c] = "read" => pc[c] = "read"
    PROVE  ReadsAreCurrent'
BY DEF ReadsAreCurrent, writes

LEMMA InflightAlone ==
    ASSUME InflightInv, UNCHANGED <<inflight, clears>>, Loading' = Loading
    PROVE  InflightInv'
BY DEF InflightInv, InflightIsAlive, InflightOfKey, LoadsAreNoted

-----------------------------------------------------------------------------
(* The reads.                                                              *)

LEMMA HitStep == ASSUME IInv, NEW c \in Calls, Hit(c) PROVE IInv'
<1> USE DEF IInv
<1> DEFINE k == KeyOf[c]
<1>0. k \in Keys /\ k \in cached
  BY Callers DEF Hit, Fresh
<1>1. TypedRest'
  BY DEF Hit, TypedRest, writes
<1>2. TypedCache' /\ TimerIsArmed' /\ cached' = cached
      /\ \A j \in cached' : entry'[j].value = entry[j].value /\ entry'[j].by = entry[j].by
  <2>1. CASE k \in Extended
    <3> DEFINE e == [entry[k] EXCEPT !.left = Livetime[k]]
    <3>1. entry[k] \in Entry
      BY <1>0 DEF TypedCache
    <3>2. e \in Entry /\ e.left = Livetime[k] /\ e.value = entry[k].value /\ e.by = entry[k].by
      BY <1>0, <3>1, Times DEF Entry
    <3>3. entry' = [entry EXCEPT ![k] = e] /\ scheduleExpire(k) /\ cached' = cached
      BY <2>1 DEF Hit
    <3>4. cached' = cached \union {k}
      BY <1>0, <3>3
    <3>5. TypedCache' /\ TimerIsArmed'
      <4> HIDE DEF e, k
      <4> QED  BY <1>0, <3>2, <3>3, <3>4, Renewing
    <3>6. \A j \in cached' : entry'[j].value = entry[j].value /\ entry'[j].by = entry[j].by
      <4> HIDE DEF e, k
      <4> QED  BY <1>0, <3>2, <3>3 DEF TypedCache
    <3> QED  BY <3>3, <3>5, <3>6
  <2>2. CASE k \notin Extended
    BY <2>2 DEF Hit, cache, TypedCache, TimerIsArmed
  <2> QED  BY <2>1, <2>2
<1>3. Loading' = Loading /\ UNCHANGED <<inflight, clears>>
  BY DEF Hit, Loading, TypedRest
<1>4. CacheIsCurrent'
  BY <1>2, CurrentWithFewer DEF Hit
<1>5. ReadsAreCurrent'
  BY ReadsAlone DEF Hit, TypedRest
<1> QED  BY <1>1, <1>2, <1>3, <1>4, <1>5, InflightAlone

LEMMA JoinStep == ASSUME IInv, NEW c \in Calls, Join(c) PROVE IInv'
<1> USE DEF IInv
<1>0. KeyOf[c] \in Keys
  BY Callers
<1>1. TypedRest'
  BY <1>0 DEF Join, TypedRest, writes
<1>2. evict({KeyOf[c]})
  BY DEF Join
<1>3. Loading' = Loading /\ UNCHANGED <<inflight, clears>>
  BY DEF Join, Loading, TypedRest
<1>4. CacheIsCurrent'
  BY <1>2, Evicting, CurrentWithFewer DEF Join
<1>5. ReadsAreCurrent'
  BY ReadsAlone DEF Join, TypedRest
<1> QED  BY <1>1, <1>2, <1>3, <1>4, <1>5, Evicting, InflightAlone

LEMMA LoadStep == ASSUME IInv, NEW c \in Calls, Load(c) PROVE IInv'
<1> USE DEF IInv
<1>0. KeyOf[c] \in Keys /\ c # None
  BY Callers, Absent
<1>1. TypedRest'
  BY <1>0 DEF Load, Misses, TypedRest, writes
<1>2. evict({KeyOf[c]})
  BY DEF Load
<1>3. /\ Loading' = Loading \union {c}
      /\ inflight[KeyOf[c]] = None
      /\ inflight' = [inflight EXCEPT ![KeyOf[c]] = c]
  BY DEF Load, Misses, Loading, TypedRest
<1>4. InflightInv'
  <2>1. InflightIsAlive'
    BY <1>0, <1>3 DEF InflightInv, InflightIsAlive, TypedRest
  <2>2. InflightOfKey'
    BY <1>0, <1>3 DEF InflightInv, InflightOfKey, TypedRest
  <2>3. ASSUME clears' = 0, NEW d \in Loading' PROVE inflight'[KeyOf[d]] = d
    <3>1. CASE d = c
      BY <1>0, <1>3, <3>1 DEF TypedRest
    <3>2. CASE d # c
      <4>1. d \in Loading /\ d \in Calls
        BY <1>3, <3>2 DEF Loading
      <4>2. inflight[KeyOf[d]] = d /\ KeyOf[d] \in Keys
        BY <2>3, <4>1, Callers DEF InflightInv, LoadsAreNoted, Load
      <4>3. KeyOf[d] # KeyOf[c]
        BY <1>3, <4>1, <4>2, Absent
      <4> QED  BY <1>3, <4>2, <4>3 DEF TypedRest
    <3> QED  BY <3>1, <3>2
  <2> QED  BY <2>1, <2>2, <2>3 DEF InflightInv, LoadsAreNoted
<1>5. CacheIsCurrent'
  BY <1>2, Evicting, CurrentWithFewer DEF Load
<1>6. ReadsAreCurrent'
  BY ReadsAlone DEF Load, Misses, TypedRest
<1> QED  BY <1>1, <1>2, <1>4, <1>5, <1>6, Evicting

(* A rejected promise is noted: no load is under way for its key, or none  *)
(* that clear() has left a promise.                                        *)
LEMMA ThrowsStep == ASSUME IInv, NEW c \in Calls, Throws(c) PROVE IInv'
<1> USE DEF IInv
<1>0. KeyOf[c] \in Keys /\ c \in Malformed /\ c # None
  BY Callers, Absent DEF Throws
<1>1. TypedRest'
  BY <1>0 DEF Throws, TypedRest, writes
<1>2. evict({KeyOf[c]})
  BY DEF Throws
<1>3. /\ Loading' = Loading /\ UNCHANGED clears
      /\ inflight[KeyOf[c]] = None
      /\ inflight' = [inflight EXCEPT ![KeyOf[c]] = c]
  BY DEF Throws, Misses, Loading, TypedRest
<1>4. InflightInv'
  <2>1. InflightIsAlive'
    BY <1>0, <1>3 DEF InflightInv, InflightIsAlive, TypedRest
  <2>2. InflightOfKey'
    BY <1>0, <1>3 DEF InflightInv, InflightOfKey, TypedRest
  <2>3. ASSUME clears' = 0, NEW d \in Loading PROVE inflight'[KeyOf[d]] = d
    <3>1. d \in Calls /\ d # None
      BY Absent DEF Loading
    <3>2. inflight[KeyOf[d]] = d /\ KeyOf[d] \in Keys
      BY <1>3, <2>3, <3>1, Callers DEF InflightInv, LoadsAreNoted
    <3>3. KeyOf[d] # KeyOf[c]
      BY <1>3, <3>1, <3>2
    <3> QED  BY <1>3, <3>2, <3>3 DEF TypedRest
  <2> QED  BY <1>3, <2>1, <2>2, <2>3 DEF InflightInv, LoadsAreNoted
<1>5. CacheIsCurrent'
  BY <1>2, Evicting, CurrentWithFewer DEF Throws
<1>6. ReadsAreCurrent'
  BY ReadsAlone DEF Throws, TypedRest
<1> QED  BY <1>1, <1>2, <1>4, <1>5, <1>6, Evicting

LEMMA ReadStep == ASSUME IInv, NEW c \in Calls, Read(c) PROVE IInv'
<1> USE DEF IInv
<1>0. KeyOf[c] \in Keys
  BY Callers
<1>1. TypedCache' /\ TimerIsArmed' /\ CacheIsCurrent'
  BY DEF Read, cache, writes, TypedCache, TimerIsArmed, CacheIsCurrent
<1>2. TypedRest'
  BY <1>0 DEF Read, TypedRest, writes
<1>3. Loading' = Loading /\ UNCHANGED <<inflight, clears>>
  BY DEF Read, Loading, TypedRest
<1>4. ReadsAreCurrent'
  BY DEF Read, ReadsAreCurrent, TypedRest, writes
<1> QED  BY <1>1, <1>2, <1>3, <1>4, InflightAlone

(* A load ends: it leaves Loading and `inflight`, and lets go those who    *)
(* joined it.                                                              *)
LEMMA Ending ==
    ASSUME IInv, NEW c \in Loading, Settle(c),
           inflight' = [inflight EXCEPT ![KeyOf[c]] = None],
           UNCHANGED <<promise, value, writes, clears>>
    PROVE  TypedRest' /\ InflightInv' /\ ReadsAreCurrent'
<1> USE DEF IInv
<1>0. c \in Calls /\ KeyOf[c] \in Keys
  BY Callers DEF Loading
<1>1. TypedRest'
  BY <1>0 DEF TypedRest, Settle, writes
<1>2. Loading' = Loading \ {c}
  BY <1>0 DEF Loading, Settle, TypedRest
<1>3. InflightIsAlive'
  <2> SUFFICES ASSUME NEW k \in Keys, inflight'[k] # None
               PROVE  inflight'[k] \in Loading' \union Malformed
    BY DEF InflightIsAlive
  <2>1. k # KeyOf[c] /\ inflight'[k] = inflight[k]
    BY <1>0 DEF TypedRest
  <2>2. inflight[k] # c /\ inflight[k] \in Loading \union Malformed
    BY <2>1 DEF InflightInv, InflightIsAlive, InflightOfKey
  <2> QED  BY <1>2, <2>1, <2>2
<1>4. InflightOfKey'
  BY <1>0 DEF InflightInv, InflightOfKey, TypedRest
<1>5. LoadsAreNoted'
  <2> SUFFICES ASSUME clears' = 0, NEW d \in Loading' PROVE inflight'[KeyOf[d]] = d
    BY DEF LoadsAreNoted
  <2>1. d \in Loading /\ d # c /\ d \in Calls
    BY <1>2 DEF Loading
  <2>2. inflight[KeyOf[d]] = d /\ inflight[KeyOf[c]] = c /\ KeyOf[d] \in Keys
    BY <2>1, Callers DEF InflightInv, LoadsAreNoted
  <2> QED  BY <2>1, <2>2 DEF TypedRest
<1>6. ReadsAreCurrent'
  <2>1. \A d \in Calls : pc'[d] = "read" => pc[d] = "read"
    BY DEF Settle
  <2> QED  BY <2>1, ReadsAlone
<1> QED  BY <1>1, <1>3, <1>4, <1>5, <1>6 DEF InflightInv

LEMMA LoadedStep == ASSUME IInv, NEW c \in Calls, Loaded(c) PROVE IInv'
<1> USE DEF IInv
<1> DEFINE k == KeyOf[c]
           e == [value |-> value[c], left |-> Livetime[k], by |-> c]
<1>0. k \in Keys /\ c \in Loading
  BY Callers DEF Loaded, Loading
<1>1. TypedRest' /\ InflightInv' /\ ReadsAreCurrent'
  BY <1>0, Ending DEF Loaded
<1>2. e \in Entry /\ e.left = Livetime[k]
  BY <1>0, Times DEF Entry, TypedRest
<1>3. cached' = cached \union {k} /\ entry' = [entry EXCEPT ![k] = e] /\ scheduleExpire(k)
  BY DEF Loaded, put
<1>4. TypedCache' /\ TimerIsArmed'
  <2> HIDE DEF e, k
  <2> QED  BY <1>0, <1>2, <1>3, Renewing
<1>5. CacheIsCurrent'
  <2> SUFFICES ASSUME NEW j \in cached'
               PROVE  \/ entry'[j].by \in raced
                      \/ entry'[j].value = data[j]
                      \/ \E w \in Writers : edit[w] = "saved" /\ j \in Touched[w]
    BY DEF CacheIsCurrent, Loaded, writes
  <2>1. CASE j = k
    <3>1. entry'[j] = e /\ pc[c] = "read"
      BY <1>0, <1>3, <2>1 DEF TypedCache, Loaded
    <3>2. entry'[j].by = c /\ entry'[j].value = value[c]
      BY <3>1
    <3> QED  BY <2>1, <3>1, <3>2 DEF ReadsAreCurrent
  <2>2. CASE j # k
    <3>1. j \in cached /\ entry'[j] = entry[j]
      BY <1>3, <2>2 DEF TypedCache
    <3> QED  BY <3>1 DEF CacheIsCurrent
  <2> QED  BY <2>1, <2>2
<1> QED  BY <1>1, <1>4, <1>5

LEMMA FailsStep == ASSUME IInv, NEW c \in Calls, Fails(c) PROVE IInv'
<1> USE DEF IInv
<1>1. c \in Loading
  BY DEF Fails, Loading
<1>2. TypedCache' /\ TimerIsArmed' /\ CacheIsCurrent'
  BY DEF Fails, cache, writes, TypedCache, TimerIsArmed, CacheIsCurrent
<1> QED  BY <1>1, <1>2, Ending DEF Fails

-----------------------------------------------------------------------------
(* The edits.                                                              *)

LEMMA SaveStep == ASSUME IInv, NEW w \in Writers, Save(w) PROVE IInv'
<1> USE DEF IInv
<1>1. TypedCache' /\ TimerIsArmed'
  BY DEF Save, cache, TypedCache, TimerIsArmed
<1>2. TypedRest'
  BY DEF Save, TypedRest, reads
<1>3. Loading' = Loading /\ UNCHANGED <<inflight, clears>>
  BY DEF Save, Loading, reads
<1>4. edit'[w] = "saved" /\ \A v \in Writers : edit[v] = "saved" => edit'[v] = "saved"
  BY DEF Save, TypedRest
<1>5. \A k \in Keys : data'[k] = data[k] \/ k \in Touched[w]
  BY DEF Save
<1>6. CacheIsCurrent'
  BY <1>4, <1>5 DEF Save, cache, CacheIsCurrent, TypedCache
<1>7. ReadsAreCurrent'
  BY <1>4, <1>5, Callers DEF Save, reads, ReadsAreCurrent
<1> QED  BY <1>1, <1>2, <1>3, <1>6, <1>7, InflightAlone

LEMMA InvalidateStep == ASSUME IInv, NEW w \in Writers, Invalidate(w) PROVE IInv'
<1> USE DEF IInv
<1>1. TypedCache' /\ TimerIsArmed' /\ cached' = cached \ Touched[w]
      /\ \A k \in cached' : entry'[k] = entry[k]
  BY Evicting DEF Invalidate
<1>2. TypedRest'
  BY DEF Invalidate, TypedRest, reads, Loading
<1>3. Loading' = Loading /\ UNCHANGED <<inflight, clears>>
  BY DEF Invalidate, Loading, reads
<1>4. \A v \in Writers : v # w => edit'[v] = edit[v]
  BY DEF Invalidate, TypedRest
<1>5. raced \subseteq raced' /\ \A c \in Loading : KeyOf[c] \in Touched[w] => c \in raced'
  BY DEF Invalidate
<1>6. UNCHANGED <<data, reads>>
  BY DEF Invalidate
<1>7. CacheIsCurrent'
  BY <1>1, <1>4, <1>5, <1>6 DEF CacheIsCurrent
<1>8. ReadsAreCurrent'
  BY <1>4, <1>5, <1>6 DEF ReadsAreCurrent, reads, Loading
<1> QED  BY <1>1, <1>2, <1>3, <1>7, <1>8, InflightAlone

-----------------------------------------------------------------------------
LEMMA ClearStep == ASSUME IInv, clear PROVE IInv'
<1> USE DEF IInv
<1>1. TypedCache'
  BY NoEntryIsEntry DEF clear, TypedCache, Without
<1>2. TypedRest'
  BY Bound DEF clear, TypedRest, reads, writes
<1>3. TimerIsArmed' /\ CacheIsCurrent'
  BY DEF clear, TimerIsArmed, CacheIsCurrent
<1>4. clears' # 0
  BY DEF clear, TypedRest
<1>5. InflightInv'
  BY <1>4 DEF clear, InflightInv, InflightIsAlive, InflightOfKey, LoadsAreNoted
<1>6. ReadsAreCurrent'
  BY DEF clear, reads, writes, ReadsAreCurrent
<1> QED  BY <1>1, <1>2, <1>3, <1>5, <1>6

LEMMA LessTyped == \A t \in Nat : Less(t) \in Nat
BY DEF Less

LEMMA TickStep == ASSUME IInv, Tick PROVE IInv'
<1> USE DEF IInv
<1>1. \A k \in Keys : /\ entry'[k] \in Entry /\ entry'[k].left = Less(entry[k].left)
                      /\ entry'[k].value = entry[k].value /\ entry'[k].by = entry[k].by
  <2> SUFFICES ASSUME NEW k \in Keys
               PROVE  /\ entry'[k] \in Entry /\ entry'[k].left = Less(entry[k].left)
                      /\ entry'[k].value = entry[k].value /\ entry'[k].by = entry[k].by
    OBVIOUS
  <2>1. entry[k] \in Entry /\ entry'[k] = [entry[k] EXCEPT !.left = Less(@)]
    BY DEF Tick, TypedCache
  <2> QED  BY <2>1, LessTyped DEF Entry
<1>2. \A x \in expirations : /\ [x EXCEPT !.left = Less(@)] \in [key: Keys, left: Nat]
                             /\ [x EXCEPT !.left = Less(@)] \in expirations'
                             /\ [x EXCEPT !.left = Less(@)] = [key |-> x.key, left |-> Less(x.left)]
  <2> SUFFICES ASSUME NEW x \in expirations
               PROVE  /\ [x EXCEPT !.left = Less(@)] \in [key: Keys, left: Nat]
                      /\ [x EXCEPT !.left = Less(@)] \in expirations'
                      /\ [x EXCEPT !.left = Less(@)] = [key |-> x.key, left |-> Less(x.left)]
    OBVIOUS
  <2>1. x \in [key: Keys, left: Nat]
    BY DEF TypedCache
  <2>2. [x EXCEPT !.left = Less(@)] \in expirations'
    BY DEF Tick
  <2> QED  BY <2>1, <2>2, LessTyped
<1>3. TypedCache'
  <2>1. entry' \in [Keys -> Entry]
    BY <1>1 DEF Tick
  <2>2. expirations' \subseteq [key: Keys, left: Nat]
    BY <1>2 DEF Tick
  <2>3. scheduler' \in Nat \union {None}
    BY LessTyped DEF Tick, TypedCache
  <2> QED  BY <2>1, <2>2, <2>3 DEF TypedCache, Tick
<1>4. TimerIsArmed'
  <2>1. \A k \in cached' : [key |-> k, left |-> entry'[k].left] \in expirations'
    <3> SUFFICES ASSUME NEW k \in cached PROVE [key |-> k, left |-> Less(entry[k].left)] \in expirations'
      BY <1>1 DEF Tick, TypedCache
    <3> DEFINE x == [key |-> k, left |-> entry[k].left]
    <3>1. x \in expirations /\ x.key = k /\ x.left = entry[k].left
      BY DEF TimerIsArmed
    <3> QED  BY <1>2, <3>1
  <2>2. expirations' = {} <=> expirations = {}
    BY DEF Tick
  <2>3. scheduler' = None <=> scheduler = None
    BY LessTyped, Absent DEF Tick, TypedCache
  <2> QED  BY <2>1, <2>2, <2>3 DEF TimerIsArmed
<1>5. TypedRest'
  BY DEF Tick, TypedRest, reads, writes
<1>6. Loading' = Loading /\ UNCHANGED <<inflight, clears>>
  BY DEF Tick, Loading, reads
<1>7. CacheIsCurrent'
  BY <1>1, CurrentWithFewer DEF Tick, TypedCache
<1>8. ReadsAreCurrent'
  BY ReadsAlone DEF Tick, reads
<1> QED  BY <1>3, <1>4, <1>5, <1>6, <1>7, <1>8, InflightAlone

LEMMA DrainStep == ASSUME IInv, drainExpirations PROVE IInv'
<1> USE DEF IInv
<1>1. cached' = cached \ Due /\ entry' = Without(Due)
      /\ expirations' = {x \in expirations : x.left > 0}
  BY DEF drainExpirations
<1>2. \A k \in cached' : entry'[k] = entry[k]
  BY <1>1 DEF Without, TypedCache
<1>3. scheduler' \in Nat \union {None} /\ (scheduler' = None <=> expirations' = {})
  <2>1. CASE expirations' = {}
    BY <2>1 DEF drainExpirations
  <2>2. CASE expirations' # {}
    <3>1. \E x \in expirations' : scheduler' = x.left
      BY <2>2 DEF drainExpirations
    <3>2. PICK x \in expirations' : scheduler' = x.left
      BY <3>1
    <3>3. x \in [key: Keys, left: Nat]
      BY <1>1 DEF TypedCache
    <3> QED  BY <2>2, <3>2, <3>3, Absent
  <2> QED  BY <2>1, <2>2
<1>4. TypedCache'
  BY <1>1, <1>3, NoEntryIsEntry DEF TypedCache, Without
<1>5. \A k \in cached' : [key |-> k, left |-> entry'[k].left] \in expirations'
  <2> SUFFICES ASSUME NEW k \in cached' PROVE [key |-> k, left |-> entry[k].left] \in expirations'
    BY <1>2
  <2>1. k \in cached /\ k \notin Due /\ [key |-> k, left |-> entry[k].left] \in expirations
    BY <1>1 DEF TimerIsArmed
  <2>2. entry[k] \in Entry
    BY <2>1 DEF TypedCache
  <2>3. entry[k].left \in Nat /\ entry[k].left # 0
    BY <2>1, <2>2 DEF Due, Entry
  <2> QED  BY <1>1, <2>1, <2>3
<1>6. TypedRest'
  BY DEF drainExpirations, TypedRest, reads, writes
<1>7. Loading' = Loading /\ UNCHANGED <<inflight, clears>>
  BY DEF drainExpirations, Loading, reads
<1>8. CacheIsCurrent'
  BY <1>1, <1>2, CurrentWithFewer DEF drainExpirations
<1>9. ReadsAreCurrent'
  BY ReadsAlone DEF drainExpirations, reads
<1> QED  BY <1>3, <1>4, <1>5, <1>6, <1>7, <1>8, <1>9, InflightAlone DEF TimerIsArmed

-----------------------------------------------------------------------------
LEMMA Initially == Init => IInv
<1> SUFFICES ASSUME Init PROVE IInv
  OBVIOUS
<1>1. TypedCache
  BY NoEntryIsEntry DEF Init, TypedCache
<1>2. TypedRest
  BY DEF Init, TypedRest
<1>3. Loading = {}
  BY DEF Init, Loading
<1>4. TimerIsArmed /\ ReadsAreCurrent /\ CacheIsCurrent
  BY DEF Init, TimerIsArmed, ReadsAreCurrent, CacheIsCurrent
<1>5. InflightInv
  BY <1>3 DEF Init, InflightInv, InflightIsAlive, InflightOfKey, LoadsAreNoted
<1> QED  BY <1>1, <1>2, <1>4, <1>5 DEF IInv

LEMMA Standing == ASSUME IInv, UNCHANGED vars PROVE IInv'
<1> USE DEF vars, cache, reads, writes
<1>1. TypedCache' /\ TypedRest' /\ TimerIsArmed'
  BY DEF IInv, TypedCache, TypedRest, TimerIsArmed
<1>2. Loading' = Loading
  BY DEF Loading
<1>3. ReadsAreCurrent' /\ CacheIsCurrent'
  BY DEF IInv, ReadsAreCurrent, CacheIsCurrent
<1> QED  BY <1>1, <1>2, <1>3, InflightAlone DEF IInv

LEMMA Preserved == IInv /\ [Next]_vars => IInv'
<1> SUFFICES ASSUME IInv, [Next]_vars PROVE IInv'
  OBVIOUS
<1>1. ASSUME NEW c \in Calls, Hit(c) \/ Join(c) \/ Load(c) \/ Throws(c) \/ Read(c) \/ Loaded(c) \/ Fails(c)
      PROVE  IInv'
  BY <1>1, HitStep, JoinStep, LoadStep, ThrowsStep, ReadStep, LoadedStep, FailsStep
<1>2. ASSUME NEW w \in Writers, Save(w) \/ Invalidate(w) PROVE IInv'
  BY <1>2, SaveStep, InvalidateStep
<1> QED  BY <1>1, <1>2, ClearStep, TickStep, DrainStep, Standing DEF Next

LEMMA Inductive == Spec => []IInv
BY Initially, Preserved, PTL DEF Spec

(* The variables have their types in every reachable state.                *)
THEOREM TypeCorrect == Spec => []TypeOK
<1>1. IInv => TypeOK
  BY Typed DEF IInv
<1> QED  BY <1>1, Inductive, PTL

(* Each entry has an expiration at its own time, and the one timer of the  *)
(* service runs exactly when there is something to expire.                 *)
THEOREM TimerAlwaysArmed == Spec => []TimerIsArmed
BY Inductive, PTL DEF IInv

(* A load that fails, whenever it does, leaves nothing in `inflight`, and  *)
(* neither does one that ends, clear() or not: what is there is under way, *)
(* or the rejected promise of a callback that threw before it gave one.    *)
THEOREM NoFailureStaysBehind == Spec => []InflightIsAlive
<1>1. IInv => InflightIsAlive
  BY DEF IInv, InflightInv
<1> QED  BY <1>1, Inductive, PTL

(* As long as nobody has called clear(), getOrCallAsync never loads a key  *)
(* twice at the same time.                                                 *)
THEOREM LoadsAreShared == Spec => []OneLoadPerKey
<1>1. IInv => OneLoadPerKey
  BY DEF IInv, InflightInv, LoadsAreNoted, OneLoadPerKey
<1> QED  BY <1>1, Inductive, PTL

(* Only a load that overlapped an invalidation of its key leaves something *)
(* old in the cache once the edits have invalidated theirs.                *)
THEOREM OldOnlyByRace == Spec => []CacheIsCurrent
BY Inductive, PTL DEF IInv

(* The promises of getOrCallAsync, the entries and the timer of the service *)
(* agree with each other, whatever is called in between.                    *)
THEOREM LoadsAndTimers == Spec => []LoadsAndTimersHold
<1>1. OneLoadPerKey /\ InflightIsAlive /\ TimerIsArmed => LoadsAndTimersHold
  BY DEF LoadsAndTimersHold
<1> QED  BY <1>1, LoadsAreShared, NoFailureStaysBehind, TimerAlwaysArmed, PTL
=============================================================================
