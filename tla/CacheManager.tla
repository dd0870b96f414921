---------------------------- MODULE CacheManager ----------------------------
(***************************************************************************)
(* libs/cache-manager: the CacheManagerService of a process, with those    *)
(* who read through it (getOrCallAsync) and those of the same process who  *)
(* write the data and invalidate it, as the CRUD services do.  (A write of *)
(* another process invalidates nothing here: see EntityAccess.)            *)
(*                                                                         *)
(* Times are kept as the time that is left: an entry, an expiration or a   *)
(* timer with nothing left is due.  The sorted list of expirations is a    *)
(* set, of which the code only ever uses the least and those that are due. *)
(* Every caller of the service gives a livetime; a value is the version of *)
(* the data it was made from, and is not undefined.                        *)
(***************************************************************************)
EXTENDS Integers

CONSTANTS
    Keys,
    Livetime,    \* of each key
    Extended,    \* the keys with livetimeExtending ON_GET
    Calls,       \* calls of getOrCallAsync
    KeyOf,       \* the key of each
    Malformed,   \* those whose callback throws before it gives a promise
    Writers,     \* edits of the data
    Touched,     \* the keys each of them changes and invalidates
    None,        \* no entry, no promise, no timer
    MaxClears    \* bounds the calls of clear()

ASSUME Times == Livetime \in [Keys -> Nat \ {0}]
ASSUME Callers == /\ KeyOf \in [Calls -> Keys] /\ Touched \in [Writers -> SUBSET Keys]
                  /\ Malformed \subseteq Calls
ASSUME Absent == None \notin Calls /\ None \notin Nat
ASSUME Bound == MaxClears \in Nat

VARIABLES
    cached,       \* the keys of this.map
    entry,        \* value, left and by, the call that put it, of each of these
    expirations,  \* expirations
    scheduler,    \* what is left until the timer fires
    inflight,     \* inflight: the call that loads each key
    pc,           \* of each call
    promise,      \* the load whose result a call is given
    value,        \* what a load has read
    data,         \* the version of what each key is computed from
    edit,         \* of each writer
    raced,        \* loads during which their key was invalidated
    clears

cache == <<cached, entry, expirations, scheduler>>
reads == <<pc, promise, value>>
writes == <<data, edit, raced>>
vars == <<cache, inflight, reads, writes, clears>>

Loading == {c \in Calls : pc[c] \in {"reading", "read"}}

Entry == [value: Nat, left: Nat, by: Calls \union {None}]
NoEntry == [value |-> 0, left |-> 0, by |-> None]

TypeOK ==
    /\ cached \subseteq Keys /\ entry \in [Keys -> Entry]
    /\ expirations \subseteq [key: Keys, left: Nat]
    /\ scheduler \in Nat \union {None}
    /\ inflight \in [Keys -> Calls \union {None}]
    /\ pc \in [Calls -> {"uncalled", "reading", "read", "joined", "settled"}]
    /\ promise \in [Calls -> Calls \union {None}]
    /\ value \in [Calls -> Nat]
    /\ data \in [Keys -> Nat]
    /\ edit \in [Writers -> {"unsaved", "saved", "done"}]
    /\ raced \subseteq Calls /\ clears \in Nat

Init ==
    /\ cached = {} /\ entry = [k \in Keys |-> NoEntry]
    /\ expirations = {} /\ scheduler = None
    /\ inflight = [k \in Keys |-> None]
    /\ pc = [c \in Calls |-> "uncalled"]
    /\ promise = [c \in Calls |-> None]
    /\ value = [c \in Calls |-> 0]
    /\ data = [k \in Keys |-> 0]
    /\ edit = [w \in Writers |-> "unsaved"]
    /\ raced = {} /\ clears = 0

-----------------------------------------------------------------------------
(* scheduleExpire: the timer that runs already is left as it is.           *)
scheduleExpire(k) ==
    LET items == expirations \union {[key |-> k, left |-> Livetime[k]]} IN
    /\ expirations' = items
    /\ IF scheduler # None THEN UNCHANGED scheduler
       ELSE \E x \in items : scheduler' = x.left /\ \A y \in items : x.left <= y.left

put(k, v, c) ==
    /\ cached' = cached \union {k}
    /\ entry' = [entry EXCEPT ![k] = [value |-> v, left |-> Livetime[k], by |-> c]]
    /\ scheduleExpire(k)

Without(ks) == [k \in Keys |-> IF k \in ks THEN NoEntry ELSE entry[k]]

(* invalidateStr for each of the keys: nothing for those without an entry. *)
evict(ks) ==
    IF cached \intersect ks = {} THEN UNCHANGED cache
    ELSE /\ cached' = cached \ ks /\ entry' = Without(ks)
         /\ expirations' = {x \in expirations : x.key \notin cached \intersect ks}
         /\ scheduler' = IF expirations' = {} THEN None ELSE scheduler

Fresh(k) == k \in cached /\ entry[k].left > 0

-----------------------------------------------------------------------------
(* getOrCallAsync(key) up to its first await: get, then the promise that   *)
(* is there, then a load of its own.                                       *)
Hit(c) ==
    LET k == KeyOf[c] IN
    /\ pc[c] = "uncalled" /\ Fresh(k)
    /\ pc' = [pc EXCEPT ![c] = "settled"]
    /\ IF k \in Extended
       THEN /\ entry' = [entry EXCEPT ![k].left = Livetime[k]]
            /\ scheduleExpire(k)
            /\ UNCHANGED cached
       ELSE UNCHANGED cache
    /\ UNCHANGED <<inflight, promise, value, writes, clears>>

Join(c) ==
    LET k == KeyOf[c] IN
    /\ pc[c] = "uncalled" /\ ~Fresh(k) /\ inflight[k] # None
    /\ evict({k})
    /\ pc' = [pc EXCEPT ![c] = IF inflight[k] \in Loading THEN "joined" ELSE "settled"]
    /\ promise' = [promise EXCEPT ![c] = inflight[k]]
    /\ UNCHANGED <<inflight, value, writes, clears>>

Misses(c) == pc[c] = "uncalled" /\ ~Fresh(KeyOf[c]) /\ inflight[KeyOf[c]] = None

Load_Unnoted(c) ==              \* bug: the promise is not noted
    LET k == KeyOf[c] IN
    /\ Misses(c) /\ c \notin Malformed
    /\ evict({k})
    /\ pc' = [pc EXCEPT ![c] = "reading"]
    /\ promise' = [promise EXCEPT ![c] = c]
    /\ UNCHANGED <<inflight, value, writes, clears>>

Load(c) ==
    LET k == KeyOf[c] IN
    /\ Misses(c) /\ c \notin Malformed
    /\ evict({k})
    /\ inflight' = [inflight EXCEPT ![k] = c]
    /\ pc' = [pc EXCEPT ![c] = "reading"]
    /\ promise' = [promise EXCEPT ![c] = c]
    /\ UNCHANGED <<value, writes, clears>>

(* cb() throws at once, as searchByUserId does for capabilities that are no *)
(* list: `finally` runs before the promise is noted, and the promise, which *)
(* is rejected, is noted afterwards.                                       *)
Throws(c) ==
    LET k == KeyOf[c] IN
    /\ Misses(c) /\ c \in Malformed
    /\ evict({k})
    /\ inflight' = [inflight EXCEPT ![k] = c]
    /\ pc' = [pc EXCEPT ![c] = "settled"]
    /\ promise' = [promise EXCEPT ![c] = c]
    /\ UNCHANGED <<value, writes, clears>>

(* cb() reads the data, at some time while it runs.                        *)
Read(c) ==
    /\ pc[c] = "reading"
    /\ pc' = [pc EXCEPT ![c] = "read"]
    /\ value' = [value EXCEPT ![c] = data[KeyOf[c]]]
    /\ UNCHANGED <<cache, inflight, promise, writes, clears>>

(* The promise of c settles, for c and for all who joined it.              *)
Settle(c) == pc' = [d \in Calls |->
    IF d = c \/ (pc[d] = "joined" /\ promise[d] = c) THEN "settled" ELSE pc[d]]

Loaded(c) ==
    /\ pc[c] = "read"
    /\ put(KeyOf[c], value[c], c)
    /\ inflight' = [inflight EXCEPT ![KeyOf[c]] = None]
    /\ Settle(c)
    /\ UNCHANGED <<promise, value, writes, clears>>

Fails_Noted(c) ==               \* bug: no finally: a failed load is not forgotten
    /\ pc[c] = "reading"
    /\ Settle(c)
    /\ UNCHANGED <<cache, inflight, promise, value, writes, clears>>

Fails_Quietly(c) ==             \* bug: only the first caller hears of the failure
    /\ pc[c] = "reading"
    /\ inflight' = [inflight EXCEPT ![KeyOf[c]] = None]
    /\ pc' = [pc EXCEPT ![c] = "settled"]
    /\ UNCHANGED <<cache, promise, value, writes, clears>>

(* The promise that cb() gave is rejected.                                 *)
Fails(c) ==
    /\ pc[c] = "reading"
    /\ inflight' = [inflight EXCEPT ![KeyOf[c]] = None]
    /\ Settle(c)
    /\ UNCHANGED <<cache, promise, value, writes, clears>>

-----------------------------------------------------------------------------
(* An edit saves the data and, when that has been done, invalidates what   *)
(* was computed from it.                                                   *)
Save(w) ==
    /\ edit[w] = "unsaved"
    /\ edit' = [edit EXCEPT ![w] = "saved"]
    /\ data' = [k \in Keys |-> IF k \in Touched[w] THEN data[k] + 1 ELSE data[k]]
    /\ UNCHANGED <<cache, inflight, reads, raced, clears>>

Invalidate_First(w) ==          \* bug: only the first match of the expression goes
    /\ edit[w] = "saved"
    /\ edit' = [edit EXCEPT ![w] = "done"]
    /\ \E k \in Touched[w] : evict({k})
    /\ raced' = raced \union {c \in Loading : KeyOf[c] \in Touched[w]}
    /\ UNCHANGED <<inflight, reads, data, clears>>

Invalidate(w) ==
    /\ edit[w] = "saved"
    /\ edit' = [edit EXCEPT ![w] = "done"]
    /\ evict(Touched[w])
    /\ raced' = raced \union {c \in Loading : KeyOf[c] \in Touched[w]}
    /\ UNCHANGED <<inflight, reads, data, clears>>

clear ==
    /\ clears < MaxClears /\ clears' = clears + 1
    /\ cached' = {} /\ entry' = Without(Keys) /\ expirations' = {} /\ scheduler' = None
    /\ inflight' = [k \in Keys |-> None]
    /\ UNCHANGED <<reads, writes>>

Less(t) == IF t = 0 THEN 0 ELSE t - 1

(* Time passes; nothing runs.                                              *)
Tick ==
    /\ entry' = [k \in Keys |-> [entry[k] EXCEPT !.left = Less(@)]]
    /\ expirations' = {[x EXCEPT !.left = Less(@)] : x \in expirations}
    /\ scheduler' = IF scheduler = None THEN None ELSE Less(scheduler)
    /\ UNCHANGED <<cached, inflight, reads, writes, clears>>

Due == {k \in cached : entry[k].left = 0 /\ [key |-> k, left |-> 0] \in expirations}

(* The timer fires, perhaps late: what is due goes, and the timer is set   *)
(* for the next.                                                           *)
drainExpirations ==
    /\ scheduler = 0
    /\ cached' = cached \ Due /\ entry' = Without(Due)
    /\ expirations' = {x \in expirations : x.left > 0}
    /\ IF expirations' = {} THEN scheduler' = None
       ELSE \E x \in expirations' :
               scheduler' = x.left /\ \A y \in expirations' : x.left <= y.left
    /\ UNCHANGED <<inflight, reads, writes, clears>>

Next ==
    \/ \E c \in Calls : \/ Hit(c) \/ Join(c) \/ Load(c) \/ Throws(c)
                       \/ Read(c) \/ Loaded(c) \/ Fails(c)
    \/ \E w \in Writers : Save(w) \/ Invalidate(w)
    \/ clear \/ Tick \/ drainExpirations

(* Loads end, time passes and the timer fires.                             *)
Fairness ==
    /\ WF_vars(Tick) /\ WF_vars(drainExpirations)
    /\ \A c \in Calls : WF_vars(Read(c)) /\ WF_vars(Loaded(c))

Spec == Init /\ [][Next]_vars /\ Fairness

-----------------------------------------------------------------------------
(* "in-flight promise dedupe": of one key there is one load at a time, as  *)
(* long as nobody has called clear(), which leaves loads without a promise *)
(* that remove the promise of their successors.                            *)
OneLoadPerKey == clears = 0 => \A c, d \in Loading : KeyOf[c] = KeyOf[d] => c = d

(* A promise in `inflight` is one that will still settle, or the rejected  *)
(* one of a callback that threw at once: no load that fails later stays    *)
(* behind to be given to all who come, clear() or not.                     *)
InflightIsAlive ==
    \A k \in Keys : inflight[k] # None => inflight[k] \in Loading \union Malformed

(* Whatever mixture of put, extension, invalidation and expiry made the    *)
(* list: each entry has an expiration at its own time, and the timer runs  *)
(* exactly when there is something to expire.                              *)
TimerIsArmed ==
    /\ \A k \in cached : [key |-> k, left |-> entry[k].left] \in expirations
    /\ scheduler = None <=> expirations = {}

(* Once every edit has invalidated its keys, only a load that overlapped   *)
(* an invalidation can have left something old in the cache.               *)
CacheIsCurrent ==
    \A k \in cached :
        \/ entry[k].by \in raced
        \/ entry[k].value = data[k]
        \/ \E w \in Writers : edit[w] = "saved" /\ k \in Touched[w]

(* Every call is given a result, its own or that of the load it joined.    *)
EveryCallSettles == \A c \in Calls : pc[c] = "joined" ~> pc[c] = "settled"

(* Loads are shared, and live unless their callback threw at once, and what *)
(* they leave in the cache has a timer:                                    *)
(* the promises and lists of the service never contradict each other,      *)
(* whatever is called in between.                                          *)
LoadsAndTimersHold == OneLoadPerKey /\ InflightIsAlive /\ TimerIsArmed
=============================================================================
