---------------------------- MODULE ContentProofs ---------------------------
(***************************************************************************)
(* Proofs about Services, for any number of requests, users, documents and *)
(* widths: files, votes, CRUD services, documents, posts, the import of    *)
(* countries, the rights of users, and comments.  A section per part, with *)
(* the inductive invariant it needs and the lemmas that it rests on, and   *)
(* at the end what follows of ServicesSpec, whose behaviours are those of  *)
(* one part.                                                               *)
(***************************************************************************)
EXTENDS Services, FiniteSetTheorems, SequenceTheorems, TLAPS


-----------------------------------------------------------------------------
(* FileService.  The id and the version of a document that was read for a  *)
(* scaling stand for its bytes, as long as no upload went by without them. *)
Made(i) == i = Before \/ (i \in FileCalls /\ pc[i] \in {"invalidate", "done"})

ReadHolds(s) ==
    /\ Made(s.id)
    /\ doc # Missing /\ s.id = doc.id =>
          /\ s.version <= doc.version
          /\ s.version = doc.version /\ ~unguarded =>
                s.file = doc.file /\ \A x \in s.scaled : x.of \in {s.file, Same}

ScalesHold ==
    /\ doc # Missing => Made(doc.id)
    /\ \A w \in Widths : load[w] \in Files!Doc => ReadHolds(load[w])
    /\ saving # None => ReadHolds(saving.from) /\ \A x \in saving.add : x.of \in {saving.from.file, Same}
    /\ Files!ScaledOfStored

(* Who is not outdated has read the volatility that there is.              *)
VolatilityHolds ==
    /\ \A c \in FileCalls \ outdated :
          pc[c] = "save" /\ found[c] # Missing /\ doc # Missing => found[c].volatile = doc.volatile
    /\ Files!KeptAsAsked

(* Who may still be answered that the image is stored has seen it stored.  *)
ProxiesHold ==
    /\ \A c \in FileCalls : pc[c] = "delete" => kind[c] = "remove"
    /\ \A c \in FileCalls : answer[c] = "ok" => pc[c] = "done"
    /\ \A c \in FileCalls \ excused : kind[c] = "proxy" =>
          /\ pc[c] = "invalidate" => doc # Missing
          /\ pc[c] = "save" /\ found[c] # Missing => doc # Missing
    /\ Files!ProxiedIsStored

FilesInv == Files!TypeOK /\ ScalesHold /\ VolatilityHolds /\ ProxiesHold

LEMMA FilesStart == Files!Init => FilesInv
<1> SUFFICES ASSUME Files!Init PROVE FilesInv
  OBVIOUS
<1>1. doc \in Files!Doc \union {Missing} /\ (doc # Missing => doc \in FirstFiles)
  BY FilesFirst DEF Files!Init
<1>2. Files!TypeOK
  <2>1. wish \in BOOLEAN
    BY <1>1 DEF Files!Init, Files!Doc
  <2> QED BY <1>1, <2>1 DEF Files!Init, Files!TypeOK
<1>3. ScalesHold
  BY <1>1, FilesFirst DEF Files!Init, ScalesHold, Files!ScaledOfStored, Made
<1>4. VolatilityHolds
  BY <1>1 DEF Files!Init, VolatilityHolds, Files!KeptAsAsked
<1>5. ProxiesHold
  BY <1>1 DEF Files!Init, ProxiesHold, Files!ProxiedIsStored
<1> QED BY <1>2, <1>3, <1>4, <1>5 DEF FilesInv

(* What a save of the queue and a save of a request make of the document.  *)
LEMMA QueuedSave ==
  ASSUME Files!TypeOK, Files!SaveLastFetch, doc' # doc
  PROVE  /\ saving # None /\ Files!Matches(saving)
         /\ doc \in Files!Doc /\ doc' \in Files!Doc /\ doc'.id = doc.id /\ doc'.file = doc.file /\ doc'.volatile = doc.volatile
         /\ doc'.version = doc.version + 1
         /\ doc'.scaled = (IF Files!Setting(saving) THEN saving.from.scaled ELSE doc.scaled) \union saving.add
<1>1. saving \in Files!Save /\ saving # None /\ Files!Matches(saving) /\ doc \in Files!Doc
  BY DEF Files!TypeOK, Files!SaveLastFetch, Files!Matches
<1> DEFINE new == (IF Files!Setting(saving) THEN saving.from.scaled ELSE doc.scaled) \union saving.add
<1>2. doc' = [doc EXCEPT !.version = doc.version + 1, !.scaled = new]
  BY <1>1 DEF Files!SaveLastFetch, Files!Doc
<1>3. new \in SUBSET Files!Scaled /\ doc.version + 1 \in Nat
  BY <1>1 DEF Files!Save, Files!Doc
<1> HIDE DEF new
<1>4. doc' \in Files!Doc /\ doc'.id = doc.id /\ doc'.file = doc.file /\ doc'.volatile = doc.volatile
      /\ doc'.version = doc.version + 1 /\ doc'.scaled = new
  BY <1>1, <1>2, <1>3 DEF Files!Doc
<1> QED BY <1>1, <1>4 DEF new

LEMMA RequestsSave ==
  ASSUME Files!TypeOK, NEW c \in FileCalls, Files!SaveDoc(c)
  PROVE  /\ doc' \in Files!Doc
         /\ \/ found[c] = Missing /\ doc = Missing
               /\ doc'.id = c /\ doc'.scaled = {} /\ doc'.volatile = ~keep[c]
            \/ /\ found[c] \in Files!Doc /\ doc \in Files!Doc /\ doc'.id = doc.id
               /\ doc'.volatile = IF found[c].volatile = ~keep[c] THEN doc.volatile ELSE ~keep[c]
               /\ \/ /\ doc'.file = doc.file /\ doc'.scaled = doc.scaled /\ doc'.version = doc.version
                     /\ unguarded' = unguarded
                  \/ doc'.scaled = {} /\ doc'.version = doc.version + 1
                  \/ /\ doc'.scaled = doc.scaled /\ doc'.version = doc.version
                     /\ unguarded' = (unguarded \/ Files!Scaling \/ doc.scaled # {})
<1>1. pc[c] = "save" /\ Files!Accepted(c) /\ found[c] \in Files!Doc \union {Missing} /\ doc \in Files!Doc \union {Missing}
      /\ keep[c] \in BOOLEAN /\ c \in Files!Files
  BY DEF Files!TypeOK, Files!SaveDoc, Files!Files
<1>2. CASE found[c] = Missing
  <2>1. doc' = [id |-> c, file |-> c, scaled |-> {}, version |-> 0, volatile |-> ~keep[c]] /\ doc = Missing
    BY <1>1, <1>2 DEF Files!SaveDoc, Files!Insert, Files!Accepted, Files!setVolatility
  <2> QED BY <1>1, <1>2, <2>1 DEF Files!Doc
<1>3. CASE found[c] # Missing
  <2>1. found[c] \in Files!Doc /\ doc \in Files!Doc
    BY <1>1, <1>3 DEF Files!Accepted
  <2> DEFINE v == Files!Written(found[c].volatile, Files!setVolatility(c), doc.volatile)
  <2>2. v = IF found[c].volatile = ~keep[c] THEN doc.volatile ELSE ~keep[c]
    BY DEF Files!Written, Files!setVolatility
  <2>3. v \in BOOLEAN
    BY <1>1, <2>1, <2>2 DEF Files!Doc
  <2>4. Files!Update(c)
    BY <1>3 DEF Files!SaveDoc
  <2>5. CASE kind[c] = "tag"
    <3>1. doc' = [doc EXCEPT !.volatile = v] /\ unguarded' = unguarded
      BY <2>1, <2>4, <2>5 DEF Files!Update, Files!Doc
    <3> HIDE DEF v
    <3>2. /\ doc' \in Files!Doc /\ doc'.id = doc.id /\ doc'.volatile = v
          /\ doc'.file = doc.file /\ doc'.scaled = doc.scaled /\ doc'.version = doc.version
      BY <2>1, <2>3, <3>1 DEF Files!Doc
    <3> QED BY <2>1, <2>2, <3>1, <3>2
  <2>6. CASE kind[c] # "tag"
    <3> DEFINE s == IF found[c].scaled # {} THEN {} ELSE doc.scaled
               n == IF found[c].scaled # {} THEN doc.version + 1 ELSE doc.version
    <3>1. /\ doc' = [doc EXCEPT !.file = c, !.volatile = v, !.scaled = s, !.version = n]
          /\ unguarded' = (found[c].scaled = {} /\ (unguarded \/ Files!Scaling \/ doc.scaled # {}))
      BY <2>1, <2>4, <2>6 DEF Files!Update, Files!Doc
    <3>2. s \in SUBSET Files!Scaled /\ n \in Nat
      BY <2>1 DEF Files!Doc
    <3> HIDE DEF v, s, n
    <3>3. doc' \in Files!Doc /\ doc'.id = doc.id /\ doc'.volatile = v /\ doc'.scaled = s /\ doc'.version = n
      BY <1>1, <2>1, <2>3, <3>1, <3>2 DEF Files!Doc
    <3> QED BY <2>1, <2>2, <3>1, <3>3 DEF s, n
  <2> QED BY <2>5, <2>6
<1> QED BY <1>2, <1>3

LEMMA FileTypesStay == Files!TypeOK /\ [Files!Next]_(Files!fileVars) => Files!TypeOK'
<1> SUFFICES ASSUME Files!TypeOK, [Files!Next]_(Files!fileVars) PROVE Files!TypeOK'
  OBVIOUS
<1>1. CASE UNCHANGED Files!fileVars
  BY <1>1 DEF Files!TypeOK, Files!fileVars, Files!requests, Files!tagging
<1>2. ASSUME NEW w \in Widths, Files!Find(w) \/ Files!Expire(w) PROVE Files!TypeOK'
  BY <1>2 DEF Files!TypeOK, Files!Find, Files!Expire, Files!requests, Files!tagging
<1>3. ASSUME NEW w \in Widths, Files!Serve(w) PROVE Files!TypeOK'
  <2>1. saving' \in Files!Save \union {None}
    <3>1. CASE load[w] = Missing \/ saving # None
      BY <1>3, <3>1 DEF Files!Serve, Files!Queue, Files!TypeOK
    <3>2. CASE load[w] # Missing /\ saving = None
      <4>1. load[w] \in Files!Doc
        BY <1>3, <3>2 DEF Files!Serve, Files!TypeOK
      <4>2. Files!NewScale(load[w], w) \in Files!Scaled
        BY <4>1, FilesFirst DEF Files!NewScale, Files!Doc, Files!Scaled, Files!Files
      <4>3. PICK add \in SUBSET Files!Scaled : saving' = [from |-> load[w], add |-> add]
        BY <1>3, <3>2, <4>2 DEF Files!Serve, Files!Queue
      <4> QED BY <4>1, <4>3 DEF Files!Save
    <3> QED BY <3>1, <3>2
  <2> QED BY <1>3, <2>1 DEF Files!TypeOK, Files!Serve, Files!requests, Files!tagging
<1>4. CASE Files!SaveLastFetch
  <2>1. doc' \in Files!Doc \union {Missing}
    BY <1>4, QueuedSave DEF Files!TypeOK
  <2> QED BY <1>4, <2>1 DEF Files!TypeOK, Files!SaveLastFetch, Files!requests, Files!tagging
<1>5. CASE Files!SaveFails \/ Files!HandleCron
  BY <1>5 DEF Files!TypeOK, Files!SaveFails, Files!HandleCron, Files!Gone, Files!requests, Files!tagging
<1>6. ASSUME NEW c \in FileCalls, Files!FindDoc(c) \/ Files!Fetch(c) PROVE Files!TypeOK'
  BY <1>6 DEF Files!TypeOK, Files!FindDoc, Files!Fetch, Files!Read, Files!Reply, Files!Goto
<1>7. ASSUME NEW c \in FileCalls, Files!SaveDoc(c) PROVE Files!TypeOK'
  <2>1. doc' \in Files!Doc
    BY <1>7, RequestsSave
  <2>2. /\ UNCHANGED <<cached, load, saving, kind, keep, excused>>
        /\ Files!Reply(c, "ok") \/ (Files!Goto(c, "invalidate") /\ UNCHANGED <<found, answer>>)
    BY <1>7 DEF Files!SaveDoc
  <2>3. wish' \in BOOLEAN /\ outdated' \subseteq FileCalls /\ blurred' \in BOOLEAN
    <3>1. Files!Noted(c)
      BY <1>7 DEF Files!SaveDoc, Files!Insert, Files!Update
    <3>2. wish' \in BOOLEAN /\ blurred' \in BOOLEAN
      BY <3>1 DEF Files!Noted
    <3>3. outdated' \subseteq FileCalls
      BY <3>1 DEF Files!Noted, Files!TypeOK
    <3> QED BY <3>2, <3>3
  <2>4. unguarded' \in BOOLEAN
    BY <1>7 DEF Files!SaveDoc, Files!Insert, Files!Update, Files!TypeOK
  <2> QED BY <2>1, <2>2, <2>3, <2>4 DEF Files!TypeOK, Files!Reply, Files!Goto
<1>8. ASSUME NEW c \in FileCalls, Files!SaveRefused(c) \/ Files!SaveLost(c) \/ Files!Invalidate(c) PROVE Files!TypeOK'
  BY <1>8 DEF Files!TypeOK, Files!SaveRefused, Files!SaveLost, Files!Invalidate, Files!Reply, Files!Goto, Files!tagging
<1>9. ASSUME NEW c \in FileCalls, Files!Delete(c) PROVE Files!TypeOK'
  BY <1>9 DEF Files!TypeOK, Files!Delete, Files!Gone, Files!Goto, Files!tagging
<1> QED BY <1>1, <1>2, <1>3, <1>4, <1>5, <1>6, <1>7, <1>8, <1>9 DEF Files!Next

(* An id that is taken stays taken.                                        *)
LEMMA MadeStays ==
  ASSUME Files!TypeOK, [Files!Next]_(Files!fileVars), NEW i, Made(i)
  PROVE  Made(i)'
<1>1. \A c \in FileCalls : pc[c] \in {"invalidate", "done"} => pc'[c] \in {"invalidate", "done"}
  <2>1. CASE UNCHANGED pc
    BY <2>1
  <2>2. ASSUME NEW d \in FileCalls, ~UNCHANGED pc, Files!FindDoc(d) \/ Files!Fetch(d) \/ Files!SaveDoc(d) \/ Files!SaveRefused(d)
                                    \/ Files!SaveLost(d) \/ Files!Delete(d) \/ Files!Invalidate(d)
        PROVE  \A c \in FileCalls : pc[c] \in {"invalidate", "done"} => pc'[c] \in {"invalidate", "done"}
    BY <2>2 DEF Files!TypeOK, Files!FindDoc, Files!Fetch, Files!SaveDoc, Files!SaveRefused, Files!SaveLost, Files!Delete, Files!Invalidate, Files!Reply, Files!Goto
  <2> QED BY <2>1, <2>2 DEF Files!Next, Files!fileVars, Files!requests, Files!Find, Files!Serve, Files!Expire, Files!SaveLastFetch, Files!SaveFails, Files!HandleCron
<1> QED BY <1>1 DEF Made

(* A step that changes no document but to remove it, that does not reset   *)
(* `unguarded` and adds to what was read only the document itself.         *)
LEMMA ScalesStay ==
  ASSUME Files!TypeOK, ScalesHold, [Files!Next]_(Files!fileVars),
         doc' \in {doc, Missing}, unguarded' = unguarded,
         \A w \in Widths : load'[w] \in Files!Doc => load'[w] \in {load[w], doc},
         saving' # None =>
            \/ saving' = saving
            \/ /\ \E w \in Widths : load[w] \in Files!Doc /\ saving'.from = load[w]
               /\ \A x \in saving'.add : x.of \in {saving'.from.file, Same}
  PROVE  ScalesHold'
<1>1. ASSUME NEW s, ReadHolds(s) PROVE Made(s.id)' /\ (doc' # Missing => ReadHolds(s)')
  <2>1. Made(s.id)'
    BY <1>1, MadeStays DEF ReadHolds
  <2> QED BY <1>1, <2>1 DEF ReadHolds
<1>2. doc # Missing => ReadHolds(doc)
  BY DEF ScalesHold, Files!ScaledOfStored, ReadHolds, Files!TypeOK, Files!Doc
<1>3. ASSUME NEW s, ReadHolds(s) PROVE ReadHolds(s)'
  BY <1>1, <1>3 DEF ReadHolds
<1>4. doc' # Missing => (Made(doc.id))'
  <2> SUFFICES ASSUME doc' # Missing PROVE (Made(doc.id))'
    OBVIOUS
  <2>1. doc' = doc /\ Made(doc'.id)
    BY DEF ScalesHold
  <2> QED BY <2>1, MadeStays DEF Made
<1>5. \A w \in Widths : load'[w] \in Files!Doc => ReadHolds(load'[w])
  BY <1>2, FilesFirst DEF ScalesHold
<1>6. saving' # None => ReadHolds(saving'.from) /\ \A x \in saving'.add : x.of \in {saving'.from.file, Same}
  BY DEF ScalesHold
<1>7. Files!ScaledOfStored'
  BY DEF ScalesHold, Files!ScaledOfStored
<1>8. \A w \in Widths : load'[w] \in Files!Doc => (ReadHolds(load[w]))'
  <2> SUFFICES ASSUME NEW w \in Widths, load'[w] \in Files!Doc PROVE (ReadHolds(load[w]))'
    OBVIOUS
  <2> DEFINE s == load'[w]
  <2>1. ReadHolds(s)
    BY <1>5
  <2> QED BY <2>1, <1>3 DEF ReadHolds
<1>9. saving' # None => (ReadHolds(saving.from))'
  <2> SUFFICES ASSUME saving' # None PROVE (ReadHolds(saving.from))'
    OBVIOUS
  <2>1. ReadHolds(saving'.from)
    BY <1>6
  <2> QED BY <2>1, <1>3 DEF ReadHolds
<1> QED BY <1>4, <1>6, <1>7, <1>8, <1>9 DEF ScalesHold

LEMMA QueuedKeepsScales ==
  ASSUME Files!TypeOK, ScalesHold, Files!SaveLastFetch
  PROVE  ScalesHold'
<1>1. [Files!Next]_(Files!fileVars) /\ saving' = None /\ UNCHANGED <<load, unguarded, pc>>
  BY DEF Files!Next, Files!SaveLastFetch, Files!requests
<1>2. CASE doc' = doc
  BY <1>1, <1>2, ScalesStay
<1>3. CASE doc' # doc
  <2>1. /\ saving # None /\ Files!Matches(saving)
        /\ doc \in Files!Doc /\ doc' \in Files!Doc /\ doc'.id = doc.id /\ doc'.file = doc.file
        /\ doc'.version = doc.version + 1
        /\ doc'.scaled = (IF Files!Setting(saving) THEN saving.from.scaled ELSE doc.scaled) \union saving.add
    BY <1>3, QueuedSave
  <2>2. doc # Missing /\ doc' # Missing
    BY <2>1, FilesFirst
  <2>3. doc.version \in Nat
    BY <2>1 DEF Files!Doc
  <2>4. ASSUME NEW s \in Files!Doc, ReadHolds(s) PROVE ReadHolds(s)'
    <3>1. s.version \in Nat
      BY DEF Files!Doc
    <3>2. Made(s.id)' /\ (s.id = doc'.id => s.version < doc'.version)
      BY <1>1, <2>1, <2>2, <2>3, <2>4, <3>1 DEF ReadHolds, Made
    <3> QED BY <3>1, <3>2, <2>1, <2>3 DEF ReadHolds
  <2>5. ASSUME ~unguarded PROVE \A x \in doc'.scaled : x.of \in {doc'.file, Same}
    <3>1. ReadHolds(saving.from) /\ \A x \in saving.add : x.of \in {saving.from.file, Same}
      BY <2>1 DEF ScalesHold
    <3>2. \A x \in doc.scaled : x.of \in {doc.file, Same}
      BY <2>2, <2>5 DEF ScalesHold, Files!ScaledOfStored
    <3>3. CASE Files!Setting(saving)
      <4>1. saving.from.file = doc.file /\ \A x \in saving.from.scaled : x.of \in {saving.from.file, Same}
        BY <2>1, <2>2, <2>5, <3>1, <3>3 DEF Files!Matches, ReadHolds
      <4> QED BY <2>1, <3>1, <3>3, <4>1
    <3>4. CASE ~Files!Setting(saving)
      <4>1. \A x \in saving.add : x.of = Same
        BY <3>4 DEF Files!Setting
      <4> QED BY <2>1, <3>2, <3>4, <4>1
    <3> QED BY <3>3, <3>4
  <2>6. (Made(doc.id))'
    BY <1>1, <2>1, <2>2 DEF ScalesHold, Made
  <2>7. \A w \in Widths : load[w] \in Files!Doc => (ReadHolds(load[w]))'
    <3> SUFFICES ASSUME NEW w \in Widths, load[w] \in Files!Doc PROVE (ReadHolds(load[w]))'
      OBVIOUS
    <3>1. ReadHolds(load[w])
      BY DEF ScalesHold
    <3>2. load'[w] = load[w]
      BY <1>1
    <3> QED BY <2>4, <3>1, <3>2 DEF ReadHolds
  <2> QED BY <1>1, <2>2, <2>5, <2>6, <2>7 DEF ScalesHold, Files!ScaledOfStored
<1> QED BY <1>2, <1>3

LEMMA RequestsKeepScales ==
  ASSUME Files!TypeOK, ScalesHold, NEW c \in FileCalls, Files!SaveDoc(c)
  PROVE  ScalesHold'
<1>1. [Files!Next]_(Files!fileVars) /\ UNCHANGED <<load, saving>> /\ pc[c] = "save"
  BY DEF Files!Next, Files!SaveDoc
<1>2. \A i : Made(i) => Made(i)'
  BY <1>1, MadeStays
<1>3. pc'[c] \in {"invalidate", "done"}
  BY DEF Files!SaveDoc, Files!Reply, Files!Goto, Files!TypeOK
<1>4. ~Made(c)
  BY <1>1, FilesFirst DEF Made
<1>5. doc' \in Files!Doc /\ doc' # Missing /\ doc'.version \in Nat
  BY RequestsSave, FilesFirst DEF Files!Doc
<1>6. /\ (Made(doc.id))'
      /\ Files!ScaledOfStored'
      /\ \A s \in Files!Doc : ReadHolds(s) /\ Files!Scaling /\ doc'.id = s.id =>
               /\ s.version <= doc'.version
               /\ s.version = doc'.version /\ ~unguarded' =>
                    s.file = doc'.file /\ \A x \in s.scaled : x.of \in {s.file, Same}
  <2>1. CASE found[c] = Missing /\ doc = Missing /\ doc'.id = c /\ doc'.scaled = {}
    <3>1. (Made(doc.id))'
      BY <1>3, <2>1 DEF Made
    <3>2. \A s : ReadHolds(s) => s.id # c
      BY <1>4 DEF ReadHolds
    <3> QED BY <2>1, <3>1, <3>2 DEF Files!ScaledOfStored
  <2>2. ASSUME doc \in Files!Doc, doc'.id = doc.id PROVE doc # Missing /\ doc.version \in Nat /\ (Made(doc.id))'
    <3>1. doc # Missing /\ Made(doc.id)
      BY <2>2, FilesFirst DEF ScalesHold
    <3> QED BY <1>2, <2>2, <3>1 DEF Made, Files!Doc
  <2>3. CASE /\ doc \in Files!Doc /\ doc'.id = doc.id
             /\ doc'.file = doc.file /\ doc'.scaled = doc.scaled /\ doc'.version = doc.version
             /\ unguarded' = unguarded
    BY <2>2, <2>3 DEF ScalesHold, Files!ScaledOfStored, ReadHolds
  <2>4. CASE doc \in Files!Doc /\ doc'.id = doc.id /\ doc'.scaled = {} /\ doc'.version = doc.version + 1
    <3>1. ASSUME NEW s \in Files!Doc, ReadHolds(s), doc'.id = s.id PROVE s.version < doc'.version
      <4>1. s.version <= doc.version /\ s.version \in Nat
        BY <2>2, <2>4, <3>1 DEF ReadHolds, Files!Doc
      <4> QED BY <2>2, <2>4, <4>1
    <3>2. \A s \in Files!Doc : s.version \in Nat
      BY DEF Files!Doc
    <3> QED BY <1>5, <2>2, <2>4, <3>1, <3>2 DEF Files!ScaledOfStored
  <2>5. CASE /\ doc \in Files!Doc /\ doc'.id = doc.id /\ doc'.scaled = doc.scaled /\ doc'.version = doc.version
             /\ unguarded' = (unguarded \/ Files!Scaling \/ doc.scaled # {})
    BY <2>2, <2>5 DEF ScalesHold, Files!ScaledOfStored, ReadHolds
  <2> QED BY RequestsSave, <2>1, <2>3, <2>4, <2>5
<1>7. ASSUME NEW s \in Files!Doc, ReadHolds(s), Files!Scaling PROVE ReadHolds(s)'
  BY <1>2, <1>5, <1>6, <1>7 DEF ReadHolds
<1>8. \A w \in Widths : load[w] \in Files!Doc => (ReadHolds(load[w]))'
  <2> SUFFICES ASSUME NEW w \in Widths, load[w] \in Files!Doc PROVE (ReadHolds(load[w]))'
    OBVIOUS
  <2>1. ReadHolds(load[w]) /\ Files!Scaling
    BY FilesFirst DEF ScalesHold, Files!Scaling
  <2>2. load'[w] = load[w]
    BY <1>1
  <2> QED BY <1>7, <2>1, <2>2 DEF ReadHolds
<1>9. saving # None => (ReadHolds(saving.from))'
  <2> SUFFICES ASSUME saving # None PROVE (ReadHolds(saving.from))'
    OBVIOUS
  <2>1. ReadHolds(saving.from) /\ Files!Scaling /\ saving.from \in Files!Doc /\ saving' = saving
    BY <1>1 DEF ScalesHold, Files!Scaling, Files!TypeOK, Files!Save
  <2> QED BY <1>7, <2>1 DEF ReadHolds
<1>10. saving' = saving /\ load' = load
  BY <1>1
<1> QED BY <1>5, <1>6, <1>8, <1>9, <1>10 DEF ScalesHold

LEMMA ScalesInductive == Files!TypeOK /\ ScalesHold /\ [Files!Next]_(Files!fileVars) => ScalesHold'
<1> SUFFICES ASSUME Files!TypeOK, ScalesHold, [Files!Next]_(Files!fileVars) PROVE ScalesHold'
  OBVIOUS
<1>1. None \notin Files!Doc
  BY FilesFirst
<1>2. CASE UNCHANGED <<load, saving, unguarded>> /\ doc' \in {doc, Missing}
  BY <1>2, ScalesStay
<1>3. ASSUME NEW w \in Widths, Files!Find(w) PROVE ScalesHold'
  <2>1. \A v \in Widths : load'[v] \in {load[v], doc}
    BY <1>3 DEF Files!Find, Files!TypeOK
  <2> QED BY <1>3, <2>1, ScalesStay DEF Files!Find
<1>4. ASSUME NEW w \in Widths, Files!Serve(w) PROVE ScalesHold'
  <2>1. \A v \in Widths : load'[v] \in Files!Doc => load'[v] = load[v]
    BY <1>1, <1>4 DEF Files!Serve, Files!TypeOK
  <2>2. doc' = doc /\ unguarded' = unguarded
    BY <1>4 DEF Files!Serve
  <2>3. CASE saving' = saving
    BY <2>1, <2>2, <2>3, ScalesStay
  <2>4. CASE saving' # saving
    <3>1. load[w] \in Files!Doc
      BY <1>4, <2>4 DEF Files!Serve, Files!TypeOK
    <3>2. saving' = [from |-> load[w],
                     add |-> IF w = 0 \/ Files!OfWidth(load[w], w) # {} THEN {} ELSE {Files!NewScale(load[w], w)}]
      BY <1>4, <2>4 DEF Files!Serve, Files!Queue
    <3>3. saving'.from = load[w] /\ \A x \in saving'.add : x = Files!NewScale(load[w], w)
      BY <3>2
    <3>4. \A x \in saving'.add : x.of \in {saving'.from.file, Same}
      BY <3>3 DEF Files!NewScale
    <3> QED BY <2>1, <2>2, <3>1, <3>3, <3>4, ScalesStay
  <2> QED BY <2>3, <2>4
<1>5. CASE UNCHANGED Files!fileVars \/ Files!SaveFails \/ Files!HandleCron \/ \E w \in Widths : Files!Expire(w)
  <2>1. doc' \in {doc, Missing} /\ unguarded' = unguarded /\ load' = load /\ saving' \in {saving, None}
    BY <1>5 DEF Files!fileVars, Files!SaveFails, Files!HandleCron, Files!Gone, Files!Expire
  <2> QED BY <2>1, ScalesStay
<1>6. ASSUME NEW c \in FileCalls,
             Files!FindDoc(c) \/ Files!Fetch(c) \/ Files!SaveRefused(c) \/ Files!SaveLost(c) \/ Files!Delete(c) \/ Files!Invalidate(c)
      PROVE  ScalesHold'
  BY <1>2, <1>6 DEF Files!FindDoc, Files!Fetch, Files!SaveRefused, Files!SaveLost, Files!Delete, Files!Gone, Files!Invalidate
<1> QED BY <1>3, <1>4, <1>5, <1>6, QueuedKeepsScales, RequestsKeepScales DEF Files!Next

LEMMA VolatilityInductive == Files!TypeOK /\ VolatilityHolds /\ [Files!Next]_(Files!fileVars) => VolatilityHolds'
<1> SUFFICES ASSUME Files!TypeOK, VolatilityHolds, [Files!Next]_(Files!fileVars) PROVE VolatilityHolds'
  OBVIOUS
<1> USE DEF VolatilityHolds, Files!KeptAsAsked
<1>1. CASE doc' \in {doc, Missing} /\ UNCHANGED <<Files!tagging, pc, found>>
  BY <1>1 DEF Files!tagging
<1>2. ASSUME NEW c \in FileCalls, doc' \in {doc, Missing} /\ UNCHANGED Files!tagging,
             \/ Files!Reply(c, "ok") \/ Files!Reply(c, "error")
             \/ UNCHANGED found /\ (Files!Goto(c, "fetch") \/ Files!Goto(c, "invalidate"))
      PROVE  VolatilityHolds'
  BY <1>2 DEF Files!tagging, Files!Reply, Files!Goto, Files!TypeOK
<1>3. ASSUME NEW c \in FileCalls, doc' = doc, Files!Read(c), Files!Goto(c, "save"), UNCHANGED <<wish, blurred>>
      PROVE  VolatilityHolds'
  BY <1>3 DEF Files!Read, Files!Goto, Files!TypeOK
<1>4. CASE UNCHANGED Files!fileVars \/ Files!SaveFails \/ Files!HandleCron \/ \E w \in Widths : Files!Find(w) \/ Files!Serve(w) \/ Files!Expire(w)
  BY <1>1, <1>4 DEF Files!fileVars, Files!requests, Files!SaveFails, Files!HandleCron, Files!Gone, Files!Find, Files!Serve, Files!Expire
<1>5. CASE Files!SaveLastFetch
  <2>1. doc' = doc \/ (doc \in Files!Doc /\ doc'.volatile = doc.volatile)
    BY <1>5, QueuedSave
  <2>2. UNCHANGED <<Files!tagging, pc, found>> /\ (doc # Missing <=> doc' # Missing)
    BY <1>5, QueuedSave, FilesFirst DEF Files!SaveLastFetch, Files!requests
  <2> QED BY <2>1, <2>2 DEF Files!tagging
<1>6. ASSUME NEW c \in FileCalls, Files!FindDoc(c) \/ Files!Fetch(c) PROVE VolatilityHolds'
  <2>1. doc' = doc /\ UNCHANGED <<wish, blurred>>
    BY <1>6 DEF Files!FindDoc, Files!Fetch
  <2>2. \/ Files!Read(c) /\ Files!Goto(c, "save")
        \/ /\ UNCHANGED outdated
           /\ \/ Files!Reply(c, "ok") \/ Files!Reply(c, "error")
              \/ UNCHANGED found /\ Files!Goto(c, "fetch")
    BY <1>6 DEF Files!FindDoc, Files!Fetch
  <2>3. CASE Files!Read(c) /\ Files!Goto(c, "save")
    BY <1>3, <2>1, <2>3
  <2>4. CASE ~(Files!Read(c) /\ Files!Goto(c, "save"))
    BY <1>2, <2>1, <2>2, <2>4 DEF Files!tagging
  <2> QED BY <2>3, <2>4
<1>7. ASSUME NEW c \in FileCalls, Files!SaveRefused(c) \/ Files!SaveLost(c) \/ Files!Delete(c) \/ Files!Invalidate(c) PROVE VolatilityHolds'
  BY <1>2, <1>7 DEF Files!SaveRefused, Files!SaveLost, Files!Delete, Files!Gone, Files!Invalidate
<1>8. ASSUME NEW c \in FileCalls, Files!SaveDoc(c) PROVE VolatilityHolds'
  <2>1. /\ wish' = ~keep[c] /\ blurred' = (c \in outdated)
        /\ outdated' = outdated \union ({d \in FileCalls : pc[d] = "save"} \ {c})
    BY <1>8 DEF Files!SaveDoc, Files!Insert, Files!Update, Files!Noted
  <2>2. /\ pc[c] = "save" /\ pc'[c] # "save" /\ \A d \in FileCalls : d # c => pc'[d] = pc[d]
    BY <1>8 DEF Files!SaveDoc, Files!Reply, Files!Goto, Files!TypeOK
  <2>3. \A d \in FileCalls : pc'[d] = "save" => d \in outdated'
    BY <2>1, <2>2
  <2>4. ~blurred' /\ doc'.volatile => wish'
    <3>1. CASE found[c] = Missing
      BY <1>8, <2>1, <3>1, RequestsSave, FilesFirst
    <3>2. CASE found[c] # Missing
      <4>1. /\ doc \in Files!Doc /\ doc # Missing /\ found[c] \in Files!Doc /\ keep[c] \in BOOLEAN
            /\ doc'.volatile = IF found[c].volatile = ~keep[c] THEN doc.volatile ELSE ~keep[c]
        BY <1>8, <3>2, RequestsSave, FilesFirst DEF Files!TypeOK
      <4>2. c \notin outdated => found[c].volatile = doc.volatile
        BY <2>2, <3>2, <4>1
      <4> QED BY <2>1, <4>1, <4>2
    <3> QED BY <3>1, <3>2
  <2> QED BY <2>3, <2>4
<1> QED BY <1>4, <1>5, <1>6, <1>7, <1>8 DEF Files!Next

LEMMA ProxiesInductive == Files!TypeOK /\ ProxiesHold /\ [Files!Next]_(Files!fileVars) => ProxiesHold'
<1> SUFFICES ASSUME Files!TypeOK, ProxiesHold, [Files!Next]_(Files!fileVars) PROVE ProxiesHold'
  OBVIOUS
<1> USE DEF ProxiesHold, Files!ProxiedIsStored
<1>1. CASE doc # Missing => doc' # Missing
  <2>1. CASE UNCHANGED <<Files!requests, excused>>
    BY <1>1, <2>1 DEF Files!requests
  <2>2. ASSUME NEW c \in FileCalls, Files!FindDoc(c) PROVE ProxiesHold'
    BY <1>1, <2>2 DEF Files!FindDoc, Files!Read, Files!Reply, Files!Goto, Files!TypeOK
  <2>3. ASSUME NEW c \in FileCalls, Files!Fetch(c) PROVE ProxiesHold'
    BY <1>1, <2>3 DEF Files!Fetch, Files!Read, Files!Reply, Files!Goto, Files!TypeOK
  <2>4. ASSUME NEW c \in FileCalls, Files!SaveDoc(c) PROVE ProxiesHold'
    <3>1. doc' # Missing
      BY <2>4, RequestsSave, FilesFirst
    <3> QED BY <2>4, <3>1 DEF Files!SaveDoc, Files!Reply, Files!Goto, Files!TypeOK
  <2>5. ASSUME NEW c \in FileCalls, Files!SaveRefused(c) PROVE ProxiesHold'
    <3>1. c \in excused \/ kind[c] # "proxy" \/ doc # Missing
      BY <2>5 DEF Files!SaveRefused, Files!Accepted
    <3> QED BY <1>1, <2>5, <3>1 DEF Files!SaveRefused, Files!Reply, Files!Goto, Files!TypeOK
  <2>6. ASSUME NEW c \in FileCalls, Files!SaveLost(c) PROVE ProxiesHold'
    BY <1>1, <2>6 DEF Files!SaveLost, Files!Reply, Files!Goto, Files!TypeOK
  <2>7. ASSUME NEW c \in FileCalls, Files!Delete(c) PROVE ProxiesHold'
    BY <1>1, <2>7 DEF Files!Delete, Files!Gone, Files!Goto, Files!TypeOK
  <2>8. ASSUME NEW c \in FileCalls, Files!Invalidate(c) PROVE ProxiesHold'
    BY <1>1, <2>8 DEF Files!Invalidate, Files!Reply, Files!Goto, Files!TypeOK
  <2> QED BY <1>1, <2>1, <2>2, <2>3, <2>4, <2>5, <2>6, <2>7, <2>8
          DEF Files!Next, Files!fileVars, Files!Find, Files!Serve, Files!Expire, Files!SaveLastFetch, Files!SaveFails, Files!HandleCron, Files!Gone
<1>2. CASE doc # Missing /\ doc' = Missing
  <2>1. Files!HandleCron \/ Files!SaveLastFetch \/ \E c \in FileCalls : Files!SaveDoc(c) \/ Files!Delete(c)
    BY <1>2 DEF Files!Next, Files!fileVars, Files!Find, Files!Serve, Files!Expire, Files!SaveFails, Files!FindDoc, Files!Fetch, Files!SaveRefused, Files!SaveLost, Files!Invalidate
  <2>2. ~Files!SaveLastFetch /\ \A c \in FileCalls : ~Files!SaveDoc(c)
    BY <1>2, QueuedSave, RequestsSave, FilesFirst
  <2>3. Files!HandleCron \/ \E c \in FileCalls : Files!Delete(c)
    BY <2>1, <2>2
  <2>4. /\ UNCHANGED <<kind, found, answer>>
        /\ \A c \in FileCalls : pc'[c] # pc[c] => pc[c] = "delete" /\ pc'[c] = "invalidate"
    BY <2>3 DEF Files!HandleCron, Files!requests, Files!Delete, Files!Goto, Files!TypeOK
  <2>5. excused' = excused \union {c \in FileCalls : pc[c] # "find"}
    BY <1>2, <2>3 DEF Files!HandleCron, Files!Delete, Files!Gone
  <2> QED BY <2>4, <2>5
<1> QED BY <1>1, <1>2

LEMMA FilesInductive == FilesInv /\ [Files!Next]_(Files!fileVars) => FilesInv'
BY FileTypesStay, ScalesInductive, VolatilityInductive, ProxiesInductive DEF FilesInv

-----------------------------------------------------------------------------
(* CommentVotes.  A version of the comment stands for its votes: what a    *)
(* vote has loaded at the version that the comment has is what it holds.   *)
VotesInv ==
    /\ Votes!VotesTypeOK
    /\ \A c \in Three : pc[c] = "save" =>
          /\ kind[c] \in Votes!Votes \union {"answer", "edit"}
          /\ found[c] \in Votes!Comment
          /\ comment # Missing =>
                /\ found[c].version <= comment.version
                /\ found[c].version = comment.version =>
                      /\ found[c].upvoteUserIds = comment.upvoteUserIds
                      /\ found[c].downvoteUserIds = comment.downvoteUserIds
                      /\ found[c].votesLength = comment.votesLength
    /\ Votes!TallyFollowsVotes

LEMMA VotesStart == Votes!VotesInit => VotesInv
<1> SUFFICES ASSUME Votes!VotesInit PROVE VotesInv
  OBVIOUS
<1>1. Votes!VotesTypeOK
  <2>1. Votes!NoOne \in Votes!Lists
    BY DEF Votes!NoOne, Votes!Lists
  <2>2. comment \in Votes!Comment
    BY <2>1 DEF Votes!VotesInit, Votes!Comment
  <2> QED BY <2>2 DEF Votes!VotesInit, Votes!VotesTypeOK
<1>2. {u \in Users : Votes!Has(comment.upvoteUserIds, u)} = {} /\ {u \in Users : Votes!Has(comment.downvoteUserIds, u)} = {}
  BY DEF Votes!VotesInit, Votes!NoOne, Votes!Has
<1>3. comment.votesLength = 0 /\ comment.upvoteUserIds = Votes!NoOne /\ comment.downvoteUserIds = Votes!NoOne
  BY DEF Votes!VotesInit
<1>4. Votes!Cardinality({}) = 0
  BY FS_EmptySet DEF Votes!Cardinality, Cardinality
<1>5. Votes!TallyFollowsVotes
  BY <1>2, <1>3, <1>4 DEF Votes!TallyFollowsVotes, Votes!NoOne
<1> QED BY <1>1, <1>5 DEF VotesInv, Votes!VotesInit

(* What the save of a vote leaves in each list, in the tally and the       *)
(* version.                                                                *)
Turned(n, vote, side) == IF n > 0 THEN n - 1 ELSE IF vote = side THEN n + 1 ELSE n

LEMMA SavedVote ==
  ASSUME VotesInv, NEW c \in Three, Votes!Save(c), kind[c] \in Votes!Votes
  PROVE  /\ comment # Missing /\ comment \in Votes!Comment /\ comment' \in Votes!Comment
         /\ comment'.version = comment.version + 1
         /\ \A v \in Users : v # user[c] => /\ comment'.upvoteUserIds[v] = comment.upvoteUserIds[v]
                                            /\ comment'.downvoteUserIds[v] = comment.downvoteUserIds[v]
         /\ ~overlapped' =>
              LET up == comment.upvoteUserIds[user[c]]
                  down == comment.downvoteUserIds[user[c]]
              IN  /\ ~overlapped
                  /\ comment'.upvoteUserIds[user[c]] = Turned(up, kind[c], "UP")
                  /\ comment'.downvoteUserIds[user[c]] = Turned(down, kind[c], "DOWN")
                  /\ comment'.votesLength =
                        comment.votesLength - Votes!One(up > 0) + Votes!One(down > 0)
                            + Votes!One(kind[c] = "UP" /\ ~(up > 0)) - Votes!One(kind[c] = "DOWN" /\ ~(down > 0))
<1> DEFINE u == user[c]
           ups == Votes!Changed(found[c].upvoteUserIds, comment.upvoteUserIds, u, kind[c] = "UP")
           downs == Votes!Changed(found[c].downvoteUserIds, comment.downvoteUserIds, u, kind[c] = "DOWN")
           n == Votes!Written(found[c].votesLength, Votes!Tally(c), comment.votesLength)
<1>1. /\ pc[c] = "save" /\ u \in Users /\ found[c] \in Votes!Comment
      /\ comment # Missing /\ comment \in Votes!Comment /\ overlapped \in BOOLEAN
  BY DEF Votes!Save, Votes!Matches, VotesInv, Votes!VotesTypeOK
<1>2. Votes!Splices(c) \/ ~overlapped' => found[c].version = comment.version
  BY <1>1 DEF Votes!Save, Votes!Matches
<1>3. found[c].version = comment.version =>
          /\ found[c].upvoteUserIds = comment.upvoteUserIds
          /\ found[c].downvoteUserIds = comment.downvoteUserIds
          /\ found[c].votesLength = comment.votesLength
  BY <1>1 DEF VotesInv
<1>4. /\ found[c].upvoteUserIds \in Votes!Lists /\ comment.upvoteUserIds \in Votes!Lists
      /\ found[c].downvoteUserIds \in Votes!Lists /\ comment.downvoteUserIds \in Votes!Lists
      /\ found[c].votesLength \in Int /\ comment.votesLength \in Int /\ comment.version + 1 \in Nat
  BY <1>1 DEF Votes!Comment
<1>5. /\ ups \in Votes!Lists /\ \A v \in Users : v # u => ups[v] = comment.upvoteUserIds[v]
      /\ found[c].version = comment.version => ups[u] = Turned(comment.upvoteUserIds[u], kind[c], "UP")
  <2>1. Votes!Has(found[c].upvoteUserIds, u) => found[c].upvoteUserIds = comment.upvoteUserIds
    BY <1>2, <1>3 DEF Votes!Splices
  <2>2. CASE Votes!Has(found[c].upvoteUserIds, u)
    <3>1. ups = [comment.upvoteUserIds EXCEPT ![u] = comment.upvoteUserIds[u] - 1] /\ comment.upvoteUserIds[u] > 0
      BY <1>1, <1>4, <2>1, <2>2 DEF Votes!Changed, Votes!Splice, Votes!Has, Votes!Lists
    <3>2. comment.upvoteUserIds[u] - 1 \in Nat
      BY <1>1, <1>4, <3>1 DEF Votes!Lists
    <3> HIDE DEF ups
    <3> QED BY <1>1, <1>4, <3>1, <3>2 DEF Votes!Lists, Turned
  <2>3. CASE ~Votes!Has(found[c].upvoteUserIds, u)
    <3>1. ups = IF kind[c] = "UP" THEN [comment.upvoteUserIds EXCEPT ![u] = comment.upvoteUserIds[u] + 1]
                ELSE comment.upvoteUserIds
      BY <1>1, <1>4, <2>3 DEF Votes!Changed, Votes!Push, Votes!Lists
    <3>2. comment.upvoteUserIds[u] + 1 \in Nat
      BY <1>1, <1>4 DEF Votes!Lists
    <3>3. found[c].version = comment.version => ~(comment.upvoteUserIds[u] > 0)
      BY <1>3, <2>3 DEF Votes!Has
    <3> HIDE DEF ups
    <3> QED BY <1>1, <1>4, <3>1, <3>2, <3>3 DEF Votes!Lists, Turned
  <2> QED BY <2>2, <2>3
<1>6. /\ downs \in Votes!Lists /\ \A v \in Users : v # u => downs[v] = comment.downvoteUserIds[v]
      /\ found[c].version = comment.version => downs[u] = Turned(comment.downvoteUserIds[u], kind[c], "DOWN")
  <2>1. Votes!Has(found[c].downvoteUserIds, u) => found[c].downvoteUserIds = comment.downvoteUserIds
    BY <1>2, <1>3 DEF Votes!Splices
  <2>2. CASE Votes!Has(found[c].downvoteUserIds, u)
    <3>1. downs = [comment.downvoteUserIds EXCEPT ![u] = comment.downvoteUserIds[u] - 1] /\ comment.downvoteUserIds[u] > 0
      BY <1>1, <1>4, <2>1, <2>2 DEF Votes!Changed, Votes!Splice, Votes!Has, Votes!Lists
    <3>2. comment.downvoteUserIds[u] - 1 \in Nat
      BY <1>1, <1>4, <3>1 DEF Votes!Lists
    <3> HIDE DEF downs
    <3> QED BY <1>1, <1>4, <3>1, <3>2 DEF Votes!Lists, Turned
  <2>3. CASE ~Votes!Has(found[c].downvoteUserIds, u)
    <3>1. downs = IF kind[c] = "DOWN" THEN [comment.downvoteUserIds EXCEPT ![u] = comment.downvoteUserIds[u] + 1]
                ELSE comment.downvoteUserIds
      BY <1>1, <1>4, <2>3 DEF Votes!Changed, Votes!Push, Votes!Lists
    <3>2. comment.downvoteUserIds[u] + 1 \in Nat
      BY <1>1, <1>4 DEF Votes!Lists
    <3>3. found[c].version = comment.version => ~(comment.downvoteUserIds[u] > 0)
      BY <1>3, <2>3 DEF Votes!Has
    <3> HIDE DEF downs
    <3> QED BY <1>1, <1>4, <3>1, <3>2, <3>3 DEF Votes!Lists, Turned
  <2> QED BY <2>2, <2>3
<1>7. Votes!Tally(c) \in Int /\ n \in Int
  BY <1>4 DEF Votes!Tally, Votes!Written, Votes!One
<1>8. found[c].version = comment.version => n = Votes!Tally(c)
  BY <1>3 DEF Votes!Written
<1>9. comment' = [comment EXCEPT !.upvoteUserIds = ups, !.downvoteUserIds = downs,
                                 !.votesLength = n, !.version = comment.version + 1]
  <2>1. Votes!Vote(c)
    BY DEF Votes!Save, Votes!Votes
  <2> QED BY <1>1, <2>1 DEF Votes!Vote, Votes!Comment
<1> HIDE DEF ups, downs, n
<1>10. comment' \in Votes!Comment
  BY <1>1, <1>4, <1>5, <1>6, <1>7, <1>9 DEF Votes!Comment
<1>11. /\ comment'.upvoteUserIds = ups /\ comment'.downvoteUserIds = downs
       /\ comment'.votesLength = n /\ comment'.version = comment.version + 1
  BY <1>1, <1>9 DEF Votes!Comment
<1>12. ~overlapped' => ~overlapped
  BY DEF Votes!Save
<1>13. found[c].version = comment.version =>
          n = comment.votesLength - Votes!One(comment.upvoteUserIds[u] > 0) + Votes!One(comment.downvoteUserIds[u] > 0)
              + Votes!One(kind[c] = "UP" /\ ~(comment.upvoteUserIds[u] > 0))
              - Votes!One(kind[c] = "DOWN" /\ ~(comment.downvoteUserIds[u] > 0))
  BY <1>3, <1>8 DEF Votes!Tally, Votes!Has
<1> QED BY <1>1, <1>2, <1>5, <1>6, <1>10, <1>11, <1>12, <1>13

(* A list with one user more or less in it.                                *)
LEMMA VotersCount ==
  ASSUME NEW old \in Votes!Lists, NEW new \in Votes!Lists, NEW u \in Users, \A v \in Users : v # u => new[v] = old[v]
  PROVE  Cardinality({v \in Users : Votes!Has(new, v)})
           = Cardinality({v \in Users : Votes!Has(old, v)}) + Votes!One(new[u] > 0) - Votes!One(old[u] > 0)
<1> DEFINE O == {v \in Users : Votes!Has(old, v)}
           N == {v \in Users : Votes!Has(new, v)}
<1>1. IsFiniteSet(O) /\ IsFiniteSet(N)
  BY FS_Subset, VotersFinite
<1>2. Cardinality(O) \in Nat /\ Cardinality(N) \in Nat
  BY <1>1, FS_CardinalityType
<1>3. CASE old[u] > 0 <=> new[u] > 0
  <2>1. O = N
    BY <1>3 DEF Votes!Has
  <2>2. Votes!One(new[u] > 0) = Votes!One(old[u] > 0) /\ Votes!One(old[u] > 0) \in Int
    BY <1>3 DEF Votes!One
  <2> QED BY <1>2, <2>1, <2>2
<1>4. CASE ~(old[u] > 0) /\ new[u] > 0
  <2>1. N = O \union {u} /\ u \notin O
    BY <1>4 DEF Votes!Has
  <2> QED BY <1>1, <1>2, <1>4, <2>1, FS_AddElement DEF Votes!One
<1>5. CASE old[u] > 0 /\ ~(new[u] > 0)
  <2>1. O = N \union {u} /\ u \notin N
    BY <1>5 DEF Votes!Has
  <2> QED BY <1>1, <1>2, <1>5, <2>1, FS_AddElement DEF Votes!One
<1> QED BY <1>3, <1>4, <1>5

LEMMA VoteKeepsTally ==
  ASSUME VotesInv, NEW c \in Three, Votes!Save(c), kind[c] \in Votes!Votes
  PROVE  Votes!TallyFollowsVotes'
<1> SUFFICES ASSUME ~overlapped' PROVE Votes!TallyFollowsVotes'
  BY DEF Votes!TallyFollowsVotes
<1> DEFINE u == user[c]
           up == comment.upvoteUserIds
           down == comment.downvoteUserIds
           upNew == comment'.upvoteUserIds
           downNew == comment'.downvoteUserIds
<1>1. /\ comment # Missing /\ ~overlapped
      /\ up \in Votes!Lists /\ down \in Votes!Lists /\ upNew \in Votes!Lists /\ downNew \in Votes!Lists /\ comment.votesLength \in Int
      /\ \A v \in Users : v # u => upNew[v] = up[v] /\ downNew[v] = down[v]
      /\ upNew[u] = Turned(up[u], kind[c], "UP") /\ downNew[u] = Turned(down[u], kind[c], "DOWN")
      /\ comment'.votesLength = comment.votesLength - Votes!One(up[u] > 0) + Votes!One(down[u] > 0)
                                + Votes!One(kind[c] = "UP" /\ ~(up[u] > 0)) - Votes!One(kind[c] = "DOWN" /\ ~(down[u] > 0))
  BY SavedVote DEF Votes!Comment
<1>2. u \in Users /\ kind[c] \in {"UP", "DOWN"}
  BY DEF VotesInv, Votes!VotesTypeOK, Votes!Votes
<1>3. /\ \A v \in Users : up[v] + down[v] <= 1
      /\ comment.votesLength = Cardinality({v \in Users : Votes!Has(up, v)}) - Cardinality({v \in Users : Votes!Has(down, v)})
  BY <1>1 DEF VotesInv, Votes!TallyFollowsVotes, Votes!Cardinality, Cardinality
<1>4. /\ Cardinality({v \in Users : Votes!Has(up, v)}) \in Nat /\ Cardinality({v \in Users : Votes!Has(down, v)}) \in Nat
      /\ Cardinality({v \in Users : Votes!Has(upNew, v)})
           = Cardinality({v \in Users : Votes!Has(up, v)}) + Votes!One(upNew[u] > 0) - Votes!One(up[u] > 0)
      /\ Cardinality({v \in Users : Votes!Has(downNew, v)})
           = Cardinality({v \in Users : Votes!Has(down, v)}) + Votes!One(downNew[u] > 0) - Votes!One(down[u] > 0)
  <2>1. IsFiniteSet({v \in Users : Votes!Has(up, v)}) /\ IsFiniteSet({v \in Users : Votes!Has(down, v)})
    BY FS_Subset, VotersFinite
  <2> QED BY <1>1, <1>2, <2>1, VotersCount, FS_CardinalityType
<1>5. up[u] \in Nat /\ down[u] \in Nat /\ up[u] + down[u] <= 1
  BY <1>1, <1>2, <1>3 DEF Votes!Lists
<1> HIDE DEF u, up, down, upNew, downNew
<1>6. \A v \in Users : upNew[v] + downNew[v] <= 1
  <2>1. upNew[u] + downNew[u] <= 1
    BY <1>1, <1>2, <1>5 DEF Turned
  <2> QED BY <1>1, <1>3, <2>1
<1>7. comment'.votesLength = Cardinality({v \in Users : Votes!Has(upNew, v)}) - Cardinality({v \in Users : Votes!Has(downNew, v)})
  BY <1>1, <1>2, <1>3, <1>4, <1>5 DEF Turned, Votes!One
<1> QED BY <1>6, <1>7 DEF Votes!TallyFollowsVotes, Votes!Cardinality, Cardinality, upNew, downNew, Votes!Has

(* What the saves of an answer and of an edit leave alone.                 *)
LEMMA SavedOther ==
  ASSUME VotesInv, NEW c \in Three, Votes!Save(c), kind[c] \notin Votes!Votes
  PROVE  /\ comment # Missing /\ comment \in Votes!Comment /\ comment' \in Votes!Comment
         /\ comment'.version = comment.version /\ comment'.votesLength = comment.votesLength
         /\ comment'.upvoteUserIds = comment.upvoteUserIds /\ comment'.downvoteUserIds = comment.downvoteUserIds
         /\ overlapped' = overlapped
<1>1. /\ kind[c] \in {"answer", "edit"} /\ comment # Missing /\ comment \in Votes!Comment /\ found[c] \in Votes!Comment
      /\ overlapped \in BOOLEAN
  BY DEF Votes!Save, Votes!Matches, VotesInv, Votes!VotesTypeOK
<1>2. found[c].childCommentsCount + 1 \in Nat /\ found[c].editCount + 1 \in Nat
  BY <1>1 DEF Votes!Comment
<1>3. \/ comment' = [comment EXCEPT !.childCommentsCount = found[c].childCommentsCount + 1]
      \/ comment' = [comment EXCEPT !.text = c, !.editCount = found[c].editCount + 1]
  BY <1>1 DEF Votes!Save, Votes!Votes
<1> QED BY <1>1, <1>2, <1>3 DEF Votes!Comment, Votes!Save

LEMMA VotesInductive == VotesInv /\ [Votes!VotesNext]_(Votes!votesVars) => VotesInv'
<1> SUFFICES ASSUME VotesInv, [Votes!VotesNext]_(Votes!votesVars) PROVE VotesInv'
  OBVIOUS
<1> USE DEF VotesInv, Votes!VotesTypeOK
<1>1. CASE UNCHANGED Votes!votesVars
  BY <1>1 DEF Votes!votesVars, Votes!TallyFollowsVotes
<1>2. ASSUME NEW c \in Three, Votes!Find(c) PROVE VotesInv'
  <2>1. UNCHANGED <<comment, kind, user, overlapped>> /\ kind[c] # "clear" /\ kind[c] \in Votes!Kinds
    BY <1>2 DEF Votes!Find
  <2>2. Votes!TallyFollowsVotes'
    BY <2>1 DEF Votes!TallyFollowsVotes
  <2>3. CASE Votes!Done(c)
    BY <2>1, <2>2, <2>3 DEF Votes!Done, Votes!Goto
  <2>4. CASE ~Votes!Done(c)
    <3>1. PICK s \in {"delete", "save"} :
            /\ pc' = [pc EXCEPT ![c] = s]
            /\ s = "save" => kind[c] # "delete"
            /\ comment # Missing /\ found' = [found EXCEPT ![c] = comment]
      BY <1>2, <2>4 DEF Votes!Find, Votes!Goto
    <3>2. s = "save" => kind[c] \in Votes!Votes \union {"answer", "edit"}
      BY <2>1, <3>1 DEF Votes!Kinds, Votes!Votes
    <3>3. comment \in Votes!Comment /\ comment.version <= comment.version
      BY <3>1 DEF Votes!Comment
    <3> QED BY <2>1, <2>2, <3>1, <3>2, <3>3
  <2> QED BY <2>3, <2>4
<1>3. ASSUME NEW c \in Three, Votes!Save(c) PROVE VotesInv'
  <2>1. UNCHANGED <<kind, user>> /\ Votes!Done(c) /\ overlapped' \in BOOLEAN
    BY <1>3 DEF Votes!Save
  <2>2. CASE kind[c] \in Votes!Votes
    <3>1. Votes!TallyFollowsVotes'
      BY <1>3, <2>2, VoteKeepsTally
    <3>2. comment # Missing /\ comment \in Votes!Comment /\ comment' \in Votes!Comment /\ comment'.version = comment.version + 1
      BY <1>3, <2>2, SavedVote
    <3>3. \A d \in Three : pc'[d] = "save" => found'[d].version < comment'.version
      BY <2>1, <3>2 DEF Votes!Done, Votes!Goto, Votes!Comment
    <3> QED BY <2>1, <3>1, <3>2, <3>3 DEF Votes!Done, Votes!Goto, Votes!Comment
  <2>3. CASE kind[c] \notin Votes!Votes
    <3>1. /\ comment # Missing /\ comment \in Votes!Comment /\ comment' \in Votes!Comment
          /\ comment'.version = comment.version /\ comment'.votesLength = comment.votesLength
          /\ comment'.upvoteUserIds = comment.upvoteUserIds /\ comment'.downvoteUserIds = comment.downvoteUserIds
          /\ overlapped' = overlapped
      BY <1>3, <2>3, SavedOther
    <3>2. Votes!TallyFollowsVotes'
      BY <3>1 DEF Votes!TallyFollowsVotes
    <3> QED BY <2>1, <3>1, <3>2 DEF Votes!Done, Votes!Goto
  <2> QED BY <2>2, <2>3
<1>4. ASSUME NEW c \in Three, Votes!SaveRefused(c) PROVE VotesInv'
  BY <1>4 DEF Votes!SaveRefused, Votes!Done, Votes!Goto, Votes!TallyFollowsVotes
<1>5. ASSUME NEW c \in Three, Votes!Delete(c) PROVE VotesInv'
  BY <1>5 DEF Votes!Delete, Votes!Done, Votes!Goto, Votes!TallyFollowsVotes
<1>6. ASSUME NEW c \in Three, Votes!Clear(c) PROVE VotesInv'
  BY <1>6 DEF Votes!Clear, Votes!Done, Votes!Goto, Votes!TallyFollowsVotes
<1> QED BY <1>1, <1>2, <1>3, <1>4, <1>5, <1>6 DEF Votes!VotesNext

LEMMA VotesFollow == VotesInv /\ Votes!VotesNext => Votes!OthersVotesStay
<1> SUFFICES ASSUME VotesInv, Votes!VotesNext, NEW v \in Users, comment # Missing, comment' # Missing,
                    \/ comment.upvoteUserIds[v] # comment'.upvoteUserIds[v]
                    \/ comment.downvoteUserIds[v] # comment'.downvoteUserIds[v]
             PROVE  \E c \in Three : user[c] = v /\ kind[c] \in Votes!Votes /\ pc[c] = "save" /\ pc'[c] = "done"
  BY DEF Votes!OthersVotesStay
<1>1. PICK c \in Three : Votes!Save(c)
  BY DEF Votes!VotesNext, Votes!Find, Votes!SaveRefused, Votes!Delete, Votes!Clear
<1>2. kind[c] \in Votes!Votes
  BY <1>1, SavedOther
<1>3. user[c] = v
  BY <1>1, <1>2, SavedVote
<1>4. pc[c] = "save" /\ pc'[c] = "done"
  BY <1>1 DEF Votes!Save, Votes!Done, Votes!Goto, VotesInv, Votes!VotesTypeOK
<1> QED BY <1>2, <1>3, <1>4

-----------------------------------------------------------------------------
(* CrudService.  What an edit, a mark or a removal is about to act on has  *)
(* been found: only an edit writes back what it has read.                  *)
CrudInv ==
    /\ Crud!CrudTypeOK
    /\ \A c \in Three : pc[c] \in {"save", "delete"} /\ kind[c] # "ADD" => found[c] \in Crud!Doc

LEMMA CrudStarts == Crud!CrudInit => CrudInv
<1> SUFFICES ASSUME Crud!CrudInit PROVE CrudInv
  OBVIOUS
<1>1. [id |-> Before, body |-> Before, marked |-> FALSE, version |-> 0] \in Crud!Doc
  BY DEF Crud!Doc
<1> QED BY <1>1 DEF Crud!CrudInit, CrudInv, Crud!CrudTypeOK

LEMMA CrudInductive == CrudInv /\ [Crud!CrudNext]_(Crud!crudVars) => CrudInv'
<1> SUFFICES ASSUME CrudInv, [Crud!CrudNext]_(Crud!crudVars) PROVE CrudInv'
  OBVIOUS
<1> USE DEF CrudInv, Crud!CrudTypeOK
<1>1. CASE UNCHANGED Crud!crudVars
  BY <1>1 DEF Crud!crudVars
<1>2. ASSUME NEW c \in Three, Crud!Ask(c) PROVE CrudInv'
  BY <1>2 DEF Crud!Ask, Crud!Goto, Crud!Done
<1>3. ASSUME NEW c \in Three, Crud!Find(c) PROVE CrudInv'
  BY <1>3 DEF Crud!Find, Crud!Goto, Crud!Done
<1>4. ASSUME NEW c \in Three, Crud!Create(c) PROVE CrudInv'
  <2>1. [id |-> c, body |-> c, marked |-> FALSE, version |-> 0] \in Crud!Doc
    BY DEF Crud!Doc
  <2> QED BY <1>4, <2>1 DEF Crud!Create, Crud!Goto, Crud!Done
<1>5. ASSUME NEW c \in Three, Crud!Edit(c) PROVE CrudInv'
  <2>1. doc' \in Crud!Doc \union {Missing}
    <3>1. CASE ~Crud!Matches(c)
      BY <1>5, <3>1 DEF Crud!Edit
    <3>2. CASE Crud!Matches(c)
      <4>1. found[c] \in Crud!Doc
        BY <1>5 DEF Crud!Edit
      <4>2. PICK n \in {0, 1} : doc' = [found[c] EXCEPT !.body = c, !.version = @ + n]
        BY <1>5, <3>2 DEF Crud!Edit, Crud!moveIntoModel
      <4>3. found[c].version + n \in Nat
        BY <4>1 DEF Crud!Doc
      <4>4. doc' = [found[c] EXCEPT !.body = c, !.version = found[c].version + n]
        BY <4>1, <4>2 DEF Crud!Doc
      <4> QED BY <4>1, <4>3, <4>4 DEF Crud!Doc
    <3> QED BY <3>1, <3>2
  <2> QED BY <1>5, <2>1 DEF Crud!Edit, Crud!Goto, Crud!Done
<1>6. ASSUME NEW c \in Three, Crud!Mark(c) PROVE CrudInv'
  <2>1. doc' \in Crud!Doc \union {Missing}
    BY <1>6 DEF Crud!Mark, Crud!Exists, Crud!Doc
  <2> QED BY <1>6, <2>1 DEF Crud!Mark, Crud!Goto, Crud!Done
<1>7. ASSUME NEW c \in Three, Crud!Announce(c) PROVE CrudInv'
  BY <1>7 DEF Crud!Announce, Crud!Goto, Crud!Done
<1>8. ASSUME NEW c \in Three, Crud!Remove(c) PROVE CrudInv'
  BY <1>8 DEF Crud!Remove, Crud!Goto, Crud!Done
<1> QED BY <1>1, <1>2, <1>3, <1>4, <1>5, <1>6, <1>7, <1>8 DEF Crud!CrudNext

LEMMA CrudFollows == CrudInv /\ Crud!CrudNext => Crud!OnlyOldEditsUnmark
<1> SUFFICES ASSUME CrudInv, Crud!CrudNext, doc # Missing, doc' # Missing, doc.marked, ~doc'.marked
             PROVE  \E c \in Three : kind[c] = "EDIT" /\ pc[c] = "save" /\ pc'[c] = "done" /\ ~found[c].marked
  BY DEF Crud!OnlyOldEditsUnmark
<1>1. doc \in Crud!Doc /\ doc' # doc
  BY DEF CrudInv, Crud!CrudTypeOK
<1>2. PICK c \in Three : Crud!Create(c) \/ Crud!Edit(c) \/ Crud!Mark(c) \/ Crud!Remove(c)
  BY <1>1 DEF Crud!CrudNext, Crud!Ask, Crud!Find, Crud!Announce
<1>3. ~Crud!Create(c) /\ ~Crud!Remove(c)
  BY <1>1 DEF Crud!Create, Crud!Remove
<1>4. ~Crud!Mark(c)
  BY <1>1 DEF Crud!Mark, Crud!Doc
<1>5. CASE Crud!Edit(c)
  <2>1. Crud!Matches(c) /\ kind[c] = "EDIT" /\ pc[c] = "save" /\ pc'[c] = "done"
    BY <1>1, <1>5 DEF Crud!Edit, Crud!Done, Crud!Goto, CrudInv, Crud!CrudTypeOK
  <2>2. PICK n \in {0, 1} : doc' = [found[c] EXCEPT !.body = c, !.version = @ + n]
    BY <1>5, <2>1 DEF Crud!Edit, Crud!moveIntoModel
  <2>3. found[c] \in Crud!Doc
    BY <2>1 DEF CrudInv
  <2>4. doc'.marked = found[c].marked
    BY <2>2, <2>3 DEF Crud!Doc
  <2> QED BY <1>1, <2>1, <2>4
<1> QED BY <1>2, <1>3, <1>4, <1>5

-----------------------------------------------------------------------------
(* Documents.  Ancestors are those of the parent and the parent: a removal *)
(* that has begun has yet to do, of what is below, all but what was added  *)
(* since, and so what is left below a removed document is on a list still  *)
(* or was added late.                                                      *)
ReadOf(f) ==
    IF f.id = None THEN f = Docs!Nothing
    ELSE f.id \in DOMAIN docs /\ f.ancestors = docs[f.id].ancestors /\ f.path = docs[f.id].path

AncestorsHold ==
    \A d \in DOMAIN docs :
        /\ docs[d].parent = None => docs[d].ancestors = {}
        /\ docs[d].parent # None =>
              /\ docs[d].parent \in DOMAIN docs
              /\ docs[d].path = Append(docs[docs[d].parent].path, docs[d].slug)
              /\ docs[d].ancestors = docs[docs[d].parent].ancestors \union {docs[d].parent}
        /\ \A a \in docs[d].ancestors : a \in DOMAIN docs /\ docs[a].ancestors \subseteq docs[d].ancestors

RemovalsHold ==
    /\ \A c \in Three : todo[c] # {} =>
          /\ pc[c] = "update" /\ found[c].id # None
          /\ \A d \in todo[c] : d \in DOMAIN docs /\ (d = found[c].id \/ found[c].id \in docs[d].ancestors)
          /\ \A d \in Docs!Active \ late : d = found[c].id \/ found[c].id \in docs[d].ancestors => d \in todo[c]
    /\ \A d \in Docs!Active \ late : \A a \in docs[d].ancestors :
          a \in Docs!Active \/ \E c \in Three : d \in todo[c]

DocsInv ==
    /\ Docs!DocsTypeOK
    /\ \A c \in Three : pc[c] # "done" /\ kind[c] = "add" => c \notin DOMAIN docs
    /\ \A c \in Three : pc[c] \in {"parent", "save"} /\ kind[c] \in {"add", "rename"} => name[c] \in Names
    /\ \A c \in Three : ReadOf(found[c])
    /\ \A c \in Three : pc[c] \in {"check", "save", "update"} /\ kind[c] # "add" => found[c].id # None
    /\ \A c \in Three : pc[c] = "parent" => kind[c] = "add"
    /\ \A c \in Three : pc[c] = "update" => kind[c] = "remove"
    /\ AncestorsHold
    /\ RemovalsHold

LEMMA DocsStart == Docs!DocsInit => DocsInv
<1> SUFFICES ASSUME Docs!DocsInit PROVE DocsInv
  OBVIOUS
<1>1. docs \in FirstTrees /\ DOMAIN docs \subseteq Docs!Ids
  BY DEF Docs!DocsInit, Docs!Ids
<1>2. Docs!Nothing \in Docs!Found
  BY EmptySeq DEF Docs!Nothing, Docs!Found
<1>3. /\ \A d \in DOMAIN docs : docs[d] \in Docs!Doc /\ d \notin Three
      /\ AncestorsHold
      /\ \A d \in DOMAIN docs : \A a \in docs[d].ancestors : docs[d].active => docs[a].active
  BY <1>1, TreesFirst DEF AncestorsHold
<1>4. Docs!DocsTypeOK
  BY <1>1, <1>2, <1>3 DEF Docs!DocsInit, Docs!DocsTypeOK
<1>5. RemovalsHold
  BY <1>3 DEF Docs!DocsInit, RemovalsHold, Docs!Active, AncestorsHold
<1> QED BY <1>3, <1>4, <1>5 DEF Docs!DocsInit, DocsInv, ReadOf, Docs!Nothing

(* Steps that change of the documents at most what is no part of the tree: *)
(* names, contents.                                                        *)
LEMMA TreeStays ==
  ASSUME DocsInv, NEW c \in Three,
         DOMAIN docs' = DOMAIN docs,
         \A d \in DOMAIN docs :
             /\ docs'[d] \in Docs!Doc /\ docs'[d].parent = docs[d].parent /\ docs'[d].ancestors = docs[d].ancestors
             /\ docs'[d].slug = docs[d].slug /\ docs'[d].path = docs[d].path /\ docs'[d].active = docs[d].active,
         todo[c] = {},
         pc' \in [Three -> {"find", "check", "parent", "save", "update", "done"}],
         name' \in [Three -> Names \union {None}], found' \in [Three -> Docs!Found],
         \A d \in Three : d # c => pc'[d] = pc[d] /\ name'[d] = name[d] /\ found'[d] = found[d],
         pc'[c] # "done" => pc[c] # "done",
         pc'[c] \in {"parent", "save"} /\ kind[c] \in {"add", "rename"} => name'[c] \in Names,
         ReadOf(found'[c]),
         pc'[c] \in {"check", "save", "update"} /\ kind[c] # "add" => found'[c].id # None,
         pc'[c] = "parent" => kind[c] = "add",
         pc'[c] = "update" => kind[c] = "remove",
         UNCHANGED <<kind, todo, late>>
  PROVE  DocsInv'
<1>1. Docs!DocsTypeOK'
  BY DEF DocsInv, Docs!DocsTypeOK
<1>2. \A f : ReadOf(f) => (ReadOf(f))'
  BY DEF ReadOf
<1>3. \A d \in Three : (ReadOf(found[d]))'
  <2> SUFFICES ASSUME NEW d \in Three PROVE (ReadOf(found[d]))'
    OBVIOUS
  <2>1. ReadOf(found'[d])
    BY DEF DocsInv
  <2> QED BY <2>1 DEF ReadOf
<1>4. AncestorsHold'
  <2> SUFFICES ASSUME NEW d \in DOMAIN docs
               PROVE  /\ docs'[d].parent = None => docs'[d].ancestors = {}
                      /\ docs'[d].parent # None =>
                            /\ docs'[d].parent \in DOMAIN docs'
                            /\ docs'[d].path = Append(docs'[docs'[d].parent].path, docs'[d].slug)
                            /\ docs'[d].ancestors = docs'[docs'[d].parent].ancestors \union {docs'[d].parent}
                      /\ \A a \in docs'[d].ancestors :
                            a \in DOMAIN docs' /\ docs'[a].ancestors \subseteq docs'[d].ancestors
    BY DEF AncestorsHold
  <2>2. /\ DOMAIN docs' = DOMAIN docs
        /\ \A e \in DOMAIN docs : docs'[e].ancestors = docs[e].ancestors /\ docs'[e].path = docs[e].path
    OBVIOUS
  <2>1. /\ docs'[d].parent = docs[d].parent /\ docs'[d].ancestors = docs[d].ancestors
        /\ docs'[d].slug = docs[d].slug /\ docs'[d].path = docs[d].path
    OBVIOUS
  <2> QED BY ONLY DocsInv, <2>1, <2>2, d \in DOMAIN docs DEF DocsInv, AncestorsHold
<1>5. Docs!Active' = Docs!Active
  BY DEF Docs!Active
<1>6. RemovalsHold'
  <2>1. ASSUME NEW d \in Three, todo[d] # {}
        PROVE  /\ pc'[d] = "update" /\ found'[d].id # None
               /\ \A e \in todo[d] : e \in DOMAIN docs /\ (e = found'[d].id \/ found'[d].id \in docs'[e].ancestors)
               /\ \A e \in Docs!Active \ late : e = found'[d].id \/ found'[d].id \in docs'[e].ancestors => e \in todo[d]
    <3>1. pc'[d] = pc[d] /\ found'[d] = found[d]
      BY <2>1
    <3> QED BY <2>1, <3>1 DEF DocsInv, RemovalsHold, Docs!Active
  <2>2. \A e \in Docs!Active \ late : \A a \in docs'[e].ancestors : a \in Docs!Active \/ \E x \in Three : e \in todo[x]
    BY DEF DocsInv, RemovalsHold, Docs!Active
  <2> QED BY <1>5, <2>1, <2>2 DEF RemovalsHold
<1> QED BY <1>1, <1>3, <1>4, <1>6 DEF DocsInv

LEMMA AddKeepsDocs ==
  ASSUME DocsInv, NEW c \in Three, Docs!Save(c)
  PROVE  DocsInv'
<1>1. /\ pc[c] = "save" /\ kind[c] = "add" /\ UNCHANGED <<kind, todo>> /\ c \notin DOMAIN docs
      /\ pc' = [pc EXCEPT ![c] = "done"] /\ found' = [found EXCEPT ![c] = Docs!Nothing] /\ name' = [name EXCEPT ![c] = None]
      /\ name[c] \in Names /\ found[c] \in Docs!Found /\ ReadOf(found[c]) /\ Docs!Nothing \in Docs!Found
  BY EmptySeq DEF Docs!Save, Docs!Done, Docs!Goto, DocsInv, Docs!DocsTypeOK, Docs!Nothing, Docs!Found
<1>2. todo[c] = {}
  BY <1>1 DEF DocsInv, RemovalsHold
<1>3. CASE UNCHANGED <<docs, late>>
  <2>1. \A d \in DOMAIN docs : docs[d] \in Docs!Doc
    BY DEF DocsInv, Docs!DocsTypeOK
  <2>2. ReadOf(Docs!Nothing)
    BY DEF ReadOf, Docs!Nothing
  <2> QED BY <1>1, <1>2, <1>3, <2>1, <2>2, TreeStays DEF DocsInv, Docs!DocsTypeOK
<1>4. CASE ~(UNCHANGED <<docs, late>>)
  <2>1. PICK slug \in Slugs :
           LET path == Append(found[c].path, slug) IN
           docs' = [d \in DOMAIN docs \union {c} |-> IF d = c THEN Docs!Added(c, slug, path) ELSE docs[d]]
    BY <1>4 DEF Docs!Save
  <2> DEFINE path == Append(found[c].path, slug)
             new == Docs!Added(c, slug, path)
  <2>2. late' = IF \E a \in Docs!Ancestors(c) : a \notin Docs!Active \/ \E r \in Three : a = found[r].id /\ todo[r] # {}
                THEN late \union {c} ELSE late
    BY <1>4 DEF Docs!Save
  <2>3. /\ new.parent = found[c].id /\ new.ancestors = Docs!Ancestors(c) /\ new.slug = slug
        /\ new.path = path /\ new.active = TRUE
    BY DEF Docs!Added
  <2>4. path \in Seq(Slugs)
    BY <1>1, AppendProperties DEF Docs!Found
  <2>5. new \in Docs!Doc
    <3>1. c \in Docs!Ids /\ found[c].id \in Docs!Ids \union {None} /\ Docs!Ancestors(c) \subseteq Docs!Ids
      BY <1>1 DEF Docs!Ids, Docs!Found, Docs!Ancestors
    <3>2. [l \in DocumentLocales |-> None] \in [DocumentLocales -> Three \union {None}]
      OBVIOUS
    <3> HIDE DEF path
    <3> QED BY <1>1, <2>4, <3>1, <3>2 DEF Docs!Added, Docs!Doc
  <2> HIDE DEF new, path
  <2>6. /\ DOMAIN docs' = DOMAIN docs \union {c} /\ docs'[c] = new
        /\ \A d \in DOMAIN docs : docs'[d] = docs[d]
    BY <1>1, <2>1 DEF new, path
  <2>7. Docs!DocsTypeOK'
    <3>1. c \in Docs!Ids
      BY DEF Docs!Ids
    <3> QED BY <1>1, <2>2, <2>5, <2>6, <3>1 DEF DocsInv, Docs!DocsTypeOK
  <2>8. \A d \in Three : (ReadOf(found[d]))'
    <3> SUFFICES ASSUME NEW d \in Three PROVE (ReadOf(found[d]))'
      OBVIOUS
    <3>1. found'[d] = Docs!Nothing \/ (found'[d] = found[d] /\ ReadOf(found[d]))
      BY <1>1 DEF DocsInv, Docs!DocsTypeOK
    <3> QED BY <2>6, <3>1 DEF ReadOf, Docs!Nothing
  <2>9. /\ found[c].id = None => Docs!Ancestors(c) = {}
        /\ found[c].id # None =>
              /\ found[c].id \in DOMAIN docs
              /\ path = Append(docs[found[c].id].path, slug)
              /\ Docs!Ancestors(c) = docs[found[c].id].ancestors \union {found[c].id}
        /\ \A a \in Docs!Ancestors(c) : a \in DOMAIN docs /\ docs[a].ancestors \subseteq Docs!Ancestors(c)
    BY <1>1 DEF ReadOf, Docs!Nothing, Docs!Ancestors, path, DocsInv, AncestorsHold
  <2>10. AncestorsHold'
    <3> SUFFICES ASSUME NEW d \in DOMAIN docs'
                 PROVE  /\ docs'[d].parent = None => docs'[d].ancestors = {}
                        /\ docs'[d].parent # None =>
                              /\ docs'[d].parent \in DOMAIN docs'
                              /\ docs'[d].path = Append(docs'[docs'[d].parent].path, docs'[d].slug)
                              /\ docs'[d].ancestors = docs'[docs'[d].parent].ancestors \union {docs'[d].parent}
                        /\ \A a \in docs'[d].ancestors :
                              a \in DOMAIN docs' /\ docs'[a].ancestors \subseteq docs'[d].ancestors
      BY DEF AncestorsHold
    <3>1. CASE d = c
      BY <2>3, <2>6, <2>9, <3>1
    <3>2. CASE d \in DOMAIN docs
      BY <2>6, <3>2 DEF DocsInv, AncestorsHold
    <3> QED BY <2>6, <3>1, <3>2
  <2>11. Docs!Active' = Docs!Active \union {c}
    BY <1>1, <2>3, <2>6 DEF Docs!Active
  <2>12. RemovalsHold'
    <3>1. ASSUME NEW d \in Three, todo[d] # {}
          PROVE  /\ pc'[d] = "update" /\ found'[d].id # None
                 /\ \A e \in todo[d] : e \in DOMAIN docs' /\ (e = found'[d].id \/ found'[d].id \in docs'[e].ancestors)
                 /\ \A e \in Docs!Active' \ late' : e = found'[d].id \/ found'[d].id \in docs'[e].ancestors => e \in todo[d]
      <4>1. pc'[d] = pc[d] /\ found'[d] = found[d]
        BY <1>1, <1>2, <3>1 DEF DocsInv, Docs!DocsTypeOK
      <4>2. /\ pc[d] = "update" /\ found[d].id # None
            /\ \A e \in todo[d] : e \in DOMAIN docs /\ (e = found[d].id \/ found[d].id \in docs[e].ancestors)
            /\ \A e \in Docs!Active \ late : e = found[d].id \/ found[d].id \in docs[e].ancestors => e \in todo[d]
        BY <3>1 DEF DocsInv, RemovalsHold
      <4>3. found[d].id \in DOMAIN docs
        BY <4>2 DEF DocsInv, ReadOf
      <4>4. found[d].id \in Docs!Ancestors(c) => c \in late'
        BY <2>2, <3>1
      <4> QED BY <1>1, <2>2, <2>3, <2>6, <2>11, <4>1, <4>2, <4>3, <4>4 DEF Docs!Active
    <3>2. ASSUME NEW e \in Docs!Active' \ late', NEW a \in docs'[e].ancestors
          PROVE  a \in Docs!Active' \/ \E x \in Three : e \in todo[x]
      <4>1. CASE e = c
        BY <2>2, <2>3, <2>6, <2>11, <3>2, <4>1
      <4>2. CASE e # c
        <5>1. e \in Docs!Active \ late /\ docs'[e] = docs[e]
          BY <2>2, <2>6, <2>11, <3>2, <4>2 DEF Docs!Active
        <5> QED BY <2>11, <3>2, <5>1 DEF DocsInv, RemovalsHold
      <4> QED BY <4>1, <4>2
    <3> QED BY <1>1, <3>1, <3>2 DEF RemovalsHold
  <2>13. \A d \in Three : pc'[d] # "done" /\ kind'[d] = "add" => d \notin DOMAIN docs'
    BY <1>1, <2>6 DEF DocsInv, Docs!DocsTypeOK
  <2>14. \A d \in Three : d # c => pc'[d] = pc[d] /\ name'[d] = name[d] /\ found'[d] = found[d]
    BY <1>1 DEF DocsInv, Docs!DocsTypeOK
  <2>15. pc'[c] = "done"
    BY <1>1 DEF DocsInv, Docs!DocsTypeOK
  <2>16. \A d \in Three :
            /\ pc'[d] \in {"parent", "save"} /\ kind'[d] \in {"add", "rename"} => name'[d] \in Names
            /\ pc'[d] \in {"check", "save", "update"} /\ kind'[d] # "add" => found'[d].id # None
            /\ pc'[d] = "parent" => kind'[d] = "add"
            /\ pc'[d] = "update" => kind'[d] = "remove"
    BY <1>1, <2>14, <2>15 DEF DocsInv
  <2> QED BY <2>7, <2>8, <2>10, <2>12, <2>13, <2>16 DEF DocsInv
<1> QED BY <1>3, <1>4

LEMMA DeactivateKeepsDocs ==
  ASSUME DocsInv, NEW c \in Three, Docs!Deactivate(c)
  PROVE  DocsInv'
<1>1. PICK x \in todo[c] \union Docs!Below(found[c].id) :
         /\ docs' = [docs EXCEPT ![x].active = FALSE]
         /\ todo' = [todo EXCEPT ![c] = @ \ {x}]
         /\ IF todo[c] \subseteq {x} THEN Docs!Done(c) ELSE UNCHANGED <<pc, name, found>>
  BY DEF Docs!Deactivate
<1>2. /\ pc[c] = "update" /\ todo[c] # {} /\ UNCHANGED <<kind, late>> /\ Docs!Nothing \in Docs!Found
  BY EmptySeq DEF Docs!Deactivate, Docs!Nothing, Docs!Found
<1>3. x \in DOMAIN docs /\ (x = found[c].id \/ found[c].id \in docs[x].ancestors)
  BY <1>1, <1>2 DEF DocsInv, RemovalsHold, Docs!Below, Docs!Active
<1>4. \A d \in DOMAIN docs : docs[d] \in Docs!Doc
  BY DEF DocsInv, Docs!DocsTypeOK
<1>5. /\ DOMAIN docs' = DOMAIN docs
      /\ \A d \in DOMAIN docs : d # x => docs'[d] = docs[d]
      /\ docs'[x] = [docs[x] EXCEPT !.active = FALSE]
  BY <1>1, <1>3
<1>6. /\ docs'[x].active = FALSE
      /\ \A d \in DOMAIN docs :
            /\ docs'[d] \in Docs!Doc /\ docs'[d].parent = docs[d].parent /\ docs'[d].ancestors = docs[d].ancestors
            /\ docs'[d].slug = docs[d].slug /\ docs'[d].path = docs[d].path
  <2>1. docs[x] \in Docs!Doc
    BY <1>3, <1>4
  <2>2. /\ docs'[x] \in Docs!Doc /\ docs'[x].active = FALSE
        /\ docs'[x].parent = docs[x].parent /\ docs'[x].ancestors = docs[x].ancestors
        /\ docs'[x].slug = docs[x].slug /\ docs'[x].path = docs[x].path
    BY <1>5, <2>1 DEF Docs!Doc
  <2> QED BY <1>4, <1>5, <2>2
<1>7. /\ todo' \in [Three -> SUBSET Docs!Ids] /\ todo'[c] = todo[c] \ {x} /\ \A d \in Three : d # c => todo'[d] = todo[d]
      /\ pc' \in [Three -> {"find", "check", "parent", "save", "update", "done"}]
      /\ name' \in [Three -> Names \union {None}] /\ found' \in [Three -> Docs!Found]
      /\ \A d \in Three : \/ pc'[d] = pc[d] /\ name'[d] = name[d] /\ found'[d] = found[d]
                          \/ pc'[d] = "done" /\ found'[d] = Docs!Nothing /\ todo'[d] = {}
  BY <1>1, <1>2 DEF DocsInv, Docs!DocsTypeOK, Docs!Done, Docs!Goto
<1>8. Docs!DocsTypeOK'
  BY <1>2, <1>5, <1>6, <1>7 DEF DocsInv, Docs!DocsTypeOK
<1>9. Docs!Active' = Docs!Active \ {x}
  BY <1>3, <1>5, <1>6 DEF Docs!Active
<1>10. AncestorsHold'
  <2> SUFFICES ASSUME NEW d \in DOMAIN docs
               PROVE  /\ docs'[d].parent = None => docs'[d].ancestors = {}
                      /\ docs'[d].parent # None =>
                            /\ docs'[d].parent \in DOMAIN docs'
                            /\ docs'[d].path = Append(docs'[docs'[d].parent].path, docs'[d].slug)
                            /\ docs'[d].ancestors = docs'[docs'[d].parent].ancestors \union {docs'[d].parent}
                      /\ \A a \in docs'[d].ancestors :
                            a \in DOMAIN docs' /\ docs'[a].ancestors \subseteq docs'[d].ancestors
    BY <1>5 DEF AncestorsHold
  <2>1. /\ docs'[d].parent = docs[d].parent /\ docs'[d].ancestors = docs[d].ancestors
        /\ docs'[d].slug = docs[d].slug /\ docs'[d].path = docs[d].path
    BY <1>6
  <2> QED BY <1>5, <1>6, <2>1 DEF DocsInv, AncestorsHold
<1>11. RemovalsHold'
  <2>1. ASSUME NEW d \in Three, todo'[d] # {}
        PROVE  /\ pc'[d] = "update" /\ found'[d].id # None
               /\ \A e \in todo'[d] : e \in DOMAIN docs' /\ (e = found'[d].id \/ found'[d].id \in docs'[e].ancestors)
               /\ \A e \in Docs!Active' \ late' : e = found'[d].id \/ found'[d].id \in docs'[e].ancestors => e \in todo'[d]
    <3>1. pc'[d] = pc[d] /\ found'[d] = found[d]
      BY <1>7, <2>1
    <3>2. todo[d] # {} /\ todo'[d] \subseteq todo[d] /\ todo[d] \subseteq todo'[d] \union {x}
      BY <1>7, <2>1
    <3>3. /\ pc[d] = "update" /\ found[d].id # None
          /\ \A e \in todo[d] : e \in DOMAIN docs /\ (e = found[d].id \/ found[d].id \in docs[e].ancestors)
          /\ \A e \in Docs!Active \ late : e = found[d].id \/ found[d].id \in docs[e].ancestors => e \in todo[d]
      BY <3>2 DEF DocsInv, RemovalsHold
    <3> QED BY <1>2, <1>5, <1>6, <1>9, <3>1, <3>2, <3>3 DEF Docs!Active
  <2>2. ASSUME NEW e \in Docs!Active' \ late', NEW a \in docs'[e].ancestors
        PROVE  a \in Docs!Active' \/ \E d \in Three : e \in todo'[d]
    <3>1. e \in Docs!Active \ late /\ e # x /\ e \in DOMAIN docs /\ a \in docs[e].ancestors
      BY <1>2, <1>6, <1>9, <2>2 DEF Docs!Active
    <3>2. CASE a = x
      <4>1. found[c].id \in docs[e].ancestors
        BY <1>3, <3>1, <3>2 DEF DocsInv, AncestorsHold
      <4>2. e \in todo[c]
        BY <1>2, <3>1, <4>1 DEF DocsInv, RemovalsHold
      <4> QED BY <1>7, <3>1, <4>2
    <3>3. CASE a # x
      BY <1>7, <1>9, <3>1, <3>3 DEF DocsInv, RemovalsHold
    <3> QED BY <3>2, <3>3
  <2> QED BY <2>1, <2>2 DEF RemovalsHold
<1>12. \A d \in Three : (ReadOf(found[d]))'
  <2> SUFFICES ASSUME NEW d \in Three PROVE (ReadOf(found[d]))'
    OBVIOUS
  <2>1. found'[d] = Docs!Nothing \/ (found'[d] = found[d] /\ ReadOf(found[d]))
    BY <1>7 DEF DocsInv
  <2> QED BY <1>5, <1>6, <2>1 DEF ReadOf, Docs!Nothing
<1>13. \A d \in Three : pc'[d] # "done" => pc'[d] = pc[d] /\ name'[d] = name[d] /\ found'[d] = found[d]
  BY <1>7
<1> QED BY <1>2, <1>5, <1>8, <1>10, <1>11, <1>12, <1>13 DEF DocsInv

LEMMA DocsInductive == DocsInv /\ [Docs!DocsNext]_(Docs!docsVars) => DocsInv'
<1> SUFFICES ASSUME DocsInv, [Docs!DocsNext]_(Docs!docsVars) PROVE DocsInv'
  OBVIOUS
<1>1. /\ \A d \in DOMAIN docs : docs[d] \in Docs!Doc
      /\ Docs!Nothing \in Docs!Found /\ ReadOf(Docs!Nothing)
      /\ pc \in [Three -> {"find", "check", "parent", "save", "update", "done"}]
      /\ name \in [Three -> Names \union {None}] /\ found \in [Three -> Docs!Found]
  BY EmptySeq DEF DocsInv, Docs!DocsTypeOK, Docs!Nothing, Docs!Found, ReadOf
<1>2. CASE UNCHANGED Docs!docsVars
  <2>1. Docs!Active' = Docs!Active
    BY <1>2 DEF Docs!docsVars, Docs!Active
  <2> QED BY <1>2, <2>1 DEF Docs!docsVars, DocsInv, Docs!DocsTypeOK, ReadOf, AncestorsHold, RemovalsHold
<1>3. ASSUME NEW c \in Three, Docs!Refused(c) PROVE DocsInv'
  <2>1. todo[c] = {}
    BY <1>3 DEF Docs!Refused, DocsInv, RemovalsHold
  <2> QED BY <1>1, <1>3, <2>1, TreeStays DEF Docs!Refused, Docs!Done, Docs!Goto
<1>4. ASSUME NEW c \in Three, Docs!Find(c) PROVE DocsInv'
  <2>1. PICK d \in Docs!Active :
          found' = [found EXCEPT ![c] = [id |-> d, ancestors |-> docs[d].ancestors, path |-> docs[d].path]]
    BY <1>4 DEF Docs!Find
  <2>2. pc[c] = "find" /\ kind[c] # "add" /\ todo[c] = {} /\ UNCHANGED <<docs, kind, name, todo, late>>
    BY <1>4 DEF Docs!Find, DocsInv, RemovalsHold
  <2>3. PICK s \in {"check", "save", "update"} :
          /\ pc' = [pc EXCEPT ![c] = s]
          /\ s = "save" => kind[c] = "put"
          /\ s = "update" => kind[c] = "remove"
    BY <1>4, <2>2 DEF Docs!Find, Docs!Goto, DocsInv, Docs!DocsTypeOK
  <2>4. d \in DOMAIN docs /\ d \in Docs!Ids /\ d # None
    BY TreesFirst DEF Docs!Active, DocsInv, Docs!DocsTypeOK
  <2>5. [id |-> d, ancestors |-> docs[d].ancestors, path |-> docs[d].path] \in Docs!Found
    BY <1>1, <2>4 DEF Docs!Found, Docs!Doc
  <2>6. ReadOf(found'[c])
    BY <1>1, <2>1, <2>4 DEF ReadOf
  <2> QED BY <1>1, <2>1, <2>2, <2>3, <2>4, <2>5, <2>6, TreeStays
<1>5. ASSUME NEW c \in Three, Docs!CheckName(c) PROVE DocsInv'
  <2>1. pc[c] \in {"find", "check"} /\ todo[c] = {} /\ UNCHANGED <<docs, kind, todo, late>>
    BY <1>5 DEF Docs!CheckName, DocsInv, RemovalsHold
  <2>2. CASE Docs!Done(c)
    BY <1>1, <2>1, <2>2, TreeStays DEF Docs!Done, Docs!Goto
  <2>3. CASE ~Docs!Done(c)
    <3>1. PICK n \in Names : name' = [name EXCEPT ![c] = n] /\ UNCHANGED found
      BY <1>5, <2>3 DEF Docs!CheckName
    <3>2. PICK s \in {"parent", "save"} :
            /\ pc' = [pc EXCEPT ![c] = s]
            /\ s = "save" => kind[c] # "add" /\ pc[c] = "check"
            /\ s = "parent" => kind[c] = "add"
      BY <1>5, <2>3 DEF Docs!CheckName, Docs!Goto
    <3>3. pc[c] = "check" /\ kind[c] # "add" => found[c].id # None
      BY DEF DocsInv
    <3> QED BY <1>1, <2>1, <3>1, <3>2, <3>3, TreeStays DEF DocsInv
  <2> QED BY <2>2, <2>3
<1>6. ASSUME NEW c \in Three, Docs!FindParent(c) PROVE DocsInv'
  <2>1. pc[c] = "parent" /\ kind[c] = "add" /\ todo[c] = {} /\ UNCHANGED <<docs, kind, todo, late>> /\ name[c] \in Names
    BY <1>6 DEF Docs!FindParent, DocsInv, RemovalsHold
  <2>2. CASE Docs!Done(c)
    BY <1>1, <2>1, <2>2, TreeStays DEF Docs!Done, Docs!Goto
  <2>3. CASE ~Docs!Done(c)
    <3>1. pc' = [pc EXCEPT ![c] = "save"] /\ name' = name
      BY <1>6, <2>3 DEF Docs!FindParent, Docs!Goto
    <3>2. CASE found' = found
      BY <1>1, <2>1, <3>1, <3>2, TreeStays DEF DocsInv
    <3>3. CASE found' # found
      <4>1. PICK d \in Docs!Active :
              found' = [found EXCEPT ![c] = [id |-> d, ancestors |-> docs[d].ancestors, path |-> docs[d].path]]
        BY <1>6, <2>3, <3>3 DEF Docs!FindParent
      <4>2. d \in DOMAIN docs /\ d \in Docs!Ids /\ d # None
        BY TreesFirst DEF Docs!Active, DocsInv, Docs!DocsTypeOK
      <4>3. [id |-> d, ancestors |-> docs[d].ancestors, path |-> docs[d].path] \in Docs!Found
        BY <1>1, <4>2 DEF Docs!Found, Docs!Doc
      <4>4. ReadOf(found'[c])
        BY <1>1, <4>1, <4>2 DEF ReadOf
      <4> QED BY <1>1, <2>1, <3>1, <4>1, <4>2, <4>3, <4>4, TreeStays
    <3> QED BY <3>2, <3>3
  <2> QED BY <2>2, <2>3
<1>7. ASSUME NEW c \in Three, Docs!Rename(c) \/ Docs!Put(c) PROVE DocsInv'
  <2> DEFINE d == found[c].id
  <2>1. /\ pc[c] = "save" /\ kind[c] \in {"rename", "put"} /\ todo[c] = {} /\ UNCHANGED <<kind, todo, late>>
        /\ Docs!Done(c)
    BY <1>7 DEF Docs!Rename, Docs!Put, DocsInv, RemovalsHold
  <2>2. d \in DOMAIN docs
    BY <2>1 DEF DocsInv, ReadOf
  <2>3. kind[c] = "rename" => name[c] \in Names
    BY <2>1 DEF DocsInv
  <2>4. /\ DOMAIN docs' = DOMAIN docs
        /\ \A e \in DOMAIN docs : e # d => docs'[e] = docs[e]
        /\ \/ docs'[d] = docs[d]
           \/ kind[c] = "rename" /\ docs'[d] = [docs[d] EXCEPT !.name = name[c]]
           \/ \E l \in DocumentLocales : docs'[d] = [docs[d] EXCEPT !.contents = [docs[d].contents EXCEPT ![l] = c]]
    BY <1>7, <2>1, <2>2 DEF Docs!Rename, Docs!Put
  <2>5. docs[d] \in Docs!Doc /\ docs[d].contents \in [DocumentLocales -> Three \union {None}]
    BY <1>1, <2>2 DEF Docs!Doc
  <2>6. \A l \in DocumentLocales : [docs[d].contents EXCEPT ![l] = c] \in [DocumentLocales -> Three \union {None}]
    BY <2>5
  <2> HIDE DEF d
  <2>7. \A e \in DOMAIN docs :
            /\ docs'[e] \in Docs!Doc /\ docs'[e].parent = docs[e].parent /\ docs'[e].ancestors = docs[e].ancestors
            /\ docs'[e].slug = docs[e].slug /\ docs'[e].path = docs[e].path /\ docs'[e].active = docs[e].active
    <3>1. CASE docs'[d] = docs[d]
      BY <1>1, <2>4, <3>1
    <3>2. CASE docs'[d] # docs[d]
      <4>1. /\ docs'[d] \in Docs!Doc /\ docs'[d].parent = docs[d].parent /\ docs'[d].ancestors = docs[d].ancestors
            /\ docs'[d].slug = docs[d].slug /\ docs'[d].path = docs[d].path /\ docs'[d].active = docs[d].active
        <5>1. CASE kind[c] = "rename" /\ docs'[d] = [docs[d] EXCEPT !.name = name[c]]
          BY <2>3, <2>5, <5>1 DEF Docs!Doc
        <5>2. ASSUME NEW l \in DocumentLocales, docs'[d] = [docs[d] EXCEPT !.contents = [docs[d].contents EXCEPT ![l] = c]]
              PROVE  /\ docs'[d] \in Docs!Doc /\ docs'[d].parent = docs[d].parent /\ docs'[d].ancestors = docs[d].ancestors
                     /\ docs'[d].slug = docs[d].slug /\ docs'[d].path = docs[d].path /\ docs'[d].active = docs[d].active
          BY <2>5, <2>6, <5>2 DEF Docs!Doc
        <5> QED BY <2>4, <3>2, <5>1, <5>2
      <4> QED BY <1>1, <2>4, <4>1
    <3> QED BY <3>1, <3>2
  <2> QED BY <1>1, <2>1, <2>4, <2>7, TreeStays DEF Docs!Done, Docs!Goto
<1>8. ASSUME NEW c \in Three, Docs!Match(c) PROVE DocsInv'
  <2>1. /\ pc[c] = "update" /\ kind[c] = "remove" /\ found[c].id # None
        /\ UNCHANGED <<docs, pc, kind, name, found, late>>
        /\ todo' = [todo EXCEPT ![c] = Docs!Below(found[c].id)] /\ todo[c] = {}
    BY <1>8 DEF Docs!Match, DocsInv
  <2>2. Docs!Below(found[c].id) = {d \in Docs!Active : d = found[c].id \/ found[c].id \in docs[d].ancestors}
    BY DEF Docs!Below
  <2>3. Docs!Active' = Docs!Active /\ Docs!Active \subseteq DOMAIN docs /\ DOMAIN docs \subseteq Docs!Ids
    BY <2>1 DEF Docs!Active, DocsInv, Docs!DocsTypeOK
  <2>4. RemovalsHold'
    BY <2>1, <2>2, <2>3 DEF DocsInv, Docs!DocsTypeOK, RemovalsHold
  <2> QED BY <2>1, <2>2, <2>3, <2>4 DEF DocsInv, Docs!DocsTypeOK, ReadOf, AncestorsHold
<1>9. ASSUME NEW c \in Three, Docs!MatchNone(c) PROVE DocsInv'
  BY <1>1, <1>9, TreeStays DEF Docs!MatchNone, Docs!Done, Docs!Goto
<1> QED BY <1>2, <1>3, <1>4, <1>5, <1>6, <1>7, <1>8, <1>9, AddKeepsDocs, DeactivateKeepsDocs DEF Docs!DocsNext

LEMMA TreesFollow == DocsInv => Docs!TreeIsConsistent /\ Docs!RemovalIsComplete
<1> SUFFICES ASSUME DocsInv PROVE Docs!TreeIsConsistent /\ Docs!RemovalIsComplete
  OBVIOUS
<1>1. ASSUME NEW r \in Docs!Active PROVE Docs!DirectChildren(r) \subseteq Docs!Descendants(r)
  <2>1. r # None
    BY TreesFirst DEF Docs!Active, DocsInv, Docs!DocsTypeOK
  <2> QED BY <2>1 DEF Docs!DirectChildren, Docs!Descendants, Docs!Active, DocsInv, AncestorsHold
<1>2. Docs!TreeIsConsistent
  BY <1>1 DEF Docs!TreeIsConsistent, DocsInv, AncestorsHold
<1>3. ASSUME Docs!Removing = {}, NEW d \in Docs!Active, d \notin late PROVE d \in Docs!listDocuments(docs[d].parent)
  <2>1. \A c \in Three : todo[c] = {}
    BY <1>3 DEF Docs!Removing
  <2>2. docs[d].parent # None => docs[d].parent \in Docs!Active
    BY <1>3, <2>1 DEF DocsInv, RemovalsHold, AncestorsHold, Docs!Active
  <2> QED BY <2>2 DEF Docs!listDocuments
<1> QED BY <1>2, <1>3 DEF Docs!RemovalIsComplete

-----------------------------------------------------------------------------
(* BlogPosts.  What a request is about to save has a text if it is public, *)
(* and the date of what it has read; a post is created once.               *)
HasText(post) == post.active /\ post.status = "published" => post.texts[post.defaultLocale] = "text"
PostsInv ==
    /\ DOMAIN posts \subseteq Posts!Ids
    /\ \A p \in DOMAIN posts : posts[p] \in Posts!Post
    /\ \A p \in DOMAIN posts \ overlapped : HasText(posts[p])
    /\ pc \in [Two -> {"find", "check", "save", "done"}]
    /\ DOMAIN found = Two /\ DOMAIN changed = Two
    /\ \A c \in Two : pc[c] = "find" => found[c] = None
    /\ \A c \in Two : pc[c] # "done" /\ found[c] = None => c \notin DOMAIN posts
    /\ \A c \in Two : pc[c] \in {"check", "save"} =>
          /\ changed[c] \in Posts!Post /\ HasText(changed[c])
          /\ found[c] # None =>
                /\ found[c] \in Posts!Loaded /\ found[c].id \in DOMAIN posts
                /\ found[c].post.publishedAt # None => changed[c].publishedAt = found[c].post.publishedAt

LEMMA PostsStart == Posts!PostsInit => PostsInv
<1> SUFFICES ASSUME Posts!PostsInit PROVE PostsInv
  OBVIOUS
<1>1. posts \in FirstPosts /\ DOMAIN posts \subseteq Posts!Ids
  BY DEF Posts!PostsInit, Posts!Ids
<1>2. /\ \A p \in DOMAIN posts : posts[p] \in Posts!Post /\ HasText(posts[p])
      /\ \A c \in Two : c \notin DOMAIN posts
  BY <1>1, PostsFirst DEF HasText, Posts!Post
<1> QED BY <1>1, <1>2 DEF Posts!PostsInit, PostsInv

(* A save writes the fields that differ.                                   *)
LEMMA WrittenPost ==
  ASSUME NEW old \in Posts!Post, NEW new \in Posts!Post, NEW now \in Posts!Post
  PROVE  /\ Posts!Written(old, new, now) \in Posts!Post
         /\ old = now => Posts!Written(old, new, now) = new
<1> DEFINE W == Posts!Written(old, new, now)
           F == {"slug", "status", "texts", "defaultLocale", "publishedAt", "active"}
<1>1. DOMAIN now = F /\ DOMAIN new = F /\ DOMAIN old = F
  BY DEF Posts!Post
<1>2. W = [f \in F |-> IF old[f] = new[f] THEN now[f] ELSE new[f]]
  BY <1>1 DEF Posts!Written
<1> HIDE DEF W
<1>3. /\ W.slug \in Slugs /\ W.status \in {"draft", "published"} /\ W.texts \in [PostLocales -> Posts!Texts]
      /\ W.defaultLocale \in PostLocales /\ W.publishedAt \in Posts!Ids \union {None} /\ W.active \in BOOLEAN
  BY <1>2 DEF Posts!Post
<1>4. W \in Posts!Post
  BY <1>2, <1>3 DEF Posts!Post
<1>5. ASSUME old = now PROVE W = new
  <2>1. W.slug = new.slug /\ W.status = new.status /\ W.texts = new.texts
        /\ W.defaultLocale = new.defaultLocale /\ W.publishedAt = new.publishedAt /\ W.active = new.active
    BY <1>2, <1>5
  <2> QED BY <1>4, <2>1 DEF Posts!Post
<1> QED BY <1>4, <1>5 DEF W

(* What a save leaves.                                                     *)
LEMMA SavedPost ==
  ASSUME PostsInv, NEW c \in Two, Posts!Save(c), posts' # posts
  PROVE  LET p == Posts!IdOf(c) IN
         /\ p \in Posts!Ids
         /\ p \notin DOMAIN posts => p = c
         /\ DOMAIN posts' = DOMAIN posts \union {p} /\ \A q \in DOMAIN posts : q # p => posts'[q] = posts[q]
         /\ posts'[p] \in Posts!Post
         /\ overlapped \subseteq overlapped'
         /\ p \notin overlapped' =>
                /\ HasText(posts'[p])
                /\ p \in DOMAIN posts => (posts[p].publishedAt # None => posts'[p].publishedAt = posts[p].publishedAt)
         /\ found[c] = None => p = c
         /\ found[c] # None => p \in DOMAIN posts
<1> DEFINE p == Posts!IdOf(c)
           new == Posts!After(c)
<1>1. pc[c] = "save" /\ changed[c] \in Posts!Post /\ HasText(changed[c])
  BY DEF PostsInv, Posts!Save
<1>2. /\ posts' = [q \in DOMAIN posts \union {p} |-> IF q = p THEN new ELSE posts[q]]
      /\ overlapped' = IF found[c] # None /\ posts[p] # found[c].post THEN overlapped \union {p} ELSE overlapped
  BY DEF Posts!Save
<1>3. CASE found[c] = None
  <2>1. p = c /\ new = changed[c] /\ c \notin DOMAIN posts
    BY <1>1, <1>3 DEF Posts!IdOf, Posts!After, PostsInv
  <2>2. overlapped' = overlapped
    BY <1>2, <1>3
  <2>3. p \in Posts!Ids
    BY <2>1 DEF Posts!Ids
  <2> HIDE DEF p, new
  <2>4. /\ DOMAIN posts' = DOMAIN posts \union {p} /\ \A q \in DOMAIN posts : q # p => posts'[q] = posts[q]
        /\ posts'[p] = new
    BY <1>2
  <2> QED BY <1>1, <1>3, <2>1, <2>2, <2>3, <2>4 DEF p
<1>4. CASE found[c] # None
  <2>1. /\ p = found[c].id /\ p \in DOMAIN posts /\ posts[p] \in Posts!Post /\ found[c].post \in Posts!Post
        /\ found[c].post.publishedAt # None => changed[c].publishedAt = found[c].post.publishedAt
        /\ new = Posts!Written(found[c].post, changed[c], posts[p])
    BY <1>1, <1>4 DEF Posts!IdOf, Posts!After, PostsInv, Posts!Loaded
  <2>2. new \in Posts!Post /\ (found[c].post = posts[p] => new = changed[c])
    BY <1>1, <2>1, WrittenPost
  <2>3. p \in Posts!Ids
    BY <2>1 DEF PostsInv
  <2> HIDE DEF p, new
  <2>4. /\ DOMAIN posts' = DOMAIN posts \union {p} /\ \A q \in DOMAIN posts : q # p => posts'[q] = posts[q]
        /\ posts'[p] = new
    BY <1>2
  <2>5. overlapped \subseteq overlapped' /\ (p \notin overlapped' => posts[p] = found[c].post)
    BY <1>2, <1>4
  <2> QED BY <1>1, <1>4, <2>1, <2>2, <2>3, <2>4, <2>5 DEF p
<1> QED BY <1>3, <1>4

LEMMA PostsInductive == PostsInv /\ [Posts!PostsNext]_(Posts!postsVars) => PostsInv'
<1> SUFFICES ASSUME PostsInv, [Posts!PostsNext]_(Posts!postsVars) PROVE PostsInv'
  OBVIOUS
<1> USE DEF PostsInv
<1>1. CASE UNCHANGED Posts!postsVars
  BY <1>1 DEF Posts!postsVars
<1>2. ASSUME NEW c \in Two, Posts!Create(c) PROVE PostsInv'
  <2>1. PICK in \in Posts!Inputs : changed' = [changed EXCEPT ![c] = Posts!Draft(in)]
    BY <1>2 DEF Posts!Create
  <2>2. Posts!Draft(in) \in Posts!Post /\ HasText(Posts!Draft(in))
    BY DEF Posts!Draft, Posts!Inputs, Posts!Post, HasText
  <2>3. pc' = [pc EXCEPT ![c] = "check"] /\ UNCHANGED <<posts, found, overlapped>> /\ found[c] = None
        /\ c \notin DOMAIN posts
    BY <1>2 DEF Posts!Create, Posts!Goto
  <2> HIDE DEF HasText
  <2> QED BY <2>1, <2>2, <2>3
<1>3. ASSUME NEW c \in Two, NEW p \in DOMAIN posts, NEW new,
             posts' = posts /\ overlapped' = overlapped,
             found' = [found EXCEPT ![c] = [id |-> p, post |-> posts[p]]],
             changed' = [changed EXCEPT ![c] = new],
             pc' = [pc EXCEPT ![c] = "save"] \/ pc' = [pc EXCEPT ![c] = "check"],
             new \in Posts!Post /\ HasText(new),
             posts[p].publishedAt # None => new.publishedAt = posts[p].publishedAt
      PROVE  PostsInv'
  <2>1. [id |-> p, post |-> posts[p]] \in Posts!Loaded
    BY DEF Posts!Loaded
  <2>2. [id |-> p, post |-> posts[p]] # None
    BY <2>1, PostsFirst DEF Posts!Loaded, Posts!Post
  <2> HIDE DEF HasText
  <2> QED BY <1>3, <2>1, <2>2
<1>4. ASSUME NEW c \in Two, Posts!Update(c) PROVE PostsInv'
  <2>1. PICK p \in Posts!Active, in \in Posts!Inputs :
          LET new == Posts!Applied(posts[p], in) IN
          /\ Posts!applySave(posts[p], new)
          /\ found' = [found EXCEPT ![c] = [id |-> p, post |-> posts[p]]]
          /\ changed' = [changed EXCEPT ![c] = new]
          /\ Posts!Goto(c, IF new.slug = posts[p].slug THEN "save" ELSE "check")
    BY <1>4 DEF Posts!Update
  <2> DEFINE new == Posts!Applied(posts[p], in)
  <2>2. p \in DOMAIN posts /\ posts[p] \in Posts!Post
    BY DEF Posts!Active
  <2>3. new \in Posts!Post /\ HasText(new) /\ new.publishedAt = posts[p].publishedAt
    BY <2>1, <2>2 DEF Posts!Applied, Posts!Inputs, Posts!Post, HasText, Posts!applySave
  <2>4. pc' = [pc EXCEPT ![c] = "save"] \/ pc' = [pc EXCEPT ![c] = "check"]
    BY <2>1 DEF Posts!Goto
  <2>5. posts' = posts /\ overlapped' = overlapped
    BY <1>4 DEF Posts!Update
  <2> HIDE DEF new, PostsInv
  <2> QED BY <1>3, <2>1, <2>2, <2>3, <2>4, <2>5 DEF new
<1>5. ASSUME NEW c \in Two, Posts!Refused(c) PROVE PostsInv'
  BY <1>5 DEF Posts!Refused, Posts!Done, Posts!Goto
<1>6. ASSUME NEW c \in Two, Posts!ensureSlugAvailable(c) PROVE PostsInv'
  BY <1>6 DEF Posts!ensureSlugAvailable, Posts!Done, Posts!Goto
<1>7. ASSUME NEW c \in Two, Posts!setPublished(c) PROVE PostsInv'
  <2>1. PICK p \in Posts!Active :
          /\ kind[c] = "publish" => posts[p].texts[posts[p].defaultLocale] = "text"
          /\ found' = [found EXCEPT ![c] = [id |-> p, post |-> posts[p]]]
          /\ changed' = [changed EXCEPT ![c] =
                IF kind[c] = "draft" THEN [posts[p] EXCEPT !.status = "draft"]
                ELSE [posts[p] EXCEPT !.status = "published", !.publishedAt = Posts!publishedAt(posts[p], c)]]
    BY <1>7 DEF Posts!setPublished
  <2> DEFINE new == IF kind[c] = "draft" THEN [posts[p] EXCEPT !.status = "draft"]
                    ELSE [posts[p] EXCEPT !.status = "published", !.publishedAt = Posts!publishedAt(posts[p], c)]
  <2>2. p \in DOMAIN posts /\ posts[p] \in Posts!Post /\ kind[c] \in {"publish", "draft"}
    BY <1>7 DEF Posts!Active, Posts!setPublished
  <2>3. new \in Posts!Post /\ HasText(new) /\ (posts[p].publishedAt # None => new.publishedAt = posts[p].publishedAt)
    <3>1. CASE kind[c] = "draft"
      BY <2>2, <3>1 DEF Posts!Post, HasText
    <3>2. CASE kind[c] = "publish"
      <4>1. Posts!publishedAt(posts[p], c) \in Posts!Ids \union {None}
        BY <2>2 DEF Posts!publishedAt, Posts!Post, Posts!Ids
      <4>2. posts[p].publishedAt # None => Posts!publishedAt(posts[p], c) = posts[p].publishedAt
        BY DEF Posts!publishedAt
      <4> QED BY <2>1, <2>2, <3>2, <4>1, <4>2 DEF Posts!Post, HasText
    <3> QED BY <2>2, <3>1, <3>2
  <2>4. posts' = posts /\ overlapped' = overlapped /\ pc' = [pc EXCEPT ![c] = "save"]
    BY <1>7 DEF Posts!setPublished, Posts!Goto
  <2> HIDE DEF new, PostsInv
  <2> QED BY <1>3, <2>1, <2>2, <2>3, <2>4 DEF new
<1>8. ASSUME NEW c \in Two, Posts!remove(c) PROVE PostsInv'
  <2>1. PICK p \in Posts!Active :
          /\ found' = [found EXCEPT ![c] = [id |-> p, post |-> posts[p]]]
          /\ changed' = [changed EXCEPT ![c] = [posts[p] EXCEPT !.active = FALSE]]
    BY <1>8 DEF Posts!remove
  <2> DEFINE new == [posts[p] EXCEPT !.active = FALSE]
  <2>2. p \in DOMAIN posts /\ posts[p] \in Posts!Post
    BY DEF Posts!Active
  <2>3. new \in Posts!Post /\ HasText(new) /\ new.publishedAt = posts[p].publishedAt
    BY <2>2 DEF Posts!Post, HasText
  <2>4. posts' = posts /\ overlapped' = overlapped /\ pc' = [pc EXCEPT ![c] = "save"]
    BY <1>8 DEF Posts!remove, Posts!Goto
  <2> HIDE DEF new, PostsInv
  <2> QED BY <1>3, <2>1, <2>2, <2>3, <2>4 DEF new
<1>9. ASSUME NEW c \in Two, Posts!Save(c) PROVE PostsInv'
  <2>1. Posts!Done(c) /\ pc[c] = "save"
    BY <1>9 DEF Posts!Save
  <2>2. CASE posts' = posts
    <3>1. overlapped \subseteq overlapped'
      BY <1>9 DEF Posts!Save
    <3> HIDE DEF HasText
    <3> QED BY <2>1, <2>2, <3>1 DEF Posts!Done, Posts!Goto
  <2>3. CASE posts' # posts
    <3> DEFINE p == Posts!IdOf(c)
    <3>1. /\ p \in Posts!Ids
          /\ p \notin DOMAIN posts => p = c
          /\ DOMAIN posts' = DOMAIN posts \union {p} /\ \A q \in DOMAIN posts : q # p => posts'[q] = posts[q]
          /\ posts'[p] \in Posts!Post
          /\ overlapped \subseteq overlapped'
          /\ p \notin overlapped' => HasText(posts'[p])
          /\ found[c] = None => p = c
          /\ found[c] # None => p \in DOMAIN posts
      BY <1>9, <2>3, SavedPost
    <3> HIDE DEF HasText, p
    <3>2. /\ DOMAIN posts' \subseteq Posts!Ids
          /\ \A q \in DOMAIN posts' : posts'[q] \in Posts!Post
          /\ \A q \in DOMAIN posts' \ overlapped' : HasText(posts'[q])
      <4>1. \A q \in DOMAIN posts' : q = p \/ (q \in DOMAIN posts /\ posts'[q] = posts[q])
        BY <3>1
      <4>2. \A q \in DOMAIN posts \ overlapped' : HasText(posts[q])
        BY <3>1
      <4>3. ASSUME NEW q \in DOMAIN posts', q \notin overlapped' PROVE HasText(posts'[q])
        <5>1. CASE q = p
          BY <3>1, <4>3, <5>1
        <5>2. CASE q # p
          <6>1. q \in DOMAIN posts \ overlapped /\ posts'[q] = posts[q]
            BY <3>1, <4>1, <4>3, <5>2
          <6>2. HasText(posts[q])
            BY <4>2, <4>3, <5>2, <3>1
          <6> QED BY <6>1, <6>2
        <5> QED BY <5>1, <5>2
      <4> QED BY ONLY PostsInv, <3>1, <4>1, <4>3 DEF PostsInv
    <3>3. \A d \in Two : pc'[d] # "done" => d # c /\ pc'[d] = pc[d] /\ found'[d] = found[d] /\ changed'[d] = changed[d]
      BY <2>1 DEF Posts!Done, Posts!Goto
    <3>4. \A d \in Two : pc'[d] # "done" /\ found'[d] = None => d \notin DOMAIN posts'
      BY <3>1, <3>3
    <3> QED BY <2>1, <3>1, <3>2, <3>3, <3>4 DEF Posts!Done, Posts!Goto
  <2> QED BY <2>2, <2>3
<1> QED BY <1>1, <1>2, <1>4, <1>5, <1>6, <1>7, <1>8, <1>9 DEF Posts!PostsNext

LEMMA PublishedFollows == PostsInv => Posts!PublishedHasText
<1> SUFFICES ASSUME PostsInv, NEW p \in Posts!Public \ overlapped, NEW l \in PostLocales \union {None},
                    NEW shown \in Posts!resolveLocale(posts[p], l)
             PROVE  IF shown = l THEN posts[p].texts[l] \in {"text", "spaces"}
                    ELSE shown = posts[p].defaultLocale /\ posts[p].texts[shown] = "text"
  BY DEF Posts!PublishedHasText
<1>1. posts[p].texts[posts[p].defaultLocale] = "text" /\ posts[p].defaultLocale \in PostLocales
  BY DEF PostsInv, Posts!Public, Posts!Active, HasText, Posts!Post
<1> QED BY <1>1 DEF Posts!resolveLocale, Posts!HasContent

LEMMA DatesFollow == PostsInv /\ Posts!PostsNext => Posts!DateStays
<1> SUFFICES ASSUME PostsInv, Posts!PostsNext, NEW p \in DOMAIN posts,
                    posts[p].publishedAt # None, posts'[p].publishedAt # posts[p].publishedAt
             PROVE  p \in overlapped'
  BY DEF Posts!DateStays
<1>1. PICK c \in Two : Posts!Save(c)
  BY DEF Posts!PostsNext, Posts!Create, Posts!Update, Posts!Refused, Posts!ensureSlugAvailable, Posts!setPublished, Posts!remove
<1> QED BY <1>1, SavedPost

-----------------------------------------------------------------------------
(* CscdImport.  An import inserts once and from the top: what comes before *)
(* the place where it is at is stored, unless it met a clearing.           *)
ComesBefore(k, m, place) == k < place[1] \/ (k = place[1] /\ m < place[2])
ImportInv ==
    /\ Import!TypeOK /\ Import!HierarchyIsClosed
    /\ \A i \in Two : pc[i] \in {"count", "download"} =>
          \A k \in Import!Levels, m \in 1 .. 2 : <<i, m>> \notin stored[k]
    /\ \A i \in Two \ disturbed : pc[i] = "insert" =>
          \A k \in Import!Levels, m \in 1 .. 2 : ComesBefore(k, m, at[i]) => <<i, m>> \in stored[k]

LEMMA ImportStarts == Import!Init => ImportInv
<1> SUFFICES ASSUME Import!Init PROVE ImportInv
  OBVIOUS
<1>1. <<1, 1>> \in Import!Levels \X Import!Parts
  BY DEF Import!Levels, Import!Parts
<1> QED BY <1>1 DEF Import!Init, ImportInv, Import!TypeOK, Import!HierarchyIsClosed, Import!Levels, Import!Parts

LEMMA InsertKeepsImport ==
  ASSUME ImportInv, NEW p \in Two, Import!InsertMany(p)
  PROVE  ImportInv'
<1>1. PICK l \in 1 .. 3, n \in 1 .. 2 : at[p] = <<l, n>>
  BY DEF ImportInv, Import!TypeOK, Import!Levels, Import!Parts
<1>2. /\ pc[p] = "insert" /\ stored' = [stored EXCEPT ![l] = @ \union {<<p, n>>}]
      /\ UNCHANGED <<reinit, clearing, disturbed>>
  BY <1>1 DEF Import!InsertMany
<1>3. /\ pc'[p] \in {"insert", "done"} /\ \A i \in Two : i # p => pc'[i] = pc[i] /\ at'[i] = at[i]
      /\ pc'[p] = "insert" => /\ n = 1 => at'[p] = <<l, 2>>
                              /\ n = 2 => l < 3 /\ at'[p] = <<l + 1, 1>>
      /\ pc' \in [Two -> {"count", "download", "insert", "done"}]
      /\ at' \in [Two -> Import!Levels \X Import!Parts]
  <2>1. CASE n = 1
    <3>1. <<l, 2>> \in Import!Levels \X Import!Parts
      BY DEF Import!Levels, Import!Parts
    <3> QED BY <1>1, <1>2, <2>1, <3>1 DEF Import!InsertMany, ImportInv, Import!TypeOK
  <2>2. CASE n = 2 /\ l < 3
    <3>1. <<l + 1, 1>> \in Import!Levels \X Import!Parts
      BY <2>2 DEF Import!Levels, Import!Parts
    <3>2. at' = [at EXCEPT ![p] = <<l + 1, 1>>] /\ pc' = pc
      BY <1>1, <2>2 DEF Import!InsertMany
    <3> QED BY <1>2, <2>2, <3>1, <3>2 DEF ImportInv, Import!TypeOK
  <2>3. CASE n = 2 /\ ~(l < 3)
    BY <1>1, <1>2, <2>3 DEF Import!InsertMany, Import!Goto, ImportInv, Import!TypeOK
  <2> QED BY <2>1, <2>2, <2>3
<1>4. /\ stored' \in [Import!Levels -> SUBSET (Two \X Import!Parts)]
      /\ \A k \in Import!Levels : stored[k] \subseteq stored'[k]
      /\ \A k \in Import!Levels, i \in Two, m \in 1 .. 2 :
            <<i, m>> \in stored'[k] <=> <<i, m>> \in stored[k] \/ (i = p /\ k = l /\ m = n)
  <2>1. <<p, n>> \in Two \X Import!Parts /\ l \in Import!Levels
    BY DEF Import!Levels, Import!Parts
  <2>2. stored \in [Import!Levels -> SUBSET (Two \X Import!Parts)]
    BY DEF ImportInv, Import!TypeOK
  <2>3. stored'[l] = stored[l] \union {<<p, n>>} /\ \A k \in Import!Levels : k # l => stored'[k] = stored[k]
    BY <1>2, <2>1, <2>2
  <2>4. stored' \in [Import!Levels -> SUBSET (Two \X Import!Parts)]
    BY <1>2, <2>1, <2>2
  <2>5. \A k \in Import!Levels, i \in Two, m \in 1 .. 2 :
            <<i, m>> \in stored'[k] <=> <<i, m>> \in stored[k] \/ (i = p /\ k = l /\ m = n)
    BY <2>3
  <2> QED BY <2>3, <2>4, <2>5
<1>5. Import!TypeOK'
  BY <1>2, <1>3, <1>4 DEF ImportInv, Import!TypeOK
<1>6. \A i \in Two : pc'[i] \in {"count", "download"} =>
          \A k \in Import!Levels, m \in 1 .. 2 : <<i, m>> \notin stored'[k]
  BY <1>3, <1>4 DEF ImportInv
<1>7. ASSUME NEW i \in Two \ disturbed, pc'[i] = "insert", NEW k \in Import!Levels, NEW m \in 1 .. 2,
             ComesBefore(k, m, at'[i])
      PROVE  <<i, m>> \in stored'[k]
  <2>1. CASE i # p
    BY <1>3, <1>4, <1>7, <2>1 DEF ImportInv
  <2>2. CASE i = p
    <3>1. ComesBefore(k, m, at[i]) \/ (k = l /\ m = n)
      <4>1. CASE n = 1
        BY <1>1, <1>3, <1>7, <2>2, <4>1 DEF ComesBefore
      <4>2. CASE n = 2
        BY <1>1, <1>3, <1>7, <2>2, <4>2 DEF ComesBefore, Import!Levels
      <4> QED BY <4>1, <4>2
    <3>2. ComesBefore(k, m, at[i]) => <<i, m>> \in stored[k]
      BY <1>2, <1>7, <2>2 DEF ImportInv
    <3> QED BY <1>4, <2>2, <3>1, <3>2
  <2> QED BY <2>1, <2>2
<1>8. Import!HierarchyIsClosed'
  <2> SUFFICES ASSUME NEW i \in Two \ disturbed, NEW k \in 2 .. 3, NEW m \in Import!Parts, <<i, m>> \in stored'[k],
                      NEW q \in Import!Parts
               PROVE  <<i, q>> \in stored'[k - 1]
    BY <1>2 DEF Import!HierarchyIsClosed, Import!Whole
  <2>1. k \in Import!Levels /\ k - 1 \in Import!Levels /\ m \in 1 .. 2 /\ q \in 1 .. 2
    BY DEF Import!Levels, Import!Parts
  <2>2. CASE <<i, m>> \in stored[k]
    BY <1>4, <2>1, <2>2 DEF ImportInv, Import!HierarchyIsClosed, Import!Whole
  <2>3. CASE i = p /\ k = l /\ m = n
    <3>1. ComesBefore(k - 1, q, at[p])
      BY <1>1, <2>3 DEF ComesBefore
    <3> QED BY <1>2, <1>4, <2>1, <2>3, <3>1 DEF ImportInv
  <2> QED BY <1>4, <2>1, <2>2, <2>3
<1> QED BY <1>2, <1>5, <1>6, <1>7, <1>8 DEF ImportInv

LEMMA ClearKeepsImport ==
  ASSUME ImportInv, NEW p \in Two, NEW l \in Import!Levels, Import!Clear(p, l)
  PROVE  ImportInv'
<1>1. /\ UNCHANGED <<reinit, pc, at>> /\ stored' = [stored EXCEPT ![l] = {}]
      /\ clearing' = [clearing EXCEPT ![p] = @ \ {l}]
      /\ disturbed' = disturbed \union {i \in Two : \E k \in Import!Levels, n \in Import!Parts : <<i, n>> \in stored[k]}
  BY DEF Import!Clear
<1>2. Import!TypeOK'
  BY <1>1 DEF ImportInv, Import!TypeOK
<1>3. \A k \in Import!Levels : stored'[k] \subseteq stored[k]
  BY <1>1 DEF ImportInv, Import!TypeOK
<1>4. \A i \in Two \ disturbed' : i \notin disturbed /\ \A k \in Import!Levels, n \in 1 .. 2 : <<i, n>> \notin stored[k]
  BY <1>1 DEF Import!Parts
<1>5. Import!HierarchyIsClosed'
  <2> SUFFICES ASSUME NEW i \in Two \ disturbed', NEW k \in 2 .. 3, NEW m \in Import!Parts, <<i, m>> \in stored'[k]
               PROVE  FALSE
    BY DEF Import!HierarchyIsClosed
  <2>1. k \in Import!Levels /\ m \in 1 .. 2
    BY DEF Import!Levels, Import!Parts
  <2> QED BY <1>3, <1>4, <2>1
<1>6. \A i \in Two : pc'[i] \in {"count", "download"} =>
          \A k \in Import!Levels, m \in 1 .. 2 : <<i, m>> \notin stored'[k]
  BY <1>1, <1>3 DEF ImportInv
<1>7. \A i \in Two \ disturbed' : pc'[i] = "insert" =>
          \A k \in Import!Levels, m \in 1 .. 2 : ComesBefore(k, m, at'[i]) => <<i, m>> \in stored'[k]
  BY <1>1, <1>4 DEF ImportInv
<1> QED BY <1>2, <1>5, <1>6, <1>7 DEF ImportInv

LEMMA ImportInductive == ImportInv /\ [Import!Next]_(Import!importVars) => ImportInv'
<1> SUFFICES ASSUME ImportInv, [Import!Next]_(Import!importVars) PROVE ImportInv'
  OBVIOUS
<1> USE DEF ImportInv
<1>1. CASE UNCHANGED Import!importVars
  BY <1>1 DEF Import!importVars, Import!TypeOK, Import!HierarchyIsClosed, Import!Whole
<1>2. ASSUME NEW p \in Two, NEW s \in {"download", "done"}, pc[p] # "done",
             pc' = [pc EXCEPT ![p] = s], UNCHANGED <<reinit, stored, at, disturbed>>,
             s = "download" => pc[p] = "count", clearing' \in [Two -> SUBSET Import!Levels]
      PROVE  ImportInv'
  BY <1>2 DEF Import!TypeOK, Import!HierarchyIsClosed, Import!Whole
<1>3. ASSUME NEW p \in Two, Import!Start(p) PROVE ImportInv'
  <2>1. PICK s \in {"download", "done"} : pc' = [pc EXCEPT ![p] = s]
    BY <1>3 DEF Import!Start, Import!Goto
  <2>2. clearing' \in [Two -> SUBSET Import!Levels]
    BY <1>3 DEF Import!Start, Import!TypeOK
  <2> QED BY <1>2, <1>3, <2>1, <2>2 DEF Import!Start
<1>4. ASSUME NEW p \in Two, Import!Download(p) PROVE ImportInv'
  <2>1. /\ pc[p] = "download" /\ pc' = [pc EXCEPT ![p] = "insert"] /\ at' = [at EXCEPT ![p] = <<1, 1>>]
        /\ UNCHANGED <<reinit, stored, clearing, disturbed>>
    BY <1>4 DEF Import!Download, Import!Goto
  <2>2. <<1, 1>> \in Import!Levels \X Import!Parts
    BY DEF Import!Levels, Import!Parts
  <2>3. Import!TypeOK'
    BY <2>1, <2>2 DEF Import!TypeOK
  <2>4. Import!HierarchyIsClosed'
    BY <2>1 DEF Import!HierarchyIsClosed, Import!Whole
  <2>5. \A k \in Import!Levels, m \in 1 .. 2 : ~ComesBefore(k, m, at'[p])
    BY <2>1 DEF ComesBefore, Import!Levels, Import!TypeOK
  <2> QED BY <2>1, <2>3, <2>4, <2>5 DEF Import!TypeOK
<1>5. ASSUME NEW p \in Two, Import!InsertMany(p) PROVE ImportInv'
  BY <1>5, InsertKeepsImport
<1>6. ASSUME NEW p \in Two, Import!Fail(p) PROVE ImportInv'
  BY <1>2, <1>6 DEF Import!Fail, Import!Goto, Import!TypeOK
<1>7. ASSUME NEW p \in Two, Import!Die(p) PROVE ImportInv'
  BY <1>2, <1>7 DEF Import!Die, Import!Goto, Import!TypeOK
<1>8. ASSUME NEW p \in Two, NEW l \in Import!Levels, Import!Clear(p, l) PROVE ImportInv'
  BY <1>8, ClearKeepsImport
<1> QED BY <1>1, <1>3, <1>4, <1>5, <1>6, <1>7, <1>8 DEF Import!Next

-----------------------------------------------------------------------------
(* UserRights.  A version of the arrays stands for what they hold: what a  *)
(* request is about to change has been read, at the version it is compared *)
(* by.                                                                     *)
RightsInv ==
    /\ doc \in User \union {Missing}
    /\ pc \in [Two -> {"idle", "find", "put", "load", "save", "delete", "invalidate", "done"}]
    /\ kind \in [Two -> Rights!Wants]
    /\ DOMAIN found = Two /\ DOMAIN cached = Processes
    /\ \A c \in Two : pc[c] = "load" => kind[c].op # "ask"
    /\ \A c \in Two : pc[c] = "save" =>
          /\ kind[c].op \in {"insert", "edit", "general"}
          /\ found[c] \in User
          /\ doc # Missing => /\ found[c].version <= doc.version
                              /\ found[c].version = doc.version => found[c].roles = doc.roles
    /\ Rights!RemovedIsForgotten

LEMMA WantsAre ==
  ASSUME NEW w \in Rights!Wants
  PROVE  /\ w.op \in {"insert", "edit", "general", "delete", "ask"}
         /\ w.op = "insert" => w.roles \subseteq Roles
         /\ w.op = "edit" => w.roles \subseteq Roles /\ w.active \in BOOLEAN /\ w.suspended \in BOOLEAN
<1>1. CASE w \in {[op |-> "insert", roles |-> {r}] : r \in Roles}
  <2>1. PICK r \in Roles : w = [op |-> "insert", roles |-> {r}]
    BY <1>1
  <2> QED BY <2>1
<1>2. CASE w \in {[op |-> "edit", roles |-> rs, active |-> a, suspended |-> s] :
                      rs \in SUBSET Roles, a \in BOOLEAN, s \in BOOLEAN}
  <2>1. PICK rs \in SUBSET Roles, a \in BOOLEAN, s \in BOOLEAN :
          w = [op |-> "edit", roles |-> rs, active |-> a, suspended |-> s]
    BY <1>2
  <2> QED BY <2>1
<1>3. CASE w \in {[op |-> o, at |-> p] : o \in {"delete", "ask"}, p \in Processes}
  <2>1. PICK o \in {"delete", "ask"}, p \in Processes : w = [op |-> o, at |-> p]
    BY <1>3
  <2> QED BY <2>1
<1>4. CASE w \in {[op |-> "general"]}
  BY <1>4
<1> QED BY <1>1, <1>2, <1>3, <1>4 DEF Rights!Wants

(* A field that a request writes, if it differs from what it has read.     *)
LEMMA ChangedField ==
  ASSUME NEW w \in BOOLEAN, NEW f \in BOOLEAN, NEW d \in BOOLEAN,
         NEW x, x = IF w # f THEN w ELSE d
  PROVE  x \in BOOLEAN /\ (x # d => f = d)
<1>1. CASE w = f
  BY <1>1
<1>2. CASE w # f
  <2>1. x = w
    BY <1>2
  <2> QED BY <1>2, <2>1
<1> QED BY <1>1, <1>2

LEMMA RightsStarts == Rights!RightsInit => RightsInv
BY RightsUsers DEF Rights!RightsInit, RightsInv, Rights!RemovedIsForgotten, User

(* What the save of an edit or an insertion leaves.                        *)
LEMMA SavedUser ==
  ASSUME RightsInv, NEW c \in Two, Rights!Save(c)
  PROVE  \/ doc' = doc
         \/ /\ doc # Missing /\ doc \in User /\ doc' \in User
            /\ \/ doc'.version = doc.version /\ doc'.roles = doc.roles
               \/ doc'.version = doc.version + 1
            /\ doc'.active # doc.active => found[c].active = doc.active
            /\ doc'.suspended # doc.suspended => found[c].suspended = doc.suspended
            /\ \A r \in Rights!Held(doc) \ Rights!Held(doc') : r \in Rights!Held(found[c])
<1>1. pc[c] = "save" /\ found[c] \in User /\ kind[c].op \in {"insert", "edit", "general"}
      /\ (kind[c].op \in {"insert", "edit"} => kind[c].roles \subseteq Roles)
      /\ (kind[c].op = "edit" => kind[c].active \in BOOLEAN /\ kind[c].suspended \in BOOLEAN)
  BY WantsAre DEF RightsInv, Rights!Save
<1> SUFFICES ASSUME ~Rights!Refused(c), kind[c].op # "general"
             PROVE  /\ doc # Missing /\ doc \in User /\ doc' \in User
                    /\ \/ doc'.version = doc.version /\ doc'.roles = doc.roles
                       \/ doc'.version = doc.version + 1
                    /\ doc'.active # doc.active => found[c].active = doc.active
                    /\ doc'.suspended # doc.suspended => found[c].suspended = doc.suspended
                    /\ \A r \in Rights!Held(doc) \ Rights!Held(doc') : r \in Rights!Held(found[c])
  BY <1>1 DEF Rights!Save, Rights!userFromGeneralInfo
<1>2. doc # Missing /\ doc \in User
  BY DEF Rights!Refused, RightsInv
<1>3. CASE kind[c].op = "insert"
  <2> DEFINE more == [r \in Roles |-> doc.roles[r] + (IF r \in kind[c].roles THEN 1 ELSE 0)]
  <2>1. more \in [Roles -> Nat] /\ \A r \in Roles : more[r] >= doc.roles[r]
    BY <1>2 DEF User
  <2>2. doc' = [doc EXCEPT !.roles = more, !.version = doc.version + 1]
    BY <1>1, <1>2, <1>3 DEF Rights!Save, Rights!insertRole, User
  <2> HIDE DEF more
  <2>3. doc' \in User /\ doc'.version = doc.version + 1 /\ doc'.roles = more
      /\ doc'.active = doc.active /\ doc'.suspended = doc.suspended
    <3>1. doc.version + 1 \in Nat
      BY <1>2 DEF User
    <3> QED BY <1>2, <2>1, <2>2, <3>1 DEF User
  <2>4. Rights!Held(doc) \subseteq Rights!Held(doc')
    BY <1>2, <2>1, <2>3 DEF Rights!Held, User
  <2> QED BY <1>2, <2>3, <2>4
<1>4. CASE kind[c].op = "edit"
  <2> DEFINE new == Rights!Once(kind[c].roles)
             newRoles == found[c].roles # new
             a == IF kind[c].active # found[c].active THEN kind[c].active ELSE doc.active
             s == IF kind[c].suspended # found[c].suspended THEN kind[c].suspended ELSE doc.suspended
  <2>1. new \in [Roles -> Nat]
    BY DEF Rights!Once
  <2>2. doc' = [doc EXCEPT !.active = a, !.suspended = s,
                           !.roles = IF newRoles THEN new ELSE doc.roles,
                           !.version = IF newRoles THEN doc.version + 1 ELSE doc.version]
    <3>1. doc' = Rights!userFullFromUser(c)
      BY <1>1, <1>4 DEF Rights!Save
    <3> QED BY <3>1, Zenon DEF Rights!userFullFromUser
  <2>3. /\ a \in BOOLEAN /\ (a # doc.active => found[c].active = doc.active)
        /\ s \in BOOLEAN /\ (s # doc.suspended => found[c].suspended = doc.suspended)
    <3>1. /\ found[c].active \in BOOLEAN /\ found[c].suspended \in BOOLEAN
          /\ doc.active \in BOOLEAN /\ doc.suspended \in BOOLEAN
      BY <1>1, <1>2 DEF User
    <3> QED BY <1>1, <1>4, <3>1, ChangedField
  <2>4. CASE newRoles
    <3>1. doc' = [doc EXCEPT !.active = a, !.suspended = s, !.roles = new, !.version = doc.version + 1]
      BY <2>2, <2>4
    <3>2. found[c].roles = doc.roles
      BY <1>1, <1>2, <1>4, <2>4 DEF Rights!Refused, RightsInv
    <3> HIDE DEF new, a, s
    <3>3. doc' \in User /\ doc'.version = doc.version + 1 /\ doc'.active = a /\ doc'.suspended = s
      <4>1. doc.version + 1 \in Nat
        BY <1>2 DEF User
      <4>2. /\ a \in BOOLEAN /\ s \in BOOLEAN
        BY <2>3
      <4> QED BY <1>2, <2>1, <3>1, <4>1, <4>2 DEF User
    <3> QED BY <1>2, <2>3, <3>2, <3>3 DEF Rights!Held
  <2>5. CASE ~newRoles
    <3>1. doc' = [doc EXCEPT !.active = a, !.suspended = s, !.roles = doc.roles, !.version = doc.version]
      BY <2>2, <2>5
    <3> HIDE DEF new, a, s
    <3>2. doc' \in User /\ doc'.version = doc.version /\ doc'.roles = doc.roles /\ doc'.active = a /\ doc'.suspended = s
      <4>1. doc.roles \in [Roles -> Nat] /\ doc.version \in Nat
        BY <1>2 DEF User
      <4>2. /\ a \in BOOLEAN /\ s \in BOOLEAN
        BY <2>3
      <4> QED BY <1>2, <3>1, <4>1, <4>2 DEF User
    <3> QED BY <1>2, <2>3, <3>2 DEF Rights!Held
  <2> QED BY <2>4, <2>5
<1> QED BY <1>1, <1>3, <1>4

LEMMA RightsInductive == RightsInv /\ [Rights!RightsNext]_(Rights!rightsVars) => RightsInv'
<1> SUFFICES ASSUME RightsInv, [Rights!RightsNext]_(Rights!rightsVars) PROVE RightsInv'
  OBVIOUS
<1> USE DEF RightsInv
<1>1. CASE UNCHANGED Rights!rightsVars
  BY <1>1 DEF Rights!rightsVars, Rights!RemovedIsForgotten, Rights!RemovalEnded
<1>2. ASSUME NEW c \in Two, Rights!Arrive(c) PROVE RightsInv'
  <2>1. PICK s \in {"load", "done", "find"} : pc' = [pc EXCEPT ![c] = s] /\ (s = "load" => kind[c].op # "ask")
    BY <1>2 DEF Rights!Arrive, Rights!Goto
  <2> QED BY <1>2, <2>1 DEF Rights!Arrive, Rights!RemovedIsForgotten, Rights!RemovalEnded
<1>3. ASSUME NEW c \in Two, Rights!FindForCache(c) PROVE RightsInv'
  BY <1>3 DEF Rights!FindForCache, Rights!Goto, Rights!RemovedIsForgotten, Rights!RemovalEnded
<1>4. ASSUME NEW c \in Two, Rights!PutInCache(c) PROVE RightsInv'
  BY <1>4 DEF Rights!PutInCache, Rights!Goto, Rights!RemovedIsForgotten, Rights!RemovalEnded
<1>5. ASSUME NEW c \in Two, Rights!Load(c) PROVE RightsInv'
  <2>1. kind[c].op \in {"insert", "edit", "general", "delete", "ask"}
    BY WantsAre
  <2>2. /\ pc[c] = "load" /\ found' = [found EXCEPT ![c] = doc] /\ UNCHANGED <<doc, cached, kind, excused>>
    BY <1>5 DEF Rights!Load
  <2>3. PICK s \in {"invalidate", "delete", "done", "save"} :
          /\ pc' = [pc EXCEPT ![c] = s]
          /\ s = "save" => kind[c].op # "delete" /\ doc # Missing
    BY <1>5, <2>1 DEF Rights!Load, Rights!Goto
  <2>4. s = "save" => kind[c].op \in {"insert", "edit", "general"}
    BY <2>1, <2>2, <2>3
  <2>5. Rights!RemovedIsForgotten'
    BY <2>2, <2>3 DEF Rights!RemovedIsForgotten, Rights!RemovalEnded
  <2>6. doc # Missing => doc.version <= doc.version
    BY DEF User
  <2> QED BY <2>2, <2>3, <2>4, <2>5, <2>6
<1>6. ASSUME NEW c \in Two, Rights!Save(c) PROVE RightsInv'
  <2>1. /\ pc[c] = "save" /\ pc' = [pc EXCEPT ![c] = "done"] /\ UNCHANGED <<cached, kind, found, excused>>
    BY <1>6 DEF Rights!Save, Rights!Goto
  <2>2. doc' = doc \/ (doc # Missing /\ doc' # Missing /\ doc \in User /\ doc' \in User)
    BY <1>6, SavedUser, RightsUsers DEF User
  <2>3. Rights!RemovedIsForgotten'
    BY <2>1, <2>2 DEF Rights!RemovedIsForgotten, Rights!RemovalEnded
  <2>4. ASSUME NEW d \in Two, pc'[d] = "save", doc' # Missing
        PROVE  found[d].version <= doc'.version /\ (found[d].version = doc'.version => found[d].roles = doc'.roles)
    BY <1>6, <2>1, <2>2, <2>4, SavedUser DEF User
  <2> QED BY <2>1, <2>2, <2>3, <2>4
<1>7. ASSUME NEW c \in Two, Rights!deleteOne(c) PROVE RightsInv'
  BY <1>7 DEF Rights!deleteOne, Rights!Elsewhere, Rights!Goto, Rights!RemovedIsForgotten, Rights!RemovalEnded
<1>8. ASSUME NEW c \in Two, Rights!invalidate(c) PROVE RightsInv'
  BY <1>8 DEF Rights!invalidate, Rights!Goto, Rights!RemovedIsForgotten, Rights!RemovalEnded
<1>9. ASSUME NEW p \in Processes, Rights!Expire(p) PROVE RightsInv'
  BY <1>9 DEF Rights!Expire, Rights!RemovedIsForgotten, Rights!RemovalEnded
<1> QED BY <1>1, <1>2, <1>3, <1>4, <1>5, <1>6, <1>7, <1>8, <1>9 DEF Rights!RightsNext

LEMMA RightsFollow == RightsInv /\ Rights!RightsNext => Rights!RightsStay
<1> SUFFICES ASSUME RightsInv, Rights!RightsNext, doc # Missing, doc' # Missing, doc' # doc
             PROVE  /\ \A r \in Rights!Held(doc) \ Rights!Held(doc') :
                          \E c \in Two : pc[c] = "save" /\ pc'[c] = "done" /\ r \in Rights!Held(found[c])
                    /\ doc.active # doc'.active =>
                          \E c \in Two : pc[c] = "save" /\ pc'[c] = "done" /\ found[c].active = doc.active
                    /\ doc.suspended # doc'.suspended =>
                          \E c \in Two : pc[c] = "save" /\ pc'[c] = "done" /\ found[c].suspended = doc.suspended
  BY DEF Rights!RightsStay, Rights!Held
<1>1. PICK c \in Two : Rights!Save(c)
  BY DEF Rights!RightsNext, Rights!Arrive, Rights!FindForCache, Rights!PutInCache, Rights!Load, Rights!deleteOne, Rights!invalidate, Rights!Expire
<1>2. pc[c] = "save" /\ pc'[c] = "done"
  BY <1>1 DEF Rights!Save, Rights!Goto, RightsInv
<1> QED BY <1>1, <1>2, SavedUser

-----------------------------------------------------------------------------
(* Commenting.  A version of a meta stands for its items and its bans; and *)
(* what let a request go on is among what it has passed.                   *)
MetaFound == [at : Nat \ {0}, meta : Comments!Meta]
Follows(old) ==
    /\ old \in MetaFound /\ old.at \in DOMAIN metas
    /\ old.meta.version <= metas[old.at].version
    /\ old.meta.version = metas[old.at].version =>
          old.meta.items = metas[old.at].items /\ old.meta.banned = metas[old.at].banned

MetasHold ==
    /\ metas \in Seq(Comments!Meta)
    /\ pc = [c \in Three |-> pc[c]] /\ found = [c \in Three |-> found[c]]
    /\ user \in [Three -> Commenters] /\ child \in [Three -> Children]
    /\ \A c \in Three :
          /\ found[c] \in {None, New} \/ Follows(found[c])
          /\ found[c] = New => pc[c] \in {"find", "find again"} /\ kind[c] \in Comments!OnMeta
          /\ pc[c] \in {"check", "insert", "increase"} => found[c] \notin {None, New}
          /\ pc[c] = "save" /\ kind[c] \in Comments!OnMeta => found[c] \notin {None, New}
          /\ pc[c] \in {"check", "find again", "insert", "increase"} => kind[c] = "insert"
CountsHold ==
    /\ counted \subseteq Three /\ IsFiniteSet(counted) /\ \A c \in counted : pc[c] = "done"
    /\ \A ch \in Children : IsFiniteSet(Comments!Counts(ch))
    /\ Comments!CountsAddUp
Passes(c) ==
    /\ passed[c] \subseteq Comments!Means
    /\ kind[c] = "insert" =>
          /\ found[c] = New => {"status", "ban"} \subseteq passed[c]
          /\ pc[c] = "check" =>
                /\ found[c].meta.status = "ALLOW" => "status" \in passed[c]
                /\ found[c].meta.banned[user[c]] = 0 => "ban" \in passed[c]
          /\ pc[c] \in {"find again", "insert"} => Comments!Means \subseteq passed[c]
PassesHold == \A c \in Three : Passes(c)
CommentsInv == MetasHold /\ CountsHold /\ PassesHold

(* The first of a set of places.                                           *)
LEMMA LeastPlace ==
  ASSUME NEW S, S \subseteq Nat, S # {}
  PROVE  Comments!First(S) \in S
<1>1. PICK i \in S : \A j \in S : ~(<<j, i>> \in OpToRel(<, Nat))
  BY WFMin, NatLessThanWellFounded
<1>2. \A j \in S : i <= j
  <2> SUFFICES ASSUME NEW j \in S, ~(i <= j) PROVE FALSE
    OBVIOUS
  <2>1. i \in Nat /\ j \in Nat /\ j < i
    OBVIOUS
  <2>2. <<j, i>> \in OpToRel(<, Nat)
    BY <2>1 DEF OpToRel
  <2> QED BY <1>1, <2>2
<1> QED BY <1>2 DEF Comments!First

-----------------------------------------------------------------------------
(* The counts, an element for each comment.                                *)
LEMMA CountsOf ==
  \A ch, u : u \in Comments!Counts(ch) <=>
     \E m \in DOMAIN metas : \E i \in Comments!ItemsOf(m, ch) : \E n \in 1 .. metas[m].items[i].length : u = <<m, i, n>>
BY DEF Comments!Counts, Comments!Counted

LEMMA CountsOfNext ==
  \A ch, u : u \in Comments!Counts(ch)' <=>
     \E m \in DOMAIN metas' : \E i \in Comments!ItemsOf(m, ch)' : \E n \in 1 .. metas'[m].items[i].length : u = <<m, i, n>>
BY DEF Comments!Counts, Comments!Counted

(* Metas without items add nothing.                                        *)
LEMMA SameCounts ==
  ASSUME DOMAIN metas \subseteq DOMAIN metas',
         \A m \in DOMAIN metas' : IF m \in DOMAIN metas THEN metas'[m].items = metas[m].items
                                  ELSE metas'[m].items = <<>>
  PROVE  \A ch : Comments!Counts(ch)' = Comments!Counts(ch)
<1> SUFFICES ASSUME NEW ch PROVE Comments!Counts(ch)' = Comments!Counts(ch)
  OBVIOUS
<1>1. \A m \in DOMAIN metas : Comments!ItemsOf(m, ch)' = Comments!ItemsOf(m, ch)
  BY DEF Comments!ItemsOf
<1>2. \A m \in DOMAIN metas' \ DOMAIN metas : Comments!ItemsOf(m, ch)' = {}
  BY DEF Comments!ItemsOf
<1>3. \A u : u \in Comments!Counts(ch) => u \in Comments!Counts(ch)'
  BY <1>1, CountsOf, CountsOfNext
<1>4. \A u : u \in Comments!Counts(ch)' => u \in Comments!Counts(ch)
  BY <1>1, <1>2, CountsOf, CountsOfNext
<1> QED BY <1>3, <1>4

(* An item that is counted up, or pushed, adds one.                        *)
LEMMA OneMore ==
  ASSUME MetasHold, NEW place \in DOMAIN metas, NEW i \in Nat \ {0}, NEW n \in Nat \ {0}, NEW ch,
         DOMAIN metas' = DOMAIN metas, \A m \in DOMAIN metas : m # place => metas'[m].items = metas[m].items,
         DOMAIN metas'[place].items = DOMAIN metas[place].items \union {i},
         \A j \in DOMAIN metas[place].items : j # i => metas'[place].items[j] = metas[place].items[j],
         metas'[place].items[i].child = ch, metas'[place].items[i].length = n,
         i \in DOMAIN metas[place].items => metas[place].items[i].child = ch /\ metas[place].items[i].length = n - 1,
         i \notin DOMAIN metas[place].items => n = 1
  PROVE  /\ Comments!Counts(ch)' = Comments!Counts(ch) \union {<<place, i, n>>} /\ <<place, i, n>> \notin Comments!Counts(ch)
         /\ \A d : d # ch => Comments!Counts(d)' = Comments!Counts(d)
<1>1. \A m \in DOMAIN metas : \A d : m # place \/ d # ch => Comments!ItemsOf(m, d)' = Comments!ItemsOf(m, d)
  BY DEF Comments!ItemsOf
<1>2. Comments!ItemsOf(place, ch)' = Comments!ItemsOf(place, ch) \union {i}
  BY DEF Comments!ItemsOf
<1>3. \A m \in DOMAIN metas : \A j : m # place \/ (j \in DOMAIN metas[place].items /\ j # i) =>
          metas'[m].items[j].length = metas[m].items[j].length
  OBVIOUS
<1>4. \A d : d # ch => \A j \in Comments!ItemsOf(place, d) : j # i /\ j \in DOMAIN metas[place].items
  BY DEF Comments!ItemsOf
<1>5. ASSUME NEW d, d # ch PROVE Comments!Counts(d)' = Comments!Counts(d)
  <2>1. \A m \in DOMAIN metas : Comments!ItemsOf(m, d)' = Comments!ItemsOf(m, d)
    BY <1>1, <1>5
  <2>2. \A m \in DOMAIN metas : \A j \in Comments!ItemsOf(m, d) : metas'[m].items[j].length = metas[m].items[j].length
    BY <1>3, <1>4, <1>5 DEF Comments!ItemsOf
  <2>3. \A u : u \in Comments!Counts(d) => u \in Comments!Counts(d)'
    BY <2>1, <2>2, CountsOf, CountsOfNext
  <2>4. \A u : u \in Comments!Counts(d)' => u \in Comments!Counts(d)
    BY <2>1, <2>2, CountsOf, CountsOfNext
  <2> QED BY <2>3, <2>4
<1>6. <<place, i, n>> \notin Comments!Counts(ch)
  <2> SUFFICES ASSUME <<place, i, n>> \in Comments!Counts(ch) PROVE FALSE
    OBVIOUS
  <2>1. i \in Comments!ItemsOf(place, ch) /\ n \in 1 .. metas[place].items[i].length
    BY CountsOf
  <2>2. metas[place].items[i].length = n - 1
    BY <2>1 DEF Comments!ItemsOf
  <2> QED BY <2>1, <2>2
<1>7. \A u : u \in Comments!Counts(ch) => u \in Comments!Counts(ch)'
  <2> SUFFICES ASSUME NEW m \in DOMAIN metas, NEW j \in Comments!ItemsOf(m, ch), NEW k \in 1 .. metas[m].items[j].length
               PROVE  <<m, j, k>> \in Comments!Counts(ch)'
    BY CountsOf
  <2>1. j \in Comments!ItemsOf(m, ch)'
    BY <1>1, <1>2
  <2>2. k \in 1 .. metas'[m].items[j].length
    <3>1. CASE m = place /\ j = i
      <4>1. metas[m].items[j].length = n - 1 /\ metas'[m].items[j].length = n
        BY <3>1 DEF Comments!ItemsOf
      <4> QED BY <4>1
    <3>2. CASE m # place \/ j # i
      BY <1>3, <3>2 DEF Comments!ItemsOf
    <3> QED BY <3>1, <3>2
  <2> QED BY <2>1, <2>2, CountsOfNext
<1>8. <<place, i, n>> \in Comments!Counts(ch)'
  <2>1. i \in Comments!ItemsOf(place, ch)' /\ n \in 1 .. metas'[place].items[i].length
    BY <1>2
  <2> QED BY <2>1, CountsOfNext
<1>9. \A u : u \in Comments!Counts(ch)' => u \in Comments!Counts(ch) \union {<<place, i, n>>}
  <2> SUFFICES ASSUME NEW m \in DOMAIN metas, NEW j \in Comments!ItemsOf(m, ch)', NEW k \in 1 .. metas'[m].items[j].length
               PROVE  <<m, j, k>> \in Comments!Counts(ch) \/ <<m, j, k>> = <<place, i, n>>
    BY CountsOfNext
  <2>1. CASE m = place /\ j = i
    <3>1. k \in 1 .. n
      BY <2>1
    <3>2. CASE k = n
      BY <2>1, <3>2
    <3>3. CASE k # n
      <4>1. i \in DOMAIN metas[place].items
        BY <3>1, <3>3
      <4>2. i \in Comments!ItemsOf(place, ch) /\ k \in 1 .. metas[place].items[i].length
        BY <3>1, <3>3, <4>1 DEF Comments!ItemsOf
      <4> QED BY <2>1, <4>2, CountsOf
    <3> QED BY <3>2, <3>3
  <2>2. CASE m # place \/ j # i
    <3>1. j \in Comments!ItemsOf(m, ch)
      BY <1>1, <1>2, <2>2
    <3>2. metas'[m].items[j].length = metas[m].items[j].length
      BY <1>3, <2>2, <3>1 DEF Comments!ItemsOf
    <3> QED BY <3>1, <3>2, CountsOf
  <2> QED BY <2>1, <2>2
<1> QED BY <1>5, <1>6, <1>7, <1>8, <1>9

-----------------------------------------------------------------------------
(* What a meta that is written leaves of what was found before.            *)
LEMMA Rewritten ==
  ASSUME metas \in Seq(Comments!Meta), NEW place \in DOMAIN metas, NEW m \in Comments!Meta,
         metas' = [metas EXCEPT ![place] = m],
         \/ m.version = metas[place].version + 1
         \/ m.version = metas[place].version /\ m.items = metas[place].items /\ m.banned = metas[place].banned
  PROVE  metas' \in Seq(Comments!Meta) /\ DOMAIN metas' = DOMAIN metas /\ \A old : Follows(old) => Follows(old)'
<1>1. metas' \in Seq(Comments!Meta) /\ DOMAIN metas' = DOMAIN metas
  OBVIOUS
<1>2. \A i \in DOMAIN metas : metas[i] \in Comments!Meta
  OBVIOUS
<1>3. \A i \in DOMAIN metas : metas'[i] = IF i = place THEN m ELSE metas[i]
  OBVIOUS
<1>4. ASSUME NEW old, Follows(old) PROVE Follows(old)'
  <2>1. old.meta.version \in Nat /\ metas[place].version \in Nat
    BY <1>2, <1>4 DEF Follows, MetaFound, Comments!Meta
  <2>2. CASE old.at = place
    BY <1>1, <1>3, <1>4, <2>1, <2>2 DEF Follows
  <2>3. CASE old.at # place
    BY <1>1, <1>3, <1>4, <2>3 DEF Follows
  <2> QED BY <2>2, <2>3
<1> QED BY <1>1, <1>4

LEMMA Appended ==
  ASSUME metas \in Seq(Comments!Meta), NEW m \in Comments!Meta, metas' = Append(metas, m)
  PROVE  /\ metas' \in Seq(Comments!Meta) /\ DOMAIN metas' = DOMAIN metas \union {Len(metas) + 1}
         /\ metas'[Len(metas) + 1] = m /\ \A i \in DOMAIN metas : metas'[i] = metas[i]
         /\ \A old : Follows(old) => Follows(old)'
<1>1. /\ metas' \in Seq(Comments!Meta) /\ DOMAIN metas' = DOMAIN metas \union {Len(metas) + 1}
      /\ metas'[Len(metas) + 1] = m /\ \A i \in DOMAIN metas : metas'[i] = metas[i]
  BY AppendProperties
<1>2. ASSUME NEW old, Follows(old) PROVE Follows(old)'
  BY <1>1, <1>2 DEF Follows
<1> QED BY <1>1, <1>2

LEMMA FoundIsMeta == \A x \in MetaFound : x \notin {None, New}
BY CommentsFirst DEF MetaFound

LEMMA FoundMade == \A i \in Nat \ {0}, m \in Comments!Meta : [at |-> i, meta |-> m] \in MetaFound
BY DEF MetaFound

(* A step in which one request goes on, with what it has found and where   *)
(* it goes, keeps what holds of the metas.                                 *)
LEMMA GoesOn ==
  ASSUME MetasHold, NEW c \in Three, NEW step, NEW seen,
         metas' \in Seq(Comments!Meta), \A old : Follows(old) => Follows(old)',
         pc' = [pc EXCEPT ![c] = step], found' = [found EXCEPT ![c] = seen], UNCHANGED <<kind, user, child>>,
         seen \in {None, New} \/ Follows(seen)',
         seen = New => step \in {"find", "find again"} /\ kind[c] \in Comments!OnMeta,
         step \in {"check", "insert", "increase"} => seen \notin {None, New},
         step = "save" /\ kind[c] \in Comments!OnMeta => seen \notin {None, New},
         step \in {"check", "find again", "insert", "increase"} => kind[c] = "insert"
  PROVE  MetasHold'
<1>1. /\ pc'[c] = step /\ found'[c] = seen /\ pc' = [d \in Three |-> pc'[d]]
      /\ found' = [d \in Three |-> found'[d]]
      /\ \A d \in Three : d # c => pc'[d] = pc[d] /\ found'[d] = found[d]
  BY DEF MetasHold
<1>2. /\ user' \in [Three -> Commenters] /\ child' \in [Three -> Children] /\ Comments!OnMeta' = Comments!OnMeta
      /\ \A d \in Three : kind'[d] = kind[d]
  BY DEF MetasHold, Comments!OnMeta
<1>3. ASSUME NEW d \in Three
      PROVE  /\ found'[d] \in {None, New} \/ (Follows(found[d]))'
             /\ found'[d] = New => pc'[d] \in {"find", "find again"} /\ kind'[d] \in Comments!OnMeta
             /\ pc'[d] \in {"check", "insert", "increase"} => found'[d] \notin {None, New}
             /\ pc'[d] = "save" /\ kind'[d] \in Comments!OnMeta => found'[d] \notin {None, New}
             /\ pc'[d] \in {"check", "find again", "insert", "increase"} => kind'[d] = "insert"
  <2>1. CASE d = c
    BY <1>1, <1>2, <2>1 DEF Follows
  <2>2. CASE d # c
    <3>1. found[d] \in {None, New} \/ (Follows(found[d]))'
      BY <1>1, <2>2 DEF MetasHold, Follows
    <3> QED BY <1>1, <1>2, <2>2, <3>1 DEF MetasHold, Follows
  <2> QED BY <2>1, <2>2
<1> QED BY <1>1, <1>2, <1>3 DEF MetasHold, Comments!OnMeta

(* Nothing is counted.                                                     *)
LEMMA CountsStay ==
  ASSUME CountsHold, UNCHANGED <<counted, child>>, \A d \in counted : pc'[d] = "done",
         \A ch : Comments!Counts(ch)' = Comments!Counts(ch)
  PROVE  CountsHold'
<1>1. \A ch \in Children : IsFiniteSet(Comments!Counts(ch)') /\
          Comments!Cardinality(Comments!Counts(ch)') = Comments!Cardinality({d \in counted' : child'[d] = ch})
  BY DEF CountsHold, Comments!CountsAddUp
<1>2. Comments!CountsAddUp'
  BY <1>1 DEF Comments!CountsAddUp, Comments!Cardinality, Cardinality
<1> QED BY <1>1, <1>2 DEF CountsHold

(* What was passed is not forgotten while the request goes on.             *)
LEMMA Adds ==
  ASSUME Comments!CommentsNext, NEW c \in Three
  PROVE  /\ passed'[c] = IF Comments!Asking(c)' THEN passed[c] \union Comments!Open(c)' ELSE {}
         /\ Comments!Open(c)' \subseteq Comments!Means /\ Comments!Means' = Comments!Means
BY DEF Comments!CommentsNext, Comments!Open, Comments!Means

LEMMA PassesStay ==
  ASSUME MetasHold, PassesHold, Comments!CommentsNext, NEW c \in Three,
         pc'[c] = pc[c], found'[c] = found[c], UNCHANGED <<kind, user>>
  PROVE  Passes(c)'
<1>1. Passes(c)
  BY DEF PassesHold
<1>2. kind[c] = "insert" /\ (found[c] = New \/ pc[c] \in {"check", "find again", "insert"}) => Comments!Asking(c)'
  BY CommentsFirst DEF MetasHold, Comments!Asking
<1>3. /\ passed'[c] \subseteq Comments!Means /\ Comments!Means' = Comments!Means
      /\ Comments!Asking(c)' => passed[c] \subseteq passed'[c]
  BY <1>1, Adds DEF Passes
<1> QED BY <1>1, <1>2, <1>3 DEF Passes

(* A request that ends or is not to comment has nothing to pass.           *)
LEMMA PassesNothing ==
  ASSUME PassesHold, Comments!CommentsNext, NEW c \in Three,
         kind'[c] # "insert" \/ (found'[c] # New /\ pc'[c] \in {"increase", "done"})
  PROVE  Passes(c)'
BY Adds DEF Passes, PassesHold

(* Every step but those of a request that asks leaves what it has passed.  *)
LEMMA OthersPass ==
  ASSUME MetasHold, PassesHold, Comments!CommentsNext, NEW c \in Three, Passes(c)', UNCHANGED <<kind, user>>,
         \A d \in Three : d # c => pc'[d] = pc[d] /\ found'[d] = found[d]
  PROVE  PassesHold'
BY PassesStay DEF PassesHold

-----------------------------------------------------------------------------
LEMMA NewMetaTyped == Comments!NewMeta \in Comments!Meta /\ Comments!NewMeta.items = <<>> /\ Comments!NewMeta.version = 0
<1>1. <<>> \in Seq(Comments!Item)
  BY EmptySeq
<1> QED BY <1>1 DEF Comments!NewMeta, Comments!Meta

(* The last steps of a request.                                            *)
LEMMA Ends ==
  ASSUME CommentsInv, Comments!CommentsNext, NEW c \in Three, Comments!Done(c), UNCHANGED <<kind, user, child, counted>>,
         metas' \in Seq(Comments!Meta), \A old : Follows(old) => Follows(old)',
         \A ch : Comments!Counts(ch)' = Comments!Counts(ch)
  PROVE  CommentsInv'
<1>1. MetasHold /\ CountsHold /\ PassesHold /\ None # New
  BY CommentsFirst DEF CommentsInv
<1>2. pc' = [pc EXCEPT ![c] = "done"] /\ found' = [found EXCEPT ![c] = None]
  BY DEF Comments!Done, Comments!Goto
<1>3. MetasHold'
  BY <1>1, <1>2, GoesOn
<1>4. pc'[c] = "done" /\ found'[c] = None /\ \A d \in Three : d # c => pc'[d] = pc[d] /\ found'[d] = found[d]
  BY <1>1, <1>2 DEF MetasHold
<1>5. CountsHold'
  <2>1. \A d \in counted : pc'[d] = "done"
    BY <1>1, <1>2 DEF CountsHold, MetasHold
  <2> QED BY <1>1, <2>1, CountsStay
<1>6. PassesHold'
  BY <1>1, <1>4, OthersPass, PassesNothing
<1> QED BY <1>3, <1>5, <1>6 DEF CommentsInv

(* A step that leaves the metas as they are.                               *)
LEMMA MetasStay ==
  ASSUME UNCHANGED metas
  PROVE  (\A old : Follows(old) => Follows(old)') /\ \A ch : Comments!Counts(ch)' = Comments!Counts(ch)
BY DEF Follows, Comments!Counts, Comments!Counted, Comments!ItemsOf

LEMMA CommentsStart == Comments!CommentsInit => CommentsInv
<1> SUFFICES ASSUME Comments!CommentsInit PROVE CommentsInv
  OBVIOUS
<1>1. metas \in Seq(Comments!Meta) /\ \A i \in DOMAIN metas : metas[i].items = <<>>
  BY CommentsFirst DEF Comments!CommentsInit
<1>2. MetasHold
  BY <1>1, CommentsFirst DEF Comments!CommentsInit, MetasHold
<1>3. \A ch : Comments!Counts(ch) = {}
  <2>1. \A ch : \A m \in DOMAIN metas : Comments!ItemsOf(m, ch) = {}
    BY <1>1 DEF Comments!ItemsOf
  <2> QED BY <2>1, CountsOf
<1>4. CountsHold
  <2>1. counted = {} /\ \A ch : {c \in counted : child[c] = ch} = {}
    BY DEF Comments!CommentsInit
  <2>2. Comments!CountsAddUp
    BY <1>3, <2>1 DEF Comments!CountsAddUp
  <2> QED BY <1>3, <2>1, <2>2, FS_EmptySet DEF CountsHold
<1>5. PassesHold
  BY CommentsFirst DEF Comments!CommentsInit, PassesHold, Passes
<1> QED BY <1>2, <1>4, <1>5 DEF CommentsInv

-----------------------------------------------------------------------------
LEMMA FindMetaStep ==
  ASSUME CommentsInv, Comments!CommentsNext, NEW c \in Three, Comments!FindMeta(c)
  PROVE  CommentsInv'
<1>1. MetasHold /\ CountsHold /\ PassesHold /\ None # New
  BY CommentsFirst DEF CommentsInv
<1>2. /\ pc[c] \in {"find", "find again"} /\ found[c] = None /\ UNCHANGED <<metas, kind, user, child, counted>>
      /\ metas \in Seq(Comments!Meta)
  BY <1>1 DEF Comments!FindMeta, Comments!metaless, MetasHold
<1>3. (\A old : Follows(old) => Follows(old)') /\ \A ch : Comments!Counts(ch)' = Comments!Counts(ch)
  BY <1>2, MetasStay
<1>4. Comments!AfterFind(c) = IF kind[c] # "insert" THEN "save" ELSE IF pc[c] = "find" THEN "check" ELSE "insert"
  BY DEF Comments!AfterFind
<1>5. PICK step, seen :
         /\ pc' = [pc EXCEPT ![c] = step] /\ found' = [found EXCEPT ![c] = seen]
         /\ \/ metas = <<>> /\ seen = New /\ step = pc[c]
            \/ metas # <<>> /\ seen = [at |-> 1, meta |-> metas[1]] /\ step = Comments!AfterFind(c)
  <2>1. DOMAIN pc = Three /\ pc = [pc EXCEPT ![c] = pc[c]]
    BY <1>1 DEF MetasHold
  <2> QED BY <2>1 DEF Comments!FindMeta, Comments!Goto
<1>6. metas # <<>> => 1 \in DOMAIN metas /\ metas[1] \in Comments!Meta
  <2>1. metas # <<>> => Len(metas) \in Nat \ {0}
    BY <1>2, EmptySeq
  <2>2. DOMAIN metas = 1 .. Len(metas) /\ \A i \in DOMAIN metas : metas[i] \in Comments!Meta
    <3>1. metas \in Seq(Comments!Meta)
      BY <1>2
    <3> QED BY ONLY <3>1
  <2> QED BY <2>1, <2>2
<1>7. (metas = <<>> /\ seen = New) \/ (metas # <<>> /\ Follows(seen)' /\ seen \notin {None, New})
  <2> SUFFICES ASSUME metas # <<>>, seen = [at |-> 1, meta |-> metas[1]]
               PROVE  Follows(seen)' /\ seen \notin {None, New}
    BY <1>5
  <2>1. seen \in MetaFound /\ seen.at = 1 /\ seen.meta = metas[1] /\ MetaFound' = MetaFound
    BY <1>6, FoundMade DEF MetaFound, Comments!Meta, Comments!Item
  <2>2. metas[1].version \in Nat
    BY <1>6 DEF Comments!Meta
  <2>3. seen \notin {None, New}
    BY <2>1, FoundIsMeta
  <2>4. metas'[1] = seen.meta /\ 1 \in DOMAIN metas'
    BY <1>2, <1>6, <2>1
  <2> HIDE DEF MetaFound
  <2> QED BY <2>1, <2>2, <2>3, <2>4 DEF Follows
<1>8. MetasHold'
  <2>1. step = "find again" => kind[c] = "insert"
    BY <1>1, <1>4, <1>5 DEF MetasHold
  <2>2. seen = New => step \in {"find", "find again"} /\ kind[c] \in Comments!OnMeta
    <3>1. kind[c] \in Comments!OnMeta
      BY DEF Comments!FindMeta
    <3>2. seen = New => step = pc[c]
      BY <1>5, <1>7
    <3> QED BY <1>2, <3>1, <3>2
  <2>3. /\ step \in {"check", "insert", "increase"} => kind[c] = "insert" /\ seen # New
        /\ step = "save" => seen # New
    BY <1>2, <1>4, <1>5, <1>7
  <2> QED BY <1>1, <1>2, <1>3, <1>5, <1>7, <2>1, <2>2, <2>3, GoesOn
<1>9. CountsHold'
  <2>1. \A d \in counted : pc'[d] = "done"
    BY <1>1, <1>2, <1>5 DEF CountsHold, MetasHold
  <2> QED BY <1>1, <1>2, <1>3, <2>1, CountsStay
<1>10. /\ pc'[c] = step /\ found'[c] = seen /\ \A d \in Three : d # c => pc'[d] = pc[d] /\ found'[d] = found[d]
  BY <1>1, <1>5 DEF MetasHold
<1>11. Passes(c)'
  <2>1. CASE kind[c] # "insert"
    BY <1>1, <1>2, <2>1, PassesNothing
  <2>2. CASE kind[c] = "insert"
    <3>1. Comments!Asking(c)'
      BY <1>1, <1>2, <1>7, <1>10, <2>2, CommentsFirst DEF Comments!Asking
    <3>2. passed'[c] = passed[c] \union Comments!Open(c)' /\ Comments!Open(c)' \subseteq Comments!Means
      BY <3>1, Adds
    <3>3. /\ metas = <<>> \/ metas[1].status = "ALLOW" => "status" \in Comments!Open(c)'
          /\ metas = <<>> \/ metas[1].banned[user[c]] = 0 => "ban" \in Comments!Open(c)'
      BY <1>2 DEF Comments!Open, Comments!Means
    <3>4. Passes(c) /\ Comments!Means' = Comments!Means
      BY <1>1 DEF PassesHold, Comments!Means
    <3>5. seen = New => {"status", "ban"} \subseteq passed'[c]
      BY <1>5, <1>7, <3>2, <3>3
    <3>6. step = "check" => /\ seen.meta.status = "ALLOW" => "status" \in passed'[c]
                            /\ seen.meta.banned[user[c]] = 0 => "ban" \in passed'[c]
      <4> SUFFICES ASSUME step = "check"
                   PROVE  /\ seen.meta.status = "ALLOW" => "status" \in passed'[c]
                          /\ seen.meta.banned[user[c]] = 0 => "ban" \in passed'[c]
        OBVIOUS
      <4>1. step # pc[c]
        BY <1>2
      <4>2. seen.meta = metas[1]
        BY <1>5, <4>1
      <4> QED BY <3>2, <3>3, <4>2
    <3>7. step \in {"find again", "insert"} => Comments!Means \subseteq passed'[c]
      BY <1>2, <1>4, <1>5, <2>2, <3>2, <3>4 DEF Passes
    <3> QED BY <1>2, <1>10, <3>2, <3>4, <3>5, <3>6, <3>7 DEF Passes
  <2> QED BY <2>1, <2>2
<1> QED BY <1>1, <1>2, <1>8, <1>9, <1>10, <1>11, OthersPass DEF CommentsInv

LEMMA CreateMetaStep ==
  ASSUME CommentsInv, Comments!CommentsNext, NEW c \in Three, Comments!CreateMeta(c)
  PROVE  CommentsInv'
<1>0. PICK new, seen, step :
         new = Len(metas) + 1 /\ seen = [at |-> new, meta |-> Comments!NewMeta] /\ step = Comments!AfterFind(c)
  OBVIOUS
<1>1. MetasHold /\ CountsHold /\ PassesHold /\ None # New /\ metas \in Seq(Comments!Meta)
  BY CommentsFirst DEF CommentsInv, MetasHold
<1>2. /\ found[c] = New /\ pc[c] \in {"find", "find again"} /\ metas' = Append(metas, Comments!NewMeta)
      /\ pc' = [pc EXCEPT ![c] = step] /\ found' = [found EXCEPT ![c] = seen]
      /\ UNCHANGED <<kind, user, child, counted>>
  BY <1>0, <1>1 DEF Comments!CreateMeta, Comments!Goto, Comments!metaless, MetasHold
<1>3. step = IF kind[c] # "insert" THEN "save" ELSE IF pc[c] = "find" THEN "check" ELSE "insert"
  BY <1>0 DEF Comments!AfterFind
<1>4. /\ metas' \in Seq(Comments!Meta) /\ DOMAIN metas' = DOMAIN metas \union {new} /\ new \in Nat \ {0}
      /\ metas'[new] = Comments!NewMeta /\ \A i \in DOMAIN metas : metas'[i] = metas[i]
      /\ \A old : Follows(old) => Follows(old)'
  <2>1. PICK m \in Comments!Meta : m = Comments!NewMeta
    BY NewMetaTyped
  <2>2. /\ metas' \in Seq(Comments!Meta) /\ DOMAIN metas' = DOMAIN metas \union {new}
        /\ metas'[new] = m /\ \A i \in DOMAIN metas : metas'[i] = metas[i]
        /\ \A old : Follows(old) => Follows(old)'
    BY <1>0, <1>1, <1>2, <2>1, Appended
  <2> QED BY <1>0, <1>1, <2>1, <2>2
<1>5. Follows(seen)' /\ seen \notin {None, New}
  <2>1. seen \in MetaFound /\ MetaFound' = MetaFound /\ seen.at = new /\ seen.meta = Comments!NewMeta
    BY <1>0, <1>4, NewMetaTyped, FoundMade DEF MetaFound, Comments!Meta, Comments!Item
  <2> QED BY <1>4, <2>1, NewMetaTyped, FoundIsMeta DEF Follows
<1>6. MetasHold'
  BY <1>1, <1>2, <1>3, <1>4, <1>5, GoesOn
<1>7. CountsHold'
  <2>1. \A d \in counted : pc'[d] = "done"
    BY <1>1, <1>2 DEF CountsHold, MetasHold
  <2>2. \A ch : Comments!Counts(ch)' = Comments!Counts(ch)
    BY <1>4, NewMetaTyped, SameCounts
  <2> QED BY <1>1, <1>2, <2>1, <2>2, CountsStay
<1>8. /\ pc'[c] = step /\ found'[c] = seen /\ \A d \in Three : d # c => pc'[d] = pc[d] /\ found'[d] = found[d]
  BY <1>1, <1>2 DEF MetasHold
<1>9. Passes(c)'
  <2>1. CASE kind[c] # "insert"
    BY <1>1, <1>2, <2>1, PassesNothing
  <2>2. CASE kind[c] = "insert"
    <3>1. Comments!Asking(c)'
      BY <1>2, <1>5, <1>8, <2>2 DEF Comments!Asking
    <3>2. passed[c] \subseteq passed'[c] /\ passed'[c] \subseteq Comments!Means /\ Comments!Means' = Comments!Means /\ Passes(c)
      BY <1>1, <3>1, Adds DEF PassesHold, Passes
    <3>3. found'[c] # New /\ kind'[c] = "insert" /\ {"status", "ban"} \subseteq passed'[c]
      BY <1>2, <1>5, <1>8, <2>2, <3>2 DEF Passes
    <3>4. step \in {"find again", "insert"} => Comments!Means \subseteq passed'[c]
      BY <1>2, <1>3, <2>2, <3>2 DEF Passes
    <3> QED BY <1>8, <3>2, <3>3, <3>4 DEF Passes
  <2> QED BY <2>1, <2>2
<1> QED BY <1>1, <1>2, <1>6, <1>7, <1>8, <1>9, OthersPass DEF CommentsInv

-----------------------------------------------------------------------------
LEMMA checkStep ==
  ASSUME CommentsInv, Comments!CommentsNext, NEW c \in Three, Comments!checkCommentingAbilities(c)
  PROVE  CommentsInv'
<1>1. MetasHold /\ CountsHold /\ PassesHold /\ None # New
  BY CommentsFirst DEF CommentsInv
<1>2. /\ pc[c] = "check" /\ UNCHANGED <<metas, kind, user, child, counted>> /\ metas \in Seq(Comments!Meta)
      /\ kind[c] = "insert"
  BY <1>1 DEF Comments!checkCommentingAbilities, MetasHold
<1>3. (\A old : Follows(old) => Follows(old)') /\ \A ch : Comments!Counts(ch)' = Comments!Counts(ch)
  BY <1>2, MetasStay
<1>4. CASE Comments!Done(c)
  BY <1>2, <1>3, <1>4, Ends
<1>5. CASE ~Comments!Done(c)
  <2>1. /\ found[c].meta.status = "ALLOW" /\ ~Comments!isRestricted(user[c]) /\ found[c].meta.banned[user[c]] = 0
        /\ restrictions' = Comments!Current
        /\ pc' = [pc EXCEPT ![c] = "find again"] /\ found' = [found EXCEPT ![c] = None]
    BY <1>5 DEF Comments!checkCommentingAbilities, Comments!Goto
  <2>2. MetasHold'
    BY <1>1, <1>2, <1>3, <2>1, GoesOn
  <2>3. CountsHold'
    <3>1. \A d \in counted : pc'[d] = "done"
      BY <1>1, <1>2, <2>1 DEF CountsHold, MetasHold
    <3> QED BY <1>1, <1>2, <1>3, <3>1, CountsStay
  <2>4. /\ pc'[c] = "find again" /\ found'[c] = None
        /\ \A d \in Three : d # c => pc'[d] = pc[d] /\ found'[d] = found[d]
    BY <1>1, <2>1 DEF MetasHold
  <2>5. Passes(c)'
    <3>1. Comments!Asking(c)'
      BY <1>2, <2>4 DEF Comments!Asking
    <3>2. passed'[c] = passed[c] \union Comments!Open(c)' /\ Comments!Open(c)' \subseteq Comments!Means
      BY <3>1, Adds
    <3>3. Passes(c) /\ Comments!Means' = Comments!Means
      BY <1>1 DEF PassesHold, Comments!Means
    <3>4. "status" \in passed[c] /\ "ban" \in passed[c]
      BY <1>2, <2>1, <3>3 DEF Passes
    <3>5. "restriction" \in Comments!Open(c)'
      <4>1. (Comments!Of(user[c], Comments!Current))' = {}
        BY <1>2, <2>1 DEF Comments!isRestricted, Comments!Of, Comments!Current
      <4> QED BY <4>1 DEF Comments!Open, Comments!Means
    <3> QED BY <1>1, <2>4, <3>2, <3>3, <3>4, <3>5 DEF Passes, Comments!Means
  <2> QED BY <1>1, <1>2, <2>2, <2>3, <2>4, <2>5, OthersPass DEF CommentsInv
<1> QED BY <1>4, <1>5

LEMMA insertStep ==
  ASSUME CommentsInv, Comments!CommentsNext, NEW c \in Three, Comments!insertComment(c)
  PROVE  CommentsInv'
<1>1. MetasHold /\ CountsHold /\ PassesHold
  BY DEF CommentsInv
<1>2. /\ pc[c] = "insert" /\ UNCHANGED <<metas, kind, user, child, counted>> /\ metas \in Seq(Comments!Meta)
      /\ pc' = [pc EXCEPT ![c] = "increase"] /\ found' = [found EXCEPT ![c] = found[c]]
      /\ kind[c] = "insert" /\ found[c] \notin {None, New}
  <2>1. pc[c] = "insert" /\ kind[c] = "insert" /\ found[c] \notin {None, New} /\ metas \in Seq(Comments!Meta)
    BY <1>1 DEF Comments!insertComment, MetasHold
  <2>2. found' = found
    BY DEF Comments!insertComment
  <2> QED BY <1>1, <2>1, <2>2 DEF Comments!insertComment, Comments!Goto, MetasHold
<1>3. (\A old : Follows(old) => Follows(old)') /\ \A ch : Comments!Counts(ch)' = Comments!Counts(ch)
  BY <1>2, MetasStay
<1>4. MetasHold'
  <2>1. PICK seen : seen = found[c]
    OBVIOUS
  <2>2. Follows(seen)'
    BY <1>1, <1>2, <1>3, <2>1 DEF MetasHold
  <2> QED BY <1>1, <1>2, <1>3, <2>1, <2>2, GoesOn
<1>5. CountsHold'
  <2>1. \A d \in counted : pc'[d] = "done"
    BY <1>1, <1>2 DEF CountsHold, MetasHold
  <2> QED BY <1>1, <1>2, <1>3, <2>1, CountsStay
<1>6. pc'[c] = "increase" /\ found'[c] = found[c] /\ \A d \in Three : d # c => pc'[d] = pc[d] /\ found'[d] = found[d]
  BY <1>1, <1>2 DEF MetasHold
<1> QED BY <1>1, <1>2, <1>4, <1>5, <1>6, OthersPass, PassesNothing DEF CommentsInv

(* The meta that is written: the items of the version that it has, with    *)
(* the count of the child one higher, or with an item more.                *)
Longer(items, next, ch) ==
    /\ next \in Seq(Comments!Item)
    /\ \E i, n \in Nat \ {0} :
          /\ DOMAIN next = DOMAIN items \union {i} /\ next[i].child = ch /\ next[i].length = n
          /\ \A j \in DOMAIN items : j # i => next[j] = items[j]
          /\ i \in DOMAIN items => items[i].child = ch /\ items[i].length = n - 1
          /\ i \notin DOMAIN items => n = 1

LEMMA PushedItem ==
  ASSUME NEW items \in Seq(Comments!Item), NEW ch \in Children
  PROVE  Longer(items, Append(items, [child |-> ch, length |-> 1]), ch)
<1>1. PICK item : item = [child |-> ch, length |-> 1]
  OBVIOUS
<1>2. item \in Comments!Item /\ item.child = ch /\ item.length = 1
  BY <1>1 DEF Comments!Item
<1>3. PICK next : next = Append(items, item)
  OBVIOUS
<1>4. PICK i : i = Len(items) + 1
  OBVIOUS
<1>5. /\ next \in Seq(Comments!Item) /\ DOMAIN next = DOMAIN items \union {i} /\ next[i] = item
      /\ \A j \in DOMAIN items : next[j] = items[j]
  BY <1>2, <1>3, <1>4, AppendProperties
<1>6. i \in Nat \ {0} /\ i \notin DOMAIN items
  BY <1>4, LenProperties
<1>7. Longer(items, next, ch)
  BY <1>2, <1>5, <1>6 DEF Longer
<1> QED BY <1>1, <1>3, <1>7

LEMMA LongerItem ==
  ASSUME NEW items \in Seq(Comments!Item), NEW i \in DOMAIN items
  PROVE  Longer(items, [items EXCEPT ![i].length = items[i].length + 1], items[i].child)
<1>1. DOMAIN items \subseteq Nat \ {0} /\ items[i] \in Comments!Item
  OBVIOUS
<1>2. items[i].length \in Nat
  BY <1>1 DEF Comments!Item
<1>3. PICK item : item = [items[i] EXCEPT !.length = items[i].length + 1]
  OBVIOUS
<1>4. PICK n : n = items[i].length + 1
  OBVIOUS
<1>5. item \in Comments!Item /\ item.child = items[i].child /\ item.length = n
  BY <1>1, <1>2, <1>3, <1>4 DEF Comments!Item
<1>6. PICK next : next = [items EXCEPT ![i] = item]
  OBVIOUS
<1>7. /\ next \in Seq(Comments!Item) /\ DOMAIN next = DOMAIN items /\ next[i] = item
      /\ \A j \in DOMAIN items : j # i => next[j] = items[j]
  BY <1>5, <1>6
<1>8. i \in Nat \ {0} /\ n \in Nat \ {0} /\ items[i].length = n - 1 /\ DOMAIN items = DOMAIN items \union {i}
  <2>1. items[i].length = n - 1 /\ n \in Nat \ {0}
    BY <1>2, <1>4
  <2> QED BY <1>1, <2>1
<1>9. Longer(items, next, items[i].child)
  BY <1>5, <1>7, <1>8 DEF Longer
<1>10. next = [items EXCEPT ![i].length = items[i].length + 1]
  BY <1>3, <1>6
<1> QED BY <1>9, <1>10

LEMMA Increase ==
  ASSUME MetasHold, NEW c \in Three, pc[c] = "increase",
         Comments!PlaceOf(c) = {} \/ metas[found[c].at].version = found[c].meta.version
  PROVE  Longer(metas[found[c].at].items, Comments!Increased(c), child[c])
<1>1. Follows(found[c]) /\ child[c] \in Children /\ metas \in Seq(Comments!Meta)
  BY DEF MetasHold
<1>2. metas[found[c].at] \in Comments!Meta
  BY <1>1 DEF Follows
<1>3. PICK items : items = metas[found[c].at].items
  OBVIOUS
<1>4. items \in Seq(Comments!Item)
  BY <1>2, <1>3 DEF Comments!Meta
<1>5. CASE Comments!PlaceOf(c) = {}
  <2>1. Comments!Increased(c) = Append(items, [child |-> child[c], length |-> 1])
    BY <1>3, <1>5 DEF Comments!Increased
  <2> QED BY <1>1, <1>3, <1>4, <2>1, PushedItem
<1>6. CASE Comments!PlaceOf(c) # {}
  <2>1. found[c].meta.items = items
    BY <1>1, <1>3, <1>6 DEF Follows
  <2>2. PICK i : i = Comments!First(Comments!PlaceOf(c))
    OBVIOUS
  <2>3. i \in DOMAIN items /\ items[i].child = child[c]
    <3>1. Comments!PlaceOf(c) \subseteq DOMAIN items /\ \A j \in Comments!PlaceOf(c) : items[j].child = child[c]
      BY <2>1 DEF Comments!PlaceOf
    <3>2. DOMAIN items \subseteq Nat
      BY <1>4
    <3>3. i \in Comments!PlaceOf(c)
      BY <1>6, <2>2, <3>1, <3>2, LeastPlace
    <3> QED BY <3>1, <3>3
  <2>4. Comments!Increased(c) = [items EXCEPT ![i].length = items[i].length + 1]
    BY <1>6, <2>1, <2>2 DEF Comments!Increased
  <2>5. Longer(items, [items EXCEPT ![i].length = items[i].length + 1], items[i].child)
    BY <1>4, <2>3, LongerItem
  <2>6. Longer(items, Comments!Increased(c), items[i].child)
    BY ONLY <2>4, <2>5
  <2> QED BY ONLY <1>3, <2>3, <2>6
<1> QED BY <1>5, <1>6

LEMMA increaseStep ==
  ASSUME CommentsInv, Comments!CommentsNext, NEW c \in Three, Comments!increaseExisting(c)
  PROVE  CommentsInv'
<1>1. MetasHold /\ CountsHold /\ PassesHold
  BY DEF CommentsInv
<1>2. pc[c] = "increase" /\ Comments!Done(c) /\ UNCHANGED <<kind, user, child>> /\ metas \in Seq(Comments!Meta)
  BY <1>1 DEF Comments!increaseExisting, MetasHold
<1>3. CASE UNCHANGED <<metas, counted>>
  BY <1>1, <1>2, <1>3, MetasStay, Ends
<1>4. CASE ~UNCHANGED <<metas, counted>>
  <2>1. PICK place : place = found[c].at
    OBVIOUS
  <2>2. PICK next : next = Comments!Increased(c)
    OBVIOUS
  <2>3. PICK m : m = [metas[place] EXCEPT !.items = next, !.version = metas[place].version + 1]
    OBVIOUS
  <2>4. /\ Comments!PlaceOf(c) = {} \/ metas[place].version = found[c].meta.version
        /\ metas' = [metas EXCEPT ![place] = m] /\ counted' = counted \union {c}
    BY <1>4, <2>1, <2>2, <2>3 DEF Comments!increaseExisting, Comments!Saved
  <2>5. place \in DOMAIN metas /\ metas[place] \in Comments!Meta /\ child[c] \in Children
    <3>1. Follows(found[c]) /\ child[c] \in Children
      BY <1>1, <1>2 DEF MetasHold
    <3> QED BY <1>2, <2>1, <3>1 DEF Follows
  <2>6. Longer(metas[place].items, next, child[c])
    BY <1>1, <1>2, <2>1, <2>2, <2>4, Increase
  <2>7. m \in Comments!Meta /\ m.items = next /\ m.version = metas[place].version + 1
    <3>1. next \in Seq(Comments!Item)
      BY <2>6 DEF Longer
    <3>2. PICK now : now = metas[place]
      OBVIOUS
    <3>3. /\ now.banned \in [Commenters -> Nat] /\ now.version \in Nat /\ now.status \in {"ALLOW", "DISABLE"}
          /\ now = [status |-> now.status, banned |-> now.banned, items |-> now.items, version |-> now.version]
      BY <2>5, <3>2 DEF Comments!Meta
    <3>4. m = [status |-> now.status, banned |-> now.banned, items |-> next, version |-> now.version + 1]
      BY <2>3, <3>2, <3>3
    <3>5. now.version + 1 \in Nat
      BY <3>3
    <3> QED BY <3>1, <3>2, <3>3, <3>4, <3>5 DEF Comments!Meta
  <2>8. metas' \in Seq(Comments!Meta) /\ DOMAIN metas' = DOMAIN metas /\ \A old : Follows(old) => Follows(old)'
    BY <1>2, <2>4, <2>5, <2>7, Rewritten
  <2>9. pc' = [pc EXCEPT ![c] = "done"] /\ found' = [found EXCEPT ![c] = None]
    BY <1>2 DEF Comments!Done, Comments!Goto
  <2>10. /\ pc'[c] = "done" /\ found'[c] = None
         /\ \A d \in Three : d # c => pc'[d] = pc[d] /\ found'[d] = found[d]
    BY <1>1, <2>9 DEF MetasHold
  <2>11. MetasHold'
    BY <1>1, <1>2, <2>8, <2>9, GoesOn, CommentsFirst
  <2>12. CountsHold'
    <3>1. PICK i \in Nat \ {0}, n \in Nat \ {0} :
             /\ DOMAIN next = DOMAIN metas[place].items \union {i} /\ next[i].child = child[c] /\ next[i].length = n
             /\ \A j \in DOMAIN metas[place].items : j # i => next[j] = metas[place].items[j]
             /\ i \in DOMAIN metas[place].items => metas[place].items[i].child = child[c] /\ metas[place].items[i].length = n - 1
             /\ i \notin DOMAIN metas[place].items => n = 1
      BY <2>6 DEF Longer
    <3>2. metas'[place].items = next /\ \A k \in DOMAIN metas : k # place => metas'[k].items = metas[k].items
      BY <1>2, <2>4, <2>5, <2>7
    <3>3. PICK ch : ch = child[c]
      OBVIOUS
    <3>4. /\ Comments!Counts(ch)' = Comments!Counts(ch) \union {<<place, i, n>>} /\ <<place, i, n>> \notin Comments!Counts(ch)
          /\ \A d : d # ch => Comments!Counts(d)' = Comments!Counts(d)
      BY <1>1, <2>5, <2>8, <3>1, <3>2, <3>3, OneMore
    <3>5. \A d \in Children : IsFiniteSet(Comments!Counts(d)) /\ IsFiniteSet({e \in counted : child[e] = d})
                              /\ Cardinality(Comments!Counts(d)) = Cardinality({e \in counted : child[e] = d})
      <4>1. \A d \in Children : IsFiniteSet({e \in counted : child[e] = d})
        BY <1>1, FS_Subset DEF CountsHold
      <4> QED BY <1>1, <4>1 DEF CountsHold, Comments!CountsAddUp, Comments!Cardinality, Cardinality
    <3>6. c \notin counted /\ c \in Three
      BY <1>1, <1>2 DEF CountsHold
    <3>7. /\ {e \in counted' : child'[e] = ch} = {e \in counted : child[e] = ch} \union {c}
          /\ c \notin {e \in counted : child[e] = ch}
          /\ \A d : d # ch => {e \in counted' : child'[e] = d} = {e \in counted : child[e] = d}
      BY <1>2, <2>4, <3>3, <3>6
    <3>8. ASSUME NEW S, IsFiniteSet(S), NEW x, x \notin S
          PROVE  IsFiniteSet(S \union {x}) /\ Cardinality(S \union {x}) = Cardinality(S) + 1
      BY ONLY <3>8, FS_AddElement
    <3>9. ch \in Children /\ child' = child
      BY <1>2, <2>5, <3>3
    <3>10. /\ IsFiniteSet(Comments!Counts(ch)') /\ Cardinality(Comments!Counts(ch)') = Cardinality(Comments!Counts(ch)) + 1
      <4>1. PICK S : S = Comments!Counts(ch)
        OBVIOUS
      <4>2. IsFiniteSet(S) /\ <<place, i, n>> \notin S /\ Comments!Counts(ch)' = S \union {<<place, i, n>>}
        BY <3>4, <3>5, <3>9, <4>1
      <4>3. IsFiniteSet(S \union {<<place, i, n>>}) /\ Cardinality(S \union {<<place, i, n>>}) = Cardinality(S) + 1
        BY ONLY <3>8, <4>2
      <4> QED BY <4>1, <4>2, <4>3
    <3>11. Cardinality({e \in counted' : child'[e] = ch}) = Cardinality({e \in counted : child[e] = ch}) + 1
      <4>1. PICK S : S = {e \in counted : child[e] = ch}
        OBVIOUS
      <4>2. IsFiniteSet(S) /\ c \notin S
        BY <3>5, <3>7, <3>9, <4>1
      <4>3. Cardinality(S \union {c}) = Cardinality(S) + 1
        BY ONLY <3>8, <4>2
      <4>4. {e \in counted' : child'[e] = ch} = S \union {c}
        BY <3>7, <4>1
      <4> QED BY <4>1, <4>3, <4>4
    <3>12. ASSUME NEW d \in Children
           PROVE  IsFiniteSet(Comments!Counts(d)') /\ Cardinality(Comments!Counts(d)') = Cardinality({e \in counted' : child'[e] = d})
      <4>1. CASE d = ch
        <5>1. Cardinality(Comments!Counts(ch)) = Cardinality({e \in counted : child[e] = ch})
          BY <3>5, <3>9
        <5> QED BY <3>10, <3>11, <4>1, <5>1
      <4>2. CASE d # ch
        <5>1. Comments!Counts(d)' = Comments!Counts(d) /\ {e \in counted' : child'[e] = d} = {e \in counted : child[e] = d}
          BY <3>4, <3>7, <4>2
        <5> QED BY <3>5, <5>1
      <4> QED BY <4>1, <4>2
    <3>13. Comments!CountsAddUp'
      BY <3>9, <3>12 DEF Comments!CountsAddUp, Comments!Cardinality, Cardinality
    <3>14. counted' \subseteq Three /\ IsFiniteSet(counted') /\ \A d \in counted' : pc'[d] = "done"
      BY <1>1, <2>4, <2>10, FS_AddElement DEF CountsHold
    <3> QED BY <3>9, <3>12, <3>13, <3>14 DEF CountsHold
  <2> QED BY <1>1, <1>2, <2>10, <2>11, <2>12, OthersPass, PassesNothing, CommentsFirst DEF CommentsInv
<1> QED BY <1>3, <1>4

LEMMA ModerateStep ==
  ASSUME CommentsInv, Comments!CommentsNext, NEW c \in Three, Comments!Moderate(c)
  PROVE  CommentsInv'
<1>1. MetasHold /\ CountsHold /\ PassesHold
  BY DEF CommentsInv
<1>2. /\ pc[c] = "save" /\ kind[c] \in Comments!OnMeta /\ Comments!Done(c) /\ UNCHANGED <<kind, user, child, counted>>
      /\ metas \in Seq(Comments!Meta) /\ user[c] \in Commenters
  BY <1>1 DEF Comments!Moderate, Comments!metaless, MetasHold
<1>3. CASE UNCHANGED metas
  BY <1>1, <1>2, <1>3, MetasStay, Ends
<1>4. CASE ~UNCHANGED metas
  <2>1. PICK place, now, old, u : place = found[c].at /\ now = metas[place] /\ old = found[c].meta /\ u = user[c]
    OBVIOUS
  <2>2. /\ place \in DOMAIN metas /\ now \in Comments!Meta /\ old \in Comments!Meta /\ u \in Commenters
        /\ now.version = old.version => old.banned = now.banned
    <3>1. Follows(found[c])
      BY <1>1, <1>2 DEF MetasHold
    <3>2. place \in DOMAIN metas /\ old \in Comments!Meta /\ (now.version = old.version => old.banned = now.banned)
      BY <2>1, <3>1 DEF Follows, MetaFound
    <3> QED BY <1>2, <2>1, <3>2
  <2>3. /\ now.banned \in [Commenters -> Nat] /\ now.version \in Nat /\ now.items \in Seq(Comments!Item)
        /\ now.status \in {"ALLOW", "DISABLE"}
    BY <2>2 DEF Comments!Meta
  <2>4. PICK m : /\ metas' = [metas EXCEPT ![place] = m]
                 /\ \/ m = [now EXCEPT !.banned[u] = now.banned[u] + 1, !.version = now.version + 1]
                    \/ /\ m = [now EXCEPT !.banned[u] = now.banned[u] - 1, !.version = now.version + 1]
                       /\ now.banned[u] > 0
                    \/ \E s \in {"ALLOW", "DISABLE"} : m = [now EXCEPT !.status = Comments!Written(old.status, s, now.status)]
    BY <1>4, <2>1, <2>2 DEF Comments!Moderate, Comments!Saved
  <2>5. /\ m \in Comments!Meta /\ m.items = now.items
        /\ m.version = now.version + 1 \/ (m.version = now.version /\ m.banned = now.banned)
    <3>1. ASSUME NEW b \in Nat, m = [now EXCEPT !.banned[u] = b, !.version = now.version + 1]
          PROVE  m \in Comments!Meta /\ m.items = now.items /\ m.version = now.version + 1
      <4>1. [now.banned EXCEPT ![u] = b] \in [Commenters -> Nat] /\ now.version + 1 \in Nat
        BY <2>2, <2>3
      <4>2. m = [status |-> now.status, banned |-> [now.banned EXCEPT ![u] = b], items |-> now.items, version |-> now.version + 1]
        BY <2>2, <3>1 DEF Comments!Meta
      <4> QED BY <2>3, <4>1, <4>2 DEF Comments!Meta
    <3>2. ASSUME NEW s \in {"ALLOW", "DISABLE"}, m = [now EXCEPT !.status = Comments!Written(old.status, s, now.status)]
          PROVE  m \in Comments!Meta /\ m.items = now.items /\ m.version = now.version /\ m.banned = now.banned
      <4>1. Comments!Written(old.status, s, now.status) \in {"ALLOW", "DISABLE"}
        BY <2>3 DEF Comments!Written
      <4> HIDE DEF Comments!Written
      <4> QED BY <2>2, <3>2, <4>1 DEF Comments!Meta
    <3>3. now.banned[u] + 1 \in Nat /\ (now.banned[u] > 0 => now.banned[u] - 1 \in Nat)
      BY <2>2, <2>3
    <3> QED BY <2>4, <3>1, <3>2, <3>3
  <2>6. metas' \in Seq(Comments!Meta) /\ DOMAIN metas' = DOMAIN metas /\ \A f : Follows(f) => Follows(f)'
    BY <1>2, <2>1, <2>2, <2>4, <2>5, Rewritten
  <2>7. \A ch : Comments!Counts(ch)' = Comments!Counts(ch)
    <3>1. \A k \in DOMAIN metas : metas'[k].items = metas[k].items
      BY <1>2, <2>1, <2>2, <2>4, <2>5
    <3> QED BY <2>6, <3>1, SameCounts
  <2> QED BY <1>2, <2>6, <2>7, Ends
<1> QED BY <1>3, <1>4

-----------------------------------------------------------------------------
(* The steps that end a request without a word to the metas.               *)
LEMMA Leaves ==
  ASSUME CommentsInv, Comments!CommentsNext, NEW c \in Three, Comments!Done(c),
         UNCHANGED <<metas, kind, user, child, counted>>
  PROVE  CommentsInv'
<1>1. metas \in Seq(Comments!Meta)
  BY DEF CommentsInv, MetasHold
<1> QED BY <1>1, MetasStay, Ends

LEMMA FindRestrictionStep ==
  ASSUME CommentsInv, Comments!CommentsNext, NEW c \in Three, Comments!FindRestriction(c)
  PROVE  CommentsInv'
<1>1. MetasHold /\ CountsHold /\ PassesHold /\ None # New
  BY CommentsFirst DEF CommentsInv
<1>2. /\ pc[c] = "find" /\ kind[c] \in {"restrict", "suspend"} /\ UNCHANGED <<metas, kind, user, child, counted>>
      /\ pc' = [pc EXCEPT ![c] = "save"] /\ found' = found /\ metas \in Seq(Comments!Meta)
  BY <1>1 DEF Comments!FindRestriction, Comments!Goto, MetasHold
<1>3. (\A old : Follows(old) => Follows(old)') /\ \A ch : Comments!Counts(ch)' = Comments!Counts(ch)
  BY <1>2, MetasStay
<1>4. MetasHold'
  <2>1. PICK seen : seen = found[c]
    OBVIOUS
  <2>2. found' = [found EXCEPT ![c] = seen]
    BY <1>1, <1>2, <2>1 DEF MetasHold
  <2>3. seen \in {None, New} \/ Follows(seen)'
    BY <1>1, <1>3, <2>1 DEF MetasHold
  <2>4. seen # New /\ kind[c] \notin Comments!OnMeta
    BY <1>1, <1>2, <2>1 DEF MetasHold, Comments!OnMeta
  <2> QED BY <1>1, <1>2, <1>3, <2>2, <2>3, <2>4, GoesOn
<1>5. CountsHold'
  <2>1. \A d \in counted : pc'[d] = "done"
    BY <1>1, <1>2 DEF CountsHold, MetasHold
  <2> QED BY <1>1, <1>2, <1>3, <2>1, CountsStay
<1>6. \A d \in Three : d # c => pc'[d] = pc[d] /\ found'[d] = found[d]
  BY <1>1, <1>2 DEF MetasHold
<1>7. Passes(c)'
  BY <1>1, <1>2, PassesNothing
<1> QED BY <1>1, <1>2, <1>4, <1>5, <1>6, <1>7, OthersPass DEF CommentsInv

(* Nobody's request moves.                                                 *)
LEMMA NobodyMoves ==
  ASSUME CommentsInv, Comments!CommentsNext, UNCHANGED <<metas, pc, kind, user, child, found, counted>>
  PROVE  CommentsInv'
<1>1. MetasHold /\ CountsHold /\ PassesHold
  BY DEF CommentsInv
<1>2. (\A old : Follows(old) => Follows(old)') /\ \A ch : Comments!Counts(ch)' = Comments!Counts(ch)
  BY <1>1, MetasStay DEF MetasHold
<1>3. MetasHold'
  BY <1>1, <1>2 DEF MetasHold, Follows, MetaFound, Comments!Meta, Comments!Item, Comments!OnMeta
<1>4. CountsHold'
  BY <1>1, <1>2, CountsStay DEF CountsHold
<1>5. PassesHold'
  BY <1>1, PassesStay DEF PassesHold
<1> QED BY <1>3, <1>4, <1>5 DEF CommentsInv

LEMMA CommentsInductive ==
  CommentsInv /\ [Comments!CommentsNext]_(Comments!commentsVars) => CommentsInv'
<1> SUFFICES ASSUME CommentsInv, [Comments!CommentsNext]_(Comments!commentsVars) PROVE CommentsInv'
  OBVIOUS
<1>1. CASE UNCHANGED Comments!commentsVars
  <2>1. UNCHANGED <<metas, pc, kind, user, child, found, counted, passed>>
    BY <1>1 DEF Comments!commentsVars
  <2>2. MetasHold'
    BY <2>1 DEF CommentsInv, MetasHold, Follows, MetaFound, Comments!Meta, Comments!Item, Comments!OnMeta
  <2>3. CountsHold'
    <3>1. Comments!CountsAddUp' /\ \A ch : Comments!Counts(ch)' = Comments!Counts(ch)
      BY <2>1 DEF CommentsInv, CountsHold, Comments!CountsAddUp, Comments!Counts, Comments!Counted, Comments!ItemsOf
    <3> QED BY <2>1, <3>1 DEF CommentsInv, CountsHold
  <2>4. PassesHold'
    BY <2>1 DEF CommentsInv, PassesHold, Passes, Comments!Means
  <2> QED BY <2>2, <2>3, <2>4 DEF CommentsInv
<1>2. CASE Comments!CommentsNext
  <2>1. ASSUME NEW c \in Three, Comments!NotOwner(c) \/ Comments!SaveRestriction(c) \/ Comments!Release(c) \/ Comments!Clear(c)
        PROVE  CommentsInv'
    <3>1. Comments!Done(c) /\ UNCHANGED <<metas, kind, user, child, counted>>
      BY <2>1 DEF Comments!NotOwner, Comments!SaveRestriction, Comments!Release, Comments!Clear, Comments!metaless
    <3> QED BY <1>2, <3>1, Leaves
  <2>2. ASSUME NEW r \in restrictions, Comments!Elapse(r)
        PROVE  CommentsInv'
    <3>1. UNCHANGED <<metas, pc, kind, user, child, found, counted>>
      BY <2>2 DEF Comments!Elapse
    <3> QED BY <1>2, <3>1, NobodyMoves
  <2>3. Comments!Step
    BY <1>2 DEF Comments!CommentsNext
  <2>4. \/ \E c \in Three :
              \/ Comments!FindMeta(c) \/ Comments!CreateMeta(c) \/ Comments!NotOwner(c)
              \/ Comments!checkCommentingAbilities(c) \/ Comments!insertComment(c) \/ Comments!increaseExisting(c)
              \/ Comments!Moderate(c) \/ Comments!FindRestriction(c) \/ Comments!SaveRestriction(c)
              \/ Comments!Release(c) \/ Comments!Clear(c)
        \/ \E r \in restrictions : Comments!Elapse(r)
    BY <2>3 DEF Comments!Step
  <2> QED BY <1>2, <2>1, <2>2, <2>4, FindMetaStep, CreateMetaStep, checkStep, insertStep, increaseStep, ModerateStep,
             FindRestrictionStep
<1> QED BY <1>1, <1>2

(* A comment that is stored is that of a request about to, and it goes on. *)
LEMMA CommentsFollow ==
  ASSUME CommentsInv, Comments!CommentsNext, NEW c \in comments' \ comments
  PROVE  passed'[c] = Comments!Means
<1>1. Comments!Step
  BY DEF Comments!CommentsNext
<1>2. \A d \in Three :
         /\ Comments!FindMeta(d) \/ Comments!CreateMeta(d) \/ Comments!NotOwner(d) => comments' = comments
         /\ Comments!checkCommentingAbilities(d) \/ Comments!increaseExisting(d) => comments' = comments
         /\ Comments!Moderate(d) \/ Comments!FindRestriction(d) \/ Comments!SaveRestriction(d) => comments' = comments
         /\ Comments!Release(d) => comments' = comments
         /\ Comments!Clear(d) => comments' \subseteq comments
  BY DEF Comments!FindMeta, Comments!CreateMeta, Comments!NotOwner, Comments!checkCommentingAbilities,
         Comments!increaseExisting, Comments!Moderate, Comments!FindRestriction, Comments!SaveRestriction,
         Comments!Release, Comments!Clear, Comments!metaless
<1>3. \A r \in restrictions : Comments!Elapse(r) => comments' = comments
  BY DEF Comments!Elapse
<1>4. PICK d \in Three : Comments!insertComment(d)
  BY <1>1, <1>2, <1>3 DEF Comments!Step
<1>5. d = c /\ pc[c] = "insert" /\ kind[c] = "insert" /\ UNCHANGED <<kind, found>> /\ pc'[c] = "increase" /\ c \in Three
  BY <1>4 DEF Comments!insertComment, Comments!Goto, CommentsInv, MetasHold
<1>6. Comments!Means \subseteq passed[c] /\ passed[c] \subseteq Comments!Means
  BY <1>5 DEF CommentsInv, PassesHold, Passes
<1>7. Comments!Asking(c)'
  BY <1>5 DEF Comments!Asking
<1> QED BY <1>5, <1>6, <1>7, Adds

-----------------------------------------------------------------------------
(* A behaviour of the services is one of the part that `part` names.       *)
LEMMA FilesStep ==
  [ServicesNext]_servicesVars /\ part = "files" => part' = part /\ [Files!Next]_(Files!fileVars)
BY DEF ServicesNext, servicesVars, several, fileOnly, Files!fileVars, Files!requests, Files!tagging

LEMMA VotesStep ==
  [ServicesNext]_servicesVars /\ part = "votes" => part' = part /\ [Votes!VotesNext]_(Votes!votesVars)
BY DEF ServicesNext, servicesVars, several, Votes!votesVars

LEMMA CrudStep ==
  [ServicesNext]_servicesVars /\ part = "crud" => part' = part /\ [Crud!CrudNext]_(Crud!crudVars)
BY DEF ServicesNext, servicesVars, several, crudOnly, Crud!crudVars

LEMMA DocsStep ==
  [ServicesNext]_servicesVars /\ part = "docs" => part' = part /\ [Docs!DocsNext]_(Docs!docsVars)
BY DEF ServicesNext, servicesVars, several, docsOnly, Docs!docsVars

LEMMA PostsStep ==
  [ServicesNext]_servicesVars /\ part = "posts" => part' = part /\ [Posts!PostsNext]_(Posts!postsVars)
BY DEF ServicesNext, servicesVars, several, postsOnly, Posts!postsVars

LEMMA ImportStep ==
  [ServicesNext]_servicesVars /\ part = "import" => part' = part /\ [Import!Next]_(Import!importVars)
BY DEF ServicesNext, servicesVars, several, importOnly, Import!importVars

LEMMA RightsStep ==
  [ServicesNext]_servicesVars /\ part = "rights" => part' = part /\ [Rights!RightsNext]_(Rights!rightsVars)
BY DEF ServicesNext, servicesVars, several, Rights!rightsVars

LEMMA CommentsStep ==
  [ServicesNext]_servicesVars /\ part = "comments" => part' = part /\ [Comments!CommentsNext]_(Comments!commentsVars)
BY DEF ServicesNext, servicesVars, several, metaOnly, Comments!commentsVars

LEMMA PartStays == [ServicesNext]_servicesVars => part' = part
BY DEF ServicesNext, servicesVars

(* Scaled images are of the file they are stored with, what is to be kept  *)
(* is kept, and a proxied image that was answered is stored.               *)
THEOREM FilesAreKept == ServicesSpec => []FilesHold
<1> DEFINE Inv == part = "files" => FilesInv
<1>1. ServicesInit => Inv
  BY FilesStart DEF ServicesInit
<1>2. Inv /\ [ServicesNext]_servicesVars => Inv'
  BY PartStays, FilesStep, FilesInductive
<1>3. Inv => FilesHold
  BY DEF FilesInv, ScalesHold, VolatilityHolds, ProxiesHold, FilesHold
<1> QED BY <1>1, <1>2, <1>3, PTL DEF ServicesSpec

(* Votes change only by the votes of their user, and the tally follows.    *)
THEOREM VotesAreKept == ServicesSpec => VotesHold
<1> DEFINE Inv == part = "votes" => VotesInv
           Kept == part = "votes" => Votes!OthersVotesStay /\ Votes!TallyFollowsVotes'
<1>1. ServicesInit => Inv
  BY VotesStart DEF ServicesInit
<1>2. Inv /\ [ServicesNext]_servicesVars => Inv'
  BY PartStays, VotesStep, VotesInductive
<1>3. Inv /\ [ServicesNext]_servicesVars => [Kept]_servicesVars
  <2> SUFFICES ASSUME Inv, ServicesNext, part = "votes"
               PROVE  Votes!OthersVotesStay /\ Votes!TallyFollowsVotes'
    OBVIOUS
  <2>1. Votes!VotesNext
    BY DEF ServicesNext
  <2> QED BY <1>2, <2>1, VotesFollow, PartStays DEF VotesInv
<1> QED BY <1>1, <1>2, <1>3, PTL DEF ServicesSpec, VotesHold

(* What was resolved or removed is unmarked by old edits only.             *)
THEOREM MarksAreKept == ServicesSpec => MarkStays
<1> DEFINE Inv == part = "crud" => CrudInv
           Kept == part = "crud" => Crud!OnlyOldEditsUnmark
<1>1. ServicesInit => Inv
  BY CrudStarts DEF ServicesInit
<1>2. Inv /\ [ServicesNext]_servicesVars => Inv'
  BY PartStays, CrudStep, CrudInductive
<1>3. Inv /\ [ServicesNext]_servicesVars => [Kept]_servicesVars
  BY CrudFollows DEF ServicesNext
<1> QED BY <1>1, <1>2, <1>3, PTL DEF ServicesSpec, MarkStays

(* Paths and ancestors follow the tree, and a removal that has ended has   *)
(* taken everything below that was not added while it went on.             *)
THEOREM TreesAreKept == ServicesSpec => []TreesHold
<1> DEFINE Inv == part = "docs" => DocsInv
<1>1. ServicesInit => Inv
  BY DocsStart DEF ServicesInit
<1>2. Inv /\ [ServicesNext]_servicesVars => Inv'
  BY PartStays, DocsStep, DocsInductive
<1>3. Inv => TreesHold
  BY TreesFollow DEF TreesHold
<1> QED BY <1>1, <1>2, <1>3, PTL DEF ServicesSpec

(* A public post has a text to show, and keeps the date of its publication *)
THEOREM PostsAreKept == ServicesSpec => PostsHold
<1> DEFINE Inv == part = "posts" => PostsInv
           Kept == part = "posts" => Posts!PublishedHasText' /\ Posts!DateStays
<1>1. ServicesInit => Inv
  BY PostsStart DEF ServicesInit
<1>2. Inv /\ [ServicesNext]_servicesVars => Inv'
  BY PartStays, PostsStep, PostsInductive
<1>3. (PostsInv => Posts!PublishedHasText)'
  BY PublishedFollows, PTL
<1>4. Inv /\ [ServicesNext]_servicesVars => [Kept]_servicesVars
  <2> SUFFICES ASSUME Inv, ServicesNext, part = "posts"
               PROVE  Posts!PublishedHasText' /\ Posts!DateStays
    OBVIOUS
  <2>1. Posts!PostsNext
    BY DEF ServicesNext
  <2>2. PostsInv'
    BY <1>2, PartStays
  <2> QED BY <1>3, <2>1, <2>2, DatesFollow
<1> QED BY <1>1, <1>2, <1>4, PTL DEF ServicesSpec, PostsHold

(* Every subdivision has its country and every locality its subdivision.   *)
THEOREM HierarchyKept == ServicesSpec => []HierarchyIsClosed
<1> DEFINE Inv == part = "import" => ImportInv
<1>1. ServicesInit => Inv
  BY ImportStarts DEF ServicesInit
<1>2. Inv /\ [ServicesNext]_servicesVars => Inv'
  BY PartStays, ImportStep, ImportInductive
<1>3. Inv => HierarchyIsClosed
  BY DEF ImportInv, HierarchyIsClosed
<1> QED BY <1>1, <1>2, <1>3, PTL DEF ServicesSpec

(* Rights that were set stay until somebody who has seen them changes      *)
(* them, and nobody is told of a user who was removed.                     *)
THEOREM RightsAreKept == ServicesSpec => RightsHold
<1> DEFINE Inv == part = "rights" => RightsInv
           Kept == part = "rights" => Rights!RightsStay /\ Rights!RemovedIsForgotten'
<1>1. ServicesInit => Inv
  BY RightsStarts DEF ServicesInit
<1>2. Inv /\ [ServicesNext]_servicesVars => Inv'
  BY PartStays, RightsStep, RightsInductive
<1>3. Inv /\ [ServicesNext]_servicesVars => [Kept]_servicesVars
  <2> SUFFICES ASSUME Inv, ServicesNext, part = "rights"
               PROVE  Rights!RightsStay /\ Rights!RemovedIsForgotten'
    OBVIOUS
  <2>1. Rights!RightsNext
    BY DEF ServicesNext
  <2> QED BY <1>2, <2>1, RightsFollow, PartStays DEF RightsInv
<1> QED BY <1>1, <1>2, <1>3, PTL DEF ServicesSpec, RightsHold

(* The counts of the metas add up to the comments that were counted, and a  *)
(* comment is stored only for who could pass at some time.                  *)
THEOREM CommentsAreKept == ServicesSpec => CommentsHold
<1> DEFINE Inv == part = "comments" => CommentsInv
           Kept == part = "comments" => Comments!CountsAddUp' /\ Comments!OnlyPassed
<1>1. ServicesInit => Inv
  BY CommentsStart DEF ServicesInit
<1>2. Inv /\ [ServicesNext]_servicesVars => Inv'
  BY PartStays, CommentsStep, CommentsInductive
<1>3. Inv /\ [ServicesNext]_servicesVars => [Kept]_servicesVars
  <2> SUFFICES ASSUME Inv, ServicesNext, part = "comments"
               PROVE  Comments!CountsAddUp' /\ Comments!OnlyPassed
    OBVIOUS
  <2>1. Comments!CommentsNext /\ CommentsInv'
    BY <1>2, PartStays DEF ServicesNext
  <2>2. Comments!CountsAddUp'
    BY <2>1 DEF CommentsInv, CountsHold
  <2> QED BY <2>1, <2>2, CommentsFollow DEF Comments!OnlyPassed
<1> QED BY <1>1, <1>2, <1>3, PTL DEF ServicesSpec, CommentsHold
=============================================================================
