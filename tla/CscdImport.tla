----------------------------- MODULE CscdImport -----------------------------
(***************************************************************************)
(* libs/cscd-webservice: the import of countries, their subdivisions and   *)
(* their localities, which every process of the service makes when it      *)
(* starts, unless it finds countries; with CSCD_REINIT the three           *)
(* collections are cleared, without waiting for it, and imported anew.     *)
(*                                                                         *)
(* A collection is a set of the parts that imports have inserted: an       *)
(* insertMany inserts the first part of its documents before the rest, and *)
(* may fail or be cut off between the two.  The levels are linked by codes *)
(* and no index keeps two imports apart.                                   *)
(***************************************************************************)
EXTENDS Integers

CONSTANT
    Processes    \* each start of a process; one that died is started as another

VARIABLES
    reinit,      \* process.env.CSCD_REINIT
    stored,      \* the three collections: parts <<process, part>> of each level
    pc,          \* of initializeData in each process
    at,          \* the level and the part that it inserts next
    clearing,    \* the levels that each process has yet to clear
    disturbed    \* history: imports that met a clearing of after they began to insert

importVars == <<reinit, stored, pc, at, clearing, disturbed>>

Levels == 1 .. 3             \* countries, subdivisions, localities
Parts == 1 .. 2


TypeOK ==
    /\ reinit \in BOOLEAN
    /\ stored \in [Levels -> SUBSET (Processes \X Parts)]
    /\ pc \in [Processes -> {"count", "download", "insert", "done"}]
    /\ at \in [Processes -> Levels \X Parts]
    /\ clearing \in [Processes -> SUBSET Levels]
    /\ disturbed \subseteq Processes

Init ==
    /\ reinit \in BOOLEAN
    /\ stored = [l \in Levels |-> {}]
    /\ pc = [p \in Processes |-> "count"]
    /\ at = [p \in Processes |-> <<1, 1>>]
    /\ clearing = [p \in Processes |-> {}]
    /\ disturbed = {}

Goto(p, step) == pc' = [pc EXCEPT ![p] = step]

(* Up to the request for the data: the deletions are on their way.         *)
Start(p) ==
    /\ pc[p] = "count"
    /\ IF reinit
       THEN Goto(p, "download") /\ clearing' = [clearing EXCEPT ![p] = Levels]
       ELSE /\ Goto(p, IF stored[1] = {} THEN "download" ELSE "done")
            /\ UNCHANGED clearing
    /\ UNCHANGED <<reinit, stored, at, disturbed>>

(* deleteMany({}) of one level.  It takes parts away from imports that     *)
(* others, or this one, are at or have made.                               *)
Clear(p, l) ==
    /\ l \in clearing[p]
    /\ clearing' = [clearing EXCEPT ![p] = @ \ {l}]
    /\ stored' = [stored EXCEPT ![l] = {}]
    /\ disturbed' = disturbed \union {i \in Processes : \E k \in Levels, n \in Parts : <<i, n>> \in stored[k]}
    /\ UNCHANGED <<reinit, pc, at>>

Download(p) ==
    /\ pc[p] = "download" /\ Goto(p, "insert")
    /\ at' = [at EXCEPT ![p] = <<1, 1>>]
    /\ UNCHANGED <<reinit, stored, clearing, disturbed>>

InsertMany_BottomUp(p) ==       \* bug: the levels are inserted from the last to the first
    LET l == at[p][1]
        n == at[p][2] IN
    /\ pc[p] = "insert"
    /\ stored' = [stored EXCEPT ![4 - l] = @ \union {<<p, n>>}]
    /\ IF n = 1 THEN at' = [at EXCEPT ![p] = <<l, 2>>] /\ UNCHANGED pc
       ELSE IF l < 3 THEN at' = [at EXCEPT ![p] = <<l + 1, 1>>] /\ UNCHANGED pc
       ELSE Goto(p, "done") /\ UNCHANGED at
    /\ UNCHANGED <<reinit, clearing, disturbed>>

InsertMany(p) ==
    LET l == at[p][1]
        n == at[p][2] IN
    /\ pc[p] = "insert"
    /\ stored' = [stored EXCEPT ![l] = @ \union {<<p, n>>}]
    /\ IF n = 1 THEN at' = [at EXCEPT ![p] = <<l, 2>>] /\ UNCHANGED pc
       ELSE IF l < 3 THEN at' = [at EXCEPT ![p] = <<l + 1, 1>>] /\ UNCHANGED pc
       ELSE Goto(p, "done") /\ UNCHANGED at
    /\ UNCHANGED <<reinit, clearing, disturbed>>

(* The download or an insertion fails, which the start-up only logs.       *)
Fail(p) ==
    /\ pc[p] \in {"download", "insert"} /\ Goto(p, "done")
    /\ UNCHANGED <<reinit, stored, at, clearing, disturbed>>

(* The process dies, and deletions it was to send with it.                 *)
Die(p) ==
    /\ pc[p] # "done" /\ Goto(p, "done")
    /\ clearing' = [clearing EXCEPT ![p] = {}]
    /\ UNCHANGED <<reinit, stored, at, disturbed>>

Next == \E p \in Processes :
    \/ Start(p) \/ Download(p) \/ InsertMany(p) \/ Fail(p) \/ Die(p)
    \/ \E l \in Levels : Clear(p, l)

Spec == Init /\ [][Next]_importVars

-----------------------------------------------------------------------------
Whole(i, l) == \A n \in Parts : <<i, n>> \in stored[l]

(* A subdivision has its country and a locality its subdivision, at every  *)
(* moment and whatever failed or died: the levels of an import are there   *)
(* from the top, unless a clearing took place after it began.              *)
HierarchyIsClosed ==
    \A i \in Processes \ disturbed : \A l \in 2 .. 3 :
        (\E n \in Parts : <<i, n>> \in stored[l]) => Whole(i, l - 1)
=============================================================================
