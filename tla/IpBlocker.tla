------------------------------ MODULE IpBlocker ------------------------------
(***************************************************************************)
(* libs/ip-blocker-webservice: one IP address, its record in the           *)
(* collection of bans, and the DROP rules for it in the firewall.          *)
(*                                                                         *)
(* Lines of the access log and administrators ban and release it, several  *)
(* at a time: each call reads the record, writes it and then runs          *)
(* iptables, and other calls come in between.  The process dies at any     *)
(* moment; when it starts it brings the firewall in line with the record,  *)
(* while the log is being watched already.  Addresses share nothing, and   *)
(* of a time of release only matters whether it has passed.                *)
(***************************************************************************)
EXTENDS Integers, FiniteSets

CONSTANTS
    Calls,        \* reviews of log lines and requests of administrators
    Startup,      \* syncStartupState
    MaxRestarts   \* bounds the restarts

ASSUME Bounds == Startup \notin Calls /\ IsFiniteSet(Calls) /\ MaxRestarts \in Nat

VARIABLES
    doc,          \* the record of the address
    rules,        \* the number of DROP rules for it
    kind,         \* what each call is for
    pc,           \* its next command
    seen,         \* the record as it has read it
    restarts,
    banned,       \* history: the calls whose ban was saved
    overlapped,   \* history: calls have overlapped since the last start ...
    failed        \* ... and an iptables command has failed

vars == <<doc, rules, kind, pc, seen, restarts, banned, overlapped, failed>>

Workers == Calls \union {Startup}

(* releaseAt is in the future, in the past, or in the past already when    *)
(* the process started.                                                    *)
Releases == {"ahead", "past", "past at start"}

Doc == [exists : BOOLEAN, point : Nat, active : BOOLEAN, release : Releases]
NoDoc == [exists |-> FALSE, point |-> 0, active |-> FALSE, release |-> "past"]

Steps == {"uncalled", "list", "find", "upsert", "save", "iptables -I", "iptables -D", "done"}
InFlight == Steps \ {"uncalled", "done"}

TypeOK ==
    /\ doc \in Doc
    /\ rules \in Nat
    /\ kind \in [Workers -> {"none", "offence", "innocence", "ban", "unban", "sync"}]
    /\ pc \in [Workers -> Steps]
    /\ seen \in [Workers -> Doc]
    /\ restarts \in 0 .. MaxRestarts
    /\ banned \subseteq Calls
    /\ overlapped \in BOOLEAN /\ failed \in BOOLEAN

Init ==
    /\ doc = NoDoc /\ rules = 0
    /\ kind = [w \in Workers |-> IF w = Startup THEN "sync" ELSE "none"]
    /\ pc = [w \in Workers |-> IF w = Startup THEN "list" ELSE "uncalled"]
    /\ seen = [w \in Workers |-> NoDoc]
    /\ restarts = 0 /\ banned = {} /\ overlapped = FALSE /\ failed = FALSE

Goto(w, step) == pc' = [pc EXCEPT ![w] = step]

Working == {w \in Workers : pc[w] \in InFlight}

-----------------------------------------------------------------------------
(* A line of the log, suspicious or not, or a request of an administrator, *)
(* which is only served when the start-up is over.                         *)
Arrive(c) ==
    /\ pc[c] = "uncalled"
    /\ \E k \in {"offence", "innocence", "ban", "unban"} :
          /\ k \in {"ban", "unban"} => pc[Startup] = "done"
          /\ kind' = [kind EXCEPT ![c] = k]
    /\ Goto(c, "find")
    /\ overlapped' = (overlapped \/ Working # {})
    /\ UNCHANGED <<doc, rules, seen, restarts, banned, failed>>

(* heaven() reads the record; forced or not, there may be nothing to do.   *)
Releasable(w, d) ==
    d.exists /\ (d.point > 0 \/ kind[w] \in {"unban", "sync"})

(* The findOne of penalize() and of heaven().  The start-up runs iptables  *)
(* also when heaven() finds nothing to do.                                 *)
Find(w) ==
    /\ pc[w] = "find"
    /\ seen' = [seen EXCEPT ![w] = doc]
    /\ Goto(w, IF kind[w] \in {"offence", "ban"} THEN "upsert"
               ELSE IF Releasable(w, doc) THEN "save"
               ELSE IF w = Startup THEN "iptables -D"
               ELSE "done")
    /\ UNCHANGED <<doc, rules, kind, restarts, banned, overlapped, failed>>

(* findOneAndUpdate of penalize().                                         *)
Upsert_Both(w) ==               \* bug: also counts the offence in the database
    /\ pc[w] = "upsert"
    /\ doc' = [exists |-> TRUE, point |-> seen[w].point + doc.point + 1, active |-> TRUE,
               release |-> "ahead"]
    /\ banned' = banned \union {w}
    /\ Goto(w, "iptables -I")
    /\ UNCHANGED <<rules, kind, seen, restarts, overlapped, failed>>

Upsert(w) ==
    /\ pc[w] = "upsert"
    /\ doc' = [exists |-> TRUE, point |-> seen[w].point + 1, active |-> TRUE, release |-> "ahead"]
    /\ banned' = banned \union {w}
    /\ Goto(w, "iptables -I")
    /\ UNCHANGED <<rules, kind, seen, restarts, overlapped, failed>>

(* save() of heaven() writes the fields whose value it has changed.        *)
Save(w) ==
    /\ pc[w] = "save"
    /\ doc' = [doc EXCEPT !.point = IF kind[w] = "innocence" THEN seen[w].point - 1 ELSE @,
                          !.active = @ /\ ~seen[w].active,
                          !.release = "past"]
    /\ Goto(w, "iptables -D")
    /\ UNCHANGED <<rules, kind, seen, restarts, banned, overlapped, failed>>

-----------------------------------------------------------------------------
(* -I inserts one more rule, -D deletes one and fails if there is none.    *)
(* A command that fails is only logged.                                    *)
Iptables(w) ==
    /\ pc[w] \in {"iptables -I", "iptables -D"}
    /\ \/ /\ rules' = IF pc[w] = "iptables -I" THEN rules + 1
                       ELSE IF rules > 0 THEN rules - 1 ELSE 0
          /\ UNCHANGED failed
       \/ UNCHANGED rules /\ failed' = TRUE
    /\ Goto(w, "done")
    /\ UNCHANGED <<doc, kind, seen, restarts, banned, overlapped>>

(* find of syncStartupState: an active ban is released if its time had     *)
(* passed when the process started, and put back otherwise.                *)
List_OnlyExpired ==             \* bug: does not put bans back
    /\ pc[Startup] = "list"
    /\ Goto(Startup, IF doc.active /\ doc.release = "past at start" THEN "find" ELSE "done")
    /\ UNCHANGED <<doc, rules, kind, seen, restarts, banned, overlapped, failed>>

List_NoExpiry ==                \* bug: puts all of them back
    /\ pc[Startup] = "list"
    /\ Goto(Startup, IF doc.active THEN "iptables -I" ELSE "done")
    /\ UNCHANGED <<doc, rules, kind, seen, restarts, banned, overlapped, failed>>

List ==
    /\ pc[Startup] = "list"
    /\ Goto(Startup, IF ~doc.active THEN "done"
                     ELSE IF doc.release = "past at start" THEN "find"
                     ELSE "iptables -I")
    /\ UNCHANGED <<doc, rules, kind, seen, restarts, banned, overlapped, failed>>

(* The process dies with all calls, or the host with the rules; it starts. *)
Restart ==
    /\ restarts < MaxRestarts
    /\ restarts' = restarts + 1
    /\ rules' \in {rules, 0}
    /\ doc' = [doc EXCEPT !.release = IF @ = "ahead" THEN @ ELSE "past at start"]
    /\ pc' = [w \in Workers |-> IF w = Startup THEN "list"
                                ELSE IF pc[w] = "uncalled" THEN "uncalled" ELSE "done"]
    /\ overlapped' = FALSE /\ failed' = FALSE
    /\ UNCHANGED <<kind, seen, banned>>

(* releaseAt passes; nothing in the process waits for it.                  *)
Expire ==
    /\ doc.release = "ahead"
    /\ doc' = [doc EXCEPT !.release = "past"]
    /\ UNCHANGED <<rules, kind, pc, seen, restarts, banned, overlapped, failed>>

Next ==
    \/ \E c \in Calls : Arrive(c) \/ Upsert(c)
    \/ \E w \in Workers : Find(w) \/ Save(w) \/ Iptables(w)
    \/ List \/ Restart \/ Expire

(* Commands end, in one way or the other.                                  *)
Fairness ==
    /\ WF_vars(List)
    /\ \A w \in Workers : WF_vars(Find(w)) /\ WF_vars(Save(w)) /\ WF_vars(Iptables(w))
    /\ \A c \in Calls : WF_vars(Upsert(c))

Spec == Init /\ [][Next]_vars /\ Fairness

-----------------------------------------------------------------------------
(* However calls overlap and whatever was lost with a process, an address  *)
(* has no more points than bans were saved for it: a longer penalty is     *)
(* always earned.                                                          *)
PointsAreEarned == doc.point <= Cardinality(banned)

(* At rest, when no calls have overlapped and no command has failed since  *)
(* the last start, an active ban is in force: whatever happened before,    *)
(* and wherever the process died, the start-up has put it back.            *)
StartupRestores ==
    (Working = {} /\ ~overlapped /\ ~failed /\ doc.active) => rules > 0

(* A ban whose time has passed is released by a restart.                   *)
RestartReleases ==
    (doc.active /\ doc.release = "past at start") ~> ~(doc.active /\ doc.release = "past at start")
=============================================================================
