---------------------------- MODULE DynamicQueue ----------------------------
(***************************************************************************)
(* libs/dynamic-queue: the DynamicQueue class, which runs what is pushed,  *)
(* one at a time and in order.  The file service has one for the saves of  *)
(* its last-fetch times.                                                   *)
(*                                                                         *)
(* A task is subscribed to when its turn comes and ends later, by          *)
(* completing or with an error; the end subscribes to the next one in the  *)
(* same stretch of code.  A task that ends while it is subscribed to is    *)
(* one whose end follows at once.                                          *)
(***************************************************************************)
EXTENDS Sequences, Functions

CONSTANT Tasks      \* the calls of push(), each with the task it passes

VARIABLES tasks,    \* this._tasks
          busy,     \* this._busy
          current,  \* the tasks subscribed to that have not ended
          output    \* what has come of the subject given to each caller

queueVars == <<tasks, busy, current, output>>

Ends == {"completed", "failed"}

TypeOK ==
    /\ tasks \in Seq(Tasks)
    /\ busy \in BOOLEAN
    /\ current \subseteq Tasks
    /\ output \in [Tasks -> {"unpushed", "open"} \union Ends]

Init ==
    /\ tasks = <<>> /\ busy = FALSE /\ current = {}
    /\ output = [t \in Tasks |-> "unpushed"]

-----------------------------------------------------------------------------
(* runFirst() on the queue q, of which the tasks in others still run.      *)
runFirst(q, others) ==
    IF q # <<>>
    THEN tasks' = Tail(q) /\ current' = others \union {Head(q)} /\ busy' = TRUE
    ELSE tasks' = q /\ current' = others /\ busy' = FALSE

push_AlwaysRuns(t) ==           \* bug: the queue is started though it is busy
    /\ output[t] = "unpushed"
    /\ output' = [output EXCEPT ![t] = "open"]
    /\ runFirst(Append(tasks, t), current)

push(t) ==
    /\ output[t] = "unpushed"
    /\ output' = [output EXCEPT ![t] = "open"]
    /\ IF busy THEN tasks' = Append(tasks, t) /\ UNCHANGED <<busy, current>>
       ELSE runFirst(Append(tasks, t), current)

complete(t) ==
    /\ t \in current
    /\ output' = [output EXCEPT ![t] = "completed"]
    /\ runFirst(tasks, current \ {t})

error(t) ==
    /\ t \in current
    /\ output' = [output EXCEPT ![t] = "failed"]
    /\ runFirst(tasks, current \ {t})

Next == \E t \in Tasks : push(t) \/ complete(t) \/ error(t)

Spec == Init /\ [][Next]_queueVars

(* Every task ends: the file service's do, whether the save succeeds or    *)
(* not; one that never completes holds up all those behind it.             *)
TasksEnd == WF_queueVars(\E t \in Tasks : complete(t) \/ error(t))

-----------------------------------------------------------------------------
(* The queue is a first-come first-served lock, fair if every task ends:   *)
(* the task that runs is its head, and that one leaves it however it ends, *)
(* which is what "starts in an order" and "runned when its turn" say.      *)
Running == CHOOSE t \in Tasks : t \in current

Lock == INSTANCE FifoLock WITH
            queue <- IF busy THEN <<Running>> \o tasks ELSE <<>>,
            ended <- {t \in Tasks : output[t] \in Ends}

QueueIsFifoLock == Lock!LockSpec
=============================================================================
