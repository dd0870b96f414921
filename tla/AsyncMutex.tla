----------------------------- MODULE AsyncMutex -----------------------------
(***************************************************************************)
(* libs/async-mutex: the AsyncMutex class, on which the Engine5 connection *)
(* serialises its socket writes, its socket reads and its control          *)
(* operations.                                                             *)
(*                                                                         *)
(* JavaScript runs each synchronous stretch of code to completion, so an   *)
(* action is one stretch: a call of run(), which starts the task at once   *)
(* when the mutex is free, or the `finally` block of execute(), which      *)
(* starts the next waiter in the same stretch.  A task is any code: it     *)
(* ends when it wants to, with a value or with an exception.               *)
(***************************************************************************)
EXTENDS Sequences, Functions

CONSTANT Tasks      \* the calls of run(), each with the task it passes

VARIABLES busy,     \* this.busy
          waiters,  \* this.waiters, the tasks of the queued closures
          phase     \* what has become of each call of run()

mutexVars == <<busy, waiters, phase>>

Settled == {"resolved", "rejected"}     \* the promise run() returned
Phases  == {"uncalled", "waiting", "running"} \union Settled

TypeOK ==
    /\ busy \in BOOLEAN
    /\ waiters \in Seq(Tasks)
    /\ phase \in [Tasks -> Phases]

Init ==
    /\ busy = FALSE
    /\ waiters = <<>>
    /\ phase = [t \in Tasks |-> "uncalled"]

-----------------------------------------------------------------------------
(* run(task): start the task, or queue the closure that will start it.     *)

RunNow(t) ==
    /\ ~busy
    /\ busy' = TRUE
    /\ phase' = [phase EXCEPT ![t] = "running"]
    /\ UNCHANGED waiters

RunLater_Stack(t) ==            \* bug: unshift instead of push
    /\ busy
    /\ waiters' = <<t>> \o waiters
    /\ phase' = [phase EXCEPT ![t] = "waiting"]
    /\ UNCHANGED busy

RunLater(t) ==
    /\ busy
    /\ waiters' = Append(waiters, t)
    /\ phase' = [phase EXCEPT ![t] = "waiting"]
    /\ UNCHANGED busy

Run(t) ==
    /\ phase[t] = "uncalled"
    /\ RunNow(t) \/ RunLater(t)

(* Hand the mutex to the next waiter, or free it.                          *)
HandOver(t, outcome) ==
    IF waiters # <<>>
    THEN /\ waiters' = Tail(waiters)
         /\ phase' = [phase EXCEPT ![t] = outcome, ![Head(waiters)] = "running"]
         /\ UNCHANGED busy
    ELSE /\ busy' = FALSE
         /\ phase' = [phase EXCEPT ![t] = outcome]
         /\ UNCHANGED waiters

(* The end of execute(task): its finally block runs on a value and on an   *)
(* exception alike.                                                        *)
Finish(t) ==
    /\ phase[t] = "running"
    /\ \E outcome \in Settled : HandOver(t, outcome)

Next == \E t \in Tasks : Run(t) \/ Finish(t)

Spec == Init /\ [][Next]_mutexVars

(* Every task ends: the condition under which the mutex owes progress.     *)
TasksEnd == \A t \in Tasks : WF_mutexVars(Finish(t))

FairSpec == Spec /\ TasksEnd

-----------------------------------------------------------------------------
(* The tasks whose body is executing.                                      *)
Running == {t \in Tasks : phase[t] = "running"}

(* "Tasks are executed one at a time": no two bodies overlap, whatever     *)
(* mixture of direct starts and hand-overs started them.                   *)
OneAtATime == \A s, t \in Running : s = t

(* The closures in `waiters` are exactly the calls that still wait, each   *)
(* once, and somebody is running who will wake them: run() and the finally *)
(* block of execute() never lose a waiter nor leave the mutex busy for     *)
(* nobody.                                                                 *)
NoLostWaiter ==
    /\ IsInjective(waiters)
    /\ Range(waiters) = {t \in Tasks : phase[t] = "waiting"}
    /\ busy <=> Running # {}
    /\ waiters # <<>> => busy

(* If every task ends, every call of run() settles: a task that throws     *)
(* does not keep the mutex from those behind it.                           *)
EveryCallSettles ==
    \A t \in Tasks : phase[t] # "uncalled" ~> phase[t] \in Settled

(* The tasks execute "in FIFO order", as the class comment has it: the     *)
(* mutex implements a first-come first-served lock whose queue is the      *)
(* running task followed by the waiters.                                   *)
Holder == CHOOSE t \in Tasks : phase[t] = "running"

Lock == INSTANCE FifoLock WITH
            queue <- IF busy THEN <<Holder>> \o waiters ELSE <<>>,
            ended <- {t \in Tasks : phase[t] \in Settled}

ImplementsFifoLock == Lock!LockSafety
=============================================================================
