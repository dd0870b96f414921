------------------------------ MODULE FifoLock ------------------------------
(***************************************************************************)
(* What a lock with a first-come first-served queue promises, with no      *)
(* mechanism: the requests that have not been served are a sequence, the   *)
(* head of the sequence is the only holder, and the holder leaves the      *)
(* sequence when its critical section ends, however it ends.               *)
(***************************************************************************)
EXTENDS Sequences, Functions

CONSTANT Tasks      \* the critical sections ever submitted

VARIABLES queue,    \* submitted and not ended, oldest first
          ended     \* the tasks whose critical section has ended

lockVars == <<queue, ended>>

LockInit == queue = <<>> /\ ended = {}

Submit(t) ==
    /\ t \notin ended \union Range(queue)
    /\ queue' = Append(queue, t)
    /\ UNCHANGED ended

Leave ==
    /\ queue # <<>>
    /\ ended' = ended \union {Head(queue)}
    /\ queue' = Tail(queue)

LockNext == Leave \/ \E t \in Tasks : Submit(t)

LockSafety == LockInit /\ [][LockNext]_lockVars

LockSpec == LockSafety /\ WF_lockVars(Leave)
=============================================================================
