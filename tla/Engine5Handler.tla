--------------------------- MODULE Engine5Handler ---------------------------
(***************************************************************************)
(* Engine5ConnectionMessageHandler: what a process does with the events    *)
(* and requests that the Engine5 server sends it.  (Responses are in       *)
(* Engine5Connection.)                                                     *)
(*                                                                         *)
(* Every message starts an invocation of processIncomingData that nobody   *)
(* awaits, so invocations interleave at each callback they await.  Acks    *)
(* and answers are writes that may fail; the server, which is not in this  *)
(* repository, delivers an event again while it knows of no consumption.   *)
(***************************************************************************)
EXTENDS Naturals

CONSTANTS
    Events,       \* by MessageId; those in Legacy have none
    Legacy,
    Incoming,     \* requests of other processes, by MessageId
    Slots,        \* invocations at a time
    Idle,
    MaxListeners, \* callbacks of the subject
    TTL,          \* processedEventTtlMs, in ticks
    MaxFaults     \* callbacks of events that fail and writes that fail

ASSUME Bounds == /\ Legacy \subseteq Events /\ Idle \notin Events \union Incoming
                 /\ Events \intersect Incoming = {}
                 /\ MaxListeners \in Nat /\ TTL \in Nat /\ MaxFaults \in Nat

VARIABLES
    age,          \* of each entry of processedEventMessageIds; TTL + 1: none
    listeners,    \* the number of callbacks registered for the subject
    slot,         \* what each invocation is working on, at which callback
    acked,        \* the events the server knows to be consumed
    answers,      \* what was written in answer to each request
    fate,         \* of each request
    faults,       \* the failures so far
    ran           \* history: time since callbacks of an event last started

handlerVars == <<age, listeners, slot, acked, answers, fate, faults, ran>>

Ages == 0 .. TTL + 1
Free == [job |-> Idle, at |-> 0]

HandlerTypeOK ==
    /\ age \in [Events -> Ages] /\ ran \in [Events -> Ages]
    /\ listeners \in 0 .. MaxListeners
    /\ slot \in [Slots -> [job : Events \union Incoming, at : 1 .. MaxListeners] \union {Free}]
    /\ acked \subseteq Events
    /\ answers \in [Incoming -> SUBSET {"value", "error"}]
    /\ fate \in [Incoming -> {"unsent", "ignored", "taken", "unanswerable"}]
    /\ faults \in 0 .. MaxFaults

HandlerInit ==
    /\ age = [e \in Events |-> TTL + 1] /\ ran = [e \in Events |-> TTL + 1]
    /\ listeners = 0
    /\ slot = [h \in Slots |-> Free]
    /\ acked = {}
    /\ answers = [q \in Incoming |-> {}]
    /\ fate = [q \in Incoming |-> "unsent"]
    /\ faults = 0

Listen ==
    /\ listeners < MaxListeners
    /\ listeners' = listeners + 1
    /\ UNCHANGED <<age, slot, acked, answers, fate, faults, ran>>

Fault == faults < MaxFaults /\ faults' = faults + 1

-----------------------------------------------------------------------------
Tick ==
    /\ age' = [e \in Events |-> IF age[e] <= TTL THEN age[e] + 1 ELSE age[e]]
    /\ ran' = [e \in Events |-> IF ran[e] <= TTL THEN ran[e] + 1 ELSE ran[e]]
    /\ UNCHANGED <<listeners, slot, acked, answers, fate, faults>>

(* isDuplicateEventMessage, after its cleanup.                             *)
Duplicate(e) == e \notin Legacy /\ age[e] <= TTL

Deliver_MarkLater(h, e) ==      \* bug: not marked before its callbacks have ended
    /\ slot[h] = Free /\ ~Duplicate(e) /\ listeners > 0
    /\ slot' = [slot EXCEPT ![h] = [job |-> e, at |-> 1]]
    /\ ran' = [ran EXCEPT ![e] = 0]
    /\ UNCHANGED <<age, listeners, acked, answers, fate, faults>>

(* An event that is no duplicate is marked at once, callbacks or none.     *)
Deliver(h, e) ==
    /\ slot[h] = Free /\ ~Duplicate(e)
    /\ age' = IF e \in Legacy THEN age ELSE [age EXCEPT ![e] = 0]
    /\ IF listeners > 0
       THEN /\ slot' = [slot EXCEPT ![h] = [job |-> e, at |-> 1]]
            /\ ran' = [ran EXCEPT ![e] = 0]
       ELSE UNCHANGED <<slot, ran>>
    /\ UNCHANGED <<listeners, acked, answers, fate, faults>>

(* On to the next callback, of those registered by now.                    *)
Advance(h) ==
    slot' = [slot EXCEPT ![h] = IF @.at < listeners THEN [job |-> @.job, at |-> @.at + 1] ELSE Free]

(* A callback of processReceivedEvent ends: CONSUMING_SUCCESS is written,  *)
(* or is lost; or it has failed, and CONSUMING_ERROR is written.           *)
Consume(h) ==
    /\ slot[h].job \in Events
    /\ Advance(h)
    /\ \/ acked' = acked \union {slot[h].job} /\ UNCHANGED faults
       \/ Fault /\ UNCHANGED acked
    /\ UNCHANGED <<age, listeners, answers, fate, ran>>

-----------------------------------------------------------------------------
(* A request is for the first callback; without one it is ignored.         *)
Take(h, q) ==
    /\ slot[h] = Free /\ fate[q] = "unsent"
    /\ IF listeners > 0
       THEN /\ slot' = [slot EXCEPT ![h] = [job |-> q, at |-> 1]]
            /\ fate' = [fate EXCEPT ![q] = "taken"]
       ELSE /\ fate' = [fate EXCEPT ![q] = "ignored"]
            /\ UNCHANGED slot
    /\ UNCHANGED <<age, listeners, acked, answers, faults, ran>>

(* A CtResponse is written; with IsError when it is an error.              *)
Write(q, content) == answers' = [answers EXCEPT ![q] = @ \union {content}]

Reply_OnlyWrite(h) ==           \* bug: the callback is called outside the try
    /\ slot[h].job \in Incoming
    /\ slot' = [slot EXCEPT ![h] = Free]
    /\ \/ Write(slot[h].job, "value") /\ UNCHANGED faults
       \/ UNCHANGED <<answers, faults>>
       \/ Write(slot[h].job, "error") /\ Fault
    /\ UNCHANGED <<age, listeners, acked, fate, ran>>

(* The callback ends.  A value is written; when it has failed, or writing  *)
(* the value has, an error is; when that fails too nothing is.             *)
Reply(h) ==
    /\ slot[h].job \in Incoming
    /\ slot' = [slot EXCEPT ![h] = Free]
    /\ \/ Write(slot[h].job, "value") /\ UNCHANGED <<faults, fate>>
       \/ Write(slot[h].job, "error") /\ UNCHANGED <<faults, fate>>
       \/ Fault /\ fate' = [fate EXCEPT ![slot[h].job] = "unanswerable"] /\ UNCHANGED answers
    /\ UNCHANGED <<age, listeners, acked, ran>>

(* close() forgets the events; invocations under way go on.                *)
Forget ==
    /\ age' = [e \in Events |-> TTL + 1] /\ ran' = [e \in Events |-> TTL + 1]
    /\ UNCHANGED <<listeners, slot, acked, answers, fate, faults>>

HandlerNext ==
    \/ Listen \/ Tick \/ Forget
    \/ \E h \in Slots : \/ \E e \in Events : Deliver(h, e)
                        \/ \E q \in Incoming : Take(h, q)
                        \/ Consume(h) \/ Reply(h)

(* Time passes, callbacks end, the subject has a listener, and the server  *)
(* delivers an event again and again until it is consumed.                 *)
Redeliver(e) == e \notin acked /\ \E h \in Slots : Deliver(h, e)

HandlerFair ==
    /\ WF_handlerVars(Tick) /\ WF_handlerVars(Listen)
    /\ \A h \in Slots : WF_handlerVars(Consume(h) \/ Reply(h))
    /\ \A e \in Events : SF_handlerVars(Redeliver(e))

HandlerSpec == HandlerInit /\ [][HandlerNext]_handlerVars /\ HandlerFair

-----------------------------------------------------------------------------
(* "Duplicate event ignored": the callbacks of an event that has an id do  *)
(* not start a second time within processedEventTtlMs, however deliveries  *)
(* and callbacks interleave, unless close() has forgotten it.              *)
RunsOncePerTtl ==
    [][\A h \in Slots, e \in Events \ Legacy :
          (slot[h] = Free /\ slot'[h].job = e) => ran[e] > TTL]_handlerVars

(* An event that the server keeps delivering is consumed in the end: one   *)
(* that was dropped before a listener was there, whose callback failed or  *)
(* whose ack was lost is not taken for a duplicate for ever.               *)
EventuallyAcked == \A e \in Events : <>(e \in acked)

(* A request that a callback has taken is answered, with its value or its  *)
(* error, unless not even the error can be written: callers do not wait    *)
(* for a timeout.                                                          *)
RequestsAnswered ==
    \A q \in Incoming : fate[q] = "taken" ~> (answers[q] # {} \/ fate[q] = "unanswerable")

(* What the server sends is dealt with in the end.                         *)
EventuallySettled == EventuallyAcked /\ RequestsAnswered
=============================================================================
