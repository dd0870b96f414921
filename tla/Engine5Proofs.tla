---------------------------- MODULE Engine5Proofs ----------------------------
(***************************************************************************)
(* What holds of the connection for any number of sockets and requests,    *)
(* with TLS and without, and of the message handler for any number of      *)
(* events, requests and invocations.  Of the connection: the types, and    *)
(* three invariants that need no more than them to be inductive.           *)
(***************************************************************************)
EXTENDS Engine5Connection, Engine5Handler, TLAPS

Inv == TypeOK /\ ConnectedIsGreeted /\ NobodyWaitsInVain /\ CallbacksAreTimed

-----------------------------------------------------------------------------
(* What the parts of the actions write.                                    *)

LEMMA OpenSocketTyped ==
    ASSUME TypeOK, NEW who \in Requests \union {Nobody}, OpenSocket(who)
    PROVE  /\ status' = "CONNECTING" /\ current' \in Sockets
           /\ phase' \in [Sockets -> {"free", "connecting", "open", "ended", "destroyed"}]
           /\ opener' \in [Sockets -> Requests \union {Nobody}]
<1>1. PICK s \in Sockets : /\ phase' = [phase EXCEPT ![s] = "connecting"]
                           /\ opener' = [opener EXCEPT ![s] = who]
                           /\ current' = s
  BY DEF OpenSocket
<1> QED  BY <1>1 DEF OpenSocket, TypeOK

LEMMA DestroyCurrentTyped ==
    ASSUME TypeOK, DestroyCurrent
    PROVE  phase' \in [Sockets -> {"free", "connecting", "open", "ended", "destroyed"}]
BY DEF TypeOK, DestroyCurrent

LEMMA LiveIsSockets == Live \subseteq Sockets
BY DEF Live

(* A step that leaves the requests alone keeps what is said of them, if it *)
(* does not make the status CONNECTED.                                     *)
LEMMA RequestsAlone ==
    ASSUME NobodyWaitsInVain, CallbacksAreTimed, UNCHANGED requests,
           status' # "CONNECTED" \/ status' = status
    PROVE  NobodyWaitsInVain' /\ CallbacksAreTimed'
BY DEF NobodyWaitsInVain, CallbacksAreTimed, requests

(* A step of a request alone keeps the greeted socket.                     *)
LEMMA SocketsAlone ==
    ASSUME ConnectedIsGreeted, phase' = phase, greeted' = greeted,
           status' # "CONNECTED" \/ status' = status
    PROVE  ConnectedIsGreeted'
BY DEF ConnectedIsGreeted

(* A step that ends with another status than CONNECTED has nothing to show *)
(* for the two invariants that are about it.                               *)
LEMMA NotConnected ==
    ASSUME status' # "CONNECTED"
    PROVE  ConnectedIsGreeted' /\ NobodyWaitsInVain'
BY DEF ConnectedIsGreeted, NobodyWaitsInVain

-----------------------------------------------------------------------------
(* The steps of the sockets and of close().                                *)

LEMMA ReconnectStep == ASSUME Inv, Reconnect PROVE Inv'
<1> USE DEF Inv
<1>1. OpenSocket(Nobody) /\ UNCHANGED <<hello, greeted, clocks, requests, closing>>
  BY DEF Reconnect
<1>2. status' = "CONNECTING"
  BY <1>1, OpenSocketTyped
<1>3. TypeOK'
  BY <1>1, OpenSocketTyped DEF TypeOK, clocks, requests
<1> QED  BY <1>1, <1>2, <1>3, NotConnected, RequestsAlone

LEMMA ConnectsStep == ASSUME Inv, NEW s \in Sockets, Connects(s) PROVE Inv'
<1> USE DEF Inv
<1>1. TypeOK'
  <2>1. CASE phase' = [phase EXCEPT ![s] = "open"] /\ hello' = hello \union Live
    BY <2>1, LiveIsSockets DEF TypeOK, Connects, requests
  <2>2. CASE /\ phase' = [t \in Sockets |->
                   IF t \in Live THEN "destroyed" ELSE IF t = s THEN "open" ELSE phase[t]]
             /\ UNCHANGED hello
    BY <2>2 DEF TypeOK, Connects, requests
  <2> QED  BY <2>1, <2>2 DEF Connects
<1>2. \A t \in Sockets : phase[t] \in {"open", "destroyed"} => phase'[t] \in {"open", "destroyed"}
  BY DEF Connects, TypeOK
<1>3. ConnectedIsGreeted'
  BY <1>2 DEF Connects, ConnectedIsGreeted, TypeOK
<1> QED  BY <1>1, <1>3, RequestsAlone DEF Connects

LEMMA ConnectionTimeoutStep == ASSUME Inv, NEW s \in Sockets, ConnectionTimeout(s) PROVE Inv'
<1> USE DEF Inv
<1>1. CASE status = "CONNECTING"
  <2>1. DestroyCurrent /\ status' = "CLOSED"
    BY <1>1 DEF ConnectionTimeout
  <2>2. TypeOK'
    BY <2>1, DestroyCurrentTyped DEF ConnectionTimeout, TypeOK, requests
  <2> QED  BY <2>1, <2>2, NotConnected, RequestsAlone DEF ConnectionTimeout
<1>2. CASE status # "CONNECTING"
  <2>1. TypeOK'
    BY <1>2 DEF ConnectionTimeout, TypeOK, requests
  <2> QED  BY <1>2, <2>1, SocketsAlone, RequestsAlone DEF ConnectionTimeout
<1> QED  BY <1>1, <1>2

LEMMA clearTyped == ASSUME TypeOK, clearConnectionTimeout
                    PROVE  timers' \subseteq Sockets /\ connectionTimeout' \in Sockets \union {NoSocket}
BY DEF TypeOK, clearConnectionTimeout

(* The greeting is the only step that makes the status CONNECTED: it does  *)
(* so with a greeted socket that is open, and lets everyone go on.         *)
LEMMA GreetsStep == ASSUME Inv, NEW s \in Sockets, Greets(s) PROVE Inv'
<1> USE DEF Inv
<1>1. TypeOK'
  <2>1. /\ timers' \subseteq Sockets /\ connectionTimeout' \in Sockets \union {NoSocket}
    BY clearTyped DEF Greets
  <2>2. pc' \in [Requests -> {"unsent", "opening", "waiting", "writing", "pending", "settled"}]
    BY DEF Greets, TypeOK
  <2> QED  BY <2>1, <2>2 DEF Greets, TypeOK
<1>2. ConnectedIsGreeted'
  BY DEF Greets, ConnectedIsGreeted
<1>3. NobodyWaitsInVain'
  BY DEF Greets, NobodyWaitsInVain
<1>4. CallbacksAreTimed'
  <2>1. \A r \in Requests : pc[r] = "pending" => pc'[r] = "pending"
    BY DEF Greets
  <2> QED  BY <2>1 DEF Greets, CallbacksAreTimed, TypeOK
<1> QED  BY <1>1, <1>2, <1>3, <1>4

LEMMA RefusesStep == ASSUME Inv, NEW s \in Sockets, Refuses(s) PROVE Inv'
<1> USE DEF Inv
<1>1. timers' \subseteq Sockets /\ connectionTimeout' \in Sockets \union {NoSocket}
  BY clearTyped DEF Refuses, TypeOK, clocks
<1>2. TypeOK'
  BY <1>1, DestroyCurrentTyped DEF Refuses, TypeOK, requests
<1> QED  BY <1>2, NotConnected, RequestsAlone DEF Refuses

LEMMA EndsStep == ASSUME Inv, NEW s \in Sockets, Ends(s) PROVE Inv'
<1> USE DEF Inv
<1>1. TypeOK'
  BY DEF Ends, TypeOK, clocks, requests
<1> QED  BY <1>1, NotConnected, RequestsAlone DEF Ends

LEMMA ClosesStep == ASSUME Inv, NEW s \in Sockets, Closes(s) PROVE Inv'
<1> USE DEF Inv
<1>1. TypeOK'
  BY DEF Closes, TypeOK, clocks, requests
<1> QED  BY <1>1, NotConnected, RequestsAlone DEF Closes

LEMMA FinishCloseStep ==
    ASSUME Inv, FinishClose, timers' \subseteq Sockets,
           connectionTimeout' \in Sockets \union {NoSocket}
    PROVE  Inv'
<1> USE DEF Inv
<1>1. TypeOK'
  BY DestroyCurrentTyped DEF FinishClose, TypeOK
<1>2. CallbacksAreTimed'
  BY DEF FinishClose, CallbacksAreTimed
<1> QED  BY <1>1, <1>2, NotConnected DEF FinishClose

LEMMA CloseStep == ASSUME Inv, Close PROVE Inv'
<1> USE DEF Inv
<1>0. timers' \subseteq Sockets /\ connectionTimeout' \in Sockets \union {NoSocket}
  BY clearTyped DEF Close
<1>1. CASE status = "CONNECTED"
  <2>1. TypeOK'
    BY <1>0, <1>1 DEF Close, TypeOK, sockets, requests
  <2> QED  BY <1>1, <2>1, SocketsAlone, RequestsAlone DEF Close, sockets
<1>2. CASE status # "CONNECTED"
  BY <1>0, <1>2, FinishCloseStep DEF Close
<1> QED  BY <1>1, <1>2

LEMMA CloseWrittenStep == ASSUME Inv, CloseWritten PROVE Inv'
BY FinishCloseStep DEF CloseWritten, clocks, Inv, TypeOK

-----------------------------------------------------------------------------
(* The steps of a request.                                                 *)

LEMMA SendStep == ASSUME Inv, NEW r \in Requests, Send(r) PROVE Inv'
<1> USE DEF Inv
<1>1. \E step \in {"writing", "waiting", "opening"} :
          Goto(r, step) /\ (step = "waiting" => status # "CONNECTED" /\ status' = status)
  BY DEF Send, TypeOK
<1>2. PICK step \in {"writing", "waiting", "opening"} :
          Goto(r, step) /\ (step = "waiting" => status # "CONNECTED" /\ status' = status)
  BY <1>1
<1>3. CASE status = "CLOSED"
  <2>1. OpenSocket(r)
    BY <1>3 DEF Send
  <2>2. TypeOK'
    BY <1>2, <2>1, OpenSocketTyped DEF Send, TypeOK, Goto, clocks
  <2>3. status' # "CONNECTED"
    BY <2>1, OpenSocketTyped
  <2>4. CallbacksAreTimed'
    BY <1>2 DEF Send, Goto, CallbacksAreTimed, TypeOK
  <2> QED  BY <2>2, <2>3, <2>4, NotConnected
<1>4. CASE status # "CLOSED"
  <2>1. UNCHANGED <<status, current, phase, opener>>
    BY <1>4 DEF Send, TypeOK
  <2>2. TypeOK'
    BY <1>2, <2>1 DEF Send, TypeOK, Goto, clocks
  <2>3. NobodyWaitsInVain'
    BY <1>2, <2>1 DEF NobodyWaitsInVain, Goto, TypeOK
  <2>4. CallbacksAreTimed'
    BY <1>2 DEF Send, Goto, CallbacksAreTimed, TypeOK
  <2> QED  BY <2>1, <2>2, <2>3, <2>4, SocketsAlone DEF Send
<1> QED  BY <1>3, <1>4

(* A request that is written, answered or timed out does not wait; it has  *)
(* a callback after the step only if it had one or was just given it.      *)
LEMMA RequestStep ==
    ASSUME Inv, NEW r \in Requests, NEW step \in {"pending", "settled"},
           Goto(r, step), UNCHANGED <<status, sockets, clocks, closing>>,
           step = "pending" => callbacks' = callbacks \union {r} /\ reqTimers' = reqTimers \union {r},
           step = "settled" => callbacks' = callbacks \ {r} /\ reqTimers' = reqTimers \ {r}
    PROVE  Inv'
<1> USE DEF Inv
<1>1. TypeOK'
  BY DEF TypeOK, Goto, sockets, clocks
<1>2. NobodyWaitsInVain'
  BY DEF NobodyWaitsInVain, Goto, TypeOK
<1>3. CallbacksAreTimed'
  BY DEF CallbacksAreTimed, Goto, TypeOK
<1> QED  BY <1>1, <1>2, <1>3, SocketsAlone DEF sockets

LEMMA WrittenStep == ASSUME Inv, NEW r \in Requests, Written(r) PROVE Inv'
<1>1. CASE Goto(r, "pending") /\ callbacks' = callbacks \union {r} /\ reqTimers' = reqTimers \union {r}
  BY <1>1, RequestStep DEF Written
<1>2. CASE Goto(r, "settled") /\ UNCHANGED <<callbacks, reqTimers>>
  <2>1. r \notin reqTimers /\ r \notin callbacks
    BY DEF Written, Inv, CallbacksAreTimed
  <2> QED  BY <1>2, <2>1, RequestStep DEF Written
<1> QED  BY <1>1, <1>2 DEF Written

LEMMA RespondStep == ASSUME Inv, NEW r \in Requests, Respond(r) PROVE Inv'
BY RequestStep DEF Respond

LEMMA TimeOutStep == ASSUME Inv, NEW r \in Requests, TimeOut(r) PROVE Inv'
BY RequestStep DEF TimeOut

-----------------------------------------------------------------------------
LEMMA Initially == Init => Inv
BY DEF Init, Inv, TypeOK, ConnectedIsGreeted, NobodyWaitsInVain, CallbacksAreTimed

LEMMA Preserved == Inv /\ [Next]_vars => Inv'
<1> SUFFICES ASSUME Inv, [Next]_vars PROVE Inv'
  OBVIOUS
<1>1. ASSUME NEW s \in Sockets,
             \/ Connects(s) \/ ConnectionTimeout(s) \/ Greets(s) \/ Refuses(s) \/ Ends(s) \/ Closes(s)
      PROVE  Inv'
  BY <1>1, ConnectsStep, ConnectionTimeoutStep, GreetsStep, RefusesStep, EndsStep, ClosesStep
<1>2. ASSUME NEW r \in Requests, Send(r) \/ Written(r) \/ Respond(r) \/ TimeOut(r)
      PROVE  Inv'
  BY <1>2, SendStep, WrittenStep, RespondStep, TimeOutStep
<1>3. CASE UNCHANGED vars
  BY <1>3 DEF vars, Inv, TypeOK, ConnectedIsGreeted, NobodyWaitsInVain, CallbacksAreTimed
<1> QED  BY <1>1, <1>2, <1>3, ReconnectStep, CloseStep, CloseWrittenStep DEF Next

LEMMA Inductive == Spec => []Inv
BY Initially, Preserved, PTL DEF Spec

(* The variables have their types in every reachable state: in particular  *)
(* connectionStatus is one of the three values of ConnectionStatus.        *)
THEOREM TypeCorrect == Spec => []TypeOK
BY Inductive, PTL DEF Inv

(* The status never outlives the greeted sockets, however events of old     *)
(* and new sockets mix: CONNECTED means that one of them is open or about   *)
(* to report its 'close'.  And runAtWhenConnected misses no greeting:       *)
(* nobody waits for the status CONNECTED while it is CONNECTED.             *)
THEOREM GreetingsAreHeard == Spec => []GreetingsHold
BY Inductive, PTL DEF Inv, GreetingsHold

(* No entry of ongoingRequestsToComplete outlives its request: behind each *)
(* a timer runs, and the request is not settled.                           *)
THEOREM CallbacksTimed == Spec => []CallbacksAreTimed
BY Inductive, PTL DEF Inv

-----------------------------------------------------------------------------
(* The handler: an event with an id is marked before its callbacks start,  *)
(* so its mark is never older than their start.                            *)
MarkedFirst == \A e \in Events \ Legacy : age[e] <= ran[e]
HandlerInv == HandlerTypeOK /\ MarkedFirst

LEMMA HandlerStarts == HandlerInit => HandlerInv
BY Bounds DEF HandlerInit, HandlerInv, HandlerTypeOK, MarkedFirst, Ages, Free

(* Time leaves the ages in their range and their order.                    *)
LEMMA TickKeeps == HandlerInv /\ Tick => HandlerInv'
<1> SUFFICES ASSUME HandlerInv, Tick PROVE HandlerInv'
  OBVIOUS
<1>1. \A e \in Events : age[e] \in 0 .. TTL + 1 /\ ran[e] \in 0 .. TTL + 1 /\ TTL \in Nat
  BY Bounds DEF HandlerInv, HandlerTypeOK, Ages
<1>2. age' \in [Events -> Ages] /\ ran' \in [Events -> Ages]
  BY <1>1 DEF Tick, Ages
<1>3. \A e \in Events : /\ age'[e] = IF age[e] <= TTL THEN age[e] + 1 ELSE age[e]
                       /\ ran'[e] = IF ran[e] <= TTL THEN ran[e] + 1 ELSE ran[e]
  BY DEF Tick
<1>4. MarkedFirst'
  BY <1>1, <1>3 DEF HandlerInv, MarkedFirst
<1> QED BY <1>2, <1>4 DEF HandlerInv, HandlerTypeOK, Tick

(* What an invocation works on next is a job or nothing.                   *)
LEMMA AdvanceTyped ==
  ASSUME HandlerTypeOK, NEW h \in Slots, slot[h].job \in Events, Advance(h)
  PROVE  slot' \in [Slots -> [job : Events \union Incoming, at : 1 .. MaxListeners] \union {Free}]
<1>1. slot[h] \in [job : Events \union Incoming, at : 1 .. MaxListeners]
  BY Bounds DEF HandlerTypeOK, Free
<1>2. CASE slot[h].at < listeners
  <2>1. slot[h].at + 1 \in 1 .. MaxListeners
    BY <1>1, <1>2, Bounds DEF HandlerTypeOK
  <2>2. slot' = [slot EXCEPT ![h] = [job |-> slot[h].job, at |-> slot[h].at + 1]]
    BY <1>2 DEF Advance
  <2> QED BY <1>1, <2>1, <2>2 DEF HandlerTypeOK
<1>3. CASE ~(slot[h].at < listeners)
  BY <1>3 DEF Advance, HandlerTypeOK
<1> QED BY <1>2, <1>3

LEMMA HandlerInductive == HandlerInv /\ [HandlerNext]_handlerVars => HandlerInv'
<1> SUFFICES ASSUME HandlerInv, [HandlerNext]_handlerVars PROVE HandlerInv'
  OBVIOUS
<1>1. TTL \in Nat /\ MaxListeners \in Nat /\ MaxFaults \in Nat
  BY Bounds
<1>2. ASSUME Listen PROVE HandlerInv'
  BY <1>1, <1>2 DEF Listen, HandlerInv, HandlerTypeOK, MarkedFirst
<1>3. ASSUME Forget PROVE HandlerInv'
  BY <1>1, <1>3 DEF Forget, HandlerInv, HandlerTypeOK, MarkedFirst, Ages
<1>4. ASSUME NEW h \in Slots, NEW e \in Events, Deliver(h, e) PROVE HandlerInv'
  <2>1. age' \in [Events -> Ages] /\ ran' \in [Events -> Ages]
    BY <1>1, <1>4 DEF Deliver, HandlerInv, HandlerTypeOK, Ages
  <2>2. slot' \in [Slots -> [job : Events \union Incoming, at : 1 .. MaxListeners] \union {Free}]
    <3>1. listeners > 0 => [job |-> e, at |-> 1] \in [job : Events \union Incoming, at : 1 .. MaxListeners]
      BY <1>1 DEF HandlerInv, HandlerTypeOK
    <3> QED BY <1>4, <3>1 DEF Deliver, HandlerInv, HandlerTypeOK
  <2>3. \A f \in Events \ Legacy : age'[f] <= ran'[f]
    <3>1. \A f \in Events \ Legacy : /\ age[f] \in Nat /\ ran[f] \in Nat /\ age[f] <= ran[f]
                                     /\ age'[f] = IF f = e THEN 0 ELSE age[f]
                                     /\ ran'[f] = ran[f] \/ (f = e /\ ran'[f] = 0)
      BY <1>1, <1>4 DEF Deliver, HandlerInv, HandlerTypeOK, MarkedFirst, Ages
    <3> QED BY <3>1
  <2> QED BY <1>4, <2>1, <2>2, <2>3 DEF Deliver, HandlerInv, HandlerTypeOK, MarkedFirst
<1>5. ASSUME NEW h \in Slots, NEW q \in Incoming, Take(h, q) PROVE HandlerInv'
  <2>1. listeners > 0 => [job |-> q, at |-> 1] \in [job : Events \union Incoming, at : 1 .. MaxListeners]
    BY <1>1 DEF HandlerInv, HandlerTypeOK
  <2>2. slot' \in [Slots -> [job : Events \union Incoming, at : 1 .. MaxListeners] \union {Free}]
    BY <1>5, <2>1 DEF Take, HandlerInv, HandlerTypeOK
  <2>3. fate' \in [Incoming -> {"unsent", "ignored", "taken", "unanswerable"}]
    BY <1>5 DEF Take, HandlerInv, HandlerTypeOK
  <2> QED BY <1>5, <2>2, <2>3 DEF Take, HandlerInv, HandlerTypeOK, MarkedFirst
<1>6. ASSUME NEW h \in Slots, Consume(h) PROVE HandlerInv'
  <2>1. slot' \in [Slots -> [job : Events \union Incoming, at : 1 .. MaxListeners] \union {Free}]
    BY <1>6, AdvanceTyped DEF Consume, HandlerInv
  <2>2. acked' \subseteq Events /\ faults' \in 0 .. MaxFaults
    BY <1>1, <1>6 DEF Consume, Fault, HandlerInv, HandlerTypeOK
  <2> QED BY <1>6, <2>1, <2>2 DEF Consume, HandlerInv, HandlerTypeOK, MarkedFirst
<1>7. ASSUME NEW h \in Slots, Reply(h) PROVE HandlerInv'
  <2>1. slot' \in [Slots -> [job : Events \union Incoming, at : 1 .. MaxListeners] \union {Free}]
    BY <1>7 DEF Reply, HandlerInv, HandlerTypeOK
  <2>2. answers' \in [Incoming -> SUBSET {"value", "error"}]
    BY <1>7 DEF Reply, Write, HandlerInv, HandlerTypeOK
  <2>3. fate' \in [Incoming -> {"unsent", "ignored", "taken", "unanswerable"}] /\ faults' \in 0 .. MaxFaults
    BY <1>1, <1>7 DEF Reply, Fault, HandlerInv, HandlerTypeOK
  <2> QED BY <1>7, <2>1, <2>2, <2>3 DEF Reply, HandlerInv, HandlerTypeOK, MarkedFirst
<1>8. ASSUME UNCHANGED handlerVars PROVE HandlerInv'
  BY <1>8 DEF handlerVars, HandlerInv, HandlerTypeOK, MarkedFirst
<1> QED BY <1>2, <1>3, <1>4, <1>5, <1>6, <1>7, <1>8, TickKeeps DEF HandlerNext

(* The variables of the handler have their types.                          *)
THEOREM HandlerTypeCorrect == HandlerSpec => []HandlerTypeOK
<1>1. HandlerInv => HandlerTypeOK
  BY DEF HandlerInv
<1> QED BY <1>1, HandlerStarts, HandlerInductive, PTL DEF HandlerSpec

(* A free invocation takes up an event with an id only by its delivery,    *)
(* which is refused while the event is marked; and the mark is as young as *)
(* the last start of its callbacks.                                        *)
THEOREM DuplicatesAreIgnored == HandlerSpec => RunsOncePerTtl
<1> DEFINE Once == \A h \in Slots, e \in Events \ Legacy : (slot[h] = Free /\ slot'[h].job = e) => ran[e] > TTL
<1>1. HandlerInv /\ [HandlerNext]_handlerVars => [Once]_handlerVars
  <2> SUFFICES ASSUME HandlerInv, HandlerNext,
                      NEW h \in Slots, NEW e \in Events \ Legacy, slot[h] = Free, slot'[h].job = e
               PROVE  ran[e] > TTL
    OBVIOUS
  <2>1. slot[h].job \notin Events \union Incoming /\ slot'[h] # slot[h]
    BY Bounds DEF Free
  <2>2. PICK g \in Slots :
           \/ \E f \in Events : Deliver(g, f)
           \/ \E q \in Incoming : Take(g, q)
           \/ Consume(g) \/ Reply(g)
    BY <2>1 DEF HandlerNext, Listen, Tick, Forget
  <2>3. g = h
    BY <2>1, <2>2 DEF Deliver, Take, Consume, Advance, Reply, HandlerInv, HandlerTypeOK
  <2>4. ~Consume(h) /\ ~Reply(h)
    BY <2>1 DEF Consume, Reply
  <2>5. \A q \in Incoming : ~Take(h, q)
    <3> SUFFICES ASSUME NEW q \in Incoming, Take(h, q) PROVE FALSE
      OBVIOUS
    <3>1. slot'[h].job = q
      BY <2>1 DEF Take, HandlerInv, HandlerTypeOK
    <3> QED BY <3>1, Bounds
  <2>6. PICK f \in Events : Deliver(h, f)
    BY <2>2, <2>3, <2>4, <2>5
  <2>7. f = e
    BY <2>1, <2>6 DEF Deliver, HandlerInv, HandlerTypeOK
  <2> QED BY <2>6, <2>7, Bounds DEF Deliver, Duplicate, HandlerInv, HandlerTypeOK, MarkedFirst, Ages
<1> QED BY <1>1, HandlerStarts, HandlerInductive, PTL DEF HandlerSpec, RunsOncePerTtl
=============================================================================
