-------------------------- MODULE Engine5Connection --------------------------
(***************************************************************************)
(* Engine5Connection: the one connection of a process to the Engine5       *)
(* server, its reconnection, its closing, and the requests sent over it.   *)
(*                                                                         *)
(* Each attempt makes a new socket and leaves the listeners of the old one *)
(* in place: 'error', 'end', 'close' and data of any socket act on the     *)
(* state shared by all.  A socket is known here by a slot, which is used   *)
(* again when the socket has reported 'close' and its timer has run out.   *)
(* The network and the server do what they like, and so do callers.        *)
(***************************************************************************)
CONSTANTS
    Sockets,      \* slots: bounds the sockets that exist at a time
    NoSocket,     \* the unconnected socket of the constructor
    Requests,     \* calls of sendRequest
    Nobody,       \* the reconnect timer, as one who calls init()
    Tls,          \* tlsEnabled
    HandshakesEnd \* with TLS, no server leaves a handshake unanswered for ever

ASSUME Distinct == NoSocket \notin Sockets /\ Nobody \notin Requests
ASSUME Options == Tls \in BOOLEAN /\ HandshakesEnd \in BOOLEAN

VARIABLES
    status,       \* connectionStatus
    current,      \* tcpClient
    phase,        \* of each socket
    opener,       \* whose init() is resolved by the greeting on this socket
    hello,        \* sockets on which a CONNECT was written that awaits its answer
    greeted,      \* sockets on which CONNECT_SUCCESS has arrived
    timers,       \* sockets whose 10 s timer is running
    connectionTimeout,    \* the latest of these timers, if not cleared
    pc,           \* of each request
    callbacks,    \* ongoingRequestsToComplete
    reqTimers,    \* requests whose 30 s timer is running
    closing       \* of close()

vars == <<status, current, phase, opener, hello, greeted, timers, connectionTimeout, pc,
          callbacks, reqTimers, closing>>
sockets == <<current, phase, opener, hello, greeted>>
clocks == <<timers, connectionTimeout>>
requests == <<pc, callbacks, reqTimers>>

TypeOK ==
    /\ status \in {"CLOSED", "CONNECTING", "CONNECTED"}
    /\ current \in Sockets \union {NoSocket}
    /\ phase \in [Sockets -> {"free", "connecting", "open", "ended", "destroyed"}]
    /\ opener \in [Sockets -> Requests \union {Nobody}]
    /\ hello \subseteq Sockets /\ greeted \subseteq Sockets /\ timers \subseteq Sockets
    /\ connectionTimeout \in Sockets \union {NoSocket}
    /\ pc \in [Requests -> {"unsent", "opening", "waiting", "writing", "pending", "settled"}]
    /\ callbacks \subseteq Requests /\ reqTimers \subseteq Requests
    /\ closing \in {"no", "writing", "done"}

Init ==
    /\ status = "CLOSED"
    /\ current = NoSocket
    /\ phase = [s \in Sockets |-> "free"]
    /\ opener = [s \in Sockets |-> Nobody]
    /\ hello = {} /\ greeted = {} /\ timers = {}
    /\ connectionTimeout = NoSocket
    /\ pc = [r \in Requests |-> "unsent"]
    /\ callbacks = {} /\ reqTimers = {}
    /\ closing = "no"

Goto(r, step) == pc' = [pc EXCEPT ![r] = step]

-----------------------------------------------------------------------------
(* _init, called when the status is CLOSED.                                *)
OpenSocket(who) ==
    /\ status = "CLOSED" /\ status' = "CONNECTING"
    /\ \E s \in Sockets :
          /\ phase[s] = "free" /\ s \notin timers
          /\ phase' = [phase EXCEPT ![s] = "connecting"]
          /\ opener' = [opener EXCEPT ![s] = who]
          /\ current' = s

(* The interval of startReconnectTimer, until close().                     *)
Reconnect ==
    /\ closing = "no"
    /\ OpenSocket(Nobody)
    /\ UNCHANGED <<hello, greeted, clocks, requests, closing>>

clearConnectionTimeout ==
    /\ timers' = timers \ {connectionTimeout}
    /\ connectionTimeout' = NoSocket

(* tcpClient, unless it has been closed for good.                          *)
Live == {s \in Sockets : s = current /\ phase[s] # "free"}

(* tcpClient.destroy(); a destroyed socket still reports 'close'.          *)
DestroyCurrent ==
    phase' = [s \in Sockets |-> IF s \in Live THEN "destroyed" ELSE phase[s]]

(* 'connect' or 'secureConnect' of s: startConnection writes to tcpClient, *)
(* unless that is refused for its certificate.                             *)
Connects(s) ==
    /\ phase[s] = "connecting"
    /\ timers' = timers \union {s}
    /\ connectionTimeout' = s
    /\ \/ /\ phase' = [phase EXCEPT ![s] = "open"]
          /\ hello' = hello \union Live
       \/ /\ Tls
          /\ phase' = [t \in Sockets |->
                IF t \in Live THEN "destroyed" ELSE IF t = s THEN "open" ELSE phase[t]]
          /\ UNCHANGED hello
    /\ UNCHANGED <<status, current, opener, greeted, requests, closing>>

(* Ten seconds after s connected.                                          *)
ConnectionTimeout(s) ==
    /\ s \in timers
    /\ timers' = timers \ {s}
    /\ IF status = "CONNECTING"
       THEN DestroyCurrent /\ status' = "CLOSED"
       ELSE UNCHANGED <<phase, status>>
    /\ UNCHANGED <<current, opener, hello, greeted, connectionTimeout, requests, closing>>

(* CONNECT_SUCCESS arrives on s: whoever opened s and whoever waits for    *)
(* the status go on.                                                       *)
Greets(s) ==
    /\ s \in hello /\ phase[s] = "open"
    /\ hello' = hello \ {s} /\ greeted' = greeted \union {s}
    /\ clearConnectionTimeout
    /\ status' = "CONNECTED"
    /\ pc' = [r \in Requests |->
                IF pc[r] = "waiting" \/ (pc[r] = "opening" /\ opener[s] = r)
                THEN "writing" ELSE pc[r]]
    /\ UNCHANGED <<current, phase, opener, callbacks, reqTimers, closing>>

(* CONNECT_ERROR, or data that cannot be decoded: either destroys          *)
(* tcpClient, whichever socket it came from.                               *)
Refuses(s) ==
    /\ phase[s] = "open"
    /\ \/ s \in hello /\ hello' = hello \ {s} /\ clearConnectionTimeout
       \/ UNCHANGED <<hello, clocks>>
    /\ DestroyCurrent
    /\ status' = "CLOSED"
    /\ UNCHANGED <<current, opener, greeted, requests, closing>>

(* 'end' and 'error' of a socket; its 'close' is still to come.            *)
Ends(s) ==
    /\ \/ phase[s] = "open" /\ phase' = [phase EXCEPT ![s] = "ended"]
       \/ phase[s] \in {"connecting", "open", "ended"} /\ phase' = [phase EXCEPT ![s] = "destroyed"]
    /\ status' = "CLOSED"
    /\ UNCHANGED <<current, opener, hello, greeted, clocks, requests, closing>>

Closes_Unseen(s) ==             \* bug: no listener for 'close'
    /\ phase[s] \in {"ended", "destroyed"}
    /\ phase' = [phase EXCEPT ![s] = "free"]
    /\ opener' = [opener EXCEPT ![s] = Nobody]
    /\ hello' = hello \ {s} /\ greeted' = greeted \ {s}
    /\ UNCHANGED <<status, current, clocks, requests, closing>>

(* 'close' of a socket, whether or not it is still tcpClient.              *)
Closes(s) ==
    /\ phase[s] \in {"ended", "destroyed"}
    /\ phase' = [phase EXCEPT ![s] = "free"]
    /\ opener' = [opener EXCEPT ![s] = Nobody]
    /\ hello' = hello \ {s} /\ greeted' = greeted \ {s}
    /\ status' = "CLOSED"
    /\ UNCHANGED <<current, clocks, requests, closing>>

-----------------------------------------------------------------------------
(* sendRequest, up to its first await.                                     *)
Send(r) ==
    /\ pc[r] = "unsent"
    /\ CASE status = "CONNECTED" -> Goto(r, "writing") /\ UNCHANGED <<status, current, phase, opener>>
         [] status = "CONNECTING" -> Goto(r, "waiting") /\ UNCHANGED <<status, current, phase, opener>>
         [] status = "CLOSED" -> OpenSocket(r) /\ Goto(r, "opening")
    /\ UNCHANGED <<hello, greeted, clocks, callbacks, reqTimers, closing>>

(* The write ends: the callback is registered, or the request is rejected. *)
Written(r) ==
    /\ pc[r] = "writing"
    /\ \/ /\ \E s \in Sockets : phase[s] \in {"open", "ended"}
          /\ Goto(r, "pending")
          /\ callbacks' = callbacks \union {r} /\ reqTimers' = reqTimers \union {r}
       \/ Goto(r, "settled") /\ UNCHANGED <<callbacks, reqTimers>>
    /\ UNCHANGED <<status, sockets, clocks, closing>>

(* RESPONSE or RESPONSE_ERROR arrives; without a callback it is dropped.   *)
Respond(r) ==
    /\ r \in callbacks /\ \E s \in Sockets : phase[s] = "open"
    /\ callbacks' = callbacks \ {r} /\ reqTimers' = reqTimers \ {r}
    /\ Goto(r, "settled")
    /\ UNCHANGED <<status, sockets, clocks, closing>>

TimeOut(r) ==
    /\ r \in reqTimers
    /\ callbacks' = callbacks \ {r} /\ reqTimers' = reqTimers \ {r}
    /\ Goto(r, "settled")
    /\ UNCHANGED <<status, sockets, clocks, closing>>

-----------------------------------------------------------------------------
FinishClose_Timers ==           \* bug: the timers go with the callbacks
    /\ closing' = "done"
    /\ callbacks' = {} /\ reqTimers' = {}
    /\ DestroyCurrent
    /\ status' = "CLOSED"
    /\ UNCHANGED <<pc, current, opener, hello, greeted>>

(* The finally block of close(): requests lose their callbacks, not their  *)
(* timers.                                                                 *)
FinishClose ==
    /\ closing' = "done"
    /\ callbacks' = {}
    /\ DestroyCurrent
    /\ status' = "CLOSED"
    /\ UNCHANGED <<pc, reqTimers, current, opener, hello, greeted>>

Close ==
    /\ closing = "no"
    /\ clearConnectionTimeout
    /\ IF status = "CONNECTED"
       THEN closing' = "writing" /\ UNCHANGED <<status, sockets, requests>>
       ELSE FinishClose

(* The CLOSE message has been written, or cannot be.                       *)
CloseWritten ==
    /\ closing = "writing"
    /\ FinishClose
    /\ UNCHANGED clocks

Next ==
    \/ Reconnect \/ Close \/ CloseWritten
    \/ \E s \in Sockets : \/ Connects(s) \/ ConnectionTimeout(s) \/ Greets(s) \/ Refuses(s)
                          \/ Ends(s) \/ Closes(s)
    \/ \E r \in Requests : Send(r) \/ Written(r) \/ Respond(r) \/ TimeOut(r)

(* Timers fire and a destroyed socket reports 'close'.  The operating      *)
(* system ends an attempt to connect, but not a TLS handshake.             *)
Fairness ==
    /\ WF_vars(Reconnect)
    /\ \A s \in Sockets :
          /\ WF_vars(ConnectionTimeout(s))
          /\ WF_vars(phase[s] = "destroyed" /\ Closes(s))
          /\ (Tls => HandshakesEnd) => WF_vars(phase[s] = "connecting" /\ (Connects(s) \/ Ends(s)))
    /\ \A r \in Requests : WF_vars(TimeOut(r))

Spec == Init /\ [][Next]_vars /\ Fairness

-----------------------------------------------------------------------------
(* The status is CONNECTED only while a socket on which the server has     *)
(* greeted is open, or its 'close' is about to be reported: no mixture of  *)
(* events of old and new sockets leaves a dead connection CONNECTED.       *)
ConnectedIsGreeted ==
    status = "CONNECTED" => \E s \in greeted : phase[s] \in {"open", "destroyed"}

(* Nobody who waits for the connection misses that it is there.            *)
NobodyWaitsInVain == status = "CONNECTED" => \A r \in Requests : pc[r] # "waiting"

(* The status CONNECTED is neither kept too long nor overlooked: see the    *)
(* two parts.                                                              *)
GreetingsHold == ConnectedIsGreeted /\ NobodyWaitsInVain

(* A callback belongs to a request that is not settled and whose timeout   *)
(* is running: none outlives its request.                                  *)
CallbacksAreTimed ==
    callbacks \subseteq reqTimers /\ \A r \in reqTimers : pc[r] = "pending"

(* An attempt to connect ends, whatever the server does once the socket is *)
(* connected, and whatever the timers of earlier attempts do to this one:  *)
(* "Connection timeout: Server might require TLS but client is not using   *)
(* TLS, or vice versa".                                                    *)
AttemptsEnd == status = "CONNECTING" ~> status # "CONNECTING"

(* A request that was written is settled, whatever becomes of the          *)
(* connection: by its response or by its timeout, close() or not.          *)
WrittenIsSettled == \A r \in Requests : pc[r] = "pending" ~> pc[r] = "settled"

(* Attempts to connect end, and so do the requests that were written.      *)
NothingWaitsForever == AttemptsEnd /\ WrittenIsSettled
=============================================================================
