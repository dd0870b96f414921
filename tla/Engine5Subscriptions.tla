------------------------ MODULE Engine5Subscriptions ------------------------
(***************************************************************************)
(* The handlers of an E5NestServer and the LISTEN commands behind them:    *)
(* what listen() does under generalMutex, what every write does under      *)
(* writeMutex, and how a new socket takes over the subjects of the last.   *)
(*                                                                         *)
(* Sockets are numbered as they are made; tcpClient is the last.  Why a    *)
(* socket ends, requests and close() are the subject of Engine5Connection: *)
(* here a socket may end at any time.  Nest adds the handlers before it    *)
(* calls listen(callback) of the server.                                   *)
(* Nobody handles the rejection of a listen() that fails: Node ends the    *)
(* process then, or only warns, as it is told to; here it goes on.         *)
(***************************************************************************)
EXTENDS Naturals, Sequences, SequencesExt

CONSTANTS
    Subjects,      \* the patterns of the handlers
    MaxLinks       \* bounds the sockets

VARIABLES
    e5Status,      \* connectionStatus
    link,          \* of each socket: "connecting", "open", "ended" or "closed"
    hello,         \* sockets on which the server has read CONNECT
    greeted,       \* sockets on which CONNECT_SUCCESS has arrived
    awaits,        \* what resolves the init() of the server: see listen
    listening,     \* of each subject
    generalQueue,  \* generalMutex: the listen() calls, the running one first
    writeQueue,    \* writeMutex: the payloads, the one being written first
    writeTo,       \* the socket that one is written to
    heard,         \* of each socket, the subjects the server has read
    overtaken      \* of each socket, the subjects it found half registered

subscriptionVars == <<e5Status, link, hello, greeted, awaits, listening, generalQueue,
                      writeQueue, writeTo, heard, overtaken>>
ofServer == <<hello, greeted, heard>>
ofHandlers == <<awaits, listening, generalQueue>>
ofWrites == <<writeQueue, writeTo>>

(* Whose greeting the server waits for: not asked yet, any, or one that    *)
(* has come; otherwise it is the number of a socket.                       *)
Unasked == 0
AnyGreeting == MaxLinks + 1
Ready == MaxLinks + 2

SubscriptionsInit ==
    /\ e5Status = "CLOSED"
    /\ link = <<>>
    /\ hello = {} /\ greeted = {}
    /\ awaits = Unasked
    /\ listening = [s \in Subjects |-> "added"]
    /\ generalQueue = <<>> /\ writeQueue = <<>>
    /\ writeTo = 0
    /\ heard = <<>> /\ overtaken = <<>>

Current == Len(link)
Registered == {s \in Subjects : listening[s] = "registered"}     \* listeningSubjectCallbacks

-----------------------------------------------------------------------------
(* writePayload, of each of these: the first is written at once, if nobody *)
(* else is writing, to the socket that is tcpClient then.                  *)
writePayload(payloads) ==
    /\ writeQueue' = writeQueue \o payloads
    /\ writeTo' = IF writeQueue = <<>> THEN Current ELSE writeTo

Connect == [command |-> "CONNECT", subject |-> "none"]
ListenFirst(s) == [command |-> "LISTEN", subject |-> s]
ListenAgain(s) == [command |-> "LISTEN again", subject |-> s]

(* addHandler's subscriptions to connectionIsReady, when it is: each calls *)
(* connection.listen, and the first of them gets generalMutex.             *)
BecomesReady ==
    LET calls == SetToSeq(Subjects)
    IN  /\ awaits' = Ready
        /\ generalQueue' = calls
        /\ listening' = [s \in Subjects |-> IF s = calls[1] THEN "writing" ELSE "queued"]
        /\ writePayload(<<ListenFirst(calls[1])>>)

(* _init, up to the events of the new socket.                              *)
OpenSocket ==
    /\ e5Status = "CLOSED" /\ Current < MaxLinks
    /\ e5Status' = "CONNECTING"
    /\ link' = Append(link, "connecting")
    /\ heard' = Append(heard, {}) /\ overtaken' = Append(overtaken, {})
    /\ UNCHANGED <<hello, greeted>>

(* listen(callback): what init() waits for depends on the status.          *)
listen ==
    /\ awaits = Unasked
    /\ CASE e5Status = "CLOSED" ->
                /\ OpenSocket
                /\ awaits' = Current + 1
                /\ UNCHANGED <<listening, generalQueue, ofWrites>>
         [] e5Status = "CONNECTING" ->
                /\ awaits' = AnyGreeting
                /\ UNCHANGED <<e5Status, link, ofServer, overtaken, listening, generalQueue, ofWrites>>
         [] e5Status = "CONNECTED" ->
                /\ BecomesReady
                /\ UNCHANGED <<e5Status, link, ofServer, overtaken>>

Reconnect == OpenSocket /\ UNCHANGED <<ofHandlers, ofWrites>>

(* 'connect': startConnection says CONNECT and listens again to every      *)
(* subject that has callbacks, all to what is tcpClient by then.           *)
Connects_Silent(k) ==           \* bug: the server is expected to remember
    /\ link[k] = "connecting" /\ link' = [link EXCEPT ![k] = "open"]
    /\ writePayload(<<Connect>>)
    /\ overtaken' = [overtaken EXCEPT ![Current] = {s \in Subjects : listening[s] = "writing"}]
    /\ UNCHANGED <<e5Status, ofServer, ofHandlers>>

Connects(k) ==
    /\ link[k] = "connecting" /\ link' = [link EXCEPT ![k] = "open"]
    /\ writePayload(<<Connect>> \o SetToSeq({ListenAgain(s) : s \in Registered}))
    /\ overtaken' = [overtaken EXCEPT ![Current] = {s \in Subjects : listening[s] = "writing"}]
    /\ UNCHANGED <<e5Status, ofServer, ofHandlers>>

(* CONNECT_SUCCESS arrives.                                                *)
Greets(k) ==
    /\ link[k] = "open" /\ k \in hello
    /\ hello' = hello \ {k} /\ greeted' = greeted \union {k}
    /\ e5Status' = "CONNECTED"
    /\ IF awaits \in {k, AnyGreeting} THEN BecomesReady ELSE UNCHANGED <<ofHandlers, ofWrites>>
    /\ UNCHANGED <<link, heard, overtaken>>

(* 'error' or 'end' of a socket, and its 'close', which may come later.    *)
Ends(k) ==
    /\ \/ link[k] = "open" /\ link' = [link EXCEPT ![k] = "ended"]
       \/ link[k] # "closed" /\ link' = [link EXCEPT ![k] = "closed"]
    /\ e5Status' = "CLOSED"
    /\ UNCHANGED <<ofServer, overtaken, ofHandlers, ofWrites>>

-----------------------------------------------------------------------------
(* The callback of tcpClient.write: the next payload is written, to what   *)
(* is tcpClient now.  A socket that connects keeps what it is given until  *)
(* it has; one that has ended refuses it or loses it.                      *)
Written(ok) ==
    /\ writeQueue # <<>> /\ link[writeTo] # "connecting"
    /\ ok => link[writeTo] # "closed"
    /\ ~ok => link[writeTo] # "open"

Reads(payload) ==
    IF payload.command = "CONNECT"
    THEN hello' = hello \union {writeTo} /\ UNCHANGED heard
    ELSE heard' = [heard EXCEPT ![writeTo] = @ \union {payload.subject}] /\ UNCHANGED hello

(* The calls of listen() that are left when the first has ended: the       *)
(* `finally` of the mutex lets the next one in.                            *)
CallsLeft_OnSuccess(ok) ==      \* bug: a listen() that fails keeps generalMutex
    IF ok THEN Tail(generalQueue) ELSE generalQueue

CallsLeft(ok) == Tail(generalQueue)

(* The rest of listen(), which registers the callback only now; then the   *)
(* next call says LISTEN, behind what waits for writeMutex already.        *)
ListenEnds(s, ok) ==
    LET left == CallsLeft(ok)
        begins == {c \in Subjects : left # <<>> /\ c = left[1] /\ listening[c] = "queued"}
    IN  /\ generalQueue' = left
        /\ listening' = [c \in Subjects |->
              IF c = s THEN IF ok THEN "registered" ELSE "failed"
              ELSE IF c \in begins THEN "writing" ELSE listening[c]]
        /\ writeQueue' = Tail(writeQueue) \o SetToSeq({ListenFirst(c) : c \in begins})

WriteEnds(ok) ==
    /\ Written(ok)
    /\ IF ok THEN Reads(Head(writeQueue)) ELSE UNCHANGED <<hello, heard>>
    /\ IF Head(writeQueue).command = "LISTEN"
       THEN ListenEnds(Head(writeQueue).subject, ok)
       ELSE writeQueue' = Tail(writeQueue) /\ UNCHANGED <<generalQueue, listening>>
    /\ writeTo' = IF writeQueue' = <<>> THEN 0 ELSE Current
    /\ UNCHANGED <<e5Status, link, greeted, awaits, overtaken>>

SubscriptionsNext ==
    \/ listen \/ Reconnect
    \/ \E k \in DOMAIN link : Connects(k) \/ Greets(k) \/ Ends(k)
    \/ \E ok \in BOOLEAN : WriteEnds(ok)

Connecting(k) == k \in DOMAIN link /\ link[k] = "connecting"

(* Attempts to connect end, and so do writes: the network and the server   *)
(* may fail, but do not stall for ever.                                    *)
SubscriptionsFair ==
    /\ \A k \in 1..MaxLinks : WF_subscriptionVars(Connecting(k) /\ (Connects(k) \/ Ends(k)))
    /\ WF_subscriptionVars(\E ok \in BOOLEAN : WriteEnds(ok))

-----------------------------------------------------------------------------
(* startConnection: when a new socket has been greeted and all is written, *)
(* the server knows on it every subject with callbacks, but for those      *)
(* whose first LISTEN was under way when the socket connected.             *)
ListenedAgain ==
    e5Status = "CONNECTED" /\ Current \in greeted /\ link[Current] = "open" /\ writeQueue = <<>>
        => Registered \subseteq heard[Current] \union overtaken[Current]

(* The comment on the mutexes (connection.ts, line 28): a listen(), which  *)
(* holds generalMutex and waits for writeMutex, comes to an end, whatever  *)
(* fails meanwhile, and so does every listen() behind it.                  *)
ListensSettle ==
    (\E s \in Subjects : listening[s] \in {"queued", "writing"})
        ~> \A s \in Subjects : listening[s] \in {"registered", "failed"}
=============================================================================
