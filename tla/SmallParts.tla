----------------------------- MODULE SmallParts -----------------------------
(* Seven small parts, which share nothing: GroupCreation, AsyncMutex,       *)
(* DynamicQueue, LoadbalancedProxy, RealtimeChat, Engine5Subscriptions and  *)
(* LogWatcher.  A behaviour is one of the part that `part` names; the       *)
(* others stay as they begin.                                               *)
EXTENDS GroupCreation, Integers, Sequences, FiniteSets

CONSTANTS
    Tasks,                                    \* of AsyncMutex, and of DynamicQueue
    Slots, LastPort, MaxDeaths, MaxErrors,    \* those of LoadbalancedProxy
    Messages, Sessions, Ways, Answers, Parts, Follow, None,     \* of RealtimeChat
    Subjects, MaxLinks,                       \* of Engine5Subscriptions
    MaxLines                                  \* of LogWatcher

(* Ports are counted from that of the proxy; a message is sent to a session *)
(* and an answer has a part at least; the server connects to listen to      *)
(* something.                                                               *)
ASSUME ProxyNumbers ==
    /\ Slots \subseteq 1 .. LastPort /\ LastPort \in Nat
    /\ MaxDeaths \in Nat /\ MaxErrors \in Nat
ASSUME ChatNumbers == Parts \in Nat \ {0} /\ Ways \subseteq [Messages -> Sessions]
ASSUME ServerNumbers == MaxLinks \in Nat /\ IsFiniteSet(Subjects) /\ Subjects # {}

VARIABLES
    part,
    busy, waiters, phase,                                  \* of AsyncMutex
    tasks, queueBusy, current, output,                     \* of DynamicQueue
    taken, worker, fork, workerPort, childProcesses,       \* of LoadbalancedProxy
    processGear, status, closing, deaths, errors,
    sessionOf, sessionStatus, messages, chatPc, seen, tick, gen, stored, events, handlers,
    odd, raced,                                            \* of RealtimeChat
    e5Status, link, hello, greeted, awaits, listening, generalQueue,
    writeQueue, writeTo, heard, overtaken,                 \* of Engine5Subscriptions
    written, unreported, watcher, readTimeout, reading, reviewed     \* of LogWatcher

Mutex == INSTANCE AsyncMutex
Queue == INSTANCE DynamicQueue WITH busy <- queueBusy
Proxy == INSTANCE LoadbalancedProxy
Chat == INSTANCE RealtimeChat WITH Calls <- Messages, status <- sessionStatus, pc <- chatPc
Server == INSTANCE Engine5Subscriptions
Watcher == INSTANCE LogWatcher

mutexVars == <<busy, waiters, phase>>
queueVars == <<tasks, queueBusy, current, output>>
proxyVars == <<taken, worker, fork, workerPort, childProcesses, processGear, status,
               closing, deaths, errors>>
chatVars == <<sessionOf, sessionStatus, messages, chatPc, seen, tick, gen, stored, events, handlers, odd, raced>>
serverVars == <<e5Status, link, hello, greeted, awaits, listening, generalQueue, writeQueue,
                writeTo, heard, overtaken>>
watcherVars == <<written, unreported, watcher, readTimeout, reading, reviewed>>
restVars == <<serverVars, watcherVars>>
partsVars == <<part, vars, mutexVars, queueVars, proxyVars, chatVars, restVars>>

PartsInit ==
    /\ part \in {"creation", "mutex", "queue", "proxy", "chat", "server", "watcher"}
    /\ Init /\ Mutex!Init /\ Queue!Init /\ Proxy!Init /\ Chat!ChatInit
    /\ Server!SubscriptionsInit /\ Watcher!WatcherInit
    /\ part # "proxy" => taken = {}
    /\ part # "chat" => sessionOf = CHOOSE w \in Ways : TRUE

PartsNext ==
    /\ UNCHANGED part
    /\ \/ part = "creation" /\ Next /\ UNCHANGED <<restVars, mutexVars, queueVars, proxyVars, chatVars>>
       \/ part = "mutex" /\ Mutex!Next /\ UNCHANGED <<restVars, vars, queueVars, proxyVars, chatVars>>
       \/ part = "queue" /\ Queue!Next /\ UNCHANGED <<restVars, vars, mutexVars, proxyVars, chatVars>>
       \/ part = "proxy" /\ Proxy!Next /\ UNCHANGED <<restVars, vars, mutexVars, queueVars, chatVars>>
       \/ part = "chat" /\ Chat!ChatNext /\ UNCHANGED <<restVars, vars, mutexVars, queueVars, proxyVars>>
       \/ /\ part = "server" /\ Server!SubscriptionsNext
          /\ UNCHANGED <<vars, mutexVars, queueVars, proxyVars, chatVars, watcherVars>>
       \/ /\ part = "watcher" /\ Watcher!WatcherNext
          /\ UNCHANGED <<vars, mutexVars, queueVars, proxyVars, chatVars, serverVars>>

(* Tasks end, workers that are forked listen or die; and for the chat,      *)
(* what ChatFair says: requests, the cron, the stream and the bus go on;    *)
(* for the server, what SubscriptionsFair says: sockets do not stall; for   *)
(* the watcher, what WatcherFair says: events, timers and reads go on.      *)
PartsFair ==
    /\ WF_queueVars(part = "queue" /\ \E t \in Tasks : Queue!complete(t) \/ Queue!error(t))
    /\ \A s \in Slots :
          WF_proxyVars(part = "proxy" /\ (Proxy!Spawn(s) \/ Proxy!AppReady(s) \/ Proxy!PortTaken(s)))
    /\ WF_chatVars(part = "chat" /\ Chat!GoesOn /\ Chat!Cron /\ Chat!Noted({}))
    /\ WF_chatVars(part = "chat" /\ Chat!GoesOn /\ Chat!Work /\ Chat!Noted({}))
    /\ \A k \in 1 .. MaxLinks :
          WF_serverVars(part = "server" /\ Server!Connecting(k) /\ (Server!Connects(k) \/ Server!Ends(k)))
    /\ WF_serverVars(part = "server" /\ \E ok \in BOOLEAN : Server!WriteEnds(ok))
    /\ WF_watcherVars(part = "watcher" /\ Watcher!WatcherWorks)

PartsSpec == PartsInit /\ [][PartsNext]_partsVars /\ PartsFair

(* The mutex serves its callers first come first served: see AsyncMutex.    *)
ImplementsFifoLock == Mutex!ImplementsFifoLock

(* So does the queue, which also never stops while its tasks end: see       *)
(* DynamicQueue.                                                            *)
QueueIsFifoLock == Queue!QueueIsFifoLock

(* A request finds a worker to be sent to: see LoadbalancedProxy.           *)
RequestsHaveATarget == Proxy!RequestsHaveATarget

(* When workers no longer die, requests are served again: see               *)
(* LoadbalancedProxy.                                                       *)
ProxyRecovers == part = "proxy" => Proxy!ProxyRecovers

(* One answer is generated at a time, and a finished one has all its text:  *)
(* see RealtimeChat.                                                        *)
AnswersAreWhole == Chat!OneAnswerAtATime /\ Chat!AnswerIsWhole

(* A new socket takes over the subjects of the last: see                    *)
(* Engine5Subscriptions.                                                    *)
ListenedAgain == part = "server" => Server!ListenedAgain

(* Registering a handler comes to an end, whatever fails: see               *)
(* Engine5Subscriptions.                                                    *)
ListensSettle == part = "server" => Server!ListensSettle

(* The line after which the log pauses is reviewed: see LogWatcher.         *)
LastLineIsReviewed == part = "watcher" => Watcher!LastLineIsReviewed
=============================================================================
