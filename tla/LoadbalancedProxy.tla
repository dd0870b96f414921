-------------------------- MODULE LoadbalancedProxy --------------------------
(***************************************************************************)
(* libs/loadbalanced-proxy: the main process of a service, which forks     *)
(* workers, forks each one again when it closes, and hands requests to     *)
(* them in turn.                                                           *)
(*                                                                         *)
(* A worker is its slot of the start-up loop with the number of the fork.  *)
(* detect() finds the next free port when it is asked, long before the     *)
(* worker listens on it; a worker that finds its port taken dies.  The     *)
(* closing stage is left out: beforeExit is not emitted while the process  *)
(* has workers.                                                            *)
(***************************************************************************)
EXTENDS Integers, Sequences

CONSTANTS
    Slots,       \* 1 .. processCount
    LastPort,    \* ports are counted from the one of the proxy itself, 0
    MaxDeaths,   \* bounds the workers that die of something else than their port
    MaxErrors    \* bounds the errors of the proxy's server

VARIABLES
    taken,           \* ports that other programs listen on
    worker,          \* of each slot: what has become of the last fork
    fork,            \* ... its number
    workerPort,      \* ... and its port
    childProcesses,  \* this.childProcesses
    processGear,     \* this.processGear
    status,          \* this.proxyServerStatus
    closing,         \* 'close' events that are on their way
    deaths, errors

workers == <<worker, fork, workerPort, childProcesses>>
server == <<status, closing>>
balancerVars == <<taken, workers, processGear, server, deaths, errors>>

Ports == 1 .. LastPort
Entry == [port : Ports, process : Slots \X Nat]

TypeOK ==
    /\ taken \subseteq Ports
    /\ worker \in [Slots -> {"detecting", "forked", "ready"}]
    /\ fork \in [Slots -> Nat] /\ workerPort \in [Slots -> Ports]
    /\ childProcesses \in Seq(Entry)
    /\ processGear \in Int
    /\ status \in {"STOPPED", "STARTING", "STARTED"} /\ closing \in Nat
    /\ deaths \in 0 .. MaxDeaths /\ errors \in 0 .. MaxErrors

Init ==
    /\ taken \in SUBSET Slots
    /\ worker = [s \in Slots |-> "detecting"]
    /\ fork = [s \in Slots |-> 0]
    /\ workerPort = [s \in Slots |-> s]
    /\ childProcesses = <<>>
    /\ processGear = -1
    /\ status = "STOPPED" /\ closing = 0
    /\ deaths = 0 /\ errors = 0

-----------------------------------------------------------------------------
Listening == {s \in Slots : worker[s] = "ready"}
Bound == taken \union {workerPort[s] : s \in Listening}

startProxyServer(from) == IF from = "STOPPED" THEN "STARTING" ELSE from

(* spawnProcess: the port that is free now, and the fork.                  *)
Spawn(s) ==
    /\ worker[s] = "detecting"
    /\ \E p \in Ports \ Bound :
          /\ p >= workerPort[s] /\ \A q \in workerPort[s] .. p - 1 : q \in Bound
          /\ workerPort' = [workerPort EXCEPT ![s] = p]
    /\ worker' = [worker EXCEPT ![s] = "forked"]
    /\ fork' = [fork EXCEPT ![s] = @ + 1]
    /\ UNCHANGED <<taken, childProcesses, processGear, server, deaths, errors>>

(* The worker listens and sends app-ready.                                 *)
AppReady(s) ==
    /\ worker[s] = "forked" /\ workerPort[s] \notin Bound
    /\ worker' = [worker EXCEPT ![s] = "ready"]
    /\ childProcesses' =
          Append(childProcesses, [port |-> workerPort[s], process |-> <<s, fork[s]>>])
    /\ status' = startProxyServer(status)
    /\ UNCHANGED <<taken, fork, workerPort, processGear, closing, deaths, errors>>

IndexOf(s) == {i \in DOMAIN childProcesses : childProcesses[i].process = <<s, fork[s]>>}

Close_Removes(s) ==             \* bug: the process is removed from the list
    /\ worker' = [worker EXCEPT ![s] = "detecting"]
    /\ childProcesses' = SelectSeq(childProcesses, LAMBDA e : e.process # <<s, fork[s]>>)
    /\ UNCHANGED <<taken, fork, workerPort, processGear, server, errors>>

Close_OnlyReady(s) ==           \* bug: one that never was ready is not forked again
    /\ IF IndexOf(s) = {} THEN worker' = [worker EXCEPT ![s] = "gone"] /\ UNCHANGED childProcesses
       ELSE /\ worker' = [worker EXCEPT ![s] = "detecting"]
            /\ \E i \in IndexOf(s) : childProcesses' = <<childProcesses[i]>>
    /\ UNCHANGED <<taken, fork, workerPort, processGear, server, errors>>

(* splice(i, 1) returns what it has removed, so that the list becomes the  *)
(* process that has closed; then it is forked again.                       *)
Close(s) ==
    /\ worker' = [worker EXCEPT ![s] = "detecting"]
    /\ \/ \E i \in IndexOf(s) : childProcesses' = <<childProcesses[i]>>
       \/ IndexOf(s) = {} /\ UNCHANGED childProcesses
    /\ UNCHANGED <<taken, fork, workerPort, processGear, server, errors>>

Die(s) ==
    /\ worker[s] \in {"forked", "ready"} /\ deaths < MaxDeaths /\ deaths' = deaths + 1
    /\ Close(s)

PortTaken(s) ==
    /\ worker[s] = "forked" /\ workerPort[s] \in Bound
    /\ Close(s) /\ UNCHANGED deaths

-----------------------------------------------------------------------------
Listen ==
    /\ status = "STARTING" /\ status' = "STARTED"
    /\ UNCHANGED <<taken, workers, processGear, closing, deaths, errors>>

(* restartProxyServer, on an error and on every 'close', the one that      *)
(* server.close() of the last restart has caused included.                 *)
restartProxyServer(events) ==
    /\ status' = startProxyServer("STOPPED")
    /\ closing' = events + (IF status = "STOPPED" THEN 0 ELSE 1)
    /\ UNCHANGED <<taken, workers, processGear, deaths>>

ServerError ==
    /\ status # "STOPPED" /\ errors < MaxErrors /\ errors' = errors + 1
    /\ restartProxyServer(closing)

ServerClosed == closing > 0 /\ restartProxyServer(closing - 1) /\ UNCHANGED errors

(* The handler of createServer sends a request to the process the gear has *)
(* come to; with none in the list an exception stops the server.           *)
Request ==
    /\ status # "STOPPED"
    /\ IF childProcesses = <<>>
       THEN /\ processGear' = 0
            /\ status' = "STOPPED" /\ closing' = closing + 1
       ELSE /\ processGear' = (processGear + 1) % Len(childProcesses)
            /\ UNCHANGED server
    /\ UNCHANGED <<taken, workers, deaths, errors>>

Next ==
    \/ \E s \in Slots : Spawn(s) \/ AppReady(s) \/ Die(s) \/ PortTaken(s)
    \/ Listen \/ ServerError \/ ServerClosed \/ Request

Spec == Init /\ [][Next]_balancerVars

(* Forks are made and come to listen, or die of their port.                *)
WorkersStart ==
    \A s \in Slots : WF_balancerVars(Spawn(s) \/ AppReady(s) \/ PortTaken(s))

-----------------------------------------------------------------------------
(* From the first worker that is ready on, the list is never empty, so     *)
(* that no request finds no process to be sent to: the server is not       *)
(* stopped by the catch block of its handler, however workers die.         *)
RequestsHaveATarget == status # "STOPPED" => childProcesses # <<>>

(* When workers have stopped dying, an entry of the list leads to a port   *)
(* that a worker listens on, although the list loses the living ones at    *)
(* every close and ports are lost in races of detect().                    *)
Served == \E i \in DOMAIN childProcesses :
              \E s \in Listening : workerPort[s] = childProcesses[i].port
ProxyRecovers == <>[]Served
=============================================================================
