----------------------------- MODULE LogWatcher -----------------------------
(* LogWatcherService: reviews the last line of the access log whenever the  *)
(* file has changed and then stays as it is for a while.  What a review     *)
(* does is IpBlocker.                                                       *)
(*                                                                          *)
(* The web server writes lines, the log is rotated, and the kernel reports  *)
(* changes when it likes, several as one.  What fs.watch watches is the     *)
(* file it was given, not the name: a file that was renamed is watched on.  *)
EXTENDS Naturals

CONSTANT MaxLines    \* bounds the lines that are written

VARIABLES
    written,       \* the number of lines in the log
    unreported,    \* the file that is watched has changed since the last event
    watcher,       \* "on", "off", or "lost" when another file has the name
    readTimeout,   \* "none", "running", or "fired": the handle stays
    reading,       \* the calls of processLastLine that have not read the file yet
    reviewed       \* the lines that were read, and given to reviewIncoming if they parse

watcherVars == <<written, unreported, watcher, readTimeout, reading, reviewed>>

WatcherInit ==
    /\ written = 0 /\ unreported = FALSE
    /\ watcher = "on"
    /\ readTimeout = "none"
    /\ reading = 0
    /\ reviewed = {}

WebServerWrites ==
    /\ written < MaxLines
    /\ written' = written + 1
    /\ unreported' = (unreported \/ watcher = "on")
    /\ UNCHANGED <<watcher, readTimeout, reading, reviewed>>

(* The event of it is 'rename', which is ignored.                           *)
Rotates ==
    /\ watcher = "on" /\ watcher' = "lost"
    /\ UNCHANGED <<written, unreported, readTimeout, reading, reviewed>>

(* The event 'change': the pause begins anew.                               *)
Changes_WhilePending ==         \* bug: one timer at a time, and the handle is never reset
    /\ unreported /\ watcher # "off"
    /\ unreported' = FALSE
    /\ readTimeout' = IF readTimeout = "none" THEN "running" ELSE readTimeout
    /\ UNCHANGED <<written, watcher, reading, reviewed>>

Changes ==
    /\ unreported /\ watcher # "off"
    /\ unreported' = FALSE
    /\ readTimeout' = "running"
    /\ UNCHANGED <<written, watcher, reading, reviewed>>

TimeoutFires ==
    /\ readTimeout = "running" /\ readTimeout' = "fired"
    /\ reading' = reading + 1
    /\ UNCHANGED <<written, unreported, watcher, reviewed>>

(* The last line that is in the file by the time it is read; a rotated log  *)
(* may be empty under its name, or not be there, which is only logged.      *)
processLastLine ==
    /\ reading > 0 /\ reading' = reading - 1
    /\ \/ written > 0 /\ reviewed' = reviewed \union {written}
       \/ watcher = "lost" /\ UNCHANGED reviewed
    /\ UNCHANGED <<written, unreported, watcher, readTimeout>>

onModuleDestroy ==
    /\ watcher # "off" /\ watcher' = "off"
    /\ readTimeout' = "none"
    /\ UNCHANGED <<written, unreported, reading, reviewed>>

WatcherWorks == Changes \/ TimeoutFires \/ processLastLine
WatcherNext == WebServerWrites \/ Rotates \/ WatcherWorks \/ onModuleDestroy

(* The kernel reports changes, timers fire, and reads end.                  *)
WatcherFair == WF_watcherVars(WatcherWorks)

-----------------------------------------------------------------------------
(* The line after which the log pauses is reviewed: it is never taken for   *)
(* reported by the read before it, however events, timers and reads mix,    *)
(* as long as the file is watched.  (Lines before it may be passed over.)   *)
LastLineIsReviewed ==
    \A n \in 1..MaxLines :
        written = n ~> (n \in reviewed \/ written # n \/ watcher # "on")
=============================================================================
