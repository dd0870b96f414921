---------------------------- MODULE RealtimeChat ----------------------------
(***************************************************************************)
(* libs/superlama-webservice: chat sessions with a language model.  A      *)
(* message of a user makes its session WAITING; the cron, every five       *)
(* seconds, starts the answer of one waiting session if none is            *)
(* CONTINUING; the answer is streamed in parts over the bus, each of which *)
(* is appended to the stored message in a handler of its own; the last     *)
(* event makes the session FINISHED.  The text of an answer is the         *)
(* sequence of the parts that were appended to it.  One process, with the  *)
(* one cron it has.                                                        *)
(*                                                                         *)
(* A save writes the fields that differ from what was loaded.              *)
(***************************************************************************)
EXTENDS Integers, Sequences, FiniteSets

CONSTANTS
    Sessions,
    Calls,         \* messages of users
    Ways,          \* how they may be directed to sessions
    Parts,         \* 1 to the number of parts of an answer
    Answers,       \* bounds the answers that are begun
    Follow,        \* whether to go on after the first event of odd
    None

VARIABLES
    sessionOf,     \* the session of each message
    status,        \* llmAnswerStatus of each session, None before there is one
    messages,      \* the messages of each session: users' and answers'
    pc, seen,      \* of each message: its step; the status it has loaded
    tick,          \* the step of the cron
    gen,           \* the answers: session, step, and what is read and sent
    stored,        \* the stored messages of the answers: stage, text
    events,        \* llm-result events that are on their way
    handlers,      \* and those that are handled
    odd,           \* history: what has happened that can keep messages unanswered
    raced          \* history: answers whose events were not handled one by one in order,
                   \* each to its end

chatVars == <<sessionOf, status, messages, pc, seen, tick, gen, stored, events, handlers, odd, raced>>
users == <<pc, seen>>
bus == <<events, handlers, raced>>

Statuses == {"WAITING", "CONTINUING", "FINISHED", None}
Events == [answer : Answers, part : 1 .. (Parts + 1)]      \* the last is DONE
DONE == Parts + 1
Idle == [step |-> "idle", session |-> None, target |-> {}, mute |-> FALSE, loaded |-> None, sent |-> 0]

ChatTypeOK ==
    /\ sessionOf \in Ways
    /\ status \in [Sessions -> Statuses]
    /\ messages \in [Sessions -> Seq(Calls \union Answers)]
    /\ pc \in [Calls -> {"load", "session", "message", "done"}] /\ seen \in [Calls -> Statuses]
    /\ tick \in {"count", "find"}
    /\ gen \in [Answers -> [step : {"idle", "read", "load", "status", "save", "stream", "over"},
                            session : Sessions \union {None}, target : SUBSET Calls, mute : BOOLEAN,
                            loaded : Statuses, sent : 0 .. Parts]]
    /\ stored \in [Answers -> [stage : {"none", "ANSWER", "DONE"}, text : Seq(1 .. Parts)]]
    /\ events \subseteq Events
    /\ \A h \in handlers : h.event \in Events /\ h.step \in {"save", "title", "finish"}
    /\ odd \subseteq {"overlap", "double", "failed"} /\ raced \subseteq Answers

ChatInit ==
    /\ sessionOf \in Ways
    /\ status = [s \in Sessions |-> None] /\ messages = [s \in Sessions |-> <<>>]
    /\ pc = [c \in Calls |-> "load"] /\ seen = [c \in Calls |-> None]
    /\ tick = "count"
    /\ gen = [a \in Answers |-> Idle]
    /\ stored = [a \in Answers |-> [stage |-> "none", text |-> <<>>]]
    /\ events = {} /\ handlers = {}
    /\ odd = {} /\ raced = {}

Written(old, new, now) == IF old = new THEN now ELSE new
Set(s, old, new) == status' = [status EXCEPT ![s] = Written(old, new, @)]

-----------------------------------------------------------------------------
(* insertUserMessage: the session is loaded, or new; it is saved before    *)
(* the message is.                                                         *)
LoadSession(c) ==
    /\ pc[c] = "load"
    /\ pc' = [pc EXCEPT ![c] = "session"]
    /\ seen' = [seen EXCEPT ![c] = status[sessionOf[c]]]
    /\ UNCHANGED <<status, messages, tick, gen, stored, bus>>

SaveSession(c) ==
    /\ pc[c] = "session"
    /\ Set(sessionOf[c], seen[c], "WAITING")
    /\ pc' = [pc EXCEPT ![c] = "message"] /\ seen' = [seen EXCEPT ![c] = None]
    /\ UNCHANGED <<messages, tick, gen, stored, bus>>

SaveMessage(c) ==
    /\ pc[c] = "message"
    /\ messages' = [messages EXCEPT ![sessionOf[c]] = Append(@, c)]
    /\ pc' = [pc EXCEPT ![c] = "done"]
    /\ UNCHANGED <<status, seen, tick, gen, stored, bus>>

-----------------------------------------------------------------------------
(* handleCron: countDocuments, then find; generateAnswer is not awaited.   *)
Count == tick = "count" /\ \A s \in Sessions : status[s] # "CONTINUING"

CronCounts ==
    /\ Count /\ tick' = "find"
    /\ UNCHANGED <<status, messages, users, gen, stored, bus>>

(* The answers that are not begun; which of them is next makes no odds.    *)
Unused == {a \in Answers : gen[a].step = "idle"}
AnAnswer == CHOOSE a \in Unused : TRUE

CronFinds ==
    /\ tick = "find" /\ tick' = "count"
    /\ \/ /\ \A s \in Sessions : status[s] # "WAITING"
          /\ UNCHANGED gen
       \/ \E s \in Sessions :
             /\ status[s] = "WAITING" /\ Unused # {}
             /\ gen' = [gen EXCEPT ![AnAnswer] = [Idle EXCEPT !.step = "read", !.session = s]]
    /\ UNCHANGED <<status, messages, users, stored, bus>>

Step(a, step) == gen' = [gen EXCEPT ![a].step = step]

(* findMessagesBySessionIdPaged: the last ten.  Without one of the user    *)
(* there is nothing to do; if the last one is not of the user, the stream  *)
(* of generateResponse never sends anything, but that of                   *)
(* generateTestoResponse, if their last one starts with 'test', does.      *)
GenRead(a) ==
    LET all == messages[gen[a].session]
        last == SubSeq(all, IF Len(all) > 10 THEN Len(all) - 9 ELSE 1, Len(all))
        ofUsers == {last[i] : i \in DOMAIN last} \intersect Calls
    IN
    /\ gen[a].step = "read"
    /\ \E test \in BOOLEAN :
          gen' = [gen EXCEPT ![a] = IF ofUsers = {} THEN Idle
                                    ELSE [@ EXCEPT !.step = "load", !.target = ofUsers,
                                                   !.mute = ~test /\ last[Len(last)] \notin Calls]]
    /\ UNCHANGED <<status, messages, users, tick, stored, bus>>

(* setSessionStatus(CONTINUING) *)
GenLoadStatus(a) ==
    /\ gen[a].step = "load"
    /\ gen' = [gen EXCEPT ![a].step = "status", ![a].loaded = status[gen[a].session]]
    /\ UNCHANGED <<status, messages, users, tick, stored, bus>>

GenSetStatus(a) ==
    /\ gen[a].step = "status" /\ Step(a, "save")
    /\ Set(gen[a].session, gen[a].loaded, "CONTINUING")
    /\ UNCHANGED <<messages, users, tick, stored, bus>>

GenSaveMessage(a) ==
    /\ gen[a].step = "save" /\ Step(a, "stream")
    /\ messages' = [messages EXCEPT ![gen[a].session] = Append(@, a)]
    /\ stored' = [stored EXCEPT ![a].stage = "ANSWER"]
    /\ UNCHANGED <<status, users, tick, bus>>

(* auditMessage, of a part of the stream: emitted on the bus; after the    *)
(* last one, the event that says it is done.                               *)
Emit(a) ==
    LET n == gen[a].sent + 1 IN
    /\ gen[a].step = "stream" /\ ~gen[a].mute
    /\ events' = events \union {[answer |-> a, part |-> n]}
                        \union (IF n = Parts THEN {[answer |-> a, part |-> DONE]} ELSE {})
    /\ gen' = [gen EXCEPT ![a].sent = n, ![a].step = IF n = Parts THEN "over" ELSE @]
    /\ UNCHANGED <<status, messages, users, tick, stored, handlers, raced>>

(* An error, of the model too, or the end of the process: nobody takes the *)
(* answer up again.                                                        *)
GenFails(a) ==
    /\ gen[a].step \notin {"idle", "over"} /\ Step(a, "over")
    /\ UNCHANGED <<status, messages, users, tick, stored, bus>>

-----------------------------------------------------------------------------
(* llmResulting, saveGeneratedAnswer: as many at a time and in whatever    *)
(* order as the bus brings them.                                           *)
Receive(e) ==
    /\ e \in events /\ events' = events \ {e}
    /\ handlers' = handlers \union {[event |-> e, step |-> "save", loaded |-> stored[e.answer]]}
    /\ raced' = IF \/ \E h \in handlers : h.event.answer = e.answer /\ h.step = "save"
                   \/ \E f \in events : f.answer = e.answer /\ f.part < e.part
                THEN raced \union {e.answer} ELSE raced
    /\ UNCHANGED <<status, messages, users, tick, gen, stored>>

(* The stored message after the event.                                     *)
Text_Replaced(old, part) == IF part = DONE THEN <<>> ELSE <<part>>     \* bug: `=` for `+=`

Text(old, part) == IF part = DONE THEN old.text ELSE Append(old.text, part)

Stage(old, part) == IF part = DONE THEN "DONE" ELSE old.stage

Becomes(h, next) == handlers' = (handlers \ {h}) \union next

saveGeneratedAnswer(h) ==
    LET a == h.event.answer old == h.loaded part == h.event.part
        over == Stage(old, part) = "DONE"
    IN
    /\ h.step = "save"
    /\ stored' = IF old.stage = "DONE" THEN stored
                 ELSE [stored EXCEPT ![a] =
                          [stage |-> Written(old.stage, Stage(old, part), @.stage),
                           text |-> Written(old.text, Text(old, part), @.text)]]
    /\ Becomes(h, IF over THEN {[event |-> h.event, step |-> "title"]} ELSE {})
    /\ UNCHANGED <<status, messages, users, tick, gen, events, raced>>

(* finishSession: the title, by the model or, when that fails, of the      *)
(* first letters; then the session.                                        *)
AfterTitle_Uncaught == {{"finish"}, {}}    \* bug: no catch around the title

AfterTitle == {{"finish"}}

GenerateTitle(h) ==
    /\ h.step = "title"
    /\ \E next \in AfterTitle :
          Becomes(h, {[event |-> h.event, step |-> n, loaded |-> status[gen[h.event.answer].session]] : n \in next})
    /\ UNCHANGED <<status, messages, users, tick, gen, stored, events, raced>>

finishSession(h) ==
    /\ h.step = "finish" /\ Becomes(h, {})
    /\ Set(gen[h.event.answer].session, h.loaded, "FINISHED")
    /\ UNCHANGED <<messages, users, tick, gen, stored, events, raced>>

(* The message or the session is not found, or a save fails: the handler   *)
(* throws, and what it was to append, or the end of the session, is lost.  *)
HandlingFails(h) ==
    /\ h.step \in {"save", "finish"} /\ Becomes(h, {})
    /\ raced' = IF h.step = "save" THEN raced \union {h.event.answer} ELSE raced
    /\ UNCHANGED <<status, messages, users, tick, gen, stored, events>>

-----------------------------------------------------------------------------
Inserting(s) == \E c \in Calls : sessionOf[c] = s /\ pc[c] \in {"session", "message"}

(* From the cron's find to the end of what its last event does.            *)
Answering(s) ==
    \/ \E a \in Answers : gen[a].session = s /\ gen[a].step \notin {"idle", "over"}
    \/ \E e \in events : gen[e.answer].session = s
    \/ \E h \in handlers : gen[h.event.answer].session = s

Starting(a) == gen[a].step \in {"read", "load", "status"}

Noted(more) ==
    /\ UNCHANGED sessionOf
    /\ odd' = odd \union more
           \union (IF \E s \in Sessions : Inserting(s)' /\ Answering(s)' THEN {"overlap"} ELSE {})
           \union (IF tick' = "find" /\ \E a \in Answers : Starting(a)' THEN {"double"} ELSE {})

Handle(h) == saveGeneratedAnswer(h) \/ GenerateTitle(h) \/ finishSession(h)

Generate(a) ==
    GenRead(a) \/ GenLoadStatus(a) \/ GenSetStatus(a) \/ GenSaveMessage(a) \/ Emit(a)

Insert(c) == LoadSession(c) \/ SaveSession(c) \/ SaveMessage(c)

GoesOn == odd = {} \/ Follow

Work ==
    \/ \E c \in Calls : Insert(c)
    \/ \E a \in Answers : Generate(a)
    \/ \E e \in events : Receive(e)
    \/ \E h \in handlers : Handle(h)

Cron == CronCounts \/ CronFinds

Fails == (\E a \in Answers : GenFails(a)) \/ \E h \in handlers : HandlingFails(h)

ChatNext ==
    /\ GoesOn
    /\ \/ (Work \/ Cron) /\ Noted({})
       \/ Fails /\ Noted({"failed"})

(* The cron ticks; requests, the stream and the bus go on, in which order  *)
(* ever: they come to an end each time, so that none can hold up another   *)
(* for good.                                                               *)
ChatFair ==
    /\ WF_chatVars(GoesOn /\ Cron /\ Noted({}))
    /\ WF_chatVars(GoesOn /\ Work /\ Noted({}))

ChatSpec == ChatInit /\ [][ChatNext]_chatVars /\ ChatFair

-----------------------------------------------------------------------------
(* One answer is generated at a time, whichever session it is for: unless  *)
(* a message came to a session that was being answered, or the cron ticked *)
(* again before the answer it had begun was noted in the session.          *)
OneAnswerAtATime ==
    odd \intersect {"overlap", "double"} = {} =>
        Cardinality({a \in Answers : gen[a].step \in {"save", "stream"}}) <= 1

(* The text of a finished answer is all its parts, each once and in their  *)
(* order, when its events were handled one by one in their order and none  *)
(* failed.  (It may lack some otherwise: each handler writes back the      *)
(* whole text it has read.)                                                *)
AnswerIsWhole ==
    \A a \in Answers \ raced : stored[a].stage = "DONE" => stored[a].text = [i \in 1 .. Parts |-> i]

(* A message of a user is answered, unless an answer, or the handling of   *)
(* one of its events, failed, or an answer overlapped with a message of    *)
(* the session or with another start: then a session can stay CONTINUING,  *)
(* which keeps all of them waiting, or lose its WAITING.                   *)
IsAnswered(c) ==
    pc[c] = "done" ~> odd # {} \/ \E a \in Answers : c \in gen[a].target /\ stored[a].stage = "DONE"
MessagesAreAnswered == \A c \in Calls : IsAnswered(c)
=============================================================================
