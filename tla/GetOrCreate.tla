----------------------------- MODULE GetOrCreate -----------------------------
(***************************************************************************)
(* What the README of the repository promises of a creation with a key     *)
(* ("Retry-safe team provisioning"), as one atomic step: the first request *)
(* to succeed makes the group, an identical one is answered with the same  *)
(* group, one that asks for something else under the key is rejected.  A   *)
(* group may be deleted, and a request may fail, with or without effect.   *)
(***************************************************************************)
CONSTANTS
    Calls,       \* the requests, which also name the groups they make
    Asks,        \* what a request may ask for: records [key, input]
    NoAsk,       \* what it asks for before it is made
    NoKey,       \* the key of a request that gives none
    Nothing, Conflict, Error    \* answers that name no group

VARIABLES
    groups,      \* the groups there are: records [id, key, input]
    ask,         \* what each request asks for
    answer       \* the answer given to each request

vars == <<groups, ask, answer>>

Init ==
    /\ groups = {}
    /\ ask = [c \in Calls |-> NoAsk]
    /\ answer = [c \in Calls |-> Nothing]

Answer(c, a) == answer' = [answer EXCEPT ![c] = a]

Request(c) ==
    /\ ask[c] = NoAsk
    /\ \E a \in Asks : ask' = [ask EXCEPT ![c] = a]
    /\ UNCHANGED <<groups, answer>>

Create(c) ==
    /\ ask[c] # NoAsk
    /\ ask[c].key = NoKey \/ \A g \in groups : g.key # ask[c].key
    /\ \A g \in groups : g.id # c
    /\ groups' = groups \union {[id |-> c, key |-> ask[c].key, input |-> ask[c].input]}
    /\ Answer(c, c) \/ UNCHANGED answer
    /\ UNCHANGED ask

Reuse(c) ==
    /\ ask[c].key # NoKey
    /\ \E g \in groups :
          /\ g.key = ask[c].key
          /\ Answer(c, IF g.input = ask[c].input THEN g.id ELSE Conflict)
    /\ UNCHANGED <<groups, ask>>

Fail(c) == Answer(c, Error) /\ UNCHANGED <<groups, ask>>

Delete == \E g \in groups : groups' = groups \ {g} /\ UNCHANGED <<ask, answer>>

Next ==
    \/ \E c \in Calls : Request(c)
    \/ \E c \in Calls : answer[c] = Nothing /\ (Create(c) \/ Reuse(c) \/ Fail(c))
    \/ Delete

Spec == Init /\ [][Next]_vars
=============================================================================
