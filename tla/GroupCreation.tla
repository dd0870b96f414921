---------------------------- MODULE GroupCreation ----------------------------
(***************************************************************************)
(* EntityOwnershipGroupService.createGroup: the creation of a team, which  *)
(* a client that got no answer repeats under the same creationKey.         *)
(*                                                                         *)
(* A request looks the key up, saves a new group when there is none, and,  *)
(* when the unique index refuses the save because a concurrent request was *)
(* faster, looks the key up again.  Requests run concurrently, their       *)
(* commands may fail before or after they took effect, their process may   *)
(* die, and groups are deleted meanwhile.                                  *)
(***************************************************************************)
CONSTANTS
    Calls,       \* the requests; a retry is a request like any other
    Users,
    CreationKeys,\* valid values of dto.creationKey
    NoKey,       \* dto.creationKey is undefined
    BadKey,      \* dto.creationKey is blank, too long or no string
    Inputs       \* name, description and initial capabilities

ASSUME Distinct == NoKey \notin Users \X CreationKeys /\ NoKey # BadKey
                   /\ {NoKey, BadKey} \cap CreationKeys = {}

VARIABLES
    groups,      \* the collection
    pc,          \* the next command of each request
    ask,         \* the arguments of each request
    answer,      \* the answer each request has given
    deleted      \* history: the ids of the groups deleted so far

vars == <<groups, pc, ask, answer, deleted>>

Nothing  == "nothing yet"
Conflict == "ConflictException"
Error    == "error"
Rejected == {Conflict, Error}

ASSUME Outcomes == Calls \cap {Nothing, Conflict, Error} = {} /\ Nothing \notin Inputs

(* sha256 of user and creationKey: two requests share a key when they are  *)
(* of the same user with the same creationKey.                             *)
Key == (Users \X CreationKeys) \union {NoKey}

Group == [id : Calls, key : Key, input : Inputs]
Ask   == [key : Key, input : Inputs]

NoAsk == [key |-> NoKey, input |-> Nothing]

TypeOK ==
    /\ groups \subseteq Group
    /\ pc \in [Calls -> {"unborn", "find", "save", "find again", "done"}]
    /\ ask \in [Calls -> Ask \union {NoAsk}]
    /\ answer \in [Calls -> Calls \union Rejected \union {Nothing}]
    /\ deleted \subseteq Calls

Init ==
    /\ groups = {}
    /\ pc = [c \in Calls |-> "unborn"]
    /\ ask = [c \in Calls |-> NoAsk]
    /\ answer = [c \in Calls |-> Nothing]
    /\ deleted = {}

Goto(c, step) == pc' = [pc EXCEPT ![c] = step]

Reply(c, a) == answer' = [answer EXCEPT ![c] = a] /\ Goto(c, "done")

-----------------------------------------------------------------------------
Arrive(c) ==
    /\ pc[c] = "unborn"
    /\ \E u \in Users, k \in CreationKeys \union {NoKey, BadKey}, input \in Inputs :
          IF k = BadKey
          THEN Reply(c, Error) /\ UNCHANGED ask
          ELSE /\ ask' = [ask EXCEPT ![c] =
                             [key |-> IF k = NoKey THEN NoKey ELSE <<u, k>>, input |-> input]]
               /\ Goto(c, IF k = NoKey THEN "save" ELSE "find")
               /\ UNCHANGED answer
    /\ UNCHANGED <<groups, deleted>>

OfKey(k) == {g \in groups : g.key = k}

(* reuse: a group of the key is the answer if it was made from this input. *)
Reuse(c, g) == Reply(c, IF g.input = ask[c].input THEN g.id ELSE Conflict)

Find(c) ==
    /\ pc[c] = "find"
    /\ \/ \E g \in OfKey(ask[c].key) : Reuse(c, g)
       \/ OfKey(ask[c].key) = {} /\ Goto(c, "save") /\ UNCHANGED answer
    /\ UNCHANGED <<groups, ask, deleted>>

Insert(c) == groups' = groups \union {[id |-> c, key |-> ask[c].key, input |-> ask[c].input]}

Save(c) ==
    /\ pc[c] = "save"
    /\ \/ /\ ask[c].key = NoKey \/ OfKey(ask[c].key) = {}
          /\ Insert(c) /\ Reply(c, c)
       \/ /\ ask[c].key # NoKey /\ OfKey(ask[c].key) # {}    \* error.code 11000
          /\ Goto(c, "find again")
          /\ UNCHANGED <<groups, answer>>
    /\ UNCHANGED <<ask, deleted>>

FindAgain_Refuse(c) ==          \* bug: whoever comes second conflicts
    /\ pc[c] = "find again"
    /\ Reply(c, IF OfKey(ask[c].key) = {} THEN Error ELSE Conflict)
    /\ UNCHANGED <<groups, ask, deleted>>

FindAgain(c) ==
    /\ pc[c] = "find again"
    /\ \/ \E g \in OfKey(ask[c].key) : Reuse(c, g)
       \/ OfKey(ask[c].key) = {} /\ Reply(c, Error)
    /\ UNCHANGED <<groups, ask, deleted>>

-----------------------------------------------------------------------------
(* The process dies or the connection breaks: no answer, for ever ...      *)
Lose(c) ==
    /\ pc[c] \in {"find", "save", "find again"}
    /\ Goto(c, "done")
    /\ UNCHANGED <<groups, ask, answer, deleted>>

(* ... and the save may have been carried out all the same.                *)
LoseAfterSave(c) ==
    /\ pc[c] = "save"
    /\ ask[c].key = NoKey \/ OfKey(ask[c].key) = {}
    /\ Insert(c)
    /\ Goto(c, "done")
    /\ UNCHANGED <<ask, answer, deleted>>

(* deleteGroup, by another request.                                        *)
Delete(g) ==
    /\ groups' = groups \ {g}
    /\ deleted' = deleted \union {g.id}
    /\ UNCHANGED <<pc, ask, answer>>

Next ==
    \/ \E c \in Calls : \/ Arrive(c) \/ Find(c) \/ Save(c) \/ FindAgain(c)
                        \/ Lose(c) \/ LoseAfterSave(c)
    \/ \E g \in groups : Delete(g)

Spec == Init /\ [][Next]_vars

-----------------------------------------------------------------------------
(* Answered with a group.                                                  *)
Served(c) == answer[c] \in Calls

(* "Identical retries return the same group": of two groups given to       *)
(* requests of one user for one key, one has been deleted; so a client     *)
(* that repeats a request never ends up with two teams.                    *)
SameGroup ==
    \A c, d \in Calls :
        (Served(c) /\ Served(d) /\ ask[c].key = ask[d].key /\ ask[c].key # NoKey)
        => answer[c] = answer[d] \/ {answer[c], answer[d]} \cap deleted # {}

(* The group a request is given is, or was until it was deleted, one made  *)
(* by the same user under the same key from the same input: "Reusing a key *)
(* with different name/description/initial capabilities is rejected".      *)
GivenWhatWasAsked ==
    \A c \in Calls : Served(c) =>
        /\ ask[answer[c]] = ask[c]
        /\ answer[c] \in deleted \/ \E g \in groups : g.id = answer[c]

(* A request that is told of an error by the service (not of a failure on  *)
(* the way) had a bad key, or met a deletion of the group it raced with.   *)
ErrorsExplained ==
    \A c \in Calls : answer[c] = Error =>
        \/ ask[c] = NoAsk
        \/ \E d \in deleted : ask[d].key = ask[c].key

(* Together: one atomic get-or-create.                                     *)
Promise == INSTANCE GetOrCreate WITH Asks <- Ask
ImplementsGetOrCreate == Promise!Spec
=============================================================================
