------------------------- MODULE SmallPartsProofs -------------------------
(***************************************************************************)
(* Proofs about SmallParts, for any number of requests, tasks, workers,    *)
(* messages, answers and subjects: a section per component, each with the  *)
(* inductive invariant it needs, and at the end what follows of PartsSpec. *)
(*                                                                         *)
(* GroupCreation first.  Its invariant says what the unique index          *)
(* guarantees, that a group carries what its request asked for, and that a *)
(* request still on its way has made no group and given no answer.         *)
(***************************************************************************)
EXTENDS SmallParts, SequenceTheorems, FiniteSetTheorems, TLAPS

UniqueKeys == \A g, h \in groups : (g.key = h.key /\ g.key # NoKey) => g = h

MadeAsAsked == \A g \in groups : ask[g.id] = [key |-> g.key, input |-> g.input]

OneOfEachId == \A g, h \in groups : g.id = h.id => g = h

(* A request on its way: its group is yet to be made.                      *)
Fresh ==
    \A c \in Calls : pc[c] # "done" =>
        /\ answer[c] = Nothing
        /\ c \notin deleted
        /\ \A g \in groups : g.id # c

Asked ==
    \A c \in Calls :
        /\ pc[c] = "unborn" => ask[c] = NoAsk
        /\ pc[c] \in {"find", "save", "find again"} => ask[c] \in Ask
        /\ pc[c] \in {"find", "find again"} => ask[c].key # NoKey

RaceLost ==
    \A c \in Calls : pc[c] = "find again" =>
        \/ \E g \in groups : g.key = ask[c].key
        \/ \E d \in deleted : ask[d].key = ask[c].key

IInv == /\ TypeOK /\ UniqueKeys /\ MadeAsAsked /\ OneOfEachId /\ Fresh /\ Asked /\ RaceLost
        /\ GivenWhatWasAsked /\ ErrorsExplained

USE DEF Nothing, Conflict, Error, Rejected

-----------------------------------------------------------------------------
LEMMA Starting == Init => IInv
<1> QED BY Distinct, Outcomes
        DEF Init, IInv, TypeOK, UniqueKeys, MadeAsAsked, OneOfEachId, Fresh, Asked, RaceLost,
            GivenWhatWasAsked, ErrorsExplained, Served, OfKey, NoAsk

LEMMA Arriving ==
  ASSUME NEW c \in Calls, IInv, Arrive(c)
  PROVE  IInv'
<1>1. /\ pc[c] = "unborn" /\ UNCHANGED <<groups, deleted>> /\ ask[c] = NoAsk
      /\ \/ Reply(c, Error) /\ UNCHANGED ask
         \/ \E a \in Ask, s \in {"find", "save"} :
               /\ ask' = [ask EXCEPT ![c] = a] /\ Goto(c, s) /\ UNCHANGED answer
               /\ s = "find" => a.key # NoKey
  <2>1. PICK u \in Users, k \in CreationKeys \union {NoKey, BadKey}, input \in Inputs :
          IF k = BadKey
          THEN Reply(c, Error) /\ UNCHANGED ask
          ELSE /\ ask' = [ask EXCEPT ![c] =
                             [key |-> IF k = NoKey THEN NoKey ELSE <<u, k>>, input |-> input]]
               /\ Goto(c, IF k = NoKey THEN "save" ELSE "find")
               /\ UNCHANGED answer
    BY DEF Arrive
  <2>2. CASE k = BadKey
    BY <2>1, <2>2 DEF Arrive, IInv, Asked
  <2>3. CASE k = NoKey
    <3>1. [key |-> NoKey, input |-> input] \in Ask
      BY DEF Ask, Key
    <3> QED BY <2>1, <2>3, <3>1, Distinct DEF Arrive, IInv, Asked
  <2>4. CASE k \in CreationKeys
    <3>1. [key |-> <<u, k>>, input |-> input] \in Ask /\ <<u, k>> # NoKey
      BY <2>4, Distinct DEF Ask, Key
    <3> QED BY <2>1, <2>4, <3>1, Distinct DEF Arrive, IInv, Asked
  <2> QED BY <2>2, <2>3, <2>4
<1>2. TypeOK'
  BY <1>1 DEF IInv, TypeOK, Goto, Reply
<1>3. \A d \in Calls : d # c => pc'[d] = pc[d] /\ ask'[d] = ask[d] /\ answer'[d] = answer[d]
  BY <1>1 DEF IInv, TypeOK, Goto, Reply
<1>4. \A g \in groups : g.id # c /\ g.id \in Calls
  BY <1>1 DEF IInv, Fresh, TypeOK, Group
<1>5. c \notin deleted /\ answer[c] = Nothing /\ deleted \subseteq Calls
  BY <1>1 DEF IInv, Fresh, TypeOK
<1>6. (UniqueKeys /\ OneOfEachId /\ MadeAsAsked)'
  BY <1>1, <1>3, <1>4 DEF IInv, UniqueKeys, OneOfEachId, MadeAsAsked
<1>7. /\ groups' = groups /\ deleted' = deleted
      /\ \/ pc'[c] = "done" /\ ask'[c] = ask[c]
         \/ /\ pc'[c] \in {"find", "save"} /\ ask'[c] \in Ask /\ answer'[c] = Nothing
            /\ pc'[c] = "find" => ask'[c].key # NoKey
  BY <1>1, <1>5 DEF IInv, TypeOK, Goto, Reply
<1>8. (Fresh /\ Asked /\ RaceLost)'
  <2>1. Fresh'
    BY <1>3, <1>4, <1>5, <1>7 DEF IInv, Fresh
  <2>2. Asked'
    BY <1>3, <1>7 DEF IInv, Asked
  <2>3. RaceLost'
    <3> SUFFICES ASSUME NEW d \in Calls, pc'[d] = "find again",
                        \A e \in deleted : ask'[e].key # ask'[d].key
                 PROVE  \E g \in groups : g.key = ask'[d].key
      BY <1>7 DEF RaceLost
    <3>1. d # c /\ pc[d] = "find again" /\ ask'[d] = ask[d]
      BY <1>3, <1>7
    <3>2. \A e \in deleted : ask[e].key # ask[d].key
      BY <1>3, <1>5, <3>1
    <3> QED BY <1>7, <3>1, <3>2 DEF IInv, RaceLost
  <2> QED BY <2>1, <2>2, <2>3
<1>9. answer'[c] \in {Nothing, Error} /\ (answer'[c] = Error => ask'[c] = NoAsk)
  BY <1>1, <1>5 DEF IInv, TypeOK, Reply
<1>10. \A d \in Calls : answer[d] # c
  BY <1>4, <1>5 DEF IInv, GivenWhatWasAsked, Served
<1>11. GivenWhatWasAsked'
  <2> SUFFICES ASSUME NEW d \in Calls, answer'[d] \in Calls
               PROVE  /\ ask'[answer'[d]] = ask'[d]
                      /\ answer'[d] \in deleted \/ \E g \in groups : g.id = answer'[d]
    BY <1>7 DEF GivenWhatWasAsked, Served
  <2>1. d # c /\ answer'[d] = answer[d] /\ ask'[d] = ask[d] /\ answer[d] # c
    BY <1>3, <1>9, <1>10, Outcomes
  <2> QED BY <1>3, <2>1 DEF IInv, GivenWhatWasAsked, Served
<1>12. ErrorsExplained'
  BY <1>1, <1>3, <1>5, <1>9 DEF IInv, ErrorsExplained
<1> QED BY <1>2, <1>6, <1>8, <1>11, <1>12 DEF IInv

(* What request c may be answered: a group of its key and input, a         *)
(* rejection, an error if the group of its key was deleted.                *)
Warranted(c, a) ==
    \/ \E g \in groups : a = g.id /\ ask[c] = [key |-> g.key, input |-> g.input]
    \/ a \in {Nothing, Conflict}
    \/ a = Error /\ \E d \in deleted : ask[d].key = ask[c].key

(* A request that answers, changing nothing else.                          *)
LEMMA Answering ==
  ASSUME NEW c \in Calls, IInv, pc[c] # "done", NEW a,
         pc' = [pc EXCEPT ![c] = "done"], answer' = [answer EXCEPT ![c] = a],
         UNCHANGED <<groups, ask, deleted>>,
         Warranted(c, a)
  PROVE  IInv'
<1>1. a \in Calls \union Rejected \union {Nothing}
  BY DEF IInv, TypeOK, Group, Warranted
<1>2. TypeOK'
  BY <1>1 DEF IInv, TypeOK
<1>3. /\ answer'[c] = a /\ pc'[c] = "done"
      /\ \A d \in Calls : d # c => answer'[d] = answer[d] /\ pc'[d] = pc[d]
      /\ groups' = groups /\ ask' = ask /\ deleted' = deleted
  BY DEF IInv, TypeOK
<1>4. (UniqueKeys /\ OneOfEachId /\ MadeAsAsked)'
  BY DEF IInv, UniqueKeys, OneOfEachId, MadeAsAsked
<1>5. (Fresh /\ Asked /\ RaceLost)'
  <2>1. Fresh'
    BY <1>3 DEF IInv, Fresh
  <2>2. Asked'
    BY <1>3 DEF IInv, Asked
  <2>3. RaceLost'
    <3> SUFFICES ASSUME NEW d \in Calls, pc'[d] = "find again"
                 PROVE  \/ \E g \in groups : g.key = ask[d].key
                        \/ \E e \in deleted : ask[e].key = ask[d].key
      BY <1>3 DEF RaceLost
    <3>1. pc[d] = "find again"
      BY <1>3
    <3> QED BY <3>1 DEF IInv, RaceLost
  <2> QED BY <2>1, <2>2, <2>3
<1>7. GivenWhatWasAsked'
  <2> SUFFICES ASSUME NEW d \in Calls, answer'[d] \in Calls
               PROVE  /\ ask[answer'[d]] = ask[d]
                      /\ answer'[d] \in deleted \/ \E g \in groups : g.id = answer'[d]
    BY DEF GivenWhatWasAsked, Served
  <2>1. CASE d = c
    <3>0. a \notin {Nothing, Conflict, Error}
      BY <1>3, <2>1, Outcomes
    <3>1. PICK g \in groups : a = g.id /\ ask[c] = [key |-> g.key, input |-> g.input]
      BY <3>0 DEF Warranted
    <3>2. ask[g.id] = ask[c]
      BY <3>1 DEF IInv, MadeAsAsked
    <3> QED BY <1>3, <2>1, <3>1, <3>2
  <2>2. CASE d # c
    BY <1>3, <2>2 DEF IInv, GivenWhatWasAsked, Served
  <2> QED BY <2>1, <2>2
<1>6. ErrorsExplained'
  <2> SUFFICES ASSUME NEW d \in Calls, answer'[d] = Error
               PROVE  ask[d] = NoAsk \/ \E e \in deleted : ask[e].key = ask[d].key
    BY <1>3 DEF ErrorsExplained
  <2>1. CASE d = c
    <3>1. \A g \in groups : g.id # Error
      BY Outcomes DEF IInv, TypeOK, Group
    <3>2. a = Error
      BY <1>3, <2>1
    <3>3. ~ \E g \in groups : a = g.id /\ ask[c] = [key |-> g.key, input |-> g.input]
      BY <3>1, <3>2
    <3>4. \E e \in deleted : ask[e].key = ask[c].key
      BY <3>2, <3>3 DEF Warranted
    <3> QED BY <2>1, <3>4
  <2>2. CASE d # c
    BY <1>3, <2>2 DEF IInv, ErrorsExplained
  <2> QED BY <2>1, <2>2
<1> QED BY <1>2, <1>4, <1>5, <1>6, <1>7 DEF IInv

(* A request that goes on to another step.                                 *)
LEMMA GoingOn ==
  ASSUME NEW c \in Calls, IInv, pc[c] # "done", NEW s \in {"save", "find again"},
         pc' = [pc EXCEPT ![c] = s], UNCHANGED <<groups, ask, answer, deleted>>,
         ask[c] \in Ask,
         s = "find again" => ask[c].key # NoKey /\ OfKey(ask[c].key) # {}
  PROVE  IInv'
<1>1. TypeOK'
  BY DEF IInv, TypeOK
<1>2. /\ pc'[c] = s /\ \A d \in Calls : d # c => pc'[d] = pc[d]
      /\ groups' = groups /\ ask' = ask /\ answer' = answer /\ deleted' = deleted
  BY DEF IInv, TypeOK
<1>3. (UniqueKeys /\ OneOfEachId /\ MadeAsAsked)'
  BY DEF IInv, UniqueKeys, OneOfEachId, MadeAsAsked
<1>4. Fresh'
  BY <1>2 DEF IInv, Fresh
<1>5. Asked'
  BY <1>2 DEF IInv, Asked
<1>6. s = "find again" => \E g \in groups : g.key = ask[c].key
  BY DEF OfKey
<1>7. RaceLost'
  BY <1>2, <1>6 DEF IInv, RaceLost
<1>8. (GivenWhatWasAsked /\ ErrorsExplained)'
  BY DEF IInv, GivenWhatWasAsked, ErrorsExplained, Served
<1> QED BY <1>1, <1>3, <1>4, <1>5, <1>7, <1>8 DEF IInv

(* A save that takes effect, whether its reply arrives or not.             *)
LEMMA Saving ==
  ASSUME NEW c \in Calls, IInv, pc[c] = "save",
         ask[c].key = NoKey \/ OfKey(ask[c].key) = {},
         Insert(c), Reply(c, c) \/ (Goto(c, "done") /\ UNCHANGED answer),
         UNCHANGED <<ask, deleted>>
  PROVE  IInv'
<1> DEFINE g == [id |-> c, key |-> ask[c].key, input |-> ask[c].input]
<1>1. ask[c] \in Ask /\ g \in Group
  BY DEF IInv, Asked, Ask, Group
<1>2. /\ g.id = c /\ g.key = ask[c].key /\ g.input = ask[c].input
      /\ ask[c] = [key |-> g.key, input |-> g.input]
  BY <1>1 DEF Ask
<1>3. groups' = groups \union {g}
  BY DEF Insert
<1> HIDE DEF g
<1>4. /\ answer[c] = Nothing /\ c \notin deleted /\ \A h \in groups : h.id # c
      /\ \A h \in groups : g.key = NoKey \/ h.key # g.key
  BY <1>2 DEF IInv, Fresh, OfKey
<1>5. /\ pc' = [pc EXCEPT ![c] = "done"]
      /\ \A d \in Calls : answer'[d] = answer[d] \/ (d = c /\ answer'[d] = c)
  BY DEF IInv, TypeOK, Reply, Goto
<1>6. TypeOK'
  BY <1>1, <1>3 DEF IInv, TypeOK, Reply, Goto
<1>7. (UniqueKeys /\ OneOfEachId)'
  BY <1>2, <1>3, <1>4 DEF IInv, UniqueKeys, OneOfEachId
<1>8. MadeAsAsked'
  BY <1>2, <1>3 DEF IInv, MadeAsAsked
<1>9. (Fresh /\ Asked /\ RaceLost)'
  <2>1. /\ pc'[c] = "done" /\ \A d \in Calls : d # c => pc'[d] = pc[d] /\ answer'[d] = answer[d]
        /\ ask' = ask /\ deleted' = deleted
    BY <1>5 DEF IInv, TypeOK
  <2>2. Fresh'
    BY <1>2, <1>3, <2>1 DEF IInv, Fresh
  <2>3. Asked'
    BY <2>1 DEF IInv, Asked
  <2>4. RaceLost'
    <3> SUFFICES ASSUME NEW d \in Calls, pc'[d] = "find again",
                        \A e \in deleted : ask[e].key # ask[d].key
                 PROVE  \E h \in groups' : h.key = ask[d].key
      BY <2>1 DEF RaceLost
    <3>1. PICK h \in groups : h.key = ask[d].key
      BY <2>1 DEF IInv, RaceLost
    <3> QED BY <1>3, <3>1
  <2> QED BY <2>2, <2>3, <2>4
<1>10. GivenWhatWasAsked'
  BY <1>2, <1>3, <1>5 DEF IInv, GivenWhatWasAsked, Served
<1>11. ErrorsExplained'
  BY <1>5, Outcomes DEF IInv, ErrorsExplained
<1> QED BY <1>6, <1>7, <1>8, <1>9, <1>10, <1>11 DEF IInv

LEMMA Deleting ==
  ASSUME NEW g \in groups, IInv, Delete(g)
  PROVE  IInv'
<1>1. g.id \in Calls
  BY DEF IInv, TypeOK, Group
<1>2. TypeOK'
  BY <1>1 DEF IInv, TypeOK, Delete
<1>3. (UniqueKeys /\ OneOfEachId /\ MadeAsAsked /\ Fresh /\ Asked)'
  BY DEF IInv, Delete, UniqueKeys, OneOfEachId, MadeAsAsked, Fresh, Asked
<1>4. RaceLost'
  <2>1. ask[g.id].key = g.key
    <3>1. ask[g.id] = [key |-> g.key, input |-> g.input]
      BY DEF IInv, MadeAsAsked
    <3> QED BY <3>1
  <2>2. /\ groups' = groups \ {g} /\ deleted' = deleted \union {g.id}
        /\ pc' = pc /\ ask' = ask
    BY DEF Delete
  <2> QED BY <2>1, <2>2 DEF IInv, RaceLost
<1>5. (GivenWhatWasAsked /\ ErrorsExplained)'
  BY DEF IInv, Delete, GivenWhatWasAsked, ErrorsExplained, Served
<1> QED BY <1>2, <1>3, <1>4, <1>5 DEF IInv

(* reuse answers with the group if it is what was asked for.               *)
LEMMA Reusing ==
  ASSUME NEW c \in Calls, IInv, pc[c] \in {"find", "find again"},
         NEW g \in OfKey(ask[c].key), Reuse(c, g), UNCHANGED <<groups, ask, deleted>>
  PROVE  IInv'
<1>1. ask[c] \in Ask /\ g \in groups /\ g.key = ask[c].key
  BY DEF IInv, Asked, OfKey
<1>2. g.input = ask[c].input => ask[c] = [key |-> g.key, input |-> g.input]
  BY <1>1 DEF Ask
<1> QED BY <1>1, <1>2, Answering DEF Reuse, Reply, Goto, Warranted

LEMMA Inductive == IInv /\ [Next]_vars => IInv'
<1> SUFFICES ASSUME IInv, [Next]_vars PROVE IInv'
  OBVIOUS
<1>1. CASE UNCHANGED vars
  <2> USE <1>1 DEF vars
  <2>1. (TypeOK /\ UniqueKeys /\ MadeAsAsked /\ OneOfEachId)'
    BY DEF IInv, TypeOK, UniqueKeys, MadeAsAsked, OneOfEachId
  <2>2. (Fresh /\ Asked)'
    BY DEF IInv, Fresh, Asked
  <2>3. RaceLost'
    BY DEF IInv, RaceLost
  <2>4. (GivenWhatWasAsked /\ ErrorsExplained)'
    BY DEF IInv, GivenWhatWasAsked, ErrorsExplained, Served
  <2> QED BY <2>1, <2>2, <2>3, <2>4 DEF IInv
<1>2. ASSUME NEW c \in Calls, Arrive(c) PROVE IInv'
  BY <1>2, Arriving
<1>3. ASSUME NEW c \in Calls, Find(c) PROVE IInv'
  <2>1. CASE \E g \in OfKey(ask[c].key) : Reuse(c, g)
    BY <1>3, <2>1, Reusing DEF Find
  <2>2. CASE Goto(c, "save") /\ UNCHANGED answer
    <3>1. ask[c] \in Ask /\ pc[c] # "done"
      BY <1>3 DEF Find, IInv, Asked
    <3> QED BY <1>3, <2>2, <3>1, GoingOn DEF Find, Goto
  <2> QED BY <1>3, <2>1, <2>2 DEF Find
<1>4. ASSUME NEW c \in Calls, Save(c) PROVE IInv'
  <2>0. pc[c] = "save" /\ UNCHANGED <<ask, deleted>>
    BY <1>4 DEF Save
  <2>1. CASE (ask[c].key = NoKey \/ OfKey(ask[c].key) = {}) /\ Insert(c) /\ Reply(c, c)
    BY <2>0, <2>1, Saving
  <2>2. CASE /\ ask[c].key # NoKey /\ OfKey(ask[c].key) # {}
             /\ Goto(c, "find again") /\ UNCHANGED <<groups, answer>>
    <3>1. ask[c] \in Ask /\ pc[c] # "done" /\ ask[c].key # NoKey /\ OfKey(ask[c].key) # {}
      BY <2>0, <2>2 DEF IInv, Asked
    <3> QED BY <2>0, <2>2, <3>1, GoingOn DEF Goto
  <2> QED BY <1>4, <2>1, <2>2 DEF Save
<1>5. ASSUME NEW c \in Calls, FindAgain(c) PROVE IInv'
  <2>1. CASE \E g \in OfKey(ask[c].key) : Reuse(c, g)
    BY <1>5, <2>1, Reusing DEF FindAgain
  <2>2. CASE OfKey(ask[c].key) = {} /\ Reply(c, Error)
    <3>1. \E d \in deleted : ask[d].key = ask[c].key
      BY <1>5, <2>2 DEF IInv, RaceLost, FindAgain, OfKey
    <3> QED BY <1>5, <2>2, <3>1, Answering DEF FindAgain, Reply, Goto, Warranted
  <2> QED BY <1>5, <2>1, <2>2 DEF FindAgain
<1>6. ASSUME NEW c \in Calls, Lose(c) PROVE IInv'
  <2>1. answer[c] = Nothing /\ answer' = [answer EXCEPT ![c] = Nothing]
    BY <1>6 DEF Lose, IInv, Fresh, TypeOK
  <2> QED BY <1>6, <2>1, Answering DEF Lose, Goto, Warranted
<1>7. ASSUME NEW c \in Calls, LoseAfterSave(c) PROVE IInv'
  BY <1>7, Saving DEF LoseAfterSave
<1>8. ASSUME NEW g \in groups, Delete(g) PROVE IInv'
  BY <1>8, Deleting
<1> QED BY <1>1, <1>2, <1>3, <1>4, <1>5, <1>6, <1>7, <1>8 DEF Next

-----------------------------------------------------------------------------
THEOREM Invariance == Spec => []IInv
<1> QED BY Starting, Inductive, PTL DEF Spec

(* The variables stay in their types.                                      *)
THEOREM TypeCorrect == Spec => []TypeOK
<1>1. IInv => TypeOK
  BY DEF IInv
<1> QED BY <1>1, Invariance, PTL

(* A request is only ever given a group made from what it asked for.       *)
THEOREM Faithful == Spec => []GivenWhatWasAsked
<1>1. IInv => GivenWhatWasAsked
  BY DEF IInv
<1> QED BY <1>1, Invariance, PTL

(* Retries and concurrent duplicates are given one and the same group.     *)
THEOREM Idempotent == Spec => []SameGroup
<1>1. IInv => SameGroup
  <2> SUFFICES ASSUME IInv, NEW c \in Calls, NEW d \in Calls, Served(c), Served(d),
                      ask[c].key = ask[d].key, ask[c].key # NoKey,
                      answer[c] \notin deleted, answer[d] \notin deleted
               PROVE  answer[c] = answer[d]
    BY DEF SameGroup
  <2>0. ASSUME NEW g \in groups PROVE ask[g.id].key = g.key
    <3>1. ask[g.id] = [key |-> g.key, input |-> g.input]
      BY DEF IInv, MadeAsAsked
    <3> QED BY <3>1
  <2>1. PICK g \in groups : g.id = answer[c] /\ g.key = ask[c].key
    BY <2>0 DEF IInv, GivenWhatWasAsked
  <2>2. PICK h \in groups : h.id = answer[d] /\ h.key = ask[d].key
    BY <2>0 DEF IInv, GivenWhatWasAsked
  <2> QED BY <2>1, <2>2 DEF IInv, UniqueKeys
<1> QED BY <1>1, Invariance, PTL

(* The service only reports an error of its own for a bad key or when the  *)
(* group of the key was deleted.                                           *)
THEOREM ErrorsHaveReasons == Spec => []ErrorsExplained
<1>1. IInv => ErrorsExplained
  BY DEF IInv
<1> QED BY <1>1, Invariance, PTL

-----------------------------------------------------------------------------
(* find, save and find again together are one atomic get-or-create.        *)
LEMMA StepsRefine == IInv /\ [Next]_vars => [Promise!Next]_(Promise!vars)
<1> SUFFICES ASSUME IInv, Next PROVE Promise!Next \/ UNCHANGED Promise!vars
  BY DEF vars, Promise!vars
<1> USE DEF Promise!Next, Promise!vars, Promise!Answer
<1>1. ASSUME NEW c \in Calls, Arrive(c) PROVE Promise!Next
  <2>1. PICK u \in Users, k \in CreationKeys \union {NoKey, BadKey}, input \in Inputs :
          IF k = BadKey
          THEN Reply(c, Error) /\ UNCHANGED ask
          ELSE /\ ask' = [ask EXCEPT ![c] =
                             [key |-> IF k = NoKey THEN NoKey ELSE <<u, k>>, input |-> input]]
               /\ Goto(c, IF k = NoKey THEN "save" ELSE "find")
               /\ UNCHANGED answer
    BY <1>1 DEF Arrive
  <2>2. ask[c] = NoAsk /\ answer[c] = Nothing /\ UNCHANGED groups
    BY <1>1 DEF Arrive, IInv, Asked, Fresh
  <2>3. CASE k = BadKey
    BY <2>1, <2>2, <2>3 DEF Promise!Fail, Reply
  <2>4. CASE k # BadKey
    <3>1. [key |-> IF k = NoKey THEN NoKey ELSE <<u, k>>, input |-> input] \in Ask
      BY <2>4 DEF Ask, Key
    <3> QED BY <2>1, <2>2, <2>4, <3>1 DEF Promise!Request
  <2> QED BY <2>3, <2>4
<1>2. ASSUME NEW c \in Calls, NEW g \in OfKey(ask[c].key), pc[c] \in {"find", "find again"},
             Reuse(c, g), UNCHANGED <<groups, ask>>
      PROVE  Promise!Next
  <2>1. answer[c] = Nothing /\ ask[c].key # NoKey /\ g \in groups /\ g.key = ask[c].key
    BY <1>2 DEF IInv, Fresh, Asked, OfKey
  <2> QED BY <1>2, <2>1 DEF Promise!Reuse, Reuse, Reply
<1>3. ASSUME NEW c \in Calls, Find(c) PROVE Promise!Next \/ UNCHANGED Promise!vars
  BY <1>2, <1>3 DEF Find
<1>4. ASSUME NEW c \in Calls, pc[c] = "save", Insert(c),
             ask[c].key = NoKey \/ OfKey(ask[c].key) = {},
             Reply(c, c) \/ UNCHANGED answer, UNCHANGED ask
      PROVE  Promise!Next
  <2>1. answer[c] = Nothing /\ \A g \in groups : g.id # c
    BY <1>4 DEF IInv, Fresh
  <2>2. ask[c] # NoAsk
    <3>1. ask[c] \in Ask
      BY <1>4 DEF IInv, Asked
    <3>2. ask[c].input \in Inputs
      BY <3>1 DEF Ask
    <3>3. NoAsk.input = Nothing
      BY DEF NoAsk
    <3> QED BY <3>2, <3>3, Outcomes
  <2> QED BY <1>4, <2>1, <2>2 DEF Promise!Create, Insert, OfKey, Reply
<1>5. ASSUME NEW c \in Calls, Save(c) PROVE Promise!Next \/ UNCHANGED Promise!vars
  BY <1>4, <1>5 DEF Save
<1>6. ASSUME NEW c \in Calls, FindAgain(c) PROVE Promise!Next
  <2>1. answer[c] = Nothing
    BY <1>6 DEF FindAgain, IInv, Fresh
  <2> QED BY <1>2, <1>6, <2>1 DEF FindAgain, Promise!Fail, Reply
<1>7. ASSUME NEW c \in Calls, Lose(c) PROVE UNCHANGED Promise!vars
  BY <1>7 DEF Lose
<1>8. ASSUME NEW c \in Calls, LoseAfterSave(c) PROVE Promise!Next
  BY <1>4, <1>8 DEF LoseAfterSave
<1>9. ASSUME NEW g \in groups, Delete(g) PROVE Promise!Next
  BY <1>9 DEF Delete, Promise!Delete
<1> QED BY <1>1, <1>3, <1>5, <1>6, <1>7, <1>8, <1>9 DEF Next

(* createGroup keeps the promise of the README.                            *)
THEOREM Refinement == Spec => ImplementsGetOrCreate
<1>1. Init => Promise!Init
  BY DEF Init, Promise!Init
<1> QED BY <1>1, StepsRefine, Invariance, PTL DEF Spec, ImplementsGetOrCreate, Promise!Spec

-----------------------------------------------------------------------------
NoWaiterLost ==
    /\ IsInjective(waiters)
    /\ Range(waiters) = {t \in Tasks : phase[t] = "waiting"}
    /\ busy <=> Mutex!Running # {}
    /\ waiters # <<>> => busy

MutexInv == Mutex!TypeOK /\ Mutex!OneAtATime /\ NoWaiterLost

-----------------------------------------------------------------------------
(* Appending a new element to an injective sequence keeps it injective and *)
(* adds the element to its range.                                          *)
LEMMA AppendNew ==
    ASSUME NEW S, NEW s \in Seq(S), NEW x \in S, IsInjective(s), x \notin Range(s)
    PROVE  /\ IsInjective(Append(s, x))
           /\ Range(Append(s, x)) = Range(s) \union {x}
           /\ Append(s, x) \in Seq(S)
<1> DEFINE a == Append(s, x)
<1>1. /\ a \in Seq(S)
      /\ Len(s) \in Nat /\ DOMAIN s = 1..Len(s)
      /\ DOMAIN a = 1..(Len(s) + 1)
      /\ \A i \in 1..Len(s) : a[i] = s[i]
      /\ a[Len(s) + 1] = x
  BY AppendProperties
<1>2. \A i \in 1..(Len(s) + 1) : i \in 1..Len(s) \/ i = Len(s) + 1
  BY <1>1
<1>3. \A i \in 1..Len(s) : s[i] # x
  BY <1>1 DEF Range
<1>4. IsInjective(a)
  BY <1>1, <1>2, <1>3 DEF IsInjective
<1>5. Range(a) \subseteq Range(s) \union {x}
  BY <1>1, <1>2 DEF Range
<1>6. Range(s) \subseteq Range(a)
  BY <1>1 DEF Range
<1>7. x \in Range(a)
  BY <1>1 DEF Range
<1>8. QED
  BY <1>1, <1>4, <1>5, <1>6, <1>7

(* Taking the head off an injective sequence keeps it injective and takes  *)
(* exactly the head out of its range.                                      *)
LEMMA TailOld ==
    ASSUME NEW S, NEW s \in Seq(S), IsInjective(s), s # <<>>
    PROVE  /\ IsInjective(Tail(s))
           /\ Range(Tail(s)) = Range(s) \ {Head(s)}
           /\ Head(s) \in Range(s)
           /\ Head(s) \in S
           /\ Tail(s) \in Seq(S)
<1>1. /\ Tail(s) \in Seq(S) /\ Head(s) \in S
      /\ Len(Tail(s)) = Len(s) - 1
      /\ Head(s) = s[1] /\ 1 \in 1..Len(s)
      /\ DOMAIN s = 1..Len(s) /\ Len(s) \in Nat
      /\ DOMAIN Tail(s) = 1..(Len(s) - 1)
      /\ \A i \in 1..(Len(s) - 1) : Tail(s)[i] = s[i + 1]
  BY HeadTailProperties, EmptySeq
<1>2. IsInjective(Tail(s))
  BY <1>1 DEF IsInjective
<1>3. Range(Tail(s)) \subseteq Range(s) \ {Head(s)}
  BY <1>1 DEF IsInjective, Range
<1>4. ASSUME NEW x \in Range(s) \ {Head(s)}
      PROVE  x \in Range(Tail(s))
  <2>1. PICK i \in 1..Len(s) : x = s[i]
    BY <1>1 DEF Range
  <2>2. i - 1 \in 1..(Len(s) - 1) /\ Tail(s)[i - 1] = x
    BY <1>1, <2>1
  <2>3. QED
    BY <1>1, <2>2 DEF Range
<1>5. QED
  BY <1>1, <1>2, <1>3, <1>4 DEF Range

-----------------------------------------------------------------------------
(* The invariant is inductive.                                             *)
LEMMA MutexStarts == Mutex!Init => MutexInv
<1> SUFFICES ASSUME Mutex!Init PROVE MutexInv
  OBVIOUS
<1>1. Mutex!Running = {} /\ {t \in Tasks : phase[t] = "waiting"} = {}
  BY DEF Mutex!Init, Mutex!Running
<1>2. IsInjective(waiters) /\ Range(waiters) = {} /\ waiters \in Seq(Tasks)
  BY DEF Mutex!Init, IsInjective, Range
<1>3. QED
  BY <1>1, <1>2 DEF Mutex!Init, MutexInv, Mutex!TypeOK, Mutex!OneAtATime, NoWaiterLost, Mutex!Phases

LEMMA RunKeepsMutex ==
    ASSUME MutexInv, NEW t \in Tasks, Mutex!Run(t)
    PROVE  MutexInv'
<1> USE DEF MutexInv, Mutex!TypeOK, Mutex!OneAtATime, NoWaiterLost, Mutex!Running, Mutex!Phases, Mutex!Settled
<1>1. CASE Mutex!RunNow(t)
  <2>1. waiters = <<>> /\ Mutex!Running = {}
    BY <1>1 DEF Mutex!RunNow
  <2>2. QED
    BY <1>1, <2>1 DEF Mutex!RunNow, Mutex!Run
<1>2. CASE Mutex!RunLater(t)
  <2>1. t \notin Range(waiters)
    BY DEF Mutex!Run
  <2>2. /\ IsInjective(waiters') /\ waiters' \in Seq(Tasks)
        /\ Range(waiters') = Range(waiters) \union {t}
    BY <1>2, <2>1, AppendNew DEF Mutex!RunLater
  <2>3. Mutex!Running' = Mutex!Running
    BY <1>2 DEF Mutex!RunLater, Mutex!Run
  <2>4. QED
    BY <1>2, <2>2, <2>3 DEF Mutex!RunLater, Mutex!Run
<1>3. QED
  BY <1>1, <1>2 DEF Mutex!Run

LEMMA FinishKeepsMutex ==
    ASSUME MutexInv, NEW t \in Tasks, Mutex!Finish(t)
    PROVE  MutexInv'
<1> USE DEF MutexInv, Mutex!TypeOK, Mutex!OneAtATime, NoWaiterLost, Mutex!Running, Mutex!Phases, Mutex!Settled, Mutex!HandOver
<1>1. PICK outcome \in Mutex!Settled :
          Mutex!HandOver(t, outcome)
  BY DEF Mutex!Finish
<1>2. phase[t] = "running" /\ Mutex!Running = {t} /\ busy
  BY DEF Mutex!Finish
<1>3. CASE waiters # <<>>
  <2>1. /\ IsInjective(waiters') /\ waiters' \in Seq(Tasks)
        /\ Range(waiters') = Range(waiters) \ {Head(waiters)}
        /\ Head(waiters) \in Range(waiters) /\ Head(waiters) \in Tasks
    <3>1. waiters' = Tail(waiters) /\ waiters \in Seq(Tasks) /\ IsInjective(waiters)
      BY <1>1, <1>3
    <3>2. QED
      BY ONLY <3>1, <1>3, TailOld
  <2>2. phase[Head(waiters)] = "waiting"
    BY <2>1
  <2>3. Mutex!Running' = {Head(waiters)}
    BY <1>1, <1>2, <1>3, <2>1, <2>2
  <2>4. QED
    BY <1>1, <1>2, <1>3, <2>1, <2>2, <2>3
<1>4. CASE waiters = <<>>
  <2>1. Mutex!Running' = {}
    BY <1>1, <1>2, <1>4
  <2>2. QED
    BY <1>1, <1>2, <1>4, <2>1
<1>5. QED
  BY <1>3, <1>4

LEMMA StutterKeepsMutex == MutexInv /\ UNCHANGED Mutex!mutexVars => MutexInv'
BY DEF MutexInv, Mutex!TypeOK, Mutex!OneAtATime, NoWaiterLost, Mutex!Running, Mutex!mutexVars

(* Every reachable state satisfies the invariant, so the three properties  *)
(* it conjoins hold for any number of calls of run().                      *)
THEOREM MutexInvariance == Mutex!Spec => []MutexInv
<1>1. MutexInv /\ [Mutex!Next]_(Mutex!mutexVars) => MutexInv'
  BY RunKeepsMutex, FinishKeepsMutex, StutterKeepsMutex DEF Mutex!Next
<1>2. QED
  BY <1>1, MutexStarts, PTL DEF Mutex!Spec

(* The variables stay in their types.                                      *)
THEOREM MutexTypeCorrect == Mutex!Spec => []Mutex!TypeOK
BY MutexInvariance, PTL DEF MutexInv

(* No two task bodies ever overlap.                                        *)
THEOREM MutualExclusion == Mutex!Spec => []Mutex!OneAtATime
BY MutexInvariance, PTL DEF MutexInv

(* No queued closure is ever lost, and none waits on a free mutex.         *)
THEOREM WaitersKept == Mutex!Spec => []Mutex!NoLostWaiter
<1>1. MutexInv => Mutex!NoLostWaiter
  BY DEF MutexInv, NoWaiterLost, Mutex!NoLostWaiter, Mutex!Running, Mutex!Range, Range, Mutex!IsInjective, IsInjective
<1> QED BY <1>1, MutexInvariance, PTL

-----------------------------------------------------------------------------
(* Its refinement.  `queue` and `ended` are what the mapping substitutes.  *)
MappedQueue == IF busy THEN <<Mutex!Holder>> \o waiters ELSE <<>>
MappedEnded == {t \in Tasks : phase[t] \in Mutex!Settled}

(* When one task runs, it is the one Holder denotes.                       *)
LEMMA HolderIs ==
    ASSUME MutexInv, NEW t \in Tasks, phase[t] = "running"
    PROVE  Mutex!Holder = t
BY DEF MutexInv, Mutex!OneAtATime, Mutex!Running, Mutex!Holder

LEMMA QueueContents ==
    ASSUME MutexInv, busy
    PROVE  /\ Mutex!Holder \in Tasks /\ phase[Mutex!Holder] = "running"
           /\ MappedQueue \in Seq(Tasks) /\ MappedQueue # <<>>
           /\ Head(MappedQueue) = Mutex!Holder /\ Tail(MappedQueue) = waiters
           /\ Range(MappedQueue) = {Mutex!Holder} \union Range(waiters)
<1>1. Mutex!Holder \in Tasks /\ phase[Mutex!Holder] = "running"
  BY DEF MutexInv, NoWaiterLost, Mutex!Running, Mutex!Holder
<1>2. waiters \in Seq(Tasks)
  BY DEF MutexInv, Mutex!TypeOK
<1>3. MappedQueue = <<Mutex!Holder>> \o waiters /\ <<Mutex!Holder>> \in Seq(Tasks)
  BY <1>1 DEF MappedQueue
<1>4. /\ MappedQueue \in Seq(Tasks) /\ MappedQueue # <<>>
      /\ Head(MappedQueue) = Mutex!Holder /\ Tail(MappedQueue) = waiters
      /\ Len(MappedQueue) = Len(waiters) + 1
      /\ MappedQueue[1] = Mutex!Holder
      /\ \A i \in 1..Len(waiters) : MappedQueue[i + 1] = waiters[i]
  BY <1>1, <1>2, <1>3
<1>5. Range(MappedQueue) = {Mutex!Holder} \union Range(waiters)
  <2>1. ASSUME NEW i \in 1..Len(MappedQueue)
        PROVE  MappedQueue[i] \in {Mutex!Holder} \union Range(waiters)
    <3>1. CASE i = 1
      BY <3>1, <1>4
    <3>2. CASE i # 1
      <4>1. i - 1 \in 1..Len(waiters) /\ MappedQueue[i] = waiters[i - 1]
        BY <3>2, <1>2, <1>4
      <4>2. QED
        BY <4>1, <1>2 DEF Range
    <3>3. QED
      BY <3>1, <3>2
  <2>2. ASSUME NEW i \in 1..Len(waiters)
        PROVE  waiters[i] \in Range(MappedQueue)
    <3>1. i + 1 \in 1..Len(MappedQueue) /\ MappedQueue[i + 1] = waiters[i]
      BY <1>2, <1>4
    <3>2. QED
      BY <3>1, <1>4 DEF Range
  <2>3. Mutex!Holder \in Range(MappedQueue)
    BY <1>2, <1>4 DEF Range
  <2>4. QED
    BY <1>2, <1>4, <2>1, <2>2, <2>3 DEF Range
<1>6. QED
  BY <1>1, <1>4, <1>5

(* A call of run() submits a task to the abstract lock.                    *)
LEMMA RunSubmits ==
    ASSUME MutexInv, MutexInv', NEW t \in Tasks, Mutex!Run(t)
    PROVE  Mutex!Lock!Submit(t)
<1>1. MappedEnded' = MappedEnded /\ t \notin MappedEnded
  BY DEF Mutex!Run, Mutex!RunNow, Mutex!RunLater, MutexInv, Mutex!TypeOK, MappedEnded, Mutex!Settled
<1>2. CASE Mutex!RunNow(t)
  <2>1. MappedQueue = <<>> /\ waiters = <<>> /\ waiters' = <<>> /\ busy'
    BY <1>2 DEF Mutex!RunNow, MappedQueue, MutexInv, NoWaiterLost
  <2>2. Mutex!Holder' = t
    BY <1>2 DEF Mutex!RunNow, MutexInv, Mutex!TypeOK, Mutex!OneAtATime, Mutex!Running, Mutex!Holder
  <2>3. MappedQueue' = Append(MappedQueue, t)
    BY <2>1, <2>2 DEF MappedQueue
  <2>4. t \notin Range(MappedQueue)
    BY <2>1 DEF Range
  <2>5. QED
    BY <1>1, <2>3, <2>4 DEF Mutex!Lock!Submit, Mutex!Lock!Range, Range, MappedQueue, MappedEnded
<1>3. CASE Mutex!RunLater(t)
  <2>1. busy /\ busy' /\ waiters' = Append(waiters, t)
    BY <1>3 DEF Mutex!RunLater
  <2>2. Mutex!Holder \in Tasks /\ phase[Mutex!Holder] = "running" /\ phase[t] = "uncalled"
    BY <2>1, QueueContents DEF Mutex!Run
  <2>3. Mutex!Holder' = Mutex!Holder
    <3>1. phase'[Mutex!Holder] = "running"
      BY <1>3, <2>2 DEF Mutex!RunLater, MutexInv, Mutex!TypeOK
    <3>2. QED
      BY <2>2, <3>1 DEF MutexInv, Mutex!OneAtATime, Mutex!Running, Mutex!Holder
  <2>4. MappedQueue' = Append(MappedQueue, t)
    BY <2>1, <2>2, <2>3 DEF MappedQueue, MutexInv, Mutex!TypeOK
  <2>5. t \notin Range(MappedQueue)
    BY <2>1, <2>2, QueueContents DEF MutexInv, NoWaiterLost
  <2>6. QED
    BY <1>1, <2>4, <2>5 DEF Mutex!Lock!Submit, Mutex!Lock!Range, Range, MappedQueue, MappedEnded
<1>4. QED
  BY <1>2, <1>3 DEF Mutex!Run

(* The end of a task is the holder leaving the abstract lock.              *)
LEMMA FinishLeaves ==
    ASSUME MutexInv, MutexInv', NEW t \in Tasks, Mutex!Finish(t)
    PROVE  Mutex!Lock!Leave
<1> USE DEF MutexInv, Mutex!TypeOK, NoWaiterLost
<1>1. busy /\ Mutex!Holder = t
  BY HolderIs DEF Mutex!Finish, Mutex!Running
<1>2. /\ MappedQueue # <<>> /\ Head(MappedQueue) = t
      /\ Tail(MappedQueue) = waiters
  BY <1>1, QueueContents
<1>3. MappedQueue' = waiters /\ MappedEnded' = MappedEnded \union {t}
  <2>1. CASE waiters # <<>>
    <3>1. /\ Head(waiters) \in Tasks /\ phase[Head(waiters)] = "waiting"
          /\ waiters = <<Head(waiters)>> \o Tail(waiters)
      BY <2>1, TailOld
    <3>2. /\ busy' /\ waiters' = Tail(waiters)
          /\ phase'[Head(waiters)] = "running"
      BY <1>1, <2>1, <3>1 DEF Mutex!Finish, Mutex!HandOver
    <3>3. Mutex!Holder' = Head(waiters)
      BY <3>1, <3>2 DEF Mutex!OneAtATime, Mutex!Running, Mutex!Holder
    <3>4. MappedEnded' = MappedEnded \union {t}
      BY <2>1, <3>1 DEF Mutex!Finish, Mutex!HandOver, MappedEnded, Mutex!Settled
    <3>5. QED
      BY <3>1, <3>2, <3>3, <3>4 DEF MappedQueue
  <2>2. CASE waiters = <<>>
    BY <2>2 DEF Mutex!Finish, Mutex!HandOver, MappedQueue, MappedEnded, Mutex!Settled
  <2>3. QED
    BY <2>1, <2>2
<1>4. QED
  BY <1>2, <1>3 DEF Mutex!Lock!Leave, MappedQueue, MappedEnded

(* AsyncMutex implements the first-come first-served lock.                 *)
THEOREM MutexRefinement == Mutex!Spec => Mutex!ImplementsFifoLock
<1>1. Mutex!Init => Mutex!Lock!LockInit
  BY DEF Mutex!Init, Mutex!Lock!LockInit, Mutex!Settled
<1>2. MutexInv /\ MutexInv' /\ [Mutex!Next]_(Mutex!mutexVars) => [Mutex!Lock!LockNext]_(Mutex!Lock!lockVars)
  <2>1. CASE UNCHANGED Mutex!mutexVars
    BY <2>1 DEF Mutex!mutexVars, Mutex!Lock!lockVars, Mutex!Holder
  <2>2. CASE Mutex!Next
    BY <2>2, RunSubmits, FinishLeaves DEF Mutex!Next, Mutex!Lock!LockNext
  <2>3. QED
    BY <2>1, <2>2
<1>3. QED
  BY <1>1, <1>2, MutexInvariance, PTL DEF Mutex!Spec, Mutex!ImplementsFifoLock, Mutex!Lock!LockSafety

-----------------------------------------------------------------------------
(* DynamicQueue. At most one task is subscribed to; what waits behind it   *)
(* are the other tasks whose callers have no end yet, each once, and they  *)
(* wait only while the queue is busy.                                      *)
QueueInv ==
    /\ Queue!TypeOK
    /\ \A s, t \in current : s = t
    /\ queueBusy <=> current # {}
    /\ tasks # <<>> => queueBusy
    /\ IsInjective(tasks)
    /\ Range(tasks) \union current = {t \in Tasks : output[t] = "open"}
    /\ Range(tasks) \intersect current = {}

LEMMA QueueStarts == Queue!Init => QueueInv
<1> SUFFICES ASSUME Queue!Init PROVE QueueInv
  OBVIOUS
<1>1. IsInjective(tasks) /\ Range(tasks) = {} /\ tasks \in Seq(Tasks)
  BY DEF Queue!Init, IsInjective, Range
<1>2. \A t \in Tasks : output[t] # "open"
  BY DEF Queue!Init
<1> QED BY <1>1, <1>2 DEF Queue!Init, QueueInv, Queue!TypeOK, Queue!Ends

LEMMA PushKeepsQueue ==
  ASSUME QueueInv, NEW t \in Tasks, Queue!push(t)
  PROVE  QueueInv'
<1> USE DEF QueueInv, Queue!TypeOK, Queue!Ends
<1>1. t \notin Range(tasks) /\ t \notin current
  BY DEF Queue!push
<1>2. CASE queueBusy
  <2>1. /\ tasks' \in Seq(Tasks) /\ IsInjective(tasks') /\ Range(tasks') = Range(tasks) \union {t}
        /\ tasks' = Append(tasks, t)
    <3>1. tasks' = Append(tasks, t) /\ tasks \in Seq(Tasks) /\ IsInjective(tasks)
      BY <1>2 DEF Queue!push
    <3> QED BY ONLY <3>1, <1>1, AppendNew
  <2>2. queueBusy' = queueBusy /\ current' = current /\ output' = [output EXCEPT ![t] = "open"]
    BY <1>2 DEF Queue!push
  <2> QED BY <1>1, <1>2, <2>1, <2>2
<1>3. CASE ~queueBusy
  <2>1. tasks = <<>> /\ current = {}
    BY <1>3
  <2>2. Append(tasks, t) # <<>> /\ Head(Append(tasks, t)) = t /\ Tail(Append(tasks, t)) = <<>>
    BY <2>1
  <2>3. tasks' = <<>> /\ current' = {t} /\ queueBusy' = TRUE /\ output' = [output EXCEPT ![t] = "open"]
    BY <1>3, <2>1, <2>2 DEF Queue!push, Queue!runFirst
  <2>4. IsInjective(tasks') /\ Range(tasks') = {}
    BY <2>3 DEF IsInjective, Range
  <2>5. Range(tasks) = {}
    BY <2>1 DEF Range
  <2> QED BY <2>1, <2>3, <2>4, <2>5
<1> QED BY <1>2, <1>3

LEMMA EndKeepsQueue ==
  ASSUME QueueInv, NEW t \in current, NEW e \in Queue!Ends, output' = [output EXCEPT ![t] = e],
         Queue!runFirst(tasks, current \ {t})
  PROVE  QueueInv'
<1> USE DEF QueueInv, Queue!TypeOK, Queue!Ends
<1>1. current = {t} /\ queueBusy /\ t \in Tasks
  OBVIOUS
<1>2. CASE tasks # <<>>
  <2>1. /\ tasks' \in Seq(Tasks) /\ IsInjective(tasks') /\ Range(tasks') = Range(tasks) \ {Head(tasks)}
        /\ Head(tasks) \in Range(tasks) /\ Head(tasks) \in Tasks
    <3>1. tasks' = Tail(tasks) /\ tasks \in Seq(Tasks) /\ IsInjective(tasks)
      BY <1>2 DEF Queue!runFirst
    <3> QED BY ONLY <3>1, <1>2, TailOld
  <2>2. current' = {Head(tasks)} /\ queueBusy'
    BY <1>1, <1>2 DEF Queue!runFirst
  <2> QED BY <1>1, <2>1, <2>2
<1>3. CASE tasks = <<>>
  <2>1. tasks' = tasks /\ current' = {} /\ ~queueBusy' /\ queueBusy' \in BOOLEAN
    BY <1>1, <1>3 DEF Queue!runFirst
  <2> QED BY <1>1, <1>3, <2>1
<1> QED BY <1>2, <1>3

LEMMA QueueInductive == QueueInv /\ [Queue!Next]_(Queue!queueVars) => QueueInv'
<1> SUFFICES ASSUME QueueInv, [Queue!Next]_(Queue!queueVars) PROVE QueueInv'
  OBVIOUS
<1>1. CASE UNCHANGED Queue!queueVars
  BY <1>1 DEF Queue!queueVars, QueueInv, Queue!TypeOK
<1>2. ASSUME NEW t \in Tasks, Queue!push(t) PROVE QueueInv'
  BY <1>2, PushKeepsQueue
<1>3. ASSUME NEW t \in Tasks, Queue!complete(t) PROVE QueueInv'
  BY <1>3, EndKeepsQueue DEF Queue!complete, Queue!Ends
<1>4. ASSUME NEW t \in Tasks, Queue!error(t) PROVE QueueInv'
  BY <1>4, EndKeepsQueue DEF Queue!error, Queue!Ends
<1> QED BY <1>1, <1>2, <1>3, <1>4 DEF Queue!Next

(* Refinement.  What the mapping substitutes for the queue of the lock.    *)
PushedAndOpen == IF queueBusy THEN <<Queue!Running>> \o tasks ELSE <<>>
PushedAndEnded == {t \in Tasks : output[t] \in Queue!Ends}

LEMMA RunningIs ==
  ASSUME QueueInv, NEW t \in current
  PROVE  Queue!Running = t
BY DEF QueueInv, Queue!TypeOK, Queue!Running

LEMMA PushSubmits ==
  ASSUME QueueInv, QueueInv', NEW t \in Tasks, Queue!push(t)
  PROVE  Queue!Lock!Submit(t)
<1>1. PushedAndEnded' = PushedAndEnded /\ t \notin PushedAndEnded
  BY DEF Queue!push, PushedAndEnded, Queue!Ends, QueueInv, Queue!TypeOK
<1>2. t \notin Range(tasks) /\ t \notin current
  BY DEF Queue!push, QueueInv
<1>3. CASE queueBusy
  <2>1. PICK h \in current : Queue!Running = h
    BY <1>3, RunningIs DEF QueueInv
  <2>2. tasks' = Append(tasks, t) /\ Queue!Running' = Queue!Running /\ queueBusy' /\ tasks \in Seq(Tasks)
    BY <1>3 DEF Queue!push, Queue!Running, QueueInv, Queue!TypeOK
  <2>3. PushedAndOpen' = Append(PushedAndOpen, t)
    BY <1>3, <2>2 DEF PushedAndOpen
  <2>4. t \notin Range(PushedAndOpen)
    <3> SUFFICES ASSUME NEW i \in DOMAIN PushedAndOpen PROVE PushedAndOpen[i] # t
      BY DEF Range
    <3>1. PushedAndOpen = <<h>> \o tasks /\ h # t
      BY <1>2, <1>3, <2>1 DEF PushedAndOpen
    <3>2. CASE i = 1
      BY <2>2, <3>1, <3>2
    <3>3. CASE i # 1
      <4>1. i - 1 \in 1..Len(tasks) /\ PushedAndOpen[i] = tasks[i - 1]
        BY <2>2, <3>1, <3>3
      <4> QED BY <1>2, <2>2, <4>1 DEF Range
    <3> QED BY <3>2, <3>3
  <2> QED BY <1>1, <2>3, <2>4 DEF Queue!Lock!Submit, Queue!Lock!Range, Range, PushedAndOpen, PushedAndEnded
<1>4. CASE ~queueBusy
  <2>1. tasks = <<>> /\ current = {}
    BY <1>4 DEF QueueInv
  <2>2. tasks' = <<>> /\ current' = {t} /\ queueBusy'
    <3>1. Append(tasks, t) = <<t>>
      BY <2>1
    <3> QED BY <1>4, <2>1, <3>1 DEF Queue!push, Queue!runFirst
  <2>3. Queue!Running' = t
    BY <2>2 DEF Queue!Running
  <2>4. PushedAndOpen' = Append(PushedAndOpen, t) /\ Range(PushedAndOpen) = {}
    BY <1>4, <2>1, <2>2, <2>3 DEF PushedAndOpen, Range
  <2> QED BY <1>1, <2>4 DEF Queue!Lock!Submit, Queue!Lock!Range, Range, PushedAndOpen, PushedAndEnded
<1> QED BY <1>3, <1>4

LEMMA EndLeaves ==
  ASSUME QueueInv, QueueInv', NEW t \in current, NEW e \in Queue!Ends, output' = [output EXCEPT ![t] = e],
         Queue!runFirst(tasks, current \ {t})
  PROVE  Queue!Lock!Leave
<1>1. queueBusy /\ Queue!Running = t /\ current = {t} /\ t \in Tasks /\ tasks \in Seq(Tasks)
  BY RunningIs DEF QueueInv, Queue!TypeOK
<1>2. PushedAndOpen # <<>> /\ Head(PushedAndOpen) = t /\ Tail(PushedAndOpen) = tasks
  BY <1>1 DEF PushedAndOpen
<1>3. PushedAndEnded' = PushedAndEnded \union {t}
  BY <1>1 DEF PushedAndEnded, Queue!Ends, QueueInv, Queue!TypeOK
<1>4. PushedAndOpen' = tasks
  <2>1. CASE tasks # <<>>
    <3>1. tasks' = Tail(tasks) /\ current' = {Head(tasks)} /\ queueBusy' /\ Head(tasks) \in Tasks
      BY <1>1, <2>1 DEF Queue!runFirst
    <3>2. Queue!Running' = Head(tasks)
      BY <3>1 DEF Queue!Running
    <3> QED BY <1>1, <2>1, <3>1, <3>2 DEF PushedAndOpen
  <2>2. CASE tasks = <<>>
    BY <1>1, <2>2 DEF Queue!runFirst, PushedAndOpen
  <2> QED BY <2>1, <2>2
<1> QED BY <1>2, <1>3, <1>4 DEF Queue!Lock!Leave, PushedAndOpen, PushedAndEnded

(* The queue is a first-come first-served lock: its safety, the fairness of *)
(* QueueIsFifoLock is beyond these proofs.                                 *)
THEOREM QueueRefinement == Queue!Spec => Queue!Lock!LockSafety
<1>1. Queue!Init => Queue!Lock!LockInit
  BY DEF Queue!Init, Queue!Lock!LockInit, Queue!Ends
<1>2. QueueInv /\ QueueInv' /\ [Queue!Next]_(Queue!queueVars) => [Queue!Lock!LockNext]_(Queue!Lock!lockVars)
  <2> SUFFICES ASSUME QueueInv, QueueInv', [Queue!Next]_(Queue!queueVars) PROVE [Queue!Lock!LockNext]_(Queue!Lock!lockVars)
    OBVIOUS
  <2>1. CASE UNCHANGED Queue!queueVars
    BY <2>1 DEF Queue!queueVars, Queue!Lock!lockVars, Queue!Running
  <2>2. ASSUME NEW t \in Tasks, Queue!push(t) PROVE Queue!Lock!LockNext
    BY <2>2, PushSubmits DEF Queue!Lock!LockNext
  <2>3. ASSUME NEW t \in Tasks, Queue!complete(t) PROVE Queue!Lock!LockNext
    BY <2>3, EndLeaves DEF Queue!complete, Queue!Ends, Queue!Lock!LockNext
  <2>4. ASSUME NEW t \in Tasks, Queue!error(t) PROVE Queue!Lock!LockNext
    BY <2>4, EndLeaves DEF Queue!error, Queue!Ends, Queue!Lock!LockNext
  <2> QED BY <2>1, <2>2, <2>3, <2>4 DEF Queue!Next
<1> QED BY <1>1, <1>2, QueueStarts, QueueInductive, PTL DEF Queue!Spec, Queue!Lock!LockSafety

-----------------------------------------------------------------------------
(* LoadbalancedProxy.  The list is filled while the server listens or      *)
(* starts, and while it is about to be told of a close.                    *)
ProxyInv ==
    /\ Proxy!TypeOK
    /\ status # "STOPPED" \/ closing > 0 => childProcesses # <<>>

LEMMA ProxyStarts == Proxy!Init => ProxyInv
BY ProxyNumbers DEF Proxy!Init, ProxyInv, Proxy!TypeOK, Proxy!Ports, Proxy!Entry

LEMMA CloseKeepsProxy ==
  ASSUME ProxyInv, NEW s \in Slots, Proxy!Close(s), deaths' \in 0 .. MaxDeaths
  PROVE  ProxyInv'
<1> USE DEF ProxyInv, Proxy!TypeOK
<1>1. childProcesses' \in Seq(Proxy!Entry) /\ (childProcesses # <<>> => childProcesses' # <<>>)
  <2>1. CASE UNCHANGED childProcesses
    BY <2>1
  <2>2. ASSUME NEW i \in DOMAIN childProcesses, childProcesses' = <<childProcesses[i]>>
        PROVE  childProcesses' \in Seq(Proxy!Entry) /\ childProcesses' # <<>>
    <3>1. childProcesses[i] \in Proxy!Entry
      BY <2>2
    <3> QED BY <2>2, <3>1
  <2> QED BY <2>1, <2>2 DEF Proxy!Close, Proxy!IndexOf
<1> QED BY <1>1 DEF Proxy!Close, Proxy!server

LEMMA ReadyKeepsProxy ==
  ASSUME ProxyInv, NEW s \in Slots, Proxy!AppReady(s)
  PROVE  ProxyInv'
<1> USE DEF ProxyInv, Proxy!TypeOK
<1> DEFINE e == [port |-> workerPort[s], process |-> <<s, fork[s]>>]
<1>1. e \in Proxy!Entry /\ childProcesses' = Append(childProcesses, e)
  BY DEF Proxy!AppReady, Proxy!Entry
<1> HIDE DEF e
<1>2. childProcesses' \in Seq(Proxy!Entry) /\ childProcesses' # <<>>
  <2>1. childProcesses \in Seq(Proxy!Entry)
    OBVIOUS
  <2> QED BY ONLY <1>1, <2>1, AppendProperties
<1>3. status' \in {"STOPPED", "STARTING", "STARTED"}
  BY DEF Proxy!AppReady, Proxy!startProxyServer
<1>4. /\ UNCHANGED <<taken, fork, workerPort, processGear, closing, deaths, errors>>
      /\ worker' = [worker EXCEPT ![s] = "ready"]
  BY DEF Proxy!AppReady
<1> QED BY <1>2, <1>3, <1>4

LEMMA ProxyInductive == ProxyInv /\ [Proxy!Next]_(Proxy!balancerVars) => ProxyInv'
<1> SUFFICES ASSUME ProxyInv, [Proxy!Next]_(Proxy!balancerVars) PROVE ProxyInv'
  OBVIOUS
<1> USE DEF Proxy!workers, Proxy!server
<1>1. CASE UNCHANGED Proxy!balancerVars
  BY <1>1 DEF Proxy!balancerVars, ProxyInv, Proxy!TypeOK
<1>2. ASSUME NEW s \in Slots, Proxy!Spawn(s) PROVE ProxyInv'
  BY <1>2 DEF Proxy!Spawn, ProxyInv, Proxy!TypeOK
<1>3. ASSUME NEW s \in Slots, Proxy!AppReady(s) PROVE ProxyInv'
  BY <1>3, ReadyKeepsProxy
<1>4. ASSUME NEW s \in Slots, Proxy!Die(s) PROVE ProxyInv'
  <2>1. deaths' \in 0 .. MaxDeaths
    BY <1>4, ProxyNumbers DEF Proxy!Die, ProxyInv, Proxy!TypeOK
  <2> QED BY <1>4, <2>1, CloseKeepsProxy DEF Proxy!Die
<1>5. ASSUME NEW s \in Slots, Proxy!PortTaken(s) PROVE ProxyInv'
  BY <1>5, CloseKeepsProxy DEF Proxy!PortTaken, ProxyInv, Proxy!TypeOK
<1>6. CASE Proxy!Listen
  BY <1>6 DEF Proxy!Listen, ProxyInv, Proxy!TypeOK
<1>7. CASE Proxy!ServerError
  BY <1>7, ProxyNumbers DEF Proxy!ServerError, Proxy!restartProxyServer, Proxy!startProxyServer, ProxyInv, Proxy!TypeOK
<1>8. CASE Proxy!ServerClosed
  BY <1>8 DEF Proxy!ServerClosed, Proxy!restartProxyServer, Proxy!startProxyServer, ProxyInv, Proxy!TypeOK
<1>9. CASE Proxy!Request
  <2>1. childProcesses # <<>> /\ Len(childProcesses) \in Nat \ {0}
    BY <1>9 DEF Proxy!Request, ProxyInv, Proxy!TypeOK
  <2>2. processGear' \in Int
    BY <1>9, <2>1 DEF Proxy!Request, ProxyInv, Proxy!TypeOK
  <2> QED BY <1>9, <2>1, <2>2 DEF Proxy!Request, ProxyInv, Proxy!TypeOK
<1> QED BY <1>1, <1>2, <1>3, <1>4, <1>5, <1>6, <1>7, <1>8, <1>9 DEF Proxy!Next

-----------------------------------------------------------------------------
(* Engine5Subscriptions. Of the payloads in the write queue, and of what   *)
(* sockets have been told.                                                 *)
SocketStates == {"connecting", "open", "ended", "closed"}
Payloads == {Server!Connect} \union {Server!ListenFirst(s) : s \in Subjects} \union {Server!ListenAgain(s) : s \in Subjects}

ServerTypes ==
    /\ e5Status \in {"CLOSED", "CONNECTING", "CONNECTED"}
    /\ link \in Seq(SocketStates) /\ Len(link) <= MaxLinks
    /\ heard \in Seq(SUBSET Subjects) /\ Len(heard) = Len(link)
    /\ overtaken \in Seq(SUBSET Subjects) /\ Len(overtaken) = Len(link)
    /\ listening \in [Subjects -> {"added", "queued", "writing", "registered", "failed"}]
    /\ writeQueue \in Seq(Payloads)
    /\ e5Status # "CLOSED" => link # <<>>
    /\ writeQueue # <<>> => writeTo \in 1 .. Len(link)

(* One first LISTEN at most is on its way, that of the listen() which holds *)
(* generalMutex; there is none before the server is ready.                 *)
FirstListens ==
    /\ awaits # Server!Ready => \A s \in Subjects : listening[s] = "added"
    /\ \A i \in 1 .. Len(writeQueue) : writeQueue[i].command = "LISTEN" =>
          /\ listening[writeQueue[i].subject] = "writing"
          /\ \A j \in 1 .. Len(writeQueue) : writeQueue[j].command = "LISTEN" => i = j

(* If it goes to a former socket, the one that has connected since knows.   *)
LateIsNoted ==
    link # <<>> /\ link[Server!Current] = "open" /\ writeQueue # <<>> /\ writeTo # Server!Current
        /\ writeQueue[1].command = "LISTEN"
            => writeQueue[1].subject \in overtaken[Server!Current]

(* A subject that is to be listened to again is, or its payload is on its   *)
(* way to the socket.                                                      *)
Announced(s) == \E i \in 1 .. Len(writeQueue) :
                    writeQueue[i] = Server!ListenAgain(s) /\ (i > 1 \/ writeTo = Server!Current)
AgainIsOnItsWay ==
    link # <<>> /\ link[Server!Current] = "open" =>
        \A s \in Server!Registered : s \in heard[Server!Current] \union overtaken[Server!Current] \/ Announced(s)

ServerInv == ServerTypes /\ FirstListens /\ LateIsNoted /\ AgainIsOnItsWay

(* What Server!SetToSeq says of a finite set.                                     *)
LEMMA SetToSeqIs ==
  ASSUME NEW S, IsFiniteSet(S)
  PROVE  /\ Server!SetToSeq(S) \in Seq(S)
         /\ \A x \in S : \E i \in 1 .. Len(Server!SetToSeq(S)) : Server!SetToSeq(S)[i] = x
         /\ Len(Server!SetToSeq(S)) = Cardinality(S) /\ Cardinality(S) \in Nat
<1> DEFINE n == Cardinality(S)
           f == Server!SetToSeq(S)
<1>1. n \in Nat /\ ExistsBijection(1..n, S)
  BY FS_CardinalityType
<1>2. PICK g \in [1..n -> S] : IsInjective(g)
  BY <1>1 DEF ExistsBijection, Bijection, Injection
<1>3. f \in [1..n -> S] /\ IsInjective(f)
  BY <1>2 DEF Server!SetToSeq, Server!IsInjective, IsInjective, Server!Cardinality, Cardinality
<1> HIDE DEF f
<1>4. f \in Injection(1..n, S)
  BY <1>3 DEF Injection
<1>5. Cardinality(1..n) = n
  BY <1>1, FS_Interval
<1>6. f \in Surjection(1..n, S)
  BY <1>4, <1>5, FS_Injection
<1>7. \A x \in S : \E i \in 1..n : f[i] = x
  BY <1>6 DEF Surjection
<1>8. f \in Seq(S) /\ Len(f) = n
  BY <1>1, <1>3
<1> QED BY <1>1, <1>7, <1>8 DEF f

LEMMA SingletonSeq ==
  ASSUME NEW S, NEW x \in S
  PROVE  <<x>> \in Seq(S) /\ Len(<<x>>) = 1 /\ <<x>>[1] = x
OBVIOUS

LEMMA ServerStarts == Server!SubscriptionsInit => ServerInv
BY ServerNumbers DEF Server!SubscriptionsInit, ServerInv, ServerTypes, FirstListens, LateIsNoted, AgainIsOnItsWay

(* A payload is what its command says.                                     *)
LEMMA PayloadsAre ==
  /\ Server!Connect.command = "CONNECT" /\ Server!Connect \in Payloads
  /\ \A s \in Subjects :
        /\ Server!ListenFirst(s).command = "LISTEN" /\ Server!ListenFirst(s).subject = s /\ Server!ListenFirst(s) \in Payloads
        /\ Server!ListenAgain(s).command = "LISTEN again" /\ Server!ListenAgain(s).subject = s /\ Server!ListenAgain(s) \in Payloads
  /\ \A p \in Payloads :
        \/ p = Server!Connect
        \/ p.subject \in Subjects /\ p.command = "LISTEN"
        \/ p.subject \in Subjects /\ p.command = "LISTEN again" /\ p = Server!ListenAgain(p.subject)
<1>1. Server!Connect.command = "CONNECT" /\ Server!Connect \in Payloads
  BY DEF Payloads, Server!Connect
<1>2. ASSUME NEW s \in Subjects
      PROVE  /\ Server!ListenFirst(s).command = "LISTEN" /\ Server!ListenFirst(s).subject = s
             /\ Server!ListenAgain(s).command = "LISTEN again" /\ Server!ListenAgain(s).subject = s
  BY DEF Server!ListenFirst, Server!ListenAgain
<1>3. ASSUME NEW s \in Subjects PROVE Server!ListenFirst(s) \in Payloads /\ Server!ListenAgain(s) \in Payloads
  BY DEF Payloads
<1>4. ASSUME NEW p \in Payloads
      PROVE  \/ p = Server!Connect
             \/ p.subject \in Subjects /\ p.command = "LISTEN"
             \/ p.subject \in Subjects /\ p.command = "LISTEN again" /\ p = Server!ListenAgain(p.subject)
  <2>1. p = Server!Connect \/ (\E s \in Subjects : p = Server!ListenFirst(s)) \/ \E s \in Subjects : p = Server!ListenAgain(s)
    BY DEF Payloads
  <2> QED BY <1>2, <2>1
<1> QED BY <1>1, <1>2, <1>3, <1>4

LEMMA Enqueued ==
  ASSUME ServerTypes, link # <<>>, NEW new \in Seq(Payloads), Server!writePayload(new)
  PROVE  /\ writeQueue' \in Seq(Payloads) /\ Len(writeQueue') = Len(writeQueue) + Len(new)
         /\ \A i \in 1 .. Len(writeQueue) : writeQueue'[i] = writeQueue[i]
         /\ \A i \in 1 .. Len(new) : writeQueue'[Len(writeQueue) + i] = new[i]
         /\ \A i \in 1 .. Len(writeQueue') :
               i \in 1 .. Len(writeQueue) \/ (i - Len(writeQueue) \in 1 .. Len(new)
                                              /\ writeQueue'[i] = new[i - Len(writeQueue)])
         /\ writeTo' \in 1 .. Len(link)
         /\ writeQueue = <<>> => writeTo' = Server!Current
         /\ writeQueue # <<>> => writeTo' = writeTo
<1>1. writeQueue \in Seq(Payloads) /\ writeQueue' = writeQueue \o new
  BY DEF ServerTypes, Server!writePayload
<1>2. /\ writeQueue' \in Seq(Payloads) /\ Len(writeQueue') = Len(writeQueue) + Len(new)
      /\ \A i \in 1 .. Len(writeQueue) + Len(new) :
            writeQueue'[i] = IF i <= Len(writeQueue) THEN writeQueue[i] ELSE new[i - Len(writeQueue)]
  BY ONLY <1>1, ConcatProperties, new \in Seq(Payloads)
<1>3. Len(writeQueue) \in Nat /\ Len(new) \in Nat
  BY <1>1
<1>4. Server!Current \in 1 .. Len(link)
  BY DEF ServerTypes, Server!Current
<1>5. /\ writeTo' \in 1 .. Len(link)
      /\ writeQueue = <<>> => writeTo' = Server!Current
      /\ writeQueue # <<>> => writeTo' = writeTo
  BY <1>4 DEF Server!writePayload, ServerTypes
<1>6. ASSUME NEW i \in 1 .. Len(writeQueue) PROVE writeQueue'[i] = writeQueue[i]
  BY <1>2, <1>3
<1>7. ASSUME NEW i \in 1 .. Len(new) PROVE writeQueue'[Len(writeQueue) + i] = new[i]
  BY <1>2, <1>3
<1>8. ASSUME NEW i \in 1 .. Len(writeQueue'), i \notin 1 .. Len(writeQueue)
      PROVE  i - Len(writeQueue) \in 1 .. Len(new) /\ writeQueue'[i] = new[i - Len(writeQueue)]
  BY <1>2, <1>3, <1>8
<1> QED BY <1>2, <1>5, <1>6, <1>7, <1>8

LEMMA SocketOpens ==
  ASSUME ServerInv, Server!OpenSocket, UNCHANGED <<listening, generalQueue, writeQueue, writeTo>>,
         awaits' = awaits \/ awaits = Server!Unasked
  PROVE  ServerInv'
<1>1. /\ link' \in Seq(SocketStates) /\ Len(link') = Len(link) + 1 /\ link'[Len(link')] = "connecting"
      /\ Len(link) \in Nat /\ Len(link) < MaxLinks
  BY DEF ServerInv, ServerTypes, Server!OpenSocket, Server!Current, SocketStates
<1>2. /\ heard' \in Seq(SUBSET Subjects) /\ Len(heard') = Len(heard) + 1
      /\ overtaken' \in Seq(SUBSET Subjects) /\ Len(overtaken') = Len(overtaken) + 1
  BY DEF ServerInv, ServerTypes, Server!OpenSocket
<1>3. ServerTypes'
  <2>1. link' # <<>>
    BY <1>1
  <2>2. e5Status' = "CONNECTING" /\ listening' = listening /\ writeQueue' = writeQueue /\ writeTo' = writeTo
    BY DEF Server!OpenSocket
  <2>3. writeQueue # <<>> => writeTo' \in 1 .. Len(link')
    BY <1>1, <2>2 DEF ServerInv, ServerTypes
  <2>4. Len(link') <= MaxLinks
    BY <1>1, ServerNumbers
  <2> QED BY <1>1, <1>2, <2>1, <2>2, <2>3, <2>4 DEF ServerInv, ServerTypes
<1>4. awaits = Server!Unasked => awaits # Server!Ready
  BY ServerNumbers DEF Server!Unasked, Server!Ready
<1>5. FirstListens'
  BY <1>4 DEF ServerInv, FirstListens
<1>6. LateIsNoted' /\ AgainIsOnItsWay'
  BY <1>1 DEF LateIsNoted, AgainIsOnItsWay, Server!Current
<1> QED BY <1>3, <1>5, <1>6 DEF ServerInv

LEMMA ReadyKeepsServer ==
  ASSUME ServerInv, Server!BecomesReady, awaits # Server!Ready, link # <<>>, UNCHANGED <<link, heard, overtaken>>,
         e5Status' = "CONNECTED"
  PROVE  ServerInv'
<1> DEFINE first == Server!SetToSeq(Subjects)[1]
<1>1. first \in Subjects
  <2>1. Cardinality(Subjects) # 0
    BY ServerNumbers, FS_EmptySet
  <2> QED BY <2>1, SetToSeqIs, ServerNumbers
<1>2. /\ listening' = [s \in Subjects |-> IF s = first THEN "writing" ELSE "queued"]
      /\ Server!writePayload(<<Server!ListenFirst(first)>>)
  BY DEF Server!BecomesReady
<1> HIDE DEF first
<1> DEFINE new == <<Server!ListenFirst(first)>>
           n == Len(writeQueue)
<1>3. new \in Seq(Payloads) /\ Len(new) = 1 /\ new[1] = Server!ListenFirst(first) /\ n \in Nat
  <2>1. Server!ListenFirst(first) \in Payloads
    BY <1>1, PayloadsAre
  <2>2. n \in Nat
    BY DEF ServerInv, ServerTypes
  <2> QED BY <2>1, <2>2, SingletonSeq
<1> HIDE DEF new
<1>4. /\ writeQueue' \in Seq(Payloads) /\ Len(writeQueue') = n + 1
      /\ \A i \in 1 .. n : writeQueue'[i] = writeQueue[i]
      /\ writeQueue'[n + 1] = Server!ListenFirst(first)
      /\ \A i \in 1 .. n + 1 : i \in 1 .. n \/ i = n + 1
      /\ writeTo' \in 1 .. Len(link)
      /\ writeQueue = <<>> => writeTo' = Server!Current
  <2>1. ServerTypes /\ Server!writePayload(new)
    BY <1>2 DEF ServerInv, new
  <2>2. /\ writeQueue' \in Seq(Payloads) /\ Len(writeQueue') = n + Len(new)
        /\ \A i \in 1 .. n : writeQueue'[i] = writeQueue[i]
        /\ \A i \in 1 .. Len(new) : writeQueue'[n + i] = new[i]
        /\ writeTo' \in 1 .. Len(link)
        /\ writeQueue = <<>> => writeTo' = Server!Current
    BY <1>3, <2>1, Enqueued
  <2> HIDE DEF n
  <2> QED BY <1>3, <2>2
<1>5. \A i \in 1 .. n : writeQueue[i].command # "LISTEN"
  <2> SUFFICES ASSUME NEW i \in 1 .. n, writeQueue[i].command = "LISTEN" PROVE FALSE
    OBVIOUS
  <2>1. listening[writeQueue[i].subject] = "writing"
    BY DEF ServerInv, FirstListens
  <2>2. writeQueue[i] \in Payloads
    BY DEF ServerInv, ServerTypes
  <2>3. writeQueue[i].subject \in Subjects
    BY <2>2, PayloadsAre
  <2> QED BY <2>1, <2>3 DEF ServerInv, FirstListens
<1>6. ServerTypes'
  BY <1>2, <1>4 DEF ServerInv, ServerTypes
<1>7. FirstListens'
  <2>1. awaits' = Server!Ready
    BY DEF Server!BecomesReady
  <2>2. Server!ListenFirst(first).command = "LISTEN" /\ Server!ListenFirst(first).subject = first
    BY <1>1, PayloadsAre
  <2>3. Server!Ready' = Server!Ready
    BY DEF Server!Ready
  <2> QED BY <1>1, <1>2, <1>3, <1>4, <1>5, <2>1, <2>2, <2>3 DEF FirstListens
<1>8. LateIsNoted'
  <2> SUFFICES ASSUME writeTo' # Server!Current', writeQueue'[1].command = "LISTEN" PROVE FALSE
    BY DEF LateIsNoted
  <2>1. writeQueue # <<>>
    BY <1>4 DEF Server!Current
  <2>2. 1 \in 1 .. n
    BY <1>3, <2>1 DEF ServerInv, ServerTypes
  <2> QED BY <1>4, <1>5, <2>2
<1>9. AgainIsOnItsWay'
  BY <1>2 DEF AgainIsOnItsWay, Server!Registered
<1> QED BY <1>6, <1>7, <1>8, <1>9 DEF ServerInv

LEMMA ConnectKeepsServer ==
  ASSUME ServerInv, NEW k \in DOMAIN link, Server!Connects(k)
  PROVE  ServerInv'
<1> DEFINE again == Server!SetToSeq({Server!ListenAgain(s) : s \in Server!Registered})
           new == <<Server!Connect>> \o again
           n == Len(writeQueue)
<1>1. IsFiniteSet({Server!ListenAgain(s) : s \in Server!Registered})
  <2>1. IsFiniteSet(Server!Registered)
    BY ServerNumbers, FS_Subset DEF Server!Registered
  <2> DEFINE f == [s \in Server!Registered |-> Server!ListenAgain(s)]
  <2>2. f \in Surjection(Server!Registered, {Server!ListenAgain(s) : s \in Server!Registered})
    BY DEF Surjection
  <2> QED BY <2>1, <2>2, FS_Surjection
<1>2. /\ again \in Seq({Server!ListenAgain(s) : s \in Server!Registered}) /\ Len(again) \in Nat
      /\ \A s \in Server!Registered : \E i \in 1 .. Len(again) : again[i] = Server!ListenAgain(s)
  BY <1>1, SetToSeqIs
<1>3. Server!writePayload(new) /\ UNCHANGED <<e5Status, Server!ofServer, Server!ofHandlers>>
  BY DEF Server!Connects
<1> HIDE DEF again
<1>4. {Server!ListenAgain(s) : s \in Server!Registered} \subseteq Payloads
  <2> SUFFICES ASSUME NEW s \in Server!Registered PROVE Server!ListenAgain(s) \in Payloads
    OBVIOUS
  <2> QED BY PayloadsAre DEF Server!Registered
<1>5. again \in Seq(Payloads)
  BY <1>2, <1>4, SeqMonotonic
<1>6. /\ new \in Seq(Payloads) /\ Len(new) = 1 + Len(again) /\ new[1] = Server!Connect
      /\ \A i \in 2 .. Len(new) : new[i] = again[i - 1]
  <2>1. <<Server!Connect>> \in Seq(Payloads) /\ Len(<<Server!Connect>>) = 1 /\ <<Server!Connect>>[1] = Server!Connect
    BY PayloadsAre, SingletonSeq
  <2> HIDE DEF new
  <2>2. /\ new \in Seq(Payloads) /\ Len(new) = 1 + Len(again)
        /\ \A i \in 1 .. 1 + Len(again) :
              new[i] = IF i <= 1 THEN <<Server!Connect>>[i] ELSE again[i - 1]
    BY ONLY <1>5, <2>1, ConcatProperties DEF new
  <2> QED BY <1>2, <2>1, <2>2
<1> HIDE DEF new
<1>7. \A i \in 1 .. Len(new) : new[i].command # "LISTEN"
  <2> SUFFICES ASSUME NEW i \in 1 .. Len(new) PROVE new[i].command # "LISTEN"
    OBVIOUS
  <2>1. CASE i = 1
    BY <1>6, <2>1, PayloadsAre
  <2>2. CASE i # 1
    <3>1. i - 1 \in 1 .. Len(again) /\ new[i] = again[i - 1]
      BY <1>2, <1>6, <2>2
    <3>2. again[i - 1] \in {Server!ListenAgain(s) : s \in Server!Registered}
      BY <1>2, <3>1
    <3>3. PICK s \in Server!Registered : again[i - 1] = Server!ListenAgain(s)
      BY <3>2
    <3>4. Server!ListenAgain(s).command # "LISTEN"
      BY PayloadsAre DEF Server!Registered
    <3> QED BY <3>1, <3>3, <3>4
  <2> QED BY <2>1, <2>2
<1>8. /\ writeQueue' \in Seq(Payloads) /\ Len(writeQueue') = n + Len(new)
      /\ \A i \in 1 .. n : writeQueue'[i] = writeQueue[i]
      /\ \A i \in 1 .. Len(new) : writeQueue'[n + i] = new[i]
      /\ \A i \in 1 .. Len(writeQueue') : i \in 1 .. n \/ writeQueue'[i].command # "LISTEN"
      /\ writeTo' \in 1 .. Len(link)
      /\ writeQueue = <<>> => writeTo' = Server!Current
      /\ writeQueue # <<>> => writeTo' = writeTo
  <2>1. link # <<>>
    OBVIOUS
  <2>2. /\ writeQueue' \in Seq(Payloads) /\ Len(writeQueue') = n + Len(new)
        /\ \A i \in 1 .. n : writeQueue'[i] = writeQueue[i]
        /\ \A i \in 1 .. Len(new) : writeQueue'[n + i] = new[i]
        /\ \A i \in 1 .. Len(writeQueue') :
              i \in 1 .. n \/ (i - n \in 1 .. Len(new) /\ writeQueue'[i] = new[i - n])
        /\ writeTo' \in 1 .. Len(link)
        /\ writeQueue = <<>> => writeTo' = Server!Current
        /\ writeQueue # <<>> => writeTo' = writeTo
    BY <1>3, <1>6, <2>1, Enqueued DEF ServerInv
  <2> HIDE DEF n
  <2> QED BY <1>7, <2>2
<1>9. /\ link' \in Seq(SocketStates) /\ Len(link') = Len(link) /\ Server!Current' = Server!Current
      /\ overtaken' \in Seq(SUBSET Subjects) /\ Len(overtaken') = Len(overtaken)
      /\ overtaken'[Server!Current] = {s \in Subjects : listening[s] = "writing"}
  <2>1. Server!Current \in 1 .. Len(overtaken) /\ Server!Current = Len(link)
    BY DEF ServerInv, ServerTypes, Server!Current
  <2>2. /\ link \in Seq(SocketStates) /\ link' = [link EXCEPT ![k] = "open"] /\ "open" \in SocketStates
        /\ k \in 1 .. Len(link)
    BY DEF Server!Connects, ServerInv, ServerTypes, SocketStates
  <2>3. link' \in Seq(SocketStates) /\ Len(link') = Len(link)
    BY ONLY <2>2, ExceptSeq
  <2>4. /\ overtaken \in Seq(SUBSET Subjects)
        /\ overtaken' = [overtaken EXCEPT ![Server!Current] = {s \in Subjects : listening[s] = "writing"}]
    BY DEF Server!Connects, ServerInv, ServerTypes
  <2>5. /\ overtaken' \in Seq(SUBSET Subjects) /\ Len(overtaken') = Len(overtaken)
        /\ overtaken'[Server!Current] = {s \in Subjects : listening[s] = "writing"}
    BY ONLY <2>1, <2>4, ExceptSeq, {s \in Subjects : listening[s] = "writing"} \in SUBSET Subjects
  <2> QED BY <2>3, <2>5 DEF Server!Current
<1>10. UNCHANGED <<e5Status, heard, awaits, listening>>
  BY <1>3 DEF Server!ofServer, Server!ofHandlers
<1>11. ServerTypes'
  BY <1>8, <1>9, <1>10 DEF ServerInv, ServerTypes
<1>12. FirstListens'
  BY <1>8, <1>10 DEF ServerInv, FirstListens, Server!Ready
<1>13. LateIsNoted'
  <2> SUFFICES ASSUME writeTo' # Server!Current, writeQueue'[1].command = "LISTEN", writeQueue' # <<>>
               PROVE  writeQueue'[1].subject \in overtaken'[Server!Current]
    BY <1>9 DEF LateIsNoted
  <2>1. 1 \in 1 .. Len(writeQueue')
    BY <1>8
  <2>2. 1 \in 1 .. n /\ writeQueue'[1] = writeQueue[1]
    BY <1>8, <2>1
  <2>3. listening[writeQueue[1].subject] = "writing" /\ writeQueue[1] \in Payloads
    BY <2>2 DEF ServerInv, FirstListens, ServerTypes
  <2>4. writeQueue[1].subject \in Subjects
    BY <2>2, <2>3, PayloadsAre
  <2> QED BY <1>9, <2>2, <2>3, <2>4
<1>14. AgainIsOnItsWay'
  <2> SUFFICES ASSUME NEW s \in Server!Registered
               PROVE  Announced(s)'
    BY <1>10 DEF AgainIsOnItsWay, Server!Registered
  <2>1. PICK i \in 1 .. Len(again) : again[i] = Server!ListenAgain(s)
    BY <1>2
  <2>2. i + 1 \in 2 .. Len(new) /\ new[i + 1] = Server!ListenAgain(s)
    <3>1. i + 1 \in 2 .. Len(new) /\ i + 1 - 1 = i
      BY <1>2, <1>6
    <3> QED BY <1>6, <2>1, <3>1
  <2>3. /\ n + i + 1 \in 1 .. Len(writeQueue') /\ n + i + 1 > 1
        /\ writeQueue'[n + i + 1] = Server!ListenAgain(s)
    <3>1. n \in Nat /\ Len(new) \in Nat
      BY <1>2, <1>6 DEF ServerInv, ServerTypes
    <3> HIDE DEF n
    <3>2. writeQueue'[n + (i + 1)] = new[i + 1]
      BY <1>8, <2>2
    <3>3. n + (i + 1) = n + i + 1 /\ n + i + 1 \in 1 .. n + Len(new)
      BY <2>2, <3>1
    <3> QED BY <1>8, <2>2, <3>1, <3>2, <3>3
  <2> QED BY <2>3 DEF Announced, Server!ListenAgain
<1> QED BY <1>11, <1>12, <1>13, <1>14 DEF ServerInv

LEMMA EndKeepsServer ==
  ASSUME ServerInv, NEW k \in DOMAIN link, Server!Ends(k)
  PROVE  ServerInv'
<1>1. /\ \E st \in {"ended", "closed"} : link' = [link EXCEPT ![k] = st]
      /\ e5Status' = "CLOSED" /\ UNCHANGED <<heard, overtaken, awaits, listening, writeQueue, writeTo>>
  BY DEF Server!Ends, Server!ofServer, Server!ofHandlers, Server!ofWrites
<1>2. PICK st \in {"ended", "closed"} : link' = [link EXCEPT ![k] = st]
  BY <1>1
<1>3. /\ link' \in Seq(SocketStates) /\ Len(link') = Len(link)
      /\ \A j \in DOMAIN link : link'[j] = "open" => link[j] = "open"
  <2>1. link \in Seq(SocketStates) /\ st \in SocketStates /\ k \in 1 .. Len(link)
    BY DEF ServerInv, ServerTypes, SocketStates
  <2>2. /\ link' \in Seq(SocketStates) /\ Len(link') = Len(link)
        /\ \A j \in 1 .. Len(link) : link'[j] = IF j = k THEN st ELSE link[j]
    BY ONLY <1>2, <2>1, ExceptSeq
  <2> QED BY <2>1, <2>2
<1>4. Server!Current' = Server!Current /\ Server!Current \in DOMAIN link
  BY <1>3 DEF Server!Current, ServerInv, ServerTypes
<1>5. ServerTypes'
  BY <1>1, <1>3 DEF ServerInv, ServerTypes
<1>6. FirstListens'
  BY <1>1 DEF ServerInv, FirstListens, Server!Ready
<1>7. LateIsNoted'
  BY <1>1, <1>3, <1>4 DEF ServerInv, LateIsNoted
<1>8. AgainIsOnItsWay'
  <2> SUFFICES ASSUME link'[Server!Current] = "open", NEW s \in Server!Registered
               PROVE  s \in heard[Server!Current] \union overtaken[Server!Current] \/ Announced(s)'
    BY <1>1, <1>4 DEF AgainIsOnItsWay, Server!Registered
  <2>1. Announced(s) => Announced(s)'
    BY <1>1, <1>4 DEF Announced, Server!ListenAgain
  <2> QED BY <1>3, <1>4, <2>1 DEF ServerInv, AgainIsOnItsWay
<1> QED BY <1>5, <1>6, <1>7, <1>8 DEF ServerInv

LEMMA WriteKeepsServer ==
  ASSUME ServerInv, NEW ok \in BOOLEAN, Server!WriteEnds(ok)
  PROVE  ServerInv'
<1> DEFINE n == Len(writeQueue)
           p == Head(writeQueue)
<1>1. /\ UNCHANGED <<e5Status, link, greeted, awaits, overtaken>> /\ writeQueue # <<>>
      /\ writeTo' = IF writeQueue' = <<>> THEN 0 ELSE Server!Current
      /\ ~ok => link[writeTo] # "open"
  BY DEF Server!WriteEnds, Server!Written
<1>2. /\ n \in Nat \ {0} /\ p = writeQueue[1] /\ p \in Payloads
      /\ Tail(writeQueue) \in Seq(Payloads) /\ Len(Tail(writeQueue)) = n - 1
      /\ \A i \in 1 .. n - 1 : Tail(writeQueue)[i] = writeQueue[i + 1]
      /\ writeTo \in 1 .. Len(link) /\ Server!Current \in 1 .. Len(link) /\ Len(link) \in Nat
  <2>1. writeQueue \in Seq(Payloads) /\ writeQueue # <<>>
    BY <1>1 DEF ServerInv, ServerTypes
  <2>2. /\ p \in Payloads /\ Tail(writeQueue) \in Seq(Payloads) /\ Len(Tail(writeQueue)) = n - 1
        /\ \A i \in 1 .. Len(Tail(writeQueue)) : Tail(writeQueue)[i] = writeQueue[i + 1]
    BY ONLY <2>1, HeadTailProperties
  <2>3. n \in Nat \ {0} /\ p = writeQueue[1]
    BY ONLY <2>1, EmptySeq
  <2>4. writeTo \in 1 .. Len(link) /\ Server!Current \in 1 .. Len(link) /\ Len(link) \in Nat
    BY <1>1 DEF ServerInv, ServerTypes, Server!Current
  <2> QED BY <2>2, <2>3, <2>4
<1>3. Server!Current' = Server!Current
  BY <1>1 DEF Server!Current
<1>4. /\ heard' \in Seq(SUBSET Subjects) /\ Len(heard') = Len(heard)
      /\ \A k \in 1 .. Len(link) : heard[k] \subseteq heard'[k]
      /\ ok /\ p.command # "CONNECT" => p.subject \in heard'[writeTo]
  <2>0. heard \in Seq(SUBSET Subjects) /\ writeTo \in 1 .. Len(heard) /\ Len(heard) = Len(link)
    BY <1>2 DEF ServerInv, ServerTypes
  <2>1. CASE ok /\ p.command # "CONNECT"
    <3>1. heard' = [heard EXCEPT ![writeTo] = heard[writeTo] \union {p.subject}]
      BY <2>1 DEF Server!WriteEnds, Server!Reads
    <3>2. p.subject \in Subjects
      BY <1>2, <2>1, PayloadsAre
    <3>3. heard[writeTo] \union {p.subject} \in SUBSET Subjects
      BY <2>0, <3>2
    <3>4. /\ heard' \in Seq(SUBSET Subjects) /\ Len(heard') = Len(heard)
          /\ \A k \in 1 .. Len(heard) :
                heard'[k] = IF k = writeTo THEN heard[writeTo] \union {p.subject} ELSE heard[k]
      BY ONLY <2>0, <3>1, <3>3, ExceptSeq
    <3> QED BY <2>0, <3>4
  <2>2. CASE ~ok \/ p.command = "CONNECT"
    <3>1. heard' = heard
      BY <2>2 DEF Server!WriteEnds, Server!Reads
    <3> QED BY <2>0, <2>2, <3>1
  <2> QED BY <2>1, <2>2
<1>5. CASE p.command # "LISTEN"
  <2>1. writeQueue' = Tail(writeQueue) /\ UNCHANGED <<generalQueue, listening>>
    BY <1>5 DEF Server!WriteEnds
  <2>2. /\ Len(writeQueue') = n - 1 /\ \A i \in 1 .. n - 1 : writeQueue'[i] = writeQueue[i + 1]
        /\ writeQueue' \in Seq(Payloads)
    BY <1>2, <2>1
  <2>3. ServerTypes'
    BY <1>1, <1>2, <1>3, <1>4, <2>1, <2>2 DEF ServerInv, ServerTypes
  <2>4. FirstListens'
    <3>1. awaits' # Server!Ready' => \A s \in Subjects : listening'[s] = "added"
      BY <1>1, <2>1 DEF ServerInv, FirstListens, Server!Ready
    <3>2. ASSUME NEW i \in 1 .. Len(writeQueue'), writeQueue'[i].command = "LISTEN"
          PROVE  /\ listening'[writeQueue'[i].subject] = "writing"
                 /\ \A j \in 1 .. Len(writeQueue') : writeQueue'[j].command = "LISTEN" => i = j
      <4>1. \A j \in 1 .. Len(writeQueue') : j + 1 \in 1 .. n /\ writeQueue'[j] = writeQueue[j + 1]
        BY <1>2, <2>2
      <4> HIDE DEF n
      <4>2. listening[writeQueue[i + 1].subject] = "writing"
        BY <3>2, <4>1 DEF n, ServerInv, FirstListens
      <4>3. \A j \in 1 .. Len(writeQueue') : writeQueue'[j].command = "LISTEN" => i + 1 = j + 1
        BY <3>2, <4>1 DEF n, ServerInv, FirstListens
      <4>4. \A j \in 1 .. Len(writeQueue') : i + 1 = j + 1 => i = j
        BY <1>2, <2>2
      <4> QED BY <2>1, <4>1, <4>2, <4>3, <4>4
    <3> QED BY <3>1, <3>2 DEF FirstListens
  <2>5. LateIsNoted'
    BY <1>1, <1>3 DEF LateIsNoted
  <2>6. AgainIsOnItsWay'
    <3> SUFFICES ASSUME link[Server!Current] = "open", NEW s \in Server!Registered
                 PROVE  s \in heard'[Server!Current] \union overtaken[Server!Current] \/ Announced(s)'
      BY <1>1, <1>3, <2>1 DEF AgainIsOnItsWay, Server!Registered
    <3>1. CASE s \in heard[Server!Current] \union overtaken[Server!Current]
      BY <1>2, <1>4, <3>1
    <3>2. ASSUME NEW i \in 1 .. n, writeQueue[i] = Server!ListenAgain(s), i > 1 \/ writeTo = Server!Current
          PROVE  s \in heard'[Server!Current] \/ Announced(s)'
      <4>1. CASE i = 1
        <5>1. p.subject = s /\ p.command # "CONNECT" /\ writeTo = Server!Current
          <6>1. s \in Subjects
            BY DEF Server!Registered
          <6>2. p = Server!ListenAgain(s) /\ writeTo = Server!Current
            BY <1>2, <3>2, <4>1
          <6>3. Server!ListenAgain(s).command = "LISTEN again" /\ Server!ListenAgain(s).subject = s
            BY <6>1, PayloadsAre
          <6> HIDE DEF p
          <6> QED BY <6>2, <6>3
        <5> QED BY <1>1, <1>4, <5>1
      <4>2. CASE i # 1
        <5>1. i - 1 \in 1 .. Len(writeQueue') /\ writeQueue'[i - 1] = Server!ListenAgain(s)
          BY <1>2, <2>2, <3>2, <4>2
        <5>2. writeTo' = Server!Current'
          BY <1>1, <1>3, <2>2, <5>1
        <5> QED BY <5>1, <5>2 DEF Announced, Server!ListenAgain
      <4> QED BY <4>1, <4>2
    <3>3. s \in heard[Server!Current] \union overtaken[Server!Current] \/ Announced(s)
      BY <1>2 DEF ServerInv, AgainIsOnItsWay, ServerTypes
    <3> QED BY <3>1, <3>2, <3>3 DEF Announced
  <2> QED BY <2>3, <2>4, <2>5, <2>6 DEF ServerInv
<1>6. CASE p.command = "LISTEN"
  <2> DEFINE left == Server!CallsLeft(ok)
             begins == {c \in Subjects : left # <<>> /\ c = left[1] /\ listening[c] = "queued"}
             firsts == {Server!ListenFirst(c) : c \in begins}
             new == Server!SetToSeq(firsts)
  <2>1. /\ listening' = [c \in Subjects |->
              IF c = p.subject THEN IF ok THEN "registered" ELSE "failed"
              ELSE IF c \in begins THEN "writing" ELSE listening[c]]
        /\ writeQueue' = Tail(writeQueue) \o new
    BY <1>6 DEF Server!WriteEnds, Server!ListenEnds
  <2>2. /\ begins \subseteq Subjects /\ \A c, d \in begins : c = d
        /\ \A c \in begins : listening[c] = "queued"
    OBVIOUS
  <2> HIDE DEF begins
  <2>3. new \in Seq(Payloads) /\ Len(new) \in {0, 1} /\ (Len(new) = 1 => \E c \in begins : new[1] = Server!ListenFirst(c))
    <3>1. firsts = {} \/ \E c \in begins : firsts = {Server!ListenFirst(c)}
      BY <2>2
    <3>2. IsFiniteSet(firsts) /\ Cardinality(firsts) \in {0, 1}
      <4> HIDE DEF firsts
      <4>1. CASE firsts = {}
        BY <4>1, FS_EmptySet
      <4>2. ASSUME NEW c \in begins, firsts = {Server!ListenFirst(c)}
            PROVE  IsFiniteSet(firsts) /\ Cardinality(firsts) = 1
        BY <4>2, FS_Singleton
      <4> QED BY <3>1, <4>1, <4>2
    <3>3. new \in Seq(firsts) /\ Len(new) = Cardinality(firsts)
      BY <3>2, SetToSeqIs
    <3>4. firsts \subseteq Payloads
      <4>1. \A c \in begins : Server!ListenFirst(c) \in Payloads
        BY <2>2, PayloadsAre
      <4> QED BY <3>1, <4>1
    <3> HIDE DEF new
    <3>5. new \in Seq(Payloads)
      BY <3>3, <3>4, SeqMonotonic
    <3>6. Len(new) = 1 => new[1] \in firsts
      <4> HIDE DEF firsts
      <4> QED BY <3>3
    <3> QED BY <3>1, <3>2, <3>3, <3>5, <3>6
  <2> HIDE DEF new
  <2>4. /\ writeQueue' \in Seq(Payloads) /\ Len(writeQueue') = n - 1 + Len(new)
        /\ \A i \in 1 .. n - 1 : writeQueue'[i] = writeQueue[i + 1]
        /\ \A i \in 1 .. Len(writeQueue') :
              i \in 1 .. n - 1 \/ (i = n /\ \E c \in begins : writeQueue'[i] = Server!ListenFirst(c))
    <3>1. /\ writeQueue' \in Seq(Payloads) /\ Len(writeQueue') = Len(Tail(writeQueue)) + Len(new)
          /\ \A i \in 1 .. Len(Tail(writeQueue)) + Len(new) :
                writeQueue'[i] = IF i <= Len(Tail(writeQueue)) THEN Tail(writeQueue)[i]
                                 ELSE new[i - Len(Tail(writeQueue))]
      <4>1. Tail(writeQueue) \in Seq(Payloads)
        BY <1>2
      <4> QED BY ONLY <2>1, <2>3, <4>1, ConcatProperties
    <3> HIDE DEF n
    <3>2. ASSUME NEW i \in 1 .. n - 1 PROVE writeQueue'[i] = writeQueue[i + 1]
      BY <1>2, <2>3, <3>1
    <3>3. ASSUME NEW i \in 1 .. Len(writeQueue'), i \notin 1 .. n - 1
          PROVE  i = n /\ \E c \in begins : writeQueue'[i] = Server!ListenFirst(c)
      <4>0. n \in Nat \ {0} /\ Len(Tail(writeQueue)) = n - 1 /\ Len(writeQueue') = n - 1 + Len(new)
        BY <1>2, <3>1
      <4>1. i = n /\ Len(new) = 1 /\ i - Len(Tail(writeQueue)) = 1
        <5>1. Len(new) = 0 \/ Len(new) = 1
          BY <2>3
        <5>2. i \in 1 .. n - 1 + Len(new)
          BY <4>0
        <5>3. Len(new) = 1
          BY <3>3, <4>0, <5>1, <5>2
        <5>4. i \in 1 .. n
          BY <4>0, <5>2, <5>3
        <5>5. i = n
          BY <3>3, <4>0, <5>4
        <5> QED BY <4>0, <5>3, <5>5
      <4>2. writeQueue'[i] = new[1]
        BY <1>2, <3>1, <4>1
      <4> QED BY <2>3, <4>1, <4>2
    <3> QED BY <1>2, <3>1, <3>2, <3>3
  <2>5. p.subject \in Subjects /\ listening[p.subject] = "writing"
        /\ \A i \in 2 .. n : writeQueue[i].command # "LISTEN"
    <3>1. 1 \in 1 .. n
      BY <1>2
    <3>2. p.subject \in Subjects
      BY <1>2, <1>6, PayloadsAre
    <3>3. \A i \in 2 .. n : i \in 1 .. n /\ i # 1
      BY <1>2
    <3> QED BY <1>2, <1>6, <3>1, <3>2, <3>3 DEF ServerInv, FirstListens
  <2>6. ServerTypes'
    <3>1. listening' \in [Subjects -> {"added", "queued", "writing", "registered", "failed"}]
      BY <2>1 DEF ServerInv, ServerTypes
    <3> QED BY <1>1, <1>2, <1>3, <1>4, <2>4, <3>1 DEF ServerInv, ServerTypes
  <2>7. FirstListens'
    <3>1. awaits = Server!Ready
      BY <2>5 DEF ServerInv, FirstListens
    <3>2. ASSUME NEW i \in 1 .. Len(writeQueue'), writeQueue'[i].command = "LISTEN"
          PROVE  i = n /\ listening'[writeQueue'[i].subject] = "writing"
      <4>1. i \notin 1 .. n - 1
        <5> SUFFICES ASSUME i \in 1 .. n - 1 PROVE FALSE
          OBVIOUS
        <5>1. i + 1 \in 2 .. n
          BY <1>2
        <5> QED BY <2>4, <2>5, <3>2, <5>1
      <4>2. PICK c \in begins : writeQueue'[i] = Server!ListenFirst(c)
        BY <2>4, <4>1
      <4>3. writeQueue'[i].subject = c /\ c # p.subject
        BY <2>2, <2>5, <4>2, PayloadsAre
      <4> QED BY <2>1, <2>2, <2>4, <4>1, <4>3
    <3> QED BY <1>1, <3>1, <3>2 DEF FirstListens, Server!Ready
  <2>8. LateIsNoted'
    BY <1>1, <1>3 DEF LateIsNoted
  <2>9. AgainIsOnItsWay'
    <3> SUFFICES ASSUME link[Server!Current] = "open", NEW s \in Server!Registered'
                 PROVE  s \in heard'[Server!Current] \union overtaken[Server!Current] \/ Announced(s)'
      BY <1>1, <1>3 DEF AgainIsOnItsWay
    <3>1. CASE s = p.subject
      <4>1. ok
        BY <2>1, <2>5, <3>1 DEF Server!Registered
      <4>2. p.subject \in heard'[writeTo]
        BY <1>4, <1>6, <4>1
      <4>3. CASE writeTo = Server!Current
        BY <3>1, <4>2, <4>3
      <4>4. CASE writeTo # Server!Current
        <5>1. link # <<>>
          BY <1>2 DEF ServerInv, ServerTypes
        <5> QED BY <1>1, <1>2, <1>6, <3>1, <4>4, <5>1 DEF ServerInv, LateIsNoted
      <4> QED BY <4>3, <4>4
    <3>2. CASE s # p.subject
      <4>1. s \in Server!Registered
        BY <2>1, <3>2 DEF Server!Registered
      <4>2. CASE s \in heard[Server!Current] \union overtaken[Server!Current]
        BY <1>2, <1>4, <4>2
      <4>3. ASSUME NEW i \in 1 .. n, writeQueue[i] = Server!ListenAgain(s)
            PROVE  Announced(s)'
        <5>1. i # 1
          <6>1. s \in Subjects
            BY <4>1 DEF Server!Registered
          <6>2. writeQueue[i].command # "LISTEN"
            BY <4>3, <6>1, PayloadsAre
          <6> QED BY <1>2, <1>6, <6>2
        <5>2. i - 1 \in 1 .. n - 1 /\ i - 1 + 1 = i /\ i - 1 \in 1 .. Len(writeQueue')
          <6>1. n \in Nat /\ Len(writeQueue') \in Nat /\ n - 1 <= Len(writeQueue')
            <7>1. n \in Nat
              BY <1>2
            <7>2. Len(new) \in Nat
              BY <2>3
            <7>3. Len(writeQueue') = n - 1 + Len(new) /\ n # 0
              BY <1>2, <2>4
            <7> QED BY ONLY <7>1, <7>2, <7>3
          <6>2. i \in 1 .. n /\ i > 1
            BY <5>1
          <6> QED BY ONLY <6>1, <6>2
        <5>3. writeQueue'[i - 1] = Server!ListenAgain(s)
          BY <2>4, <4>3, <5>2
        <5>4. writeTo' = Server!Current'
          BY <1>1, <1>3, <2>4, <5>2
        <5> QED BY <5>2, <5>3, <5>4 DEF Announced, Server!ListenAgain
      <4>4. s \in heard[Server!Current] \union overtaken[Server!Current] \/ Announced(s)
        <5>1. link # <<>>
          BY <1>2 DEF ServerInv, ServerTypes
        <5> QED BY <4>1, <5>1 DEF ServerInv, AgainIsOnItsWay
      <4> QED BY <4>2, <4>3, <4>4 DEF Announced
    <3> QED BY <3>1, <3>2
  <2> QED BY <2>6, <2>7, <2>8, <2>9 DEF ServerInv
<1> QED BY <1>5, <1>6

LEMMA ServerInductive == ServerInv /\ [Server!SubscriptionsNext]_(Server!subscriptionVars) => ServerInv'
<1> SUFFICES ASSUME ServerInv, [Server!SubscriptionsNext]_(Server!subscriptionVars) PROVE ServerInv'
  OBVIOUS
<1>0. Server!Unasked # Server!Ready /\ Server!AnyGreeting # Server!Ready
  BY ServerNumbers DEF Server!Unasked, Server!Ready, Server!AnyGreeting
<1>1. CASE UNCHANGED Server!subscriptionVars
  BY <1>1 DEF Server!subscriptionVars, ServerInv, ServerTypes, FirstListens, LateIsNoted, AgainIsOnItsWay, Server!Registered,
              Announced, Server!Current, Server!ListenAgain, Server!Ready
<1>2. CASE Server!listen
  <2>1. CASE e5Status = "CLOSED"
    BY <1>2, <2>1, SocketOpens DEF Server!listen, Server!ofWrites
  <2>2. CASE e5Status = "CONNECTING"
    <3>1. UNCHANGED <<e5Status, link, heard, overtaken, listening, writeQueue, writeTo>> /\ awaits = Server!Unasked
      BY <1>2, <2>2 DEF Server!listen, Server!ofWrites, Server!ofServer
    <3>2. \A s \in Subjects : listening[s] = "added"
      BY <1>0, <3>1 DEF ServerInv, FirstListens
    <3>3. FirstListens'
      BY <3>1, <3>2 DEF ServerInv, FirstListens
    <3> QED BY <3>1, <3>3 DEF ServerInv, ServerTypes, LateIsNoted, AgainIsOnItsWay, Server!Registered, Announced,
                              Server!Current, Server!ListenAgain
  <2>3. CASE e5Status = "CONNECTED"
    <3>1. /\ Server!BecomesReady /\ UNCHANGED <<link, heard, overtaken>> /\ e5Status' = "CONNECTED"
          /\ awaits = Server!Unasked /\ link # <<>>
      BY <1>2, <2>3 DEF Server!listen, Server!ofServer, ServerInv, ServerTypes
    <3> QED BY <1>0, <3>1, ReadyKeepsServer
  <2> QED BY <2>1, <2>2, <2>3 DEF ServerInv, ServerTypes
<1>3. CASE Server!Reconnect
  BY <1>3, SocketOpens DEF Server!Reconnect, Server!ofHandlers, Server!ofWrites
<1>4. ASSUME NEW k \in DOMAIN link, Server!Connects(k) PROVE ServerInv'
  BY <1>4, ConnectKeepsServer
<1>5. ASSUME NEW k \in DOMAIN link, Server!Greets(k) PROVE ServerInv'
  <2>1. k \in 1 .. Len(link) /\ Len(link) <= MaxLinks /\ link # <<>> /\ Len(link) \in Nat
    BY DEF ServerInv, ServerTypes
  <2>2. UNCHANGED <<link, heard, overtaken>> /\ e5Status' = "CONNECTED"
    BY <1>5 DEF Server!Greets
  <2>3. CASE awaits \in {k, Server!AnyGreeting}
    <3>1. awaits # Server!Ready
      BY <1>0, <2>1, <2>3, ServerNumbers DEF Server!Ready
    <3> QED BY <1>5, <2>1, <2>2, <2>3, <3>1, ReadyKeepsServer DEF Server!Greets
  <2>4. CASE awaits \notin {k, Server!AnyGreeting}
    <3>1. UNCHANGED <<awaits, listening, writeQueue, writeTo>>
      BY <1>5, <2>4 DEF Server!Greets, Server!ofHandlers, Server!ofWrites
    <3> QED BY <2>1, <2>2, <3>1 DEF ServerInv, ServerTypes, FirstListens, LateIsNoted, AgainIsOnItsWay,
                                    Server!Registered, Announced, Server!Current, Server!ListenAgain, Server!Ready
  <2> QED BY <2>3, <2>4
<1>6. ASSUME NEW k \in DOMAIN link, Server!Ends(k) PROVE ServerInv'
  BY <1>6, EndKeepsServer
<1>7. ASSUME NEW ok \in BOOLEAN, Server!WriteEnds(ok) PROVE ServerInv'
  BY <1>7, WriteKeepsServer
<1> QED BY <1>1, <1>2, <1>3, <1>4, <1>5, <1>6, <1>7 DEF Server!SubscriptionsNext

LEMMA ListenedAgainFollows == ServerInv => Server!ListenedAgain
<1> SUFFICES ASSUME ServerInv, e5Status = "CONNECTED", link[Server!Current] = "open", writeQueue = <<>>,
                    NEW s \in Server!Registered
             PROVE  s \in heard[Server!Current] \union overtaken[Server!Current]
  BY DEF Server!ListenedAgain
<1>1. ~Announced(s)
  BY DEF Announced
<1> QED BY <1>1 DEF ServerInv, ServerTypes, AgainIsOnItsWay

-----------------------------------------------------------------------------
(* RealtimeChat. Of an answer, its events and their handlers; and of what  *)
(* one answer at a time means for the sessions.                            *)
Active(a) == gen[a].step \notin {"idle", "over"}
Steps == {"idle", "read", "load", "status", "save", "stream", "over"}
ChatTypes ==
    /\ sessionOf \in [Messages -> Sessions]
    /\ sessionStatus \in [Sessions -> Chat!Statuses]
    /\ chatPc \in [Messages -> {"load", "session", "message", "done"}]
    /\ gen \in [Answers -> [step : Steps, session : Sessions \union {None}, target : SUBSET Messages,
                            mute : BOOLEAN, loaded : Chat!Statuses, sent : 0 .. Parts]]
    /\ seen \in [Messages -> Chat!Statuses]
    /\ stored \in [Answers -> [stage : {"none", "ANSWER", "DONE"}, text : Seq(1 .. Parts)]]
    /\ \A a \in Answers : gen[a].step # "idle" => gen[a].session \in Sessions
    /\ events \subseteq Chat!Events
    /\ \A h \in handlers : h.event \in Chat!Events /\ h.step \in {"save", "title", "finish"}
    /\ \A h \in handlers : h.step = "save" => h.loaded \in [stage : {"none", "ANSWER", "DONE"}, text : Seq(1 .. Parts)]

(* An answer that has begun to be streamed, and one that is over.          *)
EventsAreOfStreams ==
    /\ \A e \in events : gen[e.answer].step \in {"stream", "over"} /\ stored[e.answer].stage # "none"
    /\ \A h \in handlers : /\ gen[h.event.answer].step \in {"stream", "over"}
                           /\ stored[h.event.answer].stage # "none"
                           /\ h.step = "save" => h.loaded.stage # "none"
    /\ \A a \in Answers : gen[a].step \in {"idle", "read", "load", "status", "save"} =>
          gen[a].sent = 0 /\ stored[a] = [stage |-> "none", text |-> <<>>]
    /\ \A a \in Answers : gen[a].step = "stream" => gen[a].sent < Parts /\ stored[a].stage = "ANSWER"

EndsAreOver ==
    /\ \A e \in events : e.part = Chat!DONE => gen[e.answer].step = "over"
    /\ \A h \in handlers : h.event.part = Chat!DONE \/ h.step # "save" => gen[h.event.answer].step = "over"
    /\ \A h \in handlers : h.step = "save" /\ h.loaded.stage = "DONE" => gen[h.event.answer].step = "over"
    /\ \A a \in Answers : stored[a].stage = "DONE" => gen[a].step = "over"

Undisturbed == odd \intersect {"overlap", "double"} = {}
Pending(a) == (\E e \in events : e.answer = a) \/ \E h \in handlers : h.event.answer = a

OneByOne ==
    Undisturbed =>
        /\ \A s \in Sessions : ~(Chat!Inserting(s) /\ Chat!Answering(s))
        /\ tick = "find" => \A a \in Answers : ~Active(a)
        /\ \A a, b \in Answers : Active(a) /\ Active(b) => a = b
        /\ \A a, b \in Answers : (Active(a) \/ Pending(a)) /\ (Active(b) \/ Pending(b))
                                    /\ gen[a].session = gen[b].session => a = b
        /\ \A a \in Answers : Chat!Starting(a) => sessionStatus[gen[a].session] = "WAITING"
        /\ \A a \in Answers : gen[a].step = "status" => gen[a].loaded = "WAITING"
        /\ \A a \in Answers : gen[a].step \in {"save", "stream"} => sessionStatus[gen[a].session] = "CONTINUING"
        /\ \A a \in Answers : Pending(a) => sessionStatus[gen[a].session] # "WAITING"

(* Of an answer whose events are handled one by one and in order.          *)
Upto(n) == [i \in 1 .. n |-> i]
Has(a) == Len(stored[a].text)
Sent(a, p) == p <= gen[a].sent \/ (p = Chat!DONE /\ gen[a].sent = Parts)
InOrder(a) ==
    /\ Has(a) <= gen[a].sent /\ stored[a].text = Upto(Has(a))
    /\ \A e \in events : e.answer = a => Sent(a, e.part) /\ Has(a) < e.part
    /\ \A h \in handlers : h.event.answer = a /\ h.step = "save" =>
          /\ Sent(a, h.event.part) /\ Has(a) < h.event.part
          /\ h.loaded = stored[a] /\ stored[a].stage = "ANSWER"
          /\ \A k \in handlers : k.event.answer = a /\ k.step = "save" => k = h
          /\ \A e \in events : e.answer = a => h.event.part < e.part
    /\ \A p \in 1 .. gen[a].sent :
          \/ p <= Has(a)
          \/ \E e \in events : e.answer = a /\ e.part = p
          \/ \E h \in handlers : h.event.answer = a /\ h.step = "save" /\ h.event.part = p
    /\ stored[a].stage = "DONE" =>
          /\ Has(a) = Parts
          /\ \A e \in events : e.answer # a
          /\ \A h \in handlers : h.event.answer = a => h.step # "save"

ChatInv ==
    /\ ChatTypes /\ EventsAreOfStreams /\ EndsAreOver /\ OneByOne
    /\ \A a \in Answers \ raced : InOrder(a)

LEMMA HasSome == ChatInv => \A a \in Answers : Has(a) \in Nat /\ stored[a].text \in Seq(1 .. Parts)
<1> SUFFICES ASSUME ChatInv, NEW a \in Answers PROVE Has(a) \in Nat /\ stored[a].text \in Seq(1 .. Parts)
  OBVIOUS
<1>1. stored[a].text \in Seq(1 .. Parts)
  BY DEF ChatInv, ChatTypes
<1> QED BY <1>1, LenProperties DEF Has

LEMMA NoText == Len(<<>>) = 0 /\ Upto(0) = <<>> /\ \A S : <<>> \in Seq(S)
BY DEF Upto

LEMMA NextPart ==
  ASSUME NEW n \in Nat, NEW t \in Seq(Nat), t = Upto(n), Len(t) = n
  PROVE  Append(t, n + 1) = Upto(n + 1) /\ Len(Append(t, n + 1)) = n + 1
<1>1. /\ Append(t, n + 1) \in Seq(Nat) /\ Len(Append(t, n + 1)) = n + 1
      /\ \A i \in 1 .. n : Append(t, n + 1)[i] = t[i]
      /\ Append(t, n + 1)[n + 1] = n + 1
  BY AppendProperties
<1>2. DOMAIN Append(t, n + 1) = 1 .. n + 1
  BY <1>1, LenProperties
<1>3. \A i \in 1 .. n + 1 : Append(t, n + 1)[i] = i
  BY <1>1 DEF Upto
<1>4. Append(t, n + 1) = [i \in DOMAIN Append(t, n + 1) |-> Append(t, n + 1)[i]]
  BY <1>1, LenProperties
<1> QED BY <1>1, <1>2, <1>3, <1>4 DEF Upto

LEMMA ChatStarts == Chat!ChatInit => ChatInv
<1> SUFFICES ASSUME Chat!ChatInit PROVE ChatInv
  OBVIOUS
<1> USE DEF Chat!ChatInit
<1>1. ChatTypes
  BY ChatNumbers, NoText DEF ChatTypes, Chat!Statuses, Chat!Idle, Active, Steps
<1>2. EventsAreOfStreams /\ EndsAreOver
  BY DEF EventsAreOfStreams, EndsAreOver, Chat!Idle
<1>3. OneByOne
  BY DEF OneByOne, Chat!Inserting, Active, Pending, Chat!Starting, Chat!Idle
<1>4. \A a \in Answers \ raced : InOrder(a)
  BY ChatNumbers, NoText DEF InOrder, Has, Chat!Idle
<1> QED BY <1>1, <1>2, <1>3, <1>4 DEF ChatInv

(* What the history says of a step that keeps the answers undisturbed.     *)
LEMMA NotedSays ==
  ASSUME NEW more, Chat!Noted(more), Undisturbed'
  PROVE  /\ Undisturbed
         /\ \A s \in Sessions : ~(Chat!Inserting(s)' /\ Chat!Answering(s)')
         /\ ~(tick' = "find" /\ \E a \in Answers : Chat!Starting(a)')
<1>1. \A x \in {"overlap", "double"} : x \notin odd'
  BY DEF Undisturbed
<1>2. odd \subseteq odd'
  BY DEF Chat!Noted
<1>3. Undisturbed
  BY <1>1, <1>2 DEF Undisturbed
<1>4. (\E s \in Sessions : Chat!Inserting(s)' /\ Chat!Answering(s)') => "overlap" \in odd'
  BY DEF Chat!Noted
<1>5. (tick' = "find" /\ \E a \in Answers : Chat!Starting(a)') => "double" \in odd'
  BY DEF Chat!Noted
<1> QED BY <1>1, <1>3, <1>4, <1>5

(* A session is answered by an answer that is active or has events pending.*)
LEMMA AnsweringIs ==
  ASSUME ChatTypes, NEW a \in Answers, Active(a) \/ Pending(a)
  PROVE  Chat!Answering(gen[a].session)
BY DEF Chat!Answering, Active, Pending

(* Requests only change sessions, and not those that are being answered.   *)
LEMMA InsertKeepsChat ==
  ASSUME ChatInv, NEW c \in Messages, Chat!Insert(c), NEW more, Chat!Noted(more)
  PROVE  ChatInv'
<1>1. UNCHANGED <<tick, gen, stored, events, handlers, raced, sessionOf>>
  BY DEF Chat!Insert, Chat!LoadSession, Chat!SaveSession, Chat!SaveMessage, Chat!bus, Chat!Noted
<1>2. (EventsAreOfStreams /\ EndsAreOver)'
  BY <1>1 DEF ChatInv, EventsAreOfStreams, EndsAreOver
<1>3. \A a \in Answers \ raced' : InOrder(a)'
  BY <1>1 DEF ChatInv, InOrder, Has, Sent
<1>4. /\ sessionStatus' \in [Sessions -> Chat!Statuses]
      /\ \A s \in Sessions : sessionStatus'[s] = sessionStatus[s] \/ (sessionStatus'[s] = "WAITING" /\ Chat!Inserting(s))
  <2>1. CASE Chat!SaveSession(c)
    BY <2>1 DEF Chat!SaveSession, Chat!Set, Chat!Written, Chat!Inserting, ChatInv, ChatTypes, Chat!Statuses
  <2>2. CASE Chat!LoadSession(c) \/ Chat!SaveMessage(c)
    BY <2>2 DEF Chat!LoadSession, Chat!SaveMessage, ChatInv, ChatTypes
  <2> QED BY <2>1, <2>2 DEF Chat!Insert
<1>5. ChatTypes'
  <2>1. chatPc' \in [Messages -> {"load", "session", "message", "done"}] /\ seen' \in [Messages -> Chat!Statuses]
    BY DEF Chat!Insert, Chat!LoadSession, Chat!SaveSession, Chat!SaveMessage, ChatInv, ChatTypes, Chat!Statuses
  <2> QED BY <1>1, <1>4, <2>1 DEF ChatInv, ChatTypes, Active
<1>6. OneByOne'
  <2> SUFFICES ASSUME Undisturbed' PROVE OneByOne'
    BY DEF OneByOne
  <2>1. /\ Undisturbed
        /\ \A s \in Sessions : ~(Chat!Inserting(s)' /\ Chat!Answering(s)')
    BY NotedSays
  <2>2. ASSUME NEW a \in Answers, Active(a) \/ Pending(a)
        PROVE  gen[a].session \in Sessions /\ sessionStatus'[gen[a].session] = sessionStatus[gen[a].session]
    <3>1. gen[a].session \in Sessions
      BY <2>2 DEF ChatInv, ChatTypes, EventsAreOfStreams, Active, Pending
    <3>2. ~Chat!Inserting(gen[a].session)
      BY <2>1, <2>2, <3>1, AnsweringIs DEF ChatInv, OneByOne
    <3> QED BY <1>4, <3>1, <3>2
  <2>3. \A a \in Answers : (Chat!Starting(a) \/ gen[a].step \in {"save", "stream"}) => Active(a)
    BY DEF Chat!Starting, Active
  <2>4. \A a \in Answers : /\ Active(a)' = Active(a) /\ Pending(a)' = Pending(a) /\ Chat!Starting(a)' = Chat!Starting(a)
                           /\ gen'[a] = gen[a]
    BY <1>1 DEF Active, Pending, Chat!Starting
  <2> QED BY <1>1, <2>1, <2>2, <2>3, <2>4 DEF ChatInv, OneByOne
<1> QED BY <1>2, <1>3, <1>5, <1>6 DEF ChatInv

LEMMA CountKeepsChat ==
  ASSUME ChatInv, Chat!CronCounts, NEW more, Chat!Noted(more)
  PROVE  ChatInv'
<1>1. UNCHANGED <<sessionStatus, messages, chatPc, seen, gen, stored, events, handlers, raced, sessionOf>>
  BY DEF Chat!CronCounts, Chat!users, Chat!bus, Chat!Noted
<1>2. (EventsAreOfStreams /\ EndsAreOver /\ ChatTypes)'
  BY <1>1 DEF ChatInv, EventsAreOfStreams, EndsAreOver, ChatTypes, Active
<1>3. \A a \in Answers \ raced' : InOrder(a)'
  BY <1>1 DEF ChatInv, InOrder, Has, Sent
<1>4. OneByOne'
  <2> SUFFICES ASSUME Undisturbed' PROVE OneByOne'
    BY DEF OneByOne
  <2>1. /\ Undisturbed
        /\ \A s \in Sessions : ~(Chat!Inserting(s)' /\ Chat!Answering(s)')
        /\ ~(tick' = "find" /\ \E a \in Answers : Chat!Starting(a)')
    BY NotedSays
  <2>4. \A a \in Answers : /\ Active(a)' = Active(a) /\ Pending(a)' = Pending(a) /\ Chat!Starting(a)' = Chat!Starting(a)
                           /\ gen'[a] = gen[a]
    BY <1>1 DEF Active, Pending, Chat!Starting
  <2>5. \A a \in Answers : ~Active(a)
    <3> SUFFICES ASSUME NEW a \in Answers, Active(a) PROVE FALSE
      OBVIOUS
    <3>1. ~Chat!Starting(a)
      BY <2>1, <2>4 DEF Chat!CronCounts
    <3>2. gen[a].step \in {"save", "stream"}
      BY <3>1 DEF Active, Chat!Starting, Steps, ChatInv, ChatTypes
    <3>3. sessionStatus[gen[a].session] = "CONTINUING" /\ gen[a].session \in Sessions
      BY <2>1, <3>2 DEF ChatInv, OneByOne, ChatTypes
    <3> QED BY <3>3 DEF Chat!CronCounts, Chat!Count
  <2> QED BY <1>1, <2>1, <2>4, <2>5 DEF ChatInv, OneByOne
<1> QED BY <1>2, <1>3, <1>4 DEF ChatInv

LEMMA FindKeepsChat ==
  ASSUME ChatInv, Chat!CronFinds, NEW more, Chat!Noted(more)
  PROVE  ChatInv'
<1>1. UNCHANGED <<sessionStatus, messages, chatPc, seen, stored, events, handlers, raced, sessionOf>> /\ tick = "find" /\ tick' = "count"
  BY DEF Chat!CronFinds, Chat!users, Chat!bus, Chat!Noted
<1>2. CASE UNCHANGED gen
  <2>1. (EventsAreOfStreams /\ EndsAreOver /\ ChatTypes)'
    BY <1>1, <1>2 DEF ChatInv, EventsAreOfStreams, EndsAreOver, ChatTypes, Active
  <2>2. \A a \in Answers \ raced' : InOrder(a)'
    BY <1>1, <1>2 DEF ChatInv, InOrder, Has, Sent
  <2>3. OneByOne'
    <3> SUFFICES ASSUME Undisturbed' PROVE OneByOne'
      BY DEF OneByOne
    <3>1. /\ Undisturbed
          /\ \A s \in Sessions : ~(Chat!Inserting(s)' /\ Chat!Answering(s)')
      BY NotedSays
    <3>2. \A a \in Answers : /\ Active(a)' = Active(a) /\ Pending(a)' = Pending(a) /\ Chat!Starting(a)' = Chat!Starting(a)
                             /\ gen'[a] = gen[a]
      BY <1>1, <1>2 DEF Active, Pending, Chat!Starting
    <3> QED BY <1>1, <3>1, <3>2 DEF ChatInv, OneByOne
  <2> QED BY <2>1, <2>2, <2>3 DEF ChatInv
<1>3. ASSUME NEW s \in Sessions, sessionStatus[s] = "WAITING", Chat!Unused # {},
             gen' = [gen EXCEPT ![Chat!AnAnswer] = [Chat!Idle EXCEPT !.step = "read", !.session = s]]
      PROVE  ChatInv'
  <2>1. PICK a \in Answers : a = Chat!AnAnswer /\ gen[a].step = "idle"
    BY <1>3 DEF Chat!Unused, Chat!AnAnswer
  <2>2. /\ gen'[a] = [step |-> "read", session |-> s, target |-> {}, mute |-> FALSE, loaded |-> None, sent |-> 0]
        /\ \A b \in Answers : b # a => gen'[b] = gen[b]
        /\ DOMAIN gen' = Answers
    BY <1>3, <2>1 DEF Chat!Idle, ChatInv, ChatTypes
  <2>3. /\ \A e \in events : e.answer \in Answers /\ e.answer # a
        /\ \A h \in handlers : h.event.answer \in Answers /\ h.event.answer # a
    BY <2>1 DEF ChatInv, ChatTypes, EventsAreOfStreams, Chat!Events
  <2>4. ChatTypes'
    <3>1. gen'[a] \in [step : Steps, session : Sessions \union {None}, target : SUBSET Messages,
                       mute : BOOLEAN, loaded : Chat!Statuses, sent : 0 .. Parts]
      <4>1. 0 \in 0 .. Parts /\ None \in Chat!Statuses /\ "read" \in Steps /\ s \in Sessions \union {None}
        BY ChatNumbers DEF Steps, Chat!Statuses
      <4> QED BY <2>2, <4>1
    <3>2. gen' \in [Answers -> [step : Steps, session : Sessions \union {None}, target : SUBSET Messages,
                       mute : BOOLEAN, loaded : Chat!Statuses, sent : 0 .. Parts]]
      BY <1>3, <2>1, <2>2, <3>1 DEF ChatInv, ChatTypes
    <3>3. \A b \in Answers : gen'[b].step # "idle" => gen'[b].session \in Sessions
      BY <1>3, <2>2 DEF ChatInv, ChatTypes
    <3> QED BY <1>1, <3>2, <3>3 DEF ChatInv, ChatTypes
  <2>5. (EventsAreOfStreams /\ EndsAreOver)'
    <3>1. gen'[a].step = "read" /\ gen'[a].sent = 0 /\ stored'[a] = stored[a]
          /\ stored[a] = [stage |-> "none", text |-> <<>>]
      BY <1>1, <2>1, <2>2 DEF ChatInv, EventsAreOfStreams
    <3> QED BY <1>1, <2>2, <2>3, <3>1 DEF ChatInv, EventsAreOfStreams, EndsAreOver
  <2>6. \A b \in Answers \ raced' : InOrder(b)'
    <3> SUFFICES ASSUME NEW b \in Answers \ raced PROVE InOrder(b)'
      BY <1>1
    <3>1. gen'[b].sent = gen[b].sent
      BY <2>1, <2>2 DEF ChatInv, EventsAreOfStreams
    <3> QED BY <1>1, <3>1 DEF ChatInv, InOrder, Has, Sent
  <2>7. OneByOne'
    <3> SUFFICES ASSUME Undisturbed' PROVE OneByOne'
      BY DEF OneByOne
    <3>1. /\ Undisturbed
          /\ \A x \in Sessions : ~(Chat!Inserting(x)' /\ Chat!Answering(x)')
      BY NotedSays
    <3>2. /\ \A b \in Answers : b # a => ~Active(b)'
          /\ \A b \in Answers : Pending(b)' = Pending(b)
          /\ ~Pending(a)
          /\ \A b \in Answers : Pending(b) => b # a /\ gen'[b] = gen[b] /\ sessionStatus'[gen[b].session] # "WAITING"
                                                /\ gen[b].session # s
      BY <1>1, <1>3, <2>2, <2>3, <3>1 DEF ChatInv, OneByOne, Active, Pending
    <3>3. gen'[a].session = s /\ gen'[a].step = "read"
      BY <2>2
    <3>4. \A b \in Answers : gen'[b].step \in {"status", "save", "stream"} => FALSE
      BY <2>2, <3>2, <3>3 DEF Active
    <3>5. \A b, d \in Answers : Pending(b) /\ Pending(d) /\ gen[b].session = gen[d].session => b = d
      BY <3>1 DEF ChatInv, OneByOne
    <3>6. \A b, d \in Answers : (Active(b)' \/ Pending(b)') /\ (Active(d)' \/ Pending(d)')
                                    /\ gen'[b].session = gen'[d].session => b = d
      BY <3>2, <3>3, <3>5
    <3>7. \A b \in Answers : Chat!Starting(b)' => sessionStatus'[gen'[b].session] = "WAITING"
      BY <1>1, <1>3, <3>2, <3>3 DEF Chat!Starting, Active
    <3> QED BY <1>1, <3>1, <3>2, <3>4, <3>6, <3>7 DEF OneByOne
  <2> QED BY <2>4, <2>5, <2>6, <2>7 DEF ChatInv
<1> QED BY <1>2, <1>3 DEF Chat!CronFinds

(* The steps of generateAnswer before the stream: what they leave of the   *)
(* answer and of everything else.                                          *)
LEMMA EarlyKeepsOrder ==
  ASSUME ChatInv, NEW a \in Answers, gen[a].step \in {"read", "load", "status", "save"},
         \A b \in Answers : b # a => gen'[b] = gen[b] /\ stored'[b] = stored[b],
         gen'[a].step \in Steps, gen'[a].sent = 0,
         stored'[a].text = <<>>, stored'[a].stage \in {"none", "ANSWER"},
         gen'[a].step \notin {"stream", "over"} => stored'[a].stage = "none",
         gen'[a].step = "stream" => stored'[a].stage = "ANSWER",
         DOMAIN stored'[a] = {"stage", "text"}, stored'[a] = [stage |-> stored'[a].stage, text |-> stored'[a].text],
         UNCHANGED <<events, handlers, raced>>
  PROVE  (EventsAreOfStreams /\ EndsAreOver)' /\ \A b \in Answers \ raced' : InOrder(b)'
<1>1. /\ \A e \in events : e.answer \in Answers /\ e.answer # a
      /\ \A h \in handlers : h.event.answer \in Answers /\ h.event.answer # a
  BY DEF ChatInv, ChatTypes, EventsAreOfStreams, Chat!Events
<1>2. EventsAreOfStreams'
  <2>1. stored'[a].stage = "none" => stored'[a] = [stage |-> "none", text |-> <<>>]
    OBVIOUS
  <2> QED BY <1>1, <2>1, ChatNumbers DEF ChatInv, EventsAreOfStreams, Steps
<1>3. EndsAreOver'
  BY <1>1 DEF ChatInv, EndsAreOver
<1>4. ASSUME NEW b \in Answers \ raced PROVE InOrder(b)'
  <2>1. CASE b = a
    BY <1>1, <2>1, ChatNumbers, NoText DEF InOrder, Has
  <2>2. CASE b # a
    BY <1>4, <2>2 DEF ChatInv, InOrder, Has, Sent
  <2> QED BY <2>1, <2>2
<1> QED BY <1>2, <1>3, <1>4

(* GenRead, GenLoadStatus and the end of an answer that fails.             *)
LEMMA QuietKeepsOne ==
  ASSUME ChatInv, NEW more, Chat!Noted(more), NEW a \in Answers, Active(a),
         \A b \in Answers : b # a => gen'[b] = gen[b],
         gen'[a].step \in {"idle", "load", "status", "over"},
         gen'[a].step # "idle" => gen'[a].session = gen[a].session,
         gen'[a].step \in {"idle", "load", "status"} => Chat!Starting(a),
         gen'[a].step = "status" => gen'[a].loaded = sessionStatus[gen[a].session],
         UNCHANGED <<sessionStatus, tick, events, handlers>>
  PROVE  OneByOne'
<1> SUFFICES ASSUME Undisturbed' PROVE OneByOne'
  BY DEF OneByOne
<1>1. /\ Undisturbed
      /\ \A x \in Sessions : ~(Chat!Inserting(x)' /\ Chat!Answering(x)')
  BY NotedSays
<1>2. /\ \A b \in Answers : Active(b)' => Active(b) /\ gen'[b].session = gen[b].session
      /\ \A b \in Answers : Pending(b)' = Pending(b)
      /\ \A b \in Answers : Pending(b) => gen'[b].session = gen[b].session
      /\ \A b \in Answers : Chat!Starting(b)' => Chat!Starting(b) /\ gen'[b].session = gen[b].session
      /\ \A b \in Answers : gen'[b].step \in {"save", "stream"} => gen'[b] = gen[b]
  <2>1. Pending(a) => gen[a].step \notin {"read", "load", "status"}
    BY DEF ChatInv, EventsAreOfStreams, Pending
  <2>2. \A b \in Answers : Pending(b)' = Pending(b)
    BY DEF Pending
  <2> QED BY <2>1, <2>2 DEF Active, Chat!Starting
<1>3. \A b \in Answers : gen'[b].step = "status" => gen'[b].loaded = "WAITING"
  <2>1. gen'[a].step = "status" => gen'[a].loaded = "WAITING"
    BY <1>1 DEF ChatInv, OneByOne
  <2> QED BY <1>1, <2>1 DEF ChatInv, OneByOne
<1>4. tick' = "find" => \A b \in Answers : ~Active(b)'
  BY <1>1, <1>2 DEF ChatInv, OneByOne
<1> QED BY <1>1, <1>2, <1>3, <1>4 DEF ChatInv, OneByOne

GenType == [step : Steps, session : Sessions \union {None}, target : SUBSET Messages,
            mute : BOOLEAN, loaded : Chat!Statuses, sent : 0 .. Parts]

(* Of a step of an answer, all else unchanged.                             *)
LEMMA TypesKept ==
  ASSUME ChatInv, NEW more, Chat!Noted(more), NEW a \in Answers, NEW g \in GenType, gen' = [gen EXCEPT ![a] = g],
         g.step # "idle" => g.session \in Sessions,
         UNCHANGED <<Chat!users, stored, events, handlers>>, sessionStatus' \in [Sessions -> Chat!Statuses]
  PROVE  ChatTypes'
<1>1. gen' \in [Answers -> GenType]
  BY DEF ChatInv, ChatTypes, GenType
<1>2. \A b \in Answers : gen'[b].step # "idle" => gen'[b].session \in Sessions
  BY DEF ChatInv, ChatTypes
<1> QED BY <1>1, <1>2 DEF ChatInv, ChatTypes, GenType, Chat!users, Chat!Noted

LEMMA ReadKeepsChat ==
  ASSUME ChatInv, NEW a \in Answers, Chat!GenRead(a), NEW more, Chat!Noted(more)
  PROVE  ChatInv'
<1>1. /\ gen[a].step = "read" /\ UNCHANGED <<sessionStatus, Chat!users, tick, stored, events, handlers, raced>>
      /\ gen[a] \in GenType /\ gen[a].sent = 0 /\ stored[a] = [stage |-> "none", text |-> <<>>]
      /\ gen[a].session \in Sessions
  BY DEF Chat!GenRead, Chat!bus, ChatInv, ChatTypes, GenType, EventsAreOfStreams
<1>2. PICK g : /\ gen' = [gen EXCEPT ![a] = g]
               /\ \/ g = Chat!Idle
                  \/ \E t \in SUBSET Messages, m \in BOOLEAN :
                        g = [gen[a] EXCEPT !.step = "load", !.target = t, !.mute = m]
  <2> DEFINE all == messages[gen[a].session]
             last == SubSeq(all, IF Len(all) > 10 THEN Len(all) - 9 ELSE 1, Len(all))
             ofUsers == {last[i] : i \in DOMAIN last} \intersect Messages
             m(test) == ~test /\ last[Len(last)] \notin Messages
             h(test) == [gen[a] EXCEPT !.step = "load", !.target = ofUsers, !.mute = m(test)]
             k(test) == IF ofUsers = {} THEN Chat!Idle ELSE h(test)
  <2>1. PICK test \in BOOLEAN : gen' = [gen EXCEPT ![a] = k(test)]
    BY DEF Chat!GenRead
  <2>2. ofUsers \in SUBSET Messages /\ m(test) \in BOOLEAN
    OBVIOUS
  <2>3. k(test) = Chat!Idle \/ \E t \in SUBSET Messages, n \in BOOLEAN :
                        k(test) = [gen[a] EXCEPT !.step = "load", !.target = t, !.mute = n]
    <3> HIDE DEF ofUsers, m
    <3> QED BY <2>2
  <2> QED BY <2>1, <2>3
<1>3. /\ g \in GenType /\ g.sent = 0 /\ g.step \in {"idle", "load"}
      /\ g.step # "idle" => g.session = gen[a].session
  <2>1. CASE g = Chat!Idle
    <3>1. 0 \in 0 .. Parts /\ None \in Chat!Statuses /\ "idle" \in Steps /\ None \in Sessions \union {None}
      BY ChatNumbers DEF Steps, Chat!Statuses
    <3> QED BY <2>1, <3>1 DEF GenType, Chat!Idle
  <2>2. ASSUME NEW t \in SUBSET Messages, NEW m \in BOOLEAN,
               g = [gen[a] EXCEPT !.step = "load", !.target = t, !.mute = m]
        PROVE  g \in GenType /\ g.sent = 0 /\ g.step = "load" /\ g.session = gen[a].session
    BY <1>1, <2>2 DEF GenType, Steps
  <2> QED BY <1>2, <2>1, <2>2
<1>4. /\ gen'[a] = g /\ \A b \in Answers : b # a => gen'[b] = gen[b]
  BY <1>2 DEF ChatInv, ChatTypes
<1>5. ChatTypes'
  BY <1>1, <1>2, <1>3, TypesKept DEF ChatInv, ChatTypes
<1>6. (EventsAreOfStreams /\ EndsAreOver)' /\ \A b \in Answers \ raced' : InOrder(b)'
  BY <1>1, <1>3, <1>4, EarlyKeepsOrder DEF Steps
<1>7. OneByOne'
  BY <1>1, <1>3, <1>4, QuietKeepsOne DEF Active, Chat!Starting
<1> QED BY <1>5, <1>6, <1>7 DEF ChatInv

LEMMA LoadKeepsChat ==
  ASSUME ChatInv, NEW a \in Answers, Chat!GenLoadStatus(a), NEW more, Chat!Noted(more)
  PROVE  ChatInv'
<1> DEFINE g == [gen[a] EXCEPT !.step = "status", !.loaded = sessionStatus[gen[a].session]]
<1>1. /\ gen[a].step = "load" /\ UNCHANGED <<sessionStatus, Chat!users, tick, stored, events, handlers, raced>>
      /\ gen[a] \in GenType /\ gen[a].sent = 0 /\ stored[a] = [stage |-> "none", text |-> <<>>]
      /\ gen[a].session \in Sessions
  BY DEF Chat!GenLoadStatus, Chat!bus, ChatInv, ChatTypes, GenType, EventsAreOfStreams
<1>2. gen' = [gen EXCEPT ![a] = g]
  BY DEF Chat!GenLoadStatus, ChatInv, ChatTypes
<1>3. /\ g \in GenType /\ g.sent = 0 /\ g.step = "status" /\ g.session = gen[a].session
      /\ g.loaded = sessionStatus[gen[a].session]
  <2>1. sessionStatus[gen[a].session] \in Chat!Statuses
    BY <1>1 DEF ChatInv, ChatTypes
  <2> QED BY <1>1, <2>1 DEF GenType, Steps
<1> HIDE DEF g
<1>4. /\ gen'[a] = g /\ \A b \in Answers : b # a => gen'[b] = gen[b]
  BY <1>2 DEF ChatInv, ChatTypes
<1>5. ChatTypes'
  BY <1>1, <1>2, <1>3, TypesKept DEF ChatInv, ChatTypes
<1>6. (EventsAreOfStreams /\ EndsAreOver)' /\ \A b \in Answers \ raced' : InOrder(b)'
  BY <1>1, <1>3, <1>4, EarlyKeepsOrder DEF Steps
<1>7. OneByOne'
  BY <1>1, <1>3, <1>4, QuietKeepsOne DEF Active, Chat!Starting
<1> QED BY <1>5, <1>6, <1>7 DEF ChatInv

LEMMA FailKeepsChat ==
  ASSUME ChatInv, NEW a \in Answers, Chat!GenFails(a), NEW more, Chat!Noted(more)
  PROVE  ChatInv'
<1> DEFINE g == [gen[a] EXCEPT !.step = "over"]
<1>1. /\ gen[a].step \notin {"idle", "over"} /\ UNCHANGED <<sessionStatus, Chat!users, tick, stored, events, handlers, raced>>
      /\ gen[a] \in GenType /\ gen[a].session \in Sessions
  BY DEF Chat!GenFails, Chat!bus, ChatInv, ChatTypes, GenType
<1>2. gen' = [gen EXCEPT ![a] = g]
  BY DEF Chat!GenFails, Chat!Step, ChatInv, ChatTypes
<1>3. g \in GenType /\ g.sent = gen[a].sent /\ g.step = "over" /\ g.session = gen[a].session
  BY <1>1 DEF GenType, Steps
<1> HIDE DEF g
<1>4. /\ gen'[a] = g /\ \A b \in Answers : b # a => gen'[b] = gen[b]
  BY <1>2 DEF ChatInv, ChatTypes
<1>5. ChatTypes'
  BY <1>1, <1>2, <1>3, TypesKept DEF ChatInv, ChatTypes
<1>6. (EventsAreOfStreams /\ EndsAreOver)'
  <2>1. \A b \in Answers : gen'[b].step \in {"stream", "over"} \/ gen'[b] = gen[b]
    BY <1>3, <1>4
  <2>2. \A b \in Answers : gen[b].step \in {"stream", "over"} => gen'[b].step \in {"stream", "over"}
    BY <1>3, <1>4
  <2>3. \A b \in Answers : gen[b].step = "over" => gen'[b].step = "over"
    BY <1>3, <1>4
  <2>4. \A b \in Answers : gen'[b].step # "over" => gen'[b] = gen[b]
    BY <1>3, <1>4
  <2>5. (\A e \in events : e.answer \in Answers) /\ \A h \in handlers : h.event.answer \in Answers
    BY DEF ChatInv, ChatTypes, Chat!Events
  <2>6. EventsAreOfStreams'
    BY <1>1, <2>2, <2>4, <2>5 DEF ChatInv, EventsAreOfStreams
  <2>7. EndsAreOver'
    BY <1>1, <2>3, <2>5 DEF ChatInv, EndsAreOver
  <2> QED BY <2>6, <2>7
<1>7. \A b \in Answers \ raced' : InOrder(b)'
  <2>1. \A b \in Answers : gen'[b].sent = gen[b].sent
    BY <1>3, <1>4
  <2> QED BY <1>1, <2>1 DEF ChatInv, InOrder, Has, Sent
<1>8. OneByOne'
  BY <1>1, <1>3, <1>4, QuietKeepsOne DEF Active, Chat!Starting
<1> QED BY <1>5, <1>6, <1>7, <1>8 DEF ChatInv

LEMMA SetKeepsChat ==
  ASSUME ChatInv, NEW a \in Answers, Chat!GenSetStatus(a), NEW more, Chat!Noted(more)
  PROVE  ChatInv'
<1> DEFINE g == [gen[a] EXCEPT !.step = "save"]
           s == gen[a].session
<1>1. /\ gen[a].step = "status" /\ UNCHANGED <<Chat!users, tick, stored, events, handlers, raced>>
      /\ gen[a] \in GenType /\ gen[a].sent = 0 /\ stored[a] = [stage |-> "none", text |-> <<>>]
      /\ s \in Sessions
  BY DEF Chat!GenSetStatus, Chat!bus, ChatInv, ChatTypes, GenType, EventsAreOfStreams
<1>2. /\ gen' = [gen EXCEPT ![a] = g]
      /\ sessionStatus' = [sessionStatus EXCEPT ![s] = IF gen[a].loaded = "CONTINUING" THEN sessionStatus[s] ELSE "CONTINUING"]
  BY DEF Chat!GenSetStatus, Chat!Step, Chat!Set, Chat!Written, ChatInv, ChatTypes
<1>3. g \in GenType /\ g.sent = 0 /\ g.step = "save" /\ g.session = s
  BY <1>1 DEF GenType, Steps
<1> HIDE DEF g
<1>4. /\ gen'[a] = g /\ \A b \in Answers : b # a => gen'[b] = gen[b]
  BY <1>2 DEF ChatInv, ChatTypes
<1>5. ChatTypes'
  <2>1. sessionStatus' \in [Sessions -> Chat!Statuses]
    BY <1>2 DEF ChatInv, ChatTypes, Chat!Statuses
  <2> QED BY <1>1, <1>2, <1>3, <2>1, TypesKept
<1>6. (EventsAreOfStreams /\ EndsAreOver)' /\ \A b \in Answers \ raced' : InOrder(b)'
  BY <1>1, <1>3, <1>4, EarlyKeepsOrder DEF Steps
<1>7. OneByOne'
  <2> SUFFICES ASSUME Undisturbed' PROVE OneByOne'
    BY DEF OneByOne
  <2>1. /\ Undisturbed
        /\ \A x \in Sessions : ~(Chat!Inserting(x)' /\ Chat!Answering(x)')
    BY NotedSays
  <2>2. /\ Active(a) /\ \A b \in Answers : Active(b) => b = a
        /\ tick # "find" /\ gen[a].loaded = "WAITING"
    BY <1>1, <2>1 DEF ChatInv, OneByOne, Active
  <2>3. /\ sessionStatus'[s] = "CONTINUING" /\ \A x \in Sessions : x # s => sessionStatus'[x] = sessionStatus[x]
    BY <1>1, <1>2, <2>2 DEF ChatInv, ChatTypes
  <2>4. /\ \A b \in Answers : gen'[b].session = gen[b].session
        /\ \A b \in Answers : Active(b)' = Active(b) /\ Pending(b)' = Pending(b)
        /\ \A b \in Answers : b # a => gen'[b].step \in {"idle", "over"}
    BY <1>1, <1>3, <1>4, <2>2 DEF Active, Pending
  <2>5. \A b \in Answers : Pending(b) => sessionStatus'[gen[b].session] # "WAITING"
    BY <1>1, <2>1, <2>3 DEF ChatInv, OneByOne, ChatTypes, EventsAreOfStreams, Pending
  <2> QED BY <1>1, <1>3, <1>4, <2>1, <2>2, <2>3, <2>4, <2>5 DEF ChatInv, OneByOne, Chat!Starting
<1> QED BY <1>5, <1>6, <1>7 DEF ChatInv

LEMMA SaveKeepsChat ==
  ASSUME ChatInv, NEW a \in Answers, Chat!GenSaveMessage(a), NEW more, Chat!Noted(more)
  PROVE  ChatInv'
<1> DEFINE g == [gen[a] EXCEPT !.step = "stream"]
           m == [stored[a] EXCEPT !.stage = "ANSWER"]
<1>1. /\ gen[a].step = "save" /\ UNCHANGED <<sessionStatus, Chat!users, tick, events, handlers, raced>>
      /\ gen[a] \in GenType /\ gen[a].sent = 0 /\ stored[a] = [stage |-> "none", text |-> <<>>]
      /\ gen[a].session \in Sessions
  BY DEF Chat!GenSaveMessage, Chat!bus, ChatInv, ChatTypes, GenType, EventsAreOfStreams
<1>2. /\ gen' = [gen EXCEPT ![a] = g] /\ stored' = [stored EXCEPT ![a] = m]
  BY DEF Chat!GenSaveMessage, Chat!Step, ChatInv, ChatTypes
<1>3. /\ g \in GenType /\ g.sent = 0 /\ g.step = "stream" /\ g.session = gen[a].session
      /\ m = [stage |-> "ANSWER", text |-> <<>>]
  BY <1>1 DEF GenType, Steps
<1> HIDE DEF g, m
<1>4. /\ gen'[a] = g /\ \A b \in Answers : b # a => gen'[b] = gen[b] /\ stored'[b] = stored[b]
      /\ stored'[a] = [stage |-> "ANSWER", text |-> <<>>]
  BY <1>2, <1>3 DEF ChatInv, ChatTypes
<1>5. ChatTypes'
  <2>1. gen' \in [Answers -> GenType]
    BY <1>2, <1>3 DEF ChatInv, ChatTypes, GenType
  <2>2. \A b \in Answers : gen'[b].step # "idle" => gen'[b].session \in Sessions
    BY <1>1, <1>3, <1>4 DEF ChatInv, ChatTypes
  <2>3. stored' \in [Answers -> [stage : {"none", "ANSWER", "DONE"}, text : Seq(1 .. Parts)]]
    BY <1>2, <1>3, NoText DEF ChatInv, ChatTypes
  <2> QED BY <1>1, <2>1, <2>2, <2>3 DEF ChatInv, ChatTypes, GenType, Chat!users, Chat!Noted
<1>6. (EventsAreOfStreams /\ EndsAreOver)' /\ \A b \in Answers \ raced' : InOrder(b)'
  BY <1>1, <1>3, <1>4, EarlyKeepsOrder DEF Steps
<1>7. OneByOne'
  <2> SUFFICES ASSUME Undisturbed' PROVE OneByOne'
    BY DEF OneByOne
  <2>1. /\ Undisturbed
        /\ \A x \in Sessions : ~(Chat!Inserting(x)' /\ Chat!Answering(x)')
    BY NotedSays
  <2>2. /\ \A b \in Answers : gen'[b].session = gen[b].session
        /\ \A b \in Answers : Active(b)' = Active(b) /\ Pending(b)' = Pending(b) /\ Chat!Starting(b)' = Chat!Starting(b)
        /\ \A b \in Answers : gen'[b].step = "status" => gen'[b] = gen[b]
        /\ \A b \in Answers : gen'[b].step \in {"save", "stream"} => gen[b].step \in {"save", "stream"}
    BY <1>1, <1>3, <1>4 DEF Active, Pending, Chat!Starting
  <2> QED BY <1>1, <2>1, <2>2 DEF ChatInv, OneByOne
<1> QED BY <1>5, <1>6, <1>7 DEF ChatInv

LEMMA EmitKeepsChat ==
  ASSUME ChatInv, NEW a \in Answers, Chat!Emit(a), NEW more, Chat!Noted(more)
  PROVE  ChatInv'
<1> DEFINE n == gen[a].sent + 1
           g == [gen[a] EXCEPT !.sent = n, !.step = IF n = Parts THEN "over" ELSE @]
           sent == {[answer |-> a, part |-> n]} \union (IF n = Parts THEN {[answer |-> a, part |-> Chat!DONE]} ELSE {})
<1>1. /\ gen[a].step = "stream" /\ UNCHANGED <<sessionStatus, Chat!users, tick, stored, handlers, raced>>
      /\ gen[a] \in GenType /\ gen[a].sent < Parts /\ stored[a].stage = "ANSWER"
      /\ gen[a].session \in Sessions /\ n \in 1 .. Parts
  BY ChatNumbers DEF Chat!Emit, Chat!bus, ChatInv, ChatTypes, GenType, EventsAreOfStreams
<1>2. gen' = [gen EXCEPT ![a] = g] /\ events' = events \union sent
  BY DEF Chat!Emit, ChatInv, ChatTypes
<1>3. /\ g \in GenType /\ g.sent = n /\ g.session = gen[a].session /\ g.loaded = gen[a].loaded
      /\ g.step = IF n = Parts THEN "over" ELSE "stream"
  <2>1. n \in 0 .. Parts
    BY <1>1, ChatNumbers
  <2> HIDE DEF n
  <2>2. CASE n = Parts
    <3>1. g = [gen[a] EXCEPT !.sent = n, !.step = "over"]
      BY <2>2
    <3> HIDE DEF g
    <3> QED BY <1>1, <2>1, <2>2, <3>1 DEF GenType, Steps
  <2>3. CASE n # Parts
    <3>1. g = [gen[a] EXCEPT !.sent = n, !.step = "stream"]
      BY <1>1, <2>3
    <3> HIDE DEF g
    <3> QED BY <1>1, <2>1, <2>3, <3>1 DEF GenType, Steps
  <2> QED BY <2>2, <2>3
<1>4. /\ Chat!DONE = Parts + 1 /\ Chat!DONE \in 1 .. Parts + 1 /\ n \in 1 .. Parts + 1 /\ Chat!DONE # n
      /\ \A e \in sent : e.answer = a /\ (e.part = n \/ (e.part = Chat!DONE /\ n = Parts))
      /\ \A e \in sent : e \in Chat!Events
      /\ \E e \in sent : e.answer = a /\ e.part = n
  <2>1. /\ Chat!DONE = Parts + 1 /\ Chat!DONE \in 1 .. Parts + 1 /\ n \in 1 .. Parts + 1 /\ Chat!DONE # n
    BY <1>1, ChatNumbers DEF Chat!DONE
  <2> HIDE DEF n
  <2>2. \A e \in sent : e = [answer |-> a, part |-> n] \/ (e = [answer |-> a, part |-> Chat!DONE] /\ n = Parts)
    OBVIOUS
  <2>3. [answer |-> a, part |-> n] \in sent
    OBVIOUS
  <2>4. [answer |-> a, part |-> n] \in Chat!Events /\ [answer |-> a, part |-> Chat!DONE] \in Chat!Events
    <3>1. \A p \in 1 .. Parts + 1 : [answer |-> a, part |-> p] \in Chat!Events
      BY DEF Chat!Events
    <3> QED BY <2>1, <3>1
  <2> HIDE DEF sent
  <2>5. \A e \in sent : e \in Chat!Events
    BY <2>2, <2>4
  <2>6. \A e \in sent : e.answer = a /\ (e.part = n \/ (e.part = Chat!DONE /\ n = Parts))
    BY <2>2
  <2>7. \E e \in sent : e.answer = a /\ e.part = n
    BY <2>3
  <2> QED BY <2>1, <2>5, <2>6, <2>7
<1> HIDE DEF g, n, sent
<1>5. /\ gen'[a] = g /\ \A b \in Answers : b # a => gen'[b] = gen[b]
  BY <1>2 DEF ChatInv, ChatTypes
<1>6. ChatTypes'
  <2>1. gen' \in [Answers -> GenType]
    BY <1>2, <1>3 DEF ChatInv, ChatTypes, GenType
  <2>2. \A b \in Answers : gen'[b].step # "idle" => gen'[b].session \in Sessions
    BY <1>1, <1>3, <1>5 DEF ChatInv, ChatTypes
  <2> QED BY <1>1, <1>2, <1>4, <2>1, <2>2 DEF ChatInv, ChatTypes, GenType, Chat!users, Chat!Noted
<1>7. \A h \in handlers : h.event.answer \in Answers
  BY DEF ChatInv, ChatTypes, Chat!Events
<1>8. \A e \in events : e.answer \in Answers
  BY DEF ChatInv, ChatTypes, Chat!Events
<1>9. EventsAreOfStreams'
  <2>1. \A e \in events' : e.answer \in Answers /\ (e \in events \/ e.answer = a)
    BY <1>2, <1>4, <1>8
  <2>2. \A b \in Answers : gen[b].step \in {"stream", "over"} => gen'[b].step \in {"stream", "over"}
    BY <1>3, <1>5
  <2>3. gen'[a].step \in {"stream", "over"} /\ (gen'[a].step = "stream" => gen'[a].sent < Parts)
    BY <1>1, <1>3, <1>5, ChatNumbers
  <2> QED BY <1>1, <1>5, <1>7, <2>1, <2>2, <2>3 DEF ChatInv, EventsAreOfStreams
<1>10. EndsAreOver'
  <2>1. \A b \in Answers : gen[b].step = "over" => gen'[b].step = "over"
    BY <1>1, <1>5
  <2>2. \A e \in sent : e.part = Chat!DONE => gen'[e.answer].step = "over"
    BY <1>3, <1>4, <1>5
  <2> QED BY <1>1, <1>2, <1>7, <1>8, <2>1, <2>2 DEF ChatInv, EndsAreOver
<1>11. ASSUME NEW b \in Answers \ raced' PROVE InOrder(b)'
  <2>1. InOrder(b)
    BY <1>1 DEF ChatInv
  <2>2. CASE b # a
    <3>1. \A e \in events' : e.answer = b => e \in events
      BY <1>2, <1>4, <2>2
    <3> QED BY <1>1, <1>2, <1>5, <2>1, <2>2, <3>1 DEF InOrder, Has, Sent
  <2>3. CASE b = a
    <3>1. gen'[a].sent = n /\ n = gen[a].sent + 1 /\ gen[a].sent \in Nat
      BY <1>1, <1>3, <1>5 DEF n, GenType
    <3>2. \A p \in 1 .. Parts + 1 : Sent(a, p) => Sent(a, p)' /\ p < n
      BY <1>1, <1>4, <3>1 DEF Sent
    <3>3. \A p : p = n \/ (p = Chat!DONE /\ n = Parts) => Sent(a, p)'
      BY <1>1, <3>1 DEF Sent, Chat!DONE
    <3>4. \A e \in events' : e.answer = a => e \in events \/ e.part = n \/ (e.part = Chat!DONE /\ n = Parts)
      BY <1>2, <1>4
    <3>5. Has(a) \in Nat /\ Has(a) < n /\ Has(a) < Chat!DONE /\ Has(a)' = Has(a)
      <4>1. Has(a) \in Nat
        BY HasSome
      <4>2. Has(a)' = Has(a)
        BY <1>1 DEF Has
      <4> QED BY <1>1, <1>4, <2>1, <2>3, <3>1, <4>1, <4>2, ChatNumbers DEF InOrder
    <3>6. \A h \in handlers : h.event.answer = a /\ h.step = "save" =>
             h.event.part \in 1 .. Parts + 1 /\ h.event.part < n /\ h.event.part < Chat!DONE
      <4>1. \A h \in handlers : h.event.part \in 1 .. Parts + 1
        BY DEF ChatInv, ChatTypes, Chat!Events
      <4>2. \A h \in handlers : h.event.answer = a /\ h.step = "save" => h.event.part < n
        BY <2>1, <2>3, <3>2, <4>1 DEF InOrder
      <4>3. \A p \in 1 .. Parts + 1 : p < n => p < Chat!DONE
        BY <1>1, <1>4, ChatNumbers
      <4> QED BY <4>1, <4>2, <4>3
    <3>7. \A e \in events : e.part \in 1 .. Parts + 1
      BY DEF ChatInv, ChatTypes, Chat!Events
    <3>8. \A p \in 1 .. n : p = n \/ p \in 1 .. gen[a].sent
      BY <3>1
    <3>9. \E e \in events' : e.answer = a /\ e.part = n
      BY <1>2, <1>4
    <3>10. \A e \in events' : e.answer = a => Sent(a, e.part)' /\ Has(a) < e.part
      BY <2>1, <2>3, <3>2, <3>3, <3>4, <3>5, <3>7 DEF InOrder
    <3>11. ASSUME NEW h \in handlers, h.event.answer = a, h.step = "save"
           PROVE  /\ Sent(a, h.event.part)' /\ Has(a) < h.event.part
                  /\ h.loaded = stored[a] /\ stored[a].stage = "ANSWER"
                  /\ \A k \in handlers : k.event.answer = a /\ k.step = "save" => k = h
                  /\ \A e \in events' : e.answer = a => h.event.part < e.part
      <4>1. \A e \in events' : e.answer = a => h.event.part < e.part
        BY <2>1, <2>3, <3>4, <3>6, <3>11 DEF InOrder
      <4> QED BY <2>1, <2>3, <3>2, <3>6, <3>11, <4>1 DEF InOrder
    <3>12. Has(a) <= n /\ stored[a].text = Upto(Has(a))
      BY <2>1, <2>3, <3>1, <3>5 DEF InOrder
    <3>13. \A p \in 1 .. n :
             \/ p <= Has(a)
             \/ \E e \in events' : e.answer = a /\ e.part = p
             \/ \E h \in handlers : h.event.answer = a /\ h.step = "save" /\ h.event.part = p
      BY <1>2, <2>1, <2>3, <3>8, <3>9 DEF InOrder
    <3> QED BY <1>1, <2>3, <3>1, <3>5, <3>10, <3>11, <3>12, <3>13 DEF InOrder
  <2> QED BY <2>2, <2>3
<1>12. OneByOne'
  <2> SUFFICES ASSUME Undisturbed' PROVE OneByOne'
    BY DEF OneByOne
  <2>1. /\ Undisturbed
        /\ \A x \in Sessions : ~(Chat!Inserting(x)' /\ Chat!Answering(x)')
    BY NotedSays
  <2>2. Active(a) /\ sessionStatus[gen[a].session] = "CONTINUING"
    BY <1>1, <2>1 DEF ChatInv, OneByOne, Active
  <2>3. /\ \A b \in Answers : gen'[b].session = gen[b].session
        /\ \A b \in Answers : Active(b)' => Active(b)
        /\ \A b \in Answers : Pending(b)' => Pending(b) \/ b = a
        /\ \A b \in Answers : gen'[b].step \in {"read", "load", "status", "save", "stream"} =>
              gen'[b].step = gen[b].step /\ gen'[b].loaded = gen[b].loaded
    <3>1. \A b \in Answers : Pending(b)' => Pending(b) \/ b = a
      BY <1>1, <1>2, <1>4 DEF Pending
    <3>2. \A b \in Answers : Active(b)' => Active(b)
      BY <1>1, <1>5 DEF Active
    <3>3. gen'[a].step \in {"read", "load", "status", "save", "stream"} =>
              gen'[a].step = gen[a].step /\ gen'[a].loaded = gen[a].loaded
      BY <1>1, <1>3, <1>5 DEF g, GenType
    <3> QED BY <1>3, <1>5, <3>1, <3>2, <3>3
  <2> QED BY <1>1, <2>1, <2>2, <2>3 DEF ChatInv, OneByOne, Chat!Starting
<1> QED BY <1>6, <1>9, <1>10, <1>11, <1>12 DEF ChatInv


(* Of the handlers: as long as they only take up or drop events, and leave *)
(* sessions as they are.                                                   *)
LEMMA HandlersKeepOne ==
  ASSUME ChatInv, NEW more, Chat!Noted(more), UNCHANGED <<sessionStatus, tick, gen>>,
         \A b \in Answers : Pending(b)' => Pending(b)
  PROVE  OneByOne'
<1> SUFFICES ASSUME Undisturbed' PROVE OneByOne'
  BY DEF OneByOne
<1>1. /\ Undisturbed
      /\ \A x \in Sessions : ~(Chat!Inserting(x)' /\ Chat!Answering(x)')
  BY NotedSays
<1>2. \A b \in Answers : Active(b)' = Active(b) /\ Chat!Starting(b)' = Chat!Starting(b) /\ gen'[b] = gen[b]
  BY DEF Active, Chat!Starting
<1> QED BY <1>1, <1>2 DEF ChatInv, OneByOne

LEMMA ReceiveKeepsChat ==
  ASSUME ChatInv, NEW e \in events, Chat!Receive(e), NEW more, Chat!Noted(more)
  PROVE  ChatInv'
<1> DEFINE b == e.answer
           h0 == [event |-> e, step |-> "save", loaded |-> stored[b]]
<1>1. /\ UNCHANGED <<sessionStatus, Chat!users, tick, gen, stored>> /\ events' = events \ {e}
      /\ handlers' = handlers \union {h0} /\ raced \subseteq raced'
      /\ e \in Chat!Events /\ b \in Answers /\ e.part \in 1 .. Parts + 1
  BY DEF Chat!Receive, ChatInv, ChatTypes, Chat!Events
<1>2. /\ h0.event = e /\ h0.step = "save" /\ h0.loaded = stored[b]
      /\ \A h \in handlers' : h \in handlers \/ h = h0
      /\ h0 \in handlers' /\ \A h \in handlers : h \in handlers'
  BY <1>1
<1>3. /\ stored[b] \in [stage : {"none", "ANSWER", "DONE"}, text : Seq(1 .. Parts)]
      /\ stored[b].stage # "none" /\ gen[b].step \in {"stream", "over"}
      /\ e.part = Chat!DONE => gen[b].step = "over"
      /\ stored[b].stage = "DONE" => gen[b].step = "over"
  BY <1>1 DEF ChatInv, ChatTypes, EventsAreOfStreams, EndsAreOver
<1>4. b \notin raced' => /\ \A h \in handlers : h.event.answer = b => h.step # "save"
                         /\ \A f \in events : f.answer = b => ~(f.part < e.part)
  BY <1>1 DEF Chat!Receive
<1> HIDE DEF h0
<1>5. ChatTypes'
  BY <1>1, <1>2, <1>3 DEF ChatInv, ChatTypes, Chat!users, Chat!Noted
<1>6. EventsAreOfStreams'
  BY <1>1, <1>2, <1>3 DEF ChatInv, EventsAreOfStreams
<1>7. EndsAreOver'
  BY <1>1, <1>2, <1>3 DEF ChatInv, EndsAreOver
<1>8. OneByOne'
  <2>1. \A x \in Answers : Pending(x)' => Pending(x)
    BY <1>1, <1>2 DEF Pending
  <2> QED BY <1>1, <2>1, HandlersKeepOne
<1>9. ASSUME NEW x \in Answers \ raced' PROVE InOrder(x)'
  <2>1. InOrder(x)
    BY <1>1 DEF ChatInv
  <2>2. CASE x # b
    BY <1>1, <1>2, <2>1, <2>2 DEF InOrder, Has, Sent
  <2>3. CASE x = b
    <3>1. stored[b].stage = "ANSWER"
      BY <1>1, <1>3, <2>1, <2>3 DEF InOrder
    <3>2. /\ \A h \in handlers' : h.event.answer = b /\ h.step = "save" => h = h0
          /\ h0.event.answer = b /\ h0.event.part = e.part
      BY <1>2, <1>4, <2>3
    <3>3. \A f \in events' : f.answer = b => e.part < f.part
      <4> SUFFICES ASSUME NEW f \in events', f.answer = b PROVE e.part < f.part
        OBVIOUS
      <4>1. f \in events /\ f # e /\ f \in Chat!Events /\ f.part \in 1 .. Parts + 1
        BY <1>1 DEF ChatInv, ChatTypes, Chat!Events
      <4>2. f.part # e.part
        BY <1>1, <4>1 DEF Chat!Events
      <4>3. ~(f.part < e.part)
        BY <1>4, <2>3, <4>1
      <4> QED BY <1>1, <4>1, <4>2, <4>3, ChatNumbers
    <3>4. Sent(b, e.part) /\ Has(b) < e.part
      BY <1>1, <2>1, <2>3 DEF InOrder
    <3>5. \A p \in 1 .. gen[b].sent :
            \/ p <= Has(b)
            \/ \E f \in events' : f.answer = b /\ f.part = p
            \/ \E h \in handlers' : h.event.answer = b /\ h.step = "save" /\ h.event.part = p
      <4> SUFFICES ASSUME NEW p \in 1 .. gen[b].sent, ~(p <= Has(b)), p # e.part
                   PROVE  \E f \in events' : f.answer = b /\ f.part = p
        BY <1>2, <3>2
      <4>1. PICK f \in events : f.answer = b /\ f.part = p
        BY <1>4, <2>1, <2>3 DEF InOrder
      <4> QED BY <1>1, <4>1
    <3> QED BY <1>1, <1>2, <2>1, <2>3, <3>1, <3>2, <3>3, <3>4, <3>5 DEF InOrder, Has, Sent
  <2> QED BY <2>2, <2>3
<1> QED BY <1>5, <1>6, <1>7, <1>8, <1>9 DEF ChatInv

LEMMA AnswerKeepsChat ==
  ASSUME ChatInv, NEW h \in handlers, Chat!saveGeneratedAnswer(h), NEW more, Chat!Noted(more)
  PROVE  ChatInv'
<1> DEFINE b == h.event.answer
           piece == h.event.part
           old == h.loaded
           m == [stage |-> Chat!Written(old.stage, Chat!Stage(old, piece), stored[b].stage),
                 text |-> Chat!Written(old.text, Chat!Text(old, piece), stored[b].text)]
           next == IF Chat!Stage(old, piece) = "DONE" THEN {[event |-> h.event, step |-> "title"]} ELSE {}
           Message == [stage : {"none", "ANSWER", "DONE"}, text : Seq(1 .. Parts)]
<1>1. /\ UNCHANGED <<sessionStatus, Chat!users, tick, gen, events, raced>>
      /\ h.step = "save" /\ b \in Answers /\ piece \in 1 .. Parts + 1
      /\ old \in Message /\ stored[b] \in Message
      /\ old.stage # "none" /\ stored[b].stage # "none" /\ gen[b].step \in {"stream", "over"}
      /\ piece = Chat!DONE => gen[b].step = "over"
      /\ old.stage = "DONE" => gen[b].step = "over"
      /\ stored[b].stage = "DONE" => gen[b].step = "over"
  BY DEF Chat!saveGeneratedAnswer, ChatInv, ChatTypes, Chat!Events, EventsAreOfStreams, EndsAreOver
<1>2. /\ stored' = IF old.stage = "DONE" THEN stored ELSE [stored EXCEPT ![b] = m]
      /\ handlers' = (handlers \ {h}) \union next
  BY DEF Chat!saveGeneratedAnswer, Chat!Becomes
<1>3. /\ Chat!Stage(old, piece) \in {"ANSWER", "DONE"} /\ Chat!Stage(old, piece) = "DONE" => gen[b].step = "over"
      /\ Chat!Text(old, piece) \in Seq(1 .. Parts)
  <2>1. piece # Chat!DONE => piece \in 1 .. Parts
    BY <1>1, ChatNumbers DEF Chat!DONE
  <2> QED BY <1>1, <2>1, AppendProperties DEF Chat!Stage, Chat!Text
<1>4. /\ m \in Message /\ m.stage \in {"ANSWER", "DONE"}
      /\ m.stage = "DONE" => gen[b].step = "over"
      /\ stored[b].stage = "ANSWER" /\ piece # Chat!DONE /\ old.stage # "DONE" => m.stage = "ANSWER"
  BY <1>1, <1>3 DEF Chat!Written, Chat!Stage
<1>5. /\ \A k \in next : k.event = h.event /\ k.step = "title" /\ gen[b].step = "over"
      /\ \A k \in handlers' : (k \in handlers /\ k # h) \/ k \in next
      /\ \A k \in handlers : k = h \/ k \in handlers'
  BY <1>2, <1>3
<1>6. old.stage # "DONE" => stored' = [stored EXCEPT ![b] = m]
  BY <1>2
<1>7. old.stage = "DONE" => stored' = stored
  BY <1>2
<1>8. /\ stored'[b] \in Message /\ stored'[b].stage \in {"ANSWER", "DONE"}
      /\ (stored'[b].stage = "DONE" => gen[b].step = "over")
      /\ \A x \in Answers : x # b => stored'[x] = stored[x]
      /\ stored' \in [Answers -> Message]
  <2> HIDE DEF m, Message
  <2>1. stored \in [Answers -> Message]
    BY DEF ChatInv, ChatTypes, Message
  <2>2. stored[b].stage \in {"ANSWER", "DONE"}
    BY <1>1 DEF Message
  <2> QED BY <1>1, <1>4, <1>6, <1>7, <2>1, <2>2
<1>9. /\ \A k \in handlers' : k.event \in Chat!Events /\ k.step \in {"save", "title", "finish"}
      /\ \A k \in handlers' : k.step = "save" => k \in handlers /\ k.loaded \in Message
      /\ \A k \in handlers' : k.event.answer \in Answers /\ (k \in handlers \/ k.event.answer = b)
      /\ \A k \in handlers' : k \notin handlers => k.event.answer = b /\ k.event = h.event /\ k.step = "title"
      /\ \A k \in handlers : k.event.answer \in Answers
      /\ \A e \in events : e.answer \in Answers
  <2>1. \A k \in handlers : k.event \in Chat!Events /\ k.step \in {"save", "title", "finish"} /\ k.event.answer \in Answers
    BY DEF ChatInv, ChatTypes, Chat!Events
  <2>2. \A k \in handlers : k.step = "save" => k.loaded \in Message
    BY DEF ChatInv, ChatTypes
  <2>3. \A e \in events : e.answer \in Answers
    BY DEF ChatInv, ChatTypes, Chat!Events
  <2> HIDE DEF Message, next
  <2> QED BY <1>1, <1>5, <2>1, <2>2, <2>3
<1> HIDE DEF m, next, Message
<1>10. ChatTypes'
  <2>1. /\ gen' = gen /\ sessionStatus' = sessionStatus /\ chatPc' = chatPc /\ seen' = seen /\ events' = events /\ sessionOf' = sessionOf
    BY <1>1 DEF Chat!users, Chat!Noted
  <2>2. \A k \in handlers' : k.event \in Chat!Events /\ k.step \in {"save", "title", "finish"}
    BY <1>9
  <2>3. /\ stored' \in [Answers -> [stage : {"none", "ANSWER", "DONE"}, text : Seq(1 .. Parts)]]
        /\ \A k \in handlers' : k.step = "save" =>
              k.loaded \in [stage : {"none", "ANSWER", "DONE"}, text : Seq(1 .. Parts)]
    <3>1. stored' \in [Answers -> Message] /\ \A k \in handlers' : k.step = "save" => k.loaded \in Message
      BY <1>8, <1>9
    <3> QED BY ONLY <3>1 DEF Message
  <2>4. ChatTypes
    BY DEF ChatInv
  <2> QED BY ONLY <2>1, <2>2, <2>3, <2>4 DEF ChatTypes
<1>11. EventsAreOfStreams'
  <2>1. /\ \A x \in Answers : stored[x].stage # "none" => stored'[x].stage # "none"
        /\ \A x \in Answers : gen[x].step \in {"idle", "read", "load", "status", "save"} => stored'[x] = stored[x]
    BY <1>1, <1>8
  <2>2. gen[b].step = "stream" => stored'[b].stage = "ANSWER"
    BY <1>8
  <2>3. \A k \in handlers' : k.step = "save" => k \in handlers
    BY <1>9
  <2> QED BY <1>1, <1>8, <1>9, <2>1, <2>2, <2>3 DEF ChatInv, EventsAreOfStreams
<1>12. EndsAreOver'
  <2>1. \A k \in handlers' : k \notin handlers => gen[k.event.answer].step = "over"
    BY <1>5, <1>9
  <2>2. \A k \in handlers' : k.event.part = Chat!DONE \/ k.step # "save" => gen[k.event.answer].step = "over"
    BY <2>1 DEF ChatInv, EndsAreOver
  <2>3. \A k \in handlers' : k.step = "save" /\ k.loaded.stage = "DONE" => gen[k.event.answer].step = "over"
    BY <1>9 DEF ChatInv, EndsAreOver
  <2>4. \A x \in Answers : stored'[x].stage = "DONE" => gen[x].step = "over"
    BY <1>8 DEF ChatInv, EndsAreOver
  <2> QED BY <1>1, <2>2, <2>3, <2>4 DEF ChatInv, EndsAreOver
<1>13. OneByOne'
  <2>1. \A x \in Answers : Pending(x)' => Pending(x)
    BY <1>1, <1>9 DEF Pending
  <2> QED BY <1>1, <2>1, HandlersKeepOne
<1>14. ASSUME NEW x \in Answers \ raced' PROVE InOrder(x)'
  <2>1. InOrder(x)
    BY <1>1 DEF ChatInv
  <2>2. CASE x # b
    <3>1. \A k \in handlers' : k.event.answer = x => k \in handlers
      BY <1>9, <2>2
    <3>2. \A k \in handlers : k.event.answer = x => k \in handlers'
      BY <1>5, <2>2
    <3>3. stored'[x] = stored[x]
      BY <1>8, <2>2
    <3> QED BY <1>1, <2>1, <3>1, <3>2, <3>3 DEF InOrder, Has, Sent
  <2>3. CASE x = b
    <3>1. /\ old = stored[b] /\ stored[b].stage = "ANSWER" /\ Sent(b, piece)
          /\ Has(b) < piece
          /\ \A e \in events : e.answer = b => piece < e.part
          /\ \A k \in handlers : k.event.answer = b /\ k.step = "save" => k = h
      BY <1>1, <2>1, <2>3 DEF InOrder
    <3>2. \A k \in handlers' : k.event.answer = b => k.step # "save"
      BY <1>5, <3>1
    <3>3. /\ stored'[b].stage = Chat!Stage(old, piece)
          /\ stored'[b].text = Chat!Text(old, piece)
      <4>1. stored'[b] = m
        BY <1>1, <1>6, <3>1 DEF ChatInv, ChatTypes
      <4> QED BY <3>1, <4>1 DEF m, Chat!Written
    <3>4. gen[b].sent \in 0 .. Parts /\ Has(b) \in Nat /\ stored[b].text \in Seq(Nat)
      <4>1. gen[b].sent \in 0 .. Parts
        BY <1>1 DEF ChatInv, ChatTypes
      <4>2. stored[b].text \in Seq(1 .. Parts) /\ Has(b) \in Nat
        BY <1>1, HasSome
      <4>3. stored[b].text \in Seq(Nat)
        <5>1. 1 .. Parts \subseteq Nat
          BY ChatNumbers
        <5> QED BY <4>2, <5>1, SeqMonotonic
      <4> QED BY <4>1, <4>2, <4>3
    <3>5. \A e \in events : e.part \in 1 .. Parts + 1
      BY DEF ChatInv, ChatTypes, Chat!Events
    <3>6. piece # Chat!DONE => piece <= gen[b].sent
      BY <3>1 DEF Sent
    <3>7. piece = Chat!DONE => gen[b].sent = Parts
      BY <3>1, <3>4, ChatNumbers DEF Sent, Chat!DONE
    <3>8. piece # Chat!DONE => piece = Has(b) + 1
      <4> SUFFICES ASSUME piece # Chat!DONE, Has(b) + 1 < piece PROVE FALSE
        BY <1>1, <3>1, <3>4
      <4>1. Has(b) + 1 \in 1 .. gen[b].sent /\ ~(Has(b) + 1 <= Has(b))
        BY <1>1, <3>4, <3>6
      <4>2. CASE \E e \in events : e.answer = b /\ e.part = Has(b) + 1
        BY <1>1, <3>1, <3>4, <3>5, <4>2
      <4>3. CASE \E k \in handlers : k.event.answer = b /\ k.step = "save" /\ k.event.part = Has(b) + 1
        BY <1>1, <3>1, <3>4, <4>3
      <4> QED BY <2>1, <2>3, <4>1, <4>2, <4>3 DEF InOrder
    <3>9. /\ stored'[b].text = Upto(Has(b)')
          /\ Has(b)' = IF piece = Chat!DONE THEN Has(b) ELSE piece
      <4>1. stored[b].text = Upto(Has(b))
        BY <2>1, <2>3 DEF InOrder
      <4>2. CASE piece = Chat!DONE
        BY <3>1, <3>3, <4>1, <4>2 DEF Chat!Text, Has
      <4>3. CASE piece # Chat!DONE
        <5>1. stored'[b].text = Append(stored[b].text, Has(b) + 1)
          BY <3>1, <3>3, <3>8, <4>3 DEF Chat!Text
        <5>2. stored'[b].text = Upto(Has(b) + 1) /\ Len(stored'[b].text) = Has(b) + 1
          BY <3>4, <4>1, <5>1, NextPart DEF Has
        <5> QED BY <3>8, <4>3, <5>2 DEF Has
      <4> QED BY <4>2, <4>3
    <3>10. Has(b)' \in Nat /\ Has(b)' <= gen'[b].sent
      BY <1>1, <2>1, <2>3, <3>4, <3>6, <3>9 DEF InOrder
    <3>11. \A e \in events' : e.answer = b => Sent(b, e.part)' /\ Has(b)' < e.part
      BY <1>1, <2>1, <2>3, <3>1, <3>4, <3>5, <3>9 DEF InOrder, Sent
    <3>12. \A p \in 1 .. gen'[b].sent :
             \/ p <= Has(b)'
             \/ \E e \in events' : e.answer = b /\ e.part = p
      <4> SUFFICES ASSUME NEW p \in 1 .. gen[b].sent PROVE p <= Has(b)'
                                   \/ \E e \in events : e.answer = b /\ e.part = p
        BY <1>1
      <4>1. \/ p <= Has(b)
            \/ \E e \in events : e.answer = b /\ e.part = p
            \/ p = piece
        BY <2>1, <2>3, <3>1 DEF InOrder
      <4>2. p # Chat!DONE
        BY <3>4, ChatNumbers DEF Chat!DONE
      <4> QED BY <1>1, <3>1, <3>4, <3>9, <4>1, <4>2
    <3>13. stored'[b].stage = "DONE" => Has(b)' = Parts /\ \A e \in events' : e.answer # b
      <4> SUFFICES ASSUME piece = Chat!DONE PROVE Has(b)' = Parts /\ \A e \in events' : e.answer # b
        BY <3>1, <3>3 DEF Chat!Stage
      <4>1. \A e \in events : e.answer # b
        BY <3>1, <3>5, ChatNumbers DEF Chat!DONE
      <4>2. Parts <= Has(b)'
        BY <1>1, <3>7, <3>12, <4>1, ChatNumbers
      <4> QED BY <1>1, <3>4, <3>7, <3>10, <4>1, <4>2, ChatNumbers
    <3> QED BY <2>3, <3>2, <3>9, <3>10, <3>11, <3>12, <3>13 DEF InOrder
  <2> QED BY <2>2, <2>3
<1> QED BY <1>10, <1>11, <1>12, <1>13, <1>14 DEF ChatInv

LEMMA TitleKeepsChat ==
  ASSUME ChatInv, NEW h \in handlers, Chat!GenerateTitle(h), NEW more, Chat!Noted(more)
  PROVE  ChatInv'
<1>1. PICK k : /\ k.event = h.event /\ k.step = "finish"
               /\ handlers' = (handlers \ {h}) \union {k}
  <2> DEFINE k == [event |-> h.event, step |-> "finish", loaded |-> sessionStatus[gen[h.event.answer].session]]
  <2>1. \A S : (\E next \in {{"finish"}} : S = {[event |-> h.event, step |-> n, loaded |-> sessionStatus[gen[h.event.answer].session]] : n \in next})
                 => S = {k}
    OBVIOUS
  <2>2. handlers' = (handlers \ {h}) \union {k}
    BY <2>1 DEF Chat!GenerateTitle, Chat!AfterTitle, Chat!Becomes
  <2> QED BY <2>2
<1>2. /\ UNCHANGED <<sessionStatus, Chat!users, tick, gen, stored, events, raced>> /\ h.step = "title"
      /\ h.event \in Chat!Events /\ h.event.answer \in Answers
      /\ gen[h.event.answer].step = "over" /\ stored[h.event.answer].stage # "none"
  BY DEF Chat!GenerateTitle, ChatInv, ChatTypes, Chat!Events, EndsAreOver, EventsAreOfStreams
<1>3. /\ \A x \in handlers' : (x \in handlers \/ x = k)
      /\ \A x \in handlers' : x.step = "save" => x \in handlers
      /\ \A x \in handlers : x.step = "save" => x \in handlers'
  BY <1>1, <1>2
<1>4. (ChatTypes /\ EventsAreOfStreams /\ EndsAreOver)'
  <2>1. ChatTypes'
    BY <1>1, <1>2, <1>3 DEF ChatInv, ChatTypes, Chat!users, Chat!Noted
  <2>2. EventsAreOfStreams'
    BY <1>1, <1>2, <1>3 DEF ChatInv, EventsAreOfStreams
  <2>3. EndsAreOver'
    BY <1>1, <1>2, <1>3 DEF ChatInv, EndsAreOver
  <2> QED BY <2>1, <2>2, <2>3
<1>5. OneByOne'
  <2>1. \A x \in Answers : Pending(x)' => Pending(x)
    BY <1>1, <1>2, <1>3 DEF Pending
  <2> QED BY <1>2, <2>1, HandlersKeepOne
<1>6. \A x \in Answers \ raced' : InOrder(x)'
  BY <1>2, <1>3 DEF ChatInv, InOrder, Has, Sent
<1> QED BY <1>4, <1>5, <1>6 DEF ChatInv

LEMMA FinishKeepsChat ==
  ASSUME ChatInv, NEW h \in handlers, Chat!finishSession(h), NEW more, Chat!Noted(more)
  PROVE  ChatInv'
<1> DEFINE b == h.event.answer
           s == gen[b].session
<1>1. /\ UNCHANGED <<Chat!users, tick, gen, stored, events, raced>> /\ h.step = "finish"
      /\ handlers' = handlers \ {h} /\ b \in Answers /\ gen[b].step = "over" /\ s \in Sessions
  BY DEF Chat!finishSession, Chat!Becomes, ChatInv, ChatTypes, Chat!Events, EndsAreOver
<1>2. /\ sessionStatus'[s] \in {sessionStatus[s], "FINISHED"} /\ \A x \in Sessions : x # s => sessionStatus'[x] = sessionStatus[x]
      /\ sessionStatus' \in [Sessions -> Chat!Statuses]
  BY <1>1 DEF Chat!finishSession, Chat!Set, Chat!Written, ChatInv, ChatTypes, Chat!Statuses
<1>3. (ChatTypes /\ EventsAreOfStreams /\ EndsAreOver)'
  BY <1>1, <1>2 DEF ChatInv, ChatTypes, EventsAreOfStreams, EndsAreOver, Chat!users, Chat!Noted
<1>4. \A x \in Answers \ raced' : InOrder(x)'
  BY <1>1 DEF ChatInv, InOrder, Has, Sent
<1>5. OneByOne'
  <2> SUFFICES ASSUME Undisturbed' PROVE OneByOne'
    BY DEF OneByOne
  <2>1. /\ Undisturbed
        /\ \A x \in Sessions : ~(Chat!Inserting(x)' /\ Chat!Answering(x)')
    BY NotedSays
  <2>2. Pending(b) /\ ~Active(b)
    BY <1>1 DEF Pending, Active
  <2>3. \A x \in Answers : Active(x) => gen[x].session \in Sessions /\ gen[x].session # s
                                        /\ sessionStatus'[gen[x].session] = sessionStatus[gen[x].session]
    <3>1. \A x \in Answers : Active(x) => gen[x].session \in Sessions /\ gen[x].session # s
      BY <1>1, <2>1, <2>2 DEF ChatInv, OneByOne, ChatTypes, Active
    <3> QED BY <1>2, <3>1
  <2>4. \A x \in Answers : Pending(x) => sessionStatus'[gen[x].session] # "WAITING"
    <3>1. \A x \in Answers : Pending(x) => gen[x].session \in Sessions
      BY DEF ChatInv, ChatTypes, EventsAreOfStreams, Pending
    <3> QED BY <1>2, <2>1, <3>1 DEF ChatInv, OneByOne
  <2>5. \A x \in Answers : /\ Active(x)' = Active(x) /\ Chat!Starting(x)' = Chat!Starting(x)
                           /\ gen'[x] = gen[x] /\ (Pending(x)' => Pending(x))
    BY <1>1 DEF Active, Chat!Starting, Pending
  <2>6. \A x \in Answers : (Chat!Starting(x) \/ gen[x].step \in {"save", "stream"}) => Active(x)
    BY DEF Chat!Starting, Active
  <2> QED BY <1>1, <2>1, <2>3, <2>4, <2>5, <2>6 DEF ChatInv, OneByOne
<1> QED BY <1>3, <1>4, <1>5 DEF ChatInv

(* A handler that fails keeps the rest as it is, and its answer is noted.  *)
LEMMA FailedHandlingKeepsChat ==
  ASSUME ChatInv, NEW h \in handlers, Chat!HandlingFails(h), NEW more, Chat!Noted(more)
  PROVE  ChatInv'
<1>1. /\ UNCHANGED <<sessionStatus, Chat!users, tick, gen, stored, events>>
      /\ handlers' = handlers \ {h} /\ raced \subseteq raced'
      /\ h.step = "save" => h.event.answer \in raced'
  BY DEF Chat!HandlingFails, Chat!Becomes
<1>2. (ChatTypes /\ EventsAreOfStreams /\ EndsAreOver)'
  <2>1. ChatTypes'
    BY <1>1 DEF ChatInv, ChatTypes, Chat!users, Chat!Noted
  <2>2. EventsAreOfStreams'
    BY <1>1 DEF ChatInv, EventsAreOfStreams
  <2>3. EndsAreOver'
    BY <1>1 DEF ChatInv, EndsAreOver
  <2> QED BY <2>1, <2>2, <2>3
<1>3. OneByOne'
  <2>1. \A x \in Answers : Pending(x)' => Pending(x)
    BY <1>1 DEF Pending
  <2> QED BY <1>1, <2>1, HandlersKeepOne
<1>4. ASSUME NEW x \in Answers \ raced' PROVE InOrder(x)'
  <2>1. InOrder(x) /\ \A k \in handlers : k.event.answer = x /\ k.step = "save" => k \in handlers'
    BY <1>1 DEF ChatInv
  <2> QED BY <1>1, <2>1 DEF InOrder, Has, Sent
<1> QED BY <1>2, <1>3, <1>4 DEF ChatInv

LEMMA ChatInductive == ChatInv /\ [Chat!ChatNext]_(Chat!chatVars) => ChatInv'
<1>1. ASSUME ChatInv, Chat!ChatNext PROVE ChatInv'
  <2>1. PICK more : Chat!Noted(more)
    BY <1>1 DEF Chat!ChatNext
  <2>2. ASSUME NEW c \in Messages, Chat!Insert(c) PROVE ChatInv'
    BY <1>1, <2>1, <2>2, InsertKeepsChat
  <2>3. ASSUME NEW a \in Answers, Chat!Generate(a) PROVE ChatInv'
    BY <1>1, <2>1, <2>3, ReadKeepsChat, LoadKeepsChat, SetKeepsChat, SaveKeepsChat, EmitKeepsChat DEF Chat!Generate
  <2>4. ASSUME NEW e \in events, Chat!Receive(e) PROVE ChatInv'
    BY <1>1, <2>1, <2>4, ReceiveKeepsChat
  <2>5. ASSUME NEW h \in handlers, Chat!Handle(h) PROVE ChatInv'
    BY <1>1, <2>1, <2>5, AnswerKeepsChat, TitleKeepsChat, FinishKeepsChat DEF Chat!Handle
  <2>6. CASE Chat!CronCounts
    BY <1>1, <2>1, <2>6, CountKeepsChat
  <2>7. CASE Chat!CronFinds
    BY <1>1, <2>1, <2>7, FindKeepsChat
  <2>8. ASSUME NEW a \in Answers, Chat!GenFails(a) PROVE ChatInv'
    BY <1>1, <2>1, <2>8, FailKeepsChat
  <2>9. ASSUME NEW h \in handlers, Chat!HandlingFails(h) PROVE ChatInv'
    BY <1>1, <2>1, <2>9, FailedHandlingKeepsChat
  <2> QED BY <1>1, <2>2, <2>3, <2>4, <2>5, <2>6, <2>7, <2>8, <2>9
          DEF Chat!ChatNext, Chat!Work, Chat!Cron, Chat!Fails
<1>2. ASSUME ChatInv, UNCHANGED Chat!chatVars PROVE ChatInv'
  <2>1. UNCHANGED <<sessionOf, sessionStatus, chatPc, seen, tick, gen, stored, events, handlers, odd, raced>>
    BY <1>2 DEF Chat!chatVars
  <2>2. (ChatTypes /\ EventsAreOfStreams /\ EndsAreOver)'
    BY <1>2, <2>1 DEF ChatInv, ChatTypes, EventsAreOfStreams, EndsAreOver
  <2>3. OneByOne'
    BY <1>2, <2>1 DEF ChatInv, OneByOne, Undisturbed, Chat!Inserting, Chat!Answering, Active, Pending, Chat!Starting
  <2>4. \A x \in Answers \ raced' : InOrder(x)'
    BY <1>2, <2>1 DEF ChatInv, InOrder, Has, Sent
  <2> QED BY <2>2, <2>3, <2>4 DEF ChatInv
<1> QED BY <1>1, <1>2

LEMMA ChatFollows == ChatInv => Chat!OneAnswerAtATime /\ Chat!AnswerIsWhole
<1> SUFFICES ASSUME ChatInv PROVE Chat!OneAnswerAtATime /\ Chat!AnswerIsWhole
  OBVIOUS
<1>1. Chat!OneAnswerAtATime
  <2> DEFINE S == {a \in Answers : gen[a].step \in {"save", "stream"}}
  <2> SUFFICES ASSUME Undisturbed PROVE Cardinality(S) <= 1
    BY DEF Chat!OneAnswerAtATime, Undisturbed, Chat!Cardinality, Cardinality
  <2>1. \A a, b \in S : a = b
    BY DEF ChatInv, OneByOne, Active
  <2> HIDE DEF S
  <2>2. CASE S = {}
    BY <2>2, FS_EmptySet
  <2>3. ASSUME NEW a \in S PROVE Cardinality(S) <= 1
    <3>1. S = {a}
      BY <2>1
    <3> QED BY <3>1, FS_Singleton
  <2> QED BY <2>2, <2>3
<1>2. Chat!AnswerIsWhole
  <2> SUFFICES ASSUME NEW a \in Answers \ raced, stored[a].stage = "DONE"
               PROVE  stored[a].text = [i \in 1 .. Parts |-> i]
    BY DEF Chat!AnswerIsWhole
  <2>1. InOrder(a)
    BY DEF ChatInv
  <2>2. Has(a) = Parts /\ stored[a].text = Upto(Has(a))
    BY <2>1 DEF InOrder
  <2> QED BY <2>2 DEF Upto
<1> QED BY <1>1, <1>2

-----------------------------------------------------------------------------
(* A behaviour of all the parts is one of each.                            *)
LEMMA PartsStep ==
  [PartsNext]_partsVars =>
      /\ [Next]_vars /\ [Mutex!Next]_(Mutex!mutexVars) /\ [Queue!Next]_(Queue!queueVars)
      /\ [Proxy!Next]_(Proxy!balancerVars) /\ [Chat!ChatNext]_(Chat!chatVars)
      /\ [Server!SubscriptionsNext]_(Server!subscriptionVars)
<1> SUFFICES ASSUME [PartsNext]_partsVars
             PROVE  /\ Next \/ UNCHANGED vars
                    /\ Mutex!Next \/ UNCHANGED mutexVars
                    /\ Queue!Next \/ UNCHANGED queueVars
                    /\ Proxy!Next \/ UNCHANGED proxyVars
                    /\ Chat!ChatNext \/ UNCHANGED chatVars
                    /\ Server!SubscriptionsNext \/ UNCHANGED serverVars
  BY DEF mutexVars, queueVars, proxyVars, chatVars, serverVars, Mutex!mutexVars, Queue!queueVars,
         Proxy!balancerVars, Proxy!workers, Proxy!server, Chat!chatVars, Server!subscriptionVars
<1> QED BY DEF PartsNext, partsVars, restVars

(* A request finds a worker to be sent to, however workers and the server  *)
(* of the proxy come and go.                                               *)
THEOREM TargetsAreFound == PartsSpec => []RequestsHaveATarget
<1>1. PartsInit => ProxyInv
  BY ProxyStarts DEF PartsInit
<1>2. ProxyInv /\ [PartsNext]_partsVars => ProxyInv'
  BY PartsStep, ProxyInductive
<1>3. ProxyInv => RequestsHaveATarget
  BY DEF ProxyInv, RequestsHaveATarget, Proxy!RequestsHaveATarget
<1> QED BY <1>1, <1>2, <1>3, PTL DEF PartsSpec

(* A new socket has been told of every subject that is registered, or will *)
(* be, or a first LISTEN was on its way to a former one when it connected. *)
THEOREM SubjectsAreTakenOver == PartsSpec => []ListenedAgain
<1>1. PartsInit => ServerInv
  BY ServerStarts DEF PartsInit
<1>2. ServerInv /\ [PartsNext]_partsVars => ServerInv'
  BY PartsStep, ServerInductive
<1>3. ServerInv => ListenedAgain
  BY ListenedAgainFollows DEF ListenedAgain
<1> QED BY <1>1, <1>2, <1>3, PTL DEF PartsSpec

(* Answers are generated one at a time and a finished one has all its      *)
(* text, unless what `odd` and `raced` note has happened.                  *)
THEOREM AnswersWhole == PartsSpec => []AnswersAreWhole
<1>1. PartsInit => ChatInv
  BY ChatStarts DEF PartsInit
<1>2. ChatInv /\ [PartsNext]_partsVars => ChatInv'
  BY PartsStep, ChatInductive
<1>3. ChatInv => AnswersAreWhole
  BY ChatFollows DEF AnswersAreWhole
<1> QED BY <1>1, <1>2, <1>3, PTL DEF PartsSpec

(* The mutex serves its callers first come first served.                   *)
THEOREM MutexIsFifo == PartsSpec => ImplementsFifoLock
<1>1. PartsInit => Mutex!Init
  BY DEF PartsInit
<1>2. [PartsNext]_partsVars => [Mutex!Next]_(Mutex!mutexVars)
  BY PartsStep
<1>3. PartsSpec => Mutex!Spec
  BY <1>1, <1>2, PTL DEF PartsSpec, Mutex!Spec
<1> QED BY <1>3, MutexRefinement DEF ImplementsFifoLock

(* So does the queue.  That it never stops while its tasks end is left to  *)
(* the run.                                                                *)
THEOREM QueueIsFifo == PartsSpec => Queue!Lock!LockSafety
<1>1. PartsInit => Queue!Init
  BY DEF PartsInit
<1>2. [PartsNext]_partsVars => [Queue!Next]_(Queue!queueVars)
  BY PartsStep
<1>3. PartsSpec => Queue!Spec
  BY <1>1, <1>2, PTL DEF PartsSpec, Queue!Spec
<1> QED BY <1>3, QueueRefinement
=============================================================================
