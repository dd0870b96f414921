--------------------------- MODULE OwnershipProofs ---------------------------
(***************************************************************************)
(* Proofs about EntityOwnershipGroup, the members of one team, and about   *)
(* TeamOwnership, what teams own: two components, each with a              *)
(* specification and an inductive invariant of its own.                    *)
(*                                                                         *)
(* Of a team, for any users, requests, grants and members to start with,   *)
(* the invariant adds to TypeOK that entries are stamped below the version *)
(* of the document, that members are on record as having joined, and, for  *)
(* each request, what must hold where it stands: above all that a request  *)
(* about to replace the members either holds the members of now or an      *)
(* older version.                                                          *)
(***************************************************************************)
EXTENDS EntityOwnershipGroup, TeamOwnership, FiniteSetTheorems, WellFoundedInduction, TLAPS

MembersSound ==
    /\ IsFiniteSet(members)
    /\ \A e \in members : e.at < version /\ e.user \in joined

(* What holds of request r when its next step is s.                        *)
At(r, s) ==
    /\ s = "may?" => req[r].op \in {"update", "invite", "remove", "cancel", "delete"}
    /\ s = "owned?" => req[r].op = "delete"
    /\ s = "push" => req[r].op \in {"add", "accept"}
    /\ s \in {"lookup", "insert"} => req[r].op = "invite" /\ req[r].target \in Users
    /\ s \in {"find", "team?", "consume", "pull"} => req[r].op = "accept"
    /\ s = "cancel" => req[r].op \in {"cancel", "refuse"}
    /\ s = "consume" => Joiner(r) \in joined
    /\ s = "replace" =>
          /\ req[r].op \in {"update", "remove"}
          /\ req[r].op = "update" => Has(req[r].target, snap[r].members)
          /\ req[r].op = "remove" => ~OnlyOwnerLeaves(r, snap[r].members)
          /\ ~SelfServed(r, snap[r].members)
          /\ snap[r].version <= version
          /\ (exists /\ snap[r].version = version) => snap[r].members = members

IInv == TypeOK /\ MembersSound /\ \A r \in Requests : At(r, pc[r])

-----------------------------------------------------------------------------
(* A set of numbers has a least one.                                       *)
LEMMA LeastNat ==
  ASSUME NEW T \in SUBSET Nat, T # {}
  PROVE  \E x \in T : \A y \in T : x <= y
<1> DEFINE R == OpToRel(<, Nat)
<1>1. IsWellFoundedOn(R, Nat)
  BY NatLessThanWellFounded
<1>2. PICK x \in T : \A y \in T : <<y, x>> \notin R
  <2> HIDE DEF R
  <2> QED BY <1>1, WFMin
<1>3. \A y \in T : y < x => <<y, x>> \in R
  BY DEF OpToRel
<1>4. \A y \in T : ~(y < x)
  BY <1>2, <1>3
<1> HIDE DEF R
<1> QED BY <1>4

(* `find` finds an entry of the user, if there is one.                     *)
LEMMA FirstIsEntry ==
  ASSUME NEW M \in SUBSET Entry, NEW u, Has(u, M)
  PROVE  First(u, M) \in EntriesOf(u, M)
<1> DEFINE T == {e.at : e \in EntriesOf(u, M)}
<1>1. T \in SUBSET Nat /\ T # {}
  BY DEF EntriesOf, Entry, Has
<1>2. PICK n \in T : \A m \in T : n <= m
  <2> HIDE DEF T
  <2> QED BY <1>1, LeastNat
<1>3. PICK e \in EntriesOf(u, M) : e.at = n
  BY <1>2
<1>4. \A f \in EntriesOf(u, M) : e.at <= f.at
  BY <1>2, <1>3
<1> QED BY <1>4 DEF First

(* The arguments of a request tell its kind.                               *)
LEMMA ArgsOf ==
  ASSUME NEW a \in Args
  PROVE  /\ a.op \in {"update", "invite"} => /\ a.actor \in Users
                                             /\ a.target \in Users \union {NoUser}
                                             /\ a.caps \in SUBSET Capability
         /\ a.op = "add" => a.target \in Users /\ a.caps \in SUBSET Capability
         /\ a.op \in {"accept", "cancel", "refuse"} => a.invite \in Invitation
<1>1. CASE a = NoArgs
  BY <1>1 DEF NoArgs
<1>2. CASE a \in [op : {"update", "invite"}, actor : Users, target : Users \union {NoUser}, caps : Grants]
  BY <1>2, Inputs
<1>3. CASE a \in [op : {"add"}, actor : {NoUser}, target : Users, caps : Grants]
  BY <1>3, Inputs
<1>4. CASE a \in [op : {"remove"}, actor : Users \union {NoUser}, target : Users]
  BY <1>4
<1>5. CASE a \in [op : {"accept", "cancel", "refuse"}, actor : Users, invite : Invitation]
  BY <1>5
<1>6. CASE a \in [op : {"delete"}, actor : Users]
  BY <1>6
<1> QED BY <1>1, <1>2, <1>3, <1>4, <1>5, <1>6 DEF Args

(* The members a commit writes are entries, finitely many, stamped like    *)
(* those that were read, of users who were among them.                     *)
LEMMA NewMembersSound ==
  ASSUME NEW r \in Requests, TypeOK, At(r, "replace")
  PROVE  LET M == snap[r].members IN
         /\ NewMembers(r) \subseteq Entry
         /\ IsFiniteSet(M) => IsFiniteSet(NewMembers(r))
         /\ \A e \in NewMembers(r) : \E f \in M : f.user = e.user /\ f.at = e.at
         /\ Without(req[r].target, NewMembers(r)) = Without(req[r].target, M)
<1> DEFINE M == snap[r].members
           u == req[r].target
<1>1. M \in SUBSET Entry
  BY DEF TypeOK
<1>2. CASE req[r].op = "update"
  <2> DEFINE f == First(u, M)
             g == [f EXCEPT !.caps = req[r].caps]
  <2>1. f \in M /\ f.user = u /\ f \in Entry
    BY <1>1, <1>2, FirstIsEntry DEF At, EntriesOf
  <2>2. req[r].caps \in SUBSET Capability
    BY <1>2, ArgsOf DEF TypeOK
  <2>3. g \in Entry /\ g.user = u /\ g.at = f.at
    <3> HIDE DEF f
    <3> QED BY <2>1, <2>2 DEF Entry
  <2>4. NewMembers(r) = (M \ {f}) \union {g}
    BY <1>2 DEF NewMembers
  <2> HIDE DEF f, g, M, u
  <2>5. IsFiniteSet(M) => IsFiniteSet(NewMembers(r))
    <3> SUFFICES ASSUME IsFiniteSet(M) PROVE IsFiniteSet((M \ {f}) \union {g})
      BY <2>4
    <3>1. IsFiniteSet(M \ {f})
      BY FS_RemoveElement
    <3> QED BY <3>1, FS_AddElement
  <2>6. Without(u, NewMembers(r)) = Without(u, M)
    BY <2>1, <2>3, <2>4 DEF Without
  <2>7. NewMembers(r) \subseteq Entry
    BY <1>1, <2>3, <2>4
  <2>8. \A e \in NewMembers(r) : \E h \in M : h.user = e.user /\ h.at = e.at
    BY <2>1, <2>3, <2>4
  <2> QED BY <2>5, <2>6, <2>7, <2>8 DEF M, u
<1>3. CASE req[r].op = "remove"
  <2>1. NewMembers(r) = Without(u, M)
    BY <1>3 DEF NewMembers
  <2>2. Without(u, M) \in SUBSET M
    BY DEF Without
  <2>3. IsFiniteSet(M) => IsFiniteSet(NewMembers(r))
    BY <2>1, <2>2, FS_Subset
  <2>4. Without(u, Without(u, M)) = Without(u, M)
    BY DEF Without
  <2> QED BY <1>1, <2>1, <2>2, <2>3, <2>4
<1> QED BY <1>2, <1>3 DEF At

(* The facts about a request survive what others do to the team: a change  *)
(* of the members raises the version, unless it ends the team.             *)
LEMMA OthersUndisturbed ==
  ASSUME NEW r \in Requests, TypeOK, version' \in Nat, At(r, pc[r]),
         pc'[r] = pc[r], req'[r] = req[r], snap'[r] = snap[r],
         joined \subseteq joined',
         \/ version' = version /\ members' = members /\ (exists' => exists)
         \/ version' > version
         \/ version' = version /\ ~exists'
  PROVE  At(r, pc[r])'
<1>1. snap[r].version \in Nat
  BY DEF TypeOK
<1> QED BY <1>1 DEF At, TypeOK, Joiner, Has, EntriesOf, OnlyOwnerLeaves, IsOwner, First,
                    Owners, SelfServed, IsAdmin

(* A step that only moves a request on to s, where the facts for s hold.   *)
LEMMA Move ==
  ASSUME NEW q \in Requests, NEW s \in Steps, IInv, At(q, s),
         Goto(q, s), UNCHANGED <<db, req, snap>>
  PROVE  IInv'
<1>1. TypeOK'
  BY DEF IInv, TypeOK, Goto, db
<1>2. MembersSound'
  BY DEF IInv, MembersSound, db
<1>3. ASSUME NEW r \in Requests PROVE At(r, pc[r])'
  <2>1. CASE r = q
    <3>1. pc'[q] = s
      BY DEF Goto, IInv, TypeOK
    <3> QED BY <2>1, <3>1 DEF At, db, Joiner, Has, EntriesOf, OnlyOwnerLeaves, IsOwner, First,
                              Owners, SelfServed, IsAdmin
  <2>2. CASE r # q
    BY <2>2, OthersUndisturbed DEF Goto, IInv, TypeOK, db
  <2> QED BY <2>1, <2>2
<1> QED BY <1>1, <1>2, <1>3 DEF IInv

LEMMA StayedOn ==
  ASSUME IInv, UNCHANGED vars
  PROVE  IInv'
<1>1. TypeOK' /\ MembersSound'
  BY DEF IInv, TypeOK, MembersSound, vars, db
<1>2. ASSUME NEW r \in Requests PROVE At(r, pc[r])'
  BY OthersUndisturbed DEF IInv, TypeOK, vars, db
<1> QED BY <1>1, <1>2 DEF IInv

LEMMA Failing ==
  ASSUME NEW q \in Requests, IInv, Refuse(q)
  PROVE  IInv'
<1>1. At(q, "failed")
  BY DEF At
<1> QED BY <1>1, Move DEF Refuse, Steps

-----------------------------------------------------------------------------
(* Requests arriving, and the steps that only look.                        *)

LEMMA Arriving ==
  ASSUME NEW q \in Requests, IInv, Arrive(q)
  PROVE  IInv'
<1>1. PICK a \in Args, s \in {"may?", "read", "find", "cancel", "owned?"} :
        /\ Begin(q, a, s)
        /\ s = "may?" => a.op \in {"update", "invite", "remove"}
                              \union {"cancel"}
        /\ s = "find" => a.op = "accept"
        /\ s = "cancel" => a.op = "refuse"
        /\ s = "owned?" => a.op = "delete"
  <2>1. invitations \subseteq Invitation
    BY DEF IInv, TypeOK
  <2>2. ASSUME NEW actor \in Users, NEW target \in Users, NEW caps \in Grants
        PROVE  /\ [op |-> "update", actor |-> actor, target |-> target, caps |-> caps] \in Args
               /\ [op |-> "add", actor |-> NoUser, target |-> target, caps |-> caps] \in Args
    BY DEF Args
  <2>3. ASSUME NEW actor \in Users, NEW target \in Users \union {NoUser}, NEW caps \in Grants
        PROVE  [op |-> "invite", actor |-> actor, target |-> target, caps |-> caps] \in Args
    BY DEF Args
  <2>4. ASSUME NEW actor \in Users \union {NoUser}, NEW target \in Users
        PROVE  [op |-> "remove", actor |-> actor, target |-> target] \in Args
    BY DEF Args
  <2>5. ASSUME NEW actor \in Users, NEW i \in invitations, NEW op \in {"accept", "cancel", "refuse"}
        PROVE  [op |-> op, actor |-> actor, invite |-> i] \in Args
    BY <2>1 DEF Args
  <2>6. ASSUME NEW actor \in Users
        PROVE  [op |-> "delete", actor |-> actor] \in Args
    BY DEF Args
  <2> QED BY <2>2, <2>3, <2>4, <2>5, <2>6 DEF Arrive
<1>2. /\ pc' = [pc EXCEPT ![q] = s] /\ req' = [req EXCEPT ![q] = a]
      /\ UNCHANGED <<db, snap>>
  BY <1>1 DEF Begin, Goto
<1>3. TypeOK'
  BY <1>2 DEF IInv, TypeOK, db, Steps
<1>4. MembersSound'
  BY <1>2 DEF IInv, MembersSound, db
<1>5. ASSUME NEW r \in Requests PROVE At(r, pc[r])'
  <2>1. CASE r = q
    <3>1. pc'[q] = s /\ req'[q] = a
      BY <1>2 DEF IInv, TypeOK
    <3> QED BY <1>1, <2>1, <3>1 DEF At
  <2>2. CASE r # q
    BY <1>2, <2>2, OthersUndisturbed DEF IInv, TypeOK, db
  <2> QED BY <2>1, <2>2
<1> QED BY <1>3, <1>4, <1>5 DEF IInv

LEMMA Looking ==
  ASSUME NEW q \in Requests, IInv,
         \/ AssertMay(q) \/ AssertOwner(q) \/ AssertGive(q) \/ ReadJoin(q) \/ ReadInvite(q)
         \/ LookupInvite(q) \/ FindInvite(q) \/ FindTeam(q) \/ AssertOwnsNothing(q)
  PROVE  IInv'
<1> SUFFICES ASSUME ~Refuse(q) PROVE IInv'
  BY Failing
<1> USE DEF Steps
<1>0. At(q, pc[q]) /\ req[q] \in Args
  BY DEF IInv, TypeOK
<1>1. CASE AssertMay(q)
  <2> DEFINE s == AfterMay(req[q].op)
  <2>1. s \in {"owner?", "give?", "cancel", "drop"} /\ (s = "cancel" => req[q].op = "cancel")
    BY <1>0, <1>1 DEF AfterMay, At, AssertMay
  <2>2. At(q, s)
    BY <2>1 DEF At
  <2> QED BY <1>1, <2>1, <2>2, Move DEF AssertMay
<1>2. CASE AssertOwner(q)
  <2>1. At(q, "give?") /\ At(q, "read")
    BY DEF At
  <2> QED BY <1>2, <2>1, Move DEF AssertOwner
<1>3. CASE AssertGive(q)
  <2>1. At(q, "read")
    BY DEF At
  <2> QED BY <1>3, <2>1, Move DEF AssertGive
<1>4. CASE ReadJoin(q)
  <2>1. At(q, "push") /\ At(q, "done")
    BY <1>4 DEF ReadJoin, At
  <2>2. CASE Has(Joiner(q), members)
    <3>1. Joiner(q) \in joined
      BY <2>2 DEF Has, EntriesOf, IInv, MembersSound
    <3>2. AfterJoin(q) \in Steps /\ At(q, AfterJoin(q))
      BY <2>1, <3>1 DEF AfterJoin, At
    <3> QED BY <1>4, <2>2, <3>2, Move DEF ReadJoin
  <2>3. CASE ~Has(Joiner(q), members)
    BY <1>4, <2>1, <2>3, Move DEF ReadJoin
  <2> QED BY <2>2, <2>3
<1>5. CASE ReadInvite(q)
  <2>1. req[q].target \in Users \/ Refuse(q)
    BY <1>0, <1>5, ArgsOf DEF ReadInvite
  <2>2. At(q, "done") /\ At(q, "lookup")
    BY <1>5, <2>1 DEF ReadInvite, At
  <2> QED BY <1>5, <2>2, Move DEF ReadInvite
<1>6. CASE LookupInvite(q)
  <2>1. At(q, "done") /\ At(q, "insert")
    BY <1>0, <1>6 DEF LookupInvite, At
  <2>2. PICK s \in {"done", "insert"} : Goto(q, s) /\ UNCHANGED <<db, req, snap>>
    BY <1>6 DEF LookupInvite
  <2> QED BY <2>1, <2>2, Move
<1>7. CASE FindInvite(q)
  <2>1. At(q, "team?")
    BY <1>0, <1>7 DEF FindInvite, At
  <2> QED BY <1>7, <2>1, Move DEF FindInvite
<1>8. CASE FindTeam(q)
  <2>1. At(q, "read")
    BY DEF At
  <2> QED BY <1>8, <2>1, Move DEF FindTeam
<1>9. CASE AssertOwnsNothing(q)
  <2>1. At(q, "may?")
    BY <1>0, <1>9 DEF AssertOwnsNothing, At
  <2> QED BY <1>9, <2>1, Move DEF AssertOwnsNothing
<1> QED BY <1>1, <1>2, <1>3, <1>4, <1>5, <1>6, <1>7, <1>8, <1>9

-----------------------------------------------------------------------------
(* The reads that keep what they saw, and the commands that change things. *)

(* A step of q that leaves the members alone.                              *)
LEMMA ElsewhereMove ==
  ASSUME NEW q \in Requests, NEW s \in Steps \ {"replace"}, IInv, At(q, s), Goto(q, s), TypeOK',
         UNCHANGED <<exists, members, version, joined, req, snap>>
  PROVE  IInv'
<1>1. MembersSound'
  BY DEF IInv, MembersSound
<1>2. ASSUME NEW r \in Requests PROVE At(r, pc[r])'
  <2>1. CASE r = q
    <3>1. pc'[q] = s
      BY DEF Goto, IInv, TypeOK
    <3> QED BY <2>1, <3>1 DEF At, Joiner
  <2>2. CASE r # q
    BY <2>2, OthersUndisturbed DEF Goto, IInv, TypeOK
  <2> QED BY <2>1, <2>2
<1> QED BY <1>1, <1>2 DEF IInv

LEMMA Reading ==
  ASSUME NEW q \in Requests, IInv, ReadUpdate(q) \/ ReadRemove(q)
  PROVE  IInv'
<1> SUFFICES ASSUME ~Refuse(q) PROVE IInv'
  BY Failing
<1>1. /\ exists /\ Load(q) /\ Goto(q, "replace") /\ UNCHANGED <<db, req>>
      /\ ~SelfServed(q, members) /\ req[q].op \in {"update", "remove"}
      /\ req[q].op = "update" => Has(req[q].target, members)
      /\ req[q].op = "remove" => ~OnlyOwnerLeaves(q, members)
  BY DEF ReadUpdate, ReadRemove
<1>2. TypeOK'
  BY <1>1 DEF IInv, TypeOK, db, Load, Goto, Steps
<1>3. MembersSound'
  BY <1>1 DEF IInv, MembersSound, db
<1>4. ASSUME NEW r \in Requests PROVE At(r, pc[r])'
  <2>1. CASE r = q
    <3>1. /\ pc'[q] = "replace" /\ snap'[q] = [members |-> members, version |-> version]
          /\ req' = req /\ version' = version /\ version \in Nat /\ members' = members
      BY <1>1 DEF Load, Goto, IInv, TypeOK, db
    <3>2. snap'[q].members = members /\ snap'[q].version = version
      BY <3>1
    <3> QED BY <1>1, <2>1, <3>1, <3>2
            DEF At, Has, EntriesOf, OnlyOwnerLeaves, IsOwner, First, Owners, SelfServed, IsAdmin
  <2>2. CASE r # q
    BY <1>1, <2>2, OthersUndisturbed DEF Load, Goto, IInv, TypeOK, db
  <2> QED BY <2>1, <2>2
<1> QED BY <1>2, <1>3, <1>4 DEF IInv

(* A commit writes what follows from the members of now.                   *)
LEMMA CommitsOverCurrent ==
  ASSUME NEW q \in Requests, IInv, Replace(q), ~Refuse(q)
  PROVE  /\ At(q, "replace") /\ snap[q].members = members
         /\ members' = NewMembers(q) /\ version' = version + 1
         /\ Goto(q, "done")
         /\ UNCHANGED <<exists, invitations, entityHolders, joined, req, snap>>
<1>1. At(q, "replace")
  BY DEF IInv, Replace
<1>2. snap[q].members = members
  BY <1>1 DEF At, Replace
<1> QED BY <1>1, <1>2 DEF Replace

LEMMA Replacing ==
  ASSUME NEW q \in Requests, IInv, Replace(q)
  PROVE  IInv'
<1> SUFFICES ASSUME ~Refuse(q) PROVE IInv'
  BY Failing
<1>1. /\ At(q, "replace") /\ snap[q].members = members
      /\ members' = NewMembers(q) /\ version' = version + 1
      /\ Goto(q, "done")
      /\ UNCHANGED <<exists, invitations, entityHolders, joined, req, snap>>
  BY CommitsOverCurrent
<1>2. /\ members' \subseteq Entry /\ IsFiniteSet(members')
      /\ \A e \in members' : \E f \in members : f.user = e.user /\ f.at = e.at
  BY <1>1, NewMembersSound DEF IInv, MembersSound
<1>3. TypeOK'
  BY <1>1, <1>2 DEF IInv, TypeOK, Goto, Steps
<1>4. MembersSound'
  <2>1. \A e \in members' : e.at < version'
    BY <1>1, <1>2 DEF IInv, MembersSound, TypeOK, Entry
  <2> QED BY <1>1, <1>2, <2>1 DEF IInv, MembersSound
<1>5. ASSUME NEW r \in Requests PROVE At(r, pc[r])'
  <2>1. CASE r = q
    <3>1. pc'[q] = "done"
      BY <1>1 DEF Goto, IInv, TypeOK
    <3> QED BY <2>1, <3>1 DEF At
  <2>2. CASE r # q
    <3>1. version' > version /\ version' \in Nat
      BY <1>1 DEF IInv, TypeOK
    <3> QED BY <1>1, <2>2, <3>1, OthersUndisturbed DEF Goto, IInv, TypeOK
  <2> QED BY <2>1, <2>2
<1> QED BY <1>3, <1>4, <1>5 DEF IInv

LEMMA Pushing ==
  ASSUME NEW q \in Requests, IInv, Push(q)
  PROVE  IInv'
<1> SUFFICES ASSUME ~Refuse(q) PROVE IInv'
  BY Failing
<1> DEFINE e == [user |-> Joiner(q), caps |-> JoinCaps(q), at |-> version]
<1>1. /\ members' = members \union {e} /\ version' = version + 1
      /\ joined' = joined \union {Joiner(q)}
      /\ Goto(q, AfterJoin(q))
      /\ UNCHANGED <<exists, invitations, entityHolders, req, snap>>
  BY DEF Push
<1>2. req[q].op \in {"add", "accept"} /\ req[q] \in Args
  BY DEF IInv, At, Push, TypeOK
<1>3. Joiner(q) \in Users /\ JoinCaps(q) \in SUBSET Capability /\ version \in Nat
  BY <1>2, ArgsOf DEF Joiner, JoinCaps, Invitation, IInv, TypeOK
<1>4. e \in Entry /\ e.at = version /\ e.user = Joiner(q)
  BY <1>3 DEF Entry
<1> HIDE DEF e
<1>5. TypeOK'
  BY <1>1, <1>3, <1>4 DEF IInv, TypeOK, Goto, Steps, AfterJoin
<1>6. MembersSound'
  <2>1. IsFiniteSet(members')
    BY <1>1, FS_AddElement DEF IInv, MembersSound
  <2>2. \A f \in members' : f.at < version' /\ f.user \in joined'
    BY <1>1, <1>3, <1>4 DEF IInv, MembersSound, TypeOK, Entry
  <2> QED BY <2>1, <2>2 DEF MembersSound
<1>7. ASSUME NEW r \in Requests PROVE At(r, pc[r])'
  <2>1. CASE r = q
    <3>1. pc'[q] = AfterJoin(q) /\ Joiner(q)' = Joiner(q)
      BY <1>1 DEF Goto, IInv, TypeOK, Joiner
    <3> QED BY <1>1, <1>2, <2>1, <3>1 DEF At, AfterJoin
  <2>2. CASE r # q
    <3>1. version' > version /\ version' \in Nat
      BY <1>1, <1>3
    <3> QED BY <1>1, <2>2, <3>1, OthersUndisturbed DEF Goto, IInv, TypeOK
  <2> QED BY <2>1, <2>2
<1> QED BY <1>5, <1>6, <1>7 DEF IInv
LEMMA Elsewhere ==
  ASSUME NEW q \in Requests, IInv,
         InsertInvite(q) \/ ConsumeInvite(q) \/ PullPersonal(q) \/ DropInvite(q)
  PROVE  IInv'
<1>0. At(q, pc[q]) /\ req[q] \in Args
  BY DEF IInv, TypeOK
<1>1. CASE InsertInvite(q)
  <2>1. [id |-> q, user |-> req[q].target, caps |-> req[q].caps] \in Invitation
    BY <1>0, <1>1, ArgsOf DEF InsertInvite, At, Invitation
  <2>2. TypeOK'
    BY <1>1, <2>1 DEF InsertInvite, IInv, TypeOK, Goto, Steps
  <2>3. At(q, "done")
    BY DEF At
  <2> QED BY <1>1, <2>2, <2>3, ElsewhereMove DEF InsertInvite, Steps
<1>2. CASE ConsumeInvite(q)
  <2>1. At(q, "pull")
    BY <1>0, <1>2 DEF ConsumeInvite, At
  <2>2. TypeOK'
    BY <1>2 DEF ConsumeInvite, IInv, TypeOK, Goto, Steps
  <2> QED BY <1>2, <2>1, <2>2, ElsewhereMove DEF ConsumeInvite, Steps
<1>3. CASE PullPersonal(q)
  <2>1. At(q, "done")
    BY DEF At
  <2>2. TypeOK'
    BY <1>3 DEF PullPersonal, IInv, TypeOK, Goto, Steps
  <2> QED BY <1>3, <2>1, <2>2, ElsewhereMove DEF PullPersonal, Steps
<1>4. CASE DropInvite(q)
  <2>1. At(q, "done")
    BY DEF At
  <2>2. TypeOK'
    BY <1>4 DEF DropInvite, IInv, TypeOK, Goto, Steps
  <2> QED BY <1>4, <2>1, <2>2, ElsewhereMove DEF DropInvite, Steps
<1> QED BY <1>1, <1>2, <1>3, <1>4

LEMMA Deleting ==
  ASSUME NEW q \in Requests, IInv, DeleteGroup(q)
  PROVE  IInv'
<1>1. TypeOK'
  BY DEF DeleteGroup, IInv, TypeOK, Goto, Steps
<1>2. MembersSound'
  BY FS_EmptySet DEF DeleteGroup, MembersSound
<1>3. ASSUME NEW r \in Requests PROVE At(r, pc[r])'
  <2>1. CASE r = q
    <3>1. pc'[q] = "done"
      BY DEF DeleteGroup, Goto, IInv, TypeOK
    <3> QED BY <2>1, <3>1 DEF At
  <2>2. CASE r # q
    BY <2>2, OthersUndisturbed DEF DeleteGroup, Goto, IInv, TypeOK
  <2> QED BY <2>1, <2>2
<1> QED BY <1>1, <1>2, <1>3 DEF IInv

-----------------------------------------------------------------------------
LEMMA Starting == Init => IInv
<1> SUFFICES ASSUME Init PROVE IInv
  OBVIOUS
<1>1. TypeOK
  BY Inputs DEF Init, TypeOK, Entry, Steps, Args, NoSnap
<1>2. MembersSound
  BY Inputs DEF Init, MembersSound
<1>3. \A r \in Requests : At(r, pc[r])
  BY DEF Init, At
<1> QED BY <1>1, <1>2, <1>3 DEF IInv

LEMMA Inductive == IInv /\ [Next]_vars => IInv'
<1> SUFFICES ASSUME IInv, Next PROVE IInv'
  BY StayedOn
<1>1. PICK q \in Requests : Arrive(q) \/ Handle(q) \/ Abandon(q)
  BY DEF Next
<1>2. CASE Arrive(q)
  BY <1>2, Arriving
<1>3. CASE Handle(q)
  BY <1>3, Looking, Reading, Replacing, Pushing, Elsewhere, Deleting DEF Handle
<1>4. CASE Abandon(q)
  BY <1>4, Failing DEF Abandon
<1> QED BY <1>1, <1>2, <1>3, <1>4

(* The inductive invariant holds in every reachable state.                 *)
THEOREM Invariance == Spec => []IInv
<1> QED BY Starting, Inductive, PTL DEF Spec

(* The variables stay in their types.                                      *)
THEOREM TypeCorrect == Spec => []TypeOK
<1>1. IInv => TypeOK
  BY DEF IInv
<1> QED BY <1>1, Invariance, PTL

(* A request about to replace the members holds those of now, or its       *)
(* version is an old one: saveUserCapabilitiesWithOptimisticLock cannot    *)
(* mistake the one for the other.                                          *)
THEOREM OptimisticLock == Spec => []SnapshotCurrent
<1>1. IInv => SnapshotCurrent
  BY DEF IInv, At, SnapshotCurrent
<1> QED BY <1>1, Invariance, PTL

-----------------------------------------------------------------------------
(* The one step that commits.                                              *)
LEMMA OnlyReplaceCommits ==
  ASSUME IInv, [Next]_vars, NEW r \in Requests, Commits(r)
  PROVE  Replace(r) /\ ~Refuse(r)
<1>0. pc \in [Requests -> Steps] /\ pc[r] = "replace" /\ pc'[r] = "done"
  BY DEF IInv, TypeOK, Commits
<1>1. PICK q \in Requests : Arrive(q) \/ Handle(q) \/ Abandon(q)
  BY <1>0 DEF Next, vars
<1>2. \E s : Goto(q, s)
  <2>0. Refuse(q) => \E s : Goto(q, s)
    BY DEF Refuse
  <2>1. AssertMay(q) => \E s : Goto(q, s)
    BY <2>0 DEF AssertMay
  <2>2. AssertOwner(q) => \E s : Goto(q, s)
    BY <2>0 DEF AssertOwner
  <2>3. AssertGive(q) => \E s : Goto(q, s)
    BY <2>0 DEF AssertGive
  <2>4. ReadUpdate(q) => \E s : Goto(q, s)
    BY <2>0 DEF ReadUpdate
  <2>5. ReadRemove(q) => \E s : Goto(q, s)
    BY <2>0 DEF ReadRemove
  <2>6. Replace(q) => \E s : Goto(q, s)
    BY <2>0 DEF Replace
  <2>7. ReadJoin(q) => \E s : Goto(q, s)
    BY <2>0 DEF ReadJoin
  <2>8. Push(q) => \E s : Goto(q, s)
    BY <2>0 DEF Push
  <2>9. ReadInvite(q) => \E s : Goto(q, s)
    BY <2>0 DEF ReadInvite
  <2>10. LookupInvite(q) => \E s : Goto(q, s)
    BY <2>0 DEF LookupInvite
  <2>11. InsertInvite(q) => \E s : Goto(q, s)
    BY <2>0 DEF InsertInvite
  <2>12. FindInvite(q) => \E s : Goto(q, s)
    BY <2>0 DEF FindInvite
  <2>13. FindTeam(q) => \E s : Goto(q, s)
    BY <2>0 DEF FindTeam
  <2>14. ConsumeInvite(q) => \E s : Goto(q, s)
    BY <2>0 DEF ConsumeInvite
  <2>15. PullPersonal(q) => \E s : Goto(q, s)
    BY <2>0 DEF PullPersonal
  <2>16. DropInvite(q) => \E s : Goto(q, s)
    BY <2>0 DEF DropInvite
  <2>17. AssertOwnsNothing(q) => \E s : Goto(q, s)
    BY <2>0 DEF AssertOwnsNothing
  <2>18. DeleteGroup(q) => \E s : Goto(q, s)
    BY <2>0 DEF DeleteGroup
  <2>19. Arrive(q) => \E s : Goto(q, s)
    BY DEF Arrive, Begin
  <2>20. Abandon(q) => \E s : Goto(q, s)
    BY <2>0 DEF Abandon
  <2> QED BY ONLY <1>1, <2>1, <2>2, <2>3, <2>4, <2>5, <2>6, <2>7, <2>8, <2>9, <2>10, <2>11, <2>12, <2>13, <2>14, <2>15, <2>16, <2>17, <2>18, <2>19, <2>20 DEF Handle
<1>3. q = r
  BY <1>0, <1>2 DEF Goto
<1>4. ~Refuse(r)
  BY <1>0 DEF Refuse, Goto
<1>5. ~Arrive(r) /\ ~Abandon(r)
  BY <1>0, <1>4 DEF Arrive, Begin, Abandon
<1> QED BY <1>0, <1>1, <1>3, <1>4, <1>5
        DEF Handle, AssertMay, AssertOwner, AssertGive, ReadUpdate, ReadRemove,
            ReadJoin, Push, ReadInvite, LookupInvite, InsertInvite, FindInvite,
            FindTeam, ConsumeInvite, PullPersonal, DropInvite, AssertOwnsNothing, DeleteGroup
LEMMA Committing ==
  ASSUME IInv, [Next]_vars, NEW r \in Requests, Commits(r)
  PROVE  At(r, "replace") /\ snap[r].members = members /\ members' = NewMembers(r)
<1> QED BY OnlyReplaceCommits, CommitsOverCurrent

(* Changing or removing one member leaves the entries of all others as     *)
(* they are at that moment, whatever ran concurrently.                     *)
THEOREM ConcurrentChangesKept == Spec => [][KeepsOthers]_vars
<1>1. IInv /\ [Next]_vars => \A r \in Requests :
        Commits(r) => Without(req[r].target, members') = Without(req[r].target, members)
  <2> SUFFICES ASSUME IInv, [Next]_vars, NEW r \in Requests, Commits(r)
               PROVE  Without(req[r].target, members') = Without(req[r].target, members)
    OBVIOUS
  <2>1. At(r, "replace") /\ snap[r].members = members /\ members' = NewMembers(r)
    BY Committing
  <2> QED BY <2>1, NewMembersSound DEF IInv
<1> QED BY <1>1, Invariance, PTL DEF Spec, KeepsOthers

(* Who changes their own entry without being ADMIN owns the team at that   *)
(* moment: the check made at the read still holds at the write.            *)
THEOREM SelfService == Spec => [][SelfServedByOwner]_vars
<1>1. IInv /\ [Next]_vars => \A r \in Requests : Commits(r) => ~SelfServed(r, members)
  <2> SUFFICES ASSUME IInv, [Next]_vars, NEW r \in Requests, Commits(r)
               PROVE  ~SelfServed(r, members)
    OBVIOUS
  <2>1. At(r, "replace") /\ snap[r].members = members
    BY Committing
  <2> QED BY <2>1 DEF At
<1> QED BY <1>1, Invariance, PTL DEF Spec, SelfServedByOwner

(* A committed change touches the entry it is about and nobody else's, and *)
(* a user's own entry only while they own the team (saveUserCapabilities-  *)
(* WithOptimisticLock after the checks on what was read).                  *)
THEOREM ChangesHold == Spec => MemberChangesHold
BY ConcurrentChangesKept, SelfService, PTL DEF MemberChangesHold

(* Two different owners are two: with one entry for each user, the check   *)
(* that there are two owners leaves one when one of them goes.             *)
LEMMA AnOwnerRemains ==
  ASSUME NEW r \in Requests, members \subseteq Entry, IsFiniteSet(members), OneEntryEach,
         ~OnlyOwnerLeaves(r, members), Owners(members) # {}
  PROVE  Owners(Without(req[r].target, members)) # {}
<1> DEFINE u == req[r].target
<1> SUFFICES ASSUME \A e \in Owners(members) : e.user = u
             PROVE  FALSE
  BY DEF Owners, Without
<1>1. PICK e \in Owners(members) : TRUE
  OBVIOUS
<1>2. Owners(members) = {e}
  BY <1>1 DEF OneEntryEach, Owners
<1>3. Cardinality(Owners(members)) = 1
  BY <1>2, FS_Singleton
<1>4. First(u, members) = e
  <2>1. Has(u, members)
    BY <1>1 DEF Has, EntriesOf, Owners
  <2>2. First(u, members) \in EntriesOf(u, members)
    BY <2>1, FirstIsEntry
  <2> QED BY <1>1, <2>2 DEF EntriesOf, OneEntryEach, Owners
<1>5. IsOwner(u, members)
  BY <1>1, <1>4 DEF IsOwner, Has, EntriesOf, Owners
<1> QED BY <1>3, <1>5 DEF OnlyOwnerLeaves

(* Removing members never leaves the team without an owner, as long as no  *)
(* user is listed twice.                                                   *)
THEOREM AnOwnerIsKept == Spec => RemovalKeepsAnOwner
<1>1. IInv /\ [Next]_vars => (OneEntryEach => \A r \in Requests : RemovalLeavesOwner(r))
  <2> SUFFICES ASSUME IInv, [Next]_vars, OneEntryEach, NEW r \in Requests,
                      Commits(r), req[r].op = "remove", Owners(members) # {}
               PROVE  Owners(members') # {}
    BY DEF RemovalLeavesOwner
  <2>1. At(r, "replace") /\ snap[r].members = members /\ members' = NewMembers(r)
    BY Committing
  <2>2. members' = Without(req[r].target, members)
    BY <2>1 DEF NewMembers
  <2>3. ~OnlyOwnerLeaves(r, members)
    BY <2>1 DEF At
  <2>4. members \subseteq Entry /\ IsFiniteSet(members)
    BY DEF IInv, TypeOK, MembersSound
  <2> QED BY <2>2, <2>3, <2>4, AnOwnerRemains
<1> QED BY <1>1, Invariance, PTL DEF Spec, RemovalKeepsAnOwner

(* An invitation only disappears when it was withdrawn or its user is a    *)
(* member.                                                                 *)
THEOREM InvitationsKept == Spec => InvitationKept
<1> DEFINE Lost(i) == \/ i.user \in joined
                      \/ \E r \in Requests : pc[r] = "cancel" /\ pc'[r] = "done" /\ req[r].invite = i
<1>1. IInv /\ [Next]_vars => \A i \in invitations \ invitations' : Lost(i)
  <2> SUFFICES ASSUME IInv, [Next]_vars, NEW i \in invitations, i \notin invitations'
               PROVE  Lost(i)
    OBVIOUS
  <2>1. PICK q \in Requests : ConsumeInvite(q) \/ DropInvite(q)
    BY DEF Next, vars, db, Arrive, Begin, Handle, Abandon, Refuse, AssertMay, AssertOwner,
           AssertGive, ReadUpdate, ReadRemove, Replace, ReadJoin, Push, ReadInvite, LookupInvite,
           InsertInvite, FindInvite, FindTeam, PullPersonal, AssertOwnsNothing, DeleteGroup
  <2>2. req[q].invite = i
    BY <2>1 DEF ConsumeInvite, DropInvite
  <2>3. CASE ConsumeInvite(q)
    <3>1. At(q, "consume") /\ req[q].op = "accept"
      BY <2>3 DEF IInv, ConsumeInvite, At
    <3> QED BY <2>2, <3>1 DEF At, Joiner
  <2>4. CASE DropInvite(q)
    BY <2>2, <2>4 DEF DropInvite, Goto, IInv, TypeOK
  <2> QED BY <2>1, <2>3, <2>4
<1> QED BY <1>1, Invariance, PTL DEF Spec, InvitationKept

-----------------------------------------------------------------------------
(* TeamOwnership, for any number of requests, entities, teams and users.   *)
(* The inductive invariant adds to the types that a request that has made  *)
(* no ownership yet is the _id of none, and that a document as it was      *)
(* read, if it is still there, has the version of now only if no user was  *)
(* added to it since.                                                      *)
Asked ==
    \A r \in Operations : /\ command[r] # "unborn" => arg[r] \in Arg
                          /\ command[r] \in {"upsert", "confirm"} => arg[r].team \in Teams

(* Requests that may still make an ownership.                              *)
Unmade == {"unborn", "upsert", "find", "save", "look", "look at team"}

NotYetMade ==
    \A r \in Operations : command[r] \in Unmade =>
        /\ \A e \in Entities : own[e].id # r
        /\ \A q \in Operations : seen[q].id # r

Current(r) == command[r] = "save" /\ seen[r] # NoOwnership /\ seen[r].id = Of(r).id

(* o is what has become of ownership p, or another one.                    *)
Later(p, o) == /\ p.version <= o.version
               /\ p.version = o.version => o.members \subseteq p.members

SeenMembers == \A r \in Operations : Current(r) => Later(seen[r], Of(r))

OwnershipInv == OwnershipTypeOK /\ Asked /\ NotYetMade /\ SeenMembers /\ AcknowledgedOwns

-----------------------------------------------------------------------------
LEMMA Ids ==
  /\ NoOwnership.id = NoId /\ NoOwnership.members = {} /\ NoOwnership.version = 0
  /\ \A o \in Ownership : /\ o.id # NoId /\ o.id \in Operations \union {Before}
                          /\ o.version \in Nat /\ o.members \subseteq Grantees
                          /\ o.team \in Teams \union {NoTeam}
  /\ \A r \in Operations : r # NoId
BY Distinct DEF NoOwnership, Ownership

LEMMA OwnershipStarts == OwnershipInit => OwnershipInv
<1> SUFFICES ASSUME OwnershipInit PROVE OwnershipInv
  OBVIOUS
<1>1. OwnershipTypeOK
  BY DEF OwnershipInit, OwnershipTypeOK, Ownership, Commands
<1>2. NotYetMade
  BY Distinct, Ids DEF OwnershipInit, NotYetMade
<1>3. SeenMembers /\ AcknowledgedOwns /\ Asked
  BY DEF OwnershipInit, SeenMembers, Current, AcknowledgedOwns, Asked
<1> QED BY <1>1, <1>2, <1>3 DEF OwnershipInv

(* A step that writes no ownership; it may read the one it is about.       *)
LEMMA ReadingOwnership ==
  ASSUME NEW r \in Operations, OwnershipInv, NEW s \in Commands, command' = [command EXCEPT ![r] = s],
         s \in Unmade => command[r] \in Unmade,
         s # "unborn", s # "confirm", s = "upsert" => arg'[r].team \in Teams, own' = own,
         \/ arg' = arg /\ command[r] # "unborn"
         \/ s # "save" /\ \E a \in Arg : arg' = [arg EXCEPT ![r] = a],
         \/ seen' = seen /\ s # "save"
         \/ seen' = [seen EXCEPT ![r] = Of(r)] /\ command[r] # "unborn" /\ arg' = arg,
         teams' \subseteq teams,
         acknowledged' \in [Entities -> SUBSET Teams],
         AcknowledgedOwns'
  PROVE  OwnershipInv'
<1>1. command[r] # "unborn" => Of(r) \in Ownership \union {NoOwnership} /\ Entity(r) \in Entities
  BY DEF OwnershipInv, OwnershipTypeOK, Asked, Arg, Of, Entity
<1>2. OwnershipTypeOK'
  BY <1>1 DEF OwnershipInv, OwnershipTypeOK
<1>3. /\ command'[r] = s
      /\ \A q \in Operations : q # r => command'[q] = command[q] /\ arg'[q] = arg[q] /\ seen'[q] = seen[q]
  BY DEF OwnershipInv, OwnershipTypeOK
<1>4. Asked'
  BY <1>3 DEF OwnershipInv, Asked, OwnershipTypeOK
<1>5. seen'[r] = seen[r] \/ \E e \in Entities : seen'[r] = own[e]
  BY <1>1 DEF OwnershipInv, OwnershipTypeOK, Of
<1>6. NotYetMade'
  BY <1>3, <1>5 DEF OwnershipInv, NotYetMade
<1>7. SeenMembers'
  <2> SUFFICES ASSUME NEW q \in Operations, Current(q)' PROVE Later(seen[q], Of(q))'
    BY DEF SeenMembers
  <2>1. CASE q = r
    <3>1. s = "save" /\ seen'[q] = Of(q) /\ arg' = arg /\ Of(q)' = Of(q)
      BY <1>3, <2>1 DEF Current, Of, Entity, OwnershipInv, OwnershipTypeOK
    <3>2. Of(q).version \in Nat
      BY <1>1, <2>1, <3>1, Ids
    <3> QED BY <3>1, <3>2 DEF Later
  <2>2. CASE q # r
    <3>1. Current(q) /\ Of(q)' = Of(q) /\ seen'[q] = seen[q]
      BY <1>3, <2>2 DEF Current, Of, Entity
    <3> QED BY <3>1 DEF OwnershipInv, SeenMembers, Later
  <2> QED BY <2>1, <2>2
<1> QED BY <1>2, <1>4, <1>6, <1>7 DEF OwnershipInv

(* The ownership o a step of request r leaves: made by r, deleted, or a    *)
(* later state of the one there was.                                       *)
Left(r, o) ==
    \/ o.id = r /\ command[r] \in Unmade
    \/ o = NoOwnership
    \/ o.id = Of(r).id /\ Later(Of(r), o)

(* What was acknowledged still holds, or was overruled.                    *)
Heeds(r, o) ==
    \/ acknowledged' = [acknowledged EXCEPT ![Entity(r)] = {}]
    \/ /\ acknowledged' = acknowledged
       /\ \/ Of(r) = NoOwnership
          \/ o # NoOwnership /\ o.team = Of(r).team /\ (Of(r).members = {} => o.members = {})

LEMMA Writing ==
  ASSUME NEW r \in Operations, OwnershipInv, command[r] # "unborn",
         NEW s \in {"confirm", "done"}, command' = [command EXCEPT ![r] = s],
         s = "confirm" => command[r] = "upsert",
         NEW o \in Ownership \union {NoOwnership}, own' = [own EXCEPT ![Entity(r)] = o],
         Left(r, o), Heeds(r, o), UNCHANGED <<teams, arg, seen>>
  PROVE  OwnershipInv'
<1> DEFINE e == Entity(r)
<1>1. e \in Entities /\ Of(r) = own[e] /\ own[e] \in Ownership \union {NoOwnership}
  BY DEF OwnershipInv, OwnershipTypeOK, Asked, Arg, Of, Entity
<1>2. /\ own'[e] = o /\ \A f \in Entities : f # e => own'[f] = own[f]
      /\ command'[r] = s /\ \A q \in Operations : q # r => command'[q] = command[q]
      /\ arg' = arg /\ seen' = seen
  BY <1>1 DEF OwnershipInv, OwnershipTypeOK
<1>3. OwnershipTypeOK'
  BY <1>1 DEF OwnershipInv, OwnershipTypeOK, Commands, Heeds
<1>4. Asked'
  BY <1>2 DEF OwnershipInv, Asked
<1>5. NotYetMade'
  <2>1. \A q \in Operations : command'[q] \in Unmade => q # r /\ command[q] \in Unmade
    BY <1>2 DEF Unmade
  <2>2. \A q \in Operations : command'[q] \in Unmade => o.id # q
    BY <1>1, <2>1, Ids DEF Left, OwnershipInv, NotYetMade
  <2> QED BY <1>1, <1>2, <2>1, <2>2 DEF OwnershipInv, NotYetMade
<1>6. SeenMembers'
  <2> SUFFICES ASSUME NEW q \in Operations, Current(q)' PROVE Later(seen[q], Of(q)')
    BY <1>2 DEF SeenMembers, Later
  <2>1. /\ q # r /\ command[q] = "save" /\ seen[q] # NoOwnership /\ seen[q].id = (Of(q)').id
        /\ Entity(q) \in Entities /\ Of(q)' = own'[Entity(q)] /\ Of(q) = own[Entity(q)]
        /\ seen[q] \in Ownership
    BY <1>2 DEF Current, OwnershipInv, OwnershipTypeOK, Asked, Arg, Of, Entity
  <2>2. CASE Entity(q) # e
    BY <1>2, <2>1, <2>2 DEF OwnershipInv, SeenMembers, Current
  <2>3. CASE Entity(q) = e
    <3>1. o.id = own[e].id /\ Later(own[e], o)
      <4>1. o # NoOwnership
        BY <1>2, <2>1, <2>3, Ids
      <4>2. ~(o.id = r /\ command[r] \in Unmade)
        BY <1>2, <2>1, <2>3 DEF OwnershipInv, NotYetMade
      <4> QED BY <1>1, <4>1, <4>2 DEF Left
    <3>2. Later(seen[q], own[e])
      BY <1>2, <2>1, <2>3, <3>1 DEF OwnershipInv, SeenMembers, Current
    <3>3. seen[q].version \in Nat /\ own[e].version \in Nat /\ o.version \in Nat
      BY <1>1, <2>1, Ids
    <3>4. Later(seen[q], o)
      BY <3>1, <3>2, <3>3 DEF Later
    <3> QED BY <1>2, <2>1, <2>3, <3>4
  <2> QED BY <2>2, <2>3
<1>7. AcknowledgedOwns'
  <2> SUFFICES ASSUME NEW f \in Entities, NEW t \in acknowledged'[f]
               PROVE  own'[f] # NoOwnership /\ own'[f].team = t /\ own'[f].members = {}
    BY DEF AcknowledgedOwns
  <2>1. t \in acknowledged[f] /\ (f = e => acknowledged' = acknowledged)
    BY <1>1 DEF Heeds, OwnershipInv, OwnershipTypeOK
  <2>2. own[f] # NoOwnership /\ own[f].team = t /\ own[f].members = {}
    BY <2>1 DEF OwnershipInv, AcknowledgedOwns
  <2>3. CASE f = e
    <3>1. acknowledged'[e] # {}
      BY <2>3
    <3>2. acknowledged' # [acknowledged EXCEPT ![e] = {}]
      BY <1>1, <3>1 DEF OwnershipInv, OwnershipTypeOK
    <3> QED BY <1>1, <1>2, <2>2, <2>3, <3>2 DEF Heeds
  <2>4. CASE f # e
    BY <1>2, <2>2, <2>4
  <2> QED BY <2>3, <2>4
<1> QED BY <1>3, <1>4, <1>5, <1>6, <1>7 DEF OwnershipInv

-----------------------------------------------------------------------------
LEMMA Updating ==
  ASSUME NEW r \in Operations, OwnershipInv, Update(r)
  PROVE  /\ OwnershipInv'
         /\ own' # own => /\ Of(r).id = seen[r].id
                          /\ own'[Entity(r)].id = Of(r).id
                          /\ Of(r).members \ own'[Entity(r)].members \subseteq seen[r].members
<1>1. /\ arg[r] \in Arg /\ Entity(r) \in Entities /\ Of(r) = own[Entity(r)]
      /\ own[Entity(r)] \in Ownership \union {NoOwnership}
      /\ seen[r] \in Ownership /\ command[r] = "save"
  BY DEF Update, OwnershipInv, OwnershipTypeOK, Asked, Arg, Of, Entity
<1>2. PICK replaced \in MayReplace(r) :
          IF Of(r).id = seen[r].id /\ (replaced => Of(r).version = seen[r].version)
          THEN /\ own' = [own EXCEPT ![Entity(r)] =
                    [id |-> @.id, team |-> NewTeam(r),
                     members |-> IF replaced \/ arg[r].kind = "grant" THEN MembersAfter(r) ELSE @.members,
                     version |-> IF replaced \/ arg[r].kind = "grant" THEN @.version + 1 ELSE @.version]]
               /\ Overrule(Entity(r))
          ELSE UNCHANGED <<own, acknowledged>>
  BY DEF Update
<1>3. /\ UNCHANGED <<teams, arg, seen>> /\ command' = [command EXCEPT ![r] = "done"]
  BY DEF Update, Proceed
<1>4. CASE UNCHANGED <<own, acknowledged>>
  <2>1. AcknowledgedOwns'
    BY <1>4 DEF OwnershipInv, AcknowledgedOwns
  <2>2. OwnershipInv'
    BY <1>1, <1>3, <1>4, <2>1, ReadingOwnership DEF OwnershipInv, OwnershipTypeOK, Commands, Unmade
  <2> QED BY <1>4, <2>2
<1>5. CASE ~ UNCHANGED <<own, acknowledged>>
  <2> DEFINE changed == replaced \/ arg[r].kind = "grant"
             o == [id |-> Of(r).id, team |-> NewTeam(r),
                   members |-> IF changed THEN MembersAfter(r) ELSE Of(r).members,
                   version |-> IF changed THEN Of(r).version + 1 ELSE Of(r).version]
  <2>1. /\ Of(r).id = seen[r].id /\ (replaced => Of(r).version = seen[r].version)
        /\ own' = [own EXCEPT ![Entity(r)] = o] /\ Overrule(Entity(r))
    BY <1>1, <1>2, <1>5
  <2>2. Of(r) \in Ownership
    BY <1>1, <2>1, Ids
  <2>3. NewTeam(r) \in Teams \union {NoTeam} /\ MembersAfter(r) \subseteq Grantees
    BY <1>1, <2>2, Ids DEF NewTeam, MembersAfter, Arg
  <2>4. o \in Ownership
    BY <2>2, <2>3 DEF Ownership
  <2>5. /\ o.id = Of(r).id
        /\ o.members = IF changed THEN MembersAfter(r) ELSE Of(r).members
        /\ o.version = IF changed THEN Of(r).version + 1 ELSE Of(r).version
    OBVIOUS
  <2> HIDE DEF o
  <2>6. Left(r, o)
    BY <2>2, <2>5, Ids DEF Left, Later
  <2>7. OwnershipInv'
    BY <1>1, <1>3, <2>1, <2>4, <2>6, Writing DEF Heeds, Overrule
  <2>8. Of(r).members \ o.members \subseteq seen[r].members
    <3>1. CASE replaced
      <4>1. Of(r).members \subseteq seen[r].members
        BY <1>1, <2>1, <3>1 DEF OwnershipInv, SeenMembers, Current, Later, NoOwnership, Update
      <4> QED BY <4>1
    <3>2. CASE ~replaced /\ arg[r].kind = "grant"
      BY <2>5, <3>2 DEF MembersAfter
    <3>3. CASE ~replaced /\ arg[r].kind # "grant"
      BY <2>5, <3>3
    <3> QED BY <3>1, <3>2, <3>3
  <2>9. own'[Entity(r)] = o
    BY <1>1, <2>1 DEF OwnershipInv, OwnershipTypeOK
  <2> QED BY <2>1, <2>5, <2>7, <2>8, <2>9
<1> QED BY <1>4, <1>5

(* Every action but Update.                                                *)
LEMMA Others ==
  ASSUME NEW r \in Operations, OwnershipInv,
         \/ Ask(r) \/ Upsert(r) \/ Confirm(r) \/ Find(r) \/ Create(r)
         \/ Look(r) \/ LookAtTeam(r) \/ Pull(r) \/ Drop(r) \/ OwnsNothing(r) \/ DeleteTeam(r)
  PROVE  OwnershipInv'
<1> USE DEF Proceed, Unmade, Commands
<1>0. /\ command[r] # "unborn" => /\ arg[r] \in Arg /\ Entity(r) \in Entities
                                  /\ Of(r) = own[Entity(r)]
      /\ \A e \in Entities : own[e] \in Ownership \union {NoOwnership}
      /\ acknowledged \in [Entities -> SUBSET Teams]
  BY DEF OwnershipInv, OwnershipTypeOK, Asked, Arg, Of, Entity
<1>1. CASE Ask(r)
  <2>1. PICK a \in Arg : /\ a.kind = "ensure" => a.team \in Teams
                         /\ arg' = [arg EXCEPT ![r] = a]
                         /\ Proceed(r, IF a.kind = "delete team" THEN "owns nothing"
                                       ELSE FirstStep[a.kind])
    BY <1>1 DEF Ask
  <2>2. a.kind \in Kinds
    BY DEF Arg
  <2> DEFINE s == IF a.kind = "delete team" THEN "owns nothing" ELSE FirstStep[a.kind]
  <2>3. s \in {"owns nothing", "upsert", "find", "look", "pull", "delete"}
    <3>1. CASE a.kind = "delete team"
      BY <3>1
    <3>2. CASE a.kind = "ensure"
      BY <3>2 DEF FirstStep
    <3>3. CASE a.kind = "insert"
      BY <3>3 DEF FirstStep
    <3>4. CASE a.kind = "edit"
      BY <3>4 DEF FirstStep
    <3>5. CASE a.kind = "migrate"
      BY <3>5 DEF FirstStep
    <3>6. CASE a.kind = "grant"
      BY <3>6 DEF FirstStep
    <3>7. CASE a.kind = "revoke"
      BY <3>7 DEF FirstStep
    <3>8. CASE a.kind = "drop"
      BY <3>8 DEF FirstStep
    <3> QED BY <2>2, <3>1, <3>2, <3>3, <3>4, <3>5, <3>6, <3>7, <3>8 DEF Kinds
  <2>4. command' = [command EXCEPT ![r] = s]
    BY <2>1
  <2>6. s = "upsert" => a.team \in Teams
    <3>1. s = "upsert" => a.kind = "ensure"
      <4>1. FirstStep.insert # "upsert" /\ FirstStep.edit # "upsert" /\ FirstStep.migrate # "upsert"
            /\ FirstStep.grant # "upsert" /\ FirstStep.revoke # "upsert" /\ FirstStep.drop # "upsert"
        BY DEF FirstStep
      <4> QED BY <2>2, <4>1 DEF Kinds
    <3> QED BY <2>1, <3>1
  <2> HIDE DEF s
  <2>5. command[r] = "unborn" /\ UNCHANGED <<own, teams, seen, acknowledged>> /\ AcknowledgedOwns'
    BY <1>1 DEF Ask, OwnershipInv, AcknowledgedOwns
  <2>7. arg'[r] = a
    BY <2>1 DEF OwnershipInv, OwnershipTypeOK
  <2> QED BY <1>0, <2>1, <2>3, <2>4, <2>5, <2>6, <2>7, ReadingOwnership
<1>2. CASE Upsert(r)
  <2> DEFINE new == [id |-> r, team |-> arg[r].team, members |-> {}, version |-> 0]
             o == IF Of(r) = NoOwnership THEN new ELSE Of(r)
  <2>1. /\ command[r] = "upsert" /\ own' = [own EXCEPT ![Entity(r)] = o]
        /\ command' = [command EXCEPT ![r] = "confirm"] /\ UNCHANGED <<teams, arg, seen, acknowledged>>
    BY <1>0, <1>2 DEF Upsert
  <2>2. new \in Ownership /\ new.id = r
    BY <1>0, <2>1 DEF Arg, Ownership
  <2>3. o \in Ownership \union {NoOwnership}
    BY <1>0, <2>1, <2>2
  <2>4. Left(r, o) /\ Heeds(r, o)
    <3>1. CASE Of(r) = NoOwnership
      BY <2>1, <2>2, <3>1 DEF Left, Heeds
    <3>2. CASE Of(r) # NoOwnership
      <4>1. o = Of(r) /\ o.version \in Nat
        BY <1>0, <2>1, <3>2, Ids
      <4> QED BY <2>1, <3>2, <4>1 DEF Left, Later, Heeds
    <3> QED BY <3>1, <3>2
  <2> HIDE DEF o
  <2> QED BY <2>1, <2>3, <2>4, Writing
<1>3. CASE Confirm(r)
  <2>1. /\ command[r] = "confirm" /\ UNCHANGED <<own, teams, arg, seen>>
        /\ command' = [command EXCEPT ![r] = "done"]
    BY <1>3 DEF Confirm
  <2>2. CASE acknowledged' = acknowledged
    <3>1. AcknowledgedOwns'
      BY <2>1, <2>2 DEF OwnershipInv, AcknowledgedOwns
    <3> QED BY <1>0, <2>1, <2>2, <3>1, ReadingOwnership
  <2>3. CASE acknowledged' # acknowledged
    <3>1. /\ Of(r) # NoOwnership /\ Of(r).team = arg[r].team /\ Of(r).members = {}
          /\ acknowledged' = [acknowledged EXCEPT ![Entity(r)] = @ \union {arg[r].team}]
      BY <1>3, <2>3 DEF Confirm
    <3>2. arg[r].team \in Teams
      BY <1>3 DEF Confirm, OwnershipInv, Asked
    <3>3. acknowledged' \in [Entities -> SUBSET Teams]
      BY <1>0, <2>1, <3>1, <3>2
    <3>4. AcknowledgedOwns'
      BY <1>0, <2>1, <3>1 DEF OwnershipInv, AcknowledgedOwns
    <3> QED BY <2>1, <3>3, <3>4, ReadingOwnership
  <2> QED BY <2>2, <2>3
<1>4. CASE Find(r)
  <2>1. AcknowledgedOwns' /\ command[r] = "find" /\ UNCHANGED <<own, teams, arg, acknowledged>>
    BY <1>4 DEF Find, OwnershipInv, AcknowledgedOwns
  <2>2. \E s \in {"save", "done"} : command' = [command EXCEPT ![r] = s]
    BY <1>4 DEF Find
  <2>3. seen' = [seen EXCEPT ![r] = Of(r)]
    BY <1>4 DEF Find
  <2> QED BY <1>0, <2>1, <2>2, <2>3, ReadingOwnership
<1>5. CASE Create(r)
  <2>1. /\ command[r] = "save" /\ command' = [command EXCEPT ![r] = "done"] /\ UNCHANGED <<teams, arg, seen>>
    BY <1>5 DEF Create
  <2>2. CASE Of(r) = NoOwnership
    <3> DEFINE o == [id |-> r, team |-> arg[r].team, members |-> arg[r].members, version |-> 0]
    <3>1. o \in Ownership /\ o.id = r
      BY <1>0, <2>1 DEF Arg, Ownership
    <3>2. own' = [own EXCEPT ![Entity(r)] = o] /\ Overrule(Entity(r))
      BY <1>5, <2>2 DEF Create
    <3> HIDE DEF o
    <3> QED BY <2>1, <3>1, <3>2, Writing DEF Left, Heeds, Overrule
  <2>3. CASE Of(r) # NoOwnership
    <3>1. UNCHANGED <<own, acknowledged>> /\ AcknowledgedOwns'
      BY <1>5, <2>3 DEF Create, OwnershipInv, AcknowledgedOwns
    <3> QED BY <1>0, <2>1, <3>1, ReadingOwnership
  <2> QED BY <2>2, <2>3
<1>6. CASE Look(r)
  <2>1. AcknowledgedOwns' /\ command[r] = "look" /\ UNCHANGED <<own, teams, arg, acknowledged>>
    BY <1>6 DEF Look, OwnershipInv, AcknowledgedOwns
  <2>2. \E s \in {"find", "look at team", "done"} : command' = [command EXCEPT ![r] = s]
    BY <1>6 DEF Look
  <2>3. seen' = [seen EXCEPT ![r] = Of(r)]
    BY <1>6 DEF Look
  <2> QED BY <1>0, <2>1, <2>2, <2>3, ReadingOwnership
<1>7. CASE LookAtTeam(r)
  <2>1. AcknowledgedOwns' /\ command[r] = "look at team" /\ UNCHANGED <<own, teams, arg, seen, acknowledged>>
    BY <1>7 DEF LookAtTeam, OwnershipInv, AcknowledgedOwns
  <2>2. \E s \in {"find", "done"} : command' = [command EXCEPT ![r] = s]
    BY <1>7 DEF LookAtTeam
  <2> QED BY <1>0, <2>1, <2>2, ReadingOwnership
<1>8. CASE Pull(r)
  <2> DEFINE o == [Of(r) EXCEPT !.members = @ \ arg[r].members]
  <2>1. /\ command[r] = "pull" /\ command' = [command EXCEPT ![r] = "done"]
        /\ UNCHANGED <<teams, arg, seen, acknowledged>> /\ own' = [own EXCEPT ![Entity(r)] = o]
    BY <1>0, <1>8 DEF Pull
  <2>2. CASE Of(r) = NoOwnership
    <3>1. o = NoOwnership
      BY <2>2 DEF NoOwnership
    <3> HIDE DEF o
    <3> QED BY <2>1, <2>2, <3>1, Writing DEF Left, Heeds
  <2>3. CASE Of(r) # NoOwnership
    <3>1. Of(r) \in Ownership
      BY <1>0, <2>1, <2>3
    <3>2. /\ o \in Ownership /\ o.id = Of(r).id /\ o.team = Of(r).team
          /\ o.version = Of(r).version /\ o.members \subseteq Of(r).members
          /\ o.version \in Nat
      BY <3>1 DEF Ownership
    <3>3. o # NoOwnership
      BY <3>2, Ids
    <3> HIDE DEF o
    <3>4. Left(r, o) /\ Heeds(r, o)
      BY <2>1, <3>2, <3>3 DEF Left, Later, Heeds
    <3> QED BY <2>1, <3>2, <3>4, Writing
  <2> QED BY <2>2, <2>3
<1>9. CASE Drop(r)
  BY <1>9, Writing DEF Drop, Left, Heeds, Overrule
<1>10. CASE OwnsNothing(r)
  <2>1. AcknowledgedOwns' /\ command[r] = "owns nothing" /\ UNCHANGED <<own, teams, arg, seen, acknowledged>>
    BY <1>10 DEF OwnsNothing, OwnershipInv, AcknowledgedOwns
  <2>2. \E s \in {"delete team", "done"} : command' = [command EXCEPT ![r] = s]
    BY <1>10 DEF OwnsNothing
  <2> QED BY <1>0, <2>1, <2>2, ReadingOwnership
<1>11. CASE DeleteTeam(r)
  <2>1. AcknowledgedOwns' /\ command[r] = "delete team" /\ UNCHANGED <<own, arg, seen, acknowledged>>
    BY <1>11 DEF DeleteTeam, OwnershipInv, AcknowledgedOwns
  <2>2. teams' \subseteq teams /\ command' = [command EXCEPT ![r] = "done"]
    BY <1>11 DEF DeleteTeam
  <2> QED BY <1>0, <2>1, <2>2, ReadingOwnership
<1> QED BY <1>1, <1>2, <1>3, <1>4, <1>5, <1>6, <1>7, <1>8, <1>9, <1>10, <1>11

LEMMA OwnershipStays == OwnershipInv /\ UNCHANGED ownershipVars => OwnershipInv'
<1> SUFFICES ASSUME OwnershipInv, UNCHANGED ownershipVars PROVE OwnershipInv'
  OBVIOUS
<1> USE DEF ownershipVars
<1>1. OwnershipTypeOK' /\ Asked' /\ AcknowledgedOwns'
  BY DEF OwnershipInv, OwnershipTypeOK, Asked, AcknowledgedOwns
<1>2. NotYetMade'
  BY DEF OwnershipInv, NotYetMade
<1>3. SeenMembers'
  BY DEF OwnershipInv, SeenMembers, Current, Later, Of, Entity
<1> QED BY <1>1, <1>2, <1>3 DEF OwnershipInv

LEMMA OwnershipInductive == OwnershipInv /\ [OwnershipNext]_ownershipVars => OwnershipInv'
BY Updating, Others, OwnershipStays DEF OwnershipNext

THEOREM OwnershipInvariance == OwnershipSpec => []OwnershipInv
<1> QED BY OwnershipStarts, OwnershipInductive, PTL DEF OwnershipSpec

(* The variables stay in their types.                                      *)
THEOREM OwnershipTypeCorrect == OwnershipSpec => []OwnershipTypeOK
<1>1. OwnershipInv => OwnershipTypeOK
  BY DEF OwnershipInv
<1> QED BY <1>1, OwnershipInvariance, PTL

(* An acknowledged team owns the entity, alone, until an older operation   *)
(* overrules it.                                                           *)
THEOREM AcknowledgementsHold == OwnershipSpec => []AcknowledgedOwns
<1>1. OwnershipInv => AcknowledgedOwns
  BY DEF OwnershipInv
<1> QED BY <1>1, OwnershipInvariance, PTL

(* A save changes the ownership it has read and drops no user it has not.  *)
THEOREM NoGrantIsLost == OwnershipSpec => ReplacesWhatItRead
<1> DEFINE P(r) == (command[r] = "save" /\ Finishes(r) /\ own' # own /\ seen[r] # NoOwnership) =>
          /\ Of(r).id = seen[r].id
          /\ own'[Entity(r)].id = Of(r).id
          /\ Of(r).members \ own'[Entity(r)].members \subseteq seen[r].members
<1>1. OwnershipInv /\ [OwnershipNext]_ownershipVars => [\A r \in Operations : P(r)]_ownershipVars
  <2> SUFFICES ASSUME OwnershipInv, OwnershipNext, NEW r \in Operations, command[r] = "save", Finishes(r),
                      own' # own, seen[r] # NoOwnership
               PROVE  P(r)
    OBVIOUS
  <2>1. PICK q \in Operations :
           \/ Ask(q) \/ Upsert(q) \/ Confirm(q) \/ Find(q) \/ Create(q) \/ Update(q)
           \/ Look(q) \/ LookAtTeam(q) \/ Pull(q) \/ Drop(q) \/ OwnsNothing(q) \/ DeleteTeam(q)
    BY DEF OwnershipNext
  <2>2. \E s : command' = [command EXCEPT ![q] = s]
    BY <2>1 DEF Proceed, Ask, Upsert, Confirm, Find, Create, Update, Look, LookAtTeam, Pull,
                Drop, OwnsNothing, DeleteTeam
  <2>3. q = r
    BY <2>2 DEF Finishes, OwnershipInv, OwnershipTypeOK
  <2>4. Update(r)
    BY <2>1, <2>3 DEF Ask, Upsert, Confirm, Find, Create, Look, LookAtTeam, Pull, Drop,
                      OwnsNothing, DeleteTeam
  <2> QED BY <2>4, Updating
<1> QED BY <1>1, OwnershipInvariance, PTL DEF OwnershipSpec, ReplacesWhatItRead
=============================================================================
