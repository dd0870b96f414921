------------------------ MODULE EntityOwnershipGroup ------------------------
(***************************************************************************)
(* One team (an "entity ownership group", EOG) of libs/users-webservice:   *)
(* its members and their capabilities, the invitations to join it, and the *)
(* HTTP and message-bus requests that change them.                         *)
(*                                                                         *)
(* A request is an async function: between two awaits other requests run,  *)
(* in this process or in another replica of the service, and only a single *)
(* MongoDB command is atomic.  So `pc` names the next command a request    *)
(* will issue, and one action is that command with the code up to the next *)
(* await.  Any command may fail and a process may die: the request is then *)
(* abandoned where it stands.                                              *)
(*                                                                         *)
(* The embedded array userCapabilities is a set of entries stamped with    *)
(* the document version at which they were pushed: the stamps give the     *)
(* order of the array, which `find` and `findIndex` depend on.             *)
(***************************************************************************)
EXTENDS Naturals, FiniteSets

CONSTANTS
    Users,            \* the users of the service
    Admins,           \* those whose roles include 'ADMIN'
    Requests,         \* the requests that will be made, each made once
    Grants,           \* the capability sets a request may ask for
    LoginIsName,      \* users whose login reads like their full name
    FirstMembers,     \* the entries the team starts with ...
    FirstVersion,     \* ... its document version then ...
    FirstInvitations, \* ... the invitations already sent ...
    Holders           \* ... and who may have a capability of their own on an entity of it

Capability == {"OWNER", "VIEW", "EDIT", "EOG_ADJUST_MEMBERS", "EOG_ADJUST_CAPABILITIES"}

(* The currentUser of a message-bus request, the user of an unknown login. *)
NoUser == "no user"

Entry      == [user : Users, caps : SUBSET Capability, at : Nat]
Invitation == [id : Requests \union {"sent before"}, user : Users, caps : SUBSET Capability]

ASSUME Inputs ==
    /\ Admins \subseteq Users /\ LoginIsName \subseteq Users /\ Holders \subseteq Users
    /\ NoUser \notin Users
    /\ "sent before" \notin Requests
    /\ Grants \subseteq SUBSET Capability
    /\ FirstVersion \in Nat
    /\ FirstMembers \subseteq Entry /\ IsFiniteSet(FirstMembers)
    /\ \A e \in FirstMembers : e.at < FirstVersion
    /\ FirstInvitations \subseteq Invitation

VARIABLES
    exists,           \* the group document is in the collection
    members,          \* its userCapabilities
    version,          \* its __v
    invitations,      \* the documents of the invitation collection
    entityHolders,    \* users in userCapabilities of the ownerships of the team
    pc,               \* the next command of each request
    req,              \* the arguments of each request
    snap,             \* the group document as the request last read it
    joined            \* history: the users who have ever been members

db   == <<exists, members, version, invitations, entityHolders, joined>>
vars == <<db, pc, req, snap>>

-----------------------------------------------------------------------------
(* Reading an array of entries M.                                          *)

EntriesOf(u, M) == {e \in M : e.user = u}

Has(u, M) == EntriesOf(u, M) # {}

First(u, M) ==                            \* M.find(uc => uc.userId === u)
    CHOOSE e \in EntriesOf(u, M) : \A f \in EntriesOf(u, M) : e.at <= f.at

Owners(M) == {e \in M : "OWNER" \in e.caps}

IsOwner(u, M) == Has(u, M) /\ "OWNER" \in First(u, M).caps

Without(u, M) == {e \in M : e.user # u}

-----------------------------------------------------------------------------
NoArgs == [op |-> "none"]
NoSnap == [members |-> {}, version |-> 0]

Args ==
    {NoArgs}
    \union [op : {"update", "invite"}, actor : Users, target : Users \union {NoUser}, caps : Grants]
    \union [op : {"add"}, actor : {NoUser}, target : Users, caps : Grants]
    \union [op : {"remove"}, actor : Users \union {NoUser}, target : Users]
    \union [op : {"accept", "cancel", "refuse"}, actor : Users, invite : Invitation]
    \union [op : {"delete"}, actor : Users]

Steps == {"unborn", "may?", "owner?", "give?", "read", "replace", "push", "find",
          "lookup", "insert", "team?", "consume", "pull", "cancel", "owned?", "drop",
          "done", "failed"}

TypeOK ==
    /\ exists \in BOOLEAN
    /\ members \subseteq Entry /\ version \in Nat
    /\ invitations \subseteq Invitation
    /\ entityHolders \subseteq Users
    /\ joined \subseteq Users
    /\ pc \in [Requests -> Steps]
    /\ req \in [Requests -> Args]
    /\ snap \in [Requests -> [members : SUBSET Entry, version : Nat]]

Init ==
    /\ exists = TRUE
    /\ members = FirstMembers /\ version = FirstVersion
    /\ invitations = FirstInvitations
    /\ entityHolders \in SUBSET Holders
    /\ joined = {e.user : e \in FirstMembers}
    /\ pc = [r \in Requests |-> "unborn"]
    /\ req = [r \in Requests |-> NoArgs]
    /\ snap = [r \in Requests |-> NoSnap]

Goto(r, step) == pc' = [pc EXCEPT ![r] = step]

(* findById of the group, keeping the document.                            *)
Load(r) == snap' = [snap EXCEPT ![r] = [members |-> members, version |-> version]]

(* A handler that throws, or returns early with nothing done.              *)
Refuse(r) == Goto(r, "failed") /\ UNCHANGED <<db, req, snap>>

-----------------------------------------------------------------------------
(* A request arrives.                                                      *)

Begin(r, args, step) ==
    /\ pc[r] = "unborn"
    /\ req' = [req EXCEPT ![r] = args]
    /\ Goto(r, step)
    /\ UNCHANGED <<db, snap>>

Arrive(r) ==
    \/ \E actor, target \in Users, caps \in Grants :
          \/ Begin(r, [op |-> "update", actor |-> actor, target |-> target, caps |-> caps], "may?")
          \/ Begin(r, [op |-> "add", actor |-> NoUser, target |-> target, caps |-> caps], "read")
    \/ \E actor \in Users, target \in Users \union {NoUser}, caps \in Grants :
          Begin(r, [op |-> "invite", actor |-> actor, target |-> target, caps |-> caps], "may?")
    \/ \E actor, target \in Users :
          Begin(r, [op |-> "remove", actor |-> actor, target |-> target], "may?")
    \/ \E target \in Users :
          Begin(r, [op |-> "remove", actor |-> NoUser, target |-> target], "read")
    \/ \E actor \in Users, i \in invitations :
          \/ Begin(r, [op |-> "accept", actor |-> actor, invite |-> i], "find")
          \/ Begin(r, [op |-> "cancel", actor |-> actor, invite |-> i], "may?")
          \/ Begin(r, [op |-> "refuse", actor |-> actor, invite |-> i], "cancel")
    \/ \E actor \in Users :
          Begin(r, [op |-> "delete", actor |-> actor], "owned?")

-----------------------------------------------------------------------------
(* The assertions of the controllers; each one reads the group for itself. *)

IsAdmin(r) == req[r].actor \in Admins

Required(op) ==                           \* any of these capabilities will do
    CASE op = "update" -> {"OWNER", "EDIT", "EOG_ADJUST_CAPABILITIES"}
      [] op = "remove" -> {"OWNER", "EDIT", "EOG_ADJUST_MEMBERS"}
      [] op = "invite" -> {"OWNER", "EOG_ADJUST_MEMBERS", "EOG_ADJUST_CAPABILITIES"}
      [] op = "cancel" -> {"OWNER", "EOG_ADJUST_MEMBERS"}
      [] op = "delete" -> {"OWNER"}

AfterMay(op) ==
    CASE op \in {"update", "remove"} -> "owner?"
      [] op = "invite" -> "give?"
      [] op = "cancel" -> "cancel"
      [] op = "delete" -> "drop"

(* assertHasUserGroupCapability                                            *)
AssertMay(r) ==
    /\ pc[r] = "may?"
    /\ IF \/ IsAdmin(r)
          \/ exists /\ \E e \in EntriesOf(req[r].actor, members) : e.caps \cap Required(req[r].op) # {}
       THEN Goto(r, AfterMay(req[r].op)) /\ UNCHANGED <<db, req, snap>>
       ELSE Refuse(r)

(* assertUserDontChangeGroupOwnerCapabilities                              *)
AssertOwner(r) ==
    /\ pc[r] = "owner?"
    /\ IF \/ IsAdmin(r)
          \/ /\ exists /\ Has(req[r].actor, members) /\ Has(req[r].target, members)
             /\ IsOwner(req[r].actor, members) \/ ~IsOwner(req[r].target, members)
       THEN /\ Goto(r, IF req[r].op = "update" THEN "give?" ELSE "read")
            /\ UNCHANGED <<db, req, snap>>
       ELSE Refuse(r)

(* assertUserDontGivingCapabilitiesDoesntHave: every capability that would *)
(* be granted or taken away is one the actor has.                          *)
GivesOnlyOwn(r) ==
    LET own == First(req[r].actor, members).caps
        was == IF req[r].op = "update" /\ Has(req[r].target, members)
               THEN First(req[r].target, members).caps ELSE {}
    IN  (req[r].caps \ was) \union (was \ req[r].caps) \subseteq own

AssertGive(r) ==
    /\ pc[r] = "give?"
    /\ IF \/ IsAdmin(r)
          \/ /\ exists /\ Has(req[r].actor, members)
             /\ IsOwner(req[r].actor, members) \/ GivesOnlyOwn(r)
       THEN Goto(r, "read") /\ UNCHANGED <<db, req, snap>>
       ELSE Refuse(r)

-----------------------------------------------------------------------------
(* updateUserCapability and removeUserCapability: read and decide ...      *)

(* A user who is neither ADMIN nor owner may not do this to themselves.    *)
SelfServed(r, M) ==
    /\ req[r].actor # NoUser /\ ~IsAdmin(r)
    /\ req[r].actor = req[r].target
    /\ ~IsOwner(req[r].actor, M)

OnlyOwnerLeaves(r, M) == IsOwner(req[r].target, M) /\ Cardinality(Owners(M)) < 2

ReadUpdate(r) ==
    /\ pc[r] = "read" /\ req[r].op = "update"
    /\ IF exists /\ ~SelfServed(r, members) /\ Has(req[r].target, members)
       THEN Load(r) /\ Goto(r, "replace") /\ UNCHANGED <<db, req>>
       ELSE Refuse(r)

ReadRemove_AnyOwner(r) ==       \* bug: the last-owner check is left out
    /\ pc[r] = "read" /\ req[r].op = "remove"
    /\ IF exists /\ ~SelfServed(r, members) /\ Cardinality(members) # 1
       THEN Load(r) /\ Goto(r, "replace") /\ UNCHANGED <<db, req>>
       ELSE Refuse(r)

ReadRemove(r) ==
    /\ pc[r] = "read" /\ req[r].op = "remove"
    /\ IF /\ exists /\ ~SelfServed(r, members)
          /\ Cardinality(members) # 1
          /\ ~OnlyOwnerLeaves(r, members)
       THEN Load(r) /\ Goto(r, "replace") /\ UNCHANGED <<db, req>>
       ELSE Refuse(r)

(* ... then saveUserCapabilitiesWithOptimisticLock: replace the array, on  *)
(* condition that the document still has the version that was read.        *)
NewMembers(r) ==
    LET M == snap[r].members
        u == req[r].target
    IN  IF req[r].op = "update"
        THEN (M \ {First(u, M)}) \union {[First(u, M) EXCEPT !.caps = req[r].caps]}
        ELSE Without(u, M)

Replace_Unversioned(r) ==       \* bug: updateOne({_id}) without __v in the filter
    /\ pc[r] = "replace"
    /\ IF exists
       THEN /\ members' = NewMembers(r)
            /\ version' = version + 1
            /\ Goto(r, "done")
            /\ UNCHANGED <<exists, invitations, entityHolders, joined, req, snap>>
       ELSE Refuse(r)

Replace(r) ==
    /\ pc[r] = "replace"
    /\ IF exists /\ version = snap[r].version
       THEN /\ members' = NewMembers(r)
            /\ version' = version + 1
            /\ Goto(r, "done")
            /\ UNCHANGED <<exists, invitations, entityHolders, joined, req, snap>>
       ELSE Refuse(r)

-----------------------------------------------------------------------------
(* addUserCapability, called by the bus and by the acceptance of an        *)
(* invitation.  save() of a pushed element is $push with $inc of __v and   *)
(* no condition on the version; on a deleted document it throws.           *)

Joiner(r)   == IF req[r].op = "accept" THEN req[r].invite.user ELSE req[r].target
JoinCaps(r) == IF req[r].op = "accept" THEN req[r].invite.caps ELSE req[r].caps

AfterJoin(r) == IF req[r].op = "accept" THEN "consume" ELSE "done"

ReadJoin(r) ==
    /\ pc[r] = "read" /\ req[r].op \in {"add", "accept"}
    /\ IF exists
       THEN /\ Goto(r, IF Has(Joiner(r), members) THEN AfterJoin(r) ELSE "push")
            /\ UNCHANGED <<db, req, snap>>
       ELSE Refuse(r)

Push(r) ==
    /\ pc[r] = "push"
    /\ IF exists
       THEN /\ members' = members \union {[user |-> Joiner(r), caps |-> JoinCaps(r), at |-> version]}
            /\ version' = version + 1
            /\ joined' = joined \union {Joiner(r)}
            /\ Goto(r, AfterJoin(r))
            /\ UNCHANGED <<exists, invitations, entityHolders, req, snap>>
       ELSE Refuse(r)

-----------------------------------------------------------------------------
(* addUserCapabilityInvite                                                 *)

ReadInvite(r) ==
    /\ pc[r] = "read" /\ req[r].op = "invite"
    /\ IF exists /\ req[r].target \notin {NoUser, req[r].actor}
       THEN /\ Goto(r, IF Has(req[r].target, members) THEN "done" ELSE "lookup")
            /\ UNCHANGED <<db, req, snap>>
       ELSE Refuse(r)

(* An earlier invitation is looked up by its invitedUserName, a full name, *)
(* for which the login is given; saving the one found changes nothing.     *)
LookupInvite(r) ==
    /\ pc[r] = "lookup"
    /\ LET found == \E i \in invitations : i.user = req[r].target /\ i.user \in LoginIsName
       IN  Goto(r, IF found THEN "done" ELSE "insert")
    /\ UNCHANGED <<db, req, snap>>

InsertInvite(r) ==
    /\ pc[r] = "insert"
    /\ invitations' = invitations
           \union {[id |-> r, user |-> req[r].target, caps |-> req[r].caps]}
    /\ Goto(r, "done")
    /\ UNCHANGED <<exists, members, version, entityHolders, joined, req, snap>>

-----------------------------------------------------------------------------
(* addUserCapabilityAcceptInvite, around addUserCapability                 *)

FindInvite(r) ==
    /\ pc[r] = "find"
    /\ IF req[r].invite \in invitations /\ req[r].invite.user = req[r].actor
       THEN Goto(r, "team?") /\ UNCHANGED <<db, req, snap>>
       ELSE Refuse(r)

FindTeam_Consume(r) ==          \* bug: the invitation is deleted before the user is added
    /\ pc[r] = "team?"
    /\ IF exists
       THEN /\ invitations' = invitations \ {req[r].invite}
            /\ Goto(r, "read")
            /\ UNCHANGED <<exists, members, version, entityHolders, joined, req, snap>>
       ELSE Refuse(r)

FindTeam(r) ==
    /\ pc[r] = "team?"
    /\ IF exists
       THEN Goto(r, "read") /\ UNCHANGED <<db, req, snap>>
       ELSE Refuse(r)

ConsumeInvite(r) ==
    /\ pc[r] = "consume"
    /\ invitations' = invitations \ {req[r].invite}
    /\ Goto(r, "pull")
    /\ UNCHANGED <<exists, members, version, entityHolders, joined, req, snap>>

(* removeUserInEntityCapability: the team now speaks for the user.         *)
PullPersonal(r) ==
    /\ pc[r] = "pull"
    /\ entityHolders' = entityHolders \ {Joiner(r)}
    /\ Goto(r, "done")
    /\ UNCHANGED <<exists, members, version, invitations, joined, req, snap>>

(* removeInvitationAdmin, and refuseUserCapabilityInvite by the invited    *)
(* user, whose query names the user as well as the invitation.             *)
DropInvite(r) ==
    /\ pc[r] = "cancel"
    /\ invitations' = IF req[r].op = "refuse" /\ req[r].invite.user # req[r].actor
                      THEN invitations ELSE invitations \ {req[r].invite}
    /\ Goto(r, "done")
    /\ UNCHANGED <<exists, members, version, entityHolders, joined, req, snap>>

-----------------------------------------------------------------------------
(* deleteEntityOwnershipGroup: refused while the team owns an entity.  A   *)
(* team without personal holders may own entities too: then the request is *)
(* one that failed.                                                        *)

AssertOwnsNothing(r) ==
    /\ pc[r] = "owned?"
    /\ IF entityHolders = {}
       THEN Goto(r, "may?") /\ UNCHANGED <<db, req, snap>>
       ELSE Refuse(r)

DeleteGroup(r) ==
    /\ pc[r] = "drop"
    /\ exists' = FALSE
    /\ members' = {}
    /\ Goto(r, "done")
    /\ UNCHANGED <<version, invitations, entityHolders, joined, req, snap>>

-----------------------------------------------------------------------------
(* A command fails, or the process dies with the request in flight.        *)
Abandon(r) ==
    /\ pc[r] \notin {"unborn", "done", "failed"}
    /\ Refuse(r)

Handle(r) ==
    \/ AssertMay(r) \/ AssertOwner(r) \/ AssertGive(r)
    \/ ReadUpdate(r) \/ ReadRemove(r) \/ Replace(r)
    \/ ReadJoin(r) \/ Push(r)
    \/ ReadInvite(r) \/ LookupInvite(r) \/ InsertInvite(r)
    \/ FindInvite(r) \/ FindTeam(r) \/ ConsumeInvite(r) \/ PullPersonal(r)
    \/ DropInvite(r)
    \/ AssertOwnsNothing(r) \/ DeleteGroup(r)

Next == \E r \in Requests : Arrive(r) \/ Handle(r) \/ Abandon(r)

Spec == Init /\ [][Next]_vars

-----------------------------------------------------------------------------
(* What a request read, if the version has not moved since, is what is     *)
(* there: every change of the array, by replacement or by push, moves it.  *)
(* The optimistic lock stands on this.                                     *)
SnapshotCurrent ==
    \A r \in Requests :
        pc[r] = "replace" => /\ snap[r].version <= version
                             /\ (exists /\ snap[r].version = version) => snap[r].members = members

Commits(r) == pc[r] = "replace" /\ pc'[r] = "done"

(* "was modified concurrently": changing or removing one member never      *)
(* undoes, drops or brings back what concurrent requests did to another.   *)
KeepsOthers ==
    \A r \in Requests :
        Commits(r) => Without(req[r].target, members') = Without(req[r].target, members)

OneEntryEach == \A e, f \in members : e.user = f.user => e = f

RemovalLeavesOwner(r) ==
    (Commits(r) /\ req[r].op = "remove" /\ Owners(members) # {}) => Owners(members') # {}

(* As long as no user is listed twice, removing members never leaves the   *)
(* team without an owner, not even when two owners remove each other.      *)
RemovalKeepsAnOwner ==
    [][OneEntryEach => \A r \in Requests : RemovalLeavesOwner(r)]_vars

(* "Owner can't leave Entity Ownership Group as the only owner", said      *)
(* without that condition.                                                 *)
LastOwnerStays == [][\A r \in Requests : RemovalLeavesOwner(r)]_vars

(* When a user who is not ADMIN changes their own entry or leaves, they    *)
(* own the team at that very moment, not only when the request read it.    *)
SelfServedByOwner ==
    \A r \in Requests : Commits(r) => ~SelfServed(r, members)

(* An invitation disappears because someone withdrew it or because its     *)
(* user has become a member: an acceptance that fails half way loses       *)
(* neither the invitation nor the membership.                              *)
InvitationKept ==
    [][\A i \in invitations \ invitations' :
          \/ i.user \in joined
          \/ \E r \in Requests : pc[r] = "cancel" /\ pc'[r] = "done" /\ req[r].invite = i]_vars

(* What a committed change may do to a team, whoever else changes it then. *)
MemberChangesHold == [][KeepsOthers /\ SelfServedByOwner]_vars
=============================================================================
