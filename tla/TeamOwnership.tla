---------------------------- MODULE TeamOwnership ----------------------------
(***************************************************************************)
(* EntityOwnershipService: which team, and which users, own an entity.     *)
(*                                                                         *)
(* ensureTeamOwnership is one upsert and a look at the outcome, and is     *)
(* answered; the older operations are events that read a document, change  *)
(* it in memory and save it.  All run concurrently, also in several        *)
(* processes, and a team is deleted meanwhile.  A request that dies takes  *)
(* no further step.                                                        *)
(*                                                                         *)
(* mongoose saves what was changed in memory: a replaced array goes with a *)
(* check of the version, a pushed element only raises the version, a       *)
(* changed team does neither.  $pull by updateOne leaves the version.      *)
(***************************************************************************)
EXTENDS Naturals

CONSTANTS
    Operations,   \* requests
    Entities,     \* identities: entityGroup, entityName, entityId
    Teams, NoTeam,
    Grantees,      \* users
    NoId, Before, \* _id of no document, and of those made before
    TeamMembers   \* who has capabilities on the entities through a team

ASSUME Distinct ==
    /\ NoId # Before /\ {NoId, Before} \cap Operations = {}
    /\ NoTeam \notin Teams
    /\ TeamMembers \in [Teams -> SUBSET Grantees]

VARIABLES
    own,          \* the ownership of each entity
    teams,        \* the teams that exist
    command, arg, \* the next command and the arguments of each request
    seen,         \* the document a request works on, as it was read
    acknowledged  \* history: the teams ensured since an older operation wrote

ownershipVars == <<own, teams, command, arg, seen, acknowledged>>

(* A document; its _id is the request that made it.                        *)
Ownership == [id : Operations \union {Before}, team : Teams \union {NoTeam},
              members : SUBSET Grantees, version : Nat]

NoOwnership == [id |-> NoId, team |-> NoTeam, members |-> {}, version |-> 0]

Kinds == {"ensure", "insert", "edit", "migrate", "grant", "revoke", "drop", "delete team"}

Arg == [kind : Kinds, entity : Entities, team : Teams \union {NoTeam}, members : SUBSET Grantees]

NoArg == [kind |-> "none", entity |-> NoId, team |-> NoTeam, members |-> {}]

Commands == {"unborn", "upsert", "confirm", "find", "save", "look", "look at team", "pull",
             "delete", "owns nothing", "delete team", "done"}

OwnershipTypeOK ==
    /\ own \in [Entities -> Ownership \union {NoOwnership}]
    /\ teams \subseteq Teams
    /\ command \in [Operations -> Commands]
    /\ arg \in [Operations -> Arg \union {NoArg}]
    /\ seen \in [Operations -> Ownership \union {NoOwnership}]
    /\ acknowledged \in [Entities -> SUBSET Teams]

OwnershipInit ==
    /\ own \in [Entities -> {NoOwnership} \union
                   [id : {Before}, team : Teams \union {NoTeam}, members : SUBSET Grantees, version : {0}]]
    /\ teams = Teams
    /\ command = [r \in Operations |-> "unborn"]
    /\ arg = [r \in Operations |-> NoArg]
    /\ seen = [r \in Operations |-> NoOwnership]
    /\ acknowledged = [e \in Entities |-> {}]

Proceed(r, step) == command' = [command EXCEPT ![r] = step]
Entity(r) == arg[r].entity
Of(r) == own[Entity(r)]

-----------------------------------------------------------------------------
FirstStep == [ensure |-> "upsert", insert |-> "find", edit |-> "find", migrate |-> "find",
              grant |-> "look", revoke |-> "pull", drop |-> "delete"]

Ask(r) ==
    /\ command[r] = "unborn"
    /\ \E a \in Arg :
          /\ \/ a.kind \in {"insert", "edit"}
             \/ a.kind \in {"ensure", "delete team"} /\ a.team \in Teams /\ a.members = {}
             \/ a.kind \in {"grant", "revoke"} /\ a.team = NoTeam /\ \E u \in Grantees : a.members = {u}
             \/ a.kind \in {"migrate", "drop"} /\ a.team = NoTeam /\ a.members = {}
          /\ arg' = [arg EXCEPT ![r] = a]
          /\ Proceed(r, IF a.kind = "delete team" THEN "owns nothing" ELSE FirstStep[a.kind])
    /\ UNCHANGED <<own, teams, seen, acknowledged>>

(* ensureTeamOwnership: the upsert inserts if nothing is there; when a     *)
(* concurrent one was faster its duplicate-key error is swallowed.         *)
Upsert_Set(r) ==                \* bug: $set in place of $setOnInsert
    /\ command[r] = "upsert"
    /\ own' = [own EXCEPT ![Entity(r)] =
                 IF @ = NoOwnership
                 THEN [id |-> r, team |-> arg[r].team, members |-> {}, version |-> 0]
                 ELSE [@ EXCEPT !.team = arg[r].team, !.members = {}]]
    /\ Proceed(r, "confirm")
    /\ UNCHANGED <<teams, arg, seen, acknowledged>>

Upsert(r) ==
    /\ command[r] = "upsert"
    /\ own' = [own EXCEPT ![Entity(r)] =
                 IF @ = NoOwnership
                 THEN [id |-> r, team |-> arg[r].team, members |-> {}, version |-> 0]
                 ELSE @]
    /\ Proceed(r, "confirm")
    /\ UNCHANGED <<teams, arg, seen, acknowledged>>

Confirm(r) ==
    /\ command[r] = "confirm"
    /\ acknowledged' =
          IF Of(r) # NoOwnership /\ Of(r).team = arg[r].team /\ Of(r).members = {}
          THEN [acknowledged EXCEPT ![Entity(r)] = @ \union {arg[r].team}]
          ELSE acknowledged                       \* ConflictException
    /\ Proceed(r, "done")
    /\ UNCHANGED <<own, teams, arg, seen>>

(* The read of insert, edit, the startup migration and addNewUserCapability.*)
Find(r) ==
    /\ command[r] = "find"
    /\ seen' = [seen EXCEPT ![r] = Of(r)]
    /\ Proceed(r, IF Of(r) = NoOwnership /\ arg[r].kind # "insert" THEN "done" ELSE "save")
    /\ UNCHANGED <<own, teams, arg, acknowledged>>

(* The older operations overrule what was acknowledged.                    *)
Overrule(e) == acknowledged' = [acknowledged EXCEPT ![e] = {}]

(* insert of an entity that had no owner; the index refuses a second one.  *)
Create(r) ==
    /\ command[r] = "save" /\ seen[r] = NoOwnership
    /\ IF Of(r) = NoOwnership
       THEN /\ own' = [own EXCEPT ![Entity(r)] =
                          [id |-> r, team |-> arg[r].team, members |-> arg[r].members, version |-> 0]]
            /\ Overrule(Entity(r))
       ELSE UNCHANGED <<own, acknowledged>>
    /\ Proceed(r, "done")
    /\ UNCHANGED <<teams, arg, seen>>

(* The members after the change in memory, and whether they were replaced: *)
(* a list that equals the one read, capabilities included, is not.         *)
MembersAfter(r) ==
    CASE arg[r].kind \in {"insert", "edit"} -> arg[r].members
      [] arg[r].kind = "migrate" -> seen[r].members
      [] OTHER -> Of(r).members \union arg[r].members          \* $push

MayReplace(r) ==
    CASE arg[r].kind = "grant" -> {FALSE}
      [] arg[r].kind = "migrate" -> {TRUE}
      [] seen[r].members = {} /\ arg[r].members = {} -> {FALSE}
      [] OTHER -> {TRUE, arg[r].members # seen[r].members}

NewTeam(r) ==                   \* only a change of what was read is written
    IF arg[r].kind \in {"insert", "edit"} /\ arg[r].team # seen[r].team
    THEN arg[r].team ELSE Of(r).team

Update_NoVersion(r) ==          \* bug: versionKey is switched off
    /\ command[r] = "save" /\ seen[r] # NoOwnership
    /\ IF Of(r).id = seen[r].id
       THEN /\ own' = [own EXCEPT ![Entity(r)] =
                         [@ EXCEPT !.team = NewTeam(r), !.members = MembersAfter(r)]]
            /\ Overrule(Entity(r))
       ELSE UNCHANGED <<own, acknowledged>>
    /\ Proceed(r, "done")
    /\ UNCHANGED <<teams, arg, seen>>

Update(r) ==
    /\ command[r] = "save" /\ seen[r] # NoOwnership
    /\ \E replaced \in MayReplace(r) :
          IF Of(r).id = seen[r].id /\ (replaced => Of(r).version = seen[r].version)
          THEN /\ own' = [own EXCEPT ![Entity(r)] =
                    [id |-> @.id, team |-> NewTeam(r),
                     members |-> IF replaced \/ arg[r].kind = "grant" THEN MembersAfter(r) ELSE @.members,
                     version |-> IF replaced \/ arg[r].kind = "grant" THEN @.version + 1 ELSE @.version]]
               /\ Overrule(Entity(r))
          ELSE UNCHANGED <<own, acknowledged>>    \* VersionError, DocumentNotFoundError
    /\ Proceed(r, "done")
    /\ UNCHANGED <<teams, arg, seen>>

(* insertUserCapability: a user who has capabilities, of their own or of   *)
(* the team, has them set in place, which changes no list of users.        *)
Look(r) ==
    /\ command[r] = "look"
    /\ Proceed(r, IF arg[r].members \subseteq Of(r).members THEN "done"
                  ELSE IF Of(r).team # NoTeam THEN "look at team" ELSE "find")
    /\ seen' = [seen EXCEPT ![r] = Of(r)]
    /\ UNCHANGED <<own, teams, arg, acknowledged>>

LookAtTeam(r) ==
    /\ command[r] = "look at team"
    /\ LET t == seen[r].team
       IN  Proceed(r, IF t \in teams /\ arg[r].members \subseteq TeamMembers[t] THEN "done" ELSE "find")
    /\ UNCHANGED <<own, teams, arg, seen, acknowledged>>

(* removeUserCapability                                                    *)
Pull(r) ==
    /\ command[r] = "pull"
    /\ own' = [own EXCEPT ![Entity(r)].members = @ \ arg[r].members]
    /\ Proceed(r, "done")
    /\ UNCHANGED <<teams, arg, seen, acknowledged>>

(* deleteOwnership                                                         *)
Drop(r) ==
    /\ command[r] = "delete"
    /\ own' = [own EXCEPT ![Entity(r)] = NoOwnership]
    /\ Overrule(Entity(r))
    /\ Proceed(r, "done")
    /\ UNCHANGED <<teams, arg, seen>>

(* The controller's deletion of a team: hasOwnershipsByEogId, then         *)
(* deleteGroup.  (Who may delete it: EntityOwnershipGroup.)                *)
OwnsNothing(r) ==
    /\ command[r] = "owns nothing"
    /\ Proceed(r, IF \E e \in Entities : own[e] # NoOwnership /\ own[e].team = arg[r].team
                  THEN "done" ELSE "delete team")
    /\ UNCHANGED <<own, teams, arg, seen, acknowledged>>

DeleteTeam(r) ==
    /\ command[r] = "delete team"
    /\ teams' = teams \ {arg[r].team}
    /\ Proceed(r, "done")
    /\ UNCHANGED <<own, arg, seen, acknowledged>>

OwnershipNext ==
    \E r \in Operations :
        \/ Ask(r) \/ Upsert(r) \/ Confirm(r) \/ Find(r) \/ Create(r) \/ Update(r)
        \/ Look(r) \/ LookAtTeam(r) \/ Pull(r) \/ Drop(r) \/ OwnsNothing(r) \/ DeleteTeam(r)

OwnershipSpec == OwnershipInit /\ [][OwnershipNext]_ownershipVars

-----------------------------------------------------------------------------
(* "acknowledges an identical assignment, and refuses to overwrite another *)
(* team's or a person's ownership": a team that ensureTeamOwnership has    *)
(* acknowledged owns the entity, alone, until an older operation that knew *)
(* of it overrules it.  In particular no two teams are both acknowledged,  *)
(* and an insert under way when the team was acknowledged does not win.    *)
AcknowledgedOwns ==
    \A e \in Entities : \A t \in acknowledged[e] :
        own[e] # NoOwnership /\ own[e].team = t /\ own[e].members = {}

(* The request that takes this step has done its last command.             *)
Finishes(r) == command[r] # "done" /\ command'[r] = "done"

(* A request that replaces the users of an entity, or changes its team,    *)
(* works on the ownership it has read, not on a later one of the same      *)
(* entity, and removes no user granted since it read: concurrent grants    *)
(* are not lost to an edit, nor to the migration at startup.               *)
ReplacesWhatItRead ==
    [][\A r \in Operations : (command[r] = "save" /\ Finishes(r) /\ own' # own /\ seen[r] # NoOwnership) =>
          /\ Of(r).id = seen[r].id
          /\ own'[Entity(r)].id = Of(r).id
          /\ Of(r).members \ own'[Entity(r)].members \subseteq seen[r].members]_ownershipVars

(* "Entity Ownership Group ... cannot be deleted because it has owned      *)
(* entities": a team is not deleted while it owns one.                     *)
OwningTeamIsKept ==
    [][\A t \in teams \ teams', e \in Entities : own[e] = NoOwnership \/ own[e].team # t]_ownershipVars
=============================================================================
