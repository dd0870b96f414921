--------------------------- MODULE TeamMigration ----------------------------
(* What a replica of the users service does before it serves: it rewrites   *)
(* the capabilities that an earlier release has stored as one string        *)
(* (EntityOwnershipGroupService.onModuleInit), while the replicas that are  *)
(* up already change the same team.  One team and one invitation to it.     *)
(* A replica that fails to start, or dies, may be started again.            *)
EXTENDS Naturals, FiniteSets

CONSTANTS
    Replicas,
    Users,
    Migrated,     \* migrateFromStringToCapability, of the strings there may be
    Grants,       \* the capabilities given by requests
    FirstTeams, FirstInvites,
    MaxChanges,   \* bound on the requests
    None

VARIABLES
    team,         \* the members of the group; None when it was deleted
    version,      \* __v of it
    invite,       \* the invitation; None when there is none
    inviteVersion,
    pc,           \* each replica: "off", "starting", "up", or in a request
    groups,       \* its migration of groups: what it has found
    invites,      \* its migration of invitations
    request,      \* the request it serves, with what it has read
    changes

vars == <<team, version, invite, inviteVersion, pc, groups, invites, request, changes>>

(* A member: what they may do, and the string of an earlier release, both   *)
(* in the team and for the entities it owns.                                *)
Legacy(m) == m.role # None \/ m.entityRole # None
Converted(m) ==
    [m EXCEPT !.capabilities = IF m.role = None THEN @ ELSE Migrated[m.role], !.role = None,
              !.entity = IF m.entityRole = None THEN @ ELSE Migrated[m.entityRole], !.entityRole = None]

Nothing == [at |-> "none"]
At(where) == [at |-> where]

Init ==
    /\ team \in FirstTeams /\ version = 0
    /\ invite \in FirstInvites /\ inviteVersion = 0
    /\ pc = [p \in Replicas |-> "off"]
    /\ groups = [p \in Replicas |-> Nothing] /\ invites = groups /\ request = groups
    /\ changes = 0

StartReplica(p) ==
    /\ pc[p] = "off"
    /\ pc' = [pc EXCEPT ![p] = "starting"]
    /\ groups' = [groups EXCEPT ![p] = At("find")]
    /\ invites' = [invites EXCEPT ![p] = At("find")]
    /\ UNCHANGED <<team, version, invite, inviteVersion, request, changes>>

Stopped(p) ==
    /\ pc' = [pc EXCEPT ![p] = "off"]
    /\ groups' = [groups EXCEPT ![p] = Nothing]
    /\ invites' = [invites EXCEPT ![p] = Nothing]
    /\ request' = [request EXCEPT ![p] = Nothing]
    /\ UNCHANGED changes

Dies(p) ==
    /\ pc[p] # "off"
    /\ Stopped(p)
    /\ UNCHANGED <<team, version, invite, inviteVersion>>

-----------------------------------------------------------------------------
(* migrateAllGroupCapabilityToNewStructure: the whole array is marked       *)
(* modified, so save() is conditional on the version.  A refused save is    *)
(* not caught and the replica does not start.                               *)
FindGroups(p) ==
    /\ groups[p].at = "find"
    /\ groups' = [groups EXCEPT ![p] =
          IF team # None /\ \E m \in team : Legacy(m) THEN [at |-> "save", members |-> team, version |-> version]
          ELSE At("end")]
    /\ UNCHANGED <<team, version, invite, inviteVersion, pc, invites, request, changes>>

Saving(p) == groups[p].at = "save"
Unchanged_Ignored(read) ==     \* bug: the version is not compared
    team # None

Unchanged(read) == team # None /\ version = read.version

SaveGroup(p) ==
    /\ Saving(p)
    /\ IF Unchanged(groups[p])
       THEN /\ team' = {Converted(m) : m \in groups[p].members}
            /\ version' = version + 1
            /\ groups' = [groups EXCEPT ![p] = At("end")]
            /\ UNCHANGED <<pc, invites, request, changes>>
       ELSE Stopped(p) /\ UNCHANGED <<team, version>>
    /\ UNCHANGED <<invite, inviteVersion>>

(* migrateAllGroupInvititaionCapabilityToNewStructure: `delete` does not    *)
(* remove a path of the schema, so the string stays and the invitation is   *)
(* found by every start; what is changed inside the untyped array is not    *)
(* saved.  The list of numbers is, when it is another one.                  *)
FindInvites(p) ==
    /\ invites[p].at = "find"
    /\ invites' = [invites EXCEPT ![p] =
          IF invite # None /\ invite.role # None /\ invite.capabilities # Migrated[invite.role]
          THEN [at |-> "save", version |-> inviteVersion] ELSE At("end")]
    /\ UNCHANGED <<team, version, invite, inviteVersion, pc, groups, request, changes>>

SaveInvite(p) ==
    /\ invites[p].at = "save"
    /\ IF invite # None /\ inviteVersion = invites[p].version
       THEN /\ invite' = [invite EXCEPT !.capabilities = Migrated[invite.role]]
            /\ inviteVersion' = inviteVersion + 1
            /\ invites' = [invites EXCEPT ![p] = At("end")]
            /\ UNCHANGED <<pc, groups, request, changes>>
       ELSE Stopped(p) /\ UNCHANGED <<invite, inviteVersion>>
    /\ UNCHANGED <<team, version>>

(* Promise.all of the two; then the application listens.                    *)
Serves(p) ==
    /\ pc[p] = "starting" /\ groups[p].at = "end" /\ invites[p].at = "end"
    /\ pc' = [pc EXCEPT ![p] = "up"]
    /\ UNCHANGED <<team, version, invite, inviteVersion, groups, invites, request, changes>>

-----------------------------------------------------------------------------
(* Requests of replicas that are up, past their assertions (these, and the  *)
(* rules for owners, are those of EntityOwnershipGroup).                    *)
Member(u, grant) ==
    [user |-> u, capabilities |-> grant, role |-> None, entity |-> grant, entityRole |-> None]

(* findById, for an update, a removal, or somebody to be added.             *)
Read(p) ==
    /\ pc[p] = "up" /\ request[p] = Nothing /\ team # None /\ changes < MaxChanges
    /\ changes' = changes + 1
    /\ \E op \in {"add", "remove", "update"}, u \in Users, grant \in Grants :
          /\ op = "add" <=> \A m \in team : m.user # u
          /\ request' = [request EXCEPT ![p] =
                [at |-> op, member |-> Member(u, grant), members |-> team, version |-> version]]
    /\ UNCHANGED <<team, version, invite, inviteVersion, pc, groups, invites>>

(* The acceptance of an invitation: the team is read, the user added        *)
(* unless they are a member, and the invitation removed after that.         *)
Accept(p) ==
    /\ pc[p] = "up" /\ request[p] = Nothing /\ team # None /\ invite # None
    /\ request' = [request EXCEPT ![p] =
          IF \E m \in team : m.user = invite.user THEN At("consume")
          ELSE [at |-> "accept", members |-> team, version |-> version,
                member |-> [Member(invite.user, invite.capabilities) EXCEPT !.entity = invite.entity]]]
    /\ UNCHANGED <<team, version, invite, inviteVersion, pc, groups, invites, changes>>

Consume(p) ==
    /\ request[p].at = "consume"
    /\ invite' = None
    /\ request' = [request EXCEPT ![p] = Nothing]
    /\ UNCHANGED <<team, version, inviteVersion, pc, groups, invites, changes>>

Answered(p, r) ==
    request' = [request EXCEPT ![p] =
                   IF r.at = "accept" /\ team # None THEN At("consume") ELSE Nothing]

(* A pushed element goes by the id; the array is replaced by updateOne if   *)
(* the version is the one that was read, else the request is refused.       *)
Others(r) == {m \in r.members : m.user # r.member.user}
Updated(r) ==
    {[m EXCEPT !.capabilities = r.member.capabilities, !.entity = r.member.entity, !.entityRole = None]
        : m \in r.members \ Others(r)}

Write(p) ==
    /\ request[p].at \in {"add", "accept", "update", "remove"}
    /\ LET r == request[p] IN
       /\ IF r.at \in {"add", "accept"} /\ team # None
          THEN team' = team \union {r.member} /\ version' = version + 1
          ELSE IF r.at \in {"update", "remove"} /\ Unchanged(r)
          THEN /\ team' = Others(r) \union (IF r.at = "remove" THEN {} ELSE Updated(r))
               /\ version' = version + 1
          ELSE UNCHANGED <<team, version>>
       /\ Answered(p, r)
    /\ UNCHANGED <<invite, inviteVersion, pc, groups, invites, changes>>

(* Refused or removed by an administrator.                                  *)
RemoveInvite(p) ==
    /\ pc[p] = "up" /\ invite # None
    /\ invite' = None
    /\ UNCHANGED <<team, version, inviteVersion, pc, groups, invites, request, changes>>

DeleteGroup(p) ==
    /\ pc[p] = "up" /\ team # None
    /\ team' = None
    /\ UNCHANGED <<version, invite, inviteVersion, pc, groups, invites, request, changes>>

Next ==
    \E p \in Replicas :
        \/ StartReplica(p) \/ Dies(p) \/ FindGroups(p) \/ SaveGroup(p) \/ FindInvites(p) \/ SaveInvite(p)
        \/ Serves(p) \/ Read(p) \/ Accept(p) \/ Consume(p) \/ Write(p)
        \/ RemoveInvite(p) \/ DeleteGroup(p)

Spec == Init /\ [][Next]_vars

-----------------------------------------------------------------------------
(* Once a replica serves, no member of the team is left with a string only  *)
(* an earlier release understood, whatever other replicas have in hand.     *)
ServedIsMigrated ==
    (\E p \in Replicas : pc[p] = "up") => (team # None => \A m \in team : ~Legacy(m))

(* Whoever accepts an old invitation gets, in the team, what it said.       *)
InviteIsMigrated ==
    (\E p \in Replicas : pc[p] = "up") =>
        (invite # None /\ invite.role # None => invite.capabilities = Migrated[invite.role])

(* A replica that starts does not undo what the requests of another have    *)
(* done to the team meanwhile: who is a member, and with which rights.      *)
MigrationKeepsChanges ==
    \A p \in Replicas : Saving(p) /\ groups'[p].at = "end" => team' = {Converted(m) : m \in team}

MigrationHolds == ServedIsMigrated' /\ InviteIsMigrated' /\ MigrationKeepsChanges
=============================================================================
