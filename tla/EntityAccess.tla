---------------------------- MODULE EntityAccess ----------------------------
(* Who may do what with an entity (EntityOwnershipService and the           *)
(* controller that caches what it answers): a user has capabilities of      *)
(* their own on the entity, or those of a member of the team that owns it,  *)
(* or a role that overrides.  One entity, the requests of other services    *)
(* for one kind of entity; each read and each write is a step.  The service *)
(* runs as several processes, each with a cache of its own, which its own   *)
(* writes invalidate and those of the others do not.  How the ownership     *)
(* comes about is TeamOwnership, how the team changes is                    *)
(* EntityOwnershipGroup, how a cache keeps its entries is CacheManager.     *)
EXTENDS FiniteSets

CONSTANTS
    Calls,        \* the requests
    Processes,    \* of the service, UBS_MAIN_PROCESS_COUNT of them
    Users,
    Queries,      \* Missing, or the alternatives asked for, each a set of capabilities
    Grants,       \* the sets of capabilities a user can be given
    TheTeam,      \* the id of the only team
    RolesOf,      \* the roles of each user
    Admin,        \* 'ADMIN'
    FirstOwned,   \* the ownerships to begin with
    TeamStates,   \* the members and roles the team can have
    Missing,      \* not given
    None          \* no document, no team

VARIABLES
    owned,        \* the ownership of the entity
    team,         \* the group with the id TheTeam
    cached,       \* the answers in the caches, by key
    pc, call,     \* where each request is, and what it asks
    found,        \* what the request has read
    raced,        \* loads during which their keys were invalidated or the team changed,
                  \* or that had read what another process then wrote
    excused       \* keys with the answer of such a load, or with one that was there when
                  \* the team changed or another process wrote

vars == <<owned, team, cached, pc, call, found, raced, excused>>

-----------------------------------------------------------------------------
(* What the queries of the service say.                                     *)

hasCapabilityFromInnerArray(capabilities, query) ==
    IF query \in {Missing, {}} THEN TRUE ELSE \E all \in query : all \subseteq capabilities

findUserCapabilityInEntity(o, u, query) ==
    \E uc \in o.members : uc.user = u /\ hasCapabilityFromInnerArray(uc.capabilities, query)

findUserCapabilityInGroup(g, u, query) ==
    g # None /\ \E uc \in g.members :
        uc.user = u /\ \E ec \in uc.entity :
            ec.kind = "this" /\ hasCapabilityFromInnerArray(ec.capabilities, query)

checkRoleOverride(roles, u) ==
    roles # {} /\ (Admin \in RolesOf[u] \/ RolesOf[u] \intersect roles # {})

(* `overriderRoles ||` the team's: an empty list counts as given.           *)
Overriders(o, g) ==
    IF o.roles # Missing THEN o.roles ELSE IF g = None THEN {} ELSE g.roles

(* The search is a query of its own, in the language of the database, where *)
(* `$all` of no capabilities matches nothing.  Of the teams it asks that    *)
(* the user is a member and that somebody has the capabilities for          *)
(* something.                                                               *)
Offers(capabilities, query) ==
    query = Missing \/ \E all \in query : all # {} /\ all \subseteq capabilities

findEntityOwnershipGroupsByUser(g, u, query) ==
    /\ g # None
    /\ \E uc \in g.members : uc.user = u
    /\ query = Missing \/ \E uc \in g.members : \E ec \in uc.entity : Offers(ec.capabilities, query)

searchByUserRaw(o, teams, u, query) ==
    o # None /\ (\/ \E uc \in o.members : uc.user = u /\ Offers(uc.capabilities, query)
                 \/ o.team \in teams)

-----------------------------------------------------------------------------
Asks == {"check", "ids"}
Writes == {"grant", "remove", "delete"}
Requested ==
    {[at |-> p, op |-> op, user |-> u, query |-> q] :
        p \in Processes, op \in Asks, u \in Users, q \in Queries}
    \union {[at |-> p, op |-> "of team", user |-> None, query |-> Missing] : p \in Processes}
Key(c) == call[c]

Init ==
    /\ owned \in FirstOwned /\ team \in TeamStates
    /\ cached = [k \in Requested |-> "absent"]
    /\ pc = [c \in Calls |-> "idle"]
    /\ call = [c \in Calls |-> None]
    /\ found = [c \in Calls |-> None]
    /\ raced = {} /\ excused = {}

Loading == {c \in Calls : pc[c] \in {"entity", "group", "roles", "teams", "ownerships"}
                            /\ call[c].op \in Asks \union {"of team"}}

(* A request of the bus; getOrCallAsync gives it what is cached, or the     *)
(* load that is under way, or starts one.                                   *)
Ask(c) ==
    /\ pc[c] = "idle"
    /\ \E k \in Requested :
          /\ call' = [call EXCEPT ![c] = IF cached[k] # "absent" THEN None ELSE k]
          /\ \/ /\ cached[k] # "absent"
                /\ pc' = [pc EXCEPT ![c] = "done"]
             \/ /\ cached[k] = "absent"
                /\ \E d \in Loading : call[d] = k
                /\ pc' = [pc EXCEPT ![c] = "joined"]
             \/ /\ cached[k] = "absent"
                /\ \A d \in Loading : call[d] # k
                /\ pc' = [pc EXCEPT ![c] = CASE k.op = "check" -> "entity"
                                             [] k.op = "ids" -> "teams"
                                             [] k.op = "of team" -> "ownerships"]
    /\ UNCHANGED <<owned, team, cached, found, raced, excused>>

(* The load of c ends with `value`, which is cached and given to all who    *)
(* wait for it, or fails for all of them.                                   *)
Waiting(c) == {c} \union {d \in Calls : pc[d] = "joined" /\ call[d] = call[c]}
Settled(c, value) ==
    /\ pc' = [d \in Calls |-> IF d \in Waiting(c) THEN "done" ELSE pc[d]]
    /\ call' = [d \in Calls |-> IF d \in Waiting(c) THEN None ELSE call[d]]
    /\ found' = [found EXCEPT ![c] = None]
    /\ IF value = "failed"
       THEN UNCHANGED <<cached, excused>>
       ELSE /\ cached' = [cached EXCEPT ![Key(c)] = value]
            /\ excused' = IF c \in raced THEN excused \union {Key(c)} ELSE excused \ {Key(c)}
    /\ raced' = raced \ {c}
    /\ UNCHANGED <<owned, team>>

Says(b) == IF b THEN "yes" ELSE "no"
GoesTo(c, where) ==
    /\ pc' = [pc EXCEPT ![c] = where]
    /\ UNCHANGED <<owned, team, cached, call, raced, excused>>

(* findInsertedUserCapability, for a check and at the start of a grant      *)
(* (without the roles): the entity, then its team, then the roles.          *)
LookAtEntity(c) ==
    /\ pc[c] = "entity"
    /\ LET q == IF call[c].op = "grant" THEN Missing ELSE call[c].query
           own == owned # None /\ findUserCapabilityInEntity(owned, call[c].user, q)
       IN \/ /\ call[c].op = "check" /\ (owned = None \/ own)
             /\ Settled(c, Says(own))
          \/ /\ call[c].op = "grant" /\ (owned = None \/ own)
             /\ GoesTo(c, IF own THEN "update" ELSE "find again")
             /\ UNCHANGED found
          \/ /\ owned # None /\ ~own
             /\ found' = [found EXCEPT ![c] = owned]
             /\ GoesTo(c, "group")

LookAtGroup(c) ==
    /\ pc[c] = "group"
    /\ LET q == IF call[c].op = "grant" THEN Missing ELSE call[c].query
           ofTeam == found[c].team = TheTeam /\ findUserCapabilityInGroup(team, call[c].user, q)
       IN \/ /\ call[c].op = "check" /\ ofTeam
             /\ Settled(c, "yes")
          \/ /\ call[c].op = "check" /\ ~ofTeam
             /\ GoesTo(c, "roles")
             /\ UNCHANGED found
          \/ /\ call[c].op = "grant"
             /\ GoesTo(c, IF ofTeam THEN "update" ELSE "find again")
             /\ UNCHANGED found

LookAtRoles(c) ==
    /\ pc[c] = "roles"
    /\ LET g == IF found[c].team = TheTeam THEN team ELSE None
       IN Settled(c, Says(checkRoleOverride(Overriders(found[c], g), call[c].user)))

(* searchByUserRaw: the teams of the user, then the ownerships.  `$or` of   *)
(* an empty list of alternatives is refused by the database.                *)
FindTeams(c) ==
    /\ pc[c] = "teams"
    /\ \/ /\ call[c].query = {}
          /\ Settled(c, "failed")
       \/ /\ call[c].query # {}
          /\ found' = [found EXCEPT ![c] =
                IF findEntityOwnershipGroupsByUser(team, call[c].user, call[c].query)
                THEN {TheTeam} ELSE {}]
          /\ GoesTo(c, "ownerships")

FindOwnerships(c) ==
    /\ pc[c] = "ownerships"
    /\ Settled(c, Says(IF call[c].op = "of team"
                       THEN owned # None /\ owned.team = TheTeam
                       ELSE searchByUserRaw(owned, found[c], call[c].user, call[c].query)))

-----------------------------------------------------------------------------
Write(c) ==
    /\ pc[c] = "idle"
    /\ \E p \in Processes, op \in Writes, u \in Users, caps \in Grants :
          /\ op # "grant" => caps = CHOOSE g \in Grants : TRUE
          /\ op = "delete" => u = CHOOSE w \in Users : TRUE
          /\ call' = [call EXCEPT ![c] = [at |-> p, op |-> op, user |-> u, capabilities |-> caps]]
          /\ pc' = [pc EXCEPT ![c] = IF op = "grant" THEN "entity" ELSE "write"]
    /\ UNCHANGED <<owned, team, cached, found, raced, excused>>

(* The process of c has written, and will invalidate; the others know       *)
(* nothing of it.                                                           *)
Wrote(c, o) ==
    /\ owned' = o
    /\ pc' = [pc EXCEPT ![c] = "invalidate"]
    /\ excused' = excused \union {k \in Requested : k.at # call[c].at /\ cached[k] # "absent"}
    /\ raced' = raced \union
          {d \in Loading : call[d].at # call[c].at /\ pc[d] \in {"group", "roles"}}
    /\ UNCHANGED <<team, cached, call, found>>

(* updateExistingUserCapability: nothing changes for a user who is only a   *)
(* member of the team.                                                      *)
Update(c) ==
    /\ pc[c] = "update"
    /\ Wrote(c, IF owned = None THEN None ELSE
          [owned EXCEPT !.members =
              {IF uc.user = call[c].user THEN [uc EXCEPT !.capabilities = call[c].capabilities]
               ELSE uc : uc \in owned.members}])

(* addNewUserCapability: found once more, then pushed and saved; the save   *)
(* fails when the ownership was deleted in between.                         *)
FindAgain(c) ==
    /\ pc[c] = "find again"
    /\ GoesTo(c, IF owned = None THEN "invalidate" ELSE "push")
    /\ UNCHANGED found

Push(c) ==
    /\ pc[c] = "push"
    /\ IF owned = None
       THEN /\ pc' = [pc EXCEPT ![c] = "done"]
            /\ call' = [call EXCEPT ![c] = None]
            /\ UNCHANGED <<owned, team, cached, found, raced, excused>>
       ELSE Wrote(c, [owned EXCEPT !.members =
                @ \union {[user |-> call[c].user, capabilities |-> call[c].capabilities]}])

RemoveOrDelete(c) ==
    /\ pc[c] = "write"
    /\ Wrote(c, IF owned = None \/ call[c].op = "delete" THEN None ELSE
          [owned EXCEPT !.members = {uc \in @ : uc.user # call[c].user}])

(* invalidateRegex(/eo-*/) of the process that has written, after the write.*)
Invalidated(ks) == [k \in Requested |-> IF k \in ks THEN "absent" ELSE cached[k]]
Matching_Checks(p) == \* bug: the keys of the searches are forgotten
    {k \in Requested : k.at = p /\ k.op = "check"}
Matching(p) == {k \in Requested : k.at = p}

Invalidate(c) ==
    /\ pc[c] = "invalidate"
    /\ pc' = [pc EXCEPT ![c] = "done"]
    /\ call' = [call EXCEPT ![c] = None]
    /\ cached' = Invalidated(Matching(call[c].at))
    /\ excused' = excused \ Matching(call[c].at)
    /\ raced' = raced \union {d \in Loading : call[d].at = call[c].at}
    /\ found' = [found EXCEPT ![c] = None]
    /\ UNCHANGED <<owned, team>>

(* The team changes by requests to EntityOwnershipGroupService, which do    *)
(* not touch these keys.                                                    *)
TeamChanges ==
    /\ team' \in TeamStates \ {team}
    /\ excused' = {k \in Requested : cached[k] # "absent"}
    /\ raced' = raced \union Loading
    /\ UNCHANGED <<owned, cached, pc, call, found>>

Expires(k) ==
    /\ cached[k] # "absent"
    /\ cached' = [cached EXCEPT ![k] = "absent"]
    /\ excused' = excused \ {k}
    /\ UNCHANGED <<owned, team, pc, call, found, raced>>

Step(c) ==
    \/ Ask(c) \/ LookAtEntity(c) \/ LookAtGroup(c) \/ LookAtRoles(c)
    \/ FindTeams(c) \/ FindOwnerships(c)
    \/ Write(c) \/ Update(c) \/ FindAgain(c) \/ Push(c) \/ RemoveOrDelete(c) \/ Invalidate(c)

Next == (\E c \in Calls : Step(c)) \/ TeamChanges \/ \E k \in Requested : Expires(k)

Spec == Init /\ [][Next]_vars

-----------------------------------------------------------------------------
(* What a check or a search would be answered at this moment.               *)
Current(k) ==
    Says(CASE k.op = "check" ->
                owned # None /\
                    LET g == IF owned.team = TheTeam THEN team ELSE None IN
                    \/ findUserCapabilityInEntity(owned, k.user, k.query)
                    \/ findUserCapabilityInGroup(g, k.user, k.query)
                    \/ checkRoleOverride(Overriders(owned, g), k.user)
           [] k.op = "of team" -> owned # None /\ owned.team = TheTeam
           [] k.op = "ids" ->
                searchByUserRaw(owned, {t \in {TheTeam} :
                                   findEntityOwnershipGroupsByUser(team, k.user, k.query)},
                                k.user, k.query))

(* Every write of an ownership invalidates what its process answered        *)
(* before: once it has done so, only a load that overlapped an invalidation *)
(* or a write, a change of the team, or a write of another process since    *)
(* the answer was found can have left an old one there.                     *)
AnswersAreCurrent ==
    \A k \in Requested :
        \/ cached[k] = "absent" \/ k \in excused
        \/ cached[k] = Current(k)
        \/ \E c \in Calls : pc[c] = "invalidate" /\ call[c].at = k.at

(* The check and the search are written in two languages: an entity on      *)
(* which the check finds capabilities for the user, of their own or of      *)
(* their team, is one the search finds, for every query it accepts and      *)
(* that asks for something in each alternative: of an empty one the check   *)
(* is content, and the search finds nothing.  (Nor is it so the other way   *)
(* round: the search does not ask whose capabilities in the team it has     *)
(* found, nor for which kind of entity.)                                    *)
Answerable == {q \in Queries : q = Missing \/ (q # {} /\ {} \notin q)}
SearchFindsAccess ==
    owned # None => \A u \in Users, q \in Answerable :
        \/ findUserCapabilityInEntity(owned, u, q)
        \/ owned.team = TheTeam /\ findUserCapabilityInGroup(team, u, q)
        => Current([op |-> "ids", user |-> u, query |-> q]) = "yes"

AccessHolds == AnswersAreCurrent /\ SearchFindsAccess
=============================================================================
