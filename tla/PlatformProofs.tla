--------------------------- MODULE PlatformProofs ---------------------------
(***************************************************************************)
(* More proofs about Services, for any users, queries, replicas, packages  *)
(* and rows: capabilities, the migration of teams, the release tool, and   *)
(* reading lists page by page.  A section per part, with the inductive     *)
(* invariant it needs and the lemmas that it rests on, and at the end what *)
(* follows of ServicesSpec, whose behaviours are those of one part.        *)
(***************************************************************************)
EXTENDS Services, FiniteSetTheorems, SequenceTheorems, TLAPS


-----------------------------------------------------------------------------
(* EntityAccess.  A load that no invalidation, no change of the team and   *)
(* no write of another process has met has read what there is now, or what *)
(* a write of its own process is about to invalidate.                      *)
OwnCapability(k) == Access!findUserCapabilityInEntity(owned, k.user, k.query)
TeamCapability(k) == owned.team = TheTeam /\ Access!findUserCapabilityInGroup(team, k.user, k.query)

HasRead(c) ==
    /\ pc[c] \in {"group", "roles"} =>
          /\ owned # None /\ found[c] = owned
          /\ ~OwnCapability(call[c])
          /\ pc[c] = "roles" => ~TeamCapability(call[c])
    /\ pc[c] = "ownerships" /\ call[c].op = "ids" =>
          found[c] = {t \in {TheTeam} : Access!findEntityOwnershipGroupsByUser(team, call[c].user, call[c].query)}

Pending(p) == \E d \in Two : pc[d] = "invalidate" /\ call[d].at = p

Busy == {"entity", "group", "roles", "teams", "ownerships", "joined"}
AccessInv ==
    /\ DOMAIN pc = Two /\ DOMAIN call = Two /\ DOMAIN found = Two /\ DOMAIN cached = Access!Requested
    /\ \A c \in Two : pc[c] \in Busy =>
          call[c] \in Access!Requested \/ (call[c].op = "grant" /\ pc[c] \in {"entity", "group"})
    /\ \A c \in Access!Loading :
           /\ pc[c] \in {"entity", "group", "roles"} => call[c].op = "check"
           /\ pc[c] = "teams" => call[c].op = "ids"
           /\ pc[c] = "ownerships" => call[c].op \in {"ids", "of team"}
    /\ \A c \in Access!Loading \ raced : Pending(call[c].at) \/ HasRead(c)
    /\ Access!AnswersAreCurrent

LEMMA RequestedOps == \A k \in Access!Requested : k.op \in {"check", "ids", "of team"}
<1> DEFINE Asked == {[at |-> p, op |-> op, user |-> u, query |-> q] :
                        p \in Processes, op \in Access!Asks, u \in Users, q \in Queries}
           OfTeam == {[at |-> p, op |-> "of team", user |-> None, query |-> Missing] : p \in Processes}
<1>1. Access!Requested = Asked \union OfTeam
  BY DEF Access!Requested
<1>2. \A k \in Asked : \E p \in Processes, op \in Access!Asks, u \in Users, q \in Queries :
                         k = [at |-> p, op |-> op, user |-> u, query |-> q]
  OBVIOUS
<1>3. \A k \in Asked : k.op \in Access!Asks
  BY <1>2
<1>4. \A k \in OfTeam : k.op = "of team"
  <2>1. TAKE k \in OfTeam
  <2>2. PICK p \in Processes : k = [at |-> p, op |-> "of team", user |-> None, query |-> Missing]
    OBVIOUS
  <2> QED BY <2>2
<1> HIDE DEF Asked, OfTeam
<1> QED BY <1>1, <1>3, <1>4 DEF Access!Asks

LEMMA AccessStarts == Access!Init => AccessInv
BY DEF Access!Init, AccessInv, Busy, Access!Loading, Access!AnswersAreCurrent

(* A load that ends with the current answer, unless it is excused.         *)
LEMMA SettledKeepsAccess ==
  ASSUME AccessInv, NEW c \in Access!Loading, NEW value, Access!Settled(c, value), value # "failed",
         \/ c \in raced \/ value = Access!Current(call[c])
         \/ Pending(call[c].at)
  PROVE  AccessInv'
<1>1. /\ c \in Two /\ call[c] \in Access!Requested /\ pc[c] \in Busy
      /\ call[c].op # "grant"
  BY RequestedOps DEF AccessInv, Access!Loading, Busy, Access!Asks
<1>2. /\ DOMAIN pc' = Two /\ DOMAIN call' = Two /\ DOMAIN found' = Two /\ DOMAIN cached' = Access!Requested
      /\ UNCHANGED <<owned, team>>
      /\ \A d \in Two : d \in Access!Waiting(c) \/ (pc'[d] = pc[d] /\ call'[d] = call[d] /\ found'[d] = found[d])
      /\ \A d \in Access!Waiting(c) : pc'[d] = "done"
      /\ cached' = [cached EXCEPT ![call[c]] = value]
      /\ excused' = IF c \in raced THEN excused \union {call[c]} ELSE excused \ {call[c]}
      /\ raced' = raced \ {c}
  BY <1>1 DEF Access!Settled, Access!Key, AccessInv, Access!Waiting
<1>3. \A d \in Access!Loading' : d \in Access!Loading /\ d \notin Access!Waiting(c) /\ d # c
  BY <1>2 DEF Access!Loading, Access!Waiting
<1>4. \A p : Pending(p) => Pending(p)'
  <2> SUFFICES ASSUME NEW d \in Two, pc[d] = "invalidate" PROVE d \notin Access!Waiting(c)
    BY <1>2 DEF Pending
  <2> QED BY <1>1 DEF Access!Waiting, Busy
<1>5. \A d \in Access!Loading' \ raced' : Pending(call[d].at)' \/ HasRead(d)'
  <2> SUFFICES ASSUME NEW d \in Access!Loading' \ raced', ~Pending(call[d].at)' PROVE HasRead(d)'
    OBVIOUS
  <2>1. d \in Access!Loading \ raced /\ d \in Two /\ pc'[d] = pc[d] /\ call'[d] = call[d] /\ found'[d] = found[d]
    BY <1>2, <1>3 DEF Access!Loading
  <2>2. ~Pending(call[d].at)
    BY <1>4, <2>1 DEF Pending
  <2>3. HasRead(d)
    BY <2>1, <2>2 DEF AccessInv
  <2> QED BY <1>2, <2>1, <2>3 DEF HasRead, OwnCapability, TeamCapability
<1>6. Access!AnswersAreCurrent'
  <2> SUFFICES ASSUME NEW k \in Access!Requested
               PROVE  \/ cached'[k] = "absent" \/ k \in excused' \/ cached'[k] = Access!Current(k)'
                      \/ Pending(k.at)'
    BY DEF Access!AnswersAreCurrent, Pending
  <2>0. Pending(k.at) => Pending(k.at)'
    BY <1>4
  <2>1. Access!Current(k)' = Access!Current(k)
    BY <1>2 DEF Access!Current
  <2>2. CASE k = call[c]
    BY <1>2, <2>0, <2>1, <2>2 DEF AccessInv
  <2>3. CASE k # call[c]
    BY <1>2, <2>0, <2>1, <2>3 DEF AccessInv, Access!AnswersAreCurrent, Pending
  <2> QED BY <2>2, <2>3
<1>7. \A d \in Two : pc'[d] \in Busy => pc'[d] = pc[d] /\ call'[d] = call[d]
  BY <1>2 DEF Busy
<1>8. \A d \in Access!Loading' : d \in Two /\ pc'[d] = pc[d] /\ call'[d] = call[d]
  BY <1>2, <1>3 DEF Access!Loading
<1>9. \A d \in Two : pc'[d] \in Busy =>
          call'[d] \in Access!Requested \/ (call'[d].op = "grant" /\ pc'[d] \in {"entity", "group"})
  <2> SUFFICES ASSUME NEW d \in Two, pc'[d] \in Busy
               PROVE  call'[d] \in Access!Requested \/ (call'[d].op = "grant" /\ pc'[d] \in {"entity", "group"})
    OBVIOUS
  <2>1. pc[d] \in Busy /\ pc'[d] = pc[d] /\ call'[d] = call[d]
    BY <1>7
  <2> QED BY <2>1 DEF AccessInv
<1>10. \A d \in Access!Loading' :
           /\ pc'[d] \in {"entity", "group", "roles"} => call'[d].op = "check"
           /\ pc'[d] = "teams" => call'[d].op = "ids"
           /\ pc'[d] = "ownerships" => call'[d].op \in {"ids", "of team"}
  BY <1>3, <1>8 DEF AccessInv
<1> QED BY <1>2, <1>5, <1>6, <1>9, <1>10 DEF AccessInv

(* A step that only takes a request on in its load or its grant.           *)
LEMMA GoesOnKeepsAccess ==
  ASSUME AccessInv, NEW c \in Two, NEW step, pc[c] # "invalidate",
         pc' = [pc EXCEPT ![c] = step], UNCHANGED <<owned, team, cached, raced, excused>>,
         \A d \in Two : d # c => call'[d] = call[d] /\ found'[d] = found[d],
         DOMAIN call' = Two, DOMAIN found' = Two,
         step \in Busy => call'[c] \in Access!Requested \/ (call'[c].op = "grant" /\ step \in {"entity", "group"}),
         c \in Access!Loading' =>
            /\ step \in {"entity", "group", "roles"} => call'[c].op = "check"
            /\ step = "teams" => call'[c].op = "ids"
            /\ step = "ownerships" => call'[c].op \in {"ids", "of team"}
            /\ c \notin raced => Pending(call'[c].at) \/ HasRead(c)'
  PROVE  AccessInv'
<1>1. pc'[c] = step /\ DOMAIN pc' = Two /\ \A d \in Two : d # c => pc'[d] = pc[d]
  BY DEF AccessInv
<1>2. \A d \in Access!Loading' : d # c => d \in Access!Loading
  BY <1>1 DEF Access!Loading
<1>3. \A p : Pending(p) => Pending(p)'
  BY <1>1 DEF Pending
<1>4. \A k \in Access!Requested : Access!Current(k)' = Access!Current(k)
  BY DEF Access!Current
<1>5. Access!AnswersAreCurrent'
  <2> SUFFICES ASSUME NEW k \in Access!Requested, cached[k] # "absent", k \notin excused,
                      cached[k] # Access!Current(k)
               PROVE  Pending(k.at)'
    BY <1>4 DEF Access!AnswersAreCurrent, Pending
  <2>1. Pending(k.at)
    BY DEF Access!AnswersAreCurrent, AccessInv, Pending
  <2> QED BY <1>3, <2>1
<1>6. \A d \in Access!Loading' \ raced' : Pending(call[d].at)' \/ HasRead(d)'
  <2> SUFFICES ASSUME NEW d \in Access!Loading' \ raced', ~Pending(call[d].at)' PROVE HasRead(d)'
    OBVIOUS
  <2>0. ~Pending(call'[d].at)
    BY <1>3 DEF Pending
  <2>1. CASE d = c
    BY <2>0, <2>1
  <2>2. CASE d # c
    <3>1. d \in Access!Loading \ raced /\ d \in Two /\ pc'[d] = pc[d] /\ call'[d] = call[d] /\ found'[d] = found[d]
      BY <1>1, <1>2, <2>2 DEF Access!Loading
    <3>2. HasRead(d)
      BY <2>0, <3>1 DEF AccessInv
    <3> QED BY <3>1, <3>2 DEF HasRead, OwnCapability, TeamCapability
  <2> QED BY <2>1, <2>2
<1>7. \A d \in Two : pc'[d] \in Busy =>
          call'[d] \in Access!Requested \/ (call'[d].op = "grant" /\ pc'[d] \in {"entity", "group"})
  BY <1>1 DEF AccessInv
<1>8. \A d \in Access!Loading' :
          /\ pc'[d] \in {"entity", "group", "roles"} => call'[d].op = "check"
          /\ pc'[d] = "teams" => call'[d].op = "ids"
          /\ pc'[d] = "ownerships" => call'[d].op \in {"ids", "of team"}
  <2> SUFFICES ASSUME NEW d \in Access!Loading', d # c
               PROVE  /\ pc'[d] \in {"entity", "group", "roles"} => call'[d].op = "check"
                      /\ pc'[d] = "teams" => call'[d].op = "ids"
                      /\ pc'[d] = "ownerships" => call'[d].op \in {"ids", "of team"}
    BY <1>1
  <2>1. d \in Access!Loading /\ d \in Two /\ pc'[d] = pc[d] /\ call'[d] = call[d]
    BY <1>1, <1>2 DEF Access!Loading
  <2> QED BY <2>1 DEF AccessInv
<1> QED BY <1>1, <1>5, <1>6, <1>7, <1>8 DEF AccessInv

(* A write of the ownership is one that is about to invalidate what its    *)
(* process has, and excuses what the others have.                           *)
LEMMA WroteKeepsAccess ==
  ASSUME AccessInv, NEW c \in Two, NEW o, Access!Wrote(c, o)
  PROVE  AccessInv'
<1>1. /\ pc'[c] = "invalidate" /\ DOMAIN pc' = Two /\ \A d \in Two : d # c => pc'[d] = pc[d]
      /\ UNCHANGED <<team, cached, call, found>>
      /\ excused' = excused \union {k \in Access!Requested : k.at # call[c].at /\ cached[k] # "absent"}
      /\ raced' = raced \union
            {d \in Access!Loading : call[d].at # call[c].at /\ pc[d] \in {"group", "roles"}}
  BY DEF Access!Wrote, AccessInv
<1>2. \A d \in Access!Loading' : d \in Access!Loading /\ d # c /\ d \in Two
  BY <1>1 DEF Access!Loading
<1>3. Access!AnswersAreCurrent'
  BY <1>1 DEF Access!AnswersAreCurrent
<1>4. \A d \in Two : pc'[d] \in Busy => pc'[d] = pc[d]
  BY <1>1 DEF Busy
<1>5. \A d \in Access!Loading' : pc'[d] = pc[d]
  BY <1>1, <1>2
<1>6. \A d \in Access!Loading' \ raced' : Pending(call[d].at)' \/ HasRead(d)'
  <2> SUFFICES ASSUME NEW d \in Access!Loading' \ raced', ~Pending(call[d].at)' PROVE HasRead(d)'
    OBVIOUS
  <2>1. d \in Access!Loading \ raced /\ d \in Two /\ d # c /\ pc'[d] = pc[d]
    BY <1>1, <1>2, <1>5
  <2>2. call[d].at # call[c].at
    BY <1>1 DEF Pending
  <2>3. pc[d] \notin {"group", "roles"}
    BY <1>1, <2>1, <2>2
  <2>4. Pending(call[d].at) => Pending(call[d].at)'
    <3> SUFFICES ASSUME NEW b \in Two, pc[b] = "invalidate", call[b].at = call[d].at
                 PROVE  Pending(call[d].at)'
      BY DEF Pending
    <3>1. b # c
      BY <2>2
    <3> QED BY <1>1, <3>1 DEF Pending
  <2>5. HasRead(d)
    BY <2>1, <2>4 DEF AccessInv
  <2> QED BY <1>1, <2>1, <2>3, <2>5 DEF HasRead
<1> QED BY <1>1, <1>2, <1>3, <1>4, <1>5, <1>6 DEF AccessInv

LEMMA AccessInductive == AccessInv /\ [Access!Next]_(Access!vars) => AccessInv'
<1> SUFFICES ASSUME AccessInv, [Access!Next]_(Access!vars) PROVE AccessInv'
  OBVIOUS
<1>1. CASE UNCHANGED Access!vars
  <2> USE <1>1 DEF Access!vars
  <2>1. /\ Access!Loading' = Access!Loading
        /\ \A c : HasRead(c)' = HasRead(c)
        /\ \A c \in Access!Loading : Pending(call[c].at)' = Pending(call[c].at)
    BY DEF Access!Loading, HasRead, OwnCapability, TeamCapability, Pending
  <2>2. \A k : Access!Current(k)' = Access!Current(k)
    BY DEF Access!Current
  <2>3. Access!AnswersAreCurrent' = Access!AnswersAreCurrent
    BY <2>2 DEF Access!AnswersAreCurrent
  <2> QED BY <2>1, <2>3 DEF AccessInv
<1>2. ASSUME NEW c \in Two, Access!Ask(c) PROVE AccessInv'
  <2>1. PICK k \in Access!Requested, step \in {"done", "joined", "entity", "teams", "ownerships"} :
           /\ pc[c] = "idle" /\ pc' = [pc EXCEPT ![c] = step]
           /\ call' = [call EXCEPT ![c] = IF cached[k] # "absent" THEN None ELSE k]
           /\ step # "done" => cached[k] = "absent"
           /\ step = "entity" => k.op = "check"
           /\ step = "teams" => k.op = "ids"
           /\ step = "ownerships" => k.op = "of team"
    <3>1. PICK k \in Access!Requested :
             /\ call' = [call EXCEPT ![c] = IF cached[k] # "absent" THEN None ELSE k]
             /\ \/ cached[k] # "absent" /\ pc' = [pc EXCEPT ![c] = "done"]
                \/ cached[k] = "absent" /\ pc' = [pc EXCEPT ![c] = "joined"]
                \/ /\ cached[k] = "absent"
                   /\ pc' = [pc EXCEPT ![c] = CASE k.op = "check" -> "entity"
                                                [] k.op = "ids" -> "teams"
                                                [] k.op = "of team" -> "ownerships"]
      BY <1>2 DEF Access!Ask
    <3>2. k.op = "check" \/ k.op = "ids" \/ k.op = "of team"
      BY RequestedOps
    <3>3. pc[c] = "idle"
      BY <1>2 DEF Access!Ask
    <3> QED BY <3>1, <3>2, <3>3
  <2>2. step # "done" => call'[c] = k
    BY <2>1 DEF AccessInv
  <2>3. c \in Access!Loading' => HasRead(c)'
    BY <2>1, <2>2 DEF HasRead, Access!Loading, AccessInv
  <2>4. /\ UNCHANGED <<owned, team, cached, found, raced, excused>> /\ pc'[c] = step
        /\ DOMAIN call' = Two /\ DOMAIN found' = Two /\ \A d \in Two : d # c => call'[d] = call[d]
    BY <1>2, <2>1 DEF Access!Ask, AccessInv
  <2>5. step \in Busy => call'[c] \in Access!Requested
    BY <2>1, <2>2 DEF Busy
  <2>6. /\ step \in {"entity", "group", "roles"} => call'[c].op = "check"
        /\ step = "teams" => call'[c].op = "ids"
        /\ step = "ownerships" => call'[c].op \in {"ids", "of team"}
    BY <2>1, <2>2
  <2> QED BY <2>1, <2>3, <2>4, <2>5, <2>6, GoesOnKeepsAccess
<1>3. ASSUME NEW c \in Two, Access!LookAtEntity(c) PROVE AccessInv'
  <2> DEFINE q == IF call[c].op = "grant" THEN Missing ELSE call[c].query
             own == owned # None /\ Access!findUserCapabilityInEntity(owned, call[c].user, q)
  <2>0. pc[c] = "entity" /\ (call[c].op = "check" => c \in Access!Loading)
        /\ (call[c].op # "grant" => call[c] \in Access!Requested)
    BY <1>3 DEF Access!LookAtEntity, Access!Loading, Access!Asks, AccessInv, Busy
  <2>1. CASE call[c].op = "check" /\ (owned = None \/ own) /\ Access!Settled(c, Access!Says(own))
    <3>1. own = (owned # None /\ OwnCapability(call[c]))
      BY <2>1 DEF OwnCapability
    <3>2. Access!Says(own) = Access!Current(call[c])
      BY <2>1, <3>1 DEF Access!Current, Access!Says, OwnCapability
    <3>3. Access!Says(own) # "failed"
      BY DEF Access!Says
    <3> HIDE DEF own
    <3> QED BY <2>0, <2>1, <3>2, <3>3, SettledKeepsAccess
  <2>2. CASE call[c].op = "grant" /\ Access!GoesTo(c, IF own THEN "update" ELSE "find again") /\ UNCHANGED found
    <3>1. PICK step \in {"update", "find again"} : Access!GoesTo(c, step)
      BY <2>2
    <3>2. /\ pc' = [pc EXCEPT ![c] = step] /\ UNCHANGED <<owned, team, cached, call, raced, excused, found>>
          /\ pc'[c] = step /\ pc'[c] \notin Busy
      BY <2>2, <3>1 DEF Access!GoesTo, AccessInv, Busy
    <3>3. c \notin Access!Loading'
      BY <3>2 DEF Access!Loading
    <3> QED BY <2>0, <3>2, <3>3, GoesOnKeepsAccess DEF AccessInv
  <2>3. CASE owned # None /\ ~own /\ found' = [found EXCEPT ![c] = owned] /\ Access!GoesTo(c, "group")
    <3>1. /\ pc' = [pc EXCEPT ![c] = "group"] /\ UNCHANGED <<owned, team, cached, call, raced, excused>>
          /\ found'[c] = owned /\ DOMAIN found' = Two /\ \A d \in Two : d # c => found'[d] = found[d]
      BY <2>3 DEF Access!GoesTo, AccessInv
    <3>2. ASSUME c \in Access!Loading' PROVE call[c].op = "check" /\ HasRead(c)'
      <4>1. c \in Access!Loading /\ call[c].op = "check"
        BY <2>0, <3>1, <3>2 DEF Access!Loading, AccessInv
      <4>2. ~OwnCapability(call[c])
        BY <2>3, <4>1 DEF OwnCapability
      <4> QED BY <2>3, <3>1, <4>1, <4>2 DEF HasRead, OwnCapability, AccessInv
    <3>3. call[c] \in Access!Requested \/ call[c].op = "grant"
      BY <2>0
    <3> QED BY <2>0, <3>1, <3>2, <3>3, GoesOnKeepsAccess DEF AccessInv, Busy
  <2> QED BY <1>3, <2>1, <2>2, <2>3 DEF Access!LookAtEntity
<1>4. ASSUME NEW c \in Two, Access!LookAtGroup(c) PROVE AccessInv'
  <2> DEFINE q == IF call[c].op = "grant" THEN Missing ELSE call[c].query
             ofTeam == found[c].team = TheTeam /\ Access!findUserCapabilityInGroup(team, call[c].user, q)
  <2>0. pc[c] = "group" /\ (call[c].op = "check" => c \in Access!Loading)
        /\ (call[c].op # "grant" => call[c] \in Access!Requested)
    BY <1>4 DEF Access!LookAtGroup, Access!Loading, Access!Asks, AccessInv, Busy
  <2>a. call[c].op = "check" /\ c \notin raced /\ ~Pending(call[c].at) =>
           /\ owned # None /\ found[c] = owned /\ ~OwnCapability(call[c])
           /\ ofTeam = TeamCapability(call[c])
    BY <2>0 DEF AccessInv, HasRead, TeamCapability
  <2>1. CASE call[c].op = "check" /\ ofTeam /\ Access!Settled(c, "yes")
    <3>1. c \notin raced /\ ~Pending(call[c].at) => "yes" = Access!Current(call[c])
      BY <2>1, <2>a DEF Access!Current, Access!Says, TeamCapability
    <3> QED BY <2>0, <2>1, <3>1, SettledKeepsAccess
  <2>2. CASE call[c].op = "check" /\ ~ofTeam /\ Access!GoesTo(c, "roles") /\ UNCHANGED found
    <3>1. /\ pc' = [pc EXCEPT ![c] = "roles"] /\ UNCHANGED <<owned, team, cached, call, raced, excused, found>>
          /\ pc'[c] = "roles"
      BY <2>2 DEF Access!GoesTo, AccessInv
    <3>2. c \notin raced => Pending(call[c].at) \/ HasRead(c)'
      BY <2>2, <2>a, <3>1 DEF HasRead, OwnCapability, TeamCapability
    <3> QED BY <2>0, <2>2, <3>1, <3>2, GoesOnKeepsAccess DEF AccessInv, Busy
  <2>3. CASE call[c].op = "grant" /\ Access!GoesTo(c, IF ofTeam THEN "update" ELSE "find again") /\ UNCHANGED found
    <3>1. PICK step \in {"update", "find again"} : Access!GoesTo(c, step)
      BY <2>3
    <3>2. /\ pc' = [pc EXCEPT ![c] = step] /\ UNCHANGED <<owned, team, cached, call, raced, excused, found>>
          /\ pc'[c] = step /\ pc'[c] \notin Busy
      BY <2>3, <3>1 DEF Access!GoesTo, AccessInv, Busy
    <3>3. c \notin Access!Loading'
      BY <3>2 DEF Access!Loading
    <3> QED BY <2>0, <3>2, <3>3, GoesOnKeepsAccess DEF AccessInv
  <2> QED BY <1>4, <2>1, <2>2, <2>3 DEF Access!LookAtGroup
<1>5. ASSUME NEW c \in Two, Access!LookAtRoles(c) PROVE AccessInv'
  <2> DEFINE g == IF found[c].team = TheTeam THEN team ELSE None
             value == Access!Says(Access!checkRoleOverride(Access!Overriders(found[c], g), call[c].user))
  <2>0. pc[c] = "roles" /\ call[c] \in Access!Requested
    BY <1>5 DEF Access!LookAtRoles, AccessInv, Busy
  <2>1. c \in Access!Loading /\ call[c].op = "check"
    BY <2>0, RequestedOps DEF Access!Loading, Access!Asks, AccessInv
  <2>2. value # "failed"
    BY DEF Access!Says
  <2>3. ASSUME c \notin raced, ~Pending(call[c].at) PROVE value = Access!Current(call[c])
    <3>1. owned # None /\ found[c] = owned /\ ~OwnCapability(call[c]) /\ ~TeamCapability(call[c])
      BY <2>0, <2>1, <2>3 DEF AccessInv, HasRead
    <3>2. ~Access!findUserCapabilityInGroup(IF owned.team = TheTeam THEN team ELSE None, call[c].user, call[c].query)
      BY <3>1 DEF TeamCapability, Access!findUserCapabilityInGroup
    <3> QED BY <2>1, <3>1, <3>2 DEF Access!Current, OwnCapability, Access!Says
  <2>4. Access!Settled(c, value)
    BY <1>5 DEF Access!LookAtRoles
  <2> HIDE DEF value
  <2> QED BY <2>1, <2>2, <2>3, <2>4, SettledKeepsAccess
<1>6. ASSUME NEW c \in Two, Access!FindTeams(c) PROVE AccessInv'
  <2>0. pc[c] = "teams" /\ call[c] \in Access!Requested
    BY <1>6 DEF Access!FindTeams, AccessInv, Busy
  <2>1. c \in Access!Loading /\ call[c].op = "ids"
    BY <2>0, RequestedOps DEF Access!Loading, Access!Asks, AccessInv
  <2>2. CASE Access!Settled(c, "failed")
    <3>1. /\ DOMAIN pc' = Two /\ DOMAIN call' = Two /\ DOMAIN found' = Two
          /\ UNCHANGED <<owned, team, cached, excused>> /\ raced' = raced \ {c}
          /\ \A d \in Two : d \in Access!Waiting(c) \/ (pc'[d] = pc[d] /\ call'[d] = call[d] /\ found'[d] = found[d])
          /\ \A d \in Access!Waiting(c) : pc'[d] = "done"
      BY <2>2 DEF Access!Settled, AccessInv, Access!Waiting
    <3>2. \A d \in Access!Loading' : d \in Access!Loading /\ d \notin Access!Waiting(c) /\ d # c /\ d \in Two
      BY <3>1 DEF Access!Loading, Access!Waiting
    <3>3. \A p : Pending(p) => Pending(p)'
      <4> SUFFICES ASSUME NEW d \in Two, pc[d] = "invalidate" PROVE d \notin Access!Waiting(c)
        BY <3>1 DEF Pending
      <4> QED BY <2>0 DEF Access!Waiting
    <3>4. Access!AnswersAreCurrent'
      <4>1. \A k \in Access!Requested : Access!Current(k)' = Access!Current(k)
        BY <3>1 DEF Access!Current
      <4> SUFFICES ASSUME NEW k \in Access!Requested, cached[k] # "absent", k \notin excused,
                          cached[k] # Access!Current(k)
                   PROVE  Pending(k.at)'
        BY <3>1, <4>1 DEF Access!AnswersAreCurrent, Pending
      <4>2. Pending(k.at)
        BY DEF Access!AnswersAreCurrent, AccessInv, Pending
      <4> QED BY <3>3, <4>2
    <3>5. \A d \in Access!Loading' \ raced' : Pending(call[d].at)' \/ HasRead(d)'
      <4> SUFFICES ASSUME NEW d \in Access!Loading' \ raced', ~Pending(call[d].at)' PROVE HasRead(d)'
        OBVIOUS
      <4>1. d \in Access!Loading \ raced /\ pc'[d] = pc[d] /\ call'[d] = call[d] /\ found'[d] = found[d]
        BY <3>1, <3>2
      <4>2. ~Pending(call[d].at)
        BY <3>3, <4>1 DEF Pending
      <4>3. HasRead(d)
        BY <4>1, <4>2 DEF AccessInv
      <4> QED BY <3>1, <4>1, <4>3 DEF HasRead, OwnCapability, TeamCapability
    <3>6. \A d \in Two : pc'[d] \in Busy => pc'[d] = pc[d] /\ call'[d] = call[d]
      BY <3>1 DEF Busy
    <3>7. \A d \in Access!Loading' : pc'[d] = pc[d] /\ call'[d] = call[d]
      BY <3>1, <3>2
    <3> QED BY <3>1, <3>2, <3>4, <3>5, <3>6, <3>7 DEF AccessInv
  <2>3. CASE /\ found' = [found EXCEPT ![c] =
                    IF Access!findEntityOwnershipGroupsByUser(team, call[c].user, call[c].query)
                    THEN {TheTeam} ELSE {}]
             /\ Access!GoesTo(c, "ownerships")
    <3>1. /\ pc' = [pc EXCEPT ![c] = "ownerships"] /\ UNCHANGED <<owned, team, cached, call, raced, excused>>
          /\ DOMAIN found' = Two /\ \A d \in Two : d # c => found'[d] = found[d]
          /\ found'[c] = {t \in {TheTeam} : Access!findEntityOwnershipGroupsByUser(team, call[c].user, call[c].query)}
      BY <2>3 DEF Access!GoesTo, AccessInv
    <3>2. HasRead(c)'
      BY <3>1 DEF HasRead, AccessInv
    <3> QED BY <2>0, <2>1, <3>1, <3>2, GoesOnKeepsAccess DEF AccessInv, Busy
  <2> QED BY <1>6, <2>2, <2>3 DEF Access!FindTeams
<1>7. ASSUME NEW c \in Two, Access!FindOwnerships(c) PROVE AccessInv'
  <2> DEFINE value == Access!Says(IF call[c].op = "of team"
                           THEN owned # None /\ owned.team = TheTeam
                           ELSE Access!searchByUserRaw(owned, found[c], call[c].user, call[c].query))
  <2>0. pc[c] = "ownerships" /\ call[c] \in Access!Requested
    BY <1>7 DEF Access!FindOwnerships, AccessInv, Busy
  <2>1. c \in Access!Loading /\ call[c].op \in {"ids", "of team"}
    BY <2>0, RequestedOps DEF Access!Loading, Access!Asks, AccessInv
  <2>2. value # "failed"
    BY DEF Access!Says
  <2>3. ASSUME c \notin raced, ~Pending(call[c].at) PROVE value = Access!Current(call[c])
    <3>1. HasRead(c)
      BY <2>1, <2>3 DEF AccessInv
    <3>2. CASE call[c].op = "ids"
      BY <2>0, <3>1, <3>2 DEF Access!Current, HasRead
    <3>3. CASE call[c].op = "of team"
      BY <3>3 DEF Access!Current
    <3> QED BY <2>1, <3>2, <3>3
  <2>4. Access!Settled(c, value)
    BY <1>7 DEF Access!FindOwnerships
  <2> HIDE DEF value
  <2> QED BY <2>1, <2>2, <2>3, <2>4, SettledKeepsAccess
<1>8. ASSUME NEW c \in Two, Access!Write(c) PROVE AccessInv'
  <2>1. PICK p \in Processes, op \in Access!Writes, u \in Users, caps \in Grants :
           /\ pc[c] = "idle"
           /\ call' = [call EXCEPT ![c] = [at |-> p, op |-> op, user |-> u, capabilities |-> caps]]
           /\ pc' = [pc EXCEPT ![c] = IF op = "grant" THEN "entity" ELSE "write"]
    BY <1>8 DEF Access!Write
  <2>2. PICK step \in {"entity", "write"} : step = IF op = "grant" THEN "entity" ELSE "write"
    OBVIOUS
  <2>3. call'[c].op = op
    BY <2>1 DEF AccessInv
  <2>4. pc'[c] = step /\ op \in {"grant", "remove", "delete"}
    BY <2>1, <2>2 DEF AccessInv, Access!Writes
  <2>5. c \notin Access!Loading'
    BY <2>3, <2>4 DEF Access!Loading, Access!Asks
  <2> QED BY <1>8, <2>1, <2>2, <2>3, <2>5, GoesOnKeepsAccess DEF Access!Write, AccessInv, Busy
<1>9. ASSUME NEW c \in Two, Access!Update(c) \/ Access!RemoveOrDelete(c) PROVE AccessInv'
  BY <1>9, WroteKeepsAccess DEF Access!Update, Access!RemoveOrDelete
<1>10. ASSUME NEW c \in Two, Access!FindAgain(c) PROVE AccessInv'
  <2>1. PICK step \in {"invalidate", "push"} : step = IF owned = None THEN "invalidate" ELSE "push"
    OBVIOUS
  <2>2. pc[c] = "find again" /\ Access!GoesTo(c, step) /\ UNCHANGED found
    BY <1>10, <2>1 DEF Access!FindAgain
  <2> QED BY <2>1, <2>2, GoesOnKeepsAccess DEF Access!GoesTo, AccessInv, Busy, Access!Loading
<1>11. ASSUME NEW c \in Two, Access!Push(c) PROVE AccessInv'
  <2>1. CASE owned = None
    <3>1. pc[c] = "push" /\ pc' = [pc EXCEPT ![c] = "done"] /\ call' = [call EXCEPT ![c] = None]
          /\ UNCHANGED <<owned, team, cached, found, raced, excused>>
      BY <1>11, <2>1 DEF Access!Push
    <3> QED BY <3>1, GoesOnKeepsAccess DEF AccessInv, Busy, Access!Loading
  <2>2. CASE owned # None
    BY <1>11, <2>2, WroteKeepsAccess DEF Access!Push
  <2> QED BY <2>1, <2>2
<1>12. ASSUME NEW c \in Two, Access!Invalidate(c) PROVE AccessInv'
  <2>1. /\ pc[c] = "invalidate" /\ pc'[c] = "done"
        /\ DOMAIN pc' = Two /\ DOMAIN call' = Two /\ DOMAIN found' = Two
        /\ \A d \in Two : d # c => pc'[d] = pc[d] /\ call'[d] = call[d] /\ found'[d] = found[d]
        /\ DOMAIN cached' = Access!Requested
        /\ \A k \in Access!Requested : cached'[k] = IF k.at = call[c].at THEN "absent" ELSE cached[k]
        /\ \A k \in Access!Requested : k.at # call[c].at => (k \in excused' <=> k \in excused)
        /\ raced' = raced \union {d \in Access!Loading : call[d].at = call[c].at}
        /\ UNCHANGED <<owned, team>>
    BY <1>12 DEF Access!Invalidate, Access!Invalidated, Access!Matching, AccessInv
  <2>2. \A d \in Access!Loading' : d \in Access!Loading /\ d # c /\ d \in Two
    BY <2>1 DEF Access!Loading
  <2>3. \A p : p # call[c].at /\ Pending(p) => Pending(p)'
    <3> SUFFICES ASSUME NEW b \in Two, pc[b] = "invalidate", call[b].at # call[c].at
                 PROVE  pc'[b] = "invalidate" /\ call'[b] = call[b]
      BY DEF Pending
    <3>1. b # c
      OBVIOUS
    <3> QED BY <2>1, <3>1
  <2>4. Access!AnswersAreCurrent'
    <3> SUFFICES ASSUME NEW k \in Access!Requested, cached'[k] # "absent", k \notin excused',
                        cached'[k] # Access!Current(k)'
                 PROVE  Pending(k.at)'
      BY DEF Access!AnswersAreCurrent, Pending
    <3>1. k.at # call[c].at /\ cached'[k] = cached[k] /\ k \notin excused
      BY <2>1
    <3>2. Access!Current(k)' = Access!Current(k)
      BY <2>1 DEF Access!Current
    <3>3. Pending(k.at)
      BY <3>1, <3>2 DEF Access!AnswersAreCurrent, AccessInv, Pending
    <3> QED BY <2>3, <3>1, <3>3
  <2>5. \A d \in Two : pc'[d] \in Busy => pc'[d] = pc[d] /\ call'[d] = call[d]
    BY <2>1 DEF Busy
  <2>6. \A d \in Access!Loading' : pc'[d] = pc[d] /\ call'[d] = call[d] /\ found'[d] = found[d]
    BY <2>1, <2>2
  <2>7. \A d \in Access!Loading' \ raced' : Pending(call[d].at)' \/ HasRead(d)'
    <3> SUFFICES ASSUME NEW d \in Access!Loading' \ raced', ~Pending(call[d].at)' PROVE HasRead(d)'
      OBVIOUS
    <3>1. d \in Access!Loading \ raced /\ call[d].at # call[c].at
      BY <2>1, <2>2
    <3>2. ~Pending(call[d].at)
      BY <2>3, <2>6, <3>1 DEF Pending
    <3>3. HasRead(d)
      BY <3>1, <3>2 DEF AccessInv
    <3> QED BY <2>1, <2>6, <3>3 DEF HasRead, OwnCapability, TeamCapability
  <2>8. \A d \in Two : pc'[d] \in Busy =>
            call'[d] \in Access!Requested \/ (call'[d].op = "grant" /\ pc'[d] \in {"entity", "group"})
    <3> SUFFICES ASSUME NEW d \in Two, pc'[d] \in Busy
                 PROVE  call'[d] \in Access!Requested \/ (call'[d].op = "grant" /\ pc'[d] \in {"entity", "group"})
      OBVIOUS
    <3>1. pc[d] \in Busy /\ pc'[d] = pc[d] /\ call'[d] = call[d]
      BY <2>5
    <3> QED BY <3>1 DEF AccessInv
  <2>9. \A d \in Access!Loading' :
            /\ pc'[d] \in {"entity", "group", "roles"} => call'[d].op = "check"
            /\ pc'[d] = "teams" => call'[d].op = "ids"
            /\ pc'[d] = "ownerships" => call'[d].op \in {"ids", "of team"}
    BY <2>2, <2>6 DEF AccessInv
  <2> QED BY <2>1, <2>4, <2>7, <2>8, <2>9 DEF AccessInv
<1>13. CASE Access!TeamChanges
  <2>1. Access!Loading' = Access!Loading
    BY <1>13 DEF Access!TeamChanges, Access!Loading
  <2>2. Access!AnswersAreCurrent'
    BY <1>13 DEF Access!TeamChanges, Access!AnswersAreCurrent
  <2> QED BY <1>13, <2>1, <2>2 DEF Access!TeamChanges, AccessInv
<1>14. ASSUME NEW k \in Access!Requested, Access!Expires(k) PROVE AccessInv'
  <2>1. /\ cached' = [cached EXCEPT ![k] = "absent"] /\ excused' = excused \ {k}
        /\ UNCHANGED <<owned, team, pc, call, found, raced>>
    BY <1>14 DEF Access!Expires
  <2>2. \A j \in Access!Requested : Access!Current(j)' = Access!Current(j)
    BY <2>1 DEF Access!Current
  <2>3. Access!AnswersAreCurrent'
    BY <2>1, <2>2 DEF Access!AnswersAreCurrent, AccessInv
  <2>4. /\ Access!Loading' = Access!Loading
        /\ \A c \in Access!Loading : HasRead(c) => HasRead(c)'
        /\ \A c \in Access!Loading : Pending(call[c].at) => Pending(call[c].at)'
    BY <2>1 DEF Access!Loading, HasRead, OwnCapability, TeamCapability, Pending
  <2> QED BY <2>1, <2>3, <2>4 DEF AccessInv
<1> QED BY <1>1, <1>2, <1>3, <1>4, <1>5, <1>6, <1>7, <1>8, <1>9, <1>10, <1>11, <1>12, <1>13, <1>14 DEF Access!Next, Access!Step

(* What the operators say: a search offers what a check finds.             *)
LEMMA SearchOffers == Access!SearchFindsAccess
<1> SUFFICES ASSUME owned # None, NEW u \in Users, NEW q \in Access!Answerable,
                    \/ Access!findUserCapabilityInEntity(owned, u, q)
                    \/ owned.team = TheTeam /\ Access!findUserCapabilityInGroup(team, u, q)
             PROVE  Access!Current([op |-> "ids", user |-> u, query |-> q]) = "yes"
  BY DEF Access!SearchFindsAccess
<1> DEFINE teams == {t \in {TheTeam} : Access!findEntityOwnershipGroupsByUser(team, u, q)}
<1>1. Access!Current([op |-> "ids", user |-> u, query |-> q]) = Access!Says(Access!searchByUserRaw(owned, teams, u, q))
  BY DEF Access!Current
<1>2. \A capabilities : Access!hasCapabilityFromInnerArray(capabilities, q) => Access!Offers(capabilities, q)
  BY DEF Access!hasCapabilityFromInnerArray, Access!Offers, Access!Answerable
<1>3. Access!searchByUserRaw(owned, teams, u, q)
  <2>1. CASE Access!findUserCapabilityInEntity(owned, u, q)
    BY <1>2, <2>1 DEF Access!findUserCapabilityInEntity, Access!searchByUserRaw
  <2>2. CASE owned.team = TheTeam /\ Access!findUserCapabilityInGroup(team, u, q)
    <3>1. Access!findEntityOwnershipGroupsByUser(team, u, q)
      BY <1>2, <2>2 DEF Access!findUserCapabilityInGroup, Access!findEntityOwnershipGroupsByUser
    <3> QED BY <2>2, <3>1 DEF Access!searchByUserRaw
  <2> QED BY <2>1, <2>2
<1> QED BY <1>1, <1>3 DEF Access!Says

-----------------------------------------------------------------------------
(* TeamMigration.  A version of the team stands for its members: what was  *)
(* read at the version that the team has is what it holds.  Once one       *)
(* replica is through, nothing puts a string back.                         *)
MemberFields == {"user", "role", "capabilities", "entityRole", "entity"}

ReadAt(seen) ==
    /\ seen.version \in Nat /\ seen.version <= version
    /\ seen.version = version /\ team # None => seen.members = team

MigrationInv ==
    /\ version \in Nat
    /\ DOMAIN pc = Two /\ DOMAIN groups = Two /\ DOMAIN invites = Two /\ DOMAIN request = Two
    /\ team # None => \A m \in team : DOMAIN m = MemberFields
    /\ invite # None => "capabilities" \in DOMAIN invite
    /\ \A p \in Two :
          /\ Migration!Saving(p) =>
                 /\ ReadAt(groups[p])
                 /\ \A m \in groups[p].members : DOMAIN m = MemberFields
          /\ request[p].at \in {"update", "remove"} => ReadAt(request[p])
          /\ request[p].at \in {"add", "accept"} =>
                DOMAIN request[p].member = MemberFields /\ ~Migration!Legacy(request[p].member)
          /\ pc[p] = "up" => groups[p].at = "end" /\ invites[p].at = "end"
    /\ (\E p \in Two : groups[p].at = "end") => (team # None => \A m \in team : ~Migration!Legacy(m))
    /\ (\E p \in Two : invites[p].at = "end") =>
          (invite # None /\ invite.role # None => invite.capabilities = Migrated[invite.role])

LEMMA MigrationStarts == Migration!Init => MigrationInv
BY TeamsBefore DEF Migration!Init, MigrationInv, Migration!Nothing, Migration!Saving, MemberFields

(* What a save of the migration, and what an update makes of a member.     *)
LEMMA ConvertedMember ==
  ASSUME NEW m, DOMAIN m = MemberFields
  PROVE  DOMAIN Migration!Converted(m) = MemberFields /\ ~Migration!Legacy(Migration!Converted(m))
BY DEF Migration!Converted, Migration!Legacy, MemberFields

LEMMA UpdatedMembers ==
  ASSUME NEW r, \A m \in r.members : DOMAIN m = MemberFields,
         NEW n \in Migration!Others(r) \union Migration!Updated(r)
  PROVE  /\ DOMAIN n = MemberFields
         /\ (\A m \in r.members : ~Migration!Legacy(m)) => ~Migration!Legacy(n)
<1>1. CASE n \in Migration!Others(r)
  BY <1>1 DEF Migration!Others
<1>2. CASE n \in Migration!Updated(r)
  <2>1. PICK m \in r.members :
           n = [m EXCEPT !.capabilities = r.member.capabilities, !.entity = r.member.entity, !.entityRole = None]
    BY <1>2 DEF Migration!Updated
  <2>2. DOMAIN m = MemberFields
    BY <2>1
  <2>3. DOMAIN n = MemberFields /\ n.entityRole = None /\ n.role = m.role
    BY <2>1, <2>2 DEF MemberFields
  <2> QED BY <2>3 DEF Migration!Legacy
<1> QED BY <1>1, <1>2

LEMMA MigrationInductive == MigrationInv /\ [Migration!Next]_(Migration!vars) => MigrationInv'
<1> SUFFICES ASSUME MigrationInv, [Migration!Next]_(Migration!vars) PROVE MigrationInv'
  OBVIOUS
<1> USE DEF MigrationInv
<1>1. CASE UNCHANGED Migration!vars
  BY <1>1 DEF Migration!vars, ReadAt, Migration!Saving
<1>2. ASSUME NEW p \in Two, Migration!StartReplica(p) PROVE MigrationInv'
  BY <1>2 DEF Migration!StartReplica, Migration!At, ReadAt, Migration!Saving
<1>3. ASSUME NEW p \in Two, Migration!Dies(p) PROVE MigrationInv'
  BY <1>3 DEF Migration!Dies, Migration!Stopped, Migration!Nothing, ReadAt, Migration!Saving
<1>4. ASSUME NEW p \in Two, Migration!FindGroups(p) PROVE MigrationInv'
  <2>1. CASE team # None /\ \E m \in team : Migration!Legacy(m)
    BY <1>4, <2>1 DEF Migration!FindGroups, ReadAt, Migration!Saving
  <2>2. CASE ~(team # None /\ \E m \in team : Migration!Legacy(m))
    BY <1>4, <2>2 DEF Migration!FindGroups, Migration!At, ReadAt, Migration!Saving
  <2> QED BY <2>1, <2>2
<1>5. ASSUME NEW p \in Two, Migration!SaveGroup(p) PROVE MigrationInv'
  <2>1. CASE Migration!Unchanged(groups[p])
    <3>1. /\ team' = {Migration!Converted(m) : m \in groups[p].members} /\ version' = version + 1
          /\ groups' = [groups EXCEPT ![p] = Migration!At("end")]
          /\ UNCHANGED <<pc, invites, request, invite>>
          /\ Migration!Saving(p)
      BY <1>5, <2>1 DEF Migration!SaveGroup
    <3>2. \A n \in team' : DOMAIN n = MemberFields /\ ~Migration!Legacy(n)
      <4> SUFFICES ASSUME NEW n \in team' PROVE DOMAIN n = MemberFields /\ ~Migration!Legacy(n)
        OBVIOUS
      <4>1. PICK m \in groups[p].members : n = Migration!Converted(m)
        BY <3>1
      <4> QED BY <3>1, <4>1, ConvertedMember
    <3>3. \A r : ReadAt(r) => (ReadAt(r))'
      BY <3>1 DEF ReadAt
    <3> QED BY <3>1, <3>2, <3>3 DEF Migration!At, Migration!Saving, ReadAt
  <2>2. CASE ~Migration!Unchanged(groups[p])
    BY <1>5, <2>2 DEF Migration!SaveGroup, Migration!Stopped, Migration!Nothing, ReadAt, Migration!Saving
  <2> QED BY <2>1, <2>2
<1>6. ASSUME NEW p \in Two, Migration!FindInvites(p) PROVE MigrationInv'
  <2>1. CASE invite # None /\ invite.role # None /\ invite.capabilities # Migrated[invite.role]
    BY <1>6, <2>1 DEF Migration!FindInvites, ReadAt, Migration!Saving
  <2>2. CASE ~(invite # None /\ invite.role # None /\ invite.capabilities # Migrated[invite.role])
    BY <1>6, <2>2 DEF Migration!FindInvites, Migration!At, ReadAt, Migration!Saving
  <2> QED BY <2>1, <2>2
<1>7. ASSUME NEW p \in Two, Migration!SaveInvite(p) PROVE MigrationInv'
  <2>1. CASE invite # None /\ inviteVersion = invites[p].version
    <3>1. /\ invite' = [invite EXCEPT !.capabilities = Migrated[invite.role]]
          /\ invites' = [invites EXCEPT ![p] = Migration!At("end")]
          /\ UNCHANGED <<pc, groups, request, team, version>>
      BY <1>7, <2>1 DEF Migration!SaveInvite
    <3>2. "capabilities" \in DOMAIN invite' /\ invite'.capabilities = Migrated[invite'.role]
      BY <2>1, <3>1
    <3> QED BY <3>1, <3>2 DEF Migration!At, ReadAt, Migration!Saving
  <2>2. CASE ~(invite # None /\ inviteVersion = invites[p].version)
    BY <1>7, <2>2 DEF Migration!SaveInvite, Migration!Stopped, Migration!Nothing, ReadAt, Migration!Saving
  <2> QED BY <2>1, <2>2
<1>8. ASSUME NEW p \in Two, Migration!Serves(p) PROVE MigrationInv'
  BY <1>8 DEF Migration!Serves, ReadAt, Migration!Saving
<1>9. ASSUME NEW p \in Two, Migration!Read(p) PROVE MigrationInv'
  <2>1. PICK op \in {"add", "remove", "update"}, u \in Users, grant \in Grants :
           /\ op = "add" <=> \A m \in team : m.user # u
           /\ request' = [request EXCEPT ![p] =
                 [at |-> op, member |-> Migration!Member(u, grant), members |-> team, version |-> version]]
    BY <1>9 DEF Migration!Read
  <2>2. DOMAIN Migration!Member(u, grant) = MemberFields /\ ~Migration!Legacy(Migration!Member(u, grant))
    BY DEF Migration!Member, MemberFields, Migration!Legacy
  <2> QED BY <1>9, <2>1, <2>2 DEF Migration!Read, ReadAt, Migration!Saving
<1>10. ASSUME NEW p \in Two, Migration!Accept(p) PROVE MigrationInv'
  <2> DEFINE new == [Migration!Member(invite.user, invite.capabilities) EXCEPT !.entity = invite.entity]
  <2>1. DOMAIN new = MemberFields /\ ~Migration!Legacy(new)
    BY DEF Migration!Member, MemberFields, Migration!Legacy
  <2> HIDE DEF new
  <2>2. CASE request' = [request EXCEPT ![p] = Migration!At("consume")]
    BY <1>10, <2>2 DEF Migration!Accept, Migration!At, ReadAt, Migration!Saving
  <2>3. CASE request' = [request EXCEPT ![p] =
                           [at |-> "accept", members |-> team, version |-> version, member |-> new]]
    BY <1>10, <2>1, <2>3 DEF Migration!Accept, ReadAt, Migration!Saving
  <2> QED BY <1>10, <2>2, <2>3 DEF Migration!Accept, new
<1>11. ASSUME NEW p \in Two, Migration!Consume(p) PROVE MigrationInv'
  BY <1>11 DEF Migration!Consume, Migration!Nothing, ReadAt, Migration!Saving
<1>12. ASSUME NEW p \in Two, Migration!Write(p) PROVE MigrationInv'
  <2> DEFINE r == request[p]
  <2>0. /\ r.at \in {"add", "accept", "update", "remove"} /\ UNCHANGED <<invite, pc, groups, invites>>
        /\ Migration!Answered(p, r)
    BY <1>12 DEF Migration!Write
  <2>1. /\ DOMAIN request' = Two /\ request'[p].at \in {"consume", "none"}
        /\ \A q \in Two : q # p => request'[q] = request[q]
    <3>1. \/ request' = [request EXCEPT ![p] = Migration!At("consume")]
          \/ request' = [request EXCEPT ![p] = Migration!Nothing]
      BY <2>0 DEF Migration!Answered
    <3> QED BY <3>1 DEF Migration!At, Migration!Nothing
  <2>2. CASE r.at \in {"add", "accept"} /\ team # None /\ team' = team \union {r.member} /\ version' = version + 1
    <3>1. \A n : ReadAt(n) => (ReadAt(n))'
      BY <2>2 DEF ReadAt
    <3>2. \A m \in team' : /\ DOMAIN m = MemberFields
                           /\ (\A n \in team : ~Migration!Legacy(n)) => ~Migration!Legacy(m)
      BY <2>2
    <3> QED BY <2>0, <2>1, <2>2, <3>1, <3>2 DEF Migration!Saving, ReadAt
  <2>3. CASE /\ r.at \in {"update", "remove"} /\ Migration!Unchanged(r) /\ version' = version + 1
             /\ team' = Migration!Others(r) \union (IF r.at = "remove" THEN {} ELSE Migration!Updated(r))
    <3>1. \A n : ReadAt(n) => (ReadAt(n))'
      BY <2>3 DEF ReadAt
    <3>2. team # None /\ r.members = team
      BY <2>3 DEF Migration!Unchanged, ReadAt
    <3>3. \A m \in team' : /\ DOMAIN m = MemberFields
                           /\ (\A n \in team : ~Migration!Legacy(n)) => ~Migration!Legacy(m)
      <4> SUFFICES ASSUME NEW m \in team' PROVE DOMAIN m = MemberFields /\ ((\A n \in team : ~Migration!Legacy(n)) => ~Migration!Legacy(m))
        OBVIOUS
      <4>1. m \in Migration!Others(r) \union Migration!Updated(r)
        BY <2>3
      <4>2. \A n \in r.members : DOMAIN n = MemberFields
        BY <3>2
      <4> QED BY <3>2, <4>1, <4>2, UpdatedMembers
    <3> QED BY <2>0, <2>1, <2>3, <3>1, <3>2, <3>3 DEF Migration!Saving, ReadAt
  <2>4. CASE UNCHANGED <<team, version>>
    BY <2>0, <2>1, <2>4 DEF Migration!Saving, ReadAt
  <2> QED BY <1>12, <2>2, <2>3, <2>4 DEF Migration!Write
<1>13. ASSUME NEW p \in Two, Migration!RemoveInvite(p) PROVE MigrationInv'
  BY <1>13 DEF Migration!RemoveInvite, ReadAt, Migration!Saving
<1>14. ASSUME NEW p \in Two, Migration!DeleteGroup(p) PROVE MigrationInv'
  BY <1>14 DEF Migration!DeleteGroup, ReadAt, Migration!Saving
<1> QED BY <1>1, <1>2, <1>3, <1>4, <1>5, <1>6, <1>7, <1>8, <1>9, <1>10, <1>11, <1>12, <1>13, <1>14 DEF Migration!Next

LEMMA MigrationFollows == MigrationInv /\ MigrationInv' /\ Migration!Next => Migration!MigrationHolds
<1> SUFFICES ASSUME MigrationInv, MigrationInv', Migration!Next PROVE Migration!MigrationHolds
  OBVIOUS
<1>1. Migration!ServedIsMigrated' /\ Migration!InviteIsMigrated'
  BY DEF MigrationInv, Migration!ServedIsMigrated, Migration!InviteIsMigrated
<1>2. ASSUME NEW p \in Two, Migration!Saving(p), groups'[p].at = "end"
      PROVE  team' = {Migration!Converted(m) : m \in team}
  <2>1. groups'[p] # groups[p]
    BY <1>2 DEF Migration!Saving
  <2>2. \A q \in Two : (Migration!StartReplica(q) \/ Migration!Dies(q) \/ Migration!FindGroups(q) \/ Migration!SaveGroup(q)) => groups' = [groups EXCEPT ![q] = groups'[q]]
    BY DEF Migration!StartReplica, Migration!Dies, Migration!Stopped, Migration!FindGroups, Migration!SaveGroup, MigrationInv
  <2>3. Migration!StartReplica(p) \/ Migration!Dies(p) \/ Migration!FindGroups(p) \/ Migration!SaveGroup(p)
    <3>1. PICK q \in Two : Migration!StartReplica(q) \/ Migration!Dies(q) \/ Migration!FindGroups(q) \/ Migration!SaveGroup(q) \/ Migration!SaveInvite(q)
      BY <2>1 DEF Migration!Next, Migration!FindInvites, Migration!Serves, Migration!Read, Migration!Accept, Migration!Consume, Migration!Write, Migration!RemoveInvite, Migration!DeleteGroup
    <3>2. CASE Migration!SaveInvite(q)
      <4>1. groups' = groups \/ groups' = [groups EXCEPT ![q] = Migration!Nothing]
        BY <3>2 DEF Migration!SaveInvite, Migration!Stopped
      <4>2. groups'[p] = groups[p] \/ groups'[p] = Migration!Nothing
        BY <4>1 DEF MigrationInv
      <4> QED BY <1>2, <2>1, <4>2 DEF Migration!Nothing
    <3>3. CASE q # p
      BY <2>1, <2>2, <3>1, <3>2, <3>3 DEF MigrationInv
    <3> QED BY <3>1, <3>2, <3>3
  <2>4. Migration!SaveGroup(p) /\ Migration!Unchanged(groups[p])
    BY <1>2, <2>3 DEF Migration!StartReplica, Migration!Dies, Migration!FindGroups, Migration!SaveGroup, Migration!Stopped, Migration!At, Migration!Nothing, Migration!Saving, MigrationInv
  <2>5. groups[p].members = team
    BY <1>2, <2>4 DEF Migration!Unchanged, MigrationInv, ReadAt
  <2> QED BY <2>4, <2>5 DEF Migration!SaveGroup
<1> QED BY <1>1, <1>2 DEF Migration!MigrationHolds, Migration!MigrationKeepsChanges

-----------------------------------------------------------------------------
(* LibraryBuild.  The order of the libraries exists, whatever they import: *)
(* the place of one is the number of those that come before it.            *)
LEMMA OneToOneIsOnto ==
  ASSUME NEW S, NEW T, IsFiniteSet(S), IsFiniteSet(T), Cardinality(S) = Cardinality(T),
         NEW f \in [S -> T], \A x, y \in S : f[x] = f[y] => x = y, NEW t \in T
  PROVE  \E x \in S : f[x] = t
<1> SUFFICES ASSUME \A x \in S : f[x] # t PROVE FALSE
  OBVIOUS
<1>1. f \in [S -> T \ {t}]
  OBVIOUS
<1>2. /\ IsFiniteSet(T \ {t}) /\ Cardinality(T \ {t}) = Cardinality(T) - 1 /\ Cardinality(T) \in Nat
  BY FS_RemoveElement, FS_CardinalityType
<1>3. \E x, y \in S : x # y /\ f[x] = f[y]
  BY <1>1, <1>2, FS_PigeonHole
<1> QED BY <1>3

Distinct(s) == \A i, j \in DOMAIN s : s[i] = s[j] => i = j

LEMMA LoadedAreMany ==
  ASSUME children \in Seq(LibraryNames), Distinct(children)
  PROVE  /\ Len(children) \in Nat /\ IsFiniteSet(1 .. Len(children))
         /\ Cardinality(1 .. Len(children)) = Len(children)
         /\ Libraries!Loaded \subseteq LibraryNames /\ IsFiniteSet(Libraries!Loaded) /\ Cardinality(Libraries!Loaded) = Len(children)
         /\ \A l \in Libraries!Loaded : Libraries!Position(l) \in 1 .. Len(children) /\ children[Libraries!Position(l)] = l
         /\ \A i \in 1 .. Len(children) : children[i] \in Libraries!Loaded /\ Libraries!Position(children[i]) = i
<1>1. /\ DOMAIN children = 1 .. Len(children) /\ Len(children) \in Nat
      /\ \A i \in 1 .. Len(children) : children[i] \in LibraryNames
  OBVIOUS
<1>2. IsFiniteSet(1 .. Len(children)) /\ Cardinality(1 .. Len(children)) = Len(children)
  <2>1. \A n \in Nat : IsFiniteSet(1 .. n) /\ Cardinality(1 .. n) = n
    BY FS_Interval
  <2> QED BY <1>1, <2>1
<1>3. \A l \in Libraries!Loaded : Libraries!Position(l) \in DOMAIN children /\ children[Libraries!Position(l)] = l
  BY DEF Libraries!Loaded, Libraries!Elements, Libraries!Position
<1>4. \A i \in DOMAIN children : children[i] \in Libraries!Loaded /\ Libraries!Position(children[i]) = i
  <2> SUFFICES ASSUME NEW i \in DOMAIN children PROVE children[i] \in Libraries!Loaded /\ Libraries!Position(children[i]) = i
    OBVIOUS
  <2>1. children[i] \in Libraries!Loaded
    BY DEF Libraries!Loaded, Libraries!Elements
  <2> QED BY <1>3, <2>1 DEF Distinct
<1>5. children \in Bijection(1 .. Len(children), Libraries!Loaded)
  <2>1. children \in [1 .. Len(children) -> Libraries!Loaded]
    BY <1>1, <1>4
  <2>2. \A i, j \in 1 .. Len(children) : children[i] = children[j] => i = j
    BY <1>1 DEF Distinct
  <2>3. \A l \in Libraries!Loaded : \E i \in 1 .. Len(children) : children[i] = l
    BY <1>1, <1>3
  <2> QED BY <2>1, <2>2, <2>3 DEF Bijection, Injection, Surjection, IsInjective
<1>6. IsFiniteSet(Libraries!Loaded) /\ Cardinality(Libraries!Loaded) = Len(children)
  BY <1>2, <1>5, FS_Bijection DEF ExistsBijection
<1>7. Libraries!Loaded \subseteq LibraryNames
  BY <1>1, <1>3
<1> QED BY <1>1, <1>2, <1>3, <1>4, <1>6, <1>7

LEMMA ArrangedExists ==
  ASSUME children \in Seq(LibraryNames), Distinct(children), \A l \in Libraries!Loaded : imports[l] \subseteq Libraries!Loaded
  PROVE  /\ Libraries!Arranged \in [1 .. Len(children) -> Libraries!Loaded]
         /\ \A i, j \in 1 .. Len(children) : i < j =>
               Cardinality(imports[Libraries!Arranged[i]]) <= Cardinality(imports[Libraries!Arranged[j]])
         /\ \A i, j \in 1 .. Len(children) : Libraries!Arranged[i] = Libraries!Arranged[j] => i = j
         /\ \A l \in Libraries!Loaded : \E i \in 1 .. Len(children) : Libraries!Arranged[i] = l
<1> DEFINE n == Len(children)
           Number(l) == Cardinality(imports[l])
           Below(l) == {k \in Libraries!Loaded : Libraries!Earlier(k, l)}
           rank == [l \in Libraries!Loaded |-> Cardinality(Below(l)) + 1]
<1>1. /\ n \in Nat /\ IsFiniteSet(Libraries!Loaded) /\ Cardinality(Libraries!Loaded) = n
      /\ IsFiniteSet(1 .. n) /\ Cardinality(1 .. n) = n
      /\ \A l \in Libraries!Loaded : Libraries!Position(l) \in 1 .. n /\ children[Libraries!Position(l)] = l
  <2> HIDE DEF n
  <2>1. n = Len(children)
    BY DEF n
  <2> QED BY <2>1, LoadedAreMany
<1>2. \A l \in Libraries!Loaded : Number(l) \in Nat
  BY <1>1, FS_Subset, FS_CardinalityType
<1>3. \A k, l : Libraries!Earlier(k, l) <=> Number(k) < Number(l) \/ (Number(k) = Number(l) /\ Libraries!Position(k) < Libraries!Position(l))
  BY DEF Libraries!Earlier, Libraries!Cardinality, Cardinality
<1>4. /\ \A k, l \in Libraries!Loaded : k = l \/ Libraries!Earlier(k, l) \/ Libraries!Earlier(l, k)
      /\ \A k, l \in Libraries!Loaded : ~(Libraries!Earlier(k, l) /\ Libraries!Earlier(l, k))
      /\ \A k, l, m \in Libraries!Loaded : Libraries!Earlier(k, l) /\ Libraries!Earlier(l, m) => Libraries!Earlier(k, m)
  <2> HIDE DEF Number
  <2>1. \A k, l \in Libraries!Loaded : k = l \/ Libraries!Position(k) < Libraries!Position(l) \/ Libraries!Position(l) < Libraries!Position(k)
    BY <1>1
  <2>2. \A l \in Libraries!Loaded : Libraries!Position(l) \in Int /\ Number(l) \in Int
    BY <1>1, <1>2
  <2> QED BY <1>3, <2>1, <2>2
<1>5. \A l \in Libraries!Loaded : IsFiniteSet(Below(l)) /\ Cardinality(Below(l)) \in Nat /\ Cardinality(Below(l)) < n
  <2> SUFFICES ASSUME NEW l \in Libraries!Loaded
               PROVE  IsFiniteSet(Below(l)) /\ Cardinality(Below(l)) \in Nat /\ Cardinality(Below(l)) < n
    OBVIOUS
  <2>1. Below(l) \in SUBSET Libraries!Loaded /\ Below(l) # Libraries!Loaded
    BY <1>4
  <2> HIDE DEF Below
  <2>2. IsFiniteSet(Below(l)) /\ Cardinality(Below(l)) <= n /\ Cardinality(Below(l)) # n
    BY <1>1, <2>1, FS_Subset
  <2> QED BY <1>1, <2>2, FS_CardinalityType
<1>6. \A k, l \in Libraries!Loaded : Libraries!Earlier(k, l) => rank[k] < rank[l]
  <2> SUFFICES ASSUME NEW k \in Libraries!Loaded, NEW l \in Libraries!Loaded, Libraries!Earlier(k, l) PROVE rank[k] < rank[l]
    OBVIOUS
  <2>1. Below(k) \in SUBSET Below(l) /\ Below(k) # Below(l)
    BY <1>4
  <2>2. rank[k] = Cardinality(Below(k)) + 1 /\ rank[l] = Cardinality(Below(l)) + 1
    OBVIOUS
  <2>3. /\ IsFiniteSet(Below(l)) /\ Cardinality(Below(l)) \in Nat /\ Cardinality(Below(k)) \in Nat
    BY <1>5
  <2> HIDE DEF Below, rank
  <2>4. Cardinality(Below(k)) <= Cardinality(Below(l)) /\ Cardinality(Below(k)) # Cardinality(Below(l))
    BY <2>1, <2>3, FS_Subset
  <2> QED BY <2>2, <2>3, <2>4
<1>7. rank \in [Libraries!Loaded -> 1 .. n]
  <2> SUFFICES ASSUME NEW l \in Libraries!Loaded PROVE Cardinality(Below(l)) + 1 \in 1 .. n
    OBVIOUS
  <2>1. Cardinality(Below(l)) \in Nat /\ Cardinality(Below(l)) < n
    BY <1>5
  <2> HIDE DEF Below, n
  <2> QED BY <1>1, <2>1
<1> HIDE DEF Below, rank, n, Number
<1>8. \A k, l \in Libraries!Loaded : rank[k] = rank[l] => k = l
  BY <1>4, <1>6, <1>7
<1>9. \A i \in 1 .. n : \E l \in Libraries!Loaded : rank[l] = i
  <2> SUFFICES ASSUME NEW i \in 1 .. n PROVE \E l \in Libraries!Loaded : rank[l] = i
    OBVIOUS
  <2> DEFINE T == 1 .. n
  <2>1. /\ IsFiniteSet(Libraries!Loaded) /\ IsFiniteSet(T) /\ Cardinality(Libraries!Loaded) = Cardinality(T)
        /\ rank \in [Libraries!Loaded -> T] /\ i \in T
    BY <1>1, <1>7
  <2> HIDE DEF T
  <2> QED BY ONLY <2>1, <1>8, OneToOneIsOnto
<1> DEFINE s == [i \in 1 .. n |-> CHOOSE l \in Libraries!Loaded : rank[l] = i]
<1>10. s \in [1 .. n -> Libraries!Loaded] /\ \A i \in 1 .. n : rank[s[i]] = i
  BY <1>9
<1> HIDE DEF s
<1>11. \A i, j \in 1 .. n : i < j => Libraries!Earlier(s[i], s[j])
  <2> SUFFICES ASSUME NEW i \in 1 .. n, NEW j \in 1 .. n, i < j PROVE Libraries!Earlier(s[i], s[j])
    OBVIOUS
  <2>1. s[i] \in Libraries!Loaded /\ s[j] \in Libraries!Loaded /\ rank[s[i]] = i /\ rank[s[j]] = j
    BY <1>10
  <2>2. s[i] # s[j] /\ ~Libraries!Earlier(s[j], s[i])
    BY <1>1, <1>6, <2>1
  <2> QED BY <1>4, <2>1, <2>2
<1>12. Libraries!Arranged \in [1 .. n -> Libraries!Loaded] /\ \A i, j \in 1 .. n : i < j => Libraries!Earlier(Libraries!Arranged[i], Libraries!Arranged[j])
  BY <1>10, <1>11 DEF Libraries!Arranged, n
<1>13. \A i, j \in 1 .. n : i < j => Number(Libraries!Arranged[i]) <= Number(Libraries!Arranged[j])
  BY <1>2, <1>3, <1>12
<1>14. \A i, j \in 1 .. n : Libraries!Arranged[i] = Libraries!Arranged[j] => i = j
  <2>1. \A i, j \in 1 .. n : i < j => Libraries!Arranged[i] # Libraries!Arranged[j]
    BY <1>4, <1>12
  <2> QED BY <1>1, <2>1
<1>15. \A l \in Libraries!Loaded : \E i \in 1 .. n : Libraries!Arranged[i] = l
  <2> SUFFICES ASSUME NEW l \in Libraries!Loaded PROVE \E i \in 1 .. n : Libraries!Arranged[i] = l
    OBVIOUS
  <2> DEFINE T == 1 .. n
  <2>1. /\ IsFiniteSet(Libraries!Loaded) /\ IsFiniteSet(T) /\ Cardinality(T) = Cardinality(Libraries!Loaded)
        /\ Libraries!Arranged \in [T -> Libraries!Loaded] /\ \A i, j \in T : Libraries!Arranged[i] = Libraries!Arranged[j] => i = j
    BY <1>1, <1>12, <1>14
  <2> HIDE DEF T
  <2>2. \E i \in T : Libraries!Arranged[i] = l
    BY ONLY <2>1, l \in Libraries!Loaded, OneToOneIsOnto
  <2> QED BY <2>2 DEF T
<1> QED BY <1>12, <1>13, <1>14, <1>15 DEF n, Number

(* What a directory holds from its compilation on, whichever imports are   *)
(* digested by now, and what it holds when its package.json is written.    *)
(* Libraries are in the order of their numbers of imports, so one that is  *)
(* embedded is finished if it has fewer.                                   *)
CopyFields == {"path", "from", "raw", "peers"}

DirectoryHolds(l) ==
    /\ imports[l] \subseteq Libraries!collectImports(l)
    /\ \A r \in output[l] : DOMAIN r = CopyFields /\ r.path \in Seq(LibraryNames) /\ r.from = version
    /\ \E r \in output[l] : r.path = <<>>
    /\ \A r \in output[l] : r.path = <<>> =>
          \A x \in r.raw \intersect Libraries!Loaded : x \in imports[l] \/ Mode[x] = "PEER"
    /\ \A x \in Libraries!collectImports(l) \ imports[l] :
          IF Mode[x] = "PEER" THEN x \in peers[l] ELSE \E r \in output[l] : r.path = <<x>>
    /\ \A x \in peers[l] \intersect LibraryNames : x \in Libraries!Loaded /\ Mode[x] = "PEER"
    /\ Libraries!MoreThanEmbedded(version, Libraries!Loaded) =>
          \A r \in output[l] : r.path # <<>> => \A x \in r.raw \intersect Libraries!Loaded : Mode[x] = "PEER"

PackageWritten(l) ==
    /\ imports[l] = {}
    /\ \A r \in output[l] : r.path = <<>> => r.peers = peers[l]

PublishedOf(l, v, of) ==
    /\ Libraries!Published(l, v)
    /\ \A p \in registry : p.name = l /\ p.version = v => p.of = of

RegistryHolds ==
    /\ Libraries!OneVersion /\ Libraries!OwnImportsResolve /\ Libraries!EmbedsAreFinished
    /\ \A p \in registry :
          /\ Mode[p.name] = "PEER"
          /\ \A r \in p.copies : r.path = <<>> =>
                \A x \in r.peers \intersect LibraryNames : x \in p.of /\ Mode[x] = "PEER"

FinishedHold ==
    \A f \in finished : \A l \in f.of : Mode[l] = "PEER" => PublishedOf(l, f.version, f.of)

RunTypes ==
    /\ children \in Seq(LibraryNames) /\ Distinct(children) /\ at \in Nat \ {0}
    /\ DOMAIN output = LibraryNames /\ DOMAIN imports = LibraryNames /\ DOMAIN peers = LibraryNames
    /\ run = None => phase = "idle"
    /\ phase = "prebuild" => at = 1
    /\ phase = "tag" => run = "set-latest"

PrebuildHolds ==
    phase = "prebuild" => \A l \in Libraries!Loaded : Libraries!Notbuilt(l) \/
        /\ output[l] = Libraries!Compiled(l) /\ imports[l] = Libraries!collectImports(l)
        /\ peers[l] = Requires[version][l] \intersect Packages

DigestHolds ==
    phase = "digest" =>
        /\ \A l \in Libraries!Loaded : DirectoryHolds(l)
        /\ \A i \in 1 .. Len(children) : i < at => PackageWritten(children[i])
        /\ \A i, j \in 1 .. Len(children) : i < j =>
              Cardinality(Libraries!collectImports(children[i])) <= Cardinality(Libraries!collectImports(children[j]))

DeliverHolds ==
    phase = "deliver" =>
        /\ \A l \in Libraries!Loaded : DirectoryHolds(l) /\ PackageWritten(l)
        /\ run = "publish" => \A i \in 1 .. Len(children) :
              i < at /\ Mode[children[i]] = "PEER" => PublishedOf(children[i], version, Libraries!Loaded)

LibrariesInv ==
    RunTypes /\ PrebuildHolds /\ DigestHolds /\ DeliverHolds /\ RegistryHolds /\ FinishedHold

LEMMA LibrariesStart == Libraries!Init => LibrariesInv
<1> SUFFICES ASSUME Libraries!Init PROVE LibrariesInv
  OBVIOUS
<1> USE DEF Libraries!Init
<1>1. RunTypes
  BY EmptySeq DEF RunTypes, Distinct
<1>2. PrebuildHolds /\ DigestHolds /\ DeliverHolds
  BY DEF PrebuildHolds, DigestHolds, DeliverHolds
<1>3. RegistryHolds /\ FinishedHold
  BY DEF RegistryHolds, FinishedHold, Libraries!OneVersion, Libraries!OwnImportsResolve, Libraries!EmbedsAreFinished
<1> QED BY <1>1, <1>2, <1>3 DEF LibrariesInv

(* What depends on what is published only.                                 *)
LEMMA RegistryStays ==
  ASSUME RegistryHolds, FinishedHold, UNCHANGED <<registry, finished>>
  PROVE  RegistryHolds' /\ FinishedHold'
BY DEF RegistryHolds, FinishedHold, Libraries!OneVersion, Libraries!OwnImportsResolve, Libraries!EmbedsAreFinished, Libraries!MoreThanEmbedded,
       Libraries!Published, PublishedOf

(* The end of a run, which may have published what it loaded.              *)
LEMMA EndedKeepsLibraries ==
  ASSUME LibrariesInv, NEW well, Libraries!Ended(well), UNCHANGED registry, DOMAIN output' = LibraryNames,
         well /\ run = "publish" => \A l \in Libraries!Loaded : Mode[l] = "PEER" => PublishedOf(l, version, Libraries!Loaded)
  PROVE  LibrariesInv'
<1>1. /\ run' = None /\ phase' = "idle" /\ children' = <<>> /\ at' = 1
      /\ imports' = [l \in LibraryNames |-> {}] /\ peers' = imports'
      /\ finished' = finished \union (IF well /\ run = "publish" THEN {[version |-> version, of |-> Libraries!Loaded]} ELSE {})
  BY DEF Libraries!Ended
<1>2. RunTypes'
  BY <1>1, EmptySeq DEF RunTypes, Distinct
<1>3. PrebuildHolds' /\ DigestHolds' /\ DeliverHolds'
  BY <1>1 DEF PrebuildHolds, DigestHolds, DeliverHolds
<1>4. RegistryHolds'
  BY DEF LibrariesInv, RegistryHolds, Libraries!OneVersion, Libraries!OwnImportsResolve, Libraries!EmbedsAreFinished, Libraries!MoreThanEmbedded
<1>5. \A l, v, of : PublishedOf(l, v, of) => (PublishedOf(l, v, of))'
  BY DEF PublishedOf, Libraries!Published
<1>6. FinishedHold'
  <2> SUFFICES ASSUME NEW f \in finished', NEW l \in f.of, Mode[l] = "PEER"
               PROVE  PublishedOf(l, f.version, f.of)
    BY <1>5 DEF FinishedHold
  <2>1. CASE f \in finished
    BY <2>1 DEF LibrariesInv, FinishedHold
  <2>2. CASE well /\ run = "publish" /\ f = [version |-> version, of |-> Libraries!Loaded]
    <3>1. f.version = version /\ f.of = Libraries!Loaded
      BY <2>2
    <3> QED BY <2>2, <3>1
  <2> QED BY <1>1, <2>1, <2>2
<1> QED BY <1>2, <1>3, <1>4, <1>6 DEF LibrariesInv

(* A step within a run that leaves the libraries as they are arranged.     *)
LEMMA CompiledHolds ==
  ASSUME NEW l \in Libraries!Loaded, output[l] = Libraries!Compiled(l), imports[l] = Libraries!collectImports(l),
         peers[l] = Requires[version][l] \intersect Packages
  PROVE  DirectoryHolds(l)
<1> DEFINE r == [path |-> <<>>, from |-> version, raw |-> Requires[version][l], peers |-> {}]
<1>1. output[l] = {r}
  BY DEF Libraries!Compiled
<1>2. DOMAIN r = CopyFields /\ r.path = <<>> /\ r.from = version /\ r.raw = Requires[version][l]
  BY DEF CopyFields
<1> HIDE DEF r
<1>3. r.path \in Seq(LibraryNames)
  BY <1>2, EmptySeq
<1>4. peers[l] \intersect LibraryNames = {}
  BY LibrariesMade
<1> QED BY <1>1, <1>2, <1>3, <1>4 DEF DirectoryHolds, Libraries!collectImports

LEMMA ArrangeKeepsLibraries ==
  ASSUME LibrariesInv, Libraries!Arrange
  PROVE  LibrariesInv'
<1>1. /\ phase = "prebuild" /\ phase' = "digest" /\ children' = Libraries!Arranged /\ at = 1
      /\ UNCHANGED <<version, run, output, imports, peers, at, registry, finished>>
      /\ \A l \in Libraries!Loaded :
             /\ output[l] = Libraries!Compiled(l) /\ imports[l] = Libraries!collectImports(l)
             /\ peers[l] = Requires[version][l] \intersect Packages
  BY DEF Libraries!Arrange, Libraries!building, Libraries!released, LibrariesInv, RunTypes, PrebuildHolds
<1>2. \A l \in Libraries!Loaded : imports[l] \subseteq Libraries!Loaded
  BY <1>1 DEF Libraries!collectImports
<1>3. children \in Seq(LibraryNames) /\ Distinct(children) /\ Libraries!Loaded \subseteq LibraryNames /\ Len(children) \in Nat
  BY LoadedAreMany DEF LibrariesInv, RunTypes
<1>4. /\ Libraries!Arranged \in [1 .. Len(children) -> Libraries!Loaded]
      /\ \A i, j \in 1 .. Len(children) : i < j =>
            Cardinality(imports[Libraries!Arranged[i]]) <= Cardinality(imports[Libraries!Arranged[j]])
      /\ \A i, j \in 1 .. Len(children) : Libraries!Arranged[i] = Libraries!Arranged[j] => i = j
      /\ \A l \in Libraries!Loaded : \E i \in 1 .. Len(children) : Libraries!Arranged[i] = l
  BY <1>2, <1>3, ArrangedExists
<1>5. DOMAIN children' = 1 .. Len(children) /\ Len(children') = Len(children) /\ children' \in Seq(LibraryNames)
  <2>1. Libraries!Arranged \in Seq(LibraryNames) /\ Len(Libraries!Arranged) = Len(children)
    BY <1>3, <1>4, IsASeq
  <2> QED BY <1>1, <1>4, <2>1
<1>6. Libraries!Loaded' = Libraries!Loaded
  <2>1. Libraries!Loaded' = {Libraries!Arranged[i] : i \in 1 .. Len(children)}
    BY <1>1, <1>5 DEF Libraries!Loaded, Libraries!Elements
  <2>2. \A l \in Libraries!Loaded' : l \in Libraries!Loaded
    BY <1>4, <2>1
  <2>3. \A l \in Libraries!Loaded : l \in Libraries!Loaded'
    BY <1>4, <2>1
  <2> QED BY <2>2, <2>3
<1>7. \A l : Libraries!collectImports(l)' = Libraries!collectImports(l)
  BY <1>1, <1>6 DEF Libraries!collectImports
<1>8. RunTypes'
  BY <1>1, <1>4, <1>5 DEF LibrariesInv, RunTypes, Distinct
<1>9. DigestHolds'
  <2>1. \A l \in Libraries!Loaded : DirectoryHolds(l)
    BY <1>1, CompiledHolds
  <2>2. \A l \in Libraries!Loaded' : DirectoryHolds(l)'
    <3>1. (Libraries!MoreThanEmbedded(version, Libraries!Loaded))' = Libraries!MoreThanEmbedded(version, Libraries!Loaded)
      BY <1>1, <1>6 DEF Libraries!MoreThanEmbedded
    <3> SUFFICES ASSUME NEW l \in Libraries!Loaded PROVE DirectoryHolds(l)'
      BY <1>6
    <3>2. DirectoryHolds(l) /\ Libraries!collectImports(l)' = Libraries!collectImports(l)
      BY <1>7, <2>1
    <3> QED BY <1>1, <1>6, <3>1, <3>2 DEF DirectoryHolds
  <2>3. \A i, j \in 1 .. Len(children)' : i < j =>
           Cardinality(Libraries!collectImports(children[i])') <= Cardinality(Libraries!collectImports(children[j])')
    BY <1>1, <1>4, <1>5, <1>7
  <2> QED BY <1>1, <1>5, <2>2, <2>3 DEF DigestHolds
<1>10. PrebuildHolds' /\ DeliverHolds'
  BY <1>1 DEF PrebuildHolds, DeliverHolds
<1>11. RegistryHolds' /\ FinishedHold'
  BY <1>1, RegistryStays DEF LibrariesInv
<1> QED BY <1>8, <1>9, <1>10, <1>11 DEF LibrariesInv

(* A sequence of one.                                                      *)
LEMMA SingletonSeq ==
  ASSUME NEW S, NEW x \in S
  PROVE  <<x>> \in Seq(S) /\ <<x>> # <<>>
OBVIOUS

(* What is arranged stays arranged: the libraries, and what they import.   *)
LEMMA SameLibraries ==
  ASSUME UNCHANGED <<version, children>>
  PROVE  /\ Libraries!Loaded' = Libraries!Loaded /\ \A l : Libraries!collectImports(l)' = Libraries!collectImports(l)
         /\ (Libraries!MoreThanEmbedded(version, Libraries!Loaded))' = Libraries!MoreThanEmbedded(version, Libraries!Loaded)
BY DEF Libraries!Loaded, Libraries!Elements, Libraries!collectImports, Libraries!MoreThanEmbedded

LEMMA SameDirectory ==
  ASSUME NEW l, UNCHANGED <<version, children>>,
         output'[l] = output[l], imports'[l] = imports[l], peers'[l] = peers[l]
  PROVE  /\ DirectoryHolds(l) => DirectoryHolds(l)'
         /\ PackageWritten(l) => PackageWritten(l)'
<1>1. DirectoryHolds(l) => DirectoryHolds(l)'
  <2>1. /\ Libraries!Loaded' = Libraries!Loaded /\ Libraries!collectImports(l)' = Libraries!collectImports(l)
        /\ (Libraries!MoreThanEmbedded(version, Libraries!Loaded))' = Libraries!MoreThanEmbedded(version, Libraries!Loaded)
    BY SameLibraries
  <2> QED BY <2>1 DEF DirectoryHolds
<1> QED BY <1>1 DEF PackageWritten

(* The library at hand takes in one that it imports: as a peer, or a copy. *)
LEMMA PeerKeepsDirectory ==
  ASSUME NEW l \in LibraryNames, NEW x \in imports[l], DirectoryHolds(l), Mode[x] = "PEER",
         DOMAIN imports = LibraryNames, DOMAIN peers = LibraryNames,
         UNCHANGED <<version, children, output>>,
         peers' = [peers EXCEPT ![l] = @ \union {x}], imports' = [imports EXCEPT ![l] = @ \ {x}]
  PROVE  DirectoryHolds(l)'
<1>1. /\ Libraries!Loaded' = Libraries!Loaded /\ Libraries!collectImports(l)' = Libraries!collectImports(l)
      /\ (Libraries!MoreThanEmbedded(version, Libraries!Loaded))' = Libraries!MoreThanEmbedded(version, Libraries!Loaded)
  BY SameLibraries
<1>2. peers'[l] = peers[l] \union {x} /\ imports'[l] = imports[l] \ {x}
  OBVIOUS
<1>3. x \in Libraries!Loaded
  BY DEF DirectoryHolds, Libraries!collectImports
<1>4. \A y \in Libraries!collectImports(l) \ imports'[l] :
         IF Mode[y] = "PEER" THEN y \in peers'[l] ELSE \E r \in output[l] : r.path = <<y>>
  BY <1>2 DEF DirectoryHolds
<1>5. \A r \in output[l] : r.path = <<>> =>
         \A y \in r.raw \intersect Libraries!Loaded : y \in imports'[l] \/ Mode[y] = "PEER"
  BY <1>2 DEF DirectoryHolds
<1>6. \A y \in peers'[l] \intersect LibraryNames : y \in Libraries!Loaded /\ Mode[y] = "PEER"
  BY <1>2, <1>3 DEF DirectoryHolds
<1>7. DirectoryHolds(l) /\ version' = version /\ output' = output /\ imports'[l] \subseteq imports[l]
  BY <1>2
<1> QED BY ONLY <1>1, <1>4, <1>5, <1>6, <1>7 DEF DirectoryHolds

LEMMA CopyKeepsDirectory ==
  ASSUME NEW l \in LibraryNames, NEW x \in imports[l], DirectoryHolds(l), DirectoryHolds(x), Mode[x] # "PEER",
         Libraries!MoreThanEmbedded(version, Libraries!Loaded) => PackageWritten(x),
         Libraries!Loaded \subseteq LibraryNames,
         DOMAIN imports = LibraryNames, DOMAIN output = LibraryNames,
         UNCHANGED <<version, children, peers>>,
         output' = [output EXCEPT ![l] = Libraries!Replaced(l, x) \union Libraries!Embedded(x)],
         imports' = [imports EXCEPT ![l] = @ \ {x}]
  PROVE  DirectoryHolds(l)'
<1>1. /\ Libraries!Loaded' = Libraries!Loaded /\ Libraries!collectImports(l)' = Libraries!collectImports(l)
      /\ (Libraries!MoreThanEmbedded(version, Libraries!Loaded))' = Libraries!MoreThanEmbedded(version, Libraries!Loaded)
  BY SameLibraries
<1>2. output'[l] = Libraries!Replaced(l, x) \union Libraries!Embedded(x) /\ imports'[l] = imports[l] \ {x}
  OBVIOUS
<1>3. x \in Libraries!Loaded /\ x \in LibraryNames /\ x \in Libraries!collectImports(l)
  BY DEF DirectoryHolds, Libraries!collectImports
<1>4. ASSUME NEW r \in Libraries!Replaced(l, x)
      PROVE  \E s \in output[l] :
                /\ DOMAIN r = CopyFields /\ r.path = s.path /\ r.from = s.from
                /\ r.raw = IF s.path = <<>> THEN s.raw \ {x} ELSE s.raw
  <2>1. PICK s \in output[l] : r = IF s.path = <<>> THEN [s EXCEPT !.raw = @ \ {x}] ELSE s
    BY DEF Libraries!Replaced
  <2>2. DOMAIN s = CopyFields
    BY DEF DirectoryHolds
  <2> QED BY <2>1, <2>2 DEF CopyFields
<1>5. ASSUME NEW s \in output[l]
      PROVE  \E r \in Libraries!Replaced(l, x) : r.path = s.path
  <2> DEFINE r == IF s.path = <<>> THEN [s EXCEPT !.raw = @ \ {x}] ELSE s
  <2>1. r \in Libraries!Replaced(l, x)
    BY DEF Libraries!Replaced
  <2>2. DOMAIN s = CopyFields
    BY DEF DirectoryHolds
  <2> QED BY <2>1, <2>2 DEF CopyFields
<1>6. ASSUME NEW r \in Libraries!Embedded(x)
      PROVE  /\ DOMAIN r = CopyFields /\ r.from = version /\ r.path \in Seq(LibraryNames) /\ r.path # <<>>
             /\ \E s \in output[x] : r.raw = s.raw
  <2>1. PICK s \in output[x] : r = [s EXCEPT !.path = <<x>> \o @]
    BY DEF Libraries!Embedded
  <2>2. DOMAIN s = CopyFields /\ s.path \in Seq(LibraryNames) /\ s.from = version
    BY DEF DirectoryHolds
  <2>3. DOMAIN r = CopyFields /\ r.from = version /\ r.raw = s.raw /\ r.path = <<x>> \o s.path
    BY <2>1, <2>2 DEF CopyFields
  <2>4. <<x>> \in Seq(LibraryNames) /\ <<x>> # <<>>
    BY <1>3, SingletonSeq
  <2>5. <<x>> \o s.path \in Seq(LibraryNames) /\ <<x>> \o s.path # <<>>
    BY <2>2, <2>4, ConcatProperties, ConcatEqualIffEmpty
  <2> QED BY <2>3, <2>5
<1>7. \E r \in Libraries!Embedded(x) : r.path = <<x>>
  <2>1. PICK s \in output[x] : s.path = <<>>
    BY DEF DirectoryHolds
  <2> DEFINE r == [s EXCEPT !.path = <<x>> \o @]
  <2>2. r \in Libraries!Embedded(x)
    BY DEF Libraries!Embedded
  <2>3. DOMAIN s = CopyFields
    BY DEF DirectoryHolds
  <2>4. r.path = <<x>> \o <<>>
    BY <2>1, <2>3 DEF CopyFields
  <2>5. <<x>> \o <<>> = <<x>>
    BY <1>3, SingletonSeq, ConcatEmptySeq
  <2> QED BY <2>2, <2>4, <2>5
<1> DEFINE now == output'[l]
<1>8. \A r \in now : DOMAIN r = CopyFields /\ r.path \in Seq(LibraryNames) /\ r.from = version
  <2> SUFFICES ASSUME NEW r \in now
               PROVE  DOMAIN r = CopyFields /\ r.path \in Seq(LibraryNames) /\ r.from = version
    OBVIOUS
  <2>1. CASE r \in Libraries!Replaced(l, x)
    BY <1>4, <2>1 DEF DirectoryHolds
  <2>2. CASE r \in Libraries!Embedded(x)
    BY <1>6, <2>2
  <2> QED BY <1>2, <2>1, <2>2
<1>9. \E r \in now : r.path = <<>>
  <2>1. PICK s \in output[l] : s.path = <<>>
    BY DEF DirectoryHolds
  <2> QED BY <1>2, <1>5, <2>1
<1>10. \A r \in now : r.path = <<>> => \A y \in r.raw \intersect Libraries!Loaded : y \in imports'[l] \/ Mode[y] = "PEER"
  <2> SUFFICES ASSUME NEW r \in now, r.path = <<>>, NEW y \in r.raw \intersect Libraries!Loaded
               PROVE  y \in imports'[l] \/ Mode[y] = "PEER"
    OBVIOUS
  <2>1. r \in Libraries!Replaced(l, x)
    BY <1>2, <1>6
  <2>2. PICK s \in output[l] : s.path = <<>> /\ r.raw = s.raw \ {x}
    BY <1>4, <2>1
  <2> QED BY <1>2, <2>2 DEF DirectoryHolds
<1>11. \A y \in Libraries!collectImports(l) \ imports'[l] :
          IF Mode[y] = "PEER" THEN y \in peers[l] ELSE \E r \in now : r.path = <<y>>
  <2> SUFFICES ASSUME NEW y \in Libraries!collectImports(l) \ imports'[l]
               PROVE  IF Mode[y] = "PEER" THEN y \in peers[l] ELSE \E r \in now : r.path = <<y>>
    OBVIOUS
  <2>1. CASE y = x
    BY <1>2, <1>7, <2>1
  <2>2. CASE y # x
    <3>1. y \notin imports[l]
      BY <1>2, <2>2
    <3>2. CASE Mode[y] = "PEER"
      BY <3>1, <3>2 DEF DirectoryHolds
    <3>3. CASE Mode[y] # "PEER"
      <4>1. PICK s \in output[l] : s.path = <<y>>
        BY <3>1, <3>3 DEF DirectoryHolds
      <4> QED BY <1>2, <1>5, <3>3, <4>1
    <3> QED BY <3>2, <3>3
  <2> QED BY <2>1, <2>2
<1>12. ASSUME Libraries!MoreThanEmbedded(version, Libraries!Loaded)
       PROVE  \A r \in now : r.path # <<>> => \A y \in r.raw \intersect Libraries!Loaded : Mode[y] = "PEER"
  <2> SUFFICES ASSUME NEW r \in now, r.path # <<>>, NEW y \in r.raw \intersect Libraries!Loaded PROVE Mode[y] = "PEER"
    OBVIOUS
  <2>1. CASE r \in Libraries!Replaced(l, x)
    <3>1. PICK s \in output[l] : s.path # <<>> /\ r.raw = s.raw
      BY <1>4, <2>1
    <3> QED BY <1>12, <3>1 DEF DirectoryHolds
  <2>2. CASE r \in Libraries!Embedded(x)
    <3>1. PICK s \in output[x] : r.raw = s.raw
      BY <1>6, <2>2
    <3>2. CASE s.path = <<>>
      BY <1>12, <3>1, <3>2 DEF DirectoryHolds, PackageWritten
    <3>3. CASE s.path # <<>>
      BY <1>12, <3>1, <3>3 DEF DirectoryHolds
    <3> QED BY <3>2, <3>3
  <2> QED BY <1>2, <2>1, <2>2
<1>13. /\ imports'[l] \subseteq Libraries!collectImports(l)
       /\ \A y \in peers[l] \intersect LibraryNames : y \in Libraries!Loaded /\ Mode[y] = "PEER"
  BY <1>2 DEF DirectoryHolds
<1>14. version' = version /\ peers' = peers
  OBVIOUS
<1> QED BY ONLY <1>1, <1>8, <1>9, <1>10, <1>11, <1>12, <1>13, <1>14 DEF DirectoryHolds

LEMMA DigestKeepsLibraries ==
  ASSUME LibrariesInv, Libraries!Digest
  PROVE  LibrariesInv'
<1> DEFINE l == children[at]
<1>1. /\ phase = "digest" /\ at \in 1 .. Len(children) /\ children \in Seq(LibraryNames) /\ Distinct(children)
      /\ UNCHANGED <<version, run, phase, children, at, registry, finished>>
      /\ DOMAIN output = LibraryNames /\ DOMAIN imports = LibraryNames /\ DOMAIN peers = LibraryNames
  BY DEF Libraries!Digest, Libraries!released, LibrariesInv, RunTypes
<1>2. /\ Libraries!Loaded \subseteq LibraryNames /\ l \in Libraries!Loaded
      /\ \A k \in Libraries!Loaded : Libraries!Position(k) \in 1 .. Len(children) /\ children[Libraries!Position(k)] = k
      /\ \A i \in 1 .. Len(children) : children[i] \in Libraries!Loaded /\ Libraries!Position(children[i]) = i
  BY <1>1, LoadedAreMany
<1>3. PICK x \in imports[l] : Libraries!digest(l, x)
  BY DEF Libraries!Digest
<1>4. (\A k \in Libraries!Loaded : DirectoryHolds(k)) /\ \A i \in 1 .. Len(children) : i < at => PackageWritten(children[i])
  BY <1>1 DEF LibrariesInv, DigestHolds
<1>5. x \in Libraries!Loaded /\ x \in Libraries!collectImports(l) /\ Libraries!collectImports(l) \subseteq Libraries!Loaded
  BY <1>2, <1>4 DEF DirectoryHolds, Libraries!collectImports
<1>6. /\ imports' = [imports EXCEPT ![l] = @ \ {x}]
      /\ DOMAIN output' = LibraryNames /\ DOMAIN imports' = LibraryNames /\ DOMAIN peers' = LibraryNames
      /\ \A k \in LibraryNames : k # l =>
            output'[k] = output[k] /\ imports'[k] = imports[k] /\ peers'[k] = peers[k]
  BY <1>1, <1>3 DEF Libraries!digest
<1>7. DirectoryHolds(l)'
  <2>1. CASE Mode[x] = "PEER"
    BY <1>1, <1>2, <1>3, <1>4, <2>1, PeerKeepsDirectory DEF Libraries!digest
  <2>2. CASE Mode[x] # "PEER"
    <3>1. Libraries!MoreThanEmbedded(version, Libraries!Loaded) => PackageWritten(x)
      <4> SUFFICES ASSUME Libraries!MoreThanEmbedded(version, Libraries!Loaded) PROVE PackageWritten(x)
        OBVIOUS
      <4>1. Mode[x] = "EMBEDDED"
        BY <1>2, <1>5, <2>2, LibrariesMade
      <4>2. Cardinality(Libraries!collectImports(x)) < Cardinality(Libraries!collectImports(l))
        BY <1>2, <1>5, <4>1 DEF Libraries!MoreThanEmbedded, Libraries!collectImports, Libraries!Cardinality, Cardinality
      <4>3. \A i, j \in 1 .. Len(children) : i < j =>
               Cardinality(Libraries!collectImports(children[i])) <= Cardinality(Libraries!collectImports(children[j]))
        BY <1>1 DEF LibrariesInv, DigestHolds
      <4>4. IsFiniteSet(Libraries!Loaded)
        BY <1>1, LoadedAreMany
      <4>5. \A k : Cardinality(Libraries!collectImports(k)) \in Nat
        <5> TAKE k
        <5>1. Libraries!collectImports(k) \in SUBSET Libraries!Loaded
          BY DEF Libraries!collectImports
        <5> QED BY <4>4, <5>1, FS_Subset, FS_CardinalityType
      <4>6. Libraries!Position(x) \in 1 .. Len(children) /\ children[Libraries!Position(x)] = x
        BY <1>2, <1>5
      <4>7. Libraries!Position(x) < at
        <5>1. Libraries!Position(x) = at => x = l
          BY <4>6
        <5>2. at < Libraries!Position(x) => Cardinality(Libraries!collectImports(l)) <= Cardinality(Libraries!collectImports(x))
          BY <1>1, <4>3, <4>6
        <5> QED BY <1>1, <4>2, <4>5, <4>6, <5>1, <5>2
      <4> QED BY <1>4, <4>6, <4>7
    <3> QED BY <1>1, <1>2, <1>3, <1>4, <1>5, <2>2, <3>1, CopyKeepsDirectory DEF Libraries!digest
  <2> QED BY <2>1, <2>2
<1>8. \A k \in Libraries!Loaded' : DirectoryHolds(k)'
  <2>1. \A k \in Libraries!Loaded : k # l => DirectoryHolds(k)'
    BY <1>1, <1>2, <1>4, <1>6, SameDirectory
  <2> QED BY <1>1, <1>7, <2>1, SameLibraries
<1>9. \A i \in 1 .. Len(children) : i < at => PackageWritten(children[i])'
  <2> SUFFICES ASSUME NEW i \in 1 .. Len(children), i < at PROVE PackageWritten(children[i])'
    OBVIOUS
  <2>1. children[i] # l /\ children[i] \in LibraryNames
    BY <1>1, <1>2
  <2> QED BY <1>1, <1>4, <1>6, <2>1, SameDirectory
<1>10. DigestHolds'
  <2>1. \A i : Libraries!collectImports(children[i])' = Libraries!collectImports(children[i])
    BY <1>1, SameLibraries
  <2> QED BY <1>1, <1>8, <1>9, <2>1 DEF DigestHolds, LibrariesInv, PackageWritten
<1>11. RunTypes' /\ PrebuildHolds' /\ DeliverHolds'
  BY <1>1, <1>6 DEF LibrariesInv, RunTypes, PrebuildHolds, DeliverHolds, Distinct
<1>12. RegistryHolds' /\ FinishedHold'
  BY <1>1, RegistryStays DEF LibrariesInv
<1> QED BY <1>10, <1>11, <1>12 DEF LibrariesInv

(* The package.json of the library at hand.                                *)
LEMMA WriteKeepsLibraries ==
  ASSUME LibrariesInv, Libraries!writePackage
  PROVE  LibrariesInv'
<1>0. PICK l : l = children[at]
  OBVIOUS
<1> DEFINE now == {IF r.path = <<>> THEN [r EXCEPT !.peers = peers[l]] ELSE r : r \in output[l]}
<1>1. /\ phase = "digest" /\ at \in 1 .. Len(children) /\ children \in Seq(LibraryNames) /\ Distinct(children)
      /\ UNCHANGED <<version, run, phase, children, imports, peers, registry, finished>>
      /\ imports[l] = {} /\ output' = [output EXCEPT ![l] = now] /\ at' = at + 1
      /\ DOMAIN output = LibraryNames /\ DOMAIN imports = LibraryNames /\ DOMAIN peers = LibraryNames
  BY <1>0 DEF Libraries!writePackage, Libraries!released, LibrariesInv, RunTypes
<1> HIDE DEF now
<1>2. /\ Libraries!Loaded \subseteq LibraryNames /\ l \in Libraries!Loaded
      /\ \A i \in 1 .. Len(children) : children[i] \in Libraries!Loaded /\ Libraries!Position(children[i]) = i
  BY <1>0, <1>1, LoadedAreMany
<1>3. (\A k \in Libraries!Loaded : DirectoryHolds(k)) /\ \A i \in 1 .. Len(children) : i < at => PackageWritten(children[i])
  BY <1>1 DEF LibrariesInv, DigestHolds
<1>4. /\ DOMAIN output' = LibraryNames /\ output'[l] = now
      /\ \A k \in LibraryNames : k # l => output'[k] = output[k]
  BY <1>1, <1>2
<1>5. \A r \in now : \E s \in output[l] :
         /\ DOMAIN r = CopyFields /\ r.path = s.path /\ r.from = s.from /\ r.raw = s.raw
         /\ r.path = <<>> => r.peers = peers[l]
  <2> SUFFICES ASSUME NEW r \in now
               PROVE  \E s \in output[l] :
                         /\ DOMAIN r = CopyFields /\ r.path = s.path /\ r.from = s.from /\ r.raw = s.raw
                         /\ r.path = <<>> => r.peers = peers[l]
    OBVIOUS
  <2>1. PICK s \in output[l] : r = IF s.path = <<>> THEN [s EXCEPT !.peers = peers[l]] ELSE s
    BY DEF now
  <2>2. DOMAIN s = CopyFields
    BY <1>2, <1>3 DEF DirectoryHolds
  <2> QED BY <2>1, <2>2 DEF CopyFields
<1>6. \A s \in output[l] : \E r \in now : r.path = s.path
  <2> SUFFICES ASSUME NEW s \in output[l] PROVE \E r \in now : r.path = s.path
    OBVIOUS
  <2> DEFINE r == IF s.path = <<>> THEN [s EXCEPT !.peers = peers[l]] ELSE s
  <2>1. r \in now
    BY DEF now
  <2>2. DOMAIN s = CopyFields
    BY <1>2, <1>3 DEF DirectoryHolds
  <2> QED BY <2>1, <2>2 DEF CopyFields
<1>7. Libraries!Loaded' = Libraries!Loaded /\ Libraries!collectImports(l)' = Libraries!collectImports(l)
      /\ (Libraries!MoreThanEmbedded(version, Libraries!Loaded))' = Libraries!MoreThanEmbedded(version, Libraries!Loaded)
  BY <1>1, SameLibraries
<1>8. DirectoryHolds(l)'
  <2>1. DirectoryHolds(l) /\ version' = version /\ imports' = imports /\ peers' = peers
    BY <1>1, <1>2, <1>3
  <2>2. \A r \in now : DOMAIN r = CopyFields /\ r.path \in Seq(LibraryNames) /\ r.from = version
    BY <1>5, <2>1 DEF DirectoryHolds
  <2>3. \E r \in now : r.path = <<>>
    BY <1>6, <2>1 DEF DirectoryHolds
  <2>4. \A r \in now : r.path = <<>> => \A x \in r.raw \intersect Libraries!Loaded : x \in imports[l] \/ Mode[x] = "PEER"
    BY <1>5, <2>1 DEF DirectoryHolds
  <2>5. \A x \in Libraries!collectImports(l) \ imports[l] :
           IF Mode[x] = "PEER" THEN x \in peers[l] ELSE \E r \in now : r.path = <<x>>
    BY <1>6, <2>1 DEF DirectoryHolds
  <2>6. Libraries!MoreThanEmbedded(version, Libraries!Loaded) =>
           \A r \in now : r.path # <<>> => \A x \in r.raw \intersect Libraries!Loaded : Mode[x] = "PEER"
    BY <1>5, <2>1 DEF DirectoryHolds
  <2>7. output'[l] = now
    BY <1>4
  <2> QED BY ONLY <1>7, <2>1, <2>2, <2>3, <2>4, <2>5, <2>6, <2>7 DEF DirectoryHolds
<1>9. PackageWritten(l)'
  BY <1>1, <1>4, <1>5 DEF PackageWritten
<1>10. \A k \in Libraries!Loaded' : DirectoryHolds(k)'
  <2>1. \A k \in Libraries!Loaded : k # l => DirectoryHolds(k)'
    BY <1>1, <1>2, <1>3, <1>4, SameDirectory
  <2> QED BY <1>7, <1>8, <2>1
<1>11. \A i \in 1 .. Len(children) : i < at' => PackageWritten(children[i])'
  <2> SUFFICES ASSUME NEW i \in 1 .. Len(children), i < at + 1, i # at PROVE PackageWritten(children[i])'
    BY <1>0, <1>1, <1>9
  <2>1. i < at /\ children[i] # l /\ children[i] \in LibraryNames
    BY <1>0, <1>1, <1>2
  <2> QED BY <1>1, <1>3, <1>4, <2>1, SameDirectory
<1>12. DigestHolds'
  <2>1. \A i : Libraries!collectImports(children[i])' = Libraries!collectImports(children[i])
    BY <1>1, SameLibraries
  <2> QED BY <1>1, <1>10, <1>11, <2>1 DEF DigestHolds, LibrariesInv, PackageWritten
<1>13. RunTypes' /\ PrebuildHolds' /\ DeliverHolds'
  BY <1>1, <1>4 DEF LibrariesInv, RunTypes, PrebuildHolds, DeliverHolds, Distinct
<1>14. RegistryHolds' /\ FinishedHold'
  BY <1>1, RegistryStays DEF LibrariesInv
<1> QED BY <1>12, <1>13, <1>14 DEF LibrariesInv

(* A library goes to the registry, or ends the run.                        *)
LEMMA PublishKeepsLibraries ==
  ASSUME LibrariesInv, Libraries!publishOnNpm
  PROVE  LibrariesInv'
<1>0. PICK l : l = children[at]
  OBVIOUS
<1> DEFINE new == [name |-> l, version |-> version, copies |-> output[l], of |-> Libraries!Loaded]
<1>1. /\ phase = "deliver" /\ run = "publish" /\ Mode[l] = "PEER"
      /\ at \in 1 .. Len(children) /\ children \in Seq(LibraryNames) /\ Distinct(children)
      /\ DOMAIN output = LibraryNames
  BY <1>0 DEF Libraries!publishOnNpm, Libraries!Here, LibrariesInv, RunTypes
<1>2. CASE Libraries!Published(l, version)
  <2>1. Libraries!Ended(FALSE) /\ UNCHANGED <<registry, output>>
    BY <1>0, <1>2 DEF Libraries!publishOnNpm, Libraries!Here
  <2> QED BY <1>1, <2>1, EndedKeepsLibraries
<1>3. CASE ~Libraries!Published(l, version)
  <2>1. /\ registry' = registry \union {new} /\ at' = at + 1
        /\ UNCHANGED <<version, run, phase, children, imports, peers, finished, output>>
    BY <1>0, <1>3 DEF Libraries!publishOnNpm, Libraries!Onwards, Libraries!Here
  <2>2. /\ l \in Libraries!Loaded /\ DirectoryHolds(l) /\ PackageWritten(l)
        /\ \A k \in Libraries!Loaded : DirectoryHolds(k) /\ PackageWritten(k)
    BY <1>0, <1>1, LoadedAreMany DEF LibrariesInv, DeliverHolds
  <2>3. new.name = l /\ new.version = version /\ new.copies = output[l] /\ new.of = Libraries!Loaded
    OBVIOUS
  <2> HIDE DEF new
  <2>4. \A k, v, of : PublishedOf(k, v, of) => (PublishedOf(k, v, of))'
    <3> SUFFICES ASSUME NEW k, NEW v, NEW of, PublishedOf(k, v, of), k = l /\ v = version => FALSE
                 PROVE  (PublishedOf(k, v, of))'
      BY <1>3 DEF PublishedOf
    <3> QED BY <2>1, <2>3 DEF PublishedOf, Libraries!Published
  <2>5. FinishedHold'
    BY <2>1, <2>4 DEF LibrariesInv, FinishedHold
  <2>6. (PublishedOf(l, version, Libraries!Loaded))'
    <3>1. Libraries!Loaded' = Libraries!Loaded /\ version' = version
      BY <2>1, SameLibraries
    <3> QED BY <1>3, <2>1, <2>3, <3>1 DEF PublishedOf, Libraries!Published
  <2>7. RegistryHolds'
    <3>1. \A r \in new.copies : r.from = new.version
      BY <2>2, <2>3 DEF DirectoryHolds
    <3>2. \A x \in Requires[new.version][new.name] \intersect new.of :
             IF Mode[x] = "PEER"
             THEN \E r \in new.copies : r.path = <<>> /\ x \in r.peers
             ELSE /\ \E r \in new.copies : r.path = <<x>>
                  /\ \A r \in new.copies : r.path = <<>> => x \notin r.raw
      <4> SUFFICES ASSUME NEW x \in Libraries!collectImports(l)
                   PROVE  IF Mode[x] = "PEER"
                          THEN \E r \in output[l] : r.path = <<>> /\ x \in r.peers
                          ELSE /\ \E r \in output[l] : r.path = <<x>>
                               /\ \A r \in output[l] : r.path = <<>> => x \notin r.raw
        BY <2>3 DEF Libraries!collectImports
      <4>1. x \in Libraries!Loaded /\ x \notin imports[l]
        BY <2>2 DEF PackageWritten, Libraries!collectImports
      <4>2. CASE Mode[x] = "PEER"
        BY <2>2, <4>1, <4>2 DEF DirectoryHolds, PackageWritten
      <4>3. CASE Mode[x] # "PEER"
        BY <2>2, <4>1, <4>3 DEF DirectoryHolds
      <4> QED BY <4>2, <4>3
    <3>3. Libraries!MoreThanEmbedded(new.version, new.of) =>
             \A r \in new.copies : \A x \in r.raw \intersect new.of : Mode[x] = "PEER"
      BY <2>2, <2>3 DEF DirectoryHolds, PackageWritten
    <3>4. /\ Mode[new.name] = "PEER"
          /\ \A r \in new.copies : r.path = <<>> =>
                \A x \in r.peers \intersect LibraryNames : x \in new.of /\ Mode[x] = "PEER"
      BY <1>1, <2>2, <2>3 DEF DirectoryHolds, PackageWritten
    <3>5. Libraries!OneVersion' /\ Libraries!OwnImportsResolve'
      BY <2>1, <3>1, <3>2 DEF LibrariesInv, RegistryHolds, Libraries!OneVersion, Libraries!OwnImportsResolve
    <3>6. Libraries!EmbedsAreFinished'
      BY <2>1, <3>3 DEF LibrariesInv, RegistryHolds, Libraries!EmbedsAreFinished, Libraries!MoreThanEmbedded
    <3> QED BY <2>1, <3>4, <3>5, <3>6 DEF LibrariesInv, RegistryHolds
  <2>8. DeliverHolds'
    <3>1. \A k \in Libraries!Loaded' : (DirectoryHolds(k) /\ PackageWritten(k))'
      BY <2>1, <2>2, SameDirectory, SameLibraries
    <3>2. \A i \in 1 .. Len(children') : i < at' /\ Mode[children'[i]] = "PEER" =>
             (PublishedOf(children[i], version, Libraries!Loaded))'
      <4> SUFFICES ASSUME NEW i \in 1 .. Len(children), i < at + 1, Mode[children[i]] = "PEER"
                   PROVE  (PublishedOf(children[i], version, Libraries!Loaded))'
        BY <2>1
      <4>1. CASE i = at
        BY <1>0, <2>1, <2>6, <4>1
      <4>2. CASE i < at
        <5>1. PublishedOf(children[i], version, Libraries!Loaded)
          BY <1>1, <4>2 DEF LibrariesInv, DeliverHolds
        <5>2. Libraries!Loaded' = Libraries!Loaded /\ version' = version /\ children' = children
          BY <2>1, SameLibraries
        <5> QED BY <2>4, <5>1, <5>2
      <4> QED BY <1>1, <4>1, <4>2
    <3> QED BY <3>1, <3>2 DEF DeliverHolds
  <2>9. RunTypes' /\ PrebuildHolds' /\ DigestHolds'
    BY <1>1, <2>1 DEF LibrariesInv, RunTypes, PrebuildHolds, DigestHolds, Distinct
  <2> QED BY <2>5, <2>7, <2>8, <2>9 DEF LibrariesInv
<1> QED BY <1>2, <1>3

(* The others that go on with the next library.                            *)
LEMMA OnwardsKeepsLibraries ==
  ASSUME LibrariesInv, Libraries!Onwards, UNCHANGED registry, phase \in {"deliver", "tag"},
         at \in 1 .. Len(children), run = "publish" => Mode[children[at]] # "PEER"
  PROVE  LibrariesInv'
<1>1. at' = at + 1 /\ UNCHANGED <<version, run, phase, children, imports, peers, finished, output>>
  BY DEF Libraries!Onwards
<1>2. RunTypes' /\ PrebuildHolds' /\ DigestHolds'
  BY <1>1 DEF LibrariesInv, RunTypes, PrebuildHolds, DigestHolds, Distinct
<1>3. RegistryHolds' /\ FinishedHold'
  BY <1>1, RegistryStays DEF LibrariesInv
<1>4. DeliverHolds'
  <2> SUFFICES ASSUME phase = "deliver" PROVE DeliverHolds'
    BY <1>1 DEF DeliverHolds
  <2>1. Libraries!Loaded' = Libraries!Loaded /\ version' = version /\ children' = children
    BY <1>1, SameLibraries
  <2>2. \A k \in Libraries!Loaded' : (DirectoryHolds(k) /\ PackageWritten(k))'
    BY <1>1, <2>1, SameDirectory DEF LibrariesInv, DeliverHolds
  <2>3. \A k, v, of : (PublishedOf(k, v, of))' <=> PublishedOf(k, v, of)
    BY DEF PublishedOf, Libraries!Published
  <2>4. run' = "publish" => \A i \in 1 .. Len(children') :
           i < at' /\ Mode[children'[i]] = "PEER" => (PublishedOf(children[i], version, Libraries!Loaded))'
    BY <1>1, <2>1, <2>3 DEF LibrariesInv, DeliverHolds
  <2> QED BY <2>2, <2>4 DEF DeliverHolds
<1> QED BY <1>2, <1>3, <1>4 DEF LibrariesInv

LEMMA LibrariesInductive == LibrariesInv /\ [Libraries!Next]_(Libraries!vars) => LibrariesInv'
<1> SUFFICES ASSUME LibrariesInv, [Libraries!Next]_(Libraries!vars) PROVE LibrariesInv'
  OBVIOUS
<1>0. /\ DOMAIN output = LibraryNames /\ DOMAIN imports = LibraryNames /\ DOMAIN peers = LibraryNames
      /\ children \in Seq(LibraryNames) /\ Distinct(children) /\ at \in Nat \ {0}
      /\ run = None => phase = "idle"
  BY DEF LibrariesInv, RunTypes
<1>1. CASE UNCHANGED Libraries!vars
  <2>1. UNCHANGED <<version, run, phase, children, output, imports, peers, at, registry, finished>>
    BY <1>1 DEF Libraries!vars, Libraries!building, Libraries!released
  <2>2. RegistryHolds' /\ FinishedHold'
    BY <2>1, RegistryStays DEF LibrariesInv
  <2>3. Libraries!Loaded' = Libraries!Loaded /\ (\A l : Libraries!collectImports(l)' = Libraries!collectImports(l))
        /\ \A l : (DirectoryHolds(l) => DirectoryHolds(l)') /\ (PackageWritten(l) => PackageWritten(l)')
    BY <2>1, SameLibraries, SameDirectory
  <2>4. RunTypes' /\ PrebuildHolds'
    BY <2>1, <2>3 DEF LibrariesInv, RunTypes, PrebuildHolds, Distinct, Libraries!Notbuilt, Libraries!Compiled
  <2>5. DigestHolds'
    BY <2>1, <2>3 DEF LibrariesInv, DigestHolds
  <2>6. DeliverHolds'
    <3>1. \A k, v, of : (PublishedOf(k, v, of))' <=> PublishedOf(k, v, of)
      BY <2>1 DEF PublishedOf, Libraries!Published
    <3> QED BY <2>1, <2>3, <3>1 DEF LibrariesInv, DeliverHolds
  <2> QED BY <2>2, <2>4, <2>5, <2>6 DEF LibrariesInv
<1>2. CASE Libraries!NewVersion
  <2>1. phase' = "idle" /\ UNCHANGED <<run, phase, children, output, imports, peers, at, registry, finished>>
    BY <1>0, <1>2 DEF Libraries!NewVersion, Libraries!building, Libraries!released
  <2>2. RunTypes' /\ PrebuildHolds' /\ DigestHolds' /\ DeliverHolds'
    BY <2>1 DEF LibrariesInv, RunTypes, PrebuildHolds, DigestHolds, DeliverHolds, Distinct
  <2>3. RegistryHolds' /\ FinishedHold'
    BY <2>1, RegistryStays DEF LibrariesInv
  <2> QED BY <2>2, <2>3 DEF LibrariesInv
<1>3. CASE Libraries!Start
  <2>1. PICK cmd \in {"publish", "patch", "set-latest"}, s \in Scans :
           /\ run' = cmd /\ children' = s
           /\ phase' = IF cmd = "set-latest" THEN "tag" ELSE "prebuild"
    BY <1>3 DEF Libraries!Start, Libraries!scanRoot
  <2>2. /\ imports' = [l \in LibraryNames |-> {}] /\ peers' = [l \in LibraryNames |-> {None}] /\ at' = 1
        /\ UNCHANGED <<output, registry, finished>>
    BY <1>3 DEF Libraries!Start, Libraries!released
  <2>3. s \in Seq(LibraryNames) /\ Distinct(s) /\ cmd # None
    BY LibrariesMade DEF Distinct
  <2>4. RunTypes'
    BY <1>0, <2>1, <2>2, <2>3 DEF RunTypes
  <2>5. \A l \in Libraries!Loaded' : Libraries!Notbuilt(l)'
    <3>1. \A l \in Libraries!Loaded' : l \in LibraryNames
      BY <2>1, <2>3 DEF Libraries!Loaded, Libraries!Elements
    <3> QED BY <2>2, <3>1 DEF Libraries!Notbuilt
  <2>6. PrebuildHolds' /\ DigestHolds' /\ DeliverHolds'
    BY <2>1, <2>5 DEF PrebuildHolds, DigestHolds, DeliverHolds
  <2>7. RegistryHolds' /\ FinishedHold'
    BY <2>2, RegistryStays DEF LibrariesInv
  <2> QED BY <2>4, <2>6, <2>7 DEF LibrariesInv
<1>4. CASE Libraries!Killed
  BY <1>0, <1>4, EndedKeepsLibraries DEF Libraries!Killed
<1>5. ASSUME NEW l \in LibraryNames, Libraries!prebuild(l) PROVE LibrariesInv'
  <2>1. /\ phase = "prebuild" /\ l \in Libraries!Loaded
        /\ output' = [output EXCEPT ![l] = Libraries!Compiled(l)]
        /\ imports' = [imports EXCEPT ![l] = Libraries!collectImports(l)]
        /\ peers' = [peers EXCEPT ![l] = Requires[version][l] \intersect Packages]
        /\ UNCHANGED <<version, run, phase, children, at, registry, finished>>
    BY <1>5 DEF Libraries!prebuild, Libraries!Cleared, Libraries!released
  <2>2. Libraries!Loaded' = Libraries!Loaded /\ (\A k : Libraries!collectImports(k)' = Libraries!collectImports(k)) /\ Libraries!Loaded \subseteq LibraryNames
    BY <1>0, <2>1, SameLibraries, LoadedAreMany
  <2>3. \A k : Libraries!Compiled(k)' = Libraries!Compiled(k)
    BY <2>1 DEF Libraries!Compiled
  <2>4. RunTypes' /\ DigestHolds' /\ DeliverHolds'
    BY <1>0, <2>1 DEF LibrariesInv, RunTypes, DigestHolds, DeliverHolds, Distinct
  <2>5. PrebuildHolds'
    BY <1>0, <2>1, <2>2, <2>3 DEF LibrariesInv, PrebuildHolds, Libraries!Notbuilt
  <2>6. RegistryHolds' /\ FinishedHold'
    BY <2>1, RegistryStays DEF LibrariesInv
  <2> QED BY <2>4, <2>5, <2>6 DEF LibrariesInv
<1>6. CASE Libraries!PrebuildFails
  <2>1. DOMAIN output' = LibraryNames
    BY <1>6 DEF Libraries!PrebuildFails
  <2> QED BY <1>6, <2>1, EndedKeepsLibraries DEF Libraries!PrebuildFails
<1>7. CASE Libraries!Arrange
  BY <1>7, ArrangeKeepsLibraries
<1>8. CASE Libraries!Digest
  BY <1>8, DigestKeepsLibraries
<1>9. CASE Libraries!writePackage
  BY <1>9, WriteKeepsLibraries
<1>10. CASE Libraries!Built
  <2>1. /\ phase = "digest" /\ at > Len(children) /\ phase' = "deliver" /\ at' = 1
        /\ UNCHANGED <<version, run, children, output, imports, peers, registry, finished>>
    BY <1>10 DEF Libraries!Built, Libraries!building, Libraries!released
  <2>2. Libraries!Loaded' = Libraries!Loaded /\ Len(children) \in Nat
        /\ \A l \in Libraries!Loaded : Libraries!Position(l) \in 1 .. Len(children) /\ children[Libraries!Position(l)] = l
    BY <1>0, <2>1, SameLibraries, LoadedAreMany
  <2>3. \A i \in 1 .. Len(children) : PackageWritten(children[i])
    BY <1>0, <2>1, <2>2 DEF LibrariesInv, DigestHolds
  <2>4. \A l \in Libraries!Loaded : DirectoryHolds(l) /\ PackageWritten(l)
    BY <2>1, <2>2, <2>3 DEF LibrariesInv, DigestHolds
  <2>5. \A l \in Libraries!Loaded' : (DirectoryHolds(l) /\ PackageWritten(l))'
    BY <2>1, <2>2, <2>4, SameDirectory
  <2>6. DeliverHolds'
    BY <2>1, <2>5 DEF DeliverHolds
  <2>7. RunTypes' /\ PrebuildHolds' /\ DigestHolds'
    BY <1>0, <2>1 DEF LibrariesInv, RunTypes, PrebuildHolds, DigestHolds, Distinct
  <2>8. RegistryHolds' /\ FinishedHold'
    BY <2>1, RegistryStays DEF LibrariesInv
  <2> QED BY <2>6, <2>7, <2>8 DEF LibrariesInv
<1>11. CASE Libraries!publishOnNpm
  BY <1>11, PublishKeepsLibraries
<1>12. CASE Libraries!PatchAnother
  BY <1>0, <1>12, OnwardsKeepsLibraries DEF Libraries!PatchAnother
<1>13. CASE Libraries!SkipEmbedded
  BY <1>0, <1>13, OnwardsKeepsLibraries DEF Libraries!SkipEmbedded, Libraries!Here
<1>14. CASE Libraries!SetLatest
  <2>1. phase = "tag" /\ run # "publish" /\ at \in 1 .. Len(children) /\ UNCHANGED registry
    BY <1>0, <1>14 DEF Libraries!SetLatest, LibrariesInv, RunTypes
  <2>2. CASE Libraries!Onwards
    BY <2>1, <2>2, OnwardsKeepsLibraries
  <2>3. CASE Libraries!Ended(FALSE) /\ UNCHANGED output
    BY <1>0, <2>1, <2>3, EndedKeepsLibraries
  <2> QED BY <1>14, <2>2, <2>3 DEF Libraries!SetLatest
<1>15. CASE Libraries!Succeed
  <2>1. /\ phase \in {"deliver", "tag"} /\ at > Len(children) /\ Libraries!Ended(TRUE)
        /\ UNCHANGED <<output, registry>>
    BY <1>15 DEF Libraries!Succeed
  <2>2. ASSUME run = "publish", NEW l \in Libraries!Loaded, Mode[l] = "PEER" PROVE PublishedOf(l, version, Libraries!Loaded)
    <3>1. phase = "deliver"
      BY <2>1, <2>2 DEF LibrariesInv, RunTypes
    <3>2. Libraries!Position(l) \in 1 .. Len(children) /\ children[Libraries!Position(l)] = l /\ Len(children) \in Nat
      BY <1>0, <2>2, LoadedAreMany
    <3>3. Libraries!Position(l) < at
      BY <1>0, <2>1, <3>2
    <3> QED BY <2>2, <3>1, <3>2, <3>3 DEF LibrariesInv, DeliverHolds
  <2> QED BY <1>0, <2>1, <2>2, EndedKeepsLibraries
<1> QED BY <1>1, <1>2, <1>3, <1>4, <1>5, <1>6, <1>7, <1>8, <1>9, <1>10, <1>11, <1>12, <1>13, <1>14, <1>15 DEF Libraries!Next

(* A package has only peers that were loaded with it, and whoever finishes *)
(* has published all of those.                                             *)
LEMMA LibrariesFollow == LibrariesInv => Libraries!LibrariesHold
<1> SUFFICES ASSUME LibrariesInv PROVE Libraries!FinishedIsClosed
  BY DEF LibrariesInv, RegistryHolds, Libraries!LibrariesHold
<1> SUFFICES ASSUME NEW f \in finished, NEW p \in registry, p.version = f.version, p.name \in f.of,
                    NEW r \in p.copies, r.path = <<>>, NEW x \in r.peers \intersect LibraryNames
             PROVE  Libraries!Published(x, p.version)
  BY DEF Libraries!FinishedIsClosed
<1>1. Mode[p.name] = "PEER" /\ x \in p.of /\ Mode[x] = "PEER"
  BY DEF LibrariesInv, RegistryHolds
<1>2. p.of = f.of
  BY <1>1 DEF LibrariesInv, FinishedHold, PublishedOf
<1> QED BY <1>1, <1>2 DEF LibrariesInv, FinishedHold, PublishedOf

-----------------------------------------------------------------------------
(* SearchPages.  Where a row is in an order is how many rows precede it;   *)
(* a page holds the rows of so many ranks.                                 *)
Above(S, id) == {j \in S : Pages!Precedes(j, id, ask.list)}
RankIn(S, id) == Cardinality(Above(S, id))
InOrder(S) ==
    \A i, j \in S : IF i = j THEN ~Pages!Precedes(i, j, ask.list)
                    ELSE Pages!Precedes(i, j, ask.list) \/ Pages!Precedes(j, i, ask.list)
Times(c, id) == Cardinality({n \in 1 .. Len(c) : c[n] = id})
Expected(n) == Pages!Least(Pages!Size, IF n > Pages!Size * page THEN n - Pages!Size * page ELSE 0)

LEMMA RankType ==
  ASSUME NEW S, IsFiniteSet(S), NEW id
  PROVE  RankIn(S, id) \in Nat /\ (id \in S /\ InOrder(S) => RankIn(S, id) < Cardinality(S))
<1>1. PICK T : T = Above(S, id)
  OBVIOUS
<1>2. T \subseteq S /\ (id \in S /\ InOrder(S) => id \notin T)
  BY <1>1 DEF Above, InOrder
<1>3. IsFiniteSet(T) /\ Cardinality(T) <= Cardinality(S) /\ (Cardinality(S) = Cardinality(T) => S = T)
  BY <1>2, FS_Subset
<1>4. Cardinality(T) \in Nat /\ Cardinality(S) \in Nat
  BY <1>3, FS_CardinalityType
<1> QED BY <1>1, <1>2, <1>3, <1>4 DEF RankIn

LEMMA OrderOf ==
  ASSUME NEW F, IsFiniteSet(F), NEW o \in Pages!Orders(F, ask.list)
  PROVE  /\ o \in Seq(F) /\ Len(o) = Cardinality(F) /\ Cardinality(F) \in Nat
         /\ o \in [1 .. Cardinality(F) -> F]
         /\ \A m, n \in 1 .. Cardinality(F) : m < n => o[m] # o[n] /\ ~Pages!Precedes(o[n], o[m], ask.list)
         /\ \A id \in F : \E m \in 1 .. Cardinality(F) : o[m] = id
<1>1. Pages!Cardinality(F) = Cardinality(F)
  BY DEF Pages!Cardinality, Cardinality
<1>2. PICK n \in Nat : n = Cardinality(F)
  BY FS_CardinalityType
<1>3. o \in [1 .. n -> F] /\ \A l, m \in 1 .. n : l < m => o[l] # o[m] /\ ~Pages!Precedes(o[m], o[l], ask.list)
  BY <1>1, <1>2 DEF Pages!Orders
<1>4. o \in Seq(F) /\ Len(o) = n
  BY <1>2, <1>3, SeqDef
<1>5. PICK D : D = 1 .. n
  OBVIOUS
<1>6. IsFiniteSet(D) /\ Cardinality(D) = n
  BY <1>5, FS_Interval
<1>7. o \in [D -> F] /\ \A l, m \in D : o[l] = o[m] => l = m
  BY <1>3, <1>5
<1>8. ASSUME NEW id \in F PROVE \E m \in D : o[m] = id
  BY <1>2, <1>6, <1>7, OneToOneIsOnto
<1> QED BY <1>2, <1>3, <1>4, <1>5, <1>8

(* The rank of a row is the place that it has.                             *)
LEMMA RankOf ==
  ASSUME NEW F, IsFiniteSet(F), InOrder(F), NEW o \in Pages!Orders(F, ask.list), NEW i \in 1 .. Cardinality(F)
  PROVE  RankIn(F, o[i]) = i - 1
<1>1. PICK n \in Nat : n = Cardinality(F)
  BY FS_CardinalityType
<1>2. o \in [1 .. n -> F] /\ \A l, m \in 1 .. n : l < m => o[l] # o[m] /\ ~Pages!Precedes(o[m], o[l], ask.list)
  BY <1>1, OrderOf
<1>3. PICK T : T = Above(F, o[i])
  OBVIOUS
<1>4. i \in 1 .. n /\ i - 1 \in Nat
  BY <1>1
<1>5. \A id \in F : \E l \in 1 .. n : o[l] = id
  BY <1>1, OrderOf
<1>6. \A l \in 1 .. n : o[l] \in T <=> l < i
  <2> SUFFICES ASSUME NEW l \in 1 .. n PROVE o[l] \in T <=> l < i
    OBVIOUS
  <2>1. o[l] \in T <=> Pages!Precedes(o[l], o[i], ask.list)
    BY <1>2, <1>3, <1>4 DEF Above
  <2>2. CASE l < i
    <3>1. o[l] # o[i] /\ ~Pages!Precedes(o[i], o[l], ask.list) /\ o[l] \in F /\ o[i] \in F
      BY <1>2, <1>4, <2>2
    <3> QED BY <2>1, <2>2, <3>1 DEF InOrder
  <2>3. CASE l = i
    BY <1>2, <1>4, <2>1, <2>3 DEF InOrder
  <2>4. CASE i < l
    BY <1>2, <1>4, <2>1, <2>4
  <2> QED BY <1>4, <2>2, <2>3, <2>4
<1>7. PICK f : f = [l \in 1 .. i - 1 |-> o[l]]
  OBVIOUS
<1>8. \A l \in 1 .. i - 1 : f[l] = o[l] /\ l \in 1 .. n /\ o[l] \in T
  BY <1>4, <1>6, <1>7
<1>9. \A id \in T : \E l \in 1 .. i - 1 : f[l] = id
  <2> SUFFICES ASSUME NEW id \in T PROVE \E l \in 1 .. i - 1 : f[l] = id
    OBVIOUS
  <2>1. PICK l \in 1 .. n : o[l] = id
    BY <1>3, <1>5 DEF Above
  <2>2. l \in 1 .. i - 1
    BY <1>4, <1>6, <2>1
  <2> QED BY <1>8, <2>1, <2>2
<1>10. \A l, m \in 1 .. i - 1 : f[l] = f[m] => l = m
  BY <1>2, <1>4, <1>8
<1>11. f \in [1 .. i - 1 -> T]
  BY <1>7, <1>8
<1>12. ExistsBijection(1 .. i - 1, T)
  <2>1. f \in Injection(1 .. i - 1, T)
    BY <1>10, <1>11 DEF Injection, IsInjective
  <2>2. f \in Surjection(1 .. i - 1, T)
    BY <1>9, <1>11 DEF Surjection
  <2> QED BY <2>1, <2>2 DEF ExistsBijection, Bijection
<1> QED BY <1>3, <1>4, <1>12, FS_CountingElements DEF RankIn

-----------------------------------------------------------------------------
(* What a page holds.                                                      *)
LEMMA PageHolds ==
  ASSUME NEW F, IsFiniteSet(F), F \subseteq RowIds, NEW o \in Pages!Orders(F, ask.list), NEW p \in Nat,
         NEW s \in Nat \ {0}, s = Pages!Size, NEW k \in Nat, k = s * p, NEW c, c = Pages!PageOf(o, p)
  PROVE  /\ c \in Seq(RowIds) /\ Len(c) = Pages!Least(s, IF Cardinality(F) > k THEN Cardinality(F) - k ELSE 0)
         /\ Len(c) \in Nat /\ \A i \in 1 .. Len(c) : c[i] = o[k + i] /\ k + i \in 1 .. Cardinality(F)
<1>1. PICK n \in Nat : n = Cardinality(F)
  BY FS_CardinalityType
<1>2. o \in [1 .. n -> F] /\ Len(o) = n
  BY <1>1, OrderOf
<1>3. PICK last : last = Pages!Least(k + s, n)
  OBVIOUS
<1>4. last = (IF k + s < n THEN k + s ELSE n) /\ last \in Nat
  BY <1>3 DEF Pages!Least
<1>5. c = SubSeq(o, k + 1, last)
  BY <1>2, <1>3 DEF Pages!PageOf, Pages!Skipped
<1>6. k + 1 \in Int /\ last \in Int /\ \A i \in k + 1 .. last : o[i] \in RowIds
  BY <1>2, <1>4
<1>7. PICK b : b = k + 1
  OBVIOUS
<1>8. /\ SubSeq(o, b, last) \in Seq(RowIds) /\ Len(SubSeq(o, b, last)) = IF b <= last THEN last - b + 1 ELSE 0
      /\ \A i \in 1 .. last - b + 1 : SubSeq(o, b, last)[i] = o[b + i - 1]
  BY <1>6, <1>7, SubSeqProperties
<1>9. c \in Seq(RowIds) /\ Len(c) = (IF k + 1 <= last THEN last - k ELSE 0)
  BY <1>4, <1>5, <1>7, <1>8
<1>10. \A i \in 1 .. last - k : c[i] = o[k + i] /\ k + i \in 1 .. n
  <2> SUFFICES ASSUME NEW i \in 1 .. last - k PROVE c[i] = o[k + i] /\ k + i \in 1 .. n
    OBVIOUS
  <2>1. i \in 1 .. last - b + 1 /\ b + i - 1 = k + i
    BY <1>4, <1>7
  <2>2. c[i] = o[b + i - 1]
    BY <1>5, <1>7, <1>8, <2>1
  <2>3. k + i \in 1 .. n
    BY <1>4
  <2> QED BY <2>1, <2>2, <2>3
<1>11. Len(c) = Pages!Least(s, IF n > k THEN n - k ELSE 0) /\ Len(c) \in Nat
  BY <1>4, <1>9 DEF Pages!Least
<1>12. 1 .. Len(c) \subseteq 1 .. last - k
  BY <1>4, <1>9
<1> QED BY <1>1, <1>9, <1>10, <1>11, <1>12

(* In an order with no equals a row is on one page, once.                  *)
LEMMA PageShows ==
  ASSUME NEW F, IsFiniteSet(F), F \subseteq RowIds, InOrder(F), NEW o \in Pages!Orders(F, ask.list), NEW p \in Nat,
         NEW s \in Nat \ {0}, s = Pages!Size, NEW k \in Nat, k = s * p, NEW c, c = Pages!PageOf(o, p), NEW id
  PROVE  /\ Times(c, id) = IF id \in F /\ k <= RankIn(F, id) /\ RankIn(F, id) < k + s THEN 1 ELSE 0
         /\ id \in F /\ k <= RankIn(F, id) /\ RankIn(F, id) < k + s => \E i \in 1 .. Len(c) : c[i] = id
<1>1. PICK n \in Nat : n = Cardinality(F)
  BY FS_CardinalityType
<1>2. /\ o \in [1 .. n -> F] /\ \A l, m \in 1 .. n : l < m => o[l] # o[m]
      /\ \A i \in 1 .. n : RankIn(F, o[i]) = i - 1
  BY <1>1, OrderOf, RankOf
<1>3. /\ Len(c) \in Nat /\ Len(c) = Pages!Least(s, IF n > k THEN n - k ELSE 0)
      /\ \A i \in 1 .. Len(c) : c[i] = o[k + i] /\ k + i \in 1 .. n
  BY <1>1, PageHolds
<1>4. \A j \in F : \E l \in 1 .. n : o[l] = j
  BY <1>1, OrderOf
<1>5. PICK T : T = {i \in 1 .. Len(c) : c[i] = id}
  OBVIOUS
<1>6. CASE id \in F /\ k <= RankIn(F, id) /\ RankIn(F, id) < k + s
  <2>1. PICK l \in 1 .. n : o[l] = id
    BY <1>4, <1>6
  <2>2. PICK i : i = l - k
    OBVIOUS
  <2>3. l - 1 >= k /\ l - 1 < k + s
    BY <1>2, <1>6, <2>1
  <2>4. i \in 1 .. Len(c) /\ k + i = l
    BY <1>3, <2>2, <2>3 DEF Pages!Least
  <2>5. \A j \in 1 .. Len(c) : c[j] = id <=> j = i
    <3> SUFFICES ASSUME NEW j \in 1 .. Len(c) PROVE c[j] = id <=> j = i
      OBVIOUS
    <3>1. k + j \in 1 .. n /\ c[j] = o[k + j]
      BY <1>3
    <3>2. o[k + j] = o[l] => k + j = l
      BY <1>2, <3>1
    <3> QED BY <1>3, <2>1, <2>4, <3>1, <3>2
  <2>6. T = {i}
    BY <1>5, <2>4, <2>5
  <2>7. Times(c, id) = 1
    BY <1>5, <2>6, FS_Singleton DEF Times
  <2> QED BY <1>6, <2>4, <2>5, <2>7
<1>7. CASE ~(id \in F /\ k <= RankIn(F, id) /\ RankIn(F, id) < k + s)
  <2>1. \A i \in 1 .. Len(c) : c[i] # id
    <3> SUFFICES ASSUME NEW i \in 1 .. Len(c), c[i] = id PROVE FALSE
      OBVIOUS
    <3>1. k + i \in 1 .. n /\ o[k + i] = id /\ Len(c) <= s
      BY <1>3 DEF Pages!Least
    <3>2. id \in F /\ RankIn(F, id) = k + i - 1
      BY <1>2, <3>1
    <3> QED BY <1>3, <1>7, <3>1, <3>2
  <2>2. T = {}
    BY <1>5, <2>1
  <2> QED BY <1>5, <1>7, <2>2, FS_EmptySet DEF Times
<1> QED BY <1>6, <1>7

-----------------------------------------------------------------------------
(* The variables of a reader; the pages of one list add up; what is read   *)
(* when the list did not change; and what is not missed when rows came.    *)
Listing == [key : Keys, active : BOOLEAN, own : BOOLEAN]
Owned == {id \in DOMAIN rows : rows[id].own}
Matching == Pages!Found(rows, ask.where, mine)
Begun == pc # "begin"

PagesTyped ==
    /\ IsFiniteSet(DOMAIN rows) /\ DOMAIN rows \subseteq RowIds /\ rows \in [DOMAIN rows -> Listing]
    /\ page \in Nat /\ read \in [RowIds -> Nat]
    /\ pc \in {"begin", "owner", "find", "answered", "refused", "end"}
    /\ content = None \/ content \in Seq(RowIds)
    /\ total = None \/ total \in Nat
    /\ ~Begun => mine = {} /\ page = 0 /\ read = [id \in RowIds |-> 0] /\ ~shifted /\ ~grown /\ ~torn
    /\ Begun => ask \in Pages!Asks /\ (ask.list = "posts" => ask.where = "active")
    /\ pc \in {"begin", "owner"} \/ (pc = "find" /\ ask.list # "posts") => content = None /\ total = None
    /\ pc = "owner" => ask.where = "mine"
    /\ pc = "answered" => content # None /\ total # None /\ Pages!Size \in Nat \ {0}

PagesAdd ==
    /\ pc = "find" /\ content # None /\ ~torn => Len(content) = Expected(Cardinality(Matching))
    /\ pc = "find" /\ total # None /\ ~torn => total = Cardinality(Matching)
    /\ pc = "answered" /\ ~torn => Len(content) = Expected(total)

Unchanging ==
    Begun /\ ~shifted /\ ~grown =>
        /\ ~torn /\ stayed = Pages!Found(rows, ask.where, Owned)
        /\ pc \in {"find", "answered"} => stayed = Matching /\ (total # None => total = Cardinality(stayed))

OnceEach ==
    Begun /\ ~shifted /\ ~grown /\ Pages!Ordered =>
        /\ pc \in {"owner", "find", "answered"} => \A id \in RowIds :
              read[id] = IF id \in stayed /\ RankIn(stayed, id) < Pages!Size * page THEN 1 ELSE 0
        /\ pc \in {"find", "answered"} /\ content # None => \A id \in RowIds :
              Times(content, id) = IF /\ id \in stayed /\ Pages!Size * page <= RankIn(stayed, id)
                                      /\ RankIn(stayed, id) < Pages!Size * (page + 1) THEN 1 ELSE 0
        /\ pc = "end" => \A id \in RowIds : read[id] = IF id \in stayed THEN 1 ELSE 0

Ahead(id, p) == RankIn(Matching, id) >= Pages!Size * p
Shown(id) == \E n \in DOMAIN content : content[n] = id
NoneMissed ==
    Begun /\ ~shifted /\ ask.list = "comments" =>
        /\ stayed \subseteq Pages!Found(rows, ask.where, Owned)
        /\ ask.where = "mine" => mine \subseteq Owned
        /\ pc \in {"find", "answered"} => stayed \subseteq Matching
        /\ pc \in {"owner", "find"} => \A id \in stayed : read[id] > 0 \/ Ahead(id, page)
        /\ pc = "answered" => \A id \in stayed :
              \/ read[id] > 0 \/ Shown(id)
              \/ Ahead(id, page + 1) /\ ~(Pages!lastPage \/ content = <<>>)
        /\ pc = "end" => \A id \in stayed : read[id] > 0

PagesInv == PagesTyped /\ PagesAdd /\ Unchanging /\ OnceEach /\ NoneMissed

LEMMA SizeKnown ==
  ASSUME PagesTyped, Begun
  PROVE  /\ Pages!Size \in Nat \ {0} \/ (Pages!Size \in Int /\ Pages!Size < 0 /\ ask.list # "posts")
         /\ ask.size \in Int
<1>1. ask.size \in Int
  BY RowsFirst DEF PagesTyped, Pages!Asks
<1> QED BY <1>1, RowsFirst DEF Pages!Size, Pages!SizeOf, Pages!Least

LEMMA RowsFound ==
  ASSUME PagesTyped, NEW where, NEW own
  PROVE  /\ Pages!Found(rows, where, own) \subseteq DOMAIN rows /\ Pages!Found(rows, where, own) \subseteq RowIds
         /\ IsFiniteSet(Pages!Found(rows, where, own)) /\ Cardinality(Pages!Found(rows, where, own)) \in Nat
<1>1. Pages!Found(rows, where, own) \subseteq DOMAIN rows
  BY DEF Pages!Found
<1> QED BY <1>1, FS_Subset, FS_CardinalityType DEF PagesTyped

LEMMA CommentsInOrder ==
  ASSUME PagesTyped, Begun, ask.list = "comments", NEW S, S \subseteq DOMAIN rows
  PROVE  InOrder(S)
<1>1. \A i \in DOMAIN rows : i \in Int /\ rows[i].key \in Int
  BY RowsFirst DEF PagesTyped, Listing
<1> QED BY <1>1 DEF InOrder, Pages!Precedes, Pages!ThenById, Pages!ByKey

LEMMA OrderedInOrder ==
  ASSUME PagesTyped, Begun, Pages!Ordered, stayed \subseteq DOMAIN rows
  PROVE  InOrder(stayed)
<1>1. CASE ask.list = "comments"
  BY <1>1, CommentsInOrder
<1>2. CASE ask.list # "comments"
  <2>1. \A i \in stayed : rows[i].key \in Int
    BY RowsFirst DEF PagesTyped, Listing
  <2>2. ask.sorted /\ \A i, j \in stayed : rows[i].key = rows[j].key => i = j
    BY <1>2 DEF Pages!Ordered
  <2> QED BY <1>2, <2>1, <2>2 DEF InOrder, Pages!Precedes, Pages!ByKey
<1> QED BY <1>1, <1>2

(* What a search reads is a page of the rows in some order, all of them.   *)
LEMMA SearchReads ==
  ASSUME PagesTyped, Begun, Pages!Size \in Nat \ {0}, NEW o \in Pages!Orders(Matching, ask.list)
  PROVE  /\ Pages!PageOf(o, page) \in Seq(RowIds) /\ Len(o) = Cardinality(Matching)
         /\ Len(Pages!PageOf(o, page)) = Expected(Cardinality(Matching))
<1>1. PICK F : F = Matching
  OBVIOUS
<1>2. F \subseteq RowIds /\ IsFiniteSet(F) /\ Cardinality(F) \in Nat
  BY <1>1, RowsFound DEF Matching
<1>3. PICK s : s = Pages!Size
  OBVIOUS
<1>4. PICK k : k = s * page
  OBVIOUS
<1>5. s \in Nat \ {0} /\ k \in Nat /\ page \in Nat
  BY <1>3, <1>4 DEF PagesTyped
<1>6. PICK c : c = Pages!PageOf(o, page)
  OBVIOUS
<1>7. c \in Seq(RowIds) /\ Len(c) = Pages!Least(s, IF Cardinality(F) > k THEN Cardinality(F) - k ELSE 0)
  BY <1>1, <1>2, <1>3, <1>4, <1>5, <1>6, PageHolds
<1>8. Len(o) = Cardinality(F)
  BY <1>1, <1>2, OrderOf
<1> QED BY <1>1, <1>3, <1>4, <1>6, <1>7, <1>8 DEF Expected

LEMMA PagesStart == Pages!Init => PagesInv
<1> SUFFICES ASSUME Pages!Init PROVE PagesInv
  OBVIOUS
<1>1. PagesTyped
  BY RowsFirst DEF Pages!Init, PagesTyped, Begun, Listing
<1> QED BY <1>1 DEF PagesInv, PagesAdd, Unchanging, OnceEach, NoneMissed, Begun, Pages!Init

-----------------------------------------------------------------------------
(* The types, step by step.                                                *)
LEMMA ChangedTyped ==
  ASSUME PagesTyped, NEW rs, Pages!Changed(rs),
         IsFiniteSet(DOMAIN rs), DOMAIN rs \subseteq RowIds, rs \in [DOMAIN rs -> Listing]
  PROVE  PagesTyped'
<1>1. /\ rows' = rs /\ UNCHANGED <<ask, pc, mine, page, content, total, read>> /\ pc \notin {"begin", "end", "refused"}
  BY DEF Pages!Changed
<1>2. Begun /\ Begun' /\ Pages!Size' = Pages!Size /\ Pages!Asks' = Pages!Asks
  BY <1>1 DEF Begun, Pages!Size, Pages!SizeOf, Pages!Asks
<1> QED BY <1>1, <1>2 DEF PagesTyped, Listing

(* The three searches: what is read is of the rows that match.             *)
Searched ==
    /\ Begun /\ pc = "find" /\ Pages!Size \in Nat \ {0}
    /\ UNCHANGED <<rows, ask, mine, page, read, stayed, shifted, grown, torn>>
    /\ \/ \E o \in Pages!Orders(Matching, ask.list) : content' = Pages!PageOf(o, page)
       \/ content' = content /\ ask.list = "posts"
    /\ total' = Cardinality(Matching) \/ (total' = total /\ ask.list = "posts")
    /\ pc' = IF content' # None /\ total' # None THEN "answered" ELSE "find"
Refused ==
    /\ Begun /\ pc = "find" /\ pc' = "refused"
    /\ UNCHANGED <<rows, ask, mine, page, content, total, read, stayed, shifted, grown, torn>>

LEMMA Searches ==
  ASSUME PagesTyped, Pages!modelSearch \/ Pages!FindPosts \/ Pages!CountPosts
  PROVE  Searched \/ Refused
<1>1. pc = "find" /\ Begun /\ UNCHANGED <<rows, ask, mine, page, read, stayed, shifted, grown, torn>>
  BY DEF Pages!modelSearch, Pages!FindPosts, Pages!CountPosts, Begun
<1>2. PICK F : F = Matching
  OBVIOUS
<1>3. Cardinality(F) \in Nat /\ IsFiniteSet(F) /\ Pages!Cardinality(F) = Cardinality(F)
  BY <1>2, RowsFound DEF Matching, Pages!Cardinality, Cardinality
<1>4. None \notin Nat /\ None \notin Seq(RowIds)
  BY RowsFirst
<1>5. Pages!Size \in Nat \ {0} => \A o \in Pages!Orders(F, ask.list) :
          Pages!PageOf(o, page) \in Seq(RowIds) /\ Len(o) = Cardinality(F)
  BY <1>1, <1>2, SearchReads
<1>6. CASE Pages!modelSearch
  <2>1. CASE Pages!Size < 0
    BY <1>1, <1>6, <2>1 DEF Pages!modelSearch, Refused
  <2>2. CASE ~(Pages!Size < 0)
    <3>1. Pages!Size \in Nat \ {0}
      BY <1>1, <2>2, SizeKnown
    <3>2. PICK o \in Pages!Orders(F, ask.list) : content' = Pages!PageOf(o, page) /\ total' = Len(o) /\ pc' = "answered"
      BY <1>2, <1>6, <2>2 DEF Pages!modelSearch, Matching
    <3>3. content' # None /\ total' # None /\ total' = Cardinality(F)
      BY <1>3, <1>4, <1>5, <3>1, <3>2
    <3> QED BY <1>1, <1>2, <3>1, <3>2, <3>3 DEF Searched
  <2> QED BY <2>1, <2>2
<1>7. CASE Pages!FindPosts
  <2>1. ask.list = "posts" /\ Pages!Size \in Nat \ {0} /\ total' = total
    BY <1>1, <1>7, SizeKnown DEF Pages!FindPosts
  <2>2. PICK o \in Pages!Orders(F, ask.list) : content' = Pages!PageOf(o, page)
    BY <1>2, <1>7 DEF Pages!FindPosts, Matching
  <2>3. content' # None /\ pc' = IF total = None THEN "find" ELSE "answered"
    BY <1>4, <1>5, <1>7, <2>1, <2>2 DEF Pages!FindPosts
  <2> QED BY <1>1, <1>2, <2>1, <2>2, <2>3 DEF Searched
<1>8. CASE Pages!CountPosts
  <2>1. ask.list = "posts" /\ Pages!Size \in Nat \ {0} /\ content' = content /\ total' = Cardinality(F)
    BY <1>1, <1>2, <1>3, <1>8, SizeKnown DEF Pages!CountPosts, Matching
  <2>2. total' # None /\ pc' = IF content = None THEN "find" ELSE "answered"
    BY <1>3, <1>4, <1>8, <2>1 DEF Pages!CountPosts
  <2> QED BY <1>1, <1>2, <2>1, <2>2 DEF Searched
<1> QED BY <1>6, <1>7, <1>8

LEMMA SearchTyped ==
  ASSUME PagesTyped, Searched \/ Refused
  PROVE  PagesTyped'
<1>1. /\ UNCHANGED <<rows, ask, mine, page, read, shifted, grown, torn>> /\ Begun /\ Begun' /\ pc = "find"
      /\ Pages!Size' = Pages!Size /\ Pages!Asks' = Pages!Asks
  BY DEF Searched, Refused, Begun, Pages!Size, Pages!SizeOf, Pages!Asks
<1>2. CASE Refused
  BY <1>1, <1>2 DEF PagesTyped, Refused, Listing
<1>3. CASE Searched
  <2>1. content' \in Seq(RowIds) \/ (content' = content /\ ask.list = "posts")
    BY <1>3, SearchReads DEF Searched
  <2>2. total' \in Nat \/ (total' = total /\ ask.list = "posts")
    BY <1>3, RowsFound DEF Searched, Matching
  <2>3. pc' = IF content' # None /\ total' # None THEN "answered" ELSE "find"
    BY <1>3 DEF Searched
  <2>4. Pages!Size \in Nat \ {0} /\ None \notin Nat /\ None \notin Seq(RowIds)
    BY <1>3, RowsFirst DEF Searched
  <2> QED BY <1>1, <2>1, <2>2, <2>3, <2>4 DEF PagesTyped, Listing
<1> QED BY <1>2, <1>3

LEMMA PagesTypedStays ==
  ASSUME PagesTyped, Pages!Next
  PROVE  PagesTyped'
<1>1. CASE Pages!Begin
  <2>1. PICK a \in Pages!Asks :
           /\ a.where = "mine" => a.list \in {"comments", "crud"}
           /\ a.where = "all" => a.list = "crud"
           /\ ask' = a /\ pc' = IF a.where = "mine" THEN "owner" ELSE "find"
    BY <1>1 DEF Pages!Begin
  <2>2. pc = "begin" /\ UNCHANGED <<rows, mine, page, content, total, read, shifted, grown, torn>>
    BY <1>1 DEF Pages!Begin
  <2>3. a.where \in {"active", "all", "mine"} /\ Pages!Asks' = Pages!Asks
    BY DEF Pages!Asks
  <2> QED BY <2>1, <2>2, <2>3 DEF PagesTyped, Begun, Listing
<1>2. CASE Pages!FindOwned
  <2>1. /\ pc = "owner" /\ pc' \in {"end", "find"} /\ UNCHANGED <<rows, ask, page, content, total, read, shifted, grown, torn>>
    BY <1>2 DEF Pages!FindOwned
  <2>2. Pages!Asks' = Pages!Asks
    BY DEF Pages!Asks
  <2> QED BY <2>1, <2>2 DEF PagesTyped, Begun, Listing
<1>3. CASE Pages!modelSearch \/ Pages!FindPosts \/ Pages!CountPosts
  BY <1>3, Searches, SearchTyped
<1>4. CASE Pages!Turn
  <2>1. /\ pc = "answered" /\ content' = None /\ total' = None /\ UNCHANGED <<rows, ask, mine, shifted, grown>>
        /\ \/ pc' = "end" /\ page' = page
           \/ pc' = (IF ask.where = "mine" THEN "owner" ELSE "find") /\ page' = page + 1
        /\ read' = [id \in RowIds |-> read[id] + Pages!Cardinality({n \in 1 .. Len(content) : content[n] = id})]
    BY <1>4 DEF Pages!Turn
  <2>2. Pages!Asks' = Pages!Asks
    BY DEF Pages!Asks
  <2>3. content \in Seq(RowIds) /\ Len(content) \in Nat
    BY <2>1, LenProperties DEF PagesTyped
  <2>4. \A id \in RowIds : Pages!Cardinality({n \in 1 .. Len(content) : content[n] = id}) \in Nat
    <3> SUFFICES ASSUME NEW id \in RowIds
                 PROVE  Pages!Cardinality({n \in 1 .. Len(content) : content[n] = id}) \in Nat
      OBVIOUS
    <3>1. PICK T : T = {n \in 1 .. Len(content) : content[n] = id}
      OBVIOUS
    <3>2. T \in SUBSET (1 .. Len(content)) /\ IsFiniteSet(1 .. Len(content))
      BY <2>3, <3>1, FS_Interval
    <3>3. Cardinality(T) \in Nat
      BY <3>2, FS_Subset, FS_CardinalityType
    <3> QED BY <3>1, <3>3 DEF Pages!Cardinality, Cardinality
  <2>5. read' \in [RowIds -> Nat] /\ page' \in Nat
    BY <2>1, <2>4 DEF PagesTyped
  <2> QED BY <2>1, <2>2, <2>5 DEF PagesTyped, Begun, Listing
<1>5. CASE Pages!Insert
  <2>1. PICK id \in RowIds \ DOMAIN rows, k \in Keys :
           Pages!Changed([i \in DOMAIN rows \union {id} |->
                             IF i = id THEN [key |-> k, active |-> TRUE, own |-> TRUE] ELSE rows[i]])
    BY <1>5 DEF Pages!Insert
  <2>2. PICK rs : rs = [i \in DOMAIN rows \union {id} |->
                           IF i = id THEN [key |-> k, active |-> TRUE, own |-> TRUE] ELSE rows[i]]
    OBVIOUS
  <2>3. DOMAIN rs = DOMAIN rows \union {id} /\ IsFiniteSet(DOMAIN rs) /\ rs \in [DOMAIN rs -> Listing]
    BY <2>2, FS_AddElement DEF PagesTyped, Listing
  <2> QED BY <2>1, <2>2, <2>3, ChangedTyped DEF PagesTyped
<1>6. CASE Pages!Delete
  <2>1. PICK id \in DOMAIN rows : Pages!Changed([i \in DOMAIN rows \ {id} |-> rows[i]])
    BY <1>6 DEF Pages!Delete
  <2>2. PICK rs : rs = [i \in DOMAIN rows \ {id} |-> rows[i]]
    OBVIOUS
  <2>3. DOMAIN rs = DOMAIN rows \ {id} /\ IsFiniteSet(DOMAIN rs) /\ rs \in [DOMAIN rs -> Listing]
    BY <2>2, FS_RemoveElement DEF PagesTyped
  <2> QED BY <2>1, <2>2, <2>3, ChangedTyped DEF PagesTyped
<1>7. CASE Pages!Touch
  <2>1. PICK id \in DOMAIN rows, row \in Listing : Pages!Changed([rows EXCEPT ![id] = row])
    BY <1>7 DEF Pages!Touch, Listing
  <2>2. PICK rs : rs = [rows EXCEPT ![id] = row]
    OBVIOUS
  <2>3. DOMAIN rs = DOMAIN rows /\ rs \in [DOMAIN rs -> Listing]
    BY <2>2 DEF PagesTyped
  <2> QED BY <2>1, <2>2, <2>3, ChangedTyped DEF PagesTyped
<1> QED BY <1>1, <1>2, <1>3, <1>4, <1>5, <1>6, <1>7 DEF Pages!Next

-----------------------------------------------------------------------------
(* What stays as it is while a reader goes on.                             *)
LEMMA SameAsk ==
  ASSUME ask' = ask
  PROVE  Pages!Size' = Pages!Size
BY DEF Pages!Size, Pages!SizeOf

LEMMA SameMatching ==
  ASSUME UNCHANGED <<rows, ask, mine>>
  PROVE  Matching' = Matching /\ Owned' = Owned /\ Pages!Found(rows, ask.where, Owned)' = Pages!Found(rows, ask.where, Owned)
<1>1. Owned' = Owned
  BY DEF Owned
<1> QED BY <1>1 DEF Matching, Pages!Found, Pages!Matches, Pages!Listed, Pages!OfOwner

LEMMA SameOrder ==
  ASSUME UNCHANGED <<rows, ask>>, NEW S, NEW id
  PROVE  RankIn(S, id)' = RankIn(S, id)
<1>1. \A j : Pages!Precedes(j, id, ask.list)' <=> Pages!Precedes(j, id, ask.list)
  BY DEF Pages!Precedes, Pages!ThenById, Pages!ByKey
<1>2. Above(S, id)' = Above(S, id)
  BY <1>1 DEF Above
<1> QED BY <1>2 DEF RankIn

(* Without the ids of an owner: who does not ask for its own rows is shown *)
(* the same rows whatever it owns.                                         *)
LEMMA FoundByAll ==
  ASSUME NEW rs, NEW where, where # "mine", NEW a, NEW b
  PROVE  Pages!Found(rs, where, a) = Pages!Found(rs, where, b)
BY DEF Pages!Found, Pages!Matches, Pages!OfOwner

LEMMA FoundByMore ==
  ASSUME NEW rs, NEW where, NEW a, NEW b, a \subseteq b
  PROVE  Pages!Found(rs, where, a) \subseteq Pages!Found(rs, where, b)
BY DEF Pages!Found, Pages!Matches, Pages!OfOwner

(* Every change is a tear, unless nothing of the page is there yet.        *)
LEMMA PagesAddStays ==
  ASSUME PagesTyped, PagesAdd, Pages!Next
  PROVE  PagesAdd'
<1>1. CASE Pages!Begin
  BY <1>1 DEF Pages!Begin, PagesAdd, PagesTyped
<1>2. CASE Pages!FindOwned
  BY <1>2 DEF Pages!FindOwned, PagesAdd, PagesTyped
<1>3. CASE Searched
  <2>1. PICK n : n = Cardinality(Matching)
    OBVIOUS
  <2>2. n = Cardinality(Matching') /\ Pages!Size' = Pages!Size /\ page' = page /\ torn' = torn /\ pc = "find"
    BY <1>3, <2>1, SameMatching, SameAsk DEF Searched
  <2>3. \A m : Expected(m)' = Expected(m)
    BY <2>2 DEF Expected, Pages!Least
  <2>4. Len(content') = Expected(n) \/ content' = content
    BY <1>3, <2>1, SearchReads DEF Searched
  <2>5. total' = n \/ total' = total
    BY <1>3, <2>1 DEF Searched
  <2>6. pc' = IF content' # None /\ total' # None THEN "answered" ELSE "find"
    BY <1>3 DEF Searched
  <2>7. ~torn /\ content # None => Len(content) = Expected(n)
    BY <2>1, <2>2 DEF PagesAdd
  <2>8. ~torn /\ total # None => total = n
    BY <2>1, <2>2 DEF PagesAdd
  <2>9. ~torn /\ content' # None => Len(content') = Expected(n)
    BY <2>4, <2>7
  <2>10. ~torn /\ total' # None => total' = n
    BY <2>5, <2>8
  <2>11. Expected(Cardinality(Matching))' = Expected(n) /\ Cardinality(Matching)' = n
    BY <2>2, <2>3 DEF Expected, Pages!Least
  <2>12. total' = n => Expected(total)' = Expected(n)
    BY <2>2 DEF Expected, Pages!Least
  <2> QED BY <2>2, <2>6, <2>9, <2>10, <2>11, <2>12 DEF PagesAdd
<1>4. CASE Refused
  BY <1>4 DEF Refused, PagesAdd
<1>5. CASE Pages!Turn
  BY <1>5 DEF Pages!Turn, PagesAdd
<1>6. CASE Pages!Insert \/ Pages!Delete \/ Pages!Touch
  <2>1. /\ UNCHANGED <<ask, pc, page, content, total>> /\ torn' = (torn \/ (pc = "find" /\ (content # None \/ total # None)))
    BY <1>6 DEF Pages!Insert, Pages!Delete, Pages!Touch, Pages!Changed
  <2>2. Expected(total)' = Expected(total)
    BY <2>1, SameAsk DEF Expected, Pages!Least
  <2> QED BY <2>1, <2>2 DEF PagesAdd
<1> QED BY <1>1, <1>2, <1>3, <1>4, <1>5, <1>6, Searches DEF Pages!Next

LEMMA UnchangingStays ==
  ASSUME PagesTyped, Unchanging, Pages!Next
  PROVE  Unchanging'
<1>1. CASE Pages!Begin
  <2>1. pc = "begin" /\ UNCHANGED <<rows, mine, total, shifted, grown, torn>> /\ ask' \in Pages!Asks
        /\ pc' = (IF ask'.where = "mine" THEN "owner" ELSE "find")
        /\ stayed' = Pages!Found(rows, ask'.where, Owned)
    BY <1>1 DEF Pages!Begin, Owned
  <2>2. ~torn /\ total = None
    BY <2>1 DEF PagesTyped, Begun
  <2>3. Owned' = Owned
    BY <2>1 DEF Owned
  <2>4. Pages!Found(rows, ask.where, Owned)' = stayed'
    BY <2>1, <2>3 DEF Pages!Found, Pages!Matches, Pages!Listed, Pages!OfOwner
  <2>5. PICK w : w = ask'.where
    OBVIOUS
  <2>6. w # "mine" => Matching' = stayed'
    BY <2>1, <2>5 DEF Matching, Pages!Found, Pages!Matches, Pages!Listed, Pages!OfOwner
  <2> QED BY <2>1, <2>2, <2>4, <2>5, <2>6 DEF Unchanging
<1>2. CASE Pages!FindOwned
  <2>1. pc = "owner" /\ mine' = Owned /\ UNCHANGED <<rows, ask, total, stayed, shifted, grown, torn>> /\ pc' \in {"end", "find"}
    BY <1>2 DEF Pages!FindOwned, Owned
  <2>2. total = None /\ Begun
    BY <2>1 DEF PagesTyped, Begun
  <2>3. Owned' = Owned
    BY <2>1 DEF Owned
  <2>4. Pages!Found(rows, ask.where, Owned)' = Pages!Found(rows, ask.where, Owned) /\ Matching' = Pages!Found(rows, ask.where, Owned)
    BY <2>1, <2>3 DEF Matching, Pages!Found, Pages!Matches, Pages!Listed, Pages!OfOwner
  <2> QED BY <2>1, <2>2, <2>4 DEF Unchanging
<1>3. CASE Searched \/ Refused
  <2>1. UNCHANGED <<rows, ask, mine, stayed, shifted, grown, torn>> /\ Begun /\ pc = "find"
        /\ pc' \in {"find", "answered", "refused"} /\ (Searched => total' = Cardinality(Matching) \/ total' = total)
        /\ (Refused => pc' = "refused")
    BY <1>3 DEF Searched, Refused
  <2>2. Matching' = Matching /\ Pages!Found(rows, ask.where, Owned)' = Pages!Found(rows, ask.where, Owned)
    BY <2>1, SameMatching
  <2> QED BY <1>3, <2>1, <2>2 DEF Unchanging
<1>4. CASE Pages!Turn
  <2>1. pc = "answered" /\ UNCHANGED <<rows, ask, mine, stayed, shifted, grown>> /\ total' = None /\ torn' = FALSE /\ Begun
    BY <1>4 DEF Pages!Turn, Begun
  <2>2. Matching' = Matching /\ Pages!Found(rows, ask.where, Owned)' = Pages!Found(rows, ask.where, Owned)
    BY <2>1, SameMatching
  <2> QED BY <2>1, <2>2 DEF Unchanging
<1>5. CASE Pages!Insert \/ Pages!Delete \/ Pages!Touch
  BY <1>5 DEF Pages!Insert, Pages!Delete, Pages!Touch, Unchanging
<1> QED BY <1>1, <1>2, <1>3, <1>4, <1>5, Searches DEF Pages!Next

-----------------------------------------------------------------------------
(* A reader who stops has been shown the rows of every rank.               *)
LEMMA NextPage ==
  ASSUME NEW s \in Int, NEW p \in Nat
  PROVE  s * (p + 1) = s * p + s /\ (p + 1) * s = s * p + s /\ s * p \in Int /\ s * 0 = 0 /\ (s \in Nat => s * p \in Nat)
OBVIOUS

LEMMA LastEnds ==
  ASSUME NEW s \in Nat \ {0}, NEW p \in Nat, NEW t \in Nat, NEW n \in Int,
         n = (IF t > s * p THEN Pages!Least(s, t - s * p) ELSE 0),
         (p + 1) * s >= t \/ Pages!Ceil(t, s) - 1 = p \/ n = 0
  PROVE  t <= s * (p + 1)
<1>1. PICK k : k = s * p
  OBVIOUS
<1>2. k \in Nat /\ s * (p + 1) = k + s /\ (p + 1) * s = k + s
  BY <1>1, NextPage
<1>3. CASE (p + 1) * s >= t
  BY <1>2, <1>3
<1>4. CASE n = 0
  <2>1. t <= k
    BY <1>1, <1>2, <1>4 DEF Pages!Least
  <2> QED BY <1>2, <2>1
<1>5. CASE Pages!Ceil(t, s) - 1 = p
  <2>1. PICK q : q = (t + s - 1) \div s
    OBVIOUS
  <2>2. PICK r : r = (t + s - 1) % s
    OBVIOUS
  <2>3. t + s - 1 \in Nat /\ q \in Int /\ r \in 0 .. s - 1 /\ t + s - 1 = s * q + r
    BY <2>1, <2>2
  <2>4. q = p + 1
    BY <1>5, <2>1, <2>3 DEF Pages!Ceil
  <2>5. s * q = k + s
    BY <1>2, <2>4
  <2> QED BY <1>2, <2>3, <2>5
<1> QED BY <1>3, <1>4, <1>5

LEMMA EndsRead ==
  ASSUME PagesTyped, pc = "answered", Pages!lastPage \/ content = <<>>, Len(content) = Expected(total)
  PROVE  total <= Pages!Size * (page + 1)
<1>1. PICK s, p, t, n : s = Pages!Size /\ p = page /\ t = total /\ n = Len(content)
  OBVIOUS
<1>2. s \in Nat \ {0} /\ p \in Nat /\ t \in Nat /\ content \in Seq(RowIds) /\ n \in Nat /\ (content = <<>> => n = 0)
  BY <1>1, LenProperties, EmptySeq DEF PagesTyped
<1>3. n = (IF t > s * p THEN Pages!Least(s, t - s * p) ELSE 0)
  BY <1>1, <1>2, NextPage DEF Expected, Pages!Least
<1>4. (p + 1) * s >= t \/ Pages!Ceil(t, s) - 1 = p \/ n = 0
  BY <1>1, <1>2 DEF Pages!lastPage, Pages!maxPagesIndex
<1>5. t <= s * (p + 1)
  BY ONLY <1>2, <1>3, <1>4, LastEnds
<1> QED BY <1>1, <1>5

LEMMA TimesType ==
  ASSUME NEW c \in Seq(RowIds), NEW id
  PROVE  /\ Times(c, id) \in Nat /\ ((\E n \in DOMAIN c : c[n] = id) => Times(c, id) > 0)
         /\ Times(c, id) = Pages!Cardinality({n \in 1 .. Len(c) : c[n] = id})
<1>1. PICK T : T = {n \in 1 .. Len(c) : c[n] = id}
  OBVIOUS
<1>2. Len(c) \in Nat /\ DOMAIN c = 1 .. Len(c)
  BY LenProperties
<1>3. T \in SUBSET (1 .. Len(c)) /\ IsFiniteSet(1 .. Len(c))
  BY <1>1, <1>2, FS_Interval
<1>4. IsFiniteSet(T) /\ Cardinality(T) \in Nat
  BY <1>3, FS_Subset, FS_CardinalityType
<1>5. (\E n \in DOMAIN c : c[n] = id) => T # {}
  BY <1>1, <1>2
<1>6. T # {} => Cardinality(T) # 0
  BY <1>4, FS_EmptySet
<1>7. Pages!Cardinality(T) = Cardinality(T)
  BY DEF Pages!Cardinality, Cardinality
<1>8. Times(c, id) = Cardinality(T)
  BY <1>1 DEF Times
<1> QED BY <1>1, <1>4, <1>5, <1>6, <1>7, <1>8

(* What turning the page counts.                                           *)
LEMMA TurnCounts ==
  ASSUME PagesTyped, Pages!Turn
  PROVE  /\ pc = "answered" /\ Begun /\ content \in Seq(RowIds) /\ UNCHANGED <<rows, ask, mine, stayed, shifted, grown>>
         /\ content' = None /\ total' = None
         /\ \A id \in RowIds : read'[id] = read[id] + Times(content, id) /\ Times(content, id) \in Nat /\ read[id] \in Nat
         /\ IF Pages!lastPage \/ content = <<>> THEN pc' = "end" /\ page' = page
            ELSE pc' \in {"owner", "find"} /\ page' = page + 1
<1>1. pc = "answered" /\ UNCHANGED <<rows, ask, mine, stayed, shifted, grown>> /\ content' = None /\ total' = None
  BY DEF Pages!Turn
<1>2. read' = [id \in RowIds |-> read[id] + Pages!Cardinality({n \in 1 .. Len(content) : content[n] = id})]
  BY DEF Pages!Turn
<1>3. content \in Seq(RowIds) /\ Begun /\ read \in [RowIds -> Nat]
  BY <1>1 DEF PagesTyped, Begun
<1>4. PICK c : c = content
  OBVIOUS
<1>5. \A id \in RowIds : read'[id] = read[id] + Times(c, id) /\ Times(c, id) \in Nat
  <2> SUFFICES ASSUME NEW id \in RowIds PROVE read'[id] = read[id] + Times(c, id) /\ Times(c, id) \in Nat
    OBVIOUS
  <2>1. c \in Seq(RowIds)
    BY <1>3, <1>4
  <2>2. read'[id] = read[id] + Pages!Cardinality({n \in 1 .. Len(c) : c[n] = id})
    BY <1>2, <1>4
  <2> QED BY <2>1, <2>2, TimesType
<1>6. IF Pages!lastPage \/ content = <<>> THEN pc' = "end" /\ page' = page
      ELSE pc' \in {"owner", "find"} /\ page' = page + 1
  BY DEF Pages!Turn
<1> QED BY <1>1, <1>3, <1>4, <1>5, <1>6

LEMMA OnceEachStays ==
  ASSUME PagesInv, PagesTyped', Pages!Next
  PROVE  OnceEach'
<1> USE DEF PagesInv
<1>1. CASE Pages!Begin
  <2>1. pc = "begin" /\ page' = 0 /\ read' = [id \in RowIds |-> 0] /\ content' = None /\ pc' \in {"owner", "find"}
        /\ stayed' \subseteq RowIds /\ IsFiniteSet(stayed')
    <3>1. stayed' = Pages!Found(rows, ask'.where, Owned)
      BY <1>1 DEF Pages!Begin, Owned
    <3>2. PICK w, o : w = ask'.where /\ o = Owned
      OBVIOUS
    <3>3. stayed' \subseteq RowIds /\ IsFiniteSet(stayed')
      BY <3>1, <3>2, RowsFound
    <3> QED BY <1>1, <3>3 DEF Pages!Begin, PagesTyped, Begun
  <2>2. PICK F : F = stayed'
    OBVIOUS
  <2>3. PICK s : s = Pages!Size'
    OBVIOUS
  <2>4. s \in Int
    <3>1. ask' \in Pages!Asks'
      BY <2>1 DEF PagesTyped, Begun
    <3>2. ask'.size \in Int
      BY <3>1, RowsFirst DEF Pages!Asks
    <3> QED BY <2>3, <3>2, RowsFirst DEF Pages!Size, Pages!SizeOf, Pages!Least
  <2>5. s * page' = 0
    BY <2>1, <2>4
  <2>6. \A id : RankIn(F, id)' \in Nat
    <3> SUFFICES ASSUME NEW id PROVE RankIn(F, id)' \in Nat
      OBVIOUS
    <3>1. PICK A : A = Above(F, id)'
      OBVIOUS
    <3>2. A \subseteq F
      BY <3>1 DEF Above
    <3>3. Cardinality(A) \in Nat
      BY <2>1, <2>2, <3>2, FS_Subset, FS_CardinalityType
    <3> QED BY <3>1, <3>3 DEF RankIn
  <2>7. \A id : ~(RankIn(stayed, id)' < (Pages!Size * page)')
    <3> SUFFICES ASSUME NEW id PROVE ~(RankIn(stayed, id)' < (Pages!Size * page)')
      OBVIOUS
    <3>1. RankIn(stayed, id)' = RankIn(F, id)'
      BY <2>2 DEF RankIn, Above
    <3> QED BY <2>3, <2>5, <2>6, <3>1
  <2> QED BY <2>1, <2>7 DEF OnceEach
<1>2. CASE Pages!FindOwned
  <2>1. /\ pc = "owner" /\ mine' = Owned /\ UNCHANGED <<rows, ask, page, content, total, read, stayed, shifted, grown, torn>>
        /\ pc' = (IF ask.list = "comments" /\ mine' = {} THEN "end" ELSE "find")
    BY <1>2 DEF Pages!FindOwned, Owned
  <2>2. SUFFICES ASSUME ~shifted, ~grown, Pages!Ordered PROVE OnceEach'
    BY <2>1 DEF OnceEach, Pages!Ordered
  <2>3. content = None /\ Begun /\ ask.where = "mine"
    BY <2>1 DEF PagesTyped, Begun
  <2>4. PICK F, s : F = stayed /\ s = Pages!Size
    OBVIOUS
  <2>5. F = stayed' /\ s = Pages!Size'
    BY <2>1, <2>4, SameAsk
  <2>6. \A id \in RowIds : read[id] = IF id \in F /\ RankIn(F, id) < s * page THEN 1 ELSE 0
    BY <2>1, <2>2, <2>3, <2>4 DEF OnceEach
  <2>7. \A id : RankIn(F, id)' = RankIn(F, id)
    BY <2>1, SameOrder
  <2>8. \A id : RankIn(stayed, id)' = RankIn(F, id)
    <3> SUFFICES ASSUME NEW id PROVE RankIn(stayed, id)' = RankIn(F, id)
      OBVIOUS
    <3>1. RankIn(stayed, id)' = RankIn(F, id)'
      BY <2>5 DEF RankIn, Above
    <3> QED BY <2>7, <3>1
  <2>9. CASE pc' = "find"
    BY <2>1, <2>3, <2>5, <2>6, <2>8, <2>9 DEF OnceEach
  <2>10. CASE pc' = "end"
    <3>1. Owned = {}
      BY <2>1, <2>10
    <3>2. F = {}
      BY <2>2, <2>3, <2>4, <3>1 DEF Unchanging, Pages!Found, Pages!Matches, Pages!OfOwner
    <3> QED BY <2>1, <2>5, <2>6, <2>10, <3>2 DEF OnceEach
  <2> QED BY <2>1, <2>9, <2>10
<1>3. CASE Searched \/ Refused
  <2>1. /\ UNCHANGED <<rows, ask, mine, page, read, stayed, shifted, grown, torn>> /\ pc = "find" /\ Begun
        /\ pc' \in {"find", "answered", "refused"}
    BY <1>3 DEF Searched, Refused
  <2>2. SUFFICES ASSUME ~shifted, ~grown, Pages!Ordered PROVE OnceEach'
    BY <2>1 DEF OnceEach, Pages!Ordered
  <2>3. PICK F, s, p, k : F = stayed /\ s = Pages!Size /\ p = page /\ k = s * p
    OBVIOUS
  <2>4. F = stayed' /\ s = Pages!Size' /\ p = page' /\ p \in Nat
    BY <2>1, <2>3, SameAsk DEF PagesTyped
  <2>5. \A id \in RowIds : read[id] = IF id \in F /\ RankIn(F, id) < s * p THEN 1 ELSE 0
    BY <2>1, <2>2, <2>3 DEF OnceEach
  <2>6. \A id : RankIn(stayed, id)' = RankIn(F, id)
    <3> SUFFICES ASSUME NEW id PROVE RankIn(stayed, id)' = RankIn(F, id)
      OBVIOUS
    <3>1. RankIn(stayed, id)' = RankIn(F, id)'
      BY <2>4 DEF RankIn, Above
    <3> QED BY <2>1, <3>1, SameOrder
  <2>7. F = Matching /\ F \subseteq RowIds /\ F \subseteq DOMAIN rows /\ IsFiniteSet(F) /\ InOrder(F)
    <3>1. F = Matching
      BY <2>1, <2>2, <2>3 DEF Unchanging
    <3>2. F \subseteq RowIds /\ F \subseteq DOMAIN rows /\ IsFiniteSet(F)
      BY <3>1, RowsFound DEF Matching
    <3>3. InOrder(stayed)
      BY <2>1, <2>2, <2>3, <3>2, OrderedInOrder
    <3> QED BY <2>3, <3>1, <3>2, <3>3
  <2>8. ASSUME pc' \in {"find", "answered"}, content' # None, NEW id \in RowIds
        PROVE  Times(content', id) = IF id \in F /\ s * p <= RankIn(F, id) /\ RankIn(F, id) < s * (p + 1) THEN 1 ELSE 0
    <3>1. Searched
      BY <1>3, <2>8 DEF Refused
    <3>2. CASE content' = content
      BY <2>1, <2>2, <2>3, <2>8, <3>2 DEF OnceEach, Times
    <3>3. CASE content' # content
      <4>1. PICK o \in Pages!Orders(Matching, ask.list) : content' = Pages!PageOf(o, page)
        BY <3>1, <3>3 DEF Searched
      <4>2. PICK c : c = content'
        OBVIOUS
      <4>3. o \in Pages!Orders(F, ask.list) /\ c = Pages!PageOf(o, p) /\ s \in Nat \ {0}
        BY <2>3, <2>7, <3>1, <4>1, <4>2 DEF Searched
      <4>4. k \in Nat /\ s * (p + 1) = k + s
        <5>1. k = s * p /\ s \in Nat /\ p \in Nat
          BY <2>3, <2>4, <4>3
        <5> QED BY ONLY <5>1, NextPage
      <4>5. Times(c, id) = IF id \in F /\ k <= RankIn(F, id) /\ RankIn(F, id) < k + s THEN 1 ELSE 0
        BY <2>3, <2>4, <2>7, <4>3, <4>4, PageShows
      <4> QED BY <2>3, <4>2, <4>4, <4>5
    <3> QED BY <3>2, <3>3
  <2>9. \A id \in RowIds : Times(content, id)' = Times(content', id)
    BY DEF Times
  <2> QED BY <2>1, <2>4, <2>5, <2>6, <2>8, <2>9 DEF OnceEach
<1>4. CASE Pages!Turn
  <2>1. /\ pc = "answered" /\ Begun /\ content \in Seq(RowIds) /\ UNCHANGED <<rows, ask, mine, stayed, shifted, grown>>
        /\ content' = None /\ total' = None
        /\ \A id \in RowIds : read'[id] = read[id] + Times(content, id) /\ Times(content, id) \in Nat /\ read[id] \in Nat
        /\ IF Pages!lastPage \/ content = <<>> THEN pc' = "end" /\ page' = page
           ELSE pc' \in {"owner", "find"} /\ page' = page + 1
    BY <1>4, TurnCounts
  <2>2. SUFFICES ASSUME ~shifted, ~grown, Pages!Ordered PROVE OnceEach'
    BY <2>1 DEF OnceEach, Pages!Ordered
  <2>3. PICK F, s, p, k : F = stayed /\ s = Pages!Size /\ p = page /\ k = s * p
    OBVIOUS
  <2>4. F = stayed' /\ s = Pages!Size' /\ p \in Nat /\ s \in Nat \ {0} /\ k \in Nat /\ s * (p + 1) = k + s
    <3>1. F = stayed' /\ s = Pages!Size' /\ p \in Nat /\ s \in Nat \ {0}
      BY <2>1, <2>3, SameAsk DEF PagesTyped
    <3>2. k = s * p /\ s \in Int
      BY <2>3, <3>1
    <3>3. k \in Nat /\ s * (p + 1) = k + s
      BY ONLY <3>1, <3>2, NextPage
    <3> QED BY <3>1, <3>3
  <2>5. F = Matching /\ F \subseteq DOMAIN rows /\ IsFiniteSet(F) /\ InOrder(F) /\ total = Cardinality(F) /\ ~torn
    <3>1. F = Matching /\ ~torn /\ (total # None => total = Cardinality(F))
      BY <2>1, <2>2, <2>3 DEF Unchanging
    <3>2. F \subseteq DOMAIN rows /\ IsFiniteSet(F)
      BY <3>1, RowsFound DEF Matching
    <3>3. InOrder(stayed)
      BY <2>1, <2>2, <2>3, <3>2, OrderedInOrder
    <3>4. total # None
      BY <2>1 DEF PagesTyped
    <3> QED BY <2>3, <3>1, <3>2, <3>3, <3>4
  <2>6. \A id \in F : RankIn(F, id) \in Nat /\ RankIn(F, id) < Cardinality(F)
    BY <2>5, RankType
  <2>7. ASSUME NEW id \in RowIds PROVE read'[id] = IF id \in F /\ RankIn(F, id) < s * (p + 1) THEN 1 ELSE 0
    <3>1. read[id] = IF id \in F /\ RankIn(F, id) < k THEN 1 ELSE 0
      BY <2>1, <2>2, <2>3 DEF OnceEach
    <3>2. Times(content, id) = IF id \in F /\ k <= RankIn(F, id) /\ RankIn(F, id) < s * (p + 1) THEN 1 ELSE 0
      BY <2>1, <2>2, <2>3, <2>4 DEF OnceEach, PagesTyped
    <3>3. read'[id] = read[id] + Times(content, id)
      BY <2>1
    <3>4. PICK r : r = RankIn(F, id)
      OBVIOUS
    <3>5. id \in F => r \in Nat
      BY <2>6, <3>4
    <3> QED BY <2>4, <3>1, <3>2, <3>3, <3>4, <3>5
  <2>8. \A id : RankIn(stayed, id)' = RankIn(F, id)
    <3> SUFFICES ASSUME NEW id PROVE RankIn(stayed, id)' = RankIn(F, id)
      OBVIOUS
    <3>1. RankIn(stayed, id)' = RankIn(F, id)'
      BY <2>4 DEF RankIn, Above
    <3> QED BY <2>1, <3>1, SameOrder
  <2>9. CASE Pages!lastPage \/ content = <<>>
    <3>1. Len(content) = Expected(total)
      BY <2>1, <2>5 DEF PagesAdd
    <3>2. Cardinality(F) <= s * (p + 1)
      BY <2>1, <2>3, <2>5, <2>9, <3>1, EndsRead
    <3>3. PICK m, b : m = Cardinality(F) /\ b = s * (p + 1)
      OBVIOUS
    <3>4. m \in Nat /\ b \in Nat /\ m <= b
      <4>1. m \in Nat
        BY <2>5, <3>3, FS_CardinalityType
      <4>2. b = k + s
        BY <2>4, <3>3
      <4>3. b \in Nat
        <5>1. k \in Nat /\ s \in Nat
          BY <2>4
        <5> QED BY ONLY <4>2, <5>1
      <4> QED BY <3>2, <3>3, <4>1, <4>3
    <3>5. ASSUME NEW id \in F PROVE RankIn(F, id) < s * (p + 1)
      <4>1. PICK r : r = RankIn(F, id)
        OBVIOUS
      <4>2. r \in Nat /\ r < m
        BY <2>6, <3>3, <4>1
      <4>3. r < b
        BY ONLY <3>4, <4>2
      <4> QED BY <3>3, <4>1, <4>3
    <3>6. \A id \in F : RankIn(F, id) < s * (p + 1)
      BY <3>5
    <3> QED BY <2>1, <2>4, <2>7, <2>9, <3>6 DEF OnceEach
  <2>10. CASE ~(Pages!lastPage \/ content = <<>>)
    <3>1. pc' \in {"owner", "find"} /\ page' = p + 1
      BY <2>1, <2>3, <2>10
    <3> QED BY <2>1, <2>4, <2>7, <2>8, <3>1 DEF OnceEach
  <2> QED BY <2>9, <2>10
<1>5. CASE Pages!Insert \/ Pages!Delete \/ Pages!Touch
  BY <1>5 DEF Pages!Insert, Pages!Delete, Pages!Touch, OnceEach
<1> QED BY <1>1, <1>2, <1>3, <1>4, <1>5, Searches DEF Pages!Next

-----------------------------------------------------------------------------
(* Rows that come can only push a row to a later page.                     *)
LEMMA RankGrows ==
  ASSUME PagesTyped, PagesTyped', ask' = ask, NEW S, NEW T, S \subseteq T, IsFiniteSet(T),
         S \subseteq DOMAIN rows, \A j \in DOMAIN rows : j \in DOMAIN rows' /\ rows'[j] = rows[j], NEW id \in DOMAIN rows
  PROVE  RankIn(S, id) \in Nat /\ RankIn(T, id)' \in Nat /\ RankIn(S, id) <= RankIn(T, id)'
<1>1. \A j \in S : Pages!Precedes(j, id, ask.list)' <=> Pages!Precedes(j, id, ask.list)
  BY DEF Pages!Precedes, Pages!ThenById, Pages!ByKey
<1>2. PICK A, B : A = Above(S, id) /\ B = Above(T, id)'
  OBVIOUS
<1>3. A \subseteq B /\ B \subseteq T
  BY <1>1, <1>2 DEF Above
<1>4. IsFiniteSet(B) /\ IsFiniteSet(A) /\ Cardinality(A) <= Cardinality(B) /\ Cardinality(A) \in Nat /\ Cardinality(B) \in Nat
  <2>1. IsFiniteSet(B)
    BY <1>3, FS_Subset
  <2>2. IsFiniteSet(A) /\ Cardinality(A) <= Cardinality(B)
    BY <1>3, <2>1, FS_Subset
  <2> QED BY <2>1, <2>2, FS_CardinalityType
<1> QED BY <1>2, <1>4 DEF RankIn

LEMMA NoneMissedBegins ==
  ASSUME PagesTyped, PagesTyped', Pages!Begin
  PROVE  NoneMissed'
<1>1. /\ pc = "begin" /\ page' = 0 /\ mine' = {} /\ rows' = rows /\ pc' = IF ask'.where = "mine" THEN "owner" ELSE "find"
      /\ stayed' = Pages!Found(rows, ask'.where, Owned)
  BY DEF Pages!Begin, PagesTyped, Begun, Owned
<1>2. Owned' = Owned
  BY <1>1 DEF Owned
<1>3. Pages!Found(rows, ask.where, Owned)' = stayed'
  BY <1>1, <1>2 DEF Pages!Found, Pages!Matches, Pages!Listed, Pages!OfOwner
<1>4. ask'.where # "mine" => Matching' = stayed'
  BY <1>1 DEF Matching, Pages!Found, Pages!Matches, Pages!Listed, Pages!OfOwner
<1>5. IsFiniteSet(Matching')
  <2>1. Matching' \subseteq DOMAIN rows'
    BY DEF Matching, Pages!Found
  <2> QED BY <2>1, FS_Subset DEF PagesTyped
<1>6. Pages!Size' \in Int
  <2>1. ask' \in Pages!Asks'
    BY <1>1 DEF PagesTyped, Begun
  <2>2. ask'.size \in Int
    BY <2>1, RowsFirst DEF Pages!Asks
  <2> QED BY <2>2, RowsFirst DEF Pages!Size, Pages!SizeOf, Pages!Least
<1>7. ASSUME NEW id PROVE Ahead(id, page)'
  <2>1. PICK A : A = Above(Matching, id)'
    OBVIOUS
  <2>2. A \subseteq Matching'
    BY <2>1 DEF Above
  <2>3. Cardinality(A) \in Nat
    BY <1>5, <2>2, FS_Subset, FS_CardinalityType
  <2>4. (Pages!Size * page)' = 0
    <3>1. PICK s : s = Pages!Size'
      OBVIOUS
    <3>2. s \in Int
      BY <1>6, <3>1
    <3>3. s * 0 = 0
      BY ONLY <3>2
    <3> QED BY <1>1, <3>1, <3>3
  <2>5. RankIn(Matching, id)' = Cardinality(A)
    BY <2>1 DEF RankIn
  <2> QED BY <2>3, <2>4, <2>5 DEF Ahead
<1> QED BY <1>1, <1>3, <1>4, <1>7 DEF NoneMissed

(* More rows match and nothing else changes: the answer for "mine" is      *)
(* known anew, or a row has come.                                          *)
LEMMA StillAhead ==
  ASSUME PagesTyped, PagesTyped', UNCHANGED <<ask, page>>, Matching \subseteq Matching', Begun,
         \A j \in DOMAIN rows : j \in DOMAIN rows' /\ rows'[j] = rows[j], NEW id \in DOMAIN rows, NEW d \in Nat,
         Ahead(id, page + d)
  PROVE  Ahead(id, page + d)'
<1>1. PICK S, T : S = Matching /\ T = Matching'
  OBVIOUS
<1>2. S \subseteq DOMAIN rows /\ S \subseteq T /\ IsFiniteSet(T)
  <2>1. T \subseteq DOMAIN rows'
    BY <1>1 DEF Matching, Pages!Found
  <2>2. IsFiniteSet(T)
    BY <2>1, FS_Subset DEF PagesTyped
  <2> QED BY <1>1, <2>2, RowsFound DEF Matching
<1>3. RankIn(S, id) \in Nat /\ RankIn(T, id)' \in Nat /\ RankIn(S, id) <= RankIn(T, id)'
  BY <1>2, RankGrows
<1>4. PICK b : b = Pages!Size * (page + d)
  OBVIOUS
<1>5. b = (Pages!Size * (page + d))' /\ b \in Int
  BY <1>4, SameAsk, SizeKnown DEF PagesTyped
<1>6. RankIn(S, id) >= b
  BY <1>1, <1>4 DEF Ahead
<1>7. RankIn(T, id)' >= b
  BY <1>3, <1>5, <1>6
<1>8. RankIn(Matching, id)' = RankIn(T, id)'
  BY <1>1 DEF RankIn, Above
<1> QED BY <1>5, <1>7, <1>8 DEF Ahead

LEMMA NoneMissedOwned ==
  ASSUME PagesTyped, NoneMissed, PagesTyped', Pages!FindOwned
  PROVE  NoneMissed'
<1>1. /\ pc = "owner" /\ mine' = Owned /\ UNCHANGED <<rows, ask, page, content, total, read, stayed, shifted>>
      /\ pc' = (IF ask.list = "comments" /\ mine' = {} THEN "end" ELSE "find") /\ Begun /\ Begun'
  BY DEF Pages!FindOwned, Owned, Begun
<1>2. SUFFICES ASSUME ~shifted, ask.list = "comments" PROVE NoneMissed'
  BY <1>1 DEF NoneMissed
<1>3. /\ stayed \subseteq Pages!Found(rows, ask.where, Owned) /\ mine \subseteq Owned /\ ask.where = "mine"
      /\ \A id \in stayed : read[id] > 0 \/ Ahead(id, page)
  BY <1>1, <1>2 DEF NoneMissed, PagesTyped
<1>4. Owned' = Owned
  BY <1>1 DEF Owned
<1>5. Pages!Found(rows, ask.where, Owned)' = Pages!Found(rows, ask.where, Owned) /\ Matching' = Pages!Found(rows, ask.where, Owned)
  BY <1>1, <1>4 DEF Matching, Pages!Found, Pages!Matches, Pages!Listed, Pages!OfOwner
<1>6. Matching \subseteq Matching'
  BY <1>3, <1>5, FoundByMore DEF Matching
<1>7. stayed \subseteq DOMAIN rows
  BY <1>3 DEF Pages!Found
<1>8. ASSUME NEW id \in stayed PROVE read[id] > 0 \/ Ahead(id, page)'
  <2>1. CASE Ahead(id, page)
    <3>1. page + 0 = page /\ page' + 0 = page'
      BY <1>1 DEF PagesTyped
    <3>2. Ahead(id, page + 0)
      BY <2>1, <3>1
    <3>3. Ahead(id, page + 0)'
      BY <1>1, <1>6, <1>7, <3>2, StillAhead
    <3> QED BY <3>1, <3>3 DEF Ahead
  <2> QED BY <1>3, <2>1
<1>9. pc' = "end" => stayed = {}
  BY <1>1, <1>3 DEF Pages!Found, Pages!Matches, Pages!OfOwner
<1> QED BY <1>1, <1>3, <1>4, <1>5, <1>8, <1>9 DEF NoneMissed

LEMMA NoneMissedGrows ==
  ASSUME PagesTyped, NoneMissed, PagesTyped', Pages!Insert
  PROVE  NoneMissed'
<1>0. PICK id \in RowIds \ DOMAIN rows, k \in Keys :
         Pages!Changed([i \in DOMAIN rows \union {id} |->
                           IF i = id THEN [key |-> k, active |-> TRUE, own |-> TRUE] ELSE rows[i]])
  BY DEF Pages!Insert
<1>1. PICK rs : Pages!Changed(rs) /\ rs = [i \in DOMAIN rows \union {id} |->
                   IF i = id THEN [key |-> k, active |-> TRUE, own |-> TRUE] ELSE rows[i]]
  BY <1>0
<1>2. /\ UNCHANGED <<ask, pc, mine, page, content, total, read, shifted>> /\ rows' = rs /\ Begun /\ Begun'
      /\ pc \in {"owner", "find", "answered"}
      /\ stayed' = stayed \cap Pages!Found(rs, ask.where, {i \in DOMAIN rs : rs[i].own})
  BY <1>1 DEF Pages!Insert, Pages!Changed, Begun, PagesTyped
<1>3. SUFFICES ASSUME ~shifted, ask.list = "comments" PROVE NoneMissed'
  BY <1>2 DEF NoneMissed
<1>4. /\ stayed \subseteq Pages!Found(rows, ask.where, Owned) /\ (ask.where = "mine" => mine \subseteq Owned)
      /\ pc \in {"find", "answered"} => stayed \subseteq Matching
      /\ pc \in {"owner", "find"} => \A i \in stayed : read[i] > 0 \/ Ahead(i, page)
      /\ pc = "answered" => \A i \in stayed : (read[i] > 0 \/ Shown(i) \/ (Ahead(i, page + 1) /\ ~(Pages!lastPage \/ content = <<>>)))
  BY <1>2, <1>3 DEF NoneMissed
<1>5. \A j \in DOMAIN rows : j \in DOMAIN rows' /\ rows'[j] = rows[j]
  BY <1>1, <1>2
<1>6. Owned \subseteq Owned' /\ Owned' = {i \in DOMAIN rs : rs[i].own}
  BY <1>2, <1>5 DEF Owned
<1>7. Matching \subseteq Matching'
  BY <1>2, <1>5 DEF Matching, Pages!Found, Pages!Matches, Pages!Listed, Pages!OfOwner
<1>8. stayed' \subseteq stayed /\ stayed \subseteq DOMAIN rows
  BY <1>2, <1>4 DEF Pages!Found
<1>9. Pages!Found(rows, ask.where, Owned)' = Pages!Found(rs, ask.where, {i \in DOMAIN rs : rs[i].own})
  BY <1>2, <1>6 DEF Pages!Found, Pages!Matches, Pages!Listed, Pages!OfOwner
<1>10. ASSUME NEW i \in stayed, NEW d \in Nat, Ahead(i, page + d) PROVE Ahead(i, page + d)'
  BY <1>2, <1>5, <1>7, <1>8, <1>10, StillAhead
<1>11. ASSUME NEW i \in stayed, Ahead(i, page) PROVE Ahead(i, page)'
  <2>1. page + 0 = page /\ page' + 0 = page'
    BY <1>2 DEF PagesTyped
  <2>2. Ahead(i, page + 0)
    BY <1>11, <2>1
  <2>3. Ahead(i, page + 0)'
    BY <1>10, <2>2
  <2> QED BY <2>1, <2>3 DEF Ahead
<1>12. \A i : Shown(i)' <=> Shown(i)
  BY <1>2 DEF Shown
<1>13. Pages!lastPage' <=> Pages!lastPage
  BY <1>2 DEF Pages!lastPage, Pages!maxPagesIndex, Pages!Ceil, Pages!Size, Pages!SizeOf
<1>14. stayed' \subseteq Pages!Found(rows, ask.where, Owned)'
  BY <1>2, <1>9
<1>15. (ask.where = "mine" => mine \subseteq Owned)'
  BY <1>2, <1>4, <1>6
<1>16. pc' \in {"find", "answered"} => stayed' \subseteq Matching'
  BY <1>2, <1>4, <1>7, <1>8
<1>17. pc' \in {"owner", "find"} => \A i \in stayed' : read'[i] > 0 \/ Ahead(i, page)'
  BY <1>2, <1>4, <1>8, <1>11
<1>18. pc' = "answered" => \A i \in stayed' : (read'[i] > 0 \/ Shown(i)' \/ (Ahead(i, page + 1)' /\ ~(Pages!lastPage' \/ content' = <<>>)))
  BY <1>2, <1>4, <1>8, <1>10, <1>12, <1>13
<1> QED BY <1>2, <1>14, <1>15, <1>16, <1>17, <1>18 DEF NoneMissed

LEMMA NoneMissedSearched ==
  ASSUME PagesTyped, NoneMissed, PagesTyped', Searched
  PROVE  NoneMissed'
<1>1. /\ UNCHANGED <<rows, ask, mine, page, read, stayed, shifted>> /\ Begun /\ Begun' /\ pc = "find"
      /\ Pages!Size \in Nat \ {0} /\ pc' \in {"find", "answered"}
  BY DEF Searched, Begun
<1>2. SUFFICES ASSUME ~shifted, ask.list = "comments" PROVE NoneMissed'
  BY <1>1 DEF NoneMissed
<1>3. Matching' = Matching /\ Owned' = Owned /\ Pages!Found(rows, ask.where, Owned)' = Pages!Found(rows, ask.where, Owned)
  BY <1>1, SameMatching
<1>4. /\ stayed \subseteq Pages!Found(rows, ask.where, Owned) /\ (ask.where = "mine" => mine \subseteq Owned)
      /\ stayed \subseteq Matching /\ \A i \in stayed : read[i] > 0 \/ Ahead(i, page)
  BY <1>1, <1>2 DEF NoneMissed
<1>5. content = None /\ total = None
  BY <1>1, <1>2 DEF PagesTyped
<1>6. PICK F, s, p, k, t, c : F = Matching /\ s = Pages!Size /\ p = page /\ k = s * p /\ t = Cardinality(F) /\ c = content'
  OBVIOUS
<1>7. s \in Nat \ {0} /\ p \in Nat /\ t \in Nat /\ F \subseteq RowIds /\ F \subseteq DOMAIN rows /\ IsFiniteSet(F) /\ InOrder(F)
  <2>1. F \subseteq RowIds /\ F \subseteq DOMAIN rows /\ IsFiniteSet(F) /\ t \in Nat
    BY <1>6, RowsFound DEF Matching
  <2> QED BY <1>1, <1>2, <1>6, <2>1, CommentsInOrder DEF PagesTyped
<1>8. k \in Nat /\ s * (p + 1) = k + s
  BY ONLY <1>6, <1>7, NextPage
<1>9. PICK o \in Pages!Orders(F, ask.list) : c = Pages!PageOf(o, p)
  BY <1>1, <1>2, <1>5, <1>6 DEF Searched
<1>10. total' = t /\ pc' = "answered" /\ c \in Seq(RowIds)
  <2>1. c \in Seq(RowIds)
    BY <1>1, <1>6, <1>9, SearchReads
  <2> QED BY <1>1, <1>2, <1>5, <1>6, <1>7, <2>1, RowsFirst DEF Searched
<1>11. Len(c) \in Nat /\ Len(c) = Pages!Least(s, IF t > k THEN t - k ELSE 0) /\ DOMAIN c = 1 .. Len(c) /\ (c = <<>> => Len(c) = 0)
  <2>1. Len(c) \in Nat /\ Len(c) = Pages!Least(s, IF t > k THEN t - k ELSE 0)
    BY <1>6, <1>7, <1>8, <1>9, PageHolds
  <2> QED BY <1>10, <2>1, LenProperties, EmptySeq
<1>12. \A id \in F : RankIn(F, id) \in Nat /\ RankIn(F, id) < t
  BY <1>6, <1>7, RankType
<1>13. \A id : RankIn(Matching, id)' = RankIn(F, id)
  <2> SUFFICES ASSUME NEW id PROVE RankIn(Matching, id)' = RankIn(F, id)
    OBVIOUS
  <2>1. RankIn(Matching, id)' = RankIn(F, id)'
    BY <1>3, <1>6 DEF RankIn, Above
  <2> QED BY <1>1, <2>1, SameOrder
<1>14. Pages!Size' = s /\ page' = p /\ ask'.list = "comments"
  BY <1>1, <1>2, <1>6, SameAsk
<1>15. Pages!lastPage' \/ c = <<>> => t <= s * (p + 1)
  <2> SUFFICES ASSUME Pages!lastPage' \/ c = <<>> PROVE t <= s * (p + 1)
    OBVIOUS
  <2>1. Pages!Ceil(t, s) - 1 = p \/ Len(c) = 0
    BY <1>10, <1>11, <1>14 DEF Pages!lastPage, Pages!maxPagesIndex, Pages!Ceil
  <2>2. PICK n : n = Len(c)
    OBVIOUS
  <2>3. n \in Int /\ n = (IF t > s * p THEN Pages!Least(s, t - s * p) ELSE 0)
    BY <1>6, <1>7, <1>8, <1>11, <2>2 DEF Pages!Least
  <2>4. (p + 1) * s >= t \/ Pages!Ceil(t, s) - 1 = p \/ n = 0
    BY <2>1, <2>2
  <2> QED BY ONLY <1>7, <2>3, <2>4, LastEnds
<1>16. ASSUME NEW id \in stayed
       PROVE  read'[id] > 0 \/ Shown(id)' \/ (Ahead(id, page + 1)' /\ ~(Pages!lastPage' \/ content' = <<>>))
  <2> SUFFICES ASSUME ~(read[id] > 0), ~Shown(id)' PROVE Ahead(id, page + 1)' /\ ~(Pages!lastPage' \/ content' = <<>>)
    BY <1>1
  <2>1. PICK r : r = RankIn(F, id)
    OBVIOUS
  <2>2. id \in F /\ r \in Nat /\ r < t /\ r >= k
    BY <1>4, <1>6, <1>12, <2>1 DEF Ahead
  <2>3. ~(r < k + s)
    <3> SUFFICES ASSUME r < k + s PROVE FALSE
      OBVIOUS
    <3>1. \E i \in 1 .. Len(c) : c[i] = id
      <4>1. id \in F /\ k <= RankIn(F, id) /\ RankIn(F, id) < k + s
        BY <1>7, <1>8, <2>1, <2>2
      <4>2. c = Pages!PageOf(o, p) /\ k = s * p /\ s = Pages!Size
        BY <1>6, <1>9
      <4> QED BY <1>7, <1>8, <1>9, <4>1, <4>2, PageShows
    <3> QED BY <1>6, <1>11, <3>1 DEF Shown
  <2>4. r >= s * (p + 1) /\ ~(t <= s * (p + 1))
    <3>1. k \in Nat /\ s \in Nat /\ t \in Nat
      BY <1>7, <1>8
    <3> QED BY ONLY <1>8, <2>2, <2>3, <3>1
  <2> QED BY <1>6, <1>13, <1>14, <1>15, <2>1, <2>4 DEF Ahead
<1> QED BY <1>1, <1>3, <1>4, <1>10, <1>16 DEF NoneMissed

LEMMA NoneMissedTurns ==
  ASSUME PagesTyped, NoneMissed, PagesTyped', Pages!Turn
  PROVE  NoneMissed'
<1>1. /\ pc = "answered" /\ Begun /\ content \in Seq(RowIds) /\ UNCHANGED <<rows, ask, mine, stayed, shifted, grown>>
      /\ content' = None /\ total' = None
      /\ \A id \in RowIds : read'[id] = read[id] + Times(content, id) /\ Times(content, id) \in Nat /\ read[id] \in Nat
      /\ IF Pages!lastPage \/ content = <<>> THEN pc' = "end" /\ page' = page
         ELSE pc' \in {"owner", "find"} /\ page' = page + 1
  BY TurnCounts
<1>2. SUFFICES ASSUME ~shifted, ask.list = "comments" PROVE NoneMissed'
  BY <1>1 DEF NoneMissed
<1>3. Matching' = Matching /\ Owned' = Owned /\ Pages!Found(rows, ask.where, Owned)' = Pages!Found(rows, ask.where, Owned)
  BY <1>1, SameMatching
<1>4. /\ stayed \subseteq Pages!Found(rows, ask.where, Owned) /\ (ask.where = "mine" => mine \subseteq Owned)
      /\ stayed \subseteq Matching
      /\ \A i \in stayed : read[i] > 0 \/ Shown(i) \/ (Ahead(i, page + 1) /\ ~(Pages!lastPage \/ content = <<>>))
  BY <1>1, <1>2 DEF NoneMissed
<1>5. stayed \subseteq RowIds
  BY <1>4 DEF Pages!Found, PagesTyped
<1>6. \A id \in stayed : read[id] > 0 \/ Shown(id) => read'[id] > 0
  <2> SUFFICES ASSUME NEW id \in stayed, read[id] > 0 \/ Shown(id) PROVE read'[id] > 0
    OBVIOUS
  <2>1. read'[id] = read[id] + Times(content, id) /\ Times(content, id) \in Nat /\ read[id] \in Nat
    BY <1>1, <1>5
  <2>2. PICK c : c = content
    OBVIOUS
  <2>3. Shown(id) => Times(c, id) > 0
    BY <1>1, <2>2, TimesType DEF Shown
  <2> QED BY <2>1, <2>2, <2>3
<1>7. CASE Pages!lastPage \/ content = <<>>
  BY <1>1, <1>3, <1>4, <1>6, <1>7 DEF NoneMissed
<1>8. CASE ~(Pages!lastPage \/ content = <<>>)
  <2>1. PICK F, p : F = Matching /\ p = page + 1
    OBVIOUS
  <2>2. page' = p /\ pc' \in {"owner", "find"} /\ Pages!Size' = Pages!Size
    BY <1>1, <1>8, <2>1, SameAsk
  <2>3. \A id : RankIn(Matching, id)' = RankIn(F, id)
    <3> SUFFICES ASSUME NEW id PROVE RankIn(Matching, id)' = RankIn(F, id)
      OBVIOUS
    <3>1. RankIn(Matching, id)' = RankIn(F, id)'
      BY <1>3, <2>1 DEF RankIn, Above
    <3> QED BY <1>1, <3>1, SameOrder
  <2>4. \A id : Ahead(id, page + 1) => Ahead(id, page)'
    BY <2>1, <2>2, <2>3 DEF Ahead
  <2> QED BY <1>1, <1>3, <1>4, <1>6, <2>2, <2>4 DEF NoneMissed
<1> QED BY <1>7, <1>8

LEMMA NoneMissedStays ==
  ASSUME PagesTyped, NoneMissed, PagesTyped', Pages!Next
  PROVE  NoneMissed'
<1>1. CASE Refused
  <2>1. UNCHANGED <<rows, ask, mine, stayed, shifted>> /\ pc = "find" /\ pc' = "refused" /\ Begun
    BY <1>1 DEF Refused
  <2>2. Owned' = Owned /\ Pages!Found(rows, ask.where, Owned)' = Pages!Found(rows, ask.where, Owned)
    BY <2>1, SameMatching
  <2> QED BY <2>1, <2>2 DEF NoneMissed
<1>2. CASE Pages!Delete \/ Pages!Touch
  BY <1>2 DEF Pages!Delete, Pages!Touch, NoneMissed
<1> QED BY <1>1, <1>2, Searches, NoneMissedBegins, NoneMissedOwned, NoneMissedSearched, NoneMissedTurns,
           NoneMissedGrows DEF Pages!Next

LEMMA PagesInductive ==
  ASSUME PagesInv, [Pages!Next]_(Pages!vars)
  PROVE  PagesInv'
<1>1. CASE Pages!Next
  BY <1>1, PagesTypedStays, PagesAddStays, UnchangingStays, OnceEachStays, NoneMissedStays DEF PagesInv
<1>2. CASE UNCHANGED Pages!vars
  <2>1. UNCHANGED <<rows, ask, pc, mine, page, content, total, read, stayed, shifted, grown, torn>>
    BY <1>2 DEF Pages!vars
  <2>2. Matching' = Matching /\ Owned' = Owned /\ Pages!Found(rows, ask.where, Owned)' = Pages!Found(rows, ask.where, Owned)
        /\ Pages!Size' = Pages!Size /\ Pages!Asks' = Pages!Asks /\ (Begun' <=> Begun)
    BY <2>1, SameMatching, SameAsk DEF Pages!Asks, Begun
  <2>3. PICK S, F, c : S = stayed /\ F = Matching /\ c = content
    OBVIOUS
  <2>4. /\ \A id : RankIn(stayed, id)' = RankIn(stayed, id) /\ RankIn(Matching, id)' = RankIn(Matching, id)
        /\ \A id : Times(content, id)' = Times(content, id)
    <3>1. ASSUME NEW id PROVE RankIn(stayed, id)' = RankIn(S, id)' /\ RankIn(Matching, id)' = RankIn(F, id)'
      BY <2>1, <2>2, <2>3 DEF RankIn, Above
    <3>2. ASSUME NEW id PROVE RankIn(S, id)' = RankIn(S, id) /\ RankIn(F, id)' = RankIn(F, id)
      BY <2>1, SameOrder
    <3> QED BY <2>1, <2>3, <3>1, <3>2 DEF Times
  <2>5. PagesTyped'
    BY <2>1, <2>2 DEF PagesInv, PagesTyped, Listing
  <2>6. PagesAdd'
    BY <2>1, <2>2 DEF PagesInv, PagesAdd, Expected, Pages!Least
  <2>7. Unchanging'
    BY <2>1, <2>2 DEF PagesInv, Unchanging
  <2>8. Pages!Ordered' <=> Pages!Ordered
    BY <2>1 DEF Pages!Ordered
  <2>9. OnceEach'
    BY <2>1, <2>2, <2>4, <2>8 DEF PagesInv, OnceEach
  <2>10. Pages!lastPage' <=> Pages!lastPage
    BY <2>1 DEF Pages!lastPage, Pages!maxPagesIndex, Pages!Ceil, Pages!Size, Pages!SizeOf
  <2>11. \A id : (Ahead(id, page)' <=> Ahead(id, page)) /\ (Ahead(id, page + 1)' <=> Ahead(id, page + 1)) /\ (Shown(id)' <=> Shown(id))
    BY <2>1, <2>2, <2>4 DEF Ahead, Shown
  <2>12. NoneMissed'
    BY <2>1, <2>2, <2>10, <2>11 DEF PagesInv, NoneMissed
  <2> QED BY <2>5, <2>6, <2>7, <2>9, <2>12 DEF PagesInv
<1> QED BY <1>1, <1>2

LEMMA PagesFollow == PagesInv => Pages!PagingHolds
<1> SUFFICES ASSUME PagesInv PROVE Pages!PagingHolds
  OBVIOUS
<1>1. Pages!EveryRowIsRead
  BY DEF PagesInv, OnceEach, Pages!EveryRowIsRead, Begun
<1>2. Pages!NoRowIsMissed
  BY DEF PagesInv, NoneMissed, Pages!NoRowIsMissed, Begun
<1>3. Pages!PagesAddUp
  BY DEF PagesInv, PagesAdd, Pages!PagesAddUp, Expected
<1> QED BY <1>1, <1>2, <1>3 DEF Pages!PagingHolds

-----------------------------------------------------------------------------
(* A behaviour of the services is one of the part that `part` names.       *)
LEMMA AccessStep ==
  [ServicesNext]_servicesVars /\ part = "access" => part' = part /\ [Access!Next]_(Access!vars)
BY DEF ServicesNext, servicesVars, several, accessOnly, Access!vars

LEMMA MigrationStep ==
  [ServicesNext]_servicesVars /\ part = "migration" => part' = part /\ [Migration!Next]_(Migration!vars)
BY DEF ServicesNext, servicesVars, several, migrationOnly, Migration!vars

LEMMA LibrariesStep ==
  [ServicesNext]_servicesVars /\ part = "libraries" => part' = part /\ [Libraries!Next]_(Libraries!vars)
BY DEF ServicesNext, servicesVars, several, librariesOnly, Libraries!vars, Libraries!building, Libraries!released

LEMMA PagesStep ==
  [ServicesNext]_servicesVars /\ part = "pages" => part' = part /\ [Pages!Next]_(Pages!vars)
BY DEF ServicesNext, servicesVars, several, pagesOnly, Pages!vars

LEMMA PartStays == [ServicesNext]_servicesVars => part' = part
BY DEF ServicesNext, servicesVars

(* What was answered about capabilities is what would be answered now, but  *)
(* for loads that overlapped an invalidation; searches find what checks do. *)
THEOREM AccessIsKept == ServicesSpec => []AccessHolds
<1> DEFINE Inv == part = "access" => AccessInv
<1>1. ServicesInit => Inv
  BY AccessStarts DEF ServicesInit
<1>2. Inv /\ [ServicesNext]_servicesVars => Inv'
  BY PartStays, AccessStep, AccessInductive
<1>3. Inv => AccessHolds
  BY SearchOffers DEF AccessInv, AccessHolds, Access!AccessHolds
<1> QED BY <1>1, <1>2, <1>3, PTL DEF ServicesSpec

(* No replica serves a team or an invitation that is not migrated, and a    *)
(* migration undoes nothing.                                                *)
THEOREM MigrationIsKept == ServicesSpec => MigrationHolds
<1> DEFINE Inv == part = "migration" => MigrationInv
           Kept == part = "migration" => Migration!MigrationHolds
<1>1. ServicesInit => Inv
  BY MigrationStarts DEF ServicesInit
<1>2. Inv /\ [ServicesNext]_servicesVars => Inv'
  BY PartStays, MigrationStep, MigrationInductive
<1>3. Inv /\ [ServicesNext]_servicesVars => [Kept]_servicesVars
  <2> SUFFICES ASSUME Inv, ServicesNext, part = "migration"
               PROVE  Migration!MigrationHolds
    OBVIOUS
  <2>1. Migration!Next /\ MigrationInv'
    BY <1>2, PartStays DEF ServicesNext
  <2> QED BY <2>1, MigrationFollows
<1> QED BY <1>1, <1>2, <1>3, PTL DEF ServicesSpec, MigrationHolds

(* Wherever the runs were killed, a published package consists of copies of *)
(* its own version with the libraries it imports, and what a run that ended *)
(* has published needs nothing that is not.                                 *)
THEOREM LibrariesAreKept == ServicesSpec => []LibrariesHold
<1> DEFINE Inv == part = "libraries" => LibrariesInv
<1>1. ServicesInit => Inv
  BY LibrariesStart DEF ServicesInit
<1>2. Inv /\ [ServicesNext]_servicesVars => Inv'
  BY PartStays, LibrariesStep, LibrariesInductive
<1>3. Inv => LibrariesHold
  BY LibrariesFollow DEF LibrariesHold
<1> QED BY <1>1, <1>2, <1>3, PTL DEF ServicesSpec

(* Who reads a list to its end has read every row that was there all the   *)
(* time, and none twice, and the pages announced are those there are.      *)
THEOREM PagesAreRead == ServicesSpec => []PagingHolds
<1> DEFINE Inv == part = "pages" => PagesInv
<1>1. ServicesInit => Inv
  BY PagesStart DEF ServicesInit
<1>2. Inv /\ [ServicesNext]_servicesVars => Inv'
  BY PartStays, PagesStep, PagesInductive
<1>3. Inv => PagingHolds
  BY PagesFollow DEF PagingHolds
<1> QED BY <1>1, <1>2, <1>3, PTL DEF ServicesSpec
=============================================================================
