----------------------------- MODULE MCServices -----------------------------
(* The services with two or three requests each, and what there may be when *)
(* they begin.                                                              *)
EXTENDS Services

CONSTANTS req1, req2, req3, ann, bob, here, there, proc1, proc2

-----------------------------------------------------------------------------
OneFile == {[id |-> Before, file |-> Before, version |-> 0, volatile |-> FALSE,
             scaled |-> {[width |-> 2, of |-> Before]}]}

OpenMetas == {<<>>, <<[status |-> "ALLOW", banned |-> [w \in {ann} |-> 0], items |-> <<>>, version |-> 0]>>}
OneRestriction == {{}, {[id |-> Before, user |-> ann, ends |-> "later"]}}

(* Roles of the feedback service: ann is an agent, bob an administrator.    *)
FeedbackRoles == "ADD" :> [needsAuthenticated |-> FALSE, roles |-> {}]
              @@ "ALL" :> [needsAuthenticated |-> Missing, roles |-> {ann}]

Tree(p, above, path, n) ==
    [parent |-> p, ancestors |-> above, slug |-> here, path |-> path, name |-> n, active |-> TRUE,
     contents |-> [l \in {here} |-> None]]
OneTree == {Before :> Tree(None, {}, <<here>>, ann) @@ Same :> Tree(Before, {Before}, <<here, here>>, bob)}

ADraft == [slug |-> here, status |-> "draft", texts |-> here :> "text" @@ there :> "none",
           defaultLocale |-> here, publishedAt |-> None, active |-> TRUE]
OnePost == {Before :> ADraft, Before :> [ADraft EXCEPT !.status = "published", !.publishedAt = Before]}

Row(key, own) == [key |-> key, active |-> TRUE, own |-> own]
ThreeLists == {<<>>, <<Row(1, TRUE), Row(1, TRUE)>>, <<Row(2, TRUE), Row(1, FALSE), Row(2, TRUE)>>}

(* Ann is a member of the team, bob has a role that may override, and, in   *)
(* one state of the team, capabilities for entities of another kind.        *)
OwnedByTeam == [members |-> {}, team |-> Same, roles |-> Missing]
RightsFor(u, k, caps) == [user |-> u, entity |-> {[kind |-> k, capabilities |-> caps]}]
TwoTeams == {[members |-> {RightsFor(ann, "this", {2})}, roles |-> {}],
             [members |-> {RightsFor(ann, "this", {2}), RightsFor(bob, "other", {4})}, roles |-> {"editors"}]}
BobEdits == ann :> {} @@ bob :> {"editors"}
UnownedOrTeams == {None, OwnedByTeam}
SomeQueries == {Missing, {}, {{}}, {{4}}}

Member(u, said, caps, entitySaid, entity) ==
    [user |-> u, role |-> said, capabilities |-> caps, entityRole |-> entitySaid, entity |-> entity]
OldTeams == {{Member(ann, "OWNER", {}, None, {1})},
             {Member(ann, None, {1}, "EDITOR", {}), Member(bob, None, {2}, None, {})}}
OldInvites == {None, [user |-> bob, role |-> "EDITOR", capabilities |-> {}, entity |-> {4}]}
OldRoles == "OWNER" :> {1} @@ "EDITOR" :> {2, 4}

(* Libraries a and d are published, b and c embedded; in the second version *)
(* a library is as large as one it embeds.  In the last order of the        *)
(* directories c could not be read.                                         *)
Uses == <<[a |-> {"b", "c", "d"}, b |-> {"c", "mongoose"}, c |-> {}, d |-> {"c"}],
          [a |-> {"b", "d"}, b |-> {"c", "mongoose"}, c |-> {}, d |-> {"b"}]>>
Modes == [a |-> "PEER", b |-> "EMBEDDED", c |-> "EMBEDDED", d |-> "PEER"]
Visits == {<<"a", "b", "c", "d">>, <<"d", "c", "b", "a">>, <<"a", "b", "d">>}

(* An agent and an administrator, let in, suspended or not yet active.      *)
FirstUser(r, active, suspended) ==
    [roles |-> [x \in {ann, bob} |-> IF x = r THEN 1 ELSE 0], active |-> active,
     suspended |-> suspended, version |-> 0]
SixUsers == {FirstUser(r, TRUE, s) : r \in {ann, bob}, s \in BOOLEAN}
            \union {FirstUser(r, FALSE, FALSE) : r \in {ann, bob}}

SomeSizes == {-1, 0, 1, 3}
=============================================================================
