----------------------- MODULE MCEntityOwnershipGroup -----------------------
(***************************************************************************)
(* A team and a few requests to it that overlap in every way: one of two   *)
(* owners, with a third user invited; and one of a single owner who has    *)
(* invited a second.                                                       *)
(***************************************************************************)
EXTENDS EntityOwnershipGroup, TLC

CONSTANTS ann, bob, cem, r1, r2, r3, r4

Symmetric == Permutations(Requests)

TwoGrants == {{"OWNER"}, {"VIEW", "EDIT"}}

TwoOwners ==
    {[user |-> ann, caps |-> {"OWNER"}, at |-> 0],
     [user |-> bob, caps |-> {"OWNER"}, at |-> 1]}

OneOwner == {[user |-> ann, caps |-> {"OWNER"}, at |-> 0]}

BobInvitedAsOwner == {[id |-> "sent before", user |-> bob, caps |-> {"OWNER"}]}

CemInvited == {[id |-> "sent before", user |-> cem, caps |-> {"EDIT"}]}
=============================================================================
