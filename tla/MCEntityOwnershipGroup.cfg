SPECIFICATION Spec
CONSTANTS
    ann = ann
    bob = bob
    cem = cem
    r1 = r1
    r2 = r2
    r3 = r3
    r4 = r4
    Users = {ann, bob, cem}
    Admins = {cem}
    Requests = {r1, r2}
    Grants <- TwoGrants
    LoginIsName = {bob}
    FirstMembers <- TwoOwners
    FirstVersion = 2
    FirstInvitations <- CemInvited
    Holders = {cem}
SYMMETRY Symmetric
PROPERTIES
    MemberChangesHold
    RemovalKeepsAnOwner
    InvitationKept
\* Every request may have been answered.
CHECK_DEADLOCK FALSE
