\* Three requests of any kind on one entity, owned or not at the start.
SPECIFICATION OwnershipSpec
CONSTANTS
    Operations = {r1, r2, r3}
    Entities = {account}
    Teams <- MCTeams
    Grantees <- MCUsers
    TeamMembers <- MCTeamMembers
    t1 = t1
    t2 = t2
    u1 = u1
    NoTeam = NoTeam
    NoId = NoId
    Before = Before
SYMMETRY Interchangeable
INVARIANTS AcknowledgedOwns
PROPERTIES ReplacesWhatItRead
CHECK_DEADLOCK FALSE
