\* A deletion and an assignment of the same team cross.
SPECIFICATION OwnershipSpec
CONSTANTS
    Operations = {r1, r2}
    Entities = {account}
    Teams <- MCTeams
    Grantees <- MCUsers
    TeamMembers <- MCTeamMembers
    t1 = t1
    t2 = t2
    u1 = u1
    NoTeam = NoTeam
    NoId = NoId
    Before = Before
SYMMETRY Interchangeable

PROPERTIES OwningTeamIsKept
CHECK_DEADLOCK FALSE
