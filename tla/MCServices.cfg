SPECIFICATION ServicesSpec
CONSTANTS
    req1 = req1
    req2 = req2
    req3 = req3
    ann = ann
    bob = bob
    here = here
    there = there
    proc1 = proc1
    proc2 = proc2
    Before = before
    Missing = Missing
    Same = Same
    None = None
    New = New
    Off = Off
    Processes = {proc1, proc2}
    Three = {req1, req2, req3}
    Two = {req1, req2}
    Users = {ann, bob}
    Grants = {{4}}
    Slugs = {here, there}
    Roles = {ann, bob}
    Admin = bob
    FileCalls = {req1, req3}
    FirstFiles <- OneFile
    Widths = {0, 1}
    Small = {req3}
    Poster = ann
    Commenters = {ann}
    Children = {here}
    FirstMetas <- OpenMetas
    FirstRestrictions <- OneRestriction
    Authorization <- FeedbackRoles
    HasArray = TRUE
    FirstTrees <- OneTree
    Names = {ann, bob, New}
    DocumentLocales = {here}
    FirstPosts <- OnePost
    PostLocales = {here, there}
    RowIds = {1, 2, 3}
    Keys = {1, 2}
    ListKinds = {"comments", "sessions", "posts", "crud"}
    Sizes <- SomeSizes
    DefaultSize = 2
    MaxPageSize = 2
    FirstRows <- ThreeLists
    MaxTurns = 1
    Queries <- SomeQueries
    TheTeam = Same
    RolesOf <- BobEdits
    Administrator = "ADMIN"
    FirstOwned <- UnownedOrTeams
    TeamStates <- TwoTeams
    Migrated <- OldRoles
    FirstTeams <- OldTeams
    FirstInvites <- OldInvites
    MaxChanges = 2
    LibraryNames = {"a", "b", "c", "d"}
    Mode <- Modes
    Packages = {"mongoose"}
    LastVersion = 2
    Requires <- Uses
    Scans <- Visits
    MaxRuns = 3
    FirstUsers <- SixUsers
INVARIANTS
    FilesHold
    TreesHold
    HierarchyIsClosed
    PagingHolds
    
    LibrariesHold
PROPERTIES
    VotesHold
    CommentsHold
    MarkStays
    PostsHold
    RightsHold
    MigrationHolds
\* Every request may have been answered.
CHECK_DEADLOCK FALSE
