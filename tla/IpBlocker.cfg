\* Three calls and a restart.
SPECIFICATION Spec
CONSTANTS
    Startup = Startup
    Calls = {c1, c2, c3}
    MaxRestarts = 1
INVARIANTS PointsAreEarned StartupRestores
PROPERTIES RestartReleases
\* Every call may have been answered.
CHECK_DEADLOCK FALSE
