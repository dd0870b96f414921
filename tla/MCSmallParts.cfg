SPECIFICATION PartsSpec
CONSTANTS
    t1 = t1
    t2 = t2
    s1 = s1
    s2 = s2
    None = None
    Tasks = {t1, t2, t3, t4}
    Messages = {t1, t2}
    Sessions = {s1, s2}
    Ways <- TwoWays
    Answers = {t3, t4}
    Parts = 2
    Follow = FALSE
    Subjects = {t1, t2}
    MaxLinks = 3
    MaxLines = 2
    Calls = {c1, c2, c3}
    Users = {ann, bob}
    CreationKeys = {key}
    NoKey = NoKey
    BadKey = BadKey
    Inputs = {team, otherTeam}
    Slots = {1, 2}
    LastPort = 5
    MaxDeaths = 2
    MaxErrors = 1
INVARIANTS
    RequestsHaveATarget
    AnswersAreWhole
    ListenedAgain
PROPERTIES
    ImplementsGetOrCreate
    ImplementsFifoLock
    QueueIsFifoLock
    ProxyRecovers
    MessagesAreAnswered
    ListensSettle
    LastLineIsReviewed
\* Every call may have been made and answered.
CHECK_DEADLOCK FALSE
