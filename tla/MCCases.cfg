SPECIFICATION FairSpec
CONSTANTS
    login = login
    logout = logout
    None = None
    Requests = {r1, r2}
    Points = {login, logout}
    Jobs <- AllJobs
    Beforehand = {login}
    MaxNumber = 5
    MaxVersion = 4
    MaxFaults = 1
INVARIANTS
    TypeOK
    StepsFromOneFlush
    EditsAreKept
    CalmHistory
    CalmCases
PROPERTIES
    EveryRequestEnds
CHECK_DEADLOCK FALSE
