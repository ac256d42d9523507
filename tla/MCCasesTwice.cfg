SPECIFICATION Spec
CONSTANTS
    login = login
    logout = logout
    None = None
    Requests = {r1, r2}
    Points = {login, logout}
    Jobs <- AllJobs
    Beforehand = {login}
    MaxNumber = 5
    MaxVersion = 4
    MaxFaults = 0
INVARIANTS
    OneCasePerPoint
CHECK_DEADLOCK FALSE
