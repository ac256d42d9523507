SPECIFICATION FairSpec
CONSTANTS
    run1 = run1
    run2 = run2
    case1 = case1
    None = None
    Runs = {run1, run2}
    Cases = {case1}
    CaseOf <- OneCase
    Ttl = 1
    Timeout = 3
    Disturbances = {}
INVARIANTS
    ResultReachesRow
    CachedRunsAreRecorded
PROPERTIES
    ReadsNeverGoBack
    EveryRunEnds
CHECK_DEADLOCK FALSE
