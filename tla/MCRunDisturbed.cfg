SPECIFICATION Spec
CONSTANTS
    run1 = run1
    run2 = run2
    case1 = case1
    None = None
    Runs = {run1, run2}
    Cases = {case1}
    CaseOf <- OneCase
    Ttl = 1
    Timeout = 2
    Disturbances = {"db", "setup", "raise", "stall", "crash"}
SYMMETRY Symmetry
INVARIANTS
    TypeOK
    OneVerdict
CHECK_DEADLOCK FALSE
