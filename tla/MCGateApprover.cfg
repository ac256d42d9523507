SPECIFICATION Spec
CONSTANTS
    r1 = r1
    r2 = r2
    r3 = r3
    r4 = r4
    admin = admin
    lead = lead
    tester = tester
    s1 = s1
    s2 = s2
    s3 = s3
    None = None
    Anonymous = Anonymous
    Users = {admin, lead, tester}
    Privileged = {admin, lead}
    Bypass = {admin}
    Subjects = {s1, s2, s3}
    DualApproval = TRUE
    Limit = 2
    Requests = {r1, r2, r3}
    Commands <- GateCommands
    Watched = {s1}
    Database = TRUE
    Disturbances = {}
SYMMETRY Symmetry
INVARIANTS
    SecondApproverDiffers
CHECK_DEADLOCK FALSE
