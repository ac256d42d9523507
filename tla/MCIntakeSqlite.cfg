SPECIFICATION Spec
CONSTANTS
    r1 = r1
    r2 = r2
    r3 = r3
    shop = shop
    old = old
    k1 = k1
    k2 = k2
    x = x
    y = y
    reqShop = reqShop
    reqOld = reqOld
    Manual = Manual
    None = None
    Requests = {r1, r2, r3}
    Projects = {shop, old}
    ActiveProjects = {shop}
    Keys = {k1, k2}
    Contents = {x, y}
    Requirements = {reqShop, reqOld}
    RequirementProject <- MCRequirementProject
    Commands <- SourceCommands
    Retention = 1
    MaxClock = 2
    RowLocks = FALSE
SYMMETRY Symmetry
INVARIANTS
    SourcesAudited
PROPERTIES
    RecordsOnlyReoccupied
    ContractSpec
CHECK_DEADLOCK FALSE
