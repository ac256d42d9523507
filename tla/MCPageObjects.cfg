SPECIFICATION FairSpec
CONSTANTS
    user = user
    submit = submit
    testid = testid
    login = login
    link = link
    button = button
    Empty = Empty
    ByRole = ByRole
    None = None
    Page = Page
    Texts = {testid, login, link, button, Empty, ByRole}
    Requests = {r1, r2}
    Codes = {user, submit}
    Jobs <- AllJobs
    Beforehand <- NoneOneTwo
    MaxFaults = 1
INVARIANTS
    TypeOK
    HistoryIsWhole
    LocatorIsRecorded
    CountersRecover
PROPERTIES
    PurgeKeepsOneEach
    EveryRequestEnds
CHECK_DEADLOCK FALSE
