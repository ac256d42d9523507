SPECIFICATION Spec
CONSTANTS
    first = first
    second = second
    strong = strong
    weak = weak
    draft1 = draft1
    None = None
    Gone = Gone
    Requests = {r1, r2}
    Assets = {first, second}
    Points = {strong, weak}
    Previews = {draft1}
    Jobs <- AllJobs
    Rank <- Alphabetical
    MaxFaults = 1
PROPERTIES
    CacheNeverOverwritesRow
CHECK_DEADLOCK FALSE
