SPECIFICATION PagesSpec
CONSTANTS
    e1 = e1
    e2 = e2
    e3 = e3
    e4 = e4
    Events = {e1, e2, e3, e4}
    Refused = {e1}
    MaxBatch = 2
    MaxErrors = 1
    MaxCrashes = 1
    CreatedAt <- MCCreatedAt
    Rank <- MCRank
    Filters <- MCFilters
    PageSize = 1
    NoRow = NoRow
    None = None
    Day = 2
    MaxFetches = 2
INVARIANT PagesType
INVARIANT InOrderOnce
INVARIANT LossWithinBatch
INVARIANT NothingSkipped
PROPERTY AlwaysSettled
