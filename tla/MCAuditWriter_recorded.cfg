SPECIFICATION FairSpec
CONSTANTS
    e1 = e1
    e2 = e2
    e3 = e3
    e4 = e4
    Events = {e1, e2}
    Refused = {e1}
    MaxBatch = 2
    MaxErrors = 0
    MaxCrashes = 0
PROPERTY EveryActionRecorded
