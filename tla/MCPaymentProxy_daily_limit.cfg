SPECIFICATION Spec
CONSTANTS
    Absent = Absent
    Malformed = Malformed
    a1 = a1
    k1 = k1
    n1 = n1
    n2 = n2
    n3 = n3
    Address <- MCAddress
    Lower <- MCLower
    MaxU32 = 3
    MaxI64 = 6
    MaxU64 = 8
    Agents = {a1}
    Keys = {k1}
    Day = 2
    MinTtl = 1
    MaxTtl = 2
    Requests = {r1, r2}
    RuleIds = {1}
    Nonces = {n1, n2, n3}
    Payloads <- SpendPayloads
    RuleTypes <- DayRules
    KeySpecs <- SomeKeySpecs
    InitAgents <- Active
    InitRules <- OneDayRule
    InitKeys <- NoKeys
    Operations <- NoOperations
    PoolSize = 2
    MaxTime = 2
INVARIANT DailyLimitHolds
