SPECIFICATION Spec
CONSTANTS
    Absent = Absent
    Malformed = Malformed
    a1 = a1
    k1 = k1
    n1 = n1
    n2 = n2
    n3 = n3
    Address <- MCAddress
    Lower <- MCLower
    MaxU32 = 3
    MaxI64 = 6
    MaxU64 = 8
    Agents = {a1}
    Keys = {k1}
    Day = 1
    MinTtl = 1
    MaxTtl = 2
    Requests = {r1, r2, r3}
    RuleIds = {1}
    Nonces = {n1, n2}
    Payloads <- ReplayPayloads
    RuleTypes <- DayRules
    KeySpecs <- SomeKeySpecs
    InitAgents <- Active
    InitRules <- OneDayRule
    InitKeys <- OneKey
    Operations <- Failures
    PoolSize = 2
    MaxTime = 1
SYMMETRY SymmetricRequests
INVARIANT IInv
INVARIANT MeteredNonceOnce
INVARIANT DeliveredIsRecorded
INVARIANT KeySpendSandwich
PROPERTY ImplementsMeteredPayments
