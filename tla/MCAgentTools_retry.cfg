SPECIFICATION FairToolSpec
CONSTANTS
    Absent = Absent
    Malformed = Malformed
    Created = Created
    Unknown = Unknown
    a1 = a1
    a2 = a2
    a3 = a3
    k1 = k1
    k2 = k2
    k3 = k3
    n1 = n1
    n2 = n2
    Address <- MCAddress
    Lower <- MCLower
    MaxU32 = 3
    MaxI64 = 10
    MaxU64 = 12
    Agents = {a1, a2, a3}
    Keys = {k1, k2, k3}
    Day = 2
    MinTtl = 1
    MaxTtl = 2
    Requests <- SomeRequests
    MaxRetries = 2
    MaxCalls = 9
    SolanaNetworks = {"solana-devnet", "solana-mainnet"}
    Configs <- SomeConfigs
    RuleIds = {1, 2, 3, 4, 5}
    Nonces = {n1, n2}
    Payloads <- SomePayloads
    RuleTypes <- SomeRules
    KeySpecs <- SomeSpecs
    InitAgents <- OneActive
    InitRules <- OneDayRule
    InitKeys <- OneKey
    Operations <- SomeOperations
    PoolSize = 1
    MaxTime = 0
INVARIANT ToolType
INVARIANT PaidOnce
INVARIANT RefusalIsFinal
INVARIANT ReportedRevocationHolds
INVARIANT ToldTheTruth
INVARIANT LateKeysOnlyAfterLoss
PROPERTY AgentFinishes
PROPERTY EveryCallAnswered
