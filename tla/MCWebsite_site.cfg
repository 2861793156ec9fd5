SPECIFICATION WebsiteFair
CHECK_DEADLOCK FALSE
CONSTANTS
    Absent = Absent
    Malformed = Malformed
    Nobody = Nobody
    a1 = a1
    a2 = a2
    k1 = k1
    n1 = n1
    n2 = n2
    n3 = n3
    w1 = w1
    w2 = w2
    t1 = t1
    t2 = t2
    Address <- MCAddress
    Lower <- MCLower
    MaxU32 = 3
    MaxI64 = 6
    MaxU64 = 8
    Agents = {a1, a2}
    Keys = {k1}
    Day = 1
    MinTtl = 1
    MaxTtl = 1
    Requests = {r1, r2}
    RuleIds = {1}
    Nonces = {n1, n2, n3}
    Payloads <- TwoPay
    RuleTypes <- OneRuleType
    KeySpecs <- OneKeySpec
    InitAgents <- Active
    InitRules <- RuleOfTwo
    InitKeys <- NoKeys
    Operations <- SiteOperations
    PoolSize = 2
    MaxTime = 0
    Wallets = {w1, w2}
    Tabs = {t1, t2}
    ChatTabs = {t1, t2}
    MaxNonces = 2
    Owner <- MCOwner
    Sites <- MCSites
    MaxMessages = 3
    MaxSteps = 2
    MaxSends = 4
    Journeys <- MCJourneys
INVARIANT SiteType
INVARIANT WritesBySigner
INVARIANT FailureExcused
INVARIANT PageTellsTheTruth
INVARIANT MonitorSound
INVARIANT CostBounded
PROPERTY PagesSettle
