SPECIFICATION Spec
CONSTANTS
    Absent = Absent
    Malformed = Malformed
    a1 = a1
    k1 = k1
    n1 = n1
    n2 = n2
    n3 = n3
    Address <- MCAddress
    Lower <- MCLower
    MaxU32 = 3
    MaxI64 = 6
    MaxU64 = 8
    Agents = {a1}
    Keys = {k1}
    Day = 2
    MinTtl = 1
    MaxTtl = 2
    Requests = {r1}
    RuleIds = {1, 2}
    Nonces = {n1}
    Payloads <- OddPayloads
    RuleTypes <- AnyRules
    KeySpecs <- SomeKeySpecs
    InitAgents <- NoAgents
    InitRules <- NoRules
    InitKeys <- NoKeys
    Operations <- AllOperations
    PoolSize = 2
    MaxTime = 2
PROPERTY RevokedNeverDelivered
PROPERTY RevocationIsFinal
INVARIANT TypeOK
