SPECIFICATION ProxySpec
CONSTANTS
    owner = owner
    agent = agent
    other = other
    pda = pda
    ata = ata
    ownerAcc = ownerAcc
    shop = shop
    Signers = {owner, agent, other}
    Owner = owner
    NoKey = NoKey
    Pda = pda
    TokenAccounts = {ata, ownerAcc, shop}
    AuthorityOf <- Authority
    Ata = ata
    Absent = Absent
    Malformed = Malformed
    Amounts = {1}
    InitParams <- SomeParams
    Updates <- SomeUpdates
    StartBalance <- Balances
    MaxAllowed = 1
    MaxCap = 2
    MaxU64 = 9
    Day = 1
    MaxTime = 1
    Calls = {c1}
    CallArgs <- SomeArgs
INVARIANT ProxyTypeOK
INVARIANT PassedMeansAccepted
