SPECIFICATION Spec
CONSTANTS
    owner = owner
    agent = agent
    other = other
    pda = pda
    ata = ata
    spare = spare
    ownerAcc = ownerAcc
    shop = shop
    Signers = {owner, agent, other}
    Owner = owner
    NoKey = NoKey
    Pda = pda
    TokenAccounts = {ata, spare, ownerAcc, shop}
    AuthorityOf <- Authority
    Ata = ata
    Absent = Absent
    Amounts = {0, 1, 2}
    InitParams <- SomeParams
    Updates <- SomeUpdates
    StartBalance <- Balances
    MaxAllowed = 1
    MaxCap = 2
    MaxU64 = 9
    Day = 2
    MaxTime = 4
INVARIANT IInv
INVARIANT RollingWithinTwice
 
INVARIANT LimitsOrdered
PROPERTY WithdrawalsCharged

\* A vault whose associated account outlived it is never created again: after
\* the last tick nothing more happens.
CHECK_DEADLOCK FALSE
