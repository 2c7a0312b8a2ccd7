SPECIFICATION GungnirSpec
CONSTANTS
    User = {alice, bob}
    Contract = contract
    None = None
    Coins = 2
    InitialBank <- MCInitialBank
    LOCK_PERIOD = 2
    Modulus = 4
    MaxTime = 4
INVARIANTS
    GungnirTypeOK
    LockKeepsTokens
PROPERTIES
    PowerStaysBacked
    GungnirImplementsCustody
