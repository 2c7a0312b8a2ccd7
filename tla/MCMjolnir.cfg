SPECIFICATION MjolnirSpec
CONSTANTS
    User = {alice, bob}
    Contract = contract
    None = None
    Coins = 4
    InitialBank <- MCInitialBank
    MINIMUM_DEPOSIT_AMOUNT = 2
    LOCK_PERIOD = 2
    IdLists <- AllLists
    MaxId = 4
    MaxTime = 4
INVARIANTS
    MjolnirTypeOK
PROPERTIES
    LockupEndsPaid
    MjolnirImplementsCustody
CHECK_DEADLOCK FALSE
