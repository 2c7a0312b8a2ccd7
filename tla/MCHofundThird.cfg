SPECIFICATION HofundSpec
CONSTANTS
    User = {alice, bob}
    Contract = contract
    None = None
    InitialOwner = alice
    Tokens = 2
    InitialBalance <- MCInitialBalance
    InitialSupply <- MCInitialSupply
    voting_window = 1
    MaxSupply = 5
    MaxTime = 4
PROPERTIES
    ElectedByThird
CHECK_DEADLOCK FALSE
