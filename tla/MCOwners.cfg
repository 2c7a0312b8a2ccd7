SPECIFICATION MCSpec
CONSTANTS
    User = {alice, bob}
    Contract = contract
    NoOwner = NoOwner
    None = None
    FirstOwner = alice
    InitialOwner = alice
    FirstThreshold = 1
    Coins = 2
    InitialBank <- MCInitialBank
    MaxBalance = 3
    Tokens = 2
    InitialBalance <- MCInitialBalance
    InitialSupply <- MCInitialSupply
    voting_window = 1
    MaxSupply = 5
    MaxTime = 4
INVARIANTS
    OwnershipOK
    RankingOK
    HofundTypeOK
PROPERTIES
    VaultImplementsCustody
    RolePassesUpwards
    HofundImplementsHandover
    ProposalHeard
CHECK_DEADLOCK FALSE
