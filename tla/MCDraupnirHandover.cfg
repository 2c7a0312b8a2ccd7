SPECIFICATION DraupnirSpec
CONSTANTS
    User = {alice, bob}
    Contract = contract
    NoOwner = NoOwner
    FirstOwner = alice
    Coins = 2
    InitialBank <- MCInitialBank
    MaxBalance = 4
PROPERTIES
    ImplementsHandover
