SPECIFICATION Spec
CONSTANTS
    User = {alice, bob, carol}
    Vault = vault
    Coins = 5
    Seed = 1
    InitialBank <- MCInitialBank
INVARIANTS
    TypeOK
    SupplyBacked
    ClaimsCovered
PROPERTIES
    RateNeverFalls
    ImplementsFairVault
\* Everybody may have given all the coins away while no share exists.
CHECK_DEADLOCK FALSE
