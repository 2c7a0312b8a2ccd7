SPECIFICATION Spec
CONSTANTS
    User = {alice, bob}
    Owner = owner
    Contract = contract
    None = None
    Scale = 4
    Coins = 3
    Rewards = 4
    InitialBank <- MCInitialBank
    InitialRewards <- MCInitialRewards
PROPERTIES
    RewardsComeFromIncreases
