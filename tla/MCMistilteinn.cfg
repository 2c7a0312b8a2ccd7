SPECIFICATION Spec
CONSTANTS
    alice = alice
    bob = bob
    User <- MCUser
    None = None
    Nft = nft
    PageSize = 2
    UsizeValues = 4
    MaxLimit = 4
    MaxTokens = 4
SYMMETRY Symmetry
INVARIANTS
    TypeOK
    MintedWithinLimit
    WhitelistedMayMint
PROPERTIES
    ImplementsSerialIssue
CHECK_DEADLOCK FALSE
