SPECIFICATION Spec
CONSTANTS
    alice = alice
    bob = bob
    t1 = t1
    t2 = t2
    User <- MCUser
    Token <- MCToken
    InitialOwner <- MCInitialOwner
    InitialBank <- MCInitialBank
    Market = market
    None = None
    Price = {1}
    MaxSales = 1
    MaxTrades = 2
SYMMETRY Symmetry
INVARIANTS
    TypeOK
    EscrowRefundable
PROPERTIES
    DeliveryVersusPayment
    TradeIsExchange
