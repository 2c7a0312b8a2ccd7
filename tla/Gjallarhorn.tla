----------------------------- MODULE Gjallarhorn -----------------------------
(***************************************************************************)
(* ctf-08, Gjallarhorn: a marketplace that takes NFTs into escrow when     *)
(* they are put on sale, sells them at a fixed price, and lets others      *)
(* offer an NFT of theirs in trade.  A transaction runs the handler and    *)
(* then its messages in order; if a message fails everything is undone,    *)
(* unless the handler asked for a reply_always, which swallows the error.  *)
(***************************************************************************)
EXTENDS Bank, Cw721

CONSTANTS
    User,           \* addresses that buy, sell and trade
    Market,         \* the address of the contract
    Token,          \* the NFTs of the collection
    Price,          \* the prices a seller may ask
    None,           \* no entry in a store
    InitialOwner,   \* who owns which NFT at the start
    InitialBank,    \* the coins everybody owns at the start
    MaxSales,       \* bound on OPERATIONS.n_sales
    MaxTrades       \* bound on OPERATIONS.n_trades

Account == User \cup {Market}
Sale == [price : Price, owner : User, tradable : BOOLEAN]

ASSUME MarketAssumption == Market \notin User
ASSUME NoneAssumption == None \notin User /\ None \notin Token /\ None \notin Sale
ASSUME PriceAssumption == Price \subseteq Nat
ASSUME OwnerAssumption == InitialOwner \in [Token -> User]
ASSUME BankAssumption == InitialBank \in [Account -> Nat]

VARIABLES
    nft,            \* the collection, see Cw721
    bank,           \* coins of every account
    sales,          \* SALES: by NFT
    trades,         \* TRADES: by NFT asked for and trader, the NFT offered
    n_sales,        \* OPERATIONS.n_sales
    n_trades,       \* OPERATIONS.n_trades
    depositor       \* history: who put the NFT now in escrow there by a sale

stores == <<sales, trades, n_sales, n_trades>>
vars == <<nft, bank, stores, depositor>>

TypeOK ==
    /\ nft \in [owner : [Token -> Account],
                approved : [Token -> SUBSET Account],
                operators : [Account -> SUBSET Account]]
    /\ bank \in [Account -> Nat]
    /\ sales \in [Token -> Sale \cup {None}]
    /\ trades \in [Token \X User -> Token \cup {None}]
    /\ n_sales \in Nat
    /\ n_trades \in Nat
    /\ depositor \in [Token -> User \cup {None}]

Init ==
    /\ nft = [owner |-> InitialOwner,
              approved |-> [t \in Token |-> {}],
              operators |-> [a \in Account |-> {}]]
    /\ bank = InitialBank
    /\ sales = [t \in Token |-> None]
    /\ trades = [k \in Token \X User |-> None]
    /\ n_sales = 0
    /\ n_trades = 0
    /\ depositor = [t \in Token |-> None]

\* An NFT that left the marketplace is no longer anybody's deposit.
StillDeposited == [t \in Token |-> IF nft'.owner[t] = Market THEN depositor[t] ELSE None]

-----------------------------------------------------------------------------
\* A transfer sent with reply_always: reply accepts a failure like a success.
Tried(c, token, to) ==
    IF MaySend(c, Market, token) THEN Transferred(c, token, to) ELSE c

\* A transfer the contract sends as a plain message: it must succeed.
\* (Mutated form: with reply_always.)
Send_ReplyAlways(token, to) == nft' = Tried(nft, token, to)
Send(token, to) ==
    /\ MaySend(nft, Market, token)
    /\ nft' = Transferred(nft, token, to)

\* (Mutated form: the sale is the contract's, who is about to own the NFT.)
SaleOf_Contract(seller, price, tradable) ==
    [price |-> price, owner |-> Market, tradable |-> tradable]
SaleOf(seller, price, tradable) ==
    [price |-> price, owner |-> seller, tradable |-> tradable]

\* An entry left over from an earlier sale of the NFT is overwritten.
\* (Mutated form: it is kept.)
Listed_KeepsOld(id, sale) ==
    IF sales[id] = None THEN [sales EXCEPT ![id] = sale] ELSE sales
Listed(id, sale) == [sales EXCEPT ![id] = sale]

NewSale(seller, id, price, tradable) ==
    /\ nft.owner[id] = seller
    /\ sales' = Listed(id, SaleOf(seller, price, tradable))
    /\ Send(id, Market)
    /\ depositor' = [depositor EXCEPT ![id] = seller]
    /\ UNCHANGED <<bank, trades, n_sales, n_trades>>

\* The payment first, then the NFT; reply counts the sale only on success.
Buy(buyer, id) ==
    /\ sales[id] # None
    /\ CanSend(bank, buyer, sales[id].price)
    /\ bank' = Sent(bank, buyer, sales[id].owner, sales[id].price)
    /\ Send(id, buyer)
    /\ sales' = [sales EXCEPT ![id] = None]
    /\ n_sales < MaxSales
    /\ n_sales' = n_sales + 1
    /\ depositor' = StillDeposited
    /\ UNCHANGED <<trades, n_trades>>

CancelSale(seller, id) ==
    /\ sales[id] # None
    /\ sales[id].owner = seller
    /\ Send(id, sales[id].owner)
    /\ sales' = [sales EXCEPT ![id] = None]
    /\ depositor' = StillDeposited
    /\ UNCHANGED <<bank, trades, n_sales, n_trades>>

\* The offered NFT stays with the trader; only the approval is looked at.
NewTrade(trader, asked, offered) ==
    /\ nft.owner[offered] = trader
    /\ HasApproval(nft, Market, offered)
    /\ sales[asked] # None
    /\ sales[asked].tradable
    /\ trades' = [trades EXCEPT ![<<asked, trader>>] = offered]
    /\ UNCHANGED <<nft, bank, sales, n_sales, n_trades, depositor>>

\* Two transfers, each tried on its own.  (Mutated form: the recipients swapped.)
Exchanged_Swapped(asked, trader, offered, seller) ==
    Tried(Tried(nft, asked, seller), offered, trader)
Exchanged(asked, trader, offered, seller) ==
    Tried(Tried(nft, asked, trader), offered, seller)

\* Both transfers are replied to, whatever came of them; the sale stays in SALES.
AcceptTrade(seller, asked, trader) ==
    /\ trades[<<asked, trader>>] # None
    /\ sales[asked] # None
    /\ sales[asked].owner = seller
    /\ nft' = Exchanged(asked, trader, trades[<<asked, trader>>], sales[asked].owner)
    /\ trades' = [trades EXCEPT ![<<asked, trader>>] = None]
    /\ n_trades + 2 <= MaxTrades
    /\ n_trades' = n_trades + 2
    /\ depositor' = StillDeposited
    /\ UNCHANGED <<bank, sales, n_sales>>

\* The offered NFT is sent to the trader, though the trader kept it when offering it:
\* the transaction needs the approval just as the acceptance does, or that the NFT
\* came into escrow since, by whoever's sale.
CancelTrade(trader, asked) ==
    /\ trades[<<asked, trader>>] # None
    /\ Send(trades[<<asked, trader>>], trader)
    /\ trades' = [trades EXCEPT ![<<asked, trader>>] = None]
    /\ depositor' = StillDeposited
    /\ UNCHANGED <<bank, sales, n_sales, n_trades>>

-----------------------------------------------------------------------------
\* What users do at the NFT contract without the marketplace.
UseNft(user) ==
    /\ \/ \E t \in Token, to \in Account :
            /\ nft.owner[t] = user
            /\ nft' = Transferred(nft, t, to)
       \/ \E t \in Token :
            /\ nft.owner[t] = user
            /\ nft' \in {Approved(nft, Market, t), Revoked(nft, Market, t)}
       \/ nft' \in {ApprovedAll(nft, user, Market), RevokedAll(nft, user, Market)}
    /\ UNCHANGED <<bank, stores, depositor>>

Next ==
    \E user \in User :
        \/ \E id \in Token, price \in Price, tradable \in BOOLEAN :
             NewSale(user, id, price, tradable)
        \/ \E id \in Token : Buy(user, id)
        \/ \E id \in Token : CancelSale(user, id)
        \/ \E asked, offered \in Token : NewTrade(user, asked, offered)
        \/ \E asked \in Token, trader \in User : AcceptTrade(user, asked, trader)
        \/ \E asked \in Token : CancelTrade(user, asked)
        \/ UseNft(user)

Spec == Init /\ [][Next]_vars

-----------------------------------------------------------------------------
\* While an NFT that was put on sale is in escrow, SALES names the user who put
\* it there, so that this user can cancel the sale and get it back.
EscrowRefundable ==
    \A t \in Token : depositor[t] # None =>
        /\ nft.owner[t] = Market
        /\ sales[t] # None
        /\ sales[t].owner = depositor[t]

\* Coins move only against an NFT: the buyer is the owner afterwards, the seller
\* named in SALES has the price, the sale cannot be bought again, and reply has
\* counted it.
DeliveryVersusPayment ==
    [][bank' # bank =>
         \E buyer \in User, t \in Token :
            /\ sales[t] # None
            /\ nft'.owner[t] = buyer
            /\ bank' = Sent(bank, buyer, sales[t].owner, sales[t].price)
            /\ sales'[t] = None
            /\ n_sales' = n_sales + 1]_vars

\* An accepted trade is an exchange, as the trade flow test asserts, whatever became
\* of the sale since the offer, if at the acceptance the asked NFT is somebody's
\* deposit and the offered one is still the trader's and still approved: the
\* depositor and the trader have each other's NFT.  Without the approval the trade is
\* accepted all the same, and only one of the NFTs moves.
TradeIsExchange ==
    [][n_trades' # n_trades => \A t \in Token, trader \in User :
         LET offered == trades[<<t, trader>>]
         IN  /\ offered # None
             /\ trades'[<<t, trader>>] = None
             /\ depositor[t] # None
             /\ nft.owner[offered] = trader
             /\ HasApproval(nft, Market, offered)
             => /\ nft'.owner[t] = trader
                /\ nft'.owner[offered] = depositor[t]]_vars
=============================================================================
