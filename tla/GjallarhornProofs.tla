-------------------------- MODULE GjallarhornProofs --------------------------
(***************************************************************************)
(* Theorems about Gjallarhorn for every set of users and NFTs, every set   *)
(* of prices and every number of sales and trades.                         *)
(***************************************************************************)
EXTENDS Gjallarhorn, TLAPS

Collection == [owner : [Token -> Account],
               approved : [Token -> SUBSET Account],
               operators : [Account -> SUBSET Account]]

IInv == TypeOK /\ EscrowRefundable

\* A transfer moves one NFT.
LEMMA TransferredNft ==
    ASSUME NEW c \in Collection, NEW t \in Token, NEW to \in Account
    PROVE  /\ Transferred(c, t, to) \in Collection
           /\ Transferred(c, t, to).owner[t] = to
           /\ \A s \in Token : s # t => Transferred(c, t, to).owner[s] = c.owner[s]
BY DEF Transferred, Collection

\* A transfer with reply_always moves the NFT or nothing.
LEMMA TriedNft ==
    ASSUME NEW c \in Collection, NEW t \in Token, NEW to \in Account
    PROVE  Tried(c, t, to) \in Collection
BY TransferredNft DEF Tried

\* Approvals do not move NFTs: of one NFT, and of all of a user.
LEMMA ApprovalNft ==
    ASSUME NEW c \in Collection, NEW t \in Token, NEW a \in Account,
           NEW d \in {Approved(c, a, t), Revoked(c, a, t)}
    PROVE  d \in Collection /\ d.owner = c.owner
BY DEF Approved, Revoked, Collection

LEMMA OperatorNft ==
    ASSUME NEW c \in Collection, NEW u \in Account, NEW a \in Account,
           NEW d \in {ApprovedAll(c, u, a), RevokedAll(c, u, a)}
    PROVE  d \in Collection /\ d.owner = c.owner
BY DEF ApprovedAll, RevokedAll, Collection

LEMMA SentBank ==
    ASSUME NEW b \in [Account -> Nat], NEW f \in Account, NEW t \in Account,
           NEW n \in Nat, n <= b[f]
    PROVE  Sent(b, f, t, n) \in [Account -> Nat]
BY DEF Sent

LEMMA Addresses == Market \in Account /\ \A u \in User : u \in Account /\ u # Market
BY MarketAssumption DEF Account

-----------------------------------------------------------------------------
LEMMA InvInit == Init => IInv
<1> SUFFICES ASSUME Init PROVE IInv
  OBVIOUS
<1>1. nft \in Collection
  BY OwnerAssumption DEF Init, Collection, Account
<1>2. TypeOK
  BY <1>1, BankAssumption DEF Init, TypeOK, Collection
<1>3. EscrowRefundable
  BY DEF Init, EscrowRefundable
<1>4. QED
  BY <1>2, <1>3 DEF IInv

LEMMA NewSaleStep ==
    ASSUME IInv, NEW seller \in User, NEW id \in Token, NEW price \in Price,
           NEW tradable \in BOOLEAN, NewSale(seller, id, price, tradable)
    PROVE  IInv'
<1> DEFINE sale == SaleOf(seller, price, tradable)
<1>1. sale \in Sale /\ sale # None /\ sale.owner = seller
  BY NoneAssumption DEF SaleOf, Sale
<1> HIDE DEF sale
<1>2. /\ sales' = [sales EXCEPT ![id] = sale]
      /\ depositor' = [depositor EXCEPT ![id] = seller]
      /\ nft' = Transferred(nft, id, Market)
  BY DEF NewSale, Listed, Send, sale
<1>3. /\ nft' \in Collection
      /\ nft'.owner[id] = Market
      /\ \A s \in Token : s # id => nft'.owner[s] = nft.owner[s]
  BY <1>2, TransferredNft, Addresses DEF IInv, TypeOK, Collection
<1>4. TypeOK'
  BY <1>1, <1>2, <1>3 DEF IInv, TypeOK, NewSale, Collection
<1>5. EscrowRefundable'
  BY <1>1, <1>2, <1>3 DEF IInv, TypeOK, EscrowRefundable
<1>6. QED
  BY <1>4, <1>5 DEF IInv

\* The history variable follows the NFTs out of the marketplace.
LEMMA StillDepositedType ==
    ASSUME TypeOK, depositor' = StillDeposited
    PROVE  /\ depositor' \in [Token -> User \cup {None}]
           /\ \A t \in Token : depositor'[t] # None =>
                nft'.owner[t] = Market /\ depositor[t] = depositor'[t]
BY DEF TypeOK, StillDeposited

\* A handler that gives an NFT away may forget its sale.
LEMMA GivesAway ==
    ASSUME IInv, NEW id \in Token, NEW to \in User,
           nft' = Transferred(nft, id, to),
           sales' = [sales EXCEPT ![id] = None],
           depositor' = StillDeposited
    PROVE  /\ nft' \in Collection
           /\ sales' \in [Token -> Sale \cup {None}]
           /\ depositor' \in [Token -> User \cup {None}]
           /\ EscrowRefundable'
<1>1. /\ nft' \in Collection
      /\ nft'.owner[id] # Market
  <2>1. nft \in Collection
    BY DEF IInv, TypeOK, Collection
  <2>2. to \in Account /\ to # Market
    BY Addresses
  <2>3. QED
    BY <2>1, <2>2, TransferredNft
<1>2. sales' \in [Token -> Sale \cup {None}]
  BY DEF IInv, TypeOK
<1>3. /\ depositor' \in [Token -> User \cup {None}]
      /\ \A t \in Token : depositor'[t] # None =>
           nft'.owner[t] = Market /\ depositor[t] = depositor'[t]
  BY StillDepositedType DEF IInv
<1>4. EscrowRefundable'
  <2> SUFFICES ASSUME NEW t \in Token, depositor'[t] # None
               PROVE  nft'.owner[t] = Market /\ sales'[t] # None
                      /\ sales'[t].owner = depositor'[t]
    BY DEF EscrowRefundable
  <2>1. nft'.owner[t] = Market /\ depositor[t] = depositor'[t] /\ t # id
    BY <1>1, <1>3
  <2>2. sales'[t] = sales[t]
    BY <2>1 DEF IInv, TypeOK
  <2>3. QED
    BY <2>1, <2>2 DEF IInv, EscrowRefundable
<1>5. QED
  BY <1>1, <1>2, <1>3, <1>4

LEMMA BuyStep ==
    ASSUME IInv, NEW buyer \in User, NEW id \in Token, Buy(buyer, id)
    PROVE  IInv'
<1>1. sales[id] \in Sale
  BY DEF IInv, TypeOK, Buy
<1>2. sales[id].owner \in Account /\ sales[id].price \in Nat
  BY <1>1, Addresses, PriceAssumption DEF Sale
<1>3. bank' \in [Account -> Nat]
  BY <1>2, SentBank, Addresses DEF IInv, TypeOK, Buy, CanSend
<1>4. /\ nft' \in Collection
      /\ sales' \in [Token -> Sale \cup {None}]
      /\ depositor' \in [Token -> User \cup {None}]
      /\ EscrowRefundable'
  BY GivesAway DEF Buy, Send
<1>5. n_sales' \in Nat /\ UNCHANGED <<trades, n_trades>>
  BY DEF IInv, TypeOK, Buy
<1>6. QED
  BY <1>3, <1>4, <1>5 DEF IInv, TypeOK, Collection

LEMMA CancelSaleStep ==
    ASSUME IInv, NEW seller \in User, NEW id \in Token, CancelSale(seller, id)
    PROVE  IInv'
<1>1. sales[id].owner = seller
  BY DEF CancelSale
<1>2. /\ nft' \in Collection
      /\ sales' \in [Token -> Sale \cup {None}]
      /\ depositor' \in [Token -> User \cup {None}]
      /\ EscrowRefundable'
  BY <1>1, GivesAway DEF CancelSale, Send
<1>3. UNCHANGED <<bank, trades, n_sales, n_trades>>
  BY DEF CancelSale
<1>4. QED
  BY <1>2, <1>3 DEF IInv, TypeOK, Collection

\* Handlers that leave the sales alone keep the invariant, wherever NFTs go.
LEMMA SalesKept ==
    ASSUME IInv, depositor' = StillDeposited, sales' = sales
    PROVE  depositor' \in [Token -> User \cup {None}] /\ EscrowRefundable'
<1>1. /\ depositor' \in [Token -> User \cup {None}]
      /\ \A t \in Token : depositor'[t] # None =>
           nft'.owner[t] = Market /\ depositor[t] = depositor'[t]
  BY StillDepositedType DEF IInv
<1>2. QED
  BY <1>1 DEF IInv, EscrowRefundable

LEMMA NewTradeStep ==
    ASSUME IInv, NEW trader \in User, NEW asked \in Token, NEW offered \in Token,
           NewTrade(trader, asked, offered)
    PROVE  IInv'
<1>1. trades' \in [Token \X User -> Token \cup {None}]
  BY DEF IInv, TypeOK, NewTrade
<1>2. UNCHANGED <<nft, bank, sales, n_sales, n_trades, depositor>>
  BY DEF NewTrade
<1>3. QED
  BY <1>1, <1>2 DEF IInv, TypeOK, EscrowRefundable

LEMMA AcceptTradeStep ==
    ASSUME IInv, NEW seller \in User, NEW asked \in Token, NEW trader \in User,
           AcceptTrade(seller, asked, trader)
    PROVE  IInv'
<1>1. trades[<<asked, trader>>] \in Token
  BY DEF IInv, TypeOK, AcceptTrade
<1>2. sales[asked].owner = seller /\ seller \in Account /\ trader \in Account
  BY Addresses DEF AcceptTrade
<1>3. nft' \in Collection
  <2>1. nft \in Collection
    BY DEF IInv, TypeOK, Collection
  <2>2. Tried(nft, asked, trader) \in Collection
    BY <2>1, <1>2, TriedNft
  <2>3. nft' = Tried(Tried(nft, asked, trader), trades[<<asked, trader>>], seller)
    BY <1>2 DEF AcceptTrade, Exchanged
  <2>4. QED
    BY <2>2, <2>3, <1>1, <1>2, TriedNft
<1>4. depositor' \in [Token -> User \cup {None}] /\ EscrowRefundable'
  BY SalesKept DEF AcceptTrade
<1>5. /\ trades' \in [Token \X User -> Token \cup {None}]
      /\ n_trades' \in Nat
      /\ UNCHANGED <<bank, sales, n_sales>>
  BY DEF IInv, TypeOK, AcceptTrade
<1>6. QED
  BY <1>3, <1>4, <1>5 DEF IInv, TypeOK, Collection

LEMMA CancelTradeStep ==
    ASSUME IInv, NEW trader \in User, NEW asked \in Token, CancelTrade(trader, asked)
    PROVE  IInv'
<1>1. trades[<<asked, trader>>] \in Token
  BY DEF IInv, TypeOK, CancelTrade
<1>2. nft' \in Collection
  BY <1>1, TransferredNft, Addresses
     DEF IInv, TypeOK, CancelTrade, Send, Collection
<1>3. depositor' \in [Token -> User \cup {None}] /\ EscrowRefundable'
  BY SalesKept DEF CancelTrade
<1>4. /\ trades' \in [Token \X User -> Token \cup {None}]
      /\ UNCHANGED <<bank, sales, n_sales, n_trades>>
  BY DEF IInv, TypeOK, CancelTrade
<1>5. QED
  BY <1>2, <1>3, <1>4 DEF IInv, TypeOK, Collection

\* Users move their own NFTs only, and the marketplace is no user.
LEMMA UseNftMoves ==
    ASSUME TypeOK, NEW user \in User, UseNft(user)
    PROVE  /\ nft' \in Collection
           /\ \A s \in Token : nft.owner[s] = Market => nft'.owner[s] = Market
<1>1. nft \in Collection /\ user \in Account /\ user # Market /\ Market \in Account
  BY Addresses DEF TypeOK, Collection
<1>2. CASE \E t \in Token, to \in Account :
              nft.owner[t] = user /\ nft' = Transferred(nft, t, to)
  <2>1. PICK t \in Token, to \in Account :
                nft.owner[t] = user /\ nft' = Transferred(nft, t, to)
    BY <1>2
  <2>2. /\ nft' \in Collection
        /\ \A s \in Token : s # t => nft'.owner[s] = nft.owner[s]
    BY <1>1, <2>1, TransferredNft
  <2>3. QED
    BY <1>1, <2>1, <2>2
<1>3. CASE \E t \in Token :
              nft' \in {Approved(nft, Market, t), Revoked(nft, Market, t)}
  <2>1. nft' \in Collection /\ nft'.owner = nft.owner
    BY <1>1, <1>3, ApprovalNft
  <2>2. QED
    BY <2>1
<1>4. CASE nft' \in {ApprovedAll(nft, user, Market), RevokedAll(nft, user, Market)}
  <2>1. nft' \in Collection /\ nft'.owner = nft.owner
    BY <1>1, <1>4, OperatorNft
  <2>2. QED
    BY <2>1
<1>5. QED
  BY <1>2, <1>3, <1>4 DEF UseNft

LEMMA UseNftStep ==
    ASSUME IInv, NEW user \in User, UseNft(user)
    PROVE  IInv'
<1>1. /\ nft' \in Collection
      /\ \A s \in Token : nft.owner[s] = Market => nft'.owner[s] = Market
  BY UseNftMoves DEF IInv
<1>2. UNCHANGED <<bank, sales, trades, n_sales, n_trades, depositor>>
  BY DEF UseNft, stores
<1>3. TypeOK'
  BY <1>1, <1>2 DEF IInv, TypeOK, Collection
<1>4. EscrowRefundable'
  BY <1>1, <1>2 DEF IInv, EscrowRefundable
<1>5. QED
  BY <1>3, <1>4 DEF IInv

LEMMA InvNext == IInv /\ [Next]_vars => IInv'
<1> SUFFICES ASSUME IInv, [Next]_vars PROVE IInv'
  OBVIOUS
<1>1. CASE UNCHANGED vars
  BY <1>1 DEF IInv, TypeOK, EscrowRefundable, vars, stores
<1>2. CASE Next
  BY <1>2, NewSaleStep, BuyStep, CancelSaleStep, NewTradeStep, AcceptTradeStep,
     CancelTradeStep, UseNftStep DEF Next
<1>3. QED
  BY <1>1, <1>2

LEMMA Invariant == Spec => []IInv
BY InvInit, InvNext, PTL DEF Spec

-----------------------------------------------------------------------------
\* The stores, the collection and the bank keep their types: sellers are users,
\* and no payment takes coins that are not there.
THEOREM TypeCorrect == Spec => []TypeOK
<1>1. IInv => TypeOK
  BY DEF IInv
<1>2. QED
  BY <1>1, Invariant, PTL

\* Whoever put an NFT into escrow by a sale is named by the sale as long as it is
\* there, whatever trades, purchases and stale sales came before.
THEOREM EscrowProved == Spec => []EscrowRefundable
<1>1. IInv => EscrowRefundable
  BY DEF IInv
<1>2. QED
  BY <1>1, Invariant, PTL

-----------------------------------------------------------------------------
\* Only a purchase moves coins, and only an acceptance counts trades.
LEMMA OtherSteps ==
    ASSUME IInv, [Next]_vars
    PROVE  /\ bank' # bank => \E buyer \in User, id \in Token : Buy(buyer, id)
           /\ n_trades' # n_trades =>
                \E seller \in User, asked \in Token, trader \in User :
                   AcceptTrade(seller, asked, trader)
<1>1. CASE UNCHANGED vars
  BY <1>1 DEF vars, stores
<1>2. ASSUME NEW user \in User, UseNft(user) PROVE UNCHANGED <<bank, n_trades>>
  BY <1>2 DEF UseNft, stores
<1>3. CASE Next
  BY <1>2, <1>3 DEF Next, NewSale, Buy, CancelSale, NewTrade, AcceptTrade, CancelTrade
<1>4. QED
  BY <1>1, <1>3

LEMMA BuyDelivers ==
    ASSUME IInv, NEW buyer \in User, NEW id \in Token, Buy(buyer, id)
    PROVE  /\ sales[id] # None
           /\ nft'.owner[id] = buyer
           /\ bank' = Sent(bank, buyer, sales[id].owner, sales[id].price)
           /\ sales'[id] = None
           /\ n_sales' = n_sales + 1
<1>1. nft \in Collection /\ buyer \in Account
  BY Addresses DEF IInv, TypeOK, Collection
<1>2. nft'.owner[id] = buyer
  BY <1>1, TransferredNft DEF Buy, Send
<1>3. sales'[id] = None
  BY DEF IInv, TypeOK, Buy
<1>4. QED
  BY <1>2, <1>3 DEF Buy

\* Coins move only against an NFT.
THEOREM DeliveryProved == Spec => DeliveryVersusPayment
<1>1. IInv /\ [Next]_vars =>
        [bank' # bank =>
           \E buyer \in User, t \in Token :
              /\ sales[t] # None
              /\ nft'.owner[t] = buyer
              /\ bank' = Sent(bank, buyer, sales[t].owner, sales[t].price)
              /\ sales'[t] = None
              /\ n_sales' = n_sales + 1]_vars
  BY OtherSteps, BuyDelivers
<1>2. QED
  BY <1>1, Invariant, PTL DEF Spec, DeliveryVersusPayment

-----------------------------------------------------------------------------
\* Both transfers of an acceptance succeed if the asked NFT is in escrow and the
\* offered one is the trader's and approved.
LEMMA AcceptExchanges ==
    ASSUME IInv, NEW seller \in User, NEW t \in Token, NEW trader \in User,
           AcceptTrade(seller, t, trader), depositor[t] # None,
           nft.owner[trades[<<t, trader>>]] = trader,
           HasApproval(nft, Market, trades[<<t, trader>>])
    PROVE  /\ nft'.owner[t] = trader
           /\ nft'.owner[trades[<<t, trader>>]] = depositor[t]
<1> DEFINE offered == trades[<<t, trader>>]
           first == Transferred(nft, t, trader)
<1>1. /\ nft \in Collection
      /\ nft.owner[t] = Market
      /\ sales[t].owner = depositor[t] /\ seller = depositor[t]
  BY DEF IInv, TypeOK, EscrowRefundable, Collection, AcceptTrade
<1>2. offered \in Token /\ offered # t /\ Market \in nft.approved[offered]
  BY <1>1, Addresses DEF AcceptTrade, IInv, TypeOK, HasApproval
<1>3. Tried(nft, t, trader) = first
  BY <1>1 DEF Tried, MaySend
<1>4. first \in Collection /\ first.owner[t] = trader
  BY <1>1, Addresses, TransferredNft
<1>5. first.approved[offered] = nft.approved[offered]
  BY <1>1, <1>2 DEF Transferred, Collection
<1>6. nft' = Transferred(first, offered, seller)
  <2>1. nft' = Tried(first, offered, seller)
    BY <1>1, <1>3 DEF AcceptTrade, Exchanged
  <2>2. MaySend(first, Market, offered)
    BY <1>2, <1>5 DEF MaySend
  <2>3. QED
    BY <2>1, <2>2 DEF Tried
<1> HIDE DEF first
<1>7. nft'.owner[offered] = seller /\ nft'.owner[t] = first.owner[t]
  <2>1. seller \in Account
    BY Addresses
  <2> HIDE DEF offered
  <2>2. QED
    BY <1>2, <1>4, <1>6, <2>1, TransferredNft
<1>8. QED
  BY <1>1, <1>4, <1>7

\* An accepted trade exchanges the NFTs of depositor and trader, if the offered one
\* is still the trader's and approved.
THEOREM ExchangeProved == Spec => TradeIsExchange
<1>1. IInv /\ [Next]_vars =>
        [n_trades' # n_trades => \A t \in Token, trader \in User :
           LET offered == trades[<<t, trader>>]
           IN  /\ offered # None
               /\ trades'[<<t, trader>>] = None
               /\ depositor[t] # None
               /\ nft.owner[offered] = trader
               /\ HasApproval(nft, Market, offered)
               => /\ nft'.owner[t] = trader
                  /\ nft'.owner[offered] = depositor[t]]_vars
  <2> SUFFICES ASSUME IInv, [Next]_vars, n_trades' # n_trades,
                      NEW t \in Token, NEW trader \in User,
                      trades[<<t, trader>>] # None,
                      trades'[<<t, trader>>] = None,
                      depositor[t] # None,
                      nft.owner[trades[<<t, trader>>]] = trader,
                      HasApproval(nft, Market, trades[<<t, trader>>])
               PROVE  /\ nft'.owner[t] = trader
                      /\ nft'.owner[trades[<<t, trader>>]] = depositor[t]
    OBVIOUS
  <2>1. PICK seller \in User, asked \in Token, who \in User :
               AcceptTrade(seller, asked, who)
    BY OtherSteps
  <2>2. trades' = [trades EXCEPT ![<<asked, who>>] = None]
    BY <2>1 DEF AcceptTrade
  <2>3. asked = t /\ who = trader
    BY <2>2 DEF IInv, TypeOK
  <2>4. QED
    BY <2>1, <2>3, AcceptExchanges
<1>2. QED
  BY <1>1, Invariant, PTL DEF Spec, TradeIsExchange
=============================================================================
