----------------------------- MODULE Laevateinn -----------------------------
(***************************************************************************)
(* ctf-03, Laevateinn: a contract that lends its whole balance for the     *)
(* length of a transaction (flash_loan), the proxy that borrows on behalf  *)
(* of users (proxy), and a contract that does something with the coins     *)
(* (mock_arb).                                                             *)
(*                                                                         *)
(* A transaction is a stack of messages.  The message on top runs; the     *)
(* messages its handler returns run next, before those that were waiting.  *)
(* If one fails, everything since the transaction began is undone.         *)
(* An address may be spelt in two ways, which the chain takes for one      *)
(* account; the guard of the proxy compares the text of the recipient.     *)
(***************************************************************************)
EXTENDS Bank, Sequences

CONSTANTS
    User,           \* addresses that sign transactions
    Deployer,       \* the user who instantiated flash_loan
    FlashLoan,      \* the addresses of the three contracts
    Proxy,
    Arb,
    Borrower,       \* some other contract that knows how to use a loan
    FlashLoanUpper, \* the address of flash_loan, spelt otherwise
    None,
    ProxyChoice,    \* addresses the owner may choose as proxy
    InitialBank

Contract == {FlashLoan, Proxy, Arb, Borrower}
Account == User \cup Contract

\* The account that the chain finds under a text.
Resolved(text) == IF text = FlashLoanUpper THEN FlashLoan ELSE text

ASSUME AddressAssumption ==
    /\ Deployer \in User
    /\ User \cap Contract = {}
    /\ FlashLoan \notin {Proxy, Arb, Borrower}
    /\ Proxy \notin {Arb, Borrower} /\ Arb # Borrower
    /\ None \notin Account \cup Nat
    /\ FlashLoanUpper \notin Account
ASSUME ChoiceAssumption == ProxyChoice \subseteq Account
ASSUME BankAssumption == InitialBank \in [Account -> Nat]

VARIABLES
    bank,               \* coins of every account
    owner,              \* CONFIG.owner of flash_loan
    proxy_addr,         \* CONFIG.proxy_addr of flash_loan, None if not set
    requested_amount,   \* FLASH_LOAN.requested_amount, None if no loan
    stack,              \* messages that have still to run, the next one first
    saved,              \* what a failure of the transaction restores
    signer,             \* history: who signed the transaction
    withdrew            \* history: the transaction ran withdraw_funds

chain == <<bank, owner, proxy_addr, requested_amount>>
vars == <<chain, stack, saved, signer, withdrew>>

\* A message: who sends it to whom, what it asks for, the coins that go with it.
Message(sender, to, kind, arg, funds) ==
    [sender |-> sender, to |-> to, kind |-> kind, arg |-> arg, funds |-> funds]

Snapshot == [bank |-> bank, owner |-> owner, proxy_addr |-> proxy_addr,
             requested_amount |-> requested_amount]

AtRest == stack = <<>>

\* FLASH_LOAN: no loan, or a loan of something.
Loan == (Nat \ {0}) \cup {None}

TypeOK ==
    /\ bank \in [Account -> Nat]
    /\ owner \in Account
    /\ proxy_addr \in Account \cup {None}
    /\ requested_amount \in Loan
    /\ saved.bank \in [Account -> Nat]
    /\ saved.owner \in Account
    /\ saved.proxy_addr \in Account \cup {None}
    /\ saved.requested_amount \in Loan
    /\ signer \in User
    /\ withdrew \in BOOLEAN

\* instantiate of the three contracts.
Init ==
    /\ bank = InitialBank
    /\ owner = Deployer
    /\ proxy_addr = None
    /\ requested_amount = None
    /\ stack = <<>>
    /\ saved = Snapshot
    /\ signer = Deployer
    /\ withdrew = FALSE

-----------------------------------------------------------------------------
\* The conditions under which a handler does not return an error.

\* The coins that come with a message are moved before the handler runs.
FundsArrive(m) == m.funds <= bank[m.sender]
Paid(m) == Sent(bank, m.sender, m.to, m.funds)

\* (Mutated forms: a loan in progress is not looked at; the balance is not.)
MayFlashLoan_Again(m) ==
    proxy_addr # None /\ m.sender = proxy_addr /\ Paid(m)[FlashLoan] > 0
MayFlashLoan_Empty(m) ==
    requested_amount = None /\ proxy_addr # None /\ m.sender = proxy_addr
MayFlashLoan(m) ==
    /\ requested_amount = None
    /\ proxy_addr # None
    /\ m.sender = proxy_addr
    /\ Paid(m)[FlashLoan] > 0

\* (Mutated form: that something came back is enough.)
MaySettleLoan_Partly(m) ==
    requested_amount # None /\ m.sender = proxy_addr /\ Paid(m)[FlashLoan] > 0
MaySettleLoan(m) ==
    /\ requested_amount # None
    /\ proxy_addr # None
    /\ m.sender = proxy_addr
    /\ Paid(m)[FlashLoan] >= requested_amount

MaySetProxyAddr(m) == m.sender = owner /\ proxy_addr = None

MayWithdrawFunds(m) == m.sender = owner /\ Paid(m)[FlashLoan] > 0

\* is_trusted: the owner or the proxy.
MayTransferOwner(m) == m.sender = owner \/ (proxy_addr # None /\ m.sender = proxy_addr)

\* "Disallow calling flash loan addr": the text of the recipient is compared with
\* the address that the proxy stores, which is the validated one.
MayRequestFlashLoan(m) ==
    /\ m.arg.recipient # FlashLoan
    /\ proxy_addr = Proxy

\* must_pay of mock_arb.
MayArbitrage(m) == m.funds > 0

\* The handler of a message accepts it.  An address that is no contract, or a
\* contract that does not know the message, does not.
Accepted(m) ==
    \/ m.kind = "Send" /\ CanSend(bank, m.sender, m.funds)
    \/ /\ FundsArrive(m)
       /\ \/ m.to = FlashLoan /\ m.kind = "FlashLoan" /\ MayFlashLoan(m)
          \/ m.to = FlashLoan /\ m.kind = "SettleLoan" /\ MaySettleLoan(m)
          \/ m.to = FlashLoan /\ m.kind = "SetProxyAddr" /\ MaySetProxyAddr(m)
          \/ m.to = FlashLoan /\ m.kind = "WithdrawFunds" /\ MayWithdrawFunds(m)
          \/ m.to = FlashLoan /\ m.kind = "TransferOwner" /\ MayTransferOwner(m)
          \/ m.to = Proxy /\ m.kind = "RequestFlashLoan" /\ MayRequestFlashLoan(m)
          \/ m.to = Arb /\ m.kind = "Arbitrage" /\ MayArbitrage(m)
          \/ m.to = Borrower /\ m.kind = "Callback"

\* The message on top of the stack is of this kind, and is accepted.
Top(kind) == ~ AtRest /\ Head(stack).kind = kind /\ Accepted(Head(stack))

\* The handler returns these messages; they run before the waiting ones.
Returns(messages) == stack' = messages \o Tail(stack)

-----------------------------------------------------------------------------
\* A user signs a transaction with one message.
Submit(user, m) ==
    /\ AtRest
    /\ m.sender = user
    /\ stack' = <<m>>
    /\ saved' = Snapshot
    /\ signer' = user
    /\ withdrew' = FALSE
    /\ UNCHANGED chain

\* A coin transfer between accounts, from a user or returned by a handler.
RunSend ==
    /\ Top("Send")
    /\ bank' = Paid(Head(stack))
    /\ Returns(<<>>)
    /\ UNCHANGED <<owner, proxy_addr, requested_amount, saved, signer, withdrew>>

RunFlashLoan ==
    /\ Top("FlashLoan")
    /\ LET m == Head(stack) amount == Paid(m)[FlashLoan]
       IN  /\ bank' = Paid(m)
           /\ requested_amount' = amount
           /\ Returns(<<Message(FlashLoan, m.sender, "Send", None, amount)>>)
    /\ UNCHANGED <<owner, proxy_addr, saved, signer, withdrew>>

RunSettleLoan ==
    /\ Top("SettleLoan")
    /\ bank' = Paid(Head(stack))
    /\ requested_amount' = None
    /\ Returns(<<>>)
    /\ UNCHANGED <<owner, proxy_addr, saved, signer, withdrew>>

RunSetProxyAddr ==
    /\ Top("SetProxyAddr")
    /\ bank' = Paid(Head(stack))
    /\ proxy_addr' = Head(stack).arg
    /\ Returns(<<>>)
    /\ UNCHANGED <<owner, requested_amount, saved, signer, withdrew>>

RunWithdrawFunds ==
    /\ Top("WithdrawFunds")
    /\ LET m == Head(stack)
       IN  /\ bank' = Paid(m)
           /\ Returns(<<Message(FlashLoan, m.arg, "Send", None, Paid(m)[FlashLoan])>>)
    /\ withdrew' = TRUE
    /\ UNCHANGED <<owner, proxy_addr, requested_amount, saved, signer>>

RunTransferOwner ==
    /\ Top("TransferOwner")
    /\ bank' = Paid(Head(stack))
    /\ owner' = Head(stack).arg
    /\ Returns(<<>>)
    /\ UNCHANGED <<proxy_addr, requested_amount, saved, signer, withdrew>>

\* The proxy asks for the loan, calls the recipient with as many coins as
\* flash_loan owns NOW, before the loan is made, and asks for the settlement.  The
\* chain resolves the recipient, which was not validated.
\* (Mutated form: it leaves the settlement to the recipient.)
LoanMessages_NoSettle(callback, balance) ==
    <<Message(Proxy, FlashLoan, "FlashLoan", None, 0),
      Message(Proxy, Resolved(callback.recipient), callback.kind, callback.arg, balance)>>
LoanMessages(callback, balance) ==
    <<Message(Proxy, FlashLoan, "FlashLoan", None, 0),
      Message(Proxy, Resolved(callback.recipient), callback.kind, callback.arg, balance),
      Message(Proxy, FlashLoan, "SettleLoan", None, 0)>>

RunRequestFlashLoan ==
    /\ Top("RequestFlashLoan")
    /\ LET m == Head(stack)
       IN  /\ bank' = Paid(m)
           /\ Returns(LoanMessages(m.arg, Paid(m)[FlashLoan]))
    /\ UNCHANGED <<owner, proxy_addr, requested_amount, saved, signer, withdrew>>

\* mock_arb keeps nothing: everything it owns goes to the recipient.
RunArbitrage ==
    /\ Top("Arbitrage")
    /\ LET m == Head(stack)
       IN  /\ bank' = Paid(m)
           /\ Returns(<<Message(Arb, m.arg, "Send", None, Paid(m)[Arb])>>)
    /\ UNCHANGED <<owner, proxy_addr, requested_amount, saved, signer, withdrew>>

\* Another contract, with code of its own, is called: it may pay coins back, and
\* it may call any of the contracts.
RunCallback(pay, call) ==
    /\ Top("Callback")
    /\ bank' = Paid(Head(stack))
    /\ Returns(pay \o call)
    /\ UNCHANGED <<owner, proxy_addr, requested_amount, saved, signer, withdrew>>

\* A handler that returns an error undoes the whole transaction; the code of the
\* other contract may do so whenever it likes.
Abort ==
    /\ ~ AtRest
    /\ ~ Accepted(Head(stack)) \/ Head(stack).kind = "Callback"
    /\ stack' = <<>>
    /\ bank' = saved.bank
    /\ owner' = saved.owner
    /\ proxy_addr' = saved.proxy_addr
    /\ requested_amount' = saved.requested_amount
    /\ withdrew' = FALSE
    /\ UNCHANGED <<saved, signer>>

-----------------------------------------------------------------------------
\* A recipient, and what it is told to do with the loan.
Callback(recipient, kind, arg) == [recipient |-> recipient, kind |-> kind, arg |-> arg]

\* What a request may ask for.  flash_loan may be named as recipient in either
\* spelling; the message may then be any of its own.
Callbacks ==
    {Callback(Arb, "Arbitrage", a) : a \in {FlashLoan} \cup User}
    \cup {Callback(Borrower, "Callback", None),
          Callback(Proxy, "RequestFlashLoan", Callback(Borrower, "Callback", None)),
          Callback(FlashLoan, "TransferOwner", Borrower),
          Callback(FlashLoanUpper, "TransferOwner", Borrower),
          Callback(FlashLoanUpper, "TransferOwner", Proxy),
          Callback(FlashLoanUpper, "SettleLoan", None),
          Callback(FlashLoanUpper, "FlashLoan", None),
          Callback(FlashLoanUpper, "WithdrawFunds", Deployer)}

\* The messages an account with so many coins may send; attached coins matter to
\* mock_arb only.
Calls(sender, coins) ==
    {Message(sender, FlashLoan, kind, None, 0) : kind \in {"FlashLoan", "SettleLoan"}}
    \cup {Message(sender, FlashLoan, "SetProxyAddr", a, 0) : a \in ProxyChoice}
    \cup {Message(sender, FlashLoan, "WithdrawFunds", a, 0) : a \in User}
    \cup {Message(sender, FlashLoan, "TransferOwner", a, 0) : a \in User \cup {Borrower}}
    \cup {Message(sender, Proxy, "RequestFlashLoan", c, 0) : c \in Callbacks}
    \cup {Message(sender, Arb, "Arbitrage", FlashLoan, n) : n \in 1..coins}
    \cup {Message(sender, FlashLoan, "Send", None, n) : n \in 1..coins}

\* The other contract pays back what it got, keeps it, or calls once, with or
\* without having paid first.
Coins == Paid(Head(stack))[Borrower]
Payments == {<<>>} \cup {<<Message(Borrower, FlashLoan, "Send", None, n)>> : n \in 1..Coins}
FurtherCalls == {<<>>} \cup {<<m>> : m \in Calls(Borrower, Coins)}

Run ==
    \/ RunSend \/ RunFlashLoan \/ RunSettleLoan \/ RunSetProxyAddr \/ RunWithdrawFunds
    \/ RunTransferOwner \/ RunRequestFlashLoan \/ RunArbitrage
    \/ /\ Top("Callback")
       /\ \E pay \in Payments, call \in FurtherCalls : RunCallback(pay, call)
    \/ Abort

Next ==
    \/ \E user \in User :
         \E m \in Calls(user, bank[user]) \cup {Message(user, Borrower, "Callback", None, 0)} :
           Submit(user, m)
    \/ Run

Spec == Init /\ [][Next]_vars

-----------------------------------------------------------------------------
\* Loans do not nest: when a recipient runs with the loan, exactly one settlement
\* is waiting, whatever recipients of outer loans asked the proxy for.
LoansDoNotNest ==
    ~ AtRest /\ Head(stack).sender = Proxy /\ Head(stack).kind \notin {"FlashLoan", "SettleLoan"}
    => LET waiting == {i \in DOMAIN stack :
                         stack[i].sender = Proxy /\ stack[i].kind = "SettleLoan"}
       IN  waiting # {} /\ \A i, j \in waiting : i = j

\* A transaction that does not withdraw leaves flash_loan with at least the
\* coins it had, however its messages nest.
FundsSurviveLoans ==
    [][~ AtRest /\ stack' = <<>> /\ ~ withdrew' /\ proxy_addr' = Proxy
        => bank'[FlashLoan] >= saved.bank[FlashLoan]]_vars

\* "Cannot flash loan money to the flash loan contract", and so, although flash_loan
\* lets its proxy transfer the ownership, a request to the proxy contract never does:
\* the owner changes only in a transaction signed or run by the owner itself, or by a
\* user or another contract that was chosen as proxy.
OwnerKeptByProxy ==
    [][~ AtRest /\ stack' = <<>> /\ owner' # saved.owner
        => {saved.owner, saved.proxy_addr} \cap {signer, Borrower} # {}]_vars

Between(now, before) == IF AtRest THEN now ELSE before

Lender == INSTANCE AtomicLoan WITH
    ProxyContract <- Proxy,
    funds <- Between(bank[FlashLoan], saved.bank[FlashLoan]),
    loan <- Between(requested_amount, saved.requested_amount),
    proxy <- Between(proxy_addr, saved.proxy_addr)

\* Between transactions the three contracts are the abstract lender.
ImplementsAtomicLoan == Lender!Spec
=============================================================================
