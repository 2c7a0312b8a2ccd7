-------------------------- MODULE LaevateinnProofs --------------------------
(***************************************************************************)
(* Proofs about the flash loan: what the stack of a transaction can look   *)
(* like, and what it says about the coins and the stores meanwhile.        *)
(***************************************************************************)
EXTENDS Laevateinn, BankProofs, SequenceTheorems

-----------------------------------------------------------------------------
\* What messages are made of.
Arg == Account \cup {None} \cup Callbacks

Kind == {"Send", "FlashLoan", "SettleLoan", "SetProxyAddr", "WithdrawFunds",
         "TransferOwner", "RequestFlashLoan", "Arbitrage", "Callback"}

Messages == [sender : Account, to : Account, kind : Kind, arg : Arg, funds : Nat]

\* The first and the last message of a loan.
Borrow == Message(Proxy, FlashLoan, "FlashLoan", None, 0)
Settle == Message(Proxy, FlashLoan, "SettleLoan", None, 0)

\* The argument that goes with a kind of message.
ArgOK(m) ==
    /\ m.kind \in {"SetProxyAddr", "TransferOwner", "Arbitrage"} => m.arg \in Account
    /\ m.kind = "WithdrawFunds" => m.arg \in User
    /\ m.kind = "RequestFlashLoan" => m.arg \in Callbacks

\* A message of a user or of the other contract.
IsCall(m) == m.sender \in {signer, Borrower} /\ ArgOK(m)

\* A payment out of any account but that of flash_loan.
IsPayment(m) == m.kind = "Send" /\ m.sender \notin {FlashLoan, Proxy}

\* flash_loan pays all it has, to somebody else.
IsPayout(m) ==
    /\ m.kind = "Send"
    /\ m.sender = FlashLoan /\ m.to # FlashLoan
    /\ m.funds = bank[FlashLoan]

\* The proxy hands the loan to its recipient, which flash_loan may be.
UseKind == {"Arbitrage", "Callback", "RequestFlashLoan", "FlashLoan", "SettleLoan",
            "WithdrawFunds", "TransferOwner"}
IsUse(m) == m.sender = Proxy /\ m.kind \in UseKind /\ ArgOK(m)

\* Since the transaction began flash_loan was at most given coins.
Quiet ==
    /\ requested_amount = saved.requested_amount
    /\ bank[FlashLoan] >= saved.bank[FlashLoan]

\* The proxy contract has a loan of at least what flash_loan had.
Lending ==
    /\ proxy_addr = Proxy
    /\ saved.requested_amount = None
    /\ requested_amount \in Nat
    /\ requested_amount > 0
    /\ requested_amount >= saved.bank[FlashLoan]

\* What is left at the bottom of the stack says which of the two it is.
Bottom == {<<>>, <<Settle>>}
Meanwhile(rest) == IF rest = <<>> THEN Quiet ELSE Lending

\* Why flash_loan is paying: the owner withdraws, or a user or another contract
\* that was chosen as proxy takes a loan of its own.
PayingOut(rest) ==
    IF rest = <<>>
    THEN \/ withdrew /\ requested_amount = saved.requested_amount
         \/ /\ saved.requested_amount = None
            /\ proxy_addr \notin {None, Proxy}
            /\ requested_amount = bank[FlashLoan]
            /\ bank[FlashLoan] > 0
            /\ bank[FlashLoan] >= saved.bank[FlashLoan]
    ELSE Lending

Case1(m, rest) == (IsCall(m) \/ IsPayment(m)) /\ rest \in Bottom /\ Meanwhile(rest)
Case2(m, rest) ==
    /\ IsPayment(m)
    /\ rest # <<>> /\ IsCall(Head(rest)) /\ Tail(rest) \in Bottom /\ Meanwhile(Tail(rest))
Case3(m, rest) == IsPayout(m) /\ rest \in Bottom /\ PayingOut(rest)
Case4(m, rest) ==
    /\ m = Borrow /\ rest # <<>> /\ IsUse(Head(rest))
    /\ proxy_addr = Proxy
    /\ \/ Tail(rest) = <<Settle>> /\ Quiet
       \/ Tail(rest) # <<>> /\ Lending
Case5(m, rest) ==
    IsPayout(m) /\ rest # <<>> /\ IsUse(Head(rest)) /\ Tail(rest) = <<Settle>> /\ Lending
Case6(m, rest) == IsUse(m) /\ rest = <<Settle>> /\ Lending
Case7(m, rest) == m = Settle /\ rest = <<>> /\ Lending
\* The recipient was flash_loan, and was told to settle: the settlement that is
\* waiting will be refused.
Case8(m, rest) == m = Settle /\ rest = <<>> /\ requested_amount = None /\ proxy_addr = Proxy

Progress(m, rest) ==
    /\ proxy_addr = saved.proxy_addr
    /\ \/ Case1(m, rest) \/ Case2(m, rest) \/ Case3(m, rest) \/ Case4(m, rest)
       \/ Case5(m, rest) \/ Case6(m, rest) \/ Case7(m, rest) \/ Case8(m, rest)

StackOK == stack # <<>> => Progress(Head(stack), Tail(stack))

\* No loan is open that only the proxy contract could have taken.
LoanFree(proxy, requested) == proxy \in {None, Proxy} => requested = None

LoanInv ==
    /\ TypeOK
    /\ stack \in Seq(Messages)
    /\ StackOK
    /\ LoanFree(saved.proxy_addr, saved.requested_amount)
    /\ AtRest => LoanFree(proxy_addr, requested_amount)

-----------------------------------------------------------------------------
\* What a step that ends a transaction made of the state before it.
Before == saved.bank[FlashLoan]

EndsKept ==
    /\ bank'[FlashLoan] >= Before
    /\ requested_amount' = saved.requested_amount
    /\ proxy_addr' = saved.proxy_addr
EndsWithdrawn ==
    /\ withdrew' /\ bank'[FlashLoan] = 0
    /\ requested_amount' = saved.requested_amount
    /\ proxy_addr' = saved.proxy_addr
EndsChosen ==
    /\ saved.proxy_addr = None /\ proxy_addr' # None
    /\ bank'[FlashLoan] >= Before
    /\ requested_amount' = saved.requested_amount
EndsOpen ==
    /\ saved.proxy_addr \notin {None, Proxy}
    /\ proxy_addr' = saved.proxy_addr
    /\ saved.requested_amount = None
    /\ requested_amount' \in Nat /\ requested_amount' > 0
    /\ requested_amount' >= Before
    /\ bank'[FlashLoan] = 0
EndsClosed ==
    /\ saved.proxy_addr # Proxy
    /\ proxy_addr' = saved.proxy_addr
    /\ saved.requested_amount # None /\ requested_amount' = None
    /\ bank'[FlashLoan] >= saved.requested_amount
    /\ bank'[FlashLoan] >= Before

Ends == EndsKept \/ EndsWithdrawn \/ EndsChosen \/ EndsOpen \/ EndsClosed

\* What every message that runs must keep.
Runs ==
    /\ TypeOK'
    /\ stack' \in Seq(Messages)
    /\ StackOK'
    /\ stack' = <<>> => Ends
    /\ saved' = saved /\ signer' = signer

-----------------------------------------------------------------------------
\* Stacks.

LEMMA Distinct ==
    /\ FlashLoan \in Account /\ Proxy \in Account /\ Arb \in Account /\ Borrower \in Account
    /\ FlashLoan # Proxy /\ FlashLoan # Arb /\ FlashLoan # Borrower
    /\ Proxy # Arb /\ Proxy # Borrower /\ Arb # Borrower
    /\ \A u \in User : u \in Account /\ u \notin {FlashLoan, Proxy, Arb, Borrower}
    /\ None \notin Account /\ None \notin Nat
BY AddressAssumption DEF Account, Contract

LEMMA MessageIn ==
    ASSUME NEW from \in Account, NEW to \in Account, NEW k \in Kind, NEW a \in Arg, NEW n \in Nat
    PROVE  /\ Message(from, to, k, a, n) \in Messages
           /\ Message(from, to, k, a, n).sender = from
           /\ Message(from, to, k, a, n).to = to
           /\ Message(from, to, k, a, n).kind = k
           /\ Message(from, to, k, a, n).arg = a
           /\ Message(from, to, k, a, n).funds = n
BY DEF Message, Messages

LEMMA SettleMessage ==
    /\ Settle \in Messages /\ Borrow \in Messages
    /\ Settle.sender = Proxy /\ Settle.to = FlashLoan /\ Settle.kind = "SettleLoan" /\ Settle.funds = 0
    /\ Borrow.sender = Proxy /\ Borrow.to = FlashLoan /\ Borrow.kind = "FlashLoan" /\ Borrow.funds = 0
<1>1. None \in Arg /\ 0 \in Nat
  BY DEF Arg
<1>4. "SettleLoan" \in Kind /\ "FlashLoan" \in Kind
  BY DEF Kind
<1>2. FlashLoan \in Account /\ Proxy \in Account
  BY Distinct
<1>3. QED
  BY <1>1, <1>2, <1>4, MessageIn DEF Settle, Borrow

LEMMA Push ==
    ASSUME NEW m \in Messages, NEW t \in Seq(Messages)
    PROVE  /\ <<m>> \o t \in Seq(Messages)
           /\ <<m>> \o t # <<>>
           /\ Head(<<m>> \o t) = m
           /\ Tail(<<m>> \o t) = t
OBVIOUS

LEMMA HeadAndTail ==
    ASSUME NEW s \in Seq(Messages), s # <<>>
    PROVE  /\ Head(s) \in Messages /\ Tail(s) \in Seq(Messages)
           /\ s = <<Head(s)>> \o Tail(s)
BY HeadTailProperties

LEMMA PushTwo ==
    ASSUME NEW m \in Messages, NEW n \in Messages, NEW t \in Seq(Messages)
    PROVE  /\ (<<m>> \o <<n>>) \o t = <<m>> \o (<<n>> \o t)
           /\ <<m, n>> = <<m>> \o <<n>>
<1>1. <<m>> \in Seq(Messages) /\ <<n>> \in Seq(Messages)
  OBVIOUS
<1>2. (<<m>> \o <<n>>) \o t = <<m>> \o (<<n>> \o t)
  BY <1>1, ConcatAssociative
<1>3. <<m, n>> = <<m>> \o <<n>>
  <2> DEFINE x == <<m, n>> y == <<m>> \o <<n>>
  <2>1. /\ x \in Seq(Messages) /\ Len(x) = 2 /\ x[1] = m /\ x[2] = n
        /\ y \in Seq(Messages) /\ Len(y) = 2 /\ y[1] = m /\ y[2] = n
    BY <1>1
  <2> HIDE DEF x, y
  <2>2. \A i \in 1..Len(x) : x[i] = y[i]
    BY <2>1
  <2>3. QED
    BY <2>1, <2>2, SeqEqual DEF x, y
<1>4. QED
  BY <1>2, <1>3

LEMMA PushThree ==
    ASSUME NEW m \in Messages, NEW n \in Messages, NEW k \in Messages, NEW t \in Seq(Messages)
    PROVE  <<m, n, k>> \o t = <<m>> \o (<<n>> \o (<<k>> \o t))
<1>1. /\ <<m>> \in Seq(Messages) /\ <<n>> \in Seq(Messages) /\ <<k>> \in Seq(Messages)
      /\ <<n>> \o <<k>> \in Seq(Messages)
  OBVIOUS
<1>2. <<m, n, k>> = <<m>> \o (<<n>> \o <<k>>)
  <2> DEFINE x == <<m, n, k>> z == <<n>> \o <<k>> y == <<m>> \o z
  <2>1. /\ x \in Seq(Messages) /\ Len(x) = 3 /\ x[1] = m /\ x[2] = n /\ x[3] = k
    OBVIOUS
  <2>2. z = <<n, k>>
    BY PushTwo
  <2>3. z \in Seq(Messages) /\ Len(z) = 2 /\ z[1] = n /\ z[2] = k
    <3>1. <<n, k>> \in Seq(Messages) /\ Len(<<n, k>>) = 2 /\ <<n, k>>[1] = n /\ <<n, k>>[2] = k
      OBVIOUS
    <3>2. QED
      BY <2>2, <3>1
  <2> HIDE DEF z
  <2>4. y \in Seq(Messages) /\ Len(y) = 3 /\ y[1] = m /\ y[2] = n /\ y[3] = k
    <3> DEFINE w == <<m>>
    <3>1. w \in Seq(Messages) /\ w[1] = m /\ Len(w) = 1
      OBVIOUS
    <3> HIDE DEF w
    <3>2. /\ w \o z \in Seq(Messages) /\ Len(w \o z) = 3
          /\ \A i \in 1..3 : (w \o z)[i] = IF i <= 1 THEN w[i] ELSE z[i - 1]
      <4>1. Len(w) + Len(z) = 3 /\ z \in Seq(Messages)
        BY <2>3, <3>1
      <4>2. /\ w \o z \in Seq(Messages)
            /\ Len(w \o z) = Len(w) + Len(z)
            /\ \A i \in 1..Len(w) + Len(z) :
                 (w \o z)[i] = IF i <= Len(w) THEN w[i] ELSE z[i - Len(w)]
        BY <3>1, <4>1, ConcatProperties, Zenon
      <4>3. QED
        BY <3>1, <4>1, <4>2
    <3>3. QED
      BY <2>3, <3>1, <3>2 DEF w
  <2> HIDE DEF x, y
  <2>5. \A i \in 1..Len(x) : x[i] = y[i]
    BY <2>1, <2>4
  <2>6. x = y
    BY <2>1, <2>4, <2>5, SeqEqual
  <2>7. QED
    BY <2>6 DEF x, y, z
<1>3. (<<m>> \o (<<n>> \o <<k>>)) \o t = <<m>> \o ((<<n>> \o <<k>>) \o t)
  BY <1>1, ConcatAssociative
<1>4. (<<n>> \o <<k>>) \o t = <<n>> \o (<<k>> \o t)
  BY <1>1, ConcatAssociative
<1>5. QED
  BY <1>2, <1>3, <1>4

LEMMA PushNothing == ASSUME NEW t \in Seq(Messages) PROVE <<>> \o t = t
OBVIOUS

LEMMA BottomSeq ==
    /\ Bottom \subseteq Seq(Messages)
    /\ <<Settle>> # <<>> /\ Head(<<Settle>>) = Settle /\ Tail(<<Settle>>) = <<>>
    /\ <<Settle>> \o <<>> = <<Settle>> 
    /\ <<Settle>> \o <<Settle>> # <<>>
BY SettleMessage DEF Bottom

LEMMA TopOf ==
    ASSUME LoanInv, ~ AtRest
    PROVE  /\ Head(stack) \in Messages /\ Tail(stack) \in Seq(Messages)
           /\ Progress(Head(stack), Tail(stack))
           /\ ArgOK(Head(stack))
<1>1. /\ stack # <<>> /\ stack \in Seq(Messages)
      /\ Progress(Head(stack), Tail(stack))
  BY DEF LoanInv, AtRest, StackOK
<1>2. Head(stack) \in Messages /\ Tail(stack) \in Seq(Messages)
  BY <1>1
<1>3. ArgOK(Head(stack))
  BY <1>1, SettleMessage
     DEF Progress, Case1, Case2, Case3, Case4, Case5, Case6, Case7, Case8, IsCall, IsPayment,
         IsPayout, IsUse, ArgOK
<1>4. QED
  BY <1>1, <1>2, <1>3

\* What the coins of a message do to flash_loan.
LEMMA PaidBank ==
    ASSUME TypeOK, NEW m \in Messages, m.funds <= bank[m.sender]
    PROVE  /\ Paid(m) \in [Account -> Nat]
           /\ Paid(m)[FlashLoan] \in Nat /\ bank[FlashLoan] \in Nat
           /\ m.sender # FlashLoan => Paid(m)[FlashLoan] >= bank[FlashLoan]
           /\ m.funds = 0 => Paid(m)[FlashLoan] = bank[FlashLoan]
           /\ m.sender = FlashLoan /\ m.to # FlashLoan
                => Paid(m)[FlashLoan] = bank[FlashLoan] - m.funds
<1> DEFINE from == m.sender to == m.to n == m.funds new == Sent(bank, from, to, n)
<1>1. from \in Account /\ to \in Account /\ n \in Nat /\ n <= bank[from] /\ FlashLoan \in Account
  BY Distinct DEF Messages
<1>2. bank \in [Account -> Nat]
  BY DEF TypeOK
<1> HIDE DEF from, to, n, new
<1>3. /\ new \in [Account -> Nat]
      /\ from = to => new = bank
      /\ from # to => /\ new[from] = bank[from] - n
                      /\ new[to] = bank[to] + n
      /\ \A a \in Account \ {from, to} : new[a] = bank[a]
  BY <1>1, <1>2, SentBank DEF new
<1>4. new[FlashLoan] \in Nat /\ bank[FlashLoan] \in Nat
  BY <1>1, <1>2, <1>3
<1>5. from # FlashLoan => new[FlashLoan] >= bank[FlashLoan]
  BY <1>1, <1>2, <1>3, <1>4
<1>6. n = 0 => new[FlashLoan] = bank[FlashLoan]
  BY <1>1, <1>2, <1>3, <1>4
<1>7. from = FlashLoan /\ to # FlashLoan => new[FlashLoan] = bank[FlashLoan] - n
  BY <1>1, <1>2, <1>3
<1>8. QED
  BY <1>3, <1>4, <1>5, <1>6, <1>7 DEF Paid, from, to, n, new

\* What an accepted message tells, whatever its kind.
LEMMA AcceptedTop ==
    ASSUME LoanInv, NEW k, Top(k)
    PROVE  /\ ~ AtRest /\ stack # <<>>
           /\ Head(stack).kind = k
           /\ Head(stack) \in Messages /\ Tail(stack) \in Seq(Messages)
           /\ Progress(Head(stack), Tail(stack)) /\ ArgOK(Head(stack))
           /\ Accepted(Head(stack))
           /\ Head(stack).funds <= bank[Head(stack).sender]
BY TopOf DEF Top, Accepted, FundsArrive, CanSend, AtRest

LEMMA CallSender ==
    ASSUME LoanInv, NEW m, IsCall(m)
    PROVE  m.sender \in Account /\ m.sender \notin {FlashLoan, Proxy, Arb}
BY Distinct DEF LoanInv, TypeOK, IsCall

\* Which cases a kind of message belongs to.
LEMMA ByKind ==
    ASSUME LoanInv, NEW m \in Messages, NEW rest \in Seq(Messages), Progress(m, rest)
    PROVE  /\ m.kind = "SetProxyAddr" => IsCall(m) /\ rest \in Bottom /\ Meanwhile(rest)
           /\ m.kind = "SettleLoan"
                => \/ IsCall(m) /\ rest \in Bottom /\ Meanwhile(rest)
                   \/ Case6(m, rest) \/ Case7(m, rest) \/ Case8(m, rest)
           /\ m.kind = "FlashLoan"
                => \/ IsCall(m) /\ rest \in Bottom /\ Meanwhile(rest)
                   \/ Case4(m, rest) \/ Case6(m, rest)
           /\ m.kind \in {"RequestFlashLoan", "Arbitrage", "Callback", "WithdrawFunds",
                          "TransferOwner"}
                => m.sender # FlashLoan /\ rest \in Bottom /\ Meanwhile(rest)
           /\ m.kind = "Send"
                => \/ m.sender # FlashLoan /\ rest \in Bottom /\ Meanwhile(rest)
                   \/ m.sender # FlashLoan /\ Case2(m, rest)
                   \/ Case3(m, rest)
                   \/ Case5(m, rest)
<1>1. IsUse(m) => m.sender # FlashLoan
  BY Distinct DEF IsUse
<1>2. IsCall(m) \/ IsPayment(m) => m.sender # FlashLoan
  BY CallSender DEF IsPayment
<1>3. CASE Case1(m, rest)
  BY <1>2, <1>3 DEF Case1, IsPayment
<1>4. CASE Case2(m, rest)
  BY <1>2, <1>4 DEF Case2, IsPayment
<1>5. CASE Case3(m, rest)
  BY <1>5 DEF Case3, IsPayout
<1>6. CASE Case4(m, rest)
  BY <1>6, SettleMessage DEF Case4
<1>7. CASE Case5(m, rest)
  BY <1>7 DEF Case5, IsPayout
<1>8. CASE Case6(m, rest)
  <2>1. rest \in Bottom /\ rest # <<>>
    BY <1>8, BottomSeq DEF Case6, Bottom
  <2>2. QED
    BY <1>1, <1>8, <2>1 DEF Case6, IsUse, UseKind, Meanwhile
<1>9. CASE Case7(m, rest) \/ Case8(m, rest)
  BY <1>9, SettleMessage DEF Case7, Case8
<1>10. QED
  BY <1>3, <1>4, <1>5, <1>6, <1>7, <1>8, <1>9 DEF Progress

-----------------------------------------------------------------------------
\* From one stack to the next.

LEMMA NextStack ==
    ASSUME NEW h \in Messages, NEW t \in Seq(Messages),
           stack' = <<h>> \o t, Progress(h, t)'
    PROVE  StackOK' /\ stack' \in Seq(Messages) /\ stack' # <<>>
<1>1. stack' \in Seq(Messages) /\ stack' # <<>>
  BY Push
<1>4. h = Head(stack') /\ t = Tail(stack')
  BY Push
<1>2. Progress(Head(stack), Tail(stack))'
  BY <1>4, Zenon
     DEF Progress, Case1, Case2, Case3, Case4, Case5, Case6, Case7, Case8, IsCall, IsPayment,
         IsPayout, IsUse, ArgOK, Meanwhile, PayingOut, Lending, Quiet
<1>3. QED
  BY <1>1, <1>2 DEF StackOK

LEMMA NextBottom ==
    ASSUME NEW t \in Bottom, stack' = t, Meanwhile(t)',
           proxy_addr' = saved.proxy_addr, saved' = saved
    PROVE  StackOK' /\ stack' \in Seq(Messages) /\ (stack' = <<>> => Ends)
<1>1. CASE t = <<>>
  <2>1. Quiet'
    BY <1>1 DEF Meanwhile
  <2>2. EndsKept
    BY <2>1 DEF Quiet, EndsKept, Before
  <2>3. QED
    BY <1>1, <2>2 DEF StackOK, Ends
<1>2. CASE t = <<Settle>>
  <2>1. /\ t \in Seq(Messages) /\ t # <<>> /\ t = <<Settle>> \o <<>>
        /\ <<>> \in Seq(Messages) /\ Settle \in Messages
    BY <1>2, BottomSeq, SettleMessage DEF Bottom
  <2>2. Lending'
    BY <2>1 DEF Meanwhile
  <2>3. Progress(Settle, <<>>)'
    BY <2>2 DEF Progress, Case7
  <2>4. QED
    BY <2>1, <2>3, NextStack
<1>3. QED
  BY <1>1, <1>2 DEF Bottom

\* A message that flash_loan did not send changes nothing of what is going on.
LEMMA StillSo ==
    ASSUME LoanInv, NEW m \in Messages, m.sender # FlashLoan, m.funds <= bank[m.sender],
           bank' = Paid(m), UNCHANGED <<requested_amount, proxy_addr, saved>>
    PROVE  /\ Quiet => Quiet'
           /\ Lending => Lending'
           /\ \A t : Meanwhile(t) => Meanwhile(t)'
<1>1. /\ bank'[FlashLoan] \in Nat /\ bank[FlashLoan] \in Nat
      /\ bank'[FlashLoan] >= bank[FlashLoan]
  BY PaidBank DEF LoanInv
<1>2. saved.bank[FlashLoan] \in Nat
  BY Distinct DEF LoanInv, TypeOK
<1>3. Quiet => Quiet'
  BY <1>1, <1>2 DEF Quiet
<1>4. Lending => Lending'
  BY DEF Lending
<1>5. QED
  BY <1>3, <1>4 DEF Meanwhile

LEMMA TypeStays ==
    ASSUME LoanInv, NEW m \in Messages, m.funds <= bank[m.sender], bank' = Paid(m),
           owner' \in Account, proxy_addr' \in Account \cup {None},
           requested_amount' \in Loan, withdrew' \in BOOLEAN,
           UNCHANGED <<saved, signer>>
    PROVE  TypeOK'
BY PaidBank DEF LoanInv, TypeOK

-----------------------------------------------------------------------------
\* The messages, kind by kind.

LEMMA RunSendStep == ASSUME LoanInv, RunSend PROVE Runs
<1>1. PICK m \in Messages, rest \in Seq(Messages) :
        /\ m = Head(stack) /\ rest = Tail(stack)
        /\ ~ AtRest /\ m.kind = "Send" /\ m.funds <= bank[m.sender]
        /\ Progress(m, rest) /\ Accepted(m)
  BY AcceptedTop DEF RunSend
<1>2. /\ bank' = Paid(m)
      /\ stack' = rest
      /\ UNCHANGED <<owner, proxy_addr, requested_amount, saved, signer, withdrew>>
      /\ proxy_addr = saved.proxy_addr
  BY <1>1, PushNothing DEF RunSend, Returns, Progress
<1>3. TypeOK'
  BY <1>1, <1>2, TypeStays DEF LoanInv, TypeOK
<1>4. m.sender # FlashLoan => \A t : Meanwhile(t) => Meanwhile(t)'
  BY <1>1, <1>2, StillSo
<1>5. CASE m.sender # FlashLoan /\ rest \in Bottom /\ Meanwhile(rest)
  BY <1>2, <1>3, <1>4, <1>5, NextBottom DEF Runs
<1>6. CASE m.sender # FlashLoan /\ Case2(m, rest)
  <2>1. PICK h \in Messages, t \in Seq(Messages) :
          rest = <<h>> \o t /\ h = Head(rest) /\ t = Tail(rest)
    BY <1>1, <1>6, HeadAndTail DEF Case2
  <2>2. IsCall(h) /\ t \in Bottom /\ Meanwhile(t)
    BY <1>6, <2>1 DEF Case2
  <2>3. IsCall(h)' /\ Meanwhile(t)'
    BY <1>2, <1>4, <1>6, <2>2 DEF IsCall
  <2>4. Progress(h, t)'
    BY <1>2, <2>2, <2>3 DEF Progress, Case1
  <2>5. QED
    BY <1>2, <1>3, <2>1, <2>4, NextStack DEF Runs
<1>7. CASE Case3(m, rest)
  <2>1. bank'[FlashLoan] = 0
    BY <1>1, <1>2, <1>7, PaidBank DEF Case3, IsPayout, LoanInv
  <2>2. CASE rest = <<>>
    <3>1. EndsWithdrawn \/ EndsOpen
      BY <1>2, <1>7, <2>1, <2>2, Distinct
         DEF Case3, PayingOut, EndsWithdrawn, EndsOpen, Before, LoanInv, TypeOK
    <3>2. QED
      BY <1>2, <1>3, <1>1, <2>2, <3>1 DEF Runs, Ends, StackOK
  <2>3. CASE rest # <<>>
    <3>1. Lending' /\ rest \in Bottom
      BY <1>2, <1>7, <2>3 DEF Case3, PayingOut, Lending
    <3>2. QED
      BY <1>2, <1>3, <2>3, <3>1, NextBottom DEF Runs, Meanwhile
  <2>4. QED
    BY <2>2, <2>3
<1>8. CASE Case5(m, rest)
  <2>1. PICK h \in Messages, t \in Seq(Messages) :
          rest = <<h>> \o t /\ h = Head(rest) /\ t = Tail(rest)
    BY <1>1, <1>8, HeadAndTail DEF Case5
  <2>2. IsUse(h) /\ t = <<Settle>> /\ Lending
    BY <1>8, <2>1 DEF Case5
  <2>3. IsUse(h)' /\ Lending'
    BY <1>2, <2>2 DEF IsUse, ArgOK, Lending
  <2>4. Progress(h, t)'
    BY <1>2, <2>2, <2>3 DEF Progress, Case6
  <2>5. QED
    BY <1>2, <1>3, <2>1, <2>4, NextStack DEF Runs
<1>9. QED
  BY <1>1, <1>5, <1>6, <1>7, <1>8, ByKind

\* flash_loan lends: to a user or contract of its own choice, or to the proxy.
LEMMA RunFlashLoanStep == ASSUME LoanInv, RunFlashLoan PROVE Runs
<1>1. PICK m \in Messages, rest \in Seq(Messages) :
        /\ m = Head(stack) /\ rest = Tail(stack)
        /\ ~ AtRest /\ m.kind = "FlashLoan" /\ m.funds <= bank[m.sender]
        /\ Progress(m, rest) /\ Accepted(m)
  BY AcceptedTop DEF RunFlashLoan
<1>4. PICK amount \in Nat : amount = Paid(m)[FlashLoan]
  BY <1>1, PaidBank DEF LoanInv
<1>5. m.sender \in Account /\ FlashLoan \in Account
  BY <1>1, Distinct DEF Messages
<1> DEFINE s == Message(FlashLoan, m.sender, "Send", None, amount)
<1>2. /\ bank' = Paid(m)
      /\ stack' = <<s>> \o rest
      /\ requested_amount' = amount
      /\ UNCHANGED <<owner, proxy_addr, saved, signer, withdrew>>
      /\ proxy_addr = saved.proxy_addr
  BY <1>1, <1>4 DEF RunFlashLoan, Returns, Progress
<1>3. requested_amount = None /\ proxy_addr # None /\ m.sender = proxy_addr /\ amount > 0
  BY <1>1, <1>4 DEF Accepted, MayFlashLoan
<1>6. /\ s \in Messages
      /\ s.sender = FlashLoan /\ s.to = m.sender /\ s.kind = "Send" /\ s.funds = amount
  <2>1. None \in Arg /\ "Send" \in Kind
    BY DEF Arg, Kind
  <2>2. QED
    BY <1>5, <2>1, MessageIn
<1>7. TypeOK'
  <2>1. owner' \in Account /\ proxy_addr' \in Account \cup {None} /\ withdrew' \in BOOLEAN
    BY <1>2 DEF LoanInv, TypeOK
  <2>2. requested_amount' \in Loan
    BY <1>2, <1>3 DEF Loan
  <2>3. QED
    BY <1>1, <1>2, <2>1, <2>2, TypeStays
<1>8. bank'[FlashLoan] = amount /\ saved.bank[FlashLoan] \in Nat /\ saved'.bank[FlashLoan] = saved.bank[FlashLoan]
  BY <1>2, <1>4, Distinct DEF LoanInv, TypeOK
<1> HIDE DEF s
<1>9. m.sender # FlashLoan => amount >= bank[FlashLoan] /\ bank[FlashLoan] \in Nat
  BY <1>1, <1>4, PaidBank DEF LoanInv
<1>10. ~ Lending
  BY <1>3, Distinct DEF Lending
<1>11. ASSUME IsCall(m), rest \in Bottom, Meanwhile(rest)
       PROVE  Runs
  <2>1. rest = <<>> /\ Quiet
    BY <1>10, <1>11 DEF Meanwhile
  <2>2. m.sender \notin {FlashLoan, Proxy}
    BY <1>11, CallSender
  <2>3. IsPayout(s)'
    BY <1>6, <1>8, <2>2 DEF IsPayout
  <2>4. PayingOut(<<>>)'
    <3>1. saved.requested_amount = None /\ amount >= saved.bank[FlashLoan]
      BY <1>3, <1>4, <1>8, <1>9, <2>1, <2>2 DEF Quiet
    <3>2. QED
      BY <1>2, <1>3, <1>8, <2>2, <3>1 DEF PayingOut
  <2>5. Progress(s, <<>>)'
    BY <1>2, <2>3, <2>4 DEF Progress, Case3, Bottom
  <2>6. QED
    BY <1>2, <1>6, <1>7, <2>1, <2>5, NextStack DEF Runs
<1>12. ASSUME Case4(m, rest)
       PROVE  Runs
  <2>1. Tail(rest) = <<Settle>> /\ Quiet /\ IsUse(Head(rest)) /\ m = Borrow /\ rest # <<>>
        /\ proxy_addr = Proxy
    BY <1>10, <1>12 DEF Case4
  <2>2. m.sender = Proxy /\ m.sender # FlashLoan
    BY <2>1, SettleMessage, Distinct
  <2>3. IsPayout(s)'
    BY <1>6, <1>8, <2>2 DEF IsPayout
  <2>4. Lending'
    <3>1. saved.requested_amount = None /\ amount >= saved.bank[FlashLoan]
      BY <1>3, <1>4, <1>8, <1>9, <2>1, <2>2 DEF Quiet
    <3>2. QED
      BY <1>2, <1>3, <1>4, <1>8, <2>1, <3>1 DEF Lending
  <2>5. Progress(s, rest)'
    BY <1>2, <2>1, <2>3, <2>4 DEF Progress, Case5, IsUse, ArgOK
  <2>6. QED
    BY <1>2, <1>6, <1>7, <2>5, NextStack DEF Runs
<1>13. ~ Case6(m, rest)
  BY <1>10 DEF Case6
<1>14. QED
  BY <1>1, <1>11, <1>12, <1>13, ByKind

\* A settlement is the one that was waiting, or an earlier one by which flash_loan as
\* recipient answers, or of a loan that another proxy took in an earlier transaction.
LEMMA RunSettleLoanStep == ASSUME LoanInv, RunSettleLoan PROVE Runs
<1>1. PICK m \in Messages, rest \in Seq(Messages) :
        /\ m = Head(stack) /\ rest = Tail(stack)
        /\ ~ AtRest /\ m.kind = "SettleLoan" /\ m.funds <= bank[m.sender]
        /\ Progress(m, rest) /\ Accepted(m)
  BY AcceptedTop DEF RunSettleLoan
<1>2. /\ bank' = Paid(m)
      /\ stack' = rest
      /\ requested_amount' = None
      /\ UNCHANGED <<owner, proxy_addr, saved, signer, withdrew>>
      /\ proxy_addr = saved.proxy_addr
  BY <1>1, PushNothing DEF RunSettleLoan, Returns, Progress
<1>3. /\ requested_amount # None /\ requested_amount \in Nat
      /\ m.sender = proxy_addr
      /\ bank'[FlashLoan] >= requested_amount
  BY <1>1, <1>2 DEF Accepted, MaySettleLoan, LoanInv, TypeOK, Loan
<1>4. TypeOK'
  <2>1. /\ owner' \in Account /\ proxy_addr' \in Account \cup {None}
        /\ withdrew' \in BOOLEAN /\ requested_amount' \in Loan
    BY <1>2 DEF LoanInv, TypeOK, Loan
  <2>2. QED
    BY <1>1, <1>2, <2>1, TypeStays
<1>5. /\ bank'[FlashLoan] \in Nat /\ bank[FlashLoan] \in Nat /\ saved.bank[FlashLoan] \in Nat
      /\ m.sender # FlashLoan => bank'[FlashLoan] >= bank[FlashLoan]
  BY <1>1, <1>2, PaidBank, Distinct DEF LoanInv, TypeOK
<1>6. ASSUME IsCall(m), rest \in Bottom, Meanwhile(rest)
      PROVE  Runs
  <2>1. m.sender \notin {FlashLoan, Proxy}
    BY <1>6, CallSender
  <2>2. rest = <<>> /\ Quiet
    BY <1>3, <1>6, <2>1 DEF Meanwhile, Lending
  <2>3. EndsClosed
    BY <1>2, <1>3, <1>5, <2>1, <2>2 DEF EndsClosed, Quiet, Before
  <2>4. QED
    BY <1>1, <1>2, <1>4, <2>2, <2>3 DEF Runs, Ends, StackOK
<1>7. ASSUME Case7(m, rest)
      PROVE  Runs
  <2>1. rest = <<>> /\ Lending
    BY <1>7 DEF Case7
  <2>2. EndsKept
    BY <1>2, <1>3, <1>5, <2>1 DEF EndsKept, Lending, Before
  <2>3. QED
    BY <1>1, <1>2, <1>4, <2>1, <2>2 DEF Runs, Ends, StackOK
<1>8. ASSUME Case6(m, rest)
      PROVE  Runs
  <2>1. proxy_addr' = Proxy /\ stack' = <<Settle>> \o <<>> /\ <<>> \in Seq(Messages)
    BY <1>2, <1>8, BottomSeq DEF Case6, Lending
  <2>2. Progress(Settle, <<>>)'
    BY <1>2, <2>1 DEF Progress, Case8
  <2>3. QED
    BY <1>2, <1>4, <2>1, <2>2, SettleMessage, NextStack DEF Runs
<1>9. ~ Case8(m, rest)
  BY <1>3 DEF Case8
<1>10. QED
  BY <1>1, <1>6, <1>7, <1>8, <1>9, ByKind

LEMMA RunSetProxyAddrStep == ASSUME LoanInv, RunSetProxyAddr PROVE Runs
<1>1. PICK m \in Messages, rest \in Seq(Messages) :
        /\ m = Head(stack) /\ rest = Tail(stack)
        /\ ~ AtRest /\ m.kind = "SetProxyAddr" /\ m.funds <= bank[m.sender]
        /\ Progress(m, rest) /\ Accepted(m) /\ ArgOK(m)
  BY AcceptedTop DEF RunSetProxyAddr
<1>2. /\ bank' = Paid(m)
      /\ stack' = rest
      /\ proxy_addr' = m.arg
      /\ UNCHANGED <<owner, requested_amount, saved, signer, withdrew>>
      /\ proxy_addr = saved.proxy_addr
  BY <1>1, PushNothing DEF RunSetProxyAddr, Returns, Progress
<1>3. proxy_addr = None /\ m.arg \in Account
  BY <1>1 DEF Accepted, MaySetProxyAddr, ArgOK
<1>4. TypeOK'
  <2>1. /\ owner' \in Account /\ requested_amount' \in Loan
        /\ withdrew' \in BOOLEAN
    BY <1>2 DEF LoanInv, TypeOK
  <2>2. QED
    BY <1>1, <1>2, <1>3, <2>1, TypeStays
<1>5. IsCall(m) /\ rest \in Bottom /\ Meanwhile(rest)
  BY <1>1, ByKind
<1>6. rest = <<>> /\ Quiet
  BY <1>3, <1>5, Distinct DEF Meanwhile, Lending
<1>7. EndsChosen
  <2>1. /\ bank'[FlashLoan] \in Nat /\ bank[FlashLoan] \in Nat
        /\ saved.bank[FlashLoan] \in Nat
        /\ bank'[FlashLoan] >= bank[FlashLoan]
    BY <1>1, <1>2, <1>5, CallSender, PaidBank, Distinct DEF LoanInv, TypeOK
  <2>2. QED
    BY <1>2, <1>3, <1>6, <2>1, Distinct DEF EndsChosen, Quiet, Before
<1>8. QED
  BY <1>1, <1>2, <1>4, <1>6, <1>7 DEF Runs, Ends, StackOK

LEMMA RunWithdrawFundsStep == ASSUME LoanInv, RunWithdrawFunds PROVE Runs
<1>1. PICK m \in Messages, rest \in Seq(Messages) :
        /\ m = Head(stack) /\ rest = Tail(stack)
        /\ ~ AtRest /\ m.kind = "WithdrawFunds" /\ m.funds <= bank[m.sender]
        /\ Progress(m, rest) /\ ArgOK(m)
  BY AcceptedTop DEF RunWithdrawFunds
<1>2. PICK amount \in Nat : amount = Paid(m)[FlashLoan]
  BY <1>1, PaidBank DEF LoanInv
<1> DEFINE s == Message(FlashLoan, m.arg, "Send", None, amount)
<1>3. /\ bank' = Paid(m)
      /\ stack' = <<s>> \o rest
      /\ withdrew' = TRUE
      /\ UNCHANGED <<owner, proxy_addr, requested_amount, saved, signer>>
      /\ proxy_addr = saved.proxy_addr
  BY <1>1, <1>2 DEF RunWithdrawFunds, Returns, Progress
<1>4. m.arg \in Account /\ m.arg # FlashLoan /\ FlashLoan \in Account
  BY <1>1, Distinct DEF ArgOK
<1>5. /\ s \in Messages
      /\ s.sender = FlashLoan /\ s.to = m.arg /\ s.kind = "Send" /\ s.funds = amount
  <2>1. None \in Arg /\ "Send" \in Kind
    BY DEF Arg, Kind
  <2>2. QED
    BY <1>4, <2>1, MessageIn
<1> HIDE DEF s
<1>6. TypeOK'
  <2>1. /\ owner' \in Account /\ requested_amount' \in Loan
        /\ proxy_addr' \in Account \cup {None} /\ withdrew' \in BOOLEAN
    BY <1>3 DEF LoanInv, TypeOK
  <2>2. QED
    BY <1>1, <1>3, <2>1, TypeStays
<1>7. rest \in Bottom /\ Meanwhile(rest)
  BY <1>1, ByKind
<1>8. IsPayout(s)'
  BY <1>2, <1>3, <1>4, <1>5 DEF IsPayout
<1>9. PayingOut(rest)'
  BY <1>3, <1>7 DEF PayingOut, Meanwhile, Quiet, Lending
<1>10. Progress(s, rest)'
  BY <1>3, <1>7, <1>8, <1>9 DEF Progress, Case3
<1>11. QED
  BY <1>3, <1>5, <1>6, <1>10, NextStack DEF Runs

LEMMA RunTransferOwnerStep == ASSUME LoanInv, RunTransferOwner PROVE Runs
<1>1. PICK m \in Messages, rest \in Seq(Messages) :
        /\ m = Head(stack) /\ rest = Tail(stack)
        /\ ~ AtRest /\ m.kind = "TransferOwner" /\ m.funds <= bank[m.sender]
        /\ Progress(m, rest) /\ ArgOK(m)
  BY AcceptedTop DEF RunTransferOwner
<1>2. /\ bank' = Paid(m)
      /\ stack' = rest
      /\ owner' = m.arg
      /\ UNCHANGED <<proxy_addr, requested_amount, saved, signer, withdrew>>
      /\ proxy_addr = saved.proxy_addr
  BY <1>1, PushNothing DEF RunTransferOwner, Returns, Progress
<1>3. m.sender # FlashLoan /\ rest \in Bottom /\ Meanwhile(rest)
  BY <1>1, ByKind
<1>4. TypeOK'
  <2>1. /\ owner' \in Account /\ requested_amount' \in Loan
        /\ proxy_addr' \in Account \cup {None} /\ withdrew' \in BOOLEAN
    BY <1>1, <1>2 DEF LoanInv, TypeOK, ArgOK
  <2>2. QED
    BY <1>1, <1>2, <2>1, TypeStays
<1>5. Meanwhile(rest)'
  BY <1>1, <1>2, <1>3, StillSo
<1>6. QED
  BY <1>2, <1>3, <1>4, <1>5, NextBottom DEF Runs

\* What Callbacks are made of.
LEMMA CallbackShape ==
    ASSUME NEW c \in Callbacks
    PROVE  /\ c \in Arg /\ Resolved(c.recipient) \in Account
           /\ c.arg \in Arg
           /\ c.kind \in UseKind
           /\ c.kind \in {"Arbitrage", "TransferOwner"} => c.arg \in Account
           /\ c.kind = "WithdrawFunds" => c.arg \in User
           /\ c.kind = "RequestFlashLoan" => c.arg \in Callbacks
<1>1. c \in Arg
  BY DEF Arg
<1>2. /\ Resolved(FlashLoanUpper) = FlashLoan
      /\ \A a \in Account : Resolved(a) = a
      /\ Account \subseteq Arg /\ None \in Arg /\ Callbacks \subseteq Arg
      /\ Deployer \in User /\ User \subseteq Account
  BY AddressAssumption DEF Resolved, Arg, Account
<1>3. CASE \E a \in {FlashLoan} \cup User : c = Callback(Arb, "Arbitrage", a)
  BY <1>1, <1>2, <1>3, Distinct DEF Callback, UseKind
<1>4. CASE c = Callback(Borrower, "Callback", None)
  BY <1>1, <1>2, <1>4, Distinct DEF Callback, UseKind
<1>5. CASE c = Callback(Proxy, "RequestFlashLoan", Callback(Borrower, "Callback", None))
  <2>1. Callback(Borrower, "Callback", None) \in Callbacks
    BY DEF Callbacks
  <2>2. /\ c.arg \in Callbacks /\ c.recipient = Proxy
        /\ c.kind = "RequestFlashLoan"
    BY <1>5, <2>1 DEF Callback
  <2>3. QED
    BY <1>1, <1>2, <2>2, Distinct DEF UseKind
<1>6. CASE \E r \in {FlashLoan, FlashLoanUpper}, a \in {Borrower, Proxy} :
             c = Callback(r, "TransferOwner", a)
  BY <1>1, <1>2, <1>6, Distinct DEF Callback, UseKind
<1>7. CASE \E k \in {"SettleLoan", "FlashLoan"} : c = Callback(FlashLoanUpper, k, None)
  BY <1>1, <1>2, <1>7, Distinct DEF Callback, UseKind
<1>8. CASE c = Callback(FlashLoanUpper, "WithdrawFunds", Deployer)
  BY <1>1, <1>2, <1>8, Distinct DEF Callback, UseKind
<1>9. QED
  BY <1>3, <1>4, <1>5, <1>6, <1>7, <1>8 DEF Callbacks

\* The proxy borrows for a recipient, who may be flash_loan itself.
LEMMA RunRequestFlashLoanStep == ASSUME LoanInv, RunRequestFlashLoan PROVE Runs
<1>1. PICK m \in Messages, rest \in Seq(Messages) :
        /\ m = Head(stack) /\ rest = Tail(stack)
        /\ ~ AtRest /\ m.kind = "RequestFlashLoan" /\ m.funds <= bank[m.sender]
        /\ Progress(m, rest) /\ Accepted(m) /\ ArgOK(m)
  BY AcceptedTop DEF RunRequestFlashLoan
<1>2. PICK amount \in Nat : amount = Paid(m)[FlashLoan]
  BY <1>1, PaidBank DEF LoanInv
<1> DEFINE u == Message(Proxy, Resolved(m.arg.recipient), m.arg.kind, m.arg.arg, amount)
<1>3. /\ bank' = Paid(m)
      /\ stack' = <<Borrow, u, Settle>> \o rest
      /\ UNCHANGED <<owner, proxy_addr, requested_amount, saved, signer, withdrew>>
      /\ proxy_addr = saved.proxy_addr
  BY <1>1, <1>2 DEF RunRequestFlashLoan, Returns, Progress, LoanMessages, Borrow, Settle
<1>4. proxy_addr = Proxy /\ m.arg \in Callbacks
  BY <1>1 DEF Accepted, MayRequestFlashLoan, ArgOK
<1>5. /\ u \in Messages
      /\ u.sender = Proxy /\ u.kind = m.arg.kind /\ u.arg = m.arg.arg
  <2>1. /\ Proxy \in Account /\ Resolved(m.arg.recipient) \in Account
        /\ m.arg.kind \in UseKind /\ m.arg.arg \in Arg
    BY <1>4, CallbackShape, Distinct
  <2>3. m.arg.kind \in Kind
    BY <2>1 DEF UseKind, Kind
  <2>2. QED
    BY <2>1, <2>3, MessageIn
<1>6. IsUse(u)
  BY <1>4, <1>5, CallbackShape DEF IsUse, UseKind, ArgOK
<1> HIDE DEF u
<1>7. TypeOK'
  <2>1. /\ owner' \in Account /\ requested_amount' \in Loan
        /\ proxy_addr' \in Account \cup {None} /\ withdrew' \in BOOLEAN
    BY <1>3 DEF LoanInv, TypeOK
  <2>2. QED
    BY <1>1, <1>3, <2>1, TypeStays
<1>8. m.sender # FlashLoan /\ rest \in Bottom /\ Meanwhile(rest)
  BY <1>1, ByKind
<1>9. Meanwhile(rest)'
  BY <1>1, <1>3, <1>8, StillSo
<1>10. PICK t \in Seq(Messages), k \in Seq(Messages) :
         /\ k = <<Settle>> \o rest
         /\ t = <<u>> \o k
         /\ stack' = <<Borrow>> \o t
         /\ t # <<>> /\ Head(t) = u /\ Tail(t) = k
  <2> DEFINE k == <<Settle>> \o rest t == <<u>> \o k
  <2>1. k \in Seq(Messages)
    BY <1>1, SettleMessage, Push
  <2>2. stack' = <<Borrow>> \o t
    <3>1. <<Borrow, u, Settle>> \o rest = <<Borrow>> \o (<<u>> \o (<<Settle>> \o rest))
      <4>1. Borrow \in Messages /\ u \in Messages /\ Settle \in Messages
        BY <1>5, SettleMessage
      <4>2. QED
        BY <4>1, PushThree, Zenon
    <3>2. QED
      BY <1>3, <3>1, Zenon
  <2> HIDE DEF k
  <2>3. t \in Seq(Messages) /\ t # <<>> /\ Head(t) = u /\ Tail(t) = k
    BY <1>5, <2>1, Push
  <2> HIDE DEF t
  <2>4. QED
    BY <2>1, <2>2, <2>3 DEF k, t
<1>11. Case4(Borrow, t)'
  <2>1. CASE rest = <<>>
    <3>1. k = <<Settle>> /\ Quiet'
      BY <1>9, <1>10, <2>1, BottomSeq DEF Meanwhile
    <3>2. QED
      BY <1>3, <1>4, <1>6, <1>10, <3>1 DEF Case4, IsUse, ArgOK
  <2>2. CASE rest = <<Settle>>
    <3>1. k # <<>> /\ Lending'
      BY <1>9, <1>10, <2>2, BottomSeq DEF Meanwhile
    <3>2. QED
      BY <1>3, <1>4, <1>6, <1>10, <3>1 DEF Case4, IsUse, ArgOK
  <2>3. QED
    BY <1>8, <2>1, <2>2 DEF Bottom
<1>12. Progress(Borrow, t)'
  BY <1>3, <1>11 DEF Progress
<1>13. QED
  BY <1>3, <1>7, <1>10, <1>12, SettleMessage, NextStack DEF Runs

LEMMA RunArbitrageStep == ASSUME LoanInv, RunArbitrage PROVE Runs
<1>1. PICK m \in Messages, rest \in Seq(Messages) :
        /\ m = Head(stack) /\ rest = Tail(stack)
        /\ ~ AtRest /\ m.kind = "Arbitrage" /\ m.funds <= bank[m.sender]
        /\ Progress(m, rest) /\ ArgOK(m)
  BY AcceptedTop DEF RunArbitrage
<1>2. PICK amount \in Nat : amount = Paid(m)[Arb]
  BY <1>1, PaidBank, Distinct DEF LoanInv
<1> DEFINE s == Message(Arb, m.arg, "Send", None, amount)
<1>3. /\ bank' = Paid(m)
      /\ stack' = <<s>> \o rest
      /\ UNCHANGED <<owner, proxy_addr, requested_amount, saved, signer, withdrew>>
      /\ proxy_addr = saved.proxy_addr
  BY <1>1, <1>2 DEF RunArbitrage, Returns, Progress
<1>4. s \in Messages /\ s.sender = Arb /\ s.kind = "Send"
  <2>1. None \in Arg /\ "Send" \in Kind /\ Arb \in Account /\ m.arg \in Account
    BY <1>1, Distinct DEF Arg, Kind, ArgOK
  <2>2. QED
    BY <2>1, MessageIn
<1> HIDE DEF s
<1>5. TypeOK'
  <2>1. /\ owner' \in Account /\ requested_amount' \in Loan
        /\ proxy_addr' \in Account \cup {None} /\ withdrew' \in BOOLEAN
    BY <1>3 DEF LoanInv, TypeOK
  <2>2. QED
    BY <1>1, <1>3, <2>1, TypeStays
<1>6. m.sender # FlashLoan /\ rest \in Bottom /\ Meanwhile(rest)
  BY <1>1, ByKind
<1>7. Meanwhile(rest)'
  BY <1>1, <1>3, <1>6, StillSo
<1>8. Progress(s, rest)'
  BY <1>3, <1>4, <1>6, <1>7, Distinct DEF Progress, Case1, IsPayment
<1>9. QED
  BY <1>3, <1>4, <1>5, <1>8, NextStack DEF Runs

\* What a user or the other contract may send is a call.
LEMMA CallsShape ==
    ASSUME NEW a \in User \cup {Borrower}, NEW coins \in Nat, NEW m \in Calls(a, coins)
    PROVE  m \in Messages /\ m.sender = a /\ ArgOK(m)
<1> USE DEF ArgOK
<1>1. /\ a \in Account /\ FlashLoan \in Account /\ Proxy \in Account /\ Arb \in Account
      /\ None \in Arg /\ 0 \in Nat /\ Account \subseteq Arg /\ Callbacks \subseteq Arg
      /\ \A n \in 1..coins : n \in Nat
  BY Distinct DEF Arg
<1>2. ASSUME NEW k \in {"FlashLoan", "SettleLoan"}, m = Message(a, FlashLoan, k, None, 0)
      PROVE  m \in Messages /\ m.sender = a /\ ArgOK(m)
  <2>1. k \in Kind
    BY <1>2 DEF Kind
  <2>2. m \in Messages /\ m.sender = a /\ m.kind = k
    BY <1>1, <1>2, <2>1, MessageIn
  <2>3. QED
    BY <1>2, <2>2
<1>3. ASSUME NEW b \in Account, NEW k \in {"SetProxyAddr", "TransferOwner"},
             m = Message(a, FlashLoan, k, b, 0)
      PROVE  m \in Messages /\ m.sender = a /\ ArgOK(m)
  <2>1. k \in Kind
    BY <1>3 DEF Kind
  <2>2. m \in Messages /\ m.sender = a /\ m.kind = k /\ m.arg = b
    BY <1>1, <1>3, <2>1, MessageIn
  <2>3. QED
    BY <1>3, <2>2
<1>4. ASSUME NEW b \in User, m = Message(a, FlashLoan, "WithdrawFunds", b, 0)
      PROVE  m \in Messages /\ m.sender = a /\ ArgOK(m)
  <2>1. "WithdrawFunds" \in Kind /\ b \in Arg
    BY <1>1, Distinct DEF Kind
  <2>2. m \in Messages /\ m.sender = a /\ m.kind = "WithdrawFunds" /\ m.arg = b
    BY <1>1, <1>4, <2>1, MessageIn
  <2>3. QED
    BY <2>2
<1>5. ASSUME NEW c \in Callbacks, m = Message(a, Proxy, "RequestFlashLoan", c, 0)
      PROVE  m \in Messages /\ m.sender = a /\ ArgOK(m)
  <2>1. "RequestFlashLoan" \in Kind
    BY DEF Kind
  <2>2. m \in Messages /\ m.sender = a /\ m.kind = "RequestFlashLoan" /\ m.arg = c
    BY <1>1, <1>5, <2>1, MessageIn
  <2>3. QED
    BY <2>2
<1>6. ASSUME NEW n \in 1..coins, m = Message(a, Arb, "Arbitrage", FlashLoan, n)
      PROVE  m \in Messages /\ m.sender = a /\ ArgOK(m)
  <2>1. "Arbitrage" \in Kind /\ FlashLoan \in Arg
    BY <1>1 DEF Kind
  <2>2. m \in Messages /\ m.sender = a /\ m.kind = "Arbitrage" /\ m.arg = FlashLoan
    BY <1>1, <1>6, <2>1, MessageIn
  <2>3. QED
    BY <1>1, <2>2
<1>7. ASSUME NEW n \in 1..coins, m = Message(a, FlashLoan, "Send", None, n)
      PROVE  m \in Messages /\ m.sender = a /\ ArgOK(m)
  <2>1. "Send" \in Kind
    BY DEF Kind
  <2>2. m \in Messages /\ m.sender = a /\ m.kind = "Send"
    BY <1>1, <1>7, <2>1, MessageIn
  <2>3. QED
    BY <2>2
<1> HIDE DEF ArgOK
<1>8. ProxyChoice \subseteq Account /\ User \cup {Borrower} \subseteq Account
  BY ChoiceAssumption, Distinct
<1>9. QED
  BY <1>2, <1>3, <1>4, <1>5, <1>6, <1>7, <1>8 DEF Calls

\* What the other contract does with a loan, or when a user calls it.
LEMMA RunCallbackStep ==
    ASSUME LoanInv, NEW p \in Payments, NEW c \in FurtherCalls, RunCallback(p, c)
    PROVE  Runs
<1>1. PICK m \in Messages, rest \in Seq(Messages) :
        /\ m = Head(stack) /\ rest = Tail(stack)
        /\ ~ AtRest /\ m.kind = "Callback" /\ m.funds <= bank[m.sender]
        /\ Progress(m, rest)
  BY AcceptedTop DEF RunCallback
<1>2. /\ bank' = Paid(m)
      /\ stack' = (p \o c) \o rest
      /\ UNCHANGED <<owner, proxy_addr, requested_amount, saved, signer, withdrew>>
      /\ proxy_addr = saved.proxy_addr
  BY <1>1 DEF RunCallback, Returns, Progress
<1>3. TypeOK'
  <2>1. /\ owner' \in Account /\ requested_amount' \in Loan
        /\ proxy_addr' \in Account \cup {None} /\ withdrew' \in BOOLEAN
    BY <1>2 DEF LoanInv, TypeOK
  <2>2. QED
    BY <1>1, <1>2, <2>1, TypeStays
<1>4. m.sender # FlashLoan /\ rest \in Bottom /\ Meanwhile(rest)
  BY <1>1, ByKind
<1>5. Meanwhile(rest)'
  BY <1>1, <1>2, <1>4, StillSo
<1>6. Coins \in Nat
  BY <1>1, PaidBank, Distinct DEF LoanInv, Coins
<1>7. /\ p = <<>> \/ \E n \in 1..Coins : p = <<Message(Borrower, FlashLoan, "Send", None, n)>>
      /\ c = <<>> \/ \E call \in Calls(Borrower, Coins) : c = <<call>>
  BY DEF Payments, FurtherCalls
<1>8. ASSUME NEW n \in 1..Coins, NEW pay, pay = Message(Borrower, FlashLoan, "Send", None, n)
      PROVE  pay \in Messages /\ IsPayment(pay)
  <2>1. /\ Borrower \in Account /\ FlashLoan \in Account /\ "Send" \in Kind /\ None \in Arg
        /\ n \in Nat
    BY Distinct DEF Arg, Kind
  <2>2. pay \in Messages /\ pay.sender = Borrower /\ pay.kind = "Send"
    BY <1>8, <2>1, MessageIn
  <2>3. QED
    BY <2>2, Distinct DEF IsPayment
<1>9. ASSUME NEW call \in Calls(Borrower, Coins)
      PROVE  call \in Messages /\ IsCall(call)'
  <2>1. call \in Messages /\ call.sender = Borrower /\ ArgOK(call)
    BY <1>6, CallsShape
  <2>2. QED
    BY <1>2, <2>1 DEF IsCall, ArgOK
<1>10. CASE p = <<>> /\ c = <<>>
  <2>1. stack' = rest
    BY <1>1, <1>2, <1>10, PushNothing
  <2>2. QED
    BY <1>2, <1>3, <1>4, <1>5, <2>1, NextBottom DEF Runs
<1>11. ASSUME NEW x \in Messages, IsPayment(x) \/ IsCall(x)', p \o c = <<x>>
       PROVE  Runs
  <2>1. stack' = <<x>> \o rest
    BY <1>2, <1>11
  <2>2. Progress(x, rest)'
    BY <1>2, <1>4, <1>5, <1>11 DEF Progress, Case1, IsPayment
  <2>3. QED
    BY <1>2, <1>3, <2>1, <2>2, NextStack DEF Runs
<1>12. ASSUME NEW pay \in Messages, IsPayment(pay), NEW call \in Messages, IsCall(call)',
              p \o c = <<pay>> \o <<call>>
       PROVE  Runs
  <2>1. PICK t \in Seq(Messages) :
          /\ t = <<call>> \o rest /\ stack' = <<pay>> \o t
          /\ t # <<>> /\ Head(t) = call /\ Tail(t) = rest
    <3> DEFINE t == <<call>> \o rest
    <3>1. (<<pay>> \o <<call>>) \o rest = <<pay>> \o t
      BY <1>1, <1>12, PushTwo, Zenon
    <3>2. t \in Seq(Messages) /\ t # <<>> /\ Head(t) = call /\ Tail(t) = rest
      BY <1>1, <1>12, Push
    <3>3. stack' = <<pay>> \o t
      BY <1>2, <1>12, <3>1, Zenon
    <3>4. QED
      BY <3>2, <3>3
  <2>2. Progress(pay, t)'
    BY <1>2, <1>4, <1>5, <1>12, <2>1 DEF Progress, Case2, IsPayment
  <2>3. QED
    BY <1>2, <1>3, <2>1, <2>2, NextStack DEF Runs
<1>13. CASE p # <<>> /\ c = <<>>
  <2>1. PICK n \in 1..Coins : p = <<Message(Borrower, FlashLoan, "Send", None, n)>>
    BY <1>7, <1>13
  <2>2. PICK pay \in Messages : IsPayment(pay) /\ p = <<pay>>
    BY <1>8, <2>1
  <2>3. p \o c = <<pay>>
    BY <1>13, <2>2
  <2>4. QED
    BY <1>11, <2>2, <2>3
<1>14. CASE p = <<>> /\ c # <<>>
  <2>1. PICK call \in Calls(Borrower, Coins) : c = <<call>>
    BY <1>7, <1>14
  <2>2. call \in Messages /\ IsCall(call)'
    BY <1>9
  <2>3. p \o c = <<call>>
    BY <1>14, <2>1, <2>2
  <2>4. QED
    BY <1>11, <2>2, <2>3
<1>15. CASE p # <<>> /\ c # <<>>
  <2>1. PICK n \in 1..Coins : p = <<Message(Borrower, FlashLoan, "Send", None, n)>>
    BY <1>7, <1>15
  <2>2. PICK pay \in Messages : IsPayment(pay) /\ p = <<pay>>
    BY <1>8, <2>1
  <2>3. PICK call \in Calls(Borrower, Coins) : c = <<call>>
    BY <1>7, <1>15
  <2>4. QED
    BY <1>9, <1>12, <2>2, <2>3
<1>16. QED
  BY <1>10, <1>13, <1>14, <1>15

\* A failure restores what the transaction found.
LEMMA AbortStep == ASSUME LoanInv, Abort PROVE Runs
<1>1. /\ ~ AtRest /\ stack' = <<>>
      /\ bank' = saved.bank /\ owner' = saved.owner /\ proxy_addr' = saved.proxy_addr
      /\ requested_amount' = saved.requested_amount /\ withdrew' = FALSE
      /\ UNCHANGED <<saved, signer>>
  BY DEF Abort
<1>2. TypeOK'
  BY <1>1 DEF LoanInv, TypeOK
<1>3. EndsKept
  BY <1>1, <1>2, Distinct DEF EndsKept, Before, TypeOK
<1>4. stack' \in Seq(Messages)
  BY <1>1
<1>5. QED
  BY <1>1, <1>2, <1>3, <1>4 DEF Runs, Ends, StackOK

LEMMA RunStep == ASSUME LoanInv, Run PROVE Runs /\ ~ AtRest
<1>1. Runs
  BY RunSendStep, RunFlashLoanStep, RunSettleLoanStep, RunSetProxyAddrStep,
     RunWithdrawFundsStep, RunTransferOwnerStep, RunRequestFlashLoanStep,
     RunArbitrageStep, RunCallbackStep, AbortStep
     DEF Run
<1>2. ~ AtRest
  BY DEF Run, RunSend, RunFlashLoan, RunSettleLoan, RunSetProxyAddr, RunWithdrawFunds,
         RunTransferOwner, RunRequestFlashLoan, RunArbitrage, Abort, Top
<1>3. QED
  BY <1>1, <1>2

\* When a transaction ends, no loan is open that only the proxy contract could take.
LEMMA EndsLoanFree ==
    ASSUME LoanInv, Ends
    PROVE  LoanFree(proxy_addr, requested_amount)'
BY Distinct
   DEF LoanInv, TypeOK, LoanFree, Ends, EndsKept, EndsWithdrawn, EndsChosen, EndsOpen, EndsClosed

LEMMA SubmitStep ==
    ASSUME LoanInv, NEW user \in User,
           NEW m \in Calls(user, bank[user]) \cup {Message(user, Borrower, "Callback", None, 0)},
           Submit(user, m)
    PROVE  /\ LoanInv'
           /\ AtRest /\ ~ AtRest'
           /\ saved' = Snapshot /\ UNCHANGED chain
<1>1. /\ AtRest /\ stack' = <<m>> /\ saved' = Snapshot /\ signer' = user
      /\ withdrew' = FALSE /\ UNCHANGED chain
  BY DEF Submit
<1>2. m \in Messages /\ m.sender = user /\ ArgOK(m)
  <2>1. CASE m \in Calls(user, bank[user])
    <3>1. bank[user] \in Nat
      BY Distinct DEF LoanInv, TypeOK
    <3>2. QED
      BY <2>1, <3>1, CallsShape
  <2>2. CASE m = Message(user, Borrower, "Callback", None, 0)
    <3>1. /\ user \in Account /\ Borrower \in Account /\ "Callback" \in Kind
          /\ None \in Arg /\ 0 \in Nat
      BY Distinct DEF Arg, Kind
    <3>2. m \in Messages /\ m.sender = user /\ m.kind = "Callback"
      BY <2>2, <3>1, MessageIn
    <3>3. QED
      BY <3>2 DEF ArgOK
  <2>3. QED
    BY <2>1, <2>2
<1>3. /\ saved'.bank = bank /\ saved'.owner = owner /\ saved'.proxy_addr = proxy_addr
      /\ saved'.requested_amount = requested_amount
      /\ bank' = bank /\ owner' = owner /\ proxy_addr' = proxy_addr
      /\ requested_amount' = requested_amount
  BY <1>1 DEF Snapshot, chain
<1>4. TypeOK'
  BY <1>1, <1>3 DEF LoanInv, TypeOK
<1>5. Progress(m, <<>>)'
  <2>1. IsCall(m)'
    BY <1>1, <1>2 DEF IsCall, ArgOK
  <2>2. Quiet'
    BY <1>3, Distinct DEF Quiet, LoanInv, TypeOK
  <2>3. QED
    BY <1>3, <2>1, <2>2 DEF Progress, Case1, Meanwhile, Bottom
<1>6. StackOK' /\ stack' \in Seq(Messages) /\ stack' # <<>>
  <2>1. <<>> \in Seq(Messages) /\ <<m>> = <<m>> \o <<>>
    BY <1>2
  <2>2. QED
    BY <1>1, <1>2, <1>5, <2>1, NextStack
<1>7. LoanFree(saved.proxy_addr, saved.requested_amount)'
  BY <1>1, <1>3 DEF LoanInv, LoanFree
<1>8. QED
  BY <1>1, <1>4, <1>6, <1>7 DEF LoanInv, AtRest

LEMMA LoanInvInit == Init => LoanInv
<1>1. SUFFICES ASSUME Init PROVE LoanInv
  OBVIOUS
<1>2. TypeOK
  <2>1. /\ saved.bank = InitialBank /\ saved.owner = Deployer /\ saved.proxy_addr = None
        /\ saved.requested_amount = None
    BY <1>1 DEF Init, Snapshot
  <2>2. Deployer \in User /\ Deployer \in Account
    BY AddressAssumption DEF Account
  <2>3. QED
    BY <1>1, <2>1, <2>2, BankAssumption DEF Init, TypeOK, Loan
<1>3. /\ stack = <<>> /\ requested_amount = None
      /\ saved.requested_amount = None
  BY <1>1 DEF Init, Snapshot
<1>4. stack \in Seq(Messages)
  BY <1>3
<1>5. QED
  BY <1>2, <1>3, <1>4 DEF LoanInv, StackOK, LoanFree, AtRest

LEMMA LoanInvNext == LoanInv /\ [Next]_vars => LoanInv'
<1> SUFFICES ASSUME LoanInv, [Next]_vars PROVE LoanInv'
  OBVIOUS
<1>1. CASE Run
  <2>1. Runs
    BY <1>1, RunStep
  <2>2. LoanFree(saved.proxy_addr, saved.requested_amount)'
    BY <2>1 DEF Runs, LoanInv, LoanFree
  <2>3. AtRest' => LoanFree(proxy_addr, requested_amount)'
    BY <2>1, EndsLoanFree DEF Runs, AtRest
  <2>4. QED
    BY <2>1, <2>2, <2>3 DEF Runs, LoanInv
<1>2. ASSUME NEW user \in User,
             NEW m \in Calls(user, bank[user]) \cup {Message(user, Borrower, "Callback", None, 0)},
             Submit(user, m)
      PROVE  LoanInv'
  BY <1>2, SubmitStep
<1>3. CASE UNCHANGED vars
  <2>1. /\ bank' = bank /\ owner' = owner /\ proxy_addr' = proxy_addr
        /\ requested_amount' = requested_amount /\ stack' = stack /\ saved' = saved
        /\ signer' = signer /\ withdrew' = withdrew
    BY <1>3 DEF vars, chain
  <2>2. TypeOK' /\ stack' \in Seq(Messages)
    BY <2>1 DEF LoanInv, TypeOK
  <2>3. /\ LoanFree(saved.proxy_addr, saved.requested_amount)'
        /\ AtRest' => LoanFree(proxy_addr, requested_amount)'
    BY <2>1 DEF LoanInv, LoanFree, AtRest
  <2>4. StackOK'
    <3>1. SUFFICES ASSUME stack # <<>> PROVE StackOK'
      BY <2>1 DEF StackOK
    <3>2. PICK h \in Messages, t \in Seq(Messages) : stack = <<h>> \o t /\ Progress(h, t)
      BY <3>1, HeadAndTail DEF LoanInv, StackOK
    <3>3. Progress(h, t)'
      BY <2>1, <3>2
         DEF Progress, Case1, Case2, Case3, Case4, Case5, Case6, Case7, Case8, IsCall, IsPayment,
             IsPayout, IsUse, ArgOK, Meanwhile, PayingOut, Lending, Quiet
    <3>4. QED
      BY <2>1, <3>2, <3>3, NextStack
  <2>5. QED
    BY <2>2, <2>3, <2>4 DEF LoanInv
<1>4. QED
  BY <1>1, <1>2, <1>3 DEF Next

LEMMA LoanInvariant == Spec => []LoanInv
BY LoanInvInit, LoanInvNext, PTL DEF Spec

-----------------------------------------------------------------------------
\* The stores keep their types: no handler takes coins that are not there.
THEOREM LaevateinnTypeCorrect == Spec => []TypeOK
<1>1. LoanInv => TypeOK
  BY DEF LoanInv
<1>2. QED
  BY <1>1, LoanInvariant, PTL

\* Loans do not nest: a recipient never runs with the loan but with one settlement
\* waiting, although it may ask the proxy for another loan meanwhile.
THEOREM NestingProved == Spec => []LoansDoNotNest
<1>1. ASSUME LoanInv, ~ AtRest, Head(stack).sender = Proxy,
             Head(stack).kind \notin {"FlashLoan", "SettleLoan"}
      PROVE  Tail(stack) = <<Settle>> /\ stack = <<Head(stack)>> \o <<Settle>>
             /\ Head(stack) \in Messages
  <2>1. /\ Head(stack) \in Messages /\ Tail(stack) \in Seq(Messages) /\ stack # <<>>
        /\ Progress(Head(stack), Tail(stack)) /\ stack \in Seq(Messages)
    BY <1>1, TopOf DEF LoanInv, AtRest
  <2>2. ~ IsCall(Head(stack))
    BY <1>1, CallSender
  <2>3. Tail(stack) = <<Settle>>
    BY <1>1, <2>1, <2>2, SettleMessage, Distinct
       DEF Progress, Case1, Case2, Case3, Case4, Case5, Case6, Case7, Case8, IsPayment, IsPayout
  <2>4. QED
    BY <2>1, <2>3, HeadAndTail
<1>2. LoanInv => LoansDoNotNest
  <2> SUFFICES ASSUME LoanInv, ~ AtRest, Head(stack).sender = Proxy,
                      Head(stack).kind \notin {"FlashLoan", "SettleLoan"}
               PROVE  LET waiting == {i \in DOMAIN stack :
                            stack[i].sender = Proxy /\ stack[i].kind = "SettleLoan"}
                      IN  waiting # {} /\ \A i, j \in waiting : i = j
    BY DEF LoansDoNotNest
  <2>1. PICK h \in Messages : h = Head(stack) /\ stack = <<h>> \o <<Settle>>
    BY <1>1
  <2>2. DOMAIN stack = 1..2 /\ stack[1] = h /\ stack[2] = Settle
    <3>1. <<h>> \o <<Settle>> = <<h, Settle>>
      <4>1. <<>> \in Seq(Messages) /\ Settle \in Messages
        BY SettleMessage
      <4>2. QED
        BY <4>1, PushTwo, Zenon
    <3>2. QED
      BY <2>1, <3>1
  <2>3. \A i \in DOMAIN stack : stack[i].kind = "SettleLoan" => i = 2
    BY <2>1, <2>2
  <2>4. QED
    BY <2>2, <2>3, SettleMessage
<1>3. QED
  BY <1>2, LoanInvariant, PTL

\* A transaction of the proxy contract that does not withdraw leaves flash_loan with
\* at least the coins it had.
THEOREM FundsProved == Spec => FundsSurviveLoans
<1>1. LoanInv /\ [Next]_vars
        => [~ AtRest /\ stack' = <<>> /\ ~ withdrew' /\ proxy_addr' = Proxy
              => bank'[FlashLoan] >= saved.bank[FlashLoan]]_vars
  <2> SUFFICES ASSUME LoanInv, Next, ~ AtRest, stack' = <<>>, ~ withdrew', proxy_addr' = Proxy
               PROVE  bank'[FlashLoan] >= saved.bank[FlashLoan]
    OBVIOUS
  <2>1. Run
    BY DEF Next, Submit
  <2>2. Ends
    BY <2>1, RunStep DEF Runs
  <2>3. QED
    BY <2>2 DEF Ends, EndsKept, EndsWithdrawn, EndsChosen, EndsOpen, EndsClosed, Before
<1>2. QED
  BY <1>1, LoanInvariant, PTL DEF Spec, FundsSurviveLoans

\* Between transactions the three contracts are the abstract lender: a transaction
\* is one step of it, and what happens inside is not seen.
THEOREM LenderRefinement == Spec => ImplementsAtomicLoan
<1>1. Init => Lender!Init
  BY BankAssumption, Distinct DEF Init, Lender!Init, Between, AtRest
<1>2. LoanInv /\ LoanInv' /\ [Next]_vars => [Lender!Next]_(Lender!vars)
  <2> SUFFICES ASSUME LoanInv, LoanInv', [Next]_vars
               PROVE  [Lender!Next]_(Lender!vars)
    OBVIOUS
  <2>1. ASSUME Run
        PROVE  [Lender!Next]_(Lender!vars)
    <3>1. Runs /\ ~ AtRest
      BY <2>1, RunStep
    <3>2. CASE ~ AtRest'
      BY <3>1, <3>2 DEF Runs, Lender!vars, Between
    <3>3. CASE AtRest'
      <4>1. Ends /\ saved' = saved
        BY <3>1, <3>3 DEF Runs, AtRest
      <4>2. CASE EndsKept
        BY <3>1, <3>3, <4>2 DEF EndsKept, Before, Lender!Next, Lender!Keep, Between
      <4>3. CASE EndsWithdrawn
        BY <3>1, <3>3, <4>3 DEF EndsWithdrawn, Lender!Next, Lender!Withdraw, Between
      <4>4. CASE EndsChosen
        BY <3>1, <3>3, <4>4 DEF EndsChosen, Before, Lender!Next, Lender!SetProxy, Between
      <4>5. CASE EndsOpen
        BY <3>1, <3>3, <4>5 DEF EndsOpen, Before, Lender!Next, Lender!Open, Between
      <4>6. CASE EndsClosed
        BY <3>1, <3>3, <4>6 DEF EndsClosed, Before, Lender!Next, Lender!Close, Between
      <4>7. QED
        BY <4>1, <4>2, <4>3, <4>4, <4>5, <4>6 DEF Ends
    <3>4. QED
      BY <3>2, <3>3
  <2>2. ASSUME NEW user \in User,
               NEW m \in Calls(user, bank[user]) \cup {Message(user, Borrower, "Callback", None, 0)},
               Submit(user, m)
        PROVE  UNCHANGED Lender!vars
    <3>1. AtRest /\ ~ AtRest' /\ saved' = Snapshot
      BY <2>2, SubmitStep
    <3>2. /\ saved'.bank[FlashLoan] = bank[FlashLoan]
          /\ saved'.requested_amount = requested_amount
          /\ saved'.proxy_addr = proxy_addr
      BY <3>1 DEF Snapshot
    <3>3. QED
      BY <3>1, <3>2 DEF Lender!vars, Between
  <2>3. CASE UNCHANGED vars
    BY <2>3 DEF vars, chain, Lender!vars, Between, AtRest
  <2>4. QED
    BY <2>1, <2>2, <2>3 DEF Next
<1>3. QED
  BY <1>1, <1>2, LoanInvariant, PTL DEF Spec, ImplementsAtomicLoan, Lender!Spec
=============================================================================
