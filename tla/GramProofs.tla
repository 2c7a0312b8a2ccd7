----------------------------- MODULE GramProofs -----------------------------
(***************************************************************************)
(* Theorems about Gram for every set of users and every endowment.  They   *)
(* rest on one arithmetic fact, that multiply_ratio rounds down, on the    *)
(* invariant that there are never more shares than coins, and on the sums  *)
(* of BankProofs.                                                          *)
(***************************************************************************)
EXTENDS Gram, BankProofs

\* multiply_ratio is the largest natural number whose product with the denominator
\* does not exceed the product it divides.
LEMMA MultiplyRatioFloor ==
    ASSUME NEW x \in Nat, NEW n \in Nat, NEW d \in Nat, d > 0
    PROVE  /\ MultiplyRatio(x, n, d) \in Nat
           /\ MultiplyRatio(x, n, d) * d <= x * n
           /\ x * n < (MultiplyRatio(x, n, d) + 1) * d
<1> DEFINE p == x * n
<1>1. p \in Nat
  OBVIOUS
<1> HIDE DEF p
<1>2. /\ p \div d \in Nat
      /\ (p \div d) * d <= p
      /\ p < ((p \div d) + 1) * d
  BY <1>1, SMT
<1>3. QED
  BY <1>2 DEF MultiplyRatio, p

\* What a mint does to the vault: the deposit comes in, and the shares that go
\* out are worth no more than the deposit.
LEMMA MintStep ==
    ASSUME TypeOK, NEW user \in User, NEW amount \in 1..bank[user],
           Mint(user, amount)
    PROVE  /\ amount \in Nat /\ amount > 0
           /\ SharesFor(amount) \in Nat /\ SharesFor(amount) > 0
           /\ total_supply = 0 => SharesFor(amount) = amount
           /\ total_supply > 0
                => /\ SharesFor(amount) * bank[Vault] <= amount * total_supply
                   /\ amount * total_supply < (SharesFor(amount) + 1) * bank[Vault]
           /\ total_supply' = total_supply + SharesFor(amount)
           /\ bank'[Vault] = bank[Vault] + amount
           /\ TypeOK'
<1>1. user # Vault /\ user \in Account /\ Vault \in Account
  BY VaultAssumption DEF Account
<1>2. bank[user] \in Nat /\ bank[Vault] \in Nat /\ total_supply \in Nat
  BY <1>1 DEF TypeOK
<1>3. amount \in Nat /\ amount > 0 /\ amount <= bank[user]
  BY <1>2
<1>4. total_supply = 0 => SharesFor(amount) = amount
  BY DEF SharesFor
<1>5. total_supply > 0 =>
        /\ SharesFor(amount) \in Nat
        /\ SharesFor(amount) * bank[Vault] <= amount * total_supply
        /\ amount * total_supply < (SharesFor(amount) + 1) * bank[Vault]
  <2> SUFFICES ASSUME total_supply > 0
               PROVE  /\ SharesFor(amount) \in Nat
                      /\ SharesFor(amount) * bank[Vault] <= amount * total_supply
                      /\ amount * total_supply < (SharesFor(amount) + 1) * bank[Vault]
    OBVIOUS
  <2>1. bank[Vault] > 0
    BY <1>2 DEF Mint, MintPanics
  <2>2. SharesFor(amount) = MultiplyRatio(amount, total_supply, bank[Vault])
    BY <1>2 DEF SharesFor
  <2>3. /\ MultiplyRatio(amount, total_supply, bank[Vault]) \in Nat
        /\ MultiplyRatio(amount, total_supply, bank[Vault]) * bank[Vault]
             <= amount * total_supply
        /\ amount * total_supply
             < (MultiplyRatio(amount, total_supply, bank[Vault]) + 1) * bank[Vault]
    BY <1>2, <1>3, <2>1, MultiplyRatioFloor
  <2>4. QED
    BY <2>2, <2>3, Zenon
<1>6. SharesFor(amount) \in Nat
  BY <1>2, <1>3, <1>4, <1>5
<1>7. /\ bank' \in [Account -> Nat]
      /\ bank'[Vault] = bank[Vault] + amount
  BY <1>1, <1>3, SentBank DEF Mint, TypeOK
<1>8. /\ SharesFor(amount) > 0
      /\ total_supply' = total_supply + SharesFor(amount)
      /\ balances' \in [User -> Nat]
  BY <1>6 DEF Mint, Credited, TypeOK
<1>9. QED
  BY <1>2, <1>3, <1>4, <1>5, <1>6, <1>7, <1>8 DEF TypeOK

\* What a burn does to the vault: the shares come back, and the coins that go
\* out are worth no more than the shares.
LEMMA BurnStep ==
    ASSUME TypeOK, NEW user \in User, NEW shares \in 1..(total_supply + 1),
           Burn(user, shares)
    PROVE  /\ shares \in Nat /\ shares > 0 /\ shares <= total_supply
           /\ AssetsFor(shares) \in Nat /\ AssetsFor(shares) > 0
           /\ AssetsFor(shares) <= bank[Vault]
           /\ AssetsFor(shares) * total_supply <= shares * bank[Vault]
           /\ shares * bank[Vault] < (AssetsFor(shares) + 1) * total_supply
           /\ total_supply' = total_supply - shares
           /\ bank'[Vault] = bank[Vault] - AssetsFor(shares)
           /\ TypeOK'
<1>1. user # Vault /\ user \in Account /\ Vault \in Account
  BY VaultAssumption DEF Account
<1>2. bank[Vault] \in Nat /\ total_supply \in Nat /\ total_supply > 0
  BY <1>1 DEF TypeOK, Burn
<1>3. shares \in Nat /\ shares > 0 /\ shares <= total_supply
  BY <1>2 DEF Burn, HasShares
<1>4. /\ AssetsFor(shares) \in Nat
      /\ AssetsFor(shares) * total_supply <= shares * bank[Vault]
      /\ shares * bank[Vault] < (AssetsFor(shares) + 1) * total_supply
  BY <1>2, <1>3, MultiplyRatioFloor DEF AssetsFor
<1>5. AssetsFor(shares) > 0 /\ AssetsFor(shares) <= bank[Vault]
  BY DEF Burn, CanSend
<1>6. /\ bank' \in [Account -> Nat]
      /\ bank'[Vault] = bank[Vault] - AssetsFor(shares)
  BY <1>1, <1>4, <1>5, SentBank DEF Burn, TypeOK
<1>7. /\ total_supply' = total_supply - shares
      /\ balances' \in [User -> Nat]
  BY <1>3 DEF Burn, HasShares, TypeOK
<1>8. QED
  BY <1>2, <1>3, <1>4, <1>5, <1>6, <1>7 DEF TypeOK

\* What a donation does to the vault: coins come in for nothing.
LEMMA DonateStep ==
    ASSUME TypeOK, NEW user \in User, NEW amount \in 1..bank[user],
           Donate(user, amount)
    PROVE  /\ amount \in Nat /\ amount > 0
           /\ total_supply' = total_supply
           /\ bank'[Vault] = bank[Vault] + amount
           /\ TypeOK'
<1>1. user # Vault /\ user \in Account /\ Vault \in Account
  BY VaultAssumption DEF Account
<1>2. amount \in Nat /\ amount > 0 /\ amount <= bank[user]
  BY <1>1 DEF TypeOK
<1>3. QED
  BY <1>1, <1>2, SentBank DEF Donate, TypeOK

-----------------------------------------------------------------------------
\* The inductive invariant: the types, and never more shares than coins.
IInv == TypeOK /\ SupplyBacked

\* Shares that are worth no more than the coins paid keep the supply backed.
LEMMA BackedByMint ==
    ASSUME NEW s \in Nat, NEW a \in Nat, NEW m \in Nat, NEW n \in Nat,
           s > 0, s <= a, m * a <= n * s
    PROVE  m <= n
<1>1. n * s <= n * a
  OBVIOUS
<1>2. m * a <= n * a
  <2>1. m * a \in Nat /\ n * s \in Nat /\ n * a \in Nat
    OBVIOUS
  <2>2. QED
    BY <2>1, <1>1
<1>3. QED
  BY <1>2

\* Coins that are worth no more than the shares burnt keep the rest backed.
LEMMA BackedByBurn ==
    ASSUME NEW s \in Nat, NEW a \in Nat, NEW n \in Nat, NEW r \in Nat,
           s > 0, s <= a, n <= s, r * s <= n * a
    PROVE  s - n <= a - r
<1> DEFINE k == s - n
<1>1. k \in Nat /\ n = s - k
  OBVIOUS
<1>2. (s - k) * a = s * a - k * a
  BY <1>1
<1>3. k * s <= k * a
  BY <1>1
<1>4. r * s <= s * a - k * a
  BY <1>1, <1>2
<1>5. (r + k) * s <= a * s
  <2>1. (r + k) * s = r * s + k * s
    BY <1>1
  <2>2. s * a = a * s
    OBVIOUS
  <2>3. r * s \in Int /\ k * s \in Int /\ s * a \in Int /\ k * a \in Int
    BY <1>1
  <2>4. QED
    BY <2>1, <2>2, <2>3, <1>3, <1>4
<1>6. r + k <= a
  BY <1>1, <1>5
<1>7. QED
  BY <1>1, <1>6

LEMMA InvNext == IInv /\ [Next]_vars => IInv'
<1> SUFFICES ASSUME IInv, [Next]_vars
             PROVE  IInv'
  OBVIOUS
<1> USE DEF IInv
<1>0. Vault \in Account
  BY DEF Account
<1>1. bank[Vault] \in Nat /\ total_supply \in Nat /\ total_supply <= bank[Vault]
  BY <1>0 DEF TypeOK, SupplyBacked
<1>2. ASSUME NEW user \in User, NEW amount \in 1..bank[user], Mint(user, amount)
      PROVE  IInv'
  <2>1. SharesFor(amount) <= amount
    <3>1. CASE total_supply = 0
      BY <3>1, <1>2, MintStep
    <3>2. CASE total_supply > 0
      BY <3>2, <1>1, <1>2, MintStep, BackedByMint
    <3>3. QED
      BY <1>1, <3>1, <3>2
  <2>2. QED
    BY <1>1, <1>2, <2>1, MintStep DEF SupplyBacked
<1>3. ASSUME NEW user \in User, NEW shares \in 1..(total_supply + 1), Burn(user, shares)
      PROVE  IInv'
  <2>1. total_supply > 0
    BY <1>1, <1>3 DEF Burn
  <2>2. total_supply - shares <= bank[Vault] - AssetsFor(shares)
    BY <1>1, <1>3, <2>1, BurnStep, BackedByBurn
  <2>3. QED
    BY <1>3, <2>2, BurnStep DEF SupplyBacked
<1>4. ASSUME NEW user \in User, NEW amount \in 1..bank[user], Donate(user, amount)
      PROVE  IInv'
  BY <1>1, <1>4, DonateStep DEF SupplyBacked
<1>5. CASE UNCHANGED vars
  BY <1>5 DEF vars, TypeOK, SupplyBacked
<1>6. QED
  BY <1>2, <1>3, <1>4, <1>5 DEF Next

LEMMA InvInit == Init => IInv
BY BankAssumption DEF Init, IInv, TypeOK, SupplyBacked, Account

LEMMA Invariant == Spec => []IInv
BY InvInit, InvNext, PTL DEF Spec

\* The state of the contract and of the bank keeps its types: no subtraction of
\* mint, burn or the bank goes below zero.
THEOREM TypeCorrect == Spec => []TypeOK
<1>1. IInv => TypeOK
  BY DEF IInv
<1>2. QED
  BY <1>1, Invariant, PTL

\* There are never more shares than coins in the vault, for any number of users
\* and any endowment.
THEOREM SupplyAlwaysBacked == Spec => []SupplyBacked
<1>1. IInv => SupplyBacked
  BY DEF IInv
<1>2. QED
  BY <1>1, Invariant, PTL

\* The division of mint is never by zero, so mint never panics.
THEOREM MintNeverPanics == Spec => [](~ MintPanics)
<1>1. IInv => ~ MintPanics
  BY DEF IInv, TypeOK, SupplyBacked, MintPanics, Account
<1>2. QED
  BY <1>1, Invariant, PTL
-----------------------------------------------------------------------------
\* The price of a share never falls: rounding is always in favour of the vault.
THEOREM RateProved == Spec => RateNeverFalls
<1> DEFINE A == /\ total_supply > 0
                /\ total_supply' > 0
                => bank'[Vault] * total_supply >= bank[Vault] * total_supply'
<1>1. IInv /\ [Next]_vars => [A]_vars
  <2> SUFFICES ASSUME IInv, Next, total_supply > 0
               PROVE  bank'[Vault] * total_supply >= bank[Vault] * total_supply'
    OBVIOUS
  <2>1. bank[Vault] \in Nat /\ total_supply \in Nat
    BY DEF IInv, TypeOK, Account
  <2>2. ASSUME NEW user \in User, NEW amount \in 1..bank[user], Mint(user, amount)
        PROVE  bank'[Vault] * total_supply >= bank[Vault] * total_supply'
    <3> DEFINE m == SharesFor(amount)
    <3>1. /\ amount \in Nat /\ m \in Nat
          /\ m * bank[Vault] <= amount * total_supply
          /\ total_supply' = total_supply + m
          /\ bank'[Vault] = bank[Vault] + amount
      BY <2>2, MintStep DEF IInv
    <3> HIDE DEF m
    <3>2. QED
      BY <2>1, <3>1
  <2>3. ASSUME NEW user \in User, NEW shares \in 1..(total_supply + 1), Burn(user, shares)
        PROVE  bank'[Vault] * total_supply >= bank[Vault] * total_supply'
    <3> DEFINE r == AssetsFor(shares)
    <3>1. /\ shares \in Nat /\ r \in Nat
          /\ r * total_supply <= shares * bank[Vault]
          /\ total_supply' = total_supply - shares
          /\ bank'[Vault] = bank[Vault] - r
      BY <2>3, BurnStep DEF IInv
    <3> HIDE DEF r
    <3>2. QED
      BY <2>1, <3>1
  <2>4. ASSUME NEW user \in User, NEW amount \in 1..bank[user], Donate(user, amount)
        PROVE  bank'[Vault] * total_supply >= bank[Vault] * total_supply'
    <3>1. /\ amount \in Nat
          /\ total_supply' = total_supply
          /\ bank'[Vault] = bank[Vault] + amount
      BY <2>4, DonateStep DEF IInv
    <3>2. QED
      BY <2>1, <3>1
  <2>5. QED
    BY <2>2, <2>3, <2>4 DEF Next
<1>2. QED
  BY <1>1, Invariant, PTL DEF Spec, RateNeverFalls

\* The contract implements the fair vault: every mint is an Enter, every burn a
\* Leave and every donation a Gift.
THEOREM Refinement == Spec => ImplementsFairVault
<1>1. Init => Promise!Init
  BY BankAssumption DEF Init, Promise!Init, Account
<1>2. IInv /\ [Next]_vars => [Promise!Next]_(Promise!vars)
  <2> SUFFICES ASSUME IInv, [Next]_vars
               PROVE  [Promise!Next]_(Promise!vars)
    OBVIOUS
  <2>1. bank[Vault] \in Nat /\ total_supply \in Nat
    BY DEF IInv, TypeOK, Account
  <2>2. bank'[Vault] \in Nat /\ total_supply' \in Nat
    BY InvNext DEF IInv, TypeOK, Account
  <2>3. ASSUME NEW user \in User, NEW amount \in 1..bank[user], Mint(user, amount)
        PROVE  Promise!Enter
    <3> DEFINE m == SharesFor(amount)
    <3>1. /\ amount \in Nat /\ amount > 0 /\ m \in Nat /\ m > 0
          /\ total_supply = 0 => m = amount
          /\ total_supply > 0 => /\ m * bank[Vault] <= amount * total_supply
                                 /\ amount * total_supply < (m + 1) * bank[Vault]
          /\ total_supply' = total_supply + m
          /\ bank'[Vault] = bank[Vault] + amount
      BY <2>3, MintStep DEF IInv
    <3> HIDE DEF m
    <3>2. total_supply' - total_supply = m /\ bank'[Vault] - bank[Vault] = amount
      BY <2>1, <3>1
    <3>3. QED
      BY <2>1, <2>2, <3>1, <3>2 DEF Promise!Enter, Promise!RoundedDown
  <2>4. ASSUME NEW user \in User, NEW shares \in 1..(total_supply + 1), Burn(user, shares)
        PROVE  Promise!Leave
    <3> DEFINE r == AssetsFor(shares)
    <3>1. /\ shares \in Nat /\ shares > 0 /\ r \in Nat /\ r > 0
          /\ r * total_supply <= shares * bank[Vault]
          /\ shares * bank[Vault] < (r + 1) * total_supply
          /\ total_supply' = total_supply - shares
          /\ bank'[Vault] = bank[Vault] - r
      BY <2>4, BurnStep DEF IInv
    <3> HIDE DEF r
    <3>2. total_supply - total_supply' = shares /\ bank[Vault] - bank'[Vault] = r
      BY <2>1, <3>1
    <3>3. QED
      BY <2>1, <2>2, <3>1, <3>2 DEF Promise!Leave, Promise!RoundedDown
  <2>5. ASSUME NEW user \in User, NEW amount \in 1..bank[user], Donate(user, amount)
        PROVE  Promise!Gift
    BY <2>1, <2>2, <2>5, DonateStep DEF Promise!Gift, IInv
  <2>6. CASE UNCHANGED vars
    BY <2>6 DEF vars, Promise!vars
  <2>7. QED
    BY <2>3, <2>4, <2>5, <2>6 DEF Next, Promise!Next
<1>3. QED
  BY <1>1, <1>2, Invariant, PTL DEF Spec, ImplementsFairVault, Promise!Spec

-----------------------------------------------------------------------------
\* A user's entry and the total change by the same amount.
LEMMA BalanceMoved ==
    ASSUME TypeOK, SupplyIsSum, NEW user \in User, NEW n \in Int,
           balances' \in [User -> Nat],
           balances' = [balances EXCEPT ![user] = @ + n],
           total_supply' = total_supply + n
    PROVE  SupplyIsSum'
<1>1. /\ \A u \in User : balances[u] \in Int /\ balances'[u] \in Int
      /\ \A u \in User \ {user} : balances'[u] = balances[u]
      /\ balances'[user] - balances[user] = n
  BY DEF TypeOK
<1>2. SumFunctionOnSet(balances', User) = SumFunctionOnSet(balances, User) + n
  <2>1. SumFunctionOnSet(balances', User) =
          SumFunctionOnSet(balances, User) + (balances'[user] - balances[user])
    <3> DEFINE old == balances new == balances'
    <3>1. /\ \A u \in User : old[u] \in Int /\ new[u] \in Int
          /\ \A u \in User \ {user} : new[u] = old[u]
      BY <1>1
    <3> HIDE DEF old, new
    <3>2. SumFunctionOnSet(new, User) =
            SumFunctionOnSet(old, User) + (new[user] - old[user])
      BY <3>1, UserAssumption, SumChange
    <3>3. QED
      BY <3>2 DEF old, new
  <2>2. QED
    BY <1>1, <2>1
<1>3. QED
  BY <1>2 DEF SupplyIsSum

LEMMA SupplyNext == TypeOK /\ TypeOK' /\ SupplyIsSum /\ [Next]_vars => SupplyIsSum'
<1> SUFFICES ASSUME TypeOK, TypeOK', SupplyIsSum, [Next]_vars
             PROVE  SupplyIsSum'
  OBVIOUS
<1>1. balances \in [User -> Nat] /\ balances' \in [User -> Nat]
  BY DEF TypeOK
<1>2. ASSUME NEW user \in User, NEW amount \in 1..bank[user], Mint(user, amount)
      PROVE  SupplyIsSum'
  <2>1. SharesFor(amount) \in Int
    BY <1>2, MintStep
  <2>2. balances' = [balances EXCEPT ![user] = @ + SharesFor(amount)]
        /\ total_supply' = total_supply + SharesFor(amount)
    BY <1>2 DEF Mint, Credited
  <2>3. QED
    BY <1>1, <2>1, <2>2, BalanceMoved
<1>3. ASSUME NEW user \in User, NEW shares \in 1..(total_supply + 1), Burn(user, shares)
      PROVE  SupplyIsSum'
  <2> DEFINE n == 0 - shares
  <2>1. n \in Int /\ shares \in Int
    BY DEF TypeOK
  <2>2. balances' = [balances EXCEPT ![user] = @ - shares]
        /\ total_supply' = total_supply - shares
    BY <1>3 DEF Burn
  <2>3. balances[user] - shares = balances[user] + n
        /\ total_supply - shares = total_supply + n
    BY <1>1, <2>1 DEF TypeOK
  <2>4. balances' = [balances EXCEPT ![user] = @ + n]
        /\ total_supply' = total_supply + n
    BY <2>2, <2>3
  <2> HIDE DEF n
  <2>5. QED
    BY <1>1, <2>1, <2>4, BalanceMoved
<1>4. ASSUME UNCHANGED <<balances, total_supply>>
      PROVE  SupplyIsSum'
  BY <1>4 DEF SupplyIsSum
<1>5. QED
  BY <1>2, <1>3, <1>4 DEF Next, Donate, vars

LEMMA SupplyInit == Init => SupplyIsSum
<1> SUFFICES ASSUME Init PROVE SupplyIsSum
  OBVIOUS
<1>1. \A u \in User : balances[u] = 0
  BY DEF Init
<1>2. SumFunctionOnSet(balances, User) = 0
  BY <1>1, UserAssumption, SumZero
<1>3. QED
  BY <1>2 DEF Init, SupplyIsSum

\* Each claim, times the supply, is at most the balance times the coins; so is the
\* sum of the claims, and the sum of the balances is the supply.
LEMMA SumOfClaims ==
    ASSUME TypeOK, SupplyIsSum
    PROVE  TotalClaims <= bank[Vault]
<1> DEFINE claims == [u \in User |-> Claim(u)]
<1>1. /\ bank[Vault] \in Nat /\ total_supply \in Nat
      /\ \A u \in User : balances[u] \in Nat
  BY DEF TypeOK, Account
<1>2. CASE total_supply = 0
  <2>1. \A u \in User : claims[u] = 0
    BY <1>2 DEF Claim
  <2>2. SumFunctionOnSet(claims, User) = 0
    BY <2>1, UserAssumption, SumZero
  <2>3. QED
    BY <1>1, <2>2 DEF TotalClaims
<1>3. CASE total_supply > 0
  <2>1. ASSUME NEW u \in User
        PROVE  /\ claims[u] \in Nat
               /\ claims[u] * total_supply <= balances[u] * bank[Vault]
    <3>1. claims[u] = MultiplyRatio(balances[u], bank[Vault], total_supply)
      BY <1>1, <1>3 DEF Claim, AssetsFor
    <3>2. balances[u] \in Nat
      BY <1>1
    <3>3. QED
      BY <1>1, <1>3, <3>1, <3>2, MultiplyRatioFloor
  <2>2. \A u \in User : /\ claims[u] \in Int /\ balances[u] \in Int
                        /\ claims[u] * total_supply <= balances[u] * bank[Vault]
    BY <1>1, <2>1
  <2> HIDE DEF claims
  <2>3. SumFunctionOnSet(claims, User) * total_supply
          <= SumFunctionOnSet(balances, User) * bank[Vault]
    BY <1>1, <2>2, UserAssumption, SumBound
  <2>4. SumFunctionOnSet(balances, User) = total_supply
    BY DEF SupplyIsSum
  <2>5. SumFunctionOnSet(claims, User) \in Nat
    BY <2>1, UserAssumption, SumNat
  <2>6. ASSUME NEW c \in Nat, NEW t \in Nat, NEW b \in Nat, t > 0, c * t <= t * b
        PROVE  c <= b
    BY <2>6
  <2>7. SumFunctionOnSet(claims, User) <= bank[Vault]
    BY <1>1, <1>3, <2>3, <2>4, <2>5, <2>6
  <2>8. QED
    BY <2>7 DEF TotalClaims, claims
<1>4. QED
  BY <1>1, <1>2, <1>3

\* The total is the sum of the balances, and the vault has coins for all users at
\* once, for any number of them.
THEOREM ClaimsProved == Spec => []ClaimsCovered
<1>1. Init => SupplyIsSum
  BY SupplyInit
<1>2. IInv /\ IInv' /\ SupplyIsSum /\ [Next]_vars => SupplyIsSum'
  BY SupplyNext DEF IInv
<1>3. IInv /\ SupplyIsSum => ClaimsCovered
  BY SumOfClaims DEF IInv, ClaimsCovered
<1>4. QED
  BY <1>1, <1>2, <1>3, Invariant, PTL DEF Spec
=============================================================================
