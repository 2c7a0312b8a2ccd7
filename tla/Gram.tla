-------------------------------- MODULE Gram --------------------------------
(***************************************************************************)
(* ctf-04, Gram: a vault that mints shares for coins and burns them for    *)
(* coins, at the ratio of its own bank balance to the shares outstanding.  *)
(* Every transaction is one step: a handler that returns an error or       *)
(* panics leaves no trace, so it is a step that cannot be taken.           *)
(***************************************************************************)
EXTENDS Bank, FiniteSets, Functions

CONSTANTS
    User,           \* addresses that call the contract
    Vault,          \* the address of the contract
    InitialBank     \* the coins everybody owns when it is instantiated

Account == User \cup {Vault}

ASSUME UserAssumption == IsFiniteSet(User)
ASSUME VaultAssumption == Vault \notin User
ASSUME BankAssumption == InitialBank \in [Account -> Nat]

VARIABLES
    bank,           \* coins of every account
    total_supply,   \* CONFIG.total_supply
    balances        \* BALANCES, zero for an address with no entry

vars == <<bank, total_supply, balances>>

TypeOK ==
    /\ bank \in [Account -> Nat]
    /\ total_supply \in Nat
    /\ balances \in [User -> Nat]

\* Uint128::multiply_ratio: the product is not truncated, the quotient is.
MultiplyRatio(x, numerator, denominator) == (x * numerator) \div denominator

Init ==
    /\ bank = InitialBank
    /\ total_supply = 0
    /\ balances = [u \in User |-> 0]

\* The bank has credited the deposit before the handler runs, so the handler
\* takes it off again: the ratio is that of the vault before the deposit.
\* (Mutated forms: the balance with the deposit still in it; the ratio the other way
\* round.)
SharesFor_Stale(amount) ==
    IF total_supply = 0 THEN amount
    ELSE MultiplyRatio(amount, total_supply, bank[Vault] + amount)
SharesFor_Swapped(amount) ==
    IF total_supply = 0 THEN amount
    ELSE MultiplyRatio(amount, bank[Vault], total_supply)
SharesFor(amount) ==
    IF total_supply = 0 THEN amount
    ELSE MultiplyRatio(amount, total_supply, bank[Vault])

\* The entry of a user is read before the shares are added to it.
\* (Mutated form: the entry is overwritten.)
Credited_Overwrites(user, shares) == [balances EXCEPT ![user] = shares]
Credited(user, shares) == [balances EXCEPT ![user] = @ + shares]

\* multiply_ratio panics when the vault has shares and no assets.
MintPanics == total_supply # 0 /\ bank[Vault] = 0

Mint(user, amount) ==
    /\ CanSend(bank, user, amount)
    /\ ~ MintPanics
    /\ SharesFor(amount) > 0
    /\ total_supply' = total_supply + SharesFor(amount)
    /\ balances' = Credited(user, SharesFor(amount))
    /\ bank' = Sent(bank, user, Vault, amount)

\* (Mutated form: rounded up.)
AssetsFor_Up(shares) == (shares * bank[Vault] + total_supply - 1) \div total_supply
AssetsFor(shares) == MultiplyRatio(shares, bank[Vault], total_supply)

\* Both subtractions are checked.
\* (Mutated form: only the one from the total.)
HasShares_InTotal(user, shares) == shares <= total_supply
HasShares(user, shares) == shares <= total_supply /\ shares <= balances[user]

\* The payment must be possible too.
Burn(user, shares) ==
    /\ total_supply # 0
    /\ AssetsFor(shares) > 0
    /\ HasShares(user, shares)
    /\ CanSend(bank, Vault, AssetsFor(shares))
    /\ total_supply' = total_supply - shares
    /\ balances' = [balances EXCEPT ![user] = @ - shares]
    /\ bank' = Sent(bank, Vault, user, AssetsFor(shares))

\* A plain bank transfer to the vault: no handler runs.
Donate(user, amount) ==
    /\ CanSend(bank, user, amount)
    /\ bank' = Sent(bank, user, Vault, amount)
    /\ UNCHANGED <<total_supply, balances>>

\* A user may ask to burn more than there is: total_supply + 1 stands for it.
Next ==
    \E user \in User :
        \/ \E amount \in 1..bank[user] : Mint(user, amount)
        \/ \E shares \in 1..(total_supply + 1) : Burn(user, shares)
        \/ \E amount \in 1..bank[user] : Donate(user, amount)

Spec == Init /\ [][Next]_vars

-----------------------------------------------------------------------------
\* Every share stands for at least one coin of the vault: the floor in
\* SharesFor, the floor in Burn and donations in between never add up to more
\* shares than coins.  It is why the division in mint never panics.
SupplyBacked == total_supply <= bank[Vault]

\* total_supply is the sum of all balances: two stores updated by two saves.
SupplyIsSum == total_supply = SumFunctionOnSet(balances, User)

\* What a user would be paid for all the shares the user holds.
Claim(u) == IF total_supply = 0 THEN 0 ELSE AssetsFor(balances[u])
TotalClaims == SumFunctionOnSet([u \in User |-> Claim(u)], User)

\* The vault could pay everybody: the shares are accounted for, and if all users burnt
\* theirs, whatever the order, there would be coins for all.
ClaimsCovered == SupplyIsSum /\ TotalClaims <= bank[Vault]

\* The price of a share, bank[Vault] / total_supply, never falls while shares
\* exist, whatever mints, burns and donations follow each other.
RateNeverFalls ==
    [][total_supply > 0 /\ total_supply' > 0
        => bank'[Vault] * total_supply >= bank[Vault] * total_supply']_vars

Promise == INSTANCE FairVault WITH assets <- bank[Vault], supply <- total_supply

\* The contract implements the fair vault: a mint gives all the shares that the coins
\* are worth at the ratio before the deposit, and a burn all the coins.
ImplementsFairVault == Promise!Spec
=============================================================================
