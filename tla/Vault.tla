-------------------------------- MODULE Vault --------------------------------
(***************************************************************************)
(* What ctf-05 and ctf-07 have in common, handler by handler: a vault that *)
(* accounts for deposits and lets its owner run any message.  An owner's   *)
(* message may pay coins out, or call the contract itself, whose handlers  *)
(* then see the contract as the sender.                                    *)
(***************************************************************************)
EXTENDS Depository

CONSTANTS
    FirstOwner,     \* the owner it is instantiated with
    MaxBalance      \* the largest Uint128

ASSUME OwnerAssumption == FirstOwner \in Account
ASSUME BalanceAssumption == MaxBalance \in Nat

VARIABLES
    balances,       \* BALANCES
    spent           \* history: coins that messages of the owner paid out

vaultVars == <<bank, balances, spent>>

VaultTypeOK ==
    /\ bank \in [Account -> Nat]
    /\ balances \in [Account -> 0..MaxBalance]
    /\ spent \in Nat

VaultInit ==
    /\ bank = InitialBank
    /\ balances = [a \in Account |-> 0]
    /\ spent = 0

-----------------------------------------------------------------------------
\* (Mutated form: a second deposit forgets the first.)
Credited_Overwrites(sender, amount) == [balances EXCEPT ![sender] = amount]
Credited(sender, amount) == [balances EXCEPT ![sender] = @ + amount]

\* A deposit of the contract from itself is credited though no coin arrives.
VaultDeposit(sender, amount) ==
    /\ CanSend(bank, sender, amount)
    /\ balances[sender] + amount <= MaxBalance
    /\ balances' = Credited(sender, amount)
    /\ bank' = Sent(bank, sender, Contract, amount)
    /\ UNCHANGED spent

HasBalance(sender, amount) == amount <= balances[sender]

Debited(sender, amount) == [balances EXCEPT ![sender] = @ - amount]

VaultWithdraw(sender, amount) ==
    /\ HasBalance(sender, amount)
    /\ CanSend(bank, Contract, amount)
    /\ balances' = Debited(sender, amount)
    /\ bank' = Sent(bank, Contract, sender, amount)
    /\ UNCHANGED spent

\* An owner's message that pays coins of the contract to somebody.
VaultSpend(to, amount) ==
    /\ CanSend(bank, Contract, amount)
    /\ bank' = Sent(bank, Contract, to, amount)
    /\ spent' = spent + amount
    /\ UNCHANGED balances

-----------------------------------------------------------------------------
\* Deposits of users are kept like deposits, but for what the owner's messages paid
\* out: no message changes what a user is owed, not even one by which the contract
\* deposits with itself.
Deposits == INSTANCE Custody WITH
    Depositor <- User,
    held <- bank[Contract] + spent,
    credit <- [u \in User |-> balances[u]]

VaultImplementsCustody == Deposits!Spec
=============================================================================
