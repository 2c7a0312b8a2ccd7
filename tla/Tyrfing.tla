------------------------------- MODULE Tyrfing -------------------------------
(***************************************************************************)
(* ctf-07, Tyrfing: a vault that remembers its top depositor, who is       *)
(* whoever took a balance above the threshold last.  OWNER and             *)
(* TOP_DEPOSITOR are two items with the same storage key, so they are one  *)
(* cell with two readers: address.                                         *)
(***************************************************************************)
EXTENDS Vault

CONSTANT FirstThreshold     \* the threshold it is instantiated with

ASSUME ThresholdAssumption == FirstThreshold \in 0..MaxBalance

VARIABLES
    address,        \* OWNER and TOP_DEPOSITOR
    threshold,      \* THRESHOLD
    config,         \* history: the threshold last configured, and by whom
    peak            \* history: per account, the highest balance that a deposit
                    \* made since then

roles == <<address, threshold, config, peak>>
tyrfingVars == <<vaultVars, roles>>

TyrfingTypeOK ==
    /\ VaultTypeOK
    /\ address \in Account
    /\ threshold \in 0..MaxBalance
    /\ config \in [threshold : 0..MaxBalance, owner : Account]
    /\ peak \in [Account -> 0..MaxBalance]

Configured(owner, new_threshold) ==
    /\ threshold' = new_threshold
    /\ config' = [threshold |-> new_threshold, owner |-> owner]
    /\ peak' = [a \in Account |-> 0]

TyrfingInit ==
    /\ VaultInit
    /\ address = FirstOwner
    /\ threshold = FirstThreshold
    /\ config = [threshold |-> FirstThreshold, owner |-> FirstOwner]
    /\ peak = [a \in Account |-> 0]

-----------------------------------------------------------------------------
\* What is compared with the threshold.  (Mutated form: the deposit alone.)
Contender_Deposit(sender, amount) == amount
Contender(sender, amount) == balances[sender] + amount

\* The threshold follows the top depositor.
Raised(balance) == balance

\* (Mutated form: a tie will do.)
Exceeds_Ties(sender, amount) == Contender(sender, amount) >= threshold
Exceeds(sender, amount) == Contender(sender, amount) > threshold

\* Whoever exceeds the threshold is saved as top depositor, and so as owner.
TyrfingDeposit(sender, amount) ==
    /\ VaultDeposit(sender, amount)
    /\ IF Exceeds(sender, amount)
       THEN threshold' = Raised(Contender(sender, amount)) /\ address' = sender
       ELSE UNCHANGED <<threshold, address>>
    /\ peak' = [peak EXCEPT ![sender] =
            IF @ < balances'[sender] THEN balances'[sender] ELSE @]
    /\ UNCHANGED config

TyrfingWithdraw(sender, amount) == VaultWithdraw(sender, amount) /\ UNCHANGED roles

UpdateConfig(sender, new_threshold) ==
    /\ address = sender
    /\ Configured(sender, new_threshold)
    /\ UNCHANGED <<vaultVars, address>>

TyrfingHandle(sender) ==
    \/ \E amount \in 1..bank[sender] : TyrfingDeposit(sender, amount)
    \/ \E amount \in 1..MaxBalance : TyrfingWithdraw(sender, amount)
    \/ \E new_threshold \in 0..MaxBalance : UpdateConfig(sender, new_threshold)

TyrfingOwnerAction(sender) ==
    /\ address = sender
    /\ \/ /\ \E to \in User, amount \in 1..bank[Contract] : VaultSpend(to, amount)
          /\ UNCHANGED roles
       \/ TyrfingHandle(Contract)

TyrfingNext == \E user \in User : TyrfingHandle(user) \/ TyrfingOwnerAction(user)

TyrfingSpec == TyrfingInit /\ [][TyrfingNext]_tyrfingVars

-----------------------------------------------------------------------------
\* No deposit since the threshold was configured reached more than the threshold is
\* now, through withdrawals and deposits in between; and the address is of whoever
\* configured it until a deposit exceeds it, then of whoever reached the highest.
TopDepositorRanked ==
    /\ \A a \in Account : peak[a] <= threshold
    /\ IF threshold = config.threshold
       THEN address = config.owner
       ELSE peak[address] = threshold

\* Types, and the ranking of the depositors.
RankingOK == TyrfingTypeOK /\ TopDepositorRanked

\* The role passes only upwards: to a sender whose deposit took it strictly above
\* every balance that a deposit made since the threshold was configured.
RolePassesUpwards ==
    [][address' # address => \A a \in Account : peak[a] < balances'[address']]_tyrfingVars
=============================================================================
