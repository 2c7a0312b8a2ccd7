---------------------------- MODULE CustodyProofs ----------------------------
(***************************************************************************)
(* Theorems about the contracts that keep deposits of one denomination:    *)
(* Draupnir and Tyrfing, which share a vault, Gungnir and Mjolnir, which   *)
(* lock what they keep.  They are about one contract each, for every set   *)
(* of users, every endowment and every value of its constants.             *)
(***************************************************************************)
EXTENDS Draupnir, Tyrfing, Gungnir, Mjolnir, BankProofs

\* The addresses the transfers are between.
LEMMA Addresses ==
    /\ Contract \in Account /\ User \subseteq Account
    /\ \A u \in User : u \in Account /\ u # Contract
BY ContractAssumption DEF Account

\* What a transfer between accounts does, as BankProofs says of any set of accounts.
LEMMA Transfer ==
    ASSUME NEW b \in [Account -> Nat], NEW f \in Account, NEW t \in Account,
           NEW n \in Nat, n <= b[f]
    PROVE  /\ Sent(b, f, t, n) \in [Account -> Nat]
           /\ f = t => Sent(b, f, t, n) = b
           /\ f # t => /\ Sent(b, f, t, n)[f] = b[f] - n
                       /\ Sent(b, f, t, n)[t] = b[t] + n
           /\ \A a \in Account \ {f, t} : Sent(b, f, t, n)[a] = b[a]
BY SentBank

-----------------------------------------------------------------------------
\* The vault that Draupnir and Tyrfing share.

\* What the handlers of the vault do to its coins and its books.
LEMMA VaultDepositStep ==
    ASSUME VaultTypeOK, NEW sender \in Account, NEW amount \in 1..bank[sender],
           VaultDeposit(sender, amount)
    PROVE  /\ VaultTypeOK'
           /\ amount \in Nat /\ amount > 0
           /\ balances[sender] + amount \in 0..MaxBalance
           /\ balances' = [balances EXCEPT ![sender] = @ + amount]
           /\ spent' = spent
           /\ sender = Contract => bank' = bank
           /\ sender # Contract => bank'[Contract] = bank[Contract] + amount
<1>1. bank[sender] \in Nat /\ amount \in Nat /\ amount > 0
  BY DEF VaultTypeOK
<1>2. /\ amount <= bank[sender]
      /\ bank' = Sent(bank, sender, Contract, amount)
      /\ balances' = [balances EXCEPT ![sender] = @ + amount]
      /\ balances[sender] + amount <= MaxBalance
      /\ spent' = spent
  BY DEF VaultDeposit, Credited, CanSend
<1>3. /\ bank' \in [Account -> Nat]
      /\ sender = Contract => bank' = bank
      /\ sender # Contract => bank'[Contract] = bank[Contract] + amount
  BY <1>1, <1>2, Addresses, Transfer DEF VaultTypeOK
<1>4. balances[sender] + amount \in 0..MaxBalance
  BY <1>1, <1>2, BalanceAssumption DEF VaultTypeOK
<1>5. balances' \in [Account -> 0..MaxBalance]
  BY <1>2, <1>4 DEF VaultTypeOK
<1>6. QED
  BY <1>1, <1>2, <1>3, <1>4, <1>5 DEF VaultTypeOK

LEMMA VaultWithdrawStep ==
    ASSUME VaultTypeOK, NEW sender \in Account, NEW amount \in 1..MaxBalance,
           VaultWithdraw(sender, amount)
    PROVE  /\ VaultTypeOK'
           /\ amount \in Nat /\ amount > 0
           /\ amount <= balances[sender]
           /\ balances' = [balances EXCEPT ![sender] = @ - amount]
           /\ spent' = spent
           /\ sender = Contract => bank' = bank
           /\ sender # Contract => bank'[Contract] = bank[Contract] - amount
<1>1. amount \in Nat /\ amount > 0
  BY BalanceAssumption
<1>2. /\ amount <= bank[Contract]
      /\ bank' = Sent(bank, Contract, sender, amount)
      /\ balances' = [balances EXCEPT ![sender] = @ - amount]
      /\ amount <= balances[sender]
      /\ spent' = spent
  BY DEF VaultWithdraw, HasBalance, Debited, CanSend
<1>3. /\ bank' \in [Account -> Nat]
      /\ sender = Contract => bank' = bank
      /\ sender # Contract => bank'[Contract] = bank[Contract] - amount
  <2>1. bank \in [Account -> Nat] /\ Contract \in Account
    BY Addresses DEF VaultTypeOK
  <2>2. QED
    BY <1>1, <1>2, <2>1, Transfer
<1>4. balances[sender] - amount \in 0..MaxBalance
  BY <1>1, <1>2, BalanceAssumption DEF VaultTypeOK
<1>5. balances' \in [Account -> 0..MaxBalance]
  BY <1>2, <1>4 DEF VaultTypeOK
<1>6. QED
  BY <1>1, <1>2, <1>3, <1>5 DEF VaultTypeOK

LEMMA VaultSpendStep ==
    ASSUME VaultTypeOK, NEW to \in User, NEW amount \in 1..bank[Contract],
           VaultSpend(to, amount)
    PROVE  /\ VaultTypeOK'
           /\ balances' = balances
           /\ bank'[Contract] + spent' = bank[Contract] + spent
<1>1. bank[Contract] \in Nat /\ amount \in Nat
  BY Addresses DEF VaultTypeOK
<1>2. /\ amount <= bank[Contract]
      /\ bank' = Sent(bank, Contract, to, amount)
      /\ spent' = spent + amount
      /\ balances' = balances
  BY DEF VaultSpend, CanSend
<1>3. bank' \in [Account -> Nat] /\ bank'[Contract] = bank[Contract] - amount
  BY <1>1, <1>2, Addresses, ContractAssumption, Transfer DEF VaultTypeOK
<1>4. QED
  BY <1>1, <1>2, <1>3 DEF VaultTypeOK

\* What the users are owed, and what the contract holds for them.
VaultHeld == bank[Contract] + spent
VaultCredit == [u \in User |-> balances[u]]

LEMMA VaultCustodyStep ==
    ASSUME VaultTypeOK, VaultTypeOK', NEW sender \in Account,
           \/ \E amount \in 1..bank[sender] : VaultDeposit(sender, amount)
           \/ \E amount \in 1..MaxBalance : VaultWithdraw(sender, amount)
    PROVE  [Deposits!Next]_(Deposits!vars)
<1>1. /\ bank[Contract] \in Nat /\ bank'[Contract] \in Nat
      /\ spent \in Nat
      /\ \A u \in User : balances[u] \in Nat
  BY Addresses, BalanceAssumption DEF VaultTypeOK
<1>2. VaultHeld \in Nat
  BY <1>1 DEF VaultHeld
<1>3. CASE sender = Contract
  <2>1. bank' = bank /\ spent' = spent
    BY <1>3, VaultDepositStep, VaultWithdrawStep
  <2>2. \A u \in User : balances'[u] = balances[u]
    BY <1>3, Addresses, ContractAssumption, VaultDepositStep, VaultWithdrawStep DEF VaultTypeOK
  <2>3. QED
    BY <2>1, <2>2 DEF Deposits!vars
<1>4. ASSUME sender # Contract, NEW n \in 1..bank[sender], VaultDeposit(sender, n)
      PROVE  Deposits!PayIn(sender)
  <2>1. /\ n \in Nat /\ n > 0 /\ spent' = spent
        /\ bank'[Contract] = bank[Contract] + n
        /\ balances' = [balances EXCEPT ![sender] = @ + n]
    BY <1>4, VaultDepositStep
  <2>2. VaultHeld' \in Nat /\ VaultHeld' > VaultHeld /\ VaultHeld' - VaultHeld = n
    BY <1>1, <2>1 DEF VaultHeld
  <2>3. VaultCredit' = [VaultCredit EXCEPT ![sender] = @ + n]
    BY <1>4, <2>1, Addresses DEF VaultCredit, VaultTypeOK, Account
  <2>4. QED
    BY <2>2, <2>3 DEF Deposits!PayIn, VaultHeld, VaultCredit
<1>5. ASSUME sender # Contract, NEW n \in 1..MaxBalance, VaultWithdraw(sender, n)
      PROVE  Deposits!PayOut(sender)
  <2>1. /\ n \in Nat /\ n > 0 /\ spent' = spent
        /\ n <= balances[sender]
        /\ bank'[Contract] = bank[Contract] - n
        /\ balances' = [balances EXCEPT ![sender] = @ - n]
    BY <1>5, VaultWithdrawStep
  <2>2. VaultHeld' \in Nat /\ VaultHeld' < VaultHeld /\ VaultHeld - VaultHeld' = n
    BY <1>1, <2>1 DEF VaultHeld
  <2>3. VaultCredit' = [VaultCredit EXCEPT ![sender] = @ - n] /\ n <= VaultCredit[sender]
    BY <1>5, <2>1, Addresses DEF VaultCredit, VaultTypeOK, Account
  <2>4. QED
    BY <2>2, <2>3 DEF Deposits!PayOut, VaultHeld, VaultCredit
<1>6. sender # Contract => sender \in User
  BY DEF Account
<1>7. QED
  BY <1>3, <1>4, <1>5, <1>6 DEF Deposits!Next

-----------------------------------------------------------------------------
\* Draupnir.

\* Who may be whose owner: the part of the state the vault knows nothing of.
OwnersOK ==
    /\ current_owner \in Account
    /\ proposed_owner \in Account \cup {NoOwner}
    /\ proposer \in Account \cup {NoOwner}
    /\ ProposalOfOwner

LEMMA DraupnirHandleStep ==
    ASSUME OwnershipOK, NEW sender \in Account, DraupnirHandle(sender)
    PROVE  OwnershipOK'
<1>1. VaultTypeOK /\ OwnersOK
  BY DEF OwnershipOK, DraupnirTypeOK, OwnersOK
<1>2. ASSUME UNCHANGED ownership PROVE OwnersOK'
  BY <1>1, <1>2 DEF OwnersOK, ProposalOfOwner, ownership
<1>3. ASSUME NEW amount \in 1..bank[sender], DraupnirDeposit(sender, amount)
      PROVE  VaultTypeOK' /\ OwnersOK'
  BY <1>1, <1>2, <1>3, VaultDepositStep DEF DraupnirDeposit
<1>4. ASSUME NEW amount \in 1..MaxBalance, DraupnirWithdraw(sender, amount)
      PROVE  VaultTypeOK' /\ OwnersOK'
  BY <1>1, <1>2, <1>4, VaultWithdrawStep DEF DraupnirWithdraw
<1>5. ASSUME NEW new_owner \in Account, ProposeOwner(sender, new_owner)
      PROVE  VaultTypeOK' /\ OwnersOK'
  BY <1>1, <1>5 DEF ProposeOwner, VaultTypeOK, vaultVars, OwnersOK, ProposalOfOwner
<1>6. ASSUME AcceptOwner(sender) \/ DropOwner(sender)
      PROVE  VaultTypeOK' /\ OwnersOK'
  BY <1>1, <1>6
     DEF AcceptOwner, DropOwner, ProposalClosed, VaultTypeOK, vaultVars, OwnersOK,
         ProposalOfOwner
<1>7. VaultTypeOK' /\ OwnersOK'
  BY <1>3, <1>4, <1>5, <1>6 DEF DraupnirHandle
<1>8. QED
  BY <1>7 DEF OwnershipOK, DraupnirTypeOK, OwnersOK

LEMMA DraupnirOwnerActionStep ==
    ASSUME OwnershipOK, NEW sender \in User, DraupnirOwnerAction(sender)
    PROVE  OwnershipOK'
<1>1. CASE DraupnirHandle(Contract)
  BY <1>1, Addresses, DraupnirHandleStep
<1>2. ASSUME NEW to \in User, NEW amount \in 1..bank[Contract],
             VaultSpend(to, amount), UNCHANGED ownership
      PROVE  OwnershipOK'
  BY <1>2, VaultSpendStep DEF OwnershipOK, DraupnirTypeOK, ProposalOfOwner, ownership
<1>3. QED
  BY <1>1, <1>2 DEF DraupnirOwnerAction

LEMMA OwnershipInit == DraupnirInit => OwnershipOK
BY BankAssumption, BalanceAssumption, OwnerAssumption
   DEF DraupnirInit, VaultInit, OwnershipOK, DraupnirTypeOK, VaultTypeOK, ProposalOfOwner

LEMMA OwnershipNext == OwnershipOK /\ [DraupnirNext]_draupnirVars => OwnershipOK'
<1> SUFFICES ASSUME OwnershipOK, [DraupnirNext]_draupnirVars PROVE OwnershipOK'
  OBVIOUS
<1>1. CASE UNCHANGED draupnirVars
  BY <1>1
     DEF OwnershipOK, DraupnirTypeOK, VaultTypeOK, ProposalOfOwner, draupnirVars, vaultVars, ownership
<1>2. CASE DraupnirNext
  BY <1>2, Addresses, DraupnirHandleStep, DraupnirOwnerActionStep DEF DraupnirNext
<1>3. QED
  BY <1>1, <1>2

\* The stores keep their types, and no proposal outlives the ownership of who made
\* it, whoever accepts an ownership that nobody offered.
THEOREM OwnershipProved == DraupnirSpec => []OwnershipOK
BY OwnershipInit, OwnershipNext, PTL DEF DraupnirSpec

\* Deposits are kept as the abstract custody specification says, but for what the
\* owner's messages pay out.
THEOREM DraupnirRefinement == DraupnirSpec => VaultImplementsCustody
<1>1. DraupnirInit => Deposits!Init
  <2> SUFFICES ASSUME DraupnirInit PROVE Deposits!Init
    OBVIOUS
  <2>1. bank[Contract] + spent \in Nat
    BY BankAssumption, Addresses DEF DraupnirInit, VaultInit
  <2>2. [u \in User |-> balances[u]] = [u \in User |-> 0]
    BY Addresses DEF DraupnirInit, VaultInit
  <2>3. QED
    BY <2>1, <2>2 DEF Deposits!Init
<1>2. OwnershipOK /\ OwnershipOK' /\ [DraupnirNext]_draupnirVars => [Deposits!Next]_(Deposits!vars)
  <2> SUFFICES ASSUME OwnershipOK, OwnershipOK', [DraupnirNext]_draupnirVars
               PROVE  [Deposits!Next]_(Deposits!vars)
    OBVIOUS
  <2>1. VaultTypeOK /\ VaultTypeOK'
    BY DEF OwnershipOK, DraupnirTypeOK
  <2>2. CASE UNCHANGED vaultVars
    BY <2>2 DEF vaultVars, Deposits!vars
  <2>3. ASSUME NEW sender \in Account, DraupnirHandle(sender)
        PROVE  [Deposits!Next]_(Deposits!vars)
    <3>1. CASE UNCHANGED vaultVars
      BY <3>1, <2>2
    <3>2. CASE \/ \E amount \in 1..bank[sender] : VaultDeposit(sender, amount)
               \/ \E amount \in 1..MaxBalance : VaultWithdraw(sender, amount)
      BY <3>2, <2>1, VaultCustodyStep
    <3>3. QED
      BY <2>3, <3>1, <3>2
         DEF DraupnirHandle, DraupnirDeposit, DraupnirWithdraw, ProposeOwner, AcceptOwner, DropOwner
  <2>4. ASSUME NEW to \in User, NEW amount \in 1..bank[Contract], VaultSpend(to, amount)
        PROVE  UNCHANGED Deposits!vars
    BY <2>1, <2>4, VaultSpendStep DEF Deposits!vars
  <2>5. CASE UNCHANGED draupnirVars
    BY <2>2, <2>5 DEF draupnirVars
  <2>6. CASE DraupnirNext
    BY <2>3, <2>4, <2>6, Addresses DEF DraupnirNext, DraupnirOwnerAction
  <2>7. QED
    BY <2>5, <2>6
<1>3. QED
  BY <1>1, <1>2, OwnershipProved, PTL DEF DraupnirSpec, VaultImplementsCustody, Deposits!Spec

-----------------------------------------------------------------------------
\* Tyrfing.

\* The ranking needs that the threshold is never below the one configured: were it,
\* a deposit could raise it to just that, and the depositor would be taken for the
\* owner who configured it.
RolesOK ==
    /\ address \in Account
    /\ threshold \in 0..MaxBalance
    /\ config \in [threshold : 0..MaxBalance, owner : Account]
    /\ peak \in [Account -> 0..MaxBalance]
    /\ TopDepositorRanked
    /\ config.threshold <= threshold

RankingInv == VaultTypeOK /\ RolesOK

LEMMA Ranked == RankingInv => RankingOK
BY DEF RankingInv, RolesOK, RankingOK, TyrfingTypeOK

LEMMA RolesKept == ASSUME RolesOK, UNCHANGED roles PROVE RolesOK'
BY DEF RolesOK, roles, TopDepositorRanked

LEMMA TyrfingDepositStep ==
    ASSUME RankingInv, NEW sender \in Account, NEW amount \in 1..bank[sender],
           TyrfingDeposit(sender, amount)
    PROVE  RankingInv'
<1> DEFINE new == Contender(sender, amount)
<1>1. /\ VaultTypeOK'
      /\ new \in 0..MaxBalance
      /\ balances' = [balances EXCEPT ![sender] = new]
  BY VaultDepositStep DEF RankingInv, TyrfingDeposit, Contender
<1>2. balances'[sender] = new
  BY <1>1 DEF RankingInv, VaultTypeOK
<1>3. /\ config' = config
      /\ peak' = [peak EXCEPT ![sender] = IF peak[sender] < new THEN new ELSE peak[sender]]
  BY <1>2 DEF TyrfingDeposit
<1>4. /\ threshold \in Nat /\ new \in Nat /\ config.threshold \in Nat
      /\ \A a \in Account : peak[a] \in Nat
      /\ \A a \in Account : peak[a] <= threshold
      /\ config.threshold <= threshold
  BY <1>1, BalanceAssumption DEF RankingInv, RolesOK, TopDepositorRanked
<1>5. peak' \in [Account -> 0..MaxBalance]
  BY <1>1, <1>3 DEF RankingInv, RolesOK
<1> HIDE DEF new
<1>6. CASE new > threshold
  <2>1. threshold' = new /\ address' = sender
    BY <1>6 DEF TyrfingDeposit, Exceeds, Raised, new
  <2>2. \A a \in Account : peak'[a] <= threshold'
    BY <1>3, <1>4, <1>6, <2>1 DEF RankingInv, RolesOK
  <2>3. peak'[address'] = threshold'
    BY <1>3, <1>4, <1>6, <2>1 DEF RankingInv, RolesOK
  <2>4. threshold' # config'.threshold /\ config'.threshold <= threshold'
    BY <1>3, <1>4, <1>6, <2>1
  <2>5. QED
    BY <1>1, <1>3, <1>5, <2>1, <2>2, <2>3, <2>4
       DEF RankingInv, RolesOK, TopDepositorRanked
<1>7. CASE ~(new > threshold)
  <2>1. threshold' = threshold /\ address' = address
    BY <1>7 DEF TyrfingDeposit, Exceeds, new
  <2>2. \A a \in Account : peak'[a] <= threshold
    BY <1>3, <1>4, <1>7 DEF RankingInv, RolesOK
  <2>3. peak[address] = threshold => peak'[address] = threshold
    BY <1>3, <1>4, <1>7 DEF RankingInv, RolesOK
  <2>4. QED
    BY <1>1, <1>3, <1>5, <2>1, <2>2, <2>3 DEF RankingInv, RolesOK, TopDepositorRanked
<1>8. QED
  BY <1>6, <1>7

LEMMA UpdateConfigStep ==
    ASSUME RankingInv, NEW sender \in Account, NEW new_threshold \in 0..MaxBalance,
           UpdateConfig(sender, new_threshold)
    PROVE  RankingInv'
<1>1. /\ address = sender /\ address' = sender
      /\ threshold' = new_threshold
      /\ config' = [threshold |-> new_threshold, owner |-> sender]
      /\ peak' = [a \in Account |-> 0]
  BY DEF UpdateConfig, Configured
<1>2. VaultTypeOK'
  BY DEF RankingInv, VaultTypeOK, UpdateConfig, vaultVars
<1>3. new_threshold \in Nat /\ 0 \in 0..MaxBalance
  BY BalanceAssumption
<1>4. TopDepositorRanked'
  BY <1>1, <1>3 DEF TopDepositorRanked
<1>5. QED
  BY <1>1, <1>2, <1>3, <1>4 DEF RankingInv, RolesOK

LEMMA TyrfingHandleStep ==
    ASSUME RankingInv, NEW sender \in Account, TyrfingHandle(sender)
    PROVE  RankingInv'
<1>1. ASSUME NEW amount \in 1..MaxBalance, TyrfingWithdraw(sender, amount) PROVE RankingInv'
  BY <1>1, VaultWithdrawStep, RolesKept DEF TyrfingWithdraw, RankingInv
<1>2. QED
  BY <1>1, TyrfingDepositStep, UpdateConfigStep DEF TyrfingHandle

LEMMA TyrfingOwnerActionStep ==
    ASSUME RankingInv, NEW sender \in User, TyrfingOwnerAction(sender)
    PROVE  RankingInv'
<1>1. ASSUME NEW to \in User, NEW amount \in 1..bank[Contract],
             VaultSpend(to, amount), UNCHANGED roles
      PROVE  RankingInv'
  BY <1>1, VaultSpendStep, RolesKept DEF RankingInv
<1>2. QED
  BY <1>1, Addresses, TyrfingHandleStep DEF TyrfingOwnerAction

LEMMA RankingInit == TyrfingInit => RankingInv
<1> SUFFICES ASSUME TyrfingInit PROVE RankingInv
  OBVIOUS
<1>1. VaultTypeOK
  BY BankAssumption, BalanceAssumption DEF TyrfingInit, VaultInit, VaultTypeOK
<1>2. /\ FirstThreshold \in Nat /\ 0 <= FirstThreshold /\ 0 \in 0..MaxBalance
      /\ FirstThreshold <= FirstThreshold
  BY ThresholdAssumption, BalanceAssumption
<1>3. TopDepositorRanked
  BY <1>2 DEF TyrfingInit, TopDepositorRanked
<1>4. QED
  BY <1>1, <1>2, <1>3, OwnerAssumption, ThresholdAssumption DEF TyrfingInit, RankingInv, RolesOK

LEMMA RankingNext == RankingInv /\ [TyrfingNext]_tyrfingVars => RankingInv'
<1> SUFFICES ASSUME RankingInv, [TyrfingNext]_tyrfingVars PROVE RankingInv'
  OBVIOUS
<1>1. CASE UNCHANGED tyrfingVars
  BY <1>1, RolesKept DEF RankingInv, VaultTypeOK, tyrfingVars, vaultVars
<1>2. CASE TyrfingNext
  BY <1>2, Addresses, TyrfingHandleStep, TyrfingOwnerActionStep DEF TyrfingNext
<1>3. QED
  BY <1>1, <1>2

LEMMA RankingInvariant == TyrfingSpec => []RankingInv
BY RankingInit, RankingNext, PTL DEF TyrfingSpec

\* The one cell for owner and top depositor is the owner's until a deposit exceeds
\* the configured threshold, and then of whoever made the highest deposit since.
THEOREM RankingProved == TyrfingSpec => []RankingOK
BY RankingInvariant, Ranked, PTL

\* Who handles a message that changes the address.
LEMMA RoleStep ==
    ASSUME RankingInv, NEW sender \in Account, TyrfingHandle(sender), address' # address
    PROVE  \A a \in Account : peak[a] < balances'[address']
<1>1. PICK amount \in 1..bank[sender] : TyrfingDeposit(sender, amount)
  BY DEF TyrfingHandle, TyrfingWithdraw, UpdateConfig, roles
<1>2. /\ balances' = [balances EXCEPT ![sender] = Contender(sender, amount)]
      /\ Contender(sender, amount) \in 0..MaxBalance
  BY <1>1, VaultDepositStep DEF RankingInv, TyrfingDeposit, Contender
<1>3. address' = sender /\ Contender(sender, amount) > threshold
  BY <1>1 DEF TyrfingDeposit, Exceeds
<1>4. balances'[address'] > threshold /\ balances'[address'] \in Nat /\ threshold \in Nat
  BY <1>2, <1>3, BalanceAssumption DEF RankingInv, VaultTypeOK, RolesOK
<1>5. \A a \in Account : peak[a] \in Nat /\ peak[a] <= threshold
  BY BalanceAssumption DEF RankingInv, RolesOK, TopDepositorRanked
<1>6. QED
  BY <1>4, <1>5

\* Owner and top depositor change only to a sender whose deposit takes the balance
\* above every deposit since the threshold was configured.
THEOREM RoleProved == TyrfingSpec => RolePassesUpwards
<1>1. RankingInv /\ [TyrfingNext]_tyrfingVars =>
        [address' # address => \A a \in Account : peak[a] < balances'[address']]_tyrfingVars
  <2> SUFFICES ASSUME RankingInv, [TyrfingNext]_tyrfingVars, address' # address
               PROVE  \A a \in Account : peak[a] < balances'[address']
    OBVIOUS
  <2>1. PICK sender \in Account : TyrfingHandle(sender)
    BY Addresses DEF TyrfingNext, TyrfingOwnerAction, tyrfingVars, roles
  <2>2. QED
    BY <2>1, RoleStep
<1>2. QED
  BY <1>1, RankingInvariant, PTL DEF TyrfingSpec, RolePassesUpwards

\* Tyrfing keeps deposits as the abstract custody specification says.
THEOREM TyrfingRefinement == TyrfingSpec => VaultImplementsCustody
<1>1. TyrfingInit => Deposits!Init
  <2> SUFFICES ASSUME TyrfingInit PROVE Deposits!Init
    OBVIOUS
  <2>1. bank[Contract] + spent \in Nat
    BY BankAssumption, Addresses DEF TyrfingInit, VaultInit
  <2>2. [u \in User |-> balances[u]] = [u \in User |-> 0]
    BY Addresses DEF TyrfingInit, VaultInit
  <2>3. QED
    BY <2>1, <2>2 DEF Deposits!Init
<1>2. RankingInv /\ RankingInv' /\ [TyrfingNext]_tyrfingVars => [Deposits!Next]_(Deposits!vars)
  <2> SUFFICES ASSUME RankingInv, RankingInv', [TyrfingNext]_tyrfingVars
               PROVE  [Deposits!Next]_(Deposits!vars)
    OBVIOUS
  <2>1. VaultTypeOK /\ VaultTypeOK'
    BY DEF RankingInv, TyrfingTypeOK
  <2>2. CASE UNCHANGED vaultVars
    BY <2>2 DEF vaultVars, Deposits!vars
  <2>3. ASSUME NEW sender \in Account, TyrfingHandle(sender)
        PROVE  [Deposits!Next]_(Deposits!vars)
    <3>1. CASE \/ \E amount \in 1..bank[sender] : VaultDeposit(sender, amount)
               \/ \E amount \in 1..MaxBalance : VaultWithdraw(sender, amount)
      BY <3>1, <2>1, VaultCustodyStep
    <3>2. QED
      BY <2>2, <2>3, <3>1 DEF TyrfingHandle, TyrfingDeposit, TyrfingWithdraw, UpdateConfig
  <2>4. ASSUME NEW to \in User, NEW amount \in 1..bank[Contract], VaultSpend(to, amount)
        PROVE  UNCHANGED Deposits!vars
    BY <2>1, <2>4, VaultSpendStep DEF Deposits!vars
  <2>5. CASE UNCHANGED tyrfingVars
    BY <2>2, <2>5 DEF tyrfingVars
  <2>6. CASE TyrfingNext
    BY <2>3, <2>4, <2>6, Addresses DEF TyrfingNext, TyrfingOwnerAction
  <2>7. QED
    BY <2>5, <2>6
<1>3. QED
  BY <1>1, <1>2, RankingInvariant, PTL DEF TyrfingSpec, VaultImplementsCustody, Deposits!Spec

-----------------------------------------------------------------------------
\* Gungnir.

\* A stake that is still locked is the voting power of its user, is backed by
\* tokens, and cannot be released yet.
PledgesKept ==
    \A u \in User :
        pledge[u].power # 0 /\ now < pledge[u].at + LOCK_PERIOD =>
            /\ users[u] # None
            /\ users[u].released_time = pledge[u].at + LOCK_PERIOD
            /\ users[u].voting_power = pledge[u].power
            /\ users[u].voting_power <= users[u].total_tokens

GungnirInv == GungnirTypeOK /\ PledgesKept

\* The two assignments of stake, one after the other.
Relocked(r, p, t) == [r EXCEPT !.voting_power = p, !.released_time = t]

LEMMA StakedEntry ==
    ASSUME NEW r \in UserInfo, NEW p \in 0..(Modulus - 1), NEW t \in Nat
    PROVE  /\ Relocked(r, p, t) \in UserInfo
           /\ Relocked(r, p, t).total_tokens = r.total_tokens
           /\ Relocked(r, p, t).voting_power = p
           /\ Relocked(r, p, t).released_time = t
<1> DEFINE powered == [r EXCEPT !.voting_power = p]
           new == [r EXCEPT !.voting_power = p, !.released_time = t]
<1>1. new = [powered EXCEPT !.released_time = t]
  BY DEF UserInfo
<1>2. /\ powered \in UserInfo
      /\ powered.total_tokens = r.total_tokens
      /\ powered.voting_power = p
  BY DEF UserInfo
<1> HIDE DEF powered, new
<1>3. /\ new \in UserInfo
      /\ new.total_tokens = powered.total_tokens
      /\ new.voting_power = powered.voting_power
      /\ new.released_time = t
  BY <1>1, <1>2 DEF UserInfo
<1>4. QED
  BY <1>2, <1>3 DEF new, Relocked

\* A wrapped result is a value of a u128.
LEMMA WrappedFits ==
    ASSUME NEW x \in Int
    PROVE  Wrapped(x) \in 0..(Modulus - 1)
BY ModulusAssumption DEF Wrapped

\* A build with overflow checks never wraps.
LEMMA CheckedIsExact ==
    ASSUME overflow_checks, NEW x \in Int, NoPanic(x)
    PROVE  Wrapped(x) = x
BY ModulusAssumption DEF Wrapped, NoPanic

\* The entry a handler works on, and what it says of the store.
LEMMA EntryType ==
    ASSUME GungnirTypeOK, NEW u \in User
    PROVE  /\ Entry(u) \in UserInfo
           /\ users[u] # None => users[u] = Entry(u) /\ users[u] \in UserInfo
BY ModulusAssumption DEF GungnirTypeOK, Entry, UserInfo

LEMMA GungnirInvInit == GungnirInit => GungnirInv
<1> SUFFICES ASSUME GungnirInit PROVE GungnirInv
  OBVIOUS
<1>1. GungnirTypeOK
  BY BankAssumption DEF GungnirInit, GungnirTypeOK
<1>2. PledgesKept
  BY DEF GungnirInit, PledgesKept
<1>3. QED
  BY <1>1, <1>2 DEF GungnirInv

LEMMA TokensDepositStep ==
    ASSUME GungnirInv, NEW user \in User, NEW amount \in 1..bank[user],
           GungnirDeposit(user, amount)
    PROVE  /\ GungnirInv'
           /\ amount \in Nat /\ amount > 0
           /\ bank'[Contract] = bank[Contract] + amount
           /\ [u \in User |-> Entry(u).total_tokens]' =
                [[u \in User |-> Entry(u).total_tokens] EXCEPT ![user] = @ + amount]
<1>1. amount \in Nat /\ amount > 0 /\ amount <= bank[user]
  BY Addresses DEF GungnirInv, GungnirTypeOK
<1>2. /\ Entry(user) \in UserInfo
      /\ users[user] # None => users[user] = Entry(user)
  BY EntryType DEF GungnirInv
<1> DEFINE new == TokensCredited(user, amount)
<1>3. /\ new \in UserInfo
      /\ new # None
      /\ new.total_tokens = Entry(user).total_tokens + amount
      /\ new.voting_power = Entry(user).voting_power
      /\ new.released_time = Entry(user).released_time
  BY <1>1, <1>2, NoInfoAssumption DEF TokensCredited, UserInfo
<1> HIDE DEF new
<1>4. users' = [users EXCEPT ![user] = new]
  BY DEF GungnirDeposit, new
<1>5. /\ bank' \in [Account -> Nat]
      /\ bank'[Contract] = bank[Contract] + amount
  BY <1>1, Addresses, Transfer DEF GungnirInv, GungnirTypeOK, GungnirDeposit
<1>6. GungnirTypeOK'
  BY <1>3, <1>4, <1>5 DEF GungnirInv, GungnirTypeOK, GungnirDeposit
<1>7. PledgesKept'
  <2> SUFFICES ASSUME NEW u \in User, pledge[u].power # 0,
                      now < pledge[u].at + LOCK_PERIOD
               PROVE  /\ users'[u] # None
                      /\ users'[u].released_time = pledge[u].at + LOCK_PERIOD
                      /\ users'[u].voting_power = pledge[u].power
                      /\ users'[u].voting_power <= users'[u].total_tokens
    BY DEF PledgesKept, GungnirDeposit
  <2>1. /\ users[u] # None
        /\ users[u].released_time = pledge[u].at + LOCK_PERIOD
        /\ users[u].voting_power = pledge[u].power
        /\ users[u].voting_power <= users[u].total_tokens
    BY DEF GungnirInv, PledgesKept
  <2>2. CASE u # user
    BY <2>1, <2>2, <1>4 DEF GungnirInv, GungnirTypeOK
  <2>3. CASE u = user
    <3>1. users'[user] = new
      BY <1>4 DEF GungnirInv, GungnirTypeOK
    <3>2. users[user].total_tokens \in Nat /\ users[user].voting_power \in Nat
      BY <1>2, <2>1, <2>3, ModulusAssumption DEF UserInfo
    <3>3. QED
      BY <3>1, <3>2, <2>1, <2>3, <1>1, <1>2, <1>3
  <2>4. QED
    BY <2>2, <2>3
<1>8. \A u \in User : Entry(u)' = IF u = user THEN new ELSE Entry(u)
  BY <1>3, <1>4 DEF GungnirInv, GungnirTypeOK, Entry
<1>9. QED
  BY <1>1, <1>3, <1>5, <1>6, <1>7, <1>8 DEF GungnirInv

LEMMA TokensWithdrawStep ==
    ASSUME GungnirInv, NEW user \in User, NEW amount \in 1..(bank[Contract] + 1),
           GungnirWithdraw(user, amount)
    PROVE  /\ GungnirInv'
           /\ amount \in Nat /\ amount > 0
           /\ amount <= Entry(user).total_tokens
           /\ bank'[Contract] = bank[Contract] - amount
           /\ [u \in User |-> Entry(u).total_tokens]' =
                [[u \in User |-> Entry(u).total_tokens] EXCEPT ![user] = @ - amount]
<1>1. amount \in Nat /\ amount > 0 /\ amount <= bank[Contract]
  BY Addresses DEF GungnirInv, GungnirTypeOK, GungnirWithdraw, CanSend
<1>2. users[user] = Entry(user) /\ users[user] \in UserInfo /\ users[user] # None
  BY EntryType DEF GungnirInv, GungnirWithdraw
<1>3. /\ amount <= users[user].total_tokens
      /\ users[user].total_tokens - amount >= users[user].voting_power
  BY DEF GungnirWithdraw, HasTokens, KeepsStaked
<1> DEFINE new == [users[user] EXCEPT !.total_tokens = @ - amount]
<1>4. /\ new \in UserInfo
      /\ new # None
      /\ new.total_tokens = users[user].total_tokens - amount
      /\ new.voting_power = users[user].voting_power
      /\ new.released_time = users[user].released_time
  BY <1>1, <1>2, <1>3, NoInfoAssumption DEF UserInfo
<1>5. users' = [users EXCEPT ![user] = new]
  BY DEF GungnirWithdraw, TokensDebited
<1> HIDE DEF new
<1>6. /\ bank' \in [Account -> Nat]
      /\ bank'[Contract] = bank[Contract] - amount
  BY <1>1, Addresses, Transfer DEF GungnirInv, GungnirTypeOK, GungnirWithdraw
<1>7. GungnirTypeOK'
  BY <1>4, <1>5, <1>6 DEF GungnirInv, GungnirTypeOK, GungnirWithdraw
<1>8. PledgesKept'
  <2> SUFFICES ASSUME NEW u \in User, pledge[u].power # 0,
                      now < pledge[u].at + LOCK_PERIOD
               PROVE  /\ users'[u] # None
                      /\ users'[u].released_time = pledge[u].at + LOCK_PERIOD
                      /\ users'[u].voting_power = pledge[u].power
                      /\ users'[u].voting_power <= users'[u].total_tokens
    BY DEF PledgesKept, GungnirWithdraw
  <2>1. /\ users[u] # None
        /\ users[u].released_time = pledge[u].at + LOCK_PERIOD
        /\ users[u].voting_power = pledge[u].power
        /\ users[u].voting_power <= users[u].total_tokens
    BY DEF GungnirInv, PledgesKept
  <2>2. CASE u # user
    BY <2>1, <2>2, <1>5 DEF GungnirInv, GungnirTypeOK
  <2>3. CASE u = user
    BY <2>1, <2>3, <1>3, <1>4, <1>5 DEF GungnirInv, GungnirTypeOK
  <2>4. QED
    BY <2>2, <2>3
<1>9. \A u \in User : Entry(u)' = IF u = user THEN new ELSE Entry(u)
  BY <1>4, <1>5 DEF GungnirInv, GungnirTypeOK, Entry
<1>10. QED
  BY <1>1, <1>2, <1>3, <1>4, <1>6, <1>7, <1>8, <1>9 DEF GungnirInv

LEMMA StakeStep ==
    ASSUME GungnirInv, NEW user \in User, NEW lock_amount \in 0..(Modulus - 1),
           Stake(user, lock_amount)
    PROVE  /\ GungnirInv'
           /\ UNCHANGED bank
           /\ [u \in User |-> Entry(u).total_tokens]' =
                [u \in User |-> Entry(u).total_tokens]
<1> DEFINE power == Wrapped(users[user].voting_power + lock_amount)
           new == Relocked(users[user], power, now + LOCK_PERIOD)
<1>1. users[user] = Entry(user) /\ users[user] \in UserInfo /\ users[user] # None
  BY EntryType DEF GungnirInv, Stake
<1>2. power \in 0..(Modulus - 1)
  BY <1>1, WrappedFits, ModulusAssumption DEF UserInfo
<1>3. power <= users[user].total_tokens
  BY DEF Stake
<1>4. /\ users' = [users EXCEPT ![user] = new]
      /\ pledge' = [pledge EXCEPT ![user] = [power |-> power, at |-> now]]
  BY DEF Stake, Relocked
<1>5. now \in Nat /\ LOCK_PERIOD \in Nat /\ power \in Nat
  BY <1>2, ModulusAssumption, TimeAssumption DEF GungnirInv, GungnirTypeOK
<1> HIDE DEF power
<1>6. /\ new \in UserInfo
      /\ new # None
      /\ new.total_tokens = users[user].total_tokens
      /\ new.voting_power = power
      /\ new.released_time = now + LOCK_PERIOD
  <2>1. now + LOCK_PERIOD \in Nat
    BY <1>5
  <2>2. /\ new \in UserInfo
        /\ new.total_tokens = users[user].total_tokens
        /\ new.voting_power = power
        /\ new.released_time = now + LOCK_PERIOD
    <3> DEFINE until == now + LOCK_PERIOD
    <3> HIDE DEF until
    <3>1. until \in Nat
      BY <2>1 DEF until
    <3>2. /\ Relocked(users[user], power, until) \in UserInfo
          /\ Relocked(users[user], power, until).total_tokens = users[user].total_tokens
          /\ Relocked(users[user], power, until).voting_power = power
          /\ Relocked(users[user], power, until).released_time = until
      BY <1>1, <1>2, <3>1, StakedEntry, Zenon
    <3>3. QED
      BY <3>2 DEF until
  <2>3. QED
    BY <2>2, NoInfoAssumption, Zenon
<1> HIDE DEF new
<1>7. GungnirTypeOK'
  <2>1. pledge' \in [User -> [power : Nat, at : Nat]]
    BY <1>4, <1>5 DEF GungnirInv, GungnirTypeOK
  <2>2. UNCHANGED <<bank, now, overflow_checks>>
    BY DEF Stake
  <2>3. users' \in [User -> UserInfo \cup {None}]
    BY <1>4, <1>6 DEF GungnirInv, GungnirTypeOK
  <2>4. QED
    BY <2>1, <2>2, <2>3 DEF GungnirInv, GungnirTypeOK
<1>8. PledgesKept'
  <2> SUFFICES ASSUME NEW u \in User, pledge'[u].power # 0,
                      now < pledge'[u].at + LOCK_PERIOD
               PROVE  /\ users'[u] # None
                      /\ users'[u].released_time = pledge'[u].at + LOCK_PERIOD
                      /\ users'[u].voting_power = pledge'[u].power
                      /\ users'[u].voting_power <= users'[u].total_tokens
    BY DEF PledgesKept, Stake
  <2>1. CASE u # user
    <3>1. users'[u] = users[u] /\ pledge'[u] = pledge[u]
      BY <2>1, <1>4 DEF GungnirInv, GungnirTypeOK
    <3>2. QED
      BY <3>1 DEF GungnirInv, PledgesKept
  <2>2. CASE u = user
    <3>1. users'[u] = new /\ pledge'[u] = [power |-> power, at |-> now]
      BY <2>2, <1>4 DEF GungnirInv, GungnirTypeOK
    <3>2. QED
      BY <3>1, <1>3, <1>6
  <2>3. QED
    BY <2>1, <2>2
<1>9. \A u \in User : Entry(u)' = IF u = user THEN new ELSE Entry(u)
  BY <1>4, <1>6 DEF GungnirInv, GungnirTypeOK, Entry
<1>10. QED
  BY <1>1, <1>6, <1>7, <1>8, <1>9 DEF GungnirInv, Stake

\* A locked stake is still the power of its user, as unstake refuses until then.
LEMMA UnstakeStep ==
    ASSUME GungnirInv, NEW user \in User, NEW unlock_amount \in 0..(Modulus - 1),
           Unstake(user, unlock_amount)
    PROVE  /\ GungnirInv'
           /\ UNCHANGED bank
           /\ [u \in User |-> Entry(u).total_tokens]' =
                [u \in User |-> Entry(u).total_tokens]
<1> DEFINE power == Wrapped(users[user].voting_power - unlock_amount)
           new == [users[user] EXCEPT !.voting_power = power]
<1>1. users[user] = Entry(user) /\ users[user] \in UserInfo /\ users[user] # None
  BY EntryType DEF GungnirInv, Unstake
<1>2. power \in 0..(Modulus - 1)
  BY <1>1, WrappedFits, ModulusAssumption DEF UserInfo
<1>3. users' = [users EXCEPT ![user] = new] /\ now >= users[user].released_time
  BY DEF Unstake, Released
<1> HIDE DEF power
<1>4. /\ new \in UserInfo
      /\ new # None
      /\ new.total_tokens = users[user].total_tokens
  BY <1>1, <1>2, NoInfoAssumption DEF UserInfo
<1> HIDE DEF new
<1>5. GungnirTypeOK'
  BY <1>3, <1>4 DEF GungnirInv, GungnirTypeOK, Unstake
<1>6. PledgesKept'
  <2> SUFFICES ASSUME NEW u \in User, pledge[u].power # 0,
                      now < pledge[u].at + LOCK_PERIOD
               PROVE  /\ users'[u] # None
                      /\ users'[u].released_time = pledge[u].at + LOCK_PERIOD
                      /\ users'[u].voting_power = pledge[u].power
                      /\ users'[u].voting_power <= users'[u].total_tokens
    BY DEF PledgesKept, Unstake
  <2>1. users[u].released_time = pledge[u].at + LOCK_PERIOD
    BY DEF GungnirInv, PledgesKept
  <2>2. u # user
    <3>1. pledge[u].at + LOCK_PERIOD \in Nat /\ now \in Nat
      BY TimeAssumption DEF GungnirInv, GungnirTypeOK
    <3>2. QED
      BY <3>1, <2>1, <1>3
  <2>3. users'[u] = users[u]
    BY <2>2, <1>3 DEF GungnirInv, GungnirTypeOK
  <2>4. QED
    BY <2>3 DEF GungnirInv, PledgesKept
<1>7. \A u \in User : Entry(u)' = IF u = user THEN new ELSE Entry(u)
  BY <1>3, <1>4 DEF GungnirInv, GungnirTypeOK, Entry
<1>8. QED
  BY <1>1, <1>4, <1>5, <1>6, <1>7 DEF GungnirInv, Unstake

LEMMA GungnirTickStep ==
    ASSUME GungnirInv, GungnirTick
    PROVE  GungnirInv'
<1>1. GungnirTypeOK'
  BY DEF GungnirInv, GungnirTypeOK, GungnirTick, Tick
<1>2. PledgesKept'
  <2> SUFFICES ASSUME NEW u \in User, pledge[u].power # 0,
                      now' < pledge[u].at + LOCK_PERIOD
               PROVE  /\ users[u] # None
                      /\ users[u].released_time = pledge[u].at + LOCK_PERIOD
                      /\ users[u].voting_power = pledge[u].power
                      /\ users[u].voting_power <= users[u].total_tokens
    BY DEF PledgesKept, GungnirTick
  <2>1. now < pledge[u].at + LOCK_PERIOD
    BY TimeAssumption DEF GungnirInv, GungnirTypeOK, GungnirTick, Tick
  <2>2. QED
    BY <2>1 DEF GungnirInv, PledgesKept
<1>3. QED
  BY <1>1, <1>2 DEF GungnirInv

LEMMA GungnirInvNext == GungnirInv /\ [GungnirNext]_gungnirVars => GungnirInv'
<1> SUFFICES ASSUME GungnirInv, [GungnirNext]_gungnirVars PROVE GungnirInv'
  OBVIOUS
<1>1. ASSUME NEW u \in User, NEW n \in 1..bank[u], GungnirDeposit(u, n) PROVE GungnirInv'
  BY <1>1, TokensDepositStep
<1>2. ASSUME NEW u \in User, NEW n \in 1..(bank[Contract] + 1), GungnirWithdraw(u, n)
      PROVE  GungnirInv'
  BY <1>2, TokensWithdrawStep
<1>3. ASSUME NEW u \in User, NEW n \in 0..(Modulus - 1), Stake(u, n) PROVE GungnirInv'
  BY <1>3, StakeStep
<1>4. ASSUME NEW u \in User, NEW n \in 0..(Modulus - 1), Unstake(u, n) PROVE GungnirInv'
  BY <1>4, UnstakeStep
<1>5. CASE GungnirTick
  BY <1>5, GungnirTickStep
<1>6. CASE UNCHANGED gungnirVars
  BY <1>6 DEF GungnirInv, GungnirTypeOK, PledgesKept, gungnirVars
<1>7. QED
  BY <1>1, <1>2, <1>3, <1>4, <1>5, <1>6 DEF GungnirNext

LEMMA GungnirInvariant == GungnirSpec => []GungnirInv
BY GungnirInvInit, GungnirInvNext, PTL DEF GungnirSpec

\* The stores keep their types in every build: no subtraction from total_tokens
\* goes below zero, and the contract can always pay.
THEOREM GungnirTypeCorrect == GungnirSpec => []GungnirTypeOK
<1>1. GungnirInv => GungnirTypeOK
  BY DEF GungnirInv
<1>2. QED
  BY <1>1, GungnirInvariant, PTL

\* For LOCK_PERIOD after the last stake its tokens stay, in every build: unstake
\* refuses, and withdraw leaves what the voting power stands for.
THEOREM LockProved == GungnirSpec => []LockKeepsTokens
<1>1. GungnirInv => LockKeepsTokens
  <2> SUFFICES ASSUME GungnirInv, NEW u \in User, now < pledge[u].at + LOCK_PERIOD
               PROVE  pledge[u].power <= Entry(u).total_tokens
    BY DEF LockKeepsTokens
  <2>1. Entry(u) \in UserInfo /\ pledge[u].power \in Nat
    BY EntryType DEF GungnirInv, GungnirTypeOK
  <2>2. CASE pledge[u].power = 0
    BY <2>1, <2>2 DEF UserInfo
  <2>3. CASE pledge[u].power # 0
    BY <2>3 DEF GungnirInv, PledgesKept, Entry
  <2>4. QED
    BY <2>2, <2>3
<1>2. QED
  BY <1>1, GungnirInvariant, PTL

\* What is left of the tokens after each step still backs the voting power.
LEMMA DepositBacked ==
    ASSUME GungnirInv, NEW v \in User, Backed(v),
           NEW u \in User, NEW n \in 1..bank[u], GungnirDeposit(u, n)
    PROVE  Backed(v)'
<1>1. users' = [users EXCEPT ![u] = TokensCredited(u, n)] /\ n \in Nat
  BY Addresses DEF GungnirDeposit, GungnirInv, GungnirTypeOK
<1>2. CASE v = u
  <2>1. Entry(u) \in UserInfo /\ Entry(u).voting_power <= Entry(u).total_tokens
    BY <1>2, EntryType DEF GungnirInv, Backed, Entry
  <2>2. TokensCredited(u, n).voting_power <= TokensCredited(u, n).total_tokens
    BY <1>1, <2>1, ModulusAssumption DEF TokensCredited, UserInfo
  <2>3. QED
    BY <1>1, <1>2, <2>2 DEF GungnirInv, GungnirTypeOK, Backed
<1>3. CASE v # u
  BY <1>1, <1>3 DEF GungnirInv, GungnirTypeOK, Backed
<1>4. QED
  BY <1>2, <1>3

LEMMA WithdrawBacked ==
    ASSUME GungnirInv, NEW v \in User, Backed(v), NEW u \in User,
           NEW n \in 1..(bank[Contract] + 1), GungnirWithdraw(u, n)
    PROVE  Backed(v)'
<1>1. users' = [users EXCEPT ![u] = [users[u] EXCEPT !.total_tokens = @ - n]]
  BY DEF GungnirWithdraw, TokensDebited
<1>2. users[u] \in UserInfo /\ users[u].total_tokens - n >= users[u].voting_power
  BY EntryType DEF GungnirWithdraw, KeepsStaked, GungnirInv
<1>3. CASE v = u
  <2>1. /\ users'[v].total_tokens = users[u].total_tokens - n
        /\ users'[v].voting_power = users[u].voting_power
    BY <1>1, <1>2, <1>3 DEF GungnirInv, GungnirTypeOK, UserInfo
  <2>2. n \in Int /\ users[u].total_tokens \in Nat /\ users[u].voting_power \in Int
    BY <1>2 DEF UserInfo
  <2>3. QED
    BY <2>1, <2>2, <1>2 DEF Backed
<1>4. CASE v # u
  BY <1>1, <1>4 DEF GungnirInv, GungnirTypeOK, Backed
<1>5. QED
  BY <1>3, <1>4

\* A wrapped sum is compared with the tokens just as an exact one.
LEMMA StakeBacked ==
    ASSUME GungnirInv, NEW v \in User, Backed(v), NEW u \in User,
           NEW n \in 0..(Modulus - 1), Stake(u, n)
    PROVE  Backed(v)'
<1> DEFINE power == Wrapped(users[u].voting_power + n)
<1>1. /\ users' = [users EXCEPT ![u] =
             [users[u] EXCEPT !.voting_power = power,
                              !.released_time = now + LOCK_PERIOD]]
      /\ power <= users[u].total_tokens
      /\ users[u] \in UserInfo
  BY EntryType DEF Stake, GungnirInv
<1> HIDE DEF power
<1>2. CASE v = u
  BY <1>1, <1>2 DEF GungnirInv, GungnirTypeOK, UserInfo, Backed
<1>3. CASE v # u
  BY <1>1, <1>3 DEF GungnirInv, GungnirTypeOK, Backed
<1>4. QED
  BY <1>2, <1>3

\* An unstake within the power is exact; one beyond it panics or wraps.
LEMMA UnstakeBacked ==
    ASSUME GungnirInv, NEW v \in User, Backed(v), NEW u \in User,
           NEW n \in 0..(Modulus - 1), Unstake(u, n)
    PROVE  \/ Backed(v)'
           \/ /\ ~overflow_checks
              /\ Released(v)
              /\ Entry(v)'.total_tokens = Entry(v).total_tokens
<1> DEFINE difference == users[u].voting_power - n
           power == Wrapped(difference)
<1>1. /\ users' = [users EXCEPT ![u] = [users[u] EXCEPT !.voting_power = power]]
      /\ NoPanic(difference) /\ Released(u)
      /\ users[u] \in UserInfo /\ users[u] # None
  BY EntryType DEF Unstake, GungnirInv
<1>2. difference \in Int /\ difference <= users[u].voting_power
  BY <1>1, ModulusAssumption DEF UserInfo
<1>3. overflow_checks => power = difference
  BY <1>1, <1>2, CheckedIsExact
<1>4. power \in 0..(Modulus - 1)
  BY <1>2, WrappedFits
<1> HIDE DEF difference, power
<1>5. CASE v # u
  BY <1>1, <1>5 DEF GungnirInv, GungnirTypeOK, Backed
<1>6. CASE v = u
  <2> DEFINE new == [users[u] EXCEPT !.voting_power = power]
  <2>1. /\ new \in UserInfo
        /\ new.total_tokens = users[u].total_tokens
        /\ new.voting_power = power
    BY <1>1, <1>4 DEF UserInfo
  <2> HIDE DEF new
  <2>2. users'[v] = new
    BY <1>1, <1>6 DEF new, GungnirInv, GungnirTypeOK
  <2>3. CASE overflow_checks
    <3>1. power <= users[u].total_tokens
      BY <1>1, <1>2, <1>3, <1>6, <2>3, ModulusAssumption DEF Backed, UserInfo
    <3>2. QED
      BY <2>1, <2>2, <3>1 DEF Backed
  <2>4. CASE ~overflow_checks
    <3>1. Entry(v)'.total_tokens = Entry(v).total_tokens
      BY <1>1, <1>6, <2>1, <2>2, NoInfoAssumption DEF Entry
    <3>2. QED
      BY <1>1, <1>6, <2>4, <3>1
  <2>5. QED
    BY <2>3, <2>4
<1>7. QED
  BY <1>5, <1>6

\* Nobody's voting power loses its backing, but by an unstake that wraps in the
\* release build when the lock is over.
THEOREM PowerProved == GungnirSpec => PowerStaysBacked
<1>1. GungnirInv /\ [GungnirNext]_gungnirVars =>
        [\A u \in User : Backed(u) /\ ~Backed(u)' =>
           /\ ~overflow_checks
           /\ Released(u)
           /\ Entry(u)'.total_tokens = Entry(u).total_tokens]_gungnirVars
  <2> SUFFICES ASSUME GungnirInv, [GungnirNext]_gungnirVars, NEW v \in User, Backed(v)
               PROVE  \/ Backed(v)'
                      \/ /\ ~overflow_checks
                         /\ Released(v)
                         /\ Entry(v)'.total_tokens = Entry(v).total_tokens
    OBVIOUS
  <2>1. CASE GungnirTick \/ UNCHANGED gungnirVars
    BY <2>1 DEF GungnirTick, gungnirVars, Backed
  <2>2. QED
    BY <2>1, DepositBacked, WithdrawBacked, StakeBacked, UnstakeBacked DEF GungnirNext
<1>2. QED
  BY <1>1, GungnirInvariant, PTL DEF GungnirSpec, PowerStaysBacked

\* Tokens are kept as the abstract custody specification says, in every build.
THEOREM GungnirRefinement == GungnirSpec => GungnirImplementsCustody
<1>1. GungnirInit => Tokens!Init
  BY BankAssumption, Addresses DEF GungnirInit, Tokens!Init, Entry
<1>2. GungnirInv /\ GungnirInv' /\ [GungnirNext]_gungnirVars => [Tokens!Next]_(Tokens!vars)
  <2> SUFFICES ASSUME GungnirInv, GungnirInv', [GungnirNext]_gungnirVars
               PROVE  [Tokens!Next]_(Tokens!vars)
    OBVIOUS
  <2> DEFINE Credit == [u \in User |-> Entry(u).total_tokens]
  <2>0. /\ bank[Contract] \in Nat /\ bank'[Contract] \in Nat
        /\ \A u \in User : Credit[u] \in Nat
    BY EntryType, Addresses DEF GungnirInv, GungnirTypeOK, UserInfo
  <2>1. ASSUME NEW u \in User, NEW n \in 1..bank[u], GungnirDeposit(u, n)
        PROVE  Tokens!PayIn(u)
    <3>1. /\ n \in Nat /\ n > 0
          /\ bank'[Contract] = bank[Contract] + n
          /\ Credit' = [Credit EXCEPT ![u] = @ + n]
      BY <2>1, TokensDepositStep
    <3>2. bank'[Contract] - bank[Contract] = n /\ bank'[Contract] > bank[Contract]
      BY <3>1, <2>0
    <3>3. QED
      BY <3>1, <3>2, <2>0 DEF Tokens!PayIn
  <2>2. ASSUME NEW u \in User, NEW n \in 1..(bank[Contract] + 1), GungnirWithdraw(u, n)
        PROVE  Tokens!PayOut(u)
    <3>1. /\ n \in Nat /\ n > 0
          /\ n <= Credit[u]
          /\ bank'[Contract] = bank[Contract] - n
          /\ Credit' = [Credit EXCEPT ![u] = @ - n]
      BY <2>2, TokensWithdrawStep
    <3>2. bank[Contract] - bank'[Contract] = n /\ bank'[Contract] < bank[Contract]
      BY <3>1, <2>0
    <3>3. QED
      BY <3>1, <3>2, <2>0 DEF Tokens!PayOut
  <2>3. ASSUME NEW u \in User, NEW n \in 0..(Modulus - 1), Stake(u, n) \/ Unstake(u, n)
        PROVE  UNCHANGED Tokens!vars
    BY <2>3, StakeStep, UnstakeStep DEF Tokens!vars
  <2>4. CASE GungnirTick \/ UNCHANGED gungnirVars
    BY <2>4 DEF GungnirTick, gungnirVars, Tokens!vars, Entry
  <2>5. QED
    BY <2>1, <2>2, <2>3, <2>4 DEF GungnirNext, Tokens!Next
<1>3. QED
  BY <1>1, <1>2, GungnirInvariant, PTL DEF GungnirSpec, GungnirImplementsCustody, Tokens!Spec

-----------------------------------------------------------------------------
\* Mjolnir.

\* An id that was not given out yet names no lockup, so a deposit overwrites none.
IdsFresh == \A id \in Id : id >= last_id => lockups[id] = None

MjolnirInv == MjolnirTypeOK /\ IdsFresh

LEMMA MjolnirInvInit == MjolnirInit => MjolnirInv
BY BankAssumption, MjolnirAssumption
   DEF MjolnirInit, MjolnirInv, MjolnirTypeOK, IdsFresh

LEMMA LockupDepositStep ==
    ASSUME MjolnirInv, NEW user \in User, NEW amount \in 1..bank[user],
           MjolnirDeposit(user, amount)
    PROVE  /\ MjolnirInv'
           /\ amount \in Nat /\ amount > 0
           /\ last_id \in Id /\ lockups[last_id] = None
           /\ lockups' = [lockups EXCEPT ![last_id] =
                [owner |-> user, amount |-> amount, release_timestamp |-> ReleaseTime]]
           /\ lockups'[last_id] \in Lockup
           /\ lockups'[last_id].owner = user /\ lockups'[last_id].amount = amount
           /\ bank'[Contract] = bank[Contract] + amount
           /\ overpaid' = overpaid
<1> DEFINE new == [owner |-> user, amount |-> amount, release_timestamp |-> ReleaseTime]
<1>1. amount \in Nat /\ amount > 0 /\ amount <= bank[user]
  BY Addresses DEF MjolnirInv, MjolnirTypeOK
<1>2. /\ last_id \in Id /\ last_id' = last_id + 1 /\ last_id \in Nat
      /\ last_id' \in 1..(MaxId + 1)
  BY MjolnirAssumption DEF MjolnirInv, MjolnirTypeOK, MjolnirDeposit, NextId, Id
<1>3. lockups[last_id] = None
  BY <1>2 DEF MjolnirInv, IdsFresh
<1>4. new \in Lockup /\ new.owner = user /\ new.amount = amount
  BY <1>1, TimeAssumption DEF Lockup, ReleaseTime, MjolnirInv, MjolnirTypeOK
<1>5. /\ lockups' = [lockups EXCEPT ![last_id] = new]
      /\ bank' = Sent(bank, user, Contract, amount)
      /\ overpaid' = overpaid /\ now' = now
  BY DEF MjolnirDeposit
<1> HIDE DEF new
<1>6. bank' \in [Account -> Nat] /\ bank'[Contract] = bank[Contract] + amount
  <2>1. bank \in [Account -> Nat] /\ user \in Account /\ Contract \in Account /\ user # Contract
    BY Addresses DEF MjolnirInv, MjolnirTypeOK
  <2>2. QED
    BY <1>1, <1>5, <2>1, Transfer
<1>7. lockups' \in [Id -> Lockup \cup {None}] /\ lockups'[last_id] = new
  BY <1>2, <1>4, <1>5 DEF MjolnirInv, MjolnirTypeOK
<1>8. IdsFresh'
  <2> SUFFICES ASSUME NEW id \in Id, id >= last_id'
               PROVE  lockups'[id] = None
    BY DEF IdsFresh
  <2>1. id # last_id /\ id >= last_id
    BY <1>2, MjolnirAssumption DEF Id
  <2>2. QED
    BY <1>2, <1>5, <2>1 DEF MjolnirInv, MjolnirTypeOK, IdsFresh
<1>9. MjolnirInv'
  BY <1>2, <1>5, <1>6, <1>7, <1>8 DEF MjolnirInv, MjolnirTypeOK
<1>10. QED
  BY <1>1, <1>2, <1>3, <1>4, <1>5, <1>6, <1>7, <1>9 DEF new

\* What a list of lockups pays: at least each lockup it names, and at least all of
\* them, each counted once.
LEMMA ListPays ==
    ASSUME MjolnirTypeOK, NEW ids \in Seq(Id),
           \A id \in Range(ids) : lockups[id] # None
    PROVE  /\ TotalAmount(ids) \in Nat /\ Locked(Range(ids)) \in Nat
           /\ Locked(Range(ids)) <= TotalAmount(ids)
           /\ TotalAmount(ids) > 0 => Locked(Range(ids)) > 0
           /\ \A id \in Range(ids) : /\ lockups[id].amount \in Nat
                                     /\ lockups[id].amount <= TotalAmount(ids)
           /\ Range(ids) \in SUBSET Id
<1> DEFINE S == DOMAIN ids
           h == [i \in S |-> lockups[ids[i]].amount]
           f == [id \in Range(ids) |-> lockups[id].amount]
<1>1. IsFiniteSet(S)
  BY FS_Interval
<1>2. Range(ids) = {ids[i] : i \in S} /\ Range(ids) \in SUBSET Id
  BY DEF Range
<1>3. \A id \in Range(ids) : lockups[id].amount \in Nat
  BY <1>2 DEF MjolnirTypeOK, Lockup
<1>4. /\ \A i \in S : h[i] = f[ids[i]] /\ h[i] \in Nat /\ ids[i] \in Range(ids)
      /\ \A id \in Range(ids) : f[id] = lockups[id].amount
  BY <1>2, <1>3
<1>5. /\ TotalAmount(ids) = SumFunctionOnSet(h, S)
      /\ Locked(Range(ids)) = SumFunctionOnSet(f, Range(ids))
  BY Zenon DEF TotalAmount, Locked
<1>6. IsFiniteSet(Range(ids))
  <2>1. IsFiniteSet(Id)
    BY MjolnirAssumption, FS_Interval DEF Id
  <2>2. QED
    BY <1>2, <2>1, FS_Subset
<1> HIDE DEF S, h, f
<1>7. /\ SumFunctionOnSet(h, S) \in Nat
      /\ \A i \in S : h[i] <= SumFunctionOnSet(h, S)
  BY <1>1, <1>4, SumNat
<1>8. /\ SumFunctionOnSet(f, Range(ids)) \in Nat
      /\ \A id \in Range(ids) : f[id] <= SumFunctionOnSet(f, Range(ids))
  BY <1>3, <1>4, <1>6, SumNat
<1>9. SumFunctionOnSet(f, Range(ids)) <= SumFunctionOnSet(h, S)
  <2>1. SumFunctionOnSet(f, {ids[i] : i \in S}) <= SumFunctionOnSet(h, S)
    BY <1>1, <1>4, SumOfList
  <2>2. QED
    BY <1>2, <2>1
<1>10. ASSUME SumFunctionOnSet(h, S) > 0
       PROVE  SumFunctionOnSet(f, Range(ids)) > 0
  <2>1. PICK i \in S : h[i] # 0
    BY <1>1, <1>10, SumZero
  <2>2. f[ids[i]] > 0 /\ ids[i] \in Range(ids) /\ f[ids[i]] \in Nat
    BY <1>4, <2>1
  <2>3. QED
    BY <1>8, <2>2
<1>11. \A id \in Range(ids) : lockups[id].amount <= TotalAmount(ids)
  BY <1>2, <1>4, <1>5, <1>7
<1>12. QED
  BY <1>2, <1>3, <1>5, <1>7, <1>8, <1>9, <1>10, <1>11

LEMMA LockupWithdrawStep ==
    ASSUME MjolnirInv, NEW user \in User, NEW ids \in IdLists,
           MjolnirWithdraw(user, ids)
    PROVE  /\ MjolnirInv'
           /\ ids \in Seq(Id)
           /\ \A id \in Range(ids) : lockups[id] # None
           /\ lockups' = [id \in Id |-> IF id \in Range(ids) THEN None ELSE lockups[id]]
           /\ TotalAmount(ids) \in Nat /\ TotalAmount(ids) > 0
           /\ bank'[Contract] = bank[Contract] - TotalAmount(ids)
           /\ bank'[user] = bank[user] + TotalAmount(ids)
           /\ overpaid' = overpaid + TotalAmount(ids) - Locked(Range(ids))
<1> DEFINE total == TotalAmount(ids) part == Locked(Range(ids))
<1>1. /\ ids \in Seq(Id)
      /\ \A id \in Range(ids) : lockups[id] # None
      /\ total > 0 /\ total <= bank[Contract]
      /\ bank' = Sent(bank, Contract, user, total)
      /\ overpaid' = overpaid + total - part
      /\ last_id' = last_id /\ now' = now
      /\ lockups' = [id \in Id |-> IF id \in Range(ids) THEN None ELSE lockups[id]]
  BY ListAssumption DEF MjolnirWithdraw, CanSend, Removed
<1>2. total \in Nat /\ part \in Nat /\ part <= total
  BY <1>1, ListPays DEF MjolnirInv
<1> HIDE DEF total, part
<1>3. /\ bank' \in [Account -> Nat]
      /\ bank'[Contract] = bank[Contract] - total
      /\ bank'[user] = bank[user] + total
  <2>1. bank \in [Account -> Nat] /\ user \in Account /\ Contract \in Account /\ user # Contract
    BY Addresses DEF MjolnirInv, MjolnirTypeOK
  <2>2. QED
    BY <1>1, <1>2, <2>1, Transfer
<1>4. overpaid' \in Nat
  BY <1>1, <1>2 DEF MjolnirInv, MjolnirTypeOK
<1>5. lockups' \in [Id -> Lockup \cup {None}] /\ IdsFresh'
  BY <1>1 DEF MjolnirInv, MjolnirTypeOK, IdsFresh
<1>6. MjolnirInv'
  BY <1>1, <1>3, <1>4, <1>5 DEF MjolnirInv, MjolnirTypeOK
<1>7. QED
  BY <1>1, <1>2, <1>3, <1>6 DEF total, part

LEMMA MjolnirTickStep ==
    ASSUME MjolnirInv, MjolnirTick \/ UNCHANGED mjolnirVars
    PROVE  MjolnirInv' /\ UNCHANGED <<bank, lockups, overpaid>>
BY DEF MjolnirInv, MjolnirTypeOK, IdsFresh, MjolnirTick, Tick, mjolnirVars

LEMMA MjolnirInvNext == MjolnirInv /\ [MjolnirNext]_mjolnirVars => MjolnirInv'
BY LockupDepositStep, LockupWithdrawStep, MjolnirTickStep DEF MjolnirNext

LEMMA MjolnirInvariant == MjolnirSpec => []MjolnirInv
BY MjolnirInvInit, MjolnirInvNext, PTL DEF MjolnirSpec

\* The stores keep their types: the bank pays every list that is accepted, and never
\* less than the lockups it ends.
THEOREM MjolnirTypeCorrect == MjolnirSpec => []MjolnirTypeOK
<1>1. MjolnirInv => MjolnirTypeOK
  BY DEF MjolnirInv
<1>2. QED
  BY <1>1, MjolnirInvariant, PTL

\* A lockup ends only after its period, and its owner is paid at least its amount.
THEOREM LockupProved == MjolnirSpec => LockupEndsPaid
<1> DEFINE Ended(id) ==
             LET owner == lockups[id].owner
             IN  /\ lockups'[id] = None
                 /\ now >= lockups[id].release_timestamp
                 /\ bank'[owner] >= bank[owner] + lockups[id].amount
           A == \A id \in Id : lockups[id] # None /\ lockups'[id] # lockups[id] => Ended(id)
<1>1. MjolnirInv /\ [MjolnirNext]_mjolnirVars => [A]_mjolnirVars
  <2> SUFFICES ASSUME MjolnirInv, MjolnirNext, NEW id \in Id,
                      lockups[id] # None, lockups'[id] # lockups[id]
               PROVE  Ended(id)
    OBVIOUS
  <2>1. ASSUME NEW user \in User, NEW amount \in 1..bank[user], MjolnirDeposit(user, amount)
        PROVE  Ended(id)
    <3>1. id = last_id
      BY <2>1, LockupDepositStep DEF MjolnirInv, MjolnirTypeOK
    <3>2. QED
      BY <2>1, <3>1, LockupDepositStep
  <2>2. ASSUME NEW user \in User, NEW ids \in IdLists, MjolnirWithdraw(user, ids)
        PROVE  Ended(id)
    <3>1. /\ ids \in Seq(Id) /\ \A i \in Range(ids) : lockups[i] # None
          /\ lockups' = [i \in Id |-> IF i \in Range(ids) THEN None ELSE lockups[i]]
          /\ TotalAmount(ids) \in Nat
          /\ bank'[user] = bank[user] + TotalAmount(ids)
      BY <2>2, LockupWithdrawStep
    <3>2. id \in Range(ids) /\ lockups'[id] = None
      BY <3>1
    <3>3. lockups[id].owner = user /\ now >= lockups[id].release_timestamp
      BY <2>2, <3>2 DEF MjolnirWithdraw, Authorized
    <3>4. lockups[id].amount \in Nat /\ lockups[id].amount <= TotalAmount(ids)
      BY <3>1, <3>2, ListPays DEF MjolnirInv
    <3>5. bank[user] \in Nat
      BY Addresses DEF MjolnirInv, MjolnirTypeOK
    <3>6. QED
      BY <3>1, <3>2, <3>3, <3>4, <3>5
  <2>3. CASE MjolnirTick
    BY <2>3, MjolnirTickStep
  <2>4. QED
    BY <2>1, <2>2, <2>3 DEF MjolnirNext
<1>2. QED
  BY <1>1, MjolnirInvariant, PTL DEF MjolnirSpec, LockupEndsPaid

\* The lockups that a user owns, in this state and in the next.
Owned(user) == {id \in Id : lockups[id] # None /\ lockups[id].owner = user}

LEMMA OwnedSum ==
    ASSUME MjolnirTypeOK, NEW user
    PROVE  /\ Owned(user) \in SUBSET Id /\ IsFiniteSet(Owned(user))
           /\ \A id \in Owned(user) : lockups[id].amount \in Nat
           /\ LockedBy(user) = SumFunctionOnSet([id \in Owned(user) |-> lockups[id].amount],
                                                Owned(user))
<1>1. Owned(user) \in SUBSET Id
  BY DEF Owned
<1>2. IsFiniteSet(Id)
  BY MjolnirAssumption, FS_Interval DEF Id
<1>3. IsFiniteSet(Owned(user))
  BY <1>1, <1>2, FS_Subset
<1>4. \A id \in Owned(user) : lockups[id].amount \in Nat
  BY DEF Owned, MjolnirTypeOK, Lockup
<1>5. LockedBy(user) = SumFunctionOnSet([id \in Owned(user) |-> lockups[id].amount], Owned(user))
  BY Zenon DEF LockedBy, Locked, Owned
<1>6. QED
  BY <1>1, <1>3, <1>4, <1>5

\* The same of the next state, whose functions are other functions.
LEMMA OwnedSumNext ==
    ASSUME MjolnirTypeOK', NEW user
    PROVE  LET owned == {id \in Id : lockups'[id] # None /\ lockups'[id].owner = user}
           IN  /\ owned \in SUBSET Id /\ IsFiniteSet(owned)
               /\ \A id \in owned : lockups'[id].amount \in Nat
               /\ LockedBy(user)' = SumFunctionOnSet([id \in owned |-> lockups'[id].amount], owned)
<1> DEFINE owned == {id \in Id : lockups'[id] # None /\ lockups'[id].owner = user}
<1>1. owned \in SUBSET Id
  OBVIOUS
<1>2. IsFiniteSet(Id)
  BY MjolnirAssumption, FS_Interval DEF Id
<1>3. IsFiniteSet(owned)
  BY <1>1, <1>2, FS_Subset
<1>4. \A id \in owned : lockups'[id].amount \in Nat
  BY DEF MjolnirTypeOK, Lockup
<1>5. LockedBy(user)' = SumFunctionOnSet([id \in owned |-> lockups'[id].amount], owned)
  BY Zenon DEF LockedBy, Locked
<1>6. QED
  BY <1>1, <1>3, <1>4, <1>5

\* A deposit adds its amount to what its sender has locked, and to nobody else.
LEMMA DepositLocks ==
    ASSUME MjolnirInv, NEW user \in User, NEW amount \in 1..bank[user],
           MjolnirDeposit(user, amount), NEW u \in User
    PROVE  LockedBy(u)' = IF u = user THEN LockedBy(u) + amount ELSE LockedBy(u)
<1> DEFINE old == Owned(u)
           new == {id \in Id : lockups'[id] # None /\ lockups'[id].owner = u}
           f == [id \in old |-> lockups[id].amount]
           g == [id \in new |-> lockups'[id].amount]
<1>1. /\ MjolnirTypeOK /\ MjolnirTypeOK' /\ amount \in Nat
      /\ last_id \in Id /\ lockups[last_id] = None /\ last_id \notin old
      /\ lockups'[last_id] # None
      /\ lockups'[last_id].owner = user /\ lockups'[last_id].amount = amount
      /\ \A id \in Id : id # last_id => lockups'[id] = lockups[id]
  BY LockupDepositStep, NoLockupAssumption DEF MjolnirInv, MjolnirTypeOK, Owned
<1>2. /\ old \in SUBSET Id /\ IsFiniteSet(old)
      /\ LockedBy(u) = SumFunctionOnSet(f, old)
      /\ \A id \in old : f[id] \in Nat /\ f[id] = lockups[id].amount
  BY <1>1, OwnedSum
<1>3. /\ IsFiniteSet(new)
      /\ LockedBy(u)' = SumFunctionOnSet(g, new)
      /\ \A id \in new : g[id] \in Nat /\ g[id] = lockups'[id].amount
  BY <1>1, OwnedSumNext
<1>4. old \subseteq new /\ new \subseteq old \cup {last_id} /\ (last_id \in new <=> u = user)
  BY <1>1 DEF Owned
<1>5. \A id \in old : g[id] = f[id]
  BY <1>1, <1>2, <1>3, <1>4
<1>6. u = user => g[last_id] = amount
  BY <1>1, <1>3, <1>4
<1> HIDE DEF old, new, f, g
<1>7. SumFunctionOnSet(g, old) = SumFunctionOnSet(f, old) /\ SumFunctionOnSet(f, old) \in Nat
  BY <1>2, <1>5, SumSame, SumNat
<1>8. CASE u = user
  <2>1. new = old \cup {last_id}
    BY <1>4, <1>8
  <2>2. \A id \in old \cup {last_id} : g[id] \in Int
    BY <1>3, <2>1
  <2>3. SumFunctionOnSet(g, old \cup {last_id}) = g[last_id] + SumFunctionOnSet(g, old)
    BY <1>1, <1>2, <2>2, SumAdd
  <2>4. QED
    BY <1>1, <1>2, <1>3, <1>6, <1>7, <1>8, <2>1, <2>3
<1>9. CASE u # user
  <2>1. new = old
    BY <1>4, <1>9
  <2>2. QED
    BY <1>2, <1>3, <1>7, <1>9, <2>1
<1>10. QED
  BY <1>8, <1>9

\* A withdrawal takes the lockups it names, each once, from what its sender has
\* locked, and nothing from anybody else.
LEMMA WithdrawUnlocks ==
    ASSUME MjolnirInv, NEW user \in User, NEW ids \in IdLists,
           MjolnirWithdraw(user, ids), NEW u \in User
    PROVE  LockedBy(u)' = IF u = user THEN LockedBy(u) - Locked(Range(ids)) ELSE LockedBy(u)
<1> DEFINE old == Owned(u)
           new == {id \in Id : lockups'[id] # None /\ lockups'[id].owner = u}
           gone == Range(ids)
           f == [id \in old |-> lockups[id].amount]
           g == [id \in new |-> lockups'[id].amount]
           h == [id \in gone |-> lockups[id].amount]
<1>1. /\ MjolnirTypeOK /\ MjolnirTypeOK' /\ ids \in Seq(Id)
      /\ \A id \in gone : lockups[id] # None
      /\ lockups' = [id \in Id |-> IF id \in gone THEN None ELSE lockups[id]]
  BY LockupWithdrawStep DEF MjolnirInv
<1>2. gone \in SUBSET Id /\ Locked(gone) \in Nat /\ Locked(gone) = SumFunctionOnSet(h, gone)
  <2>1. Locked(gone) = SumFunctionOnSet(h, gone)
    BY Zenon DEF Locked
  <2>2. QED
    BY <1>1, <2>1, ListPays
<1>3. /\ old \in SUBSET Id /\ IsFiniteSet(old)
      /\ LockedBy(u) = SumFunctionOnSet(f, old)
      /\ \A id \in old : f[id] \in Nat /\ f[id] = lockups[id].amount
  BY <1>1, OwnedSum
<1>4. LockedBy(u)' = SumFunctionOnSet(g, new)
  BY <1>1, OwnedSumNext
<1>5. \A id \in gone : lockups[id].owner = user
  BY DEF MjolnirWithdraw, Authorized
<1>6. new = old \ gone /\ (u = user => gone \subseteq old) /\ (u # user => new = old)
  BY <1>1, <1>2, <1>5 DEF Owned
<1>7. \A id \in new : g[id] = f[id] /\ f[id] \in Int
  <2> SUFFICES ASSUME NEW id \in new PROVE g[id] = f[id] /\ f[id] \in Int
    OBVIOUS
  <2>1. id \in Id /\ id \in old /\ id \notin gone
    BY <1>6
  <2>2. lockups'[id] = lockups[id]
    BY <1>1, <2>1
  <2>3. g[id] = lockups'[id].amount /\ f[id] = lockups[id].amount /\ f[id] \in Nat
    BY <1>3, <2>1
  <2>4. QED
    BY <2>2, <2>3
<1>8. IsFiniteSet(new)
  BY <1>3, <1>6, FS_Subset
<1>9. u = user => \A id \in gone : h[id] = f[id]
  BY <1>3, <1>6
<1> HIDE DEF old, new, gone, f, g, h
<1>10. SumFunctionOnSet(g, new) = SumFunctionOnSet(f, new)
  BY <1>7, <1>8, SumSame
<1>11. SumFunctionOnSet(f, old) \in Nat
  BY <1>3, SumNat
<1>12. CASE u = user
  <2>1. gone \in SUBSET old /\ IsFiniteSet(gone)
    BY <1>3, <1>6, <1>12, FS_Subset
  <2>2. SumFunctionOnSet(h, gone) = SumFunctionOnSet(f, gone)
    BY <1>3, <1>9, <1>12, <2>1, SumSame
  <2>3. SumFunctionOnSet(f, old) = SumFunctionOnSet(f, gone) + SumFunctionOnSet(f, old \ gone)
    BY <1>3, <2>1, SumSplit
  <2>4. IsFiniteSet(old \ gone) /\ \A id \in old \ gone : f[id] \in Nat
    BY <1>3, <1>6, <1>8
  <2>5. SumFunctionOnSet(f, old \ gone) \in Nat
    BY <2>4, SumNat
  <2>6. QED
    BY <1>2, <1>3, <1>4, <1>6, <1>10, <1>12, <2>2, <2>3, <2>5 DEF gone
<1>13. CASE u # user
  BY <1>3, <1>4, <1>6, <1>10, <1>13
<1>14. QED
  BY <1>12, <1>13

\* Lockups are kept as the abstract custody specification says, once what lists with
\* repeated ids took beyond them is added back.
THEOREM MjolnirRefinement == MjolnirSpec => MjolnirImplementsCustody
<1> DEFINE Held == bank[Contract] + overpaid
           Credit == [u \in User |-> LockedBy(u)]
<1>1. MjolnirInit => Lockups!Init
  <2> SUFFICES ASSUME MjolnirInit PROVE Lockups!Init
    OBVIOUS
  <2>1. bank[Contract] + overpaid \in Nat
    BY BankAssumption, Addresses DEF MjolnirInit
  <2>2. ASSUME NEW u \in User PROVE LockedBy(u) = 0
    <3>1. Owned(u) = {}
      BY DEF MjolnirInit, Owned
    <3>2. MjolnirTypeOK
      BY MjolnirInvInit DEF MjolnirInv
    <3>3. QED
      BY <3>1, <3>2, OwnedSum, SumEmpty
  <2>3. QED
    BY <2>1, <2>2 DEF Lockups!Init
<1>2. MjolnirInv /\ MjolnirInv' /\ [MjolnirNext]_mjolnirVars => [Lockups!Next]_(Lockups!vars)
  <2> SUFFICES ASSUME MjolnirInv, MjolnirInv', [MjolnirNext]_mjolnirVars
               PROVE  [Lockups!Next]_(Lockups!vars)
    OBVIOUS
  <2>1. /\ bank[Contract] \in Nat /\ bank'[Contract] \in Nat
        /\ overpaid \in Nat /\ overpaid' \in Nat
        /\ Held \in Nat /\ Held' \in Nat
    BY Addresses DEF MjolnirInv, MjolnirTypeOK
  <2>2. ASSUME NEW u \in User PROVE LockedBy(u) \in Nat
    <3> DEFINE f == [id \in Owned(u) |-> lockups[id].amount]
    <3>1. /\ IsFiniteSet(Owned(u)) /\ \A id \in Owned(u) : f[id] \in Nat
          /\ LockedBy(u) = SumFunctionOnSet(f, Owned(u))
      BY OwnedSum DEF MjolnirInv
    <3> HIDE DEF f
    <3>2. QED
      BY <3>1, SumNat
  <2>3. ASSUME NEW user \in User, NEW amount \in 1..bank[user], MjolnirDeposit(user, amount)
        PROVE  Lockups!PayIn(user)
    <3>1. /\ amount \in Nat /\ amount > 0 /\ overpaid' = overpaid
          /\ bank'[Contract] = bank[Contract] + amount
      BY <2>3, LockupDepositStep
    <3>2. Held' > Held /\ Held' - Held = amount
      BY <2>1, <3>1
    <3>3. \A u \in User :
            LockedBy(u)' = IF u = user THEN LockedBy(u) + amount ELSE LockedBy(u)
      BY <2>3, DepositLocks
    <3>4. Credit' = [Credit EXCEPT ![user] = @ + amount]
      BY <3>3
    <3>5. QED
      BY <2>1, <3>2, <3>4 DEF Lockups!PayIn
  <2>4. ASSUME NEW user \in User, NEW ids \in IdLists, MjolnirWithdraw(user, ids)
        PROVE  Lockups!PayOut(user)
    <3> DEFINE part == Locked(Range(ids)) total == TotalAmount(ids)
    <3>1. /\ total \in Nat /\ total > 0
          /\ bank'[Contract] = bank[Contract] - total
          /\ overpaid' = overpaid + total - part
          /\ ids \in Seq(Id) /\ \A id \in Range(ids) : lockups[id] # None
      BY <2>4, LockupWithdrawStep
    <3>2. part \in Nat /\ part > 0
      BY <3>1, ListPays DEF MjolnirInv
    <3>3. \A u \in User :
            LockedBy(u)' = IF u = user THEN LockedBy(u) - part ELSE LockedBy(u)
      BY <2>4, WithdrawUnlocks
    <3> HIDE DEF part, total
    <3>4. Held' < Held /\ Held - Held' = part
      BY <2>1, <3>1, <3>2
    <3>5. Credit' = [Credit EXCEPT ![user] = @ - part]
      BY <3>3
    <3>6. part <= LockedBy(user)
      <4> DEFINE owned == {id \in Id : lockups'[id] # None /\ lockups'[id].owner = user}
                 g == [id \in owned |-> lockups'[id].amount]
      <4>1. /\ IsFiniteSet(owned) /\ \A id \in owned : g[id] \in Nat
            /\ LockedBy(user)' = SumFunctionOnSet(g, owned)
        BY OwnedSumNext DEF MjolnirInv
      <4> HIDE DEF owned, g
      <4>2. LockedBy(user)' \in Nat
        BY <4>1, SumNat
      <4>3. QED
        BY <2>2, <3>2, <3>3, <4>2
    <3>7. QED
      BY <2>1, <3>4, <3>5, <3>6 DEF Lockups!PayOut
  <2>5. CASE MjolnirTick \/ UNCHANGED mjolnirVars
    BY <2>5, MjolnirTickStep DEF Lockups!vars, LockedBy, Locked
  <2>6. QED
    BY <2>3, <2>4, <2>5 DEF MjolnirNext, Lockups!Next
<1>3. QED
  BY <1>1, <1>2, MjolnirInvariant, PTL DEF MjolnirSpec, MjolnirImplementsCustody, Lockups!Spec
=============================================================================
