-------------------------- MODULE BrisingamenProofs --------------------------
(***************************************************************************)
(* Theorems about Brisingamen for every set of users, every unit of        *)
(* Decimal and every endowment.                                            *)
(***************************************************************************)
EXTENDS Brisingamen, BankProofs

\* No entry is ahead of the global index, so that the subtraction of
\* update_rewards never panics.
IndexBehind ==
    \A u \in User : users[u] # None => users[u].user_index <= global_index

IInv == TypeOK /\ StakeBacked /\ IndexBehind

\* The quotient of natural numbers that Decimal keeps is a natural number.
LEMMA FloorNat ==
    ASSUME NEW x \in Nat, NEW y \in Nat, NEW d \in Nat, d > 0
    PROVE  (x * y) \div d \in Nat
<1> DEFINE p == x * y
<1>1. p \in Nat
  OBVIOUS
<1> HIDE DEF p
<1>2. p \div d \in Nat
  BY <1>1, SMT
<1>3. QED
  BY <1>2 DEF p

\* update_rewards keeps the stake, moves the index to the global one or leaves
\* an entry without stake alone, and never takes pending rewards away.
LEMMA UpdateRewardsEntry ==
    ASSUME global_index \in Nat, NEW info \in UserRewardInfo,
           info.user_index <= global_index
    PROVE  /\ UpdateRewards(info) \in UserRewardInfo
           /\ UpdateRewards(info).staked_amount = info.staked_amount
           /\ UpdateRewards(info).user_index <= global_index
           /\ info.staked_amount # 0 => UpdateRewards(info).user_index = global_index
           /\ UpdateRewards(info).pending_rewards >= info.pending_rewards
<1>1. global_index - info.user_index \in Nat /\ info.staked_amount \in Nat
  BY DEF UserRewardInfo
<1>2. Accrued(info) \in Nat
  BY <1>1, FloorNat, ScaleAssumption DEF Accrued
<1>3. CASE info.staked_amount = 0
  BY <1>3 DEF UpdateRewards, UserRewardInfo
<1>4. CASE info.staked_amount # 0
  <2>1. UpdateRewards(info) =
          [staked_amount |-> info.staked_amount,
           user_index |-> global_index,
           pending_rewards |-> info.pending_rewards + Accrued(info)]
    BY <1>4 DEF UpdateRewards, UserRewardInfo
  <2>2. info.pending_rewards + Accrued(info) \in Nat
        /\ info.pending_rewards + Accrued(info) >= info.pending_rewards
    BY <1>2 DEF UserRewardInfo
  <2>3. QED
    BY <1>1, <1>4, <2>1, <2>2 DEF UserRewardInfo
<1>5. QED
  BY <1>3, <1>4

\* The addresses the transfers are between.
LEMMA Addresses ==
    /\ Contract \in Account /\ Owner \in Account
    /\ Contract # Owner
    /\ \A u \in User : u \in Account /\ u # Contract
BY AddressAssumption DEF Account

-----------------------------------------------------------------------------
LEMMA InvInit == Init => IInv
BY BankAssumption, Addresses DEF Init, IInv, TypeOK, StakeBacked, IndexBehind

LEMMA IncreaseRewardStep ==
    ASSUME IInv, NEW amount \in 1..rewards[Owner], IncreaseReward(amount)
    PROVE  IInv' /\ global_index' >= global_index
<1>1. amount \in Nat /\ amount <= rewards[Owner]
  BY Addresses DEF IInv, TypeOK
<1>2. FromRatio(amount, total_staked) \in Nat
  BY <1>1, FloorNat, ScaleAssumption DEF IInv, TypeOK, IncreaseReward, FromRatio
<1>3. global_index' \in Nat /\ global_index' >= global_index
  BY <1>2 DEF IInv, TypeOK, IncreaseReward
<1>4. rewards' \in [Account -> Nat]
  <2>1. rewards \in [Account -> Nat] /\ Owner \in Account /\ Contract \in Account
    BY Addresses DEF IInv, TypeOK
  <2>2. rewards' = Sent(rewards, Owner, Contract, amount)
    BY DEF IncreaseReward
  <2>3. QED
    BY ONLY <1>1, <2>1, <2>2, SentBank
<1>5. TypeOK' /\ StakeBacked'
  BY <1>3, <1>4 DEF IInv, TypeOK, StakeBacked, IncreaseReward
<1>6. IndexBehind'
  <2> SUFFICES ASSUME NEW u \in User, users[u] # None
               PROVE  users[u].user_index <= global_index'
    BY DEF IndexBehind, IncreaseReward
  <2>1. users[u] \in UserRewardInfo /\ users[u].user_index <= global_index
    BY DEF IInv, TypeOK, IndexBehind
  <2>2. QED
    BY <2>1, <1>3 DEF IInv, TypeOK, UserRewardInfo
<1>7. QED
  BY <1>3, <1>5, <1>6 DEF IInv

\* The entry deposit works on is an entry, and not ahead of the index.
LEMMA EntryType ==
    ASSUME IInv, NEW user \in User
    PROVE  /\ Entry(user) \in UserRewardInfo
           /\ Entry(user).user_index <= global_index
           /\ Entry(user).staked_amount = Staked(user)
           /\ users[user] # None => users[user] = Entry(user)
BY DEF IInv, TypeOK, IndexBehind, Entry, NewInfo, UserRewardInfo, Staked

LEMMA DepositStep ==
    ASSUME IInv, NEW user \in User, NEW amount \in 1..bank[user],
           Deposit(user, amount)
    PROVE  /\ IInv'
           /\ amount \in Nat /\ amount > 0
           /\ bank'[Contract] = bank[Contract] + amount
           /\ [u \in User |-> Staked(u)]' =
                [[u \in User |-> Staked(u)] EXCEPT ![user] = @ + amount]
<1>1. amount \in Nat /\ amount > 0 /\ amount <= bank[user]
  BY Addresses DEF IInv, TypeOK
<1> DEFINE old == UpdateRewards(Entry(user))
           new == [old EXCEPT !.staked_amount = @ + amount]
<1>2. /\ old \in UserRewardInfo
      /\ old.user_index <= global_index
      /\ old.staked_amount = Staked(user)
  BY EntryType, UpdateRewardsEntry DEF IInv, TypeOK
<1>3. users' = [users EXCEPT ![user] = new]
  BY DEF Deposit
<1> HIDE DEF old
<1>4. /\ new \in UserRewardInfo
      /\ new.user_index = old.user_index
      /\ new.staked_amount = Staked(user) + amount
  BY <1>1, <1>2 DEF UserRewardInfo
<1> HIDE DEF new
<1>5. /\ bank' \in [Account -> Nat]
      /\ bank'[Contract] = bank[Contract] + amount
  <2>1. /\ bank \in [Account -> Nat] /\ user \in Account /\ Contract \in Account
        /\ user # Contract
    BY Addresses DEF IInv, TypeOK
  <2>2. bank' = Sent(bank, user, Contract, amount)
    BY DEF Deposit
  <2>3. QED
    BY ONLY <1>1, <2>1, <2>2, SentBank
<1>6. TypeOK'
  BY <1>1, <1>3, <1>4, <1>5 DEF IInv, TypeOK, Deposit
<1>7. StakeBacked'
  BY <1>1, <1>5, Addresses DEF IInv, TypeOK, StakeBacked, Deposit
<1>8. IndexBehind'
  BY <1>2, <1>3, <1>4 DEF IInv, TypeOK, IndexBehind, Deposit
<1>9. [u \in User |-> Staked(u)]' = [[u \in User |-> Staked(u)] EXCEPT ![user] = @ + amount]
  <2>1. \A u \in User : Staked(u)' = IF u = user THEN Staked(u) + amount ELSE Staked(u)
    BY <1>3, <1>4, NoneAssumption DEF IInv, TypeOK, Staked
  <2>2. QED
    BY <2>1
<1>10. QED
  BY <1>1, <1>5, <1>6, <1>7, <1>8, <1>9 DEF IInv

LEMMA WithdrawStep ==
    ASSUME IInv, NEW user \in User, NEW amount \in 1..(total_staked + 1),
           Withdraw(user, amount)
    PROVE  /\ IInv'
           /\ amount \in Nat /\ amount > 0 /\ amount <= Staked(user)
           /\ amount <= bank[Contract]
           /\ bank'[Contract] = bank[Contract] - amount
           /\ [u \in User |-> Staked(u)]' =
                [[u \in User |-> Staked(u)] EXCEPT ![user] = @ - amount]
           /\ users'[user] \in UserRewardInfo
           /\ users'[user].pending_rewards = UpdateRewards(users[user]).pending_rewards
<1>1. /\ amount \in Nat /\ amount > 0
      /\ amount <= total_staked /\ amount <= bank[Contract]
      /\ users[user] # None /\ users[user] \in UserRewardInfo
      /\ amount <= users[user].staked_amount
  BY DEF IInv, TypeOK, Withdraw, HasStake, CanSend
<1> DEFINE old == UpdateRewards(users[user])
           new == [old EXCEPT !.staked_amount = @ - amount]
<1>2. /\ old \in UserRewardInfo
      /\ old.user_index <= global_index
      /\ old.staked_amount = Staked(user)
  BY <1>1, UpdateRewardsEntry DEF IInv, TypeOK, IndexBehind, Staked
<1>3. users' = [users EXCEPT ![user] = new]
  BY DEF Withdraw
<1> HIDE DEF old
<1>4. amount <= Staked(user) /\ Staked(user) \in Nat
  BY <1>1 DEF Staked, UserRewardInfo
<1>5. /\ new \in UserRewardInfo
      /\ new.user_index = old.user_index
      /\ new.pending_rewards = old.pending_rewards
      /\ new.staked_amount = Staked(user) - amount
  BY <1>1, <1>2, <1>4 DEF UserRewardInfo
<1> HIDE DEF new
<1>6. /\ bank' \in [Account -> Nat]
      /\ bank'[Contract] = bank[Contract] - amount
  <2>1. /\ bank \in [Account -> Nat] /\ user \in Account /\ Contract \in Account
        /\ user # Contract
    BY Addresses DEF IInv, TypeOK
  <2>2. bank' = Sent(bank, Contract, user, amount)
    BY DEF Withdraw
  <2>3. QED
    BY ONLY <1>1, <2>1, <2>2, SentBank
<1>7. TypeOK'
  BY <1>1, <1>3, <1>5, <1>6 DEF IInv, TypeOK, Withdraw
<1>8. StakeBacked'
  BY <1>1, <1>6, Addresses DEF IInv, TypeOK, StakeBacked, Withdraw
<1>9. IndexBehind'
  BY <1>2, <1>3, <1>5 DEF IInv, TypeOK, IndexBehind, Withdraw
<1>10. [u \in User |-> Staked(u)]' = [[u \in User |-> Staked(u)] EXCEPT ![user] = @ - amount]
  <2>1. \A u \in User : Staked(u)' = IF u = user THEN Staked(u) - amount ELSE Staked(u)
    BY <1>3, <1>5, NoneAssumption DEF IInv, TypeOK, Staked
  <2>2. QED
    BY <2>1
<1>11. users'[user] = new
  BY <1>3 DEF IInv, TypeOK
<1>12. QED
  BY <1>1, <1>4, <1>5, <1>6, <1>7, <1>8, <1>9, <1>10, <1>11 DEF IInv, old

LEMMA ClaimRewardsStep ==
    ASSUME IInv, NEW user \in User, ClaimRewards(user)
    PROVE  /\ IInv'
           /\ [u \in User |-> Staked(u)]' = [u \in User |-> Staked(u)]
           /\ UNCHANGED bank
<1>1. users[user] # None /\ users[user] \in UserRewardInfo
  BY DEF IInv, TypeOK, ClaimRewards
<1> DEFINE old == UpdateRewards(users[user])
           new == [old EXCEPT !.pending_rewards = 0]
<1>2. /\ old \in UserRewardInfo
      /\ old.user_index <= global_index
      /\ old.staked_amount = Staked(user)
      /\ old.pending_rewards = Claimable(user)
  BY <1>1, UpdateRewardsEntry DEF IInv, TypeOK, IndexBehind, Staked, Claimable
<1>3. users' = [users EXCEPT ![user] = new]
  BY DEF ClaimRewards
<1> HIDE DEF old
<1>4. /\ new \in UserRewardInfo
      /\ new.user_index = old.user_index
      /\ new.staked_amount = Staked(user)
  BY <1>2 DEF UserRewardInfo
<1> HIDE DEF new
<1>5. Claimable(user) \in Nat /\ Claimable(user) <= rewards[Contract]
  BY <1>2 DEF ClaimRewards, CanSend, UserRewardInfo
<1>6. rewards' \in [Account -> Nat]
  <2>1. rewards \in [Account -> Nat] /\ user \in Account /\ Contract \in Account
    BY Addresses DEF IInv, TypeOK
  <2>2. rewards' = Sent(rewards, Contract, user, Claimable(user))
    BY DEF ClaimRewards
  <2>3. QED
    BY ONLY <1>5, <2>1, <2>2, SentBank
<1>7. TypeOK'
  BY <1>3, <1>4, <1>6 DEF IInv, TypeOK, ClaimRewards
<1>8. StakeBacked' /\ UNCHANGED bank
  BY DEF IInv, StakeBacked, ClaimRewards
<1>9. IndexBehind'
  BY <1>2, <1>3, <1>4 DEF IInv, TypeOK, IndexBehind, ClaimRewards
<1>10. \A u \in User : Staked(u)' = Staked(u)
  BY <1>3, <1>4, NoneAssumption DEF IInv, TypeOK, Staked
<1>11. QED
  BY <1>7, <1>8, <1>9, <1>10 DEF IInv

LEMMA InvNext == IInv /\ [Next]_vars => IInv'
<1> SUFFICES ASSUME IInv, [Next]_vars
             PROVE  IInv'
  OBVIOUS
<1>1. ASSUME NEW amount \in 1..rewards[Owner], IncreaseReward(amount)
      PROVE  IInv'
  BY <1>1, IncreaseRewardStep
<1>2. ASSUME NEW user \in User, NEW amount \in 1..bank[user], Deposit(user, amount)
      PROVE  IInv'
  BY <1>2, DepositStep
<1>3. ASSUME NEW user \in User, NEW amount \in 1..(total_staked + 1),
             Withdraw(user, amount)
      PROVE  IInv'
  BY <1>3, WithdrawStep
<1>4. ASSUME NEW user \in User, ClaimRewards(user)
      PROVE  IInv'
  BY <1>4, ClaimRewardsStep
<1>5. CASE UNCHANGED vars
  BY <1>5 DEF vars, IInv, TypeOK, StakeBacked, IndexBehind
<1>6. QED
  BY <1>1, <1>2, <1>3, <1>4, <1>5 DEF Next

LEMMA Invariant == Spec => []IInv
BY InvInit, InvNext, PTL DEF Spec

\* Every store keeps its types: no unsigned subtraction of the contract or of
\* the bank goes below zero, in any sequence of transactions.
THEOREM TypeCorrect == Spec => []TypeOK
<1>1. IInv => TypeOK
  BY DEF IInv
<1>2. QED
  BY <1>1, Invariant, PTL

\* The contract always owns at least what is staked.
THEOREM StakeAlwaysBacked == Spec => []StakeBacked
<1>1. IInv => StakeBacked
  BY DEF IInv
<1>2. QED
  BY <1>1, Invariant, PTL

\* The subtraction of update_rewards never panics.
THEOREM UpdateNeverPanics == Spec => []IndexBehind
<1>1. IInv => IndexBehind
  BY DEF IInv
<1>2. QED
  BY <1>1, Invariant, PTL

\* Stakes are kept like deposits: every deposit is a PayIn, every withdrawal a
\* PayOut, everything else a stuttering step.
THEOREM Refinement == Spec => ImplementsCustody
<1>1. Init => Deposits!Init
  BY BankAssumption, Addresses DEF Init, Deposits!Init, Staked
<1>2. IInv /\ [Next]_vars => [Deposits!Next]_(Deposits!vars)
  <2> SUFFICES ASSUME IInv, [Next]_vars
               PROVE  [Deposits!Next]_(Deposits!vars)
    OBVIOUS
  <2>1. bank[Contract] \in Nat /\ bank'[Contract] \in Nat
    BY InvNext, Addresses DEF IInv, TypeOK
  <2>2. ASSUME NEW amount \in 1..rewards[Owner], IncreaseReward(amount)
        PROVE  UNCHANGED Deposits!vars
    BY <2>2 DEF IncreaseReward, Deposits!vars, Staked
  <2>3. ASSUME NEW user \in User, NEW amount \in 1..bank[user], Deposit(user, amount)
        PROVE  Deposits!PayIn(user)
    <3>1. /\ amount \in Nat /\ amount > 0
          /\ bank'[Contract] = bank[Contract] + amount
          /\ [u \in User |-> Staked(u)]' =
               [[u \in User |-> Staked(u)] EXCEPT ![user] = @ + amount]
      BY <2>3, DepositStep
    <3>2. bank'[Contract] > bank[Contract] /\ amount = bank'[Contract] - bank[Contract]
      BY <2>1, <3>1
    <3>3. [u \in User |-> Staked(u)]' = [[u \in User |-> Staked(u)] EXCEPT
            ![user] = @ + (bank'[Contract] - bank[Contract])]
      BY <3>1, <3>2, Zenon
    <3>4. QED
      BY <2>1, <3>2, <3>3, Zenon DEF Deposits!PayIn
  <2>4. ASSUME NEW user \in User, NEW amount \in 1..(total_staked + 1),
               Withdraw(user, amount)
        PROVE  Deposits!PayOut(user)
    <3>1. /\ amount \in Nat /\ amount > 0 /\ amount <= Staked(user)
          /\ bank'[Contract] = bank[Contract] - amount
          /\ [u \in User |-> Staked(u)]' =
               [[u \in User |-> Staked(u)] EXCEPT ![user] = @ - amount]
      BY <2>4, WithdrawStep
    <3>2. bank'[Contract] < bank[Contract] /\ amount = bank[Contract] - bank'[Contract]
      BY <2>1, <3>1
    <3>3. [u \in User |-> Staked(u)]' = [[u \in User |-> Staked(u)] EXCEPT
            ![user] = @ - (bank[Contract] - bank'[Contract])]
      BY <3>1, <3>2, Zenon
    <3>4. bank[Contract] - bank'[Contract] <= [u \in User |-> Staked(u)][user]
      BY <3>1, <3>2
    <3>5. QED
      BY <2>1, <3>2, <3>3, <3>4, Zenon DEF Deposits!PayOut
  <2>5. ASSUME NEW user \in User, ClaimRewards(user)
        PROVE  UNCHANGED Deposits!vars
    BY <2>5, ClaimRewardsStep DEF Deposits!vars
  <2>6. CASE UNCHANGED vars
    BY <2>6 DEF vars, Deposits!vars, Staked
  <2>7. QED
    BY <2>2, <2>3, <2>4, <2>5, <2>6 DEF Next, Deposits!Next
<1>3. QED
  BY <1>1, <1>2, Invariant, PTL DEF Spec, ImplementsCustody, Deposits!Spec

-----------------------------------------------------------------------------
\* What an entry is worth at an index: Claimable without the state in it.
Worth(info, index) ==
    IF info.staked_amount = 0 THEN info.pending_rewards
    ELSE info.pending_rewards
           + (((index - info.user_index) * info.staked_amount) \div Scale)

\* A larger numerator never gives a smaller quotient.
LEMMA FloorMonotone ==
    ASSUME NEW x \in Nat, NEW y \in Nat, x <= y, NEW d \in Nat, d > 0
    PROVE  x \div d <= y \div d
BY SMT

LEMMA WorthGrows ==
    ASSUME NEW info \in UserRewardInfo, NEW i \in Nat, NEW j \in Nat,
           info.user_index <= i, i <= j
    PROVE  /\ Worth(info, i) \in Nat
           /\ Worth(info, i) >= info.pending_rewards
           /\ Worth(info, i) <= Worth(info, j)
           /\ info.user_index = i => Worth(info, i) = info.pending_rewards
<1> DEFINE a == i - info.user_index
           b == j - info.user_index
           s == info.staked_amount
<1>1. /\ a \in Nat /\ b \in Nat /\ a <= b /\ s \in Nat
      /\ info.pending_rewards \in Nat
  BY DEF UserRewardInfo
<1>2. info.user_index = i => a = 0
  BY DEF UserRewardInfo
<1>3. /\ Worth(info, i) = IF s = 0 THEN info.pending_rewards
                          ELSE info.pending_rewards + ((a * s) \div Scale)
      /\ Worth(info, j) = IF s = 0 THEN info.pending_rewards
                          ELSE info.pending_rewards + ((b * s) \div Scale)
  BY Zenon DEF Worth
<1> HIDE DEF a, b, s
<1>4. /\ a * s \in Nat /\ b * s \in Nat /\ a * s <= b * s
      /\ a = 0 => a * s = 0
  BY <1>1
<1>5. /\ (a * s) \div Scale \in Nat
      /\ (b * s) \div Scale \in Nat
      /\ (a * s) \div Scale <= (b * s) \div Scale
  BY <1>1, <1>4, FloorNat, FloorMonotone, ScaleAssumption
<1>6. a = 0 => (a * s) \div Scale = 0
  <2>1. 0 \div Scale = 0
    BY ScaleAssumption, SMT
  <2>2. QED
    BY <1>4, <2>1, Zenon
<1>7. QED
  BY <1>1, <1>2, <1>3, <1>5, <1>6

LEMMA ClaimableIsWorth ==
    ASSUME NEW u \in User
    PROVE  /\ Claimable(u) = IF users[u] = None THEN 0
                             ELSE UpdateRewards(users[u]).pending_rewards
           /\ TypeOK => Claimable(u) = IF users[u] = None THEN 0
                                       ELSE Worth(users[u], global_index)
<1>1. ASSUME users[u] \in UserRewardInfo
      PROVE  UpdateRewards(users[u]).pending_rewards = Worth(users[u], global_index)
  BY <1>1 DEF UpdateRewards, Worth, Accrued, UserRewardInfo
<1>2. QED
  BY <1>1 DEF Claimable, TypeOK

\* The entry deposit, withdraw and claim store after update_rewards.
LEMMA UpdatedWorth ==
    ASSUME global_index \in Nat, NEW info \in UserRewardInfo,
           info.user_index <= global_index
    PROVE  /\ UpdateRewards(info).pending_rewards = Worth(info, global_index)
           /\ info.staked_amount = 0 => UpdateRewards(info) = info
           /\ info.staked_amount # 0 => UpdateRewards(info).user_index = global_index
<1>1. UpdateRewards(info).pending_rewards = Worth(info, global_index)
  BY DEF UpdateRewards, Worth, Accrued, UserRewardInfo
<1>2. QED
  BY <1>1, UpdateRewardsEntry DEF UpdateRewards

\* Claimable rewards fall only when they are paid.
THEOREM RewardsNeverLostProved == Spec => RewardsNeverLost
<1> DEFINE Kept(u) == Claimable(u)' < Claimable(u)
                        => /\ Claimable(u)' = 0
                           /\ rewards'[u] = rewards[u] + Claimable(u)
           A == \A u \in User : Kept(u)
<1>1. IInv /\ IInv' /\ [Next]_vars => [A]_vars
  <2> SUFFICES ASSUME IInv, IInv', Next, NEW u \in User
               PROVE  Kept(u)
    OBVIOUS
  <2>1. /\ Claimable(u) = IF users[u] = None THEN 0
                          ELSE Worth(users[u], global_index)
        /\ Claimable(u)' = IF users'[u] = None THEN 0
                           ELSE Worth(users'[u], global_index')
    <3>1. TypeOK => Claimable(u) = IF users[u] = None THEN 0
                                   ELSE Worth(users[u], global_index)
      BY ClaimableIsWorth
    <3>2. TypeOK' => Claimable(u)' = IF users'[u] = None THEN 0
                                     ELSE Worth(users'[u], global_index')
      <4>1. ASSUME users'[u] \in UserRewardInfo
            PROVE  UpdateRewards(users[u])'.pending_rewards = Worth(users'[u], global_index')
        BY <4>1 DEF UpdateRewards, Worth, Accrued, UserRewardInfo
      <4>2. QED
        BY <4>1 DEF Claimable, TypeOK
    <3>3. QED
      BY <3>1, <3>2 DEF IInv
  <2>2. /\ global_index \in Nat /\ global_index' \in Nat
        /\ users[u] # None => /\ users[u] \in UserRewardInfo
                              /\ users[u].user_index <= global_index
        /\ users'[u] # None => /\ users'[u] \in UserRewardInfo
                               /\ users'[u].user_index <= global_index'
    BY DEF IInv, TypeOK, IndexBehind
  <2>3. users'[u] = users[u] /\ global_index' >= global_index => Kept(u)
    <3> SUFFICES ASSUME users'[u] = users[u], global_index' >= global_index
                 PROVE  ~ (Claimable(u)' < Claimable(u))
      OBVIOUS
    <3>1. CASE users[u] = None
      BY <3>1, <2>1
    <3>2. CASE users[u] # None
      BY <3>2, <2>1, <2>2, WorthGrows
    <3>3. QED
      BY <3>1, <3>2
  <2>4. ASSUME NEW amount \in 1..rewards[Owner], IncreaseReward(amount)
        PROVE  Kept(u)
    BY <2>3, <2>4, IncreaseRewardStep DEF IncreaseReward
  <2>5. ASSUME NEW user \in User, users' = [users EXCEPT ![user] = users'[user]],
               global_index' = global_index, u # user
        PROVE  Kept(u)
    BY <2>2, <2>3, <2>5 DEF IInv, TypeOK
  <2>6. ASSUME NEW user \in User, NEW amount \in 1..bank[user], Deposit(user, amount)
        PROVE  Kept(u)
    <3>1. CASE u # user
      BY <2>5, <2>6, <3>1 DEF Deposit, IInv, TypeOK
    <3>2. CASE u = user
      <4> DEFINE old == UpdateRewards(Entry(user))
      <4>1. /\ Entry(u) \in UserRewardInfo /\ Entry(u).user_index <= global_index
            /\ users[u] # None => users[u] = Entry(u)
        BY EntryType
      <4>2. /\ old \in UserRewardInfo
            /\ old.pending_rewards = Worth(Entry(u), global_index)
        BY <3>2, <4>1, <2>2, UpdateRewardsEntry, UpdatedWorth
      <4>3. users'[u].pending_rewards = old.pending_rewards /\ users'[u] # None
        BY <2>6, <3>2, <4>2, NoneAssumption DEF Deposit, IInv, TypeOK, UserRewardInfo
      <4> HIDE DEF old
      <4>4. Claimable(u)' >= old.pending_rewards /\ Claimable(u)' \in Nat
        BY <4>3, <2>1, <2>2, <2>6, WorthGrows
      <4>5. Claimable(u) <= old.pending_rewards /\ Claimable(u) \in Nat
        BY <4>1, <4>2, <2>1, <2>2, WorthGrows DEF UserRewardInfo
      <4>6. old.pending_rewards \in Nat
        BY <4>2 DEF UserRewardInfo
      <4>7. QED
        BY <4>4, <4>5, <4>6
    <3>3. QED
      BY <3>1, <3>2
  <2>7. ASSUME NEW user \in User, NEW amount \in 1..(total_staked + 1),
               Withdraw(user, amount)
        PROVE  Kept(u)
    <3>1. CASE u # user
      BY <2>5, <2>7, <3>1 DEF Withdraw, IInv, TypeOK
    <3>2. CASE u = user
      <4> DEFINE old == UpdateRewards(users[user])
      <4>1. users[u] # None
        BY <2>7, <3>2 DEF Withdraw
      <4>2. /\ old \in UserRewardInfo
            /\ old.pending_rewards = Worth(users[u], global_index)
        BY <3>2, <4>1, <2>2, UpdateRewardsEntry, UpdatedWorth
      <4>3. users'[u].pending_rewards = old.pending_rewards /\ users'[u] # None
        BY <2>7, <3>2, WithdrawStep, NoneAssumption
      <4> HIDE DEF old
      <4>4. Claimable(u)' >= old.pending_rewards /\ Claimable(u)' \in Nat
        BY <4>3, <2>1, <2>2, <2>7, WorthGrows
      <4>5. Claimable(u) = old.pending_rewards /\ old.pending_rewards \in Nat
        BY <4>1, <4>2, <2>1 DEF UserRewardInfo
      <4>6. QED
        BY <4>4, <4>5
    <3>3. QED
      BY <3>1, <3>2
  <2>8. ASSUME NEW user \in User, ClaimRewards(user)
        PROVE  Kept(u)
    <3>1. CASE u # user
      BY <2>5, <2>8, <3>1 DEF ClaimRewards, IInv, TypeOK
    <3>2. CASE u = user
      <4> DEFINE old == UpdateRewards(users[user])
      <4>1. users[u] # None
        BY <2>8, <3>2 DEF ClaimRewards
      <4>2. /\ old \in UserRewardInfo
            /\ old.staked_amount = users[u].staked_amount
            /\ users[u].staked_amount # 0 => old.user_index = global_index
        BY <3>2, <4>1, <2>2, UpdateRewardsEntry
      <4>3. /\ users'[u].pending_rewards = 0
            /\ users'[u].user_index = old.user_index
            /\ users'[u].staked_amount = old.staked_amount
            /\ users'[u] # None
        BY <2>2, <2>8, <3>2, <4>1, <4>2, NoneAssumption
           DEF ClaimRewards, IInv, TypeOK, UserRewardInfo
      <4> HIDE DEF old
      <4>4. Worth(users'[u], global_index') = 0
        <5>1. CASE users'[u].staked_amount = 0
          BY <4>3, <5>1 DEF Worth
        <5>2. CASE users'[u].staked_amount # 0
          BY <2>2, <2>8, <4>2, <4>3, <5>2, WorthGrows DEF ClaimRewards
        <5>3. QED
          BY <5>1, <5>2
      <4>5. Claimable(u)' = 0
        BY <2>1, <4>3, <4>4
      <4>6. /\ Claimable(u) \in Nat /\ Claimable(u) <= rewards[Contract]
        BY <2>1, <2>2, <2>8, <3>2, <4>1, WorthGrows DEF ClaimRewards, CanSend
      <4>7. rewards'[u] = rewards[u] + Claimable(u)
        <5> DEFINE n == Claimable(u)
        <5>1. rewards' = Sent(rewards, Contract, u, n)
          BY <2>8, <3>2 DEF ClaimRewards
        <5>2. /\ rewards \in [Account -> Nat] /\ Contract \in Account
              /\ u \in Account /\ Contract # u
          BY Addresses DEF IInv, TypeOK
        <5> HIDE DEF n
        <5>3. n \in Nat /\ n <= rewards[Contract]
          BY <4>6 DEF n
        <5>4. rewards'[u] = rewards[u] + n
          BY <5>1, <5>2, <5>3, SentBank
        <5>5. QED
          BY <5>4 DEF n
      <4>8. QED
        BY <4>5, <4>7
    <3>3. QED
      BY <3>1, <3>2
  <2>9. QED
    BY <2>4, <2>6, <2>7, <2>8 DEF Next
<1>2. QED
  BY <1>1, Invariant, PTL DEF Spec, RewardsNeverLost

-----------------------------------------------------------------------------
\* What is owed to an entry in units of 1 / Scale, before any rounding.
Owed(info, index) ==
    info.pending_rewards * Scale + (index - info.user_index) * info.staked_amount

Due(u) == IF users[u] = None THEN 0 ELSE Owed(users[u], global_index)

\* What all users are owed, unrounded, is in the contract.  The promise after the
\* rounding is not inductive: what a user lost by it at one index is no longer lost
\* when the index has grown.
Covered ==
    rejoined = {} =>
        SumFunctionOnSet([u \in User |-> Due(u)], User) <= rewards[Contract] * Scale

\* The quotient times the divisor is at most the dividend.
LEMMA FloorTimes ==
    ASSUME NEW p \in Nat, NEW d \in Nat, d > 0
    PROVE  (p \div d) \in Nat /\ (p \div d) * d <= p
BY SMT

\* update_rewards never owes more than was owed before.
LEMMA UpdateOwes ==
    ASSUME global_index \in Nat, NEW info \in UserRewardInfo,
           info.user_index <= global_index
    PROVE  /\ Owed(info, global_index) \in Nat
           /\ UpdateRewards(info).pending_rewards * Scale <= Owed(info, global_index)
<1> DEFINE x == (global_index - info.user_index) * info.staked_amount
           q == x \div Scale
<1>1. /\ Scale \in Nat /\ Scale > 0 /\ info.pending_rewards \in Nat
      /\ global_index - info.user_index \in Nat /\ info.staked_amount \in Nat
  BY ScaleAssumption DEF UserRewardInfo
<1>2. x \in Nat
  BY <1>1
<1>3. /\ Owed(info, global_index) = info.pending_rewards * Scale + x
      /\ UpdateRewards(info).pending_rewards =
           IF info.staked_amount = 0 THEN info.pending_rewards
           ELSE info.pending_rewards + q
  BY DEF Owed, UpdateRewards, Accrued, UserRewardInfo
<1> HIDE DEF x
<1>4. q \in Nat /\ q * Scale <= x
  BY <1>1, <1>2, FloorTimes
<1> HIDE DEF q
<1>5. ASSUME NEW p \in Nat, NEW s \in Nat, NEW y \in Nat, NEW r \in Nat, r * s <= y
      PROVE  /\ p * s + y \in Nat /\ p * s <= p * s + y
             /\ (p + r) * s <= p * s + y
  BY <1>5
<1>6. QED
  BY <1>1, <1>2, <1>3, <1>4, <1>5

\* One user is owed less by what leaves the contract, or by more.
LEMMA DueFalls ==
    ASSUME NEW f, NEW g, NEW user \in User, NEW n \in Int, NEW R \in Int, NEW r \in Int,
           \A u \in User : f[u] \in Int /\ g[u] \in Int,
           \A u \in User \ {user} : g[u] = f[u],
           g[user] + n * Scale <= f[user], r = R - n,
           SumFunctionOnSet(f, User) <= R * Scale
    PROVE  SumFunctionOnSet(g, User) <= r * Scale
<1>1. SumFunctionOnSet(g, User) = SumFunctionOnSet(f, User) + (g[user] - f[user])
  BY UserAssumption, SumChange
<1>2. SumFunctionOnSet(f, User) \in Int /\ Scale \in Int
  BY UserAssumption, SumInt, ScaleAssumption
<1>3. ASSUME NEW s \in Int, NEW k \in Int, NEW m \in Int, NEW d \in Int,
             s <= R * d, k + n * d <= m
      PROVE  s + (k - m) <= (R - n) * d
  BY <1>3
<1>4. QED
  BY <1>1, <1>2, <1>3

LEMMA DueNat ==
    ASSUME IInv, NEW u \in User
    PROVE  /\ Due(u) \in Nat
           /\ Staked(u) \in Nat
           /\ Claimable(u) \in Nat /\ Claimable(u) * Scale <= Due(u)
<1>1. CASE users[u] = None
  BY <1>1, ScaleAssumption DEF Due, Staked, Claimable
<1>2. CASE users[u] # None
  <2>1. /\ global_index \in Nat /\ users[u] \in UserRewardInfo
        /\ users[u].user_index <= global_index
    BY <1>2 DEF IInv, TypeOK, IndexBehind
  <2>2. UpdateRewards(users[u]) \in UserRewardInfo
    BY <2>1, UpdateRewardsEntry
  <2>3. QED
    BY <1>2, <2>1, <2>2, UpdateOwes DEF Due, Staked, Claimable, UserRewardInfo
<1>3. QED
  BY <1>1, <1>2

\* The steps of one user: nobody else's entry changes, and what the user is owed falls
\* by what the contract pays out.
LEMMA CoveredByUserStep ==
    ASSUME IInv, IInv', Covered, NEW user \in User, NEW n \in Nat,
           \A u \in User \ {user} : users'[u] = users[u],
           global_index' = global_index,
           rejoined' = {} => /\ rejoined = {}
                             /\ Due(user)' + n * Scale <= Due(user),
           rewards'[Contract] = rewards[Contract] - n
    PROVE  Covered'
<1> SUFFICES ASSUME rejoined' = {}
             PROVE  SumFunctionOnSet([u \in User |-> Due(u)], User)' <= rewards'[Contract] * Scale
  BY DEF Covered
<1> DEFINE f == [u \in User |-> Due(u)]
           g == [u \in User |-> Due(u)']
<1>1. \A u \in User : Due(u) \in Int
  BY DueNat
<1>2. \A u \in User : Due(u)' \in Int
  <2>1. ASSUME NEW u \in User PROVE Due(u)' \in Int
    <3>1. CASE users'[u] = None
      BY <3>1 DEF Due
    <3>2. CASE users'[u] # None
      <4>1. /\ global_index' \in Nat /\ users'[u] \in UserRewardInfo
            /\ Scale \in Nat
        BY <3>2, ScaleAssumption DEF IInv, TypeOK
      <4>2. QED
        BY <3>2, <4>1 DEF Due, Owed, UserRewardInfo
    <3>3. QED
      BY <3>1, <3>2
  <2>2. QED
    BY <2>1
<1>3. \A u \in User \ {user} : Due(u)' = Due(u)
  BY DEF Due
<1>4. /\ \A u \in User : f[u] \in Int /\ g[u] \in Int
      /\ \A u \in User \ {user} : g[u] = f[u]
      /\ g[user] + n * Scale <= f[user]
  BY <1>1, <1>2, <1>3
<1>5. SumFunctionOnSet(f, User) <= rewards[Contract] * Scale
  BY DEF Covered
<1>6. [u \in User |-> Due(u)]' = g
  OBVIOUS
<1>7. rewards[Contract] \in Int /\ rewards'[Contract] \in Int
  BY Addresses DEF IInv, TypeOK
<1> HIDE DEF f, g
<1>8. n \in Int
  OBVIOUS
<1>9. SumFunctionOnSet(g, User) <= rewards'[Contract] * Scale
  BY <1>4, <1>5, <1>7, <1>8, DueFalls
<1>10. QED
  BY <1>6, <1>9

\* An increase owes every user what was paid in per staked coin, rounded down once,
\* times the stake; the stakes add up to the total.
LEMMA CoveredByIncrease ==
    ASSUME IInv, StakeIsSum, Covered, NEW amount \in 1..rewards[Owner],
           IncreaseReward(amount)
    PROVE  Covered'
<1> SUFFICES ASSUME rejoined' = {}
             PROVE  SumFunctionOnSet([u \in User |-> Due(u)], User)' <= rewards'[Contract] * Scale
  BY DEF Covered
<1> DEFINE f == [u \in User |-> Due(u)]
           g == [u \in User |-> Staked(u)]
           h == [u \in User |-> Due(u)']
           d == FromRatio(amount, total_staked)
<1>1. amount \in Nat /\ amount <= rewards[Owner] /\ rewards[Contract] \in Nat
  BY Addresses DEF IInv, TypeOK
<1>2. /\ Scale \in Nat /\ total_staked \in Nat /\ total_staked > 0
      /\ amount * Scale \in Nat
  BY <1>1, ScaleAssumption DEF IInv, TypeOK, IncreaseReward
<1>3. d \in Nat /\ d * total_staked <= amount * Scale
  <2> DEFINE p == amount * Scale
  <2>1. d = p \div total_staked /\ p \in Nat
    BY <1>2 DEF FromRatio
  <2> HIDE DEF p, d
  <2>2. d \in Nat /\ d * total_staked <= p
    BY <1>2, <2>1, FloorTimes
  <2>3. QED
    BY <2>2 DEF p
<1>4. global_index' = global_index + d /\ users' = users /\ rejoined = {}
  BY DEF IncreaseReward
<1>5. rewards'[Contract] = rewards[Contract] + amount
  <2>1. /\ rewards \in [Account -> Nat] /\ Owner \in Account /\ Contract \in Account
        /\ Owner # Contract
    BY Addresses DEF IInv, TypeOK
  <2>2. rewards' = Sent(rewards, Owner, Contract, amount)
    BY DEF IncreaseReward
  <2>3. QED
    BY <1>1, <2>1, <2>2, SentBank
<1> HIDE DEF d
<1>6. ASSUME NEW u \in User
      PROVE  Due(u)' = Due(u) + d * Staked(u)
  <2>1. CASE users[u] = None
    BY <1>3, <1>4, <2>1 DEF Due, Staked
  <2>2. CASE users[u] # None
    <3>1. /\ users[u].staked_amount \in Nat /\ users[u].user_index \in Nat
          /\ users[u].pending_rewards * Scale \in Nat /\ global_index \in Nat
      BY <1>2, <2>2 DEF IInv, TypeOK, UserRewardInfo
    <3>2. ASSUME NEW p \in Nat, NEW i \in Nat, NEW j \in Nat, NEW s \in Nat
          PROVE  p + ((i + d) - j) * s = (p + (i - j) * s) + d * s
      BY <1>3
    <3> DEFINE p == users[u].pending_rewards * Scale
               j == users[u].user_index
               s == users[u].staked_amount
    <3>3. /\ Due(u)' = p + ((global_index + d) - j) * s
          /\ Due(u) = p + (global_index - j) * s
          /\ Staked(u) = s
      BY <1>4, <2>2, Zenon DEF Due, Owed, Staked
    <3> HIDE DEF p, j, s
    <3>4. p \in Nat /\ j \in Nat /\ s \in Nat /\ global_index \in Nat
      BY <3>1 DEF p, j, s
    <3>5. p + ((global_index + d) - j) * s = (p + (global_index - j) * s) + d * s
      BY <3>2, <3>4
    <3>6. QED
      BY <3>3, <3>5
  <2>3. QED
    BY <2>1, <2>2
<1>7. \A u \in User : f[u] \in Int /\ g[u] \in Int /\ h[u] = f[u] + d * g[u]
  BY <1>6, DueNat
<1>8. SumFunctionOnSet(f, User) <= rewards[Contract] * Scale
  BY <1>4 DEF Covered
<1>9. SumFunctionOnSet(g, User) = total_staked
  BY DEF StakeIsSum
<1>10. [u \in User |-> Due(u)]' = h
  OBVIOUS
<1> HIDE DEF f, g, h
<1>11. SumFunctionOnSet(h, User) = SumFunctionOnSet(f, User) + d * SumFunctionOnSet(g, User)
  BY <1>3, <1>7, UserAssumption, SumLinear
<1>12. SumFunctionOnSet(f, User) \in Int
  BY <1>7, UserAssumption, SumInt
<1>13. SumFunctionOnSet(h, User) <= (rewards[Contract] + amount) * Scale
  BY <1>1, <1>2, <1>3, <1>8, <1>9, <1>11, <1>12
<1>14. QED
  BY <1>5, <1>10, <1>13

\* A user who joins, or who stays, has the index of the day after a deposit.
LEMMA CoveredByDeposit ==
    ASSUME IInv, IInv', Covered, NEW user \in User, NEW amount \in 1..bank[user],
           Deposit(user, amount)
    PROVE  Covered'
<1> DEFINE old == UpdateRewards(Entry(user))
<1>1. /\ Entry(user) \in UserRewardInfo /\ Entry(user).user_index <= global_index
      /\ global_index \in Nat /\ users \in [User -> UserRewardInfo \cup {None}]
  BY EntryType DEF IInv, TypeOK
<1>2. /\ old \in UserRewardInfo
      /\ old.pending_rewards * Scale <= Owed(Entry(user), global_index)
  BY <1>1, UpdateRewardsEntry, UpdateOwes
<1>3. Owed(Entry(user), global_index) = Due(user)
  <2>1. CASE users[user] = None
    BY <1>1, <2>1, ScaleAssumption DEF Owed, Due, Entry, NewInfo
  <2>2. CASE users[user] # None
    BY <2>2 DEF Due, Entry
  <2>3. QED
    BY <2>1, <2>2
<1>4. amount \in Nat
  BY Addresses DEF IInv, TypeOK
<1>5. /\ users' = [users EXCEPT ![user] = [old EXCEPT !.staked_amount = @ + amount]]
      /\ global_index' = global_index /\ rewards' = rewards
      /\ rejoined' = {} => rejoined = {} /\ users'[user].user_index = global_index
  BY DEF Deposit
<1> HIDE DEF old
<1>6. /\ users'[user].pending_rewards = old.pending_rewards
      /\ users'[user].staked_amount \in Nat
      /\ users'[user] # None
      /\ \A u \in User \ {user} : users'[u] = users[u]
  BY <1>1, <1>2, <1>4, <1>5, NoneAssumption DEF UserRewardInfo
<1>7. ASSUME rejoined' = {} PROVE Due(user)' + 0 * Scale <= Due(user)
  <2>1. Due(user)' = old.pending_rewards * Scale + 0 * users'[user].staked_amount
    BY <1>1, <1>5, <1>6, <1>7 DEF Due, Owed
  <2>2. old.pending_rewards \in Nat /\ Scale \in Nat
    BY <1>2, ScaleAssumption DEF UserRewardInfo
  <2>3. old.pending_rewards * Scale \in Nat
    BY <2>2
  <2>4. Due(user)' = old.pending_rewards * Scale
    BY <1>6, <2>1, <2>3
  <2>5. 0 * Scale = 0
    BY <2>2
  <2>6. QED
    BY <1>2, <1>3, <2>3, <2>4, <2>5
<1>8. rewards'[Contract] = rewards[Contract] - 0
  BY <1>5, Addresses DEF IInv, TypeOK
<1>9. QED
  BY <1>5, <1>6, <1>7, <1>8, CoveredByUserStep

\* A withdrawal and a claim store what update_rewards gives.  A withdrawal leaves it
\* due, a claim pays it.
LEMMA CoveredByWithdraw ==
    ASSUME IInv, IInv', Covered, NEW user \in User,
           NEW amount \in 1..(total_staked + 1), Withdraw(user, amount)
    PROVE  Covered'
<1> DEFINE old == UpdateRewards(users[user])
<1>1. /\ users[user] # None /\ users[user] \in UserRewardInfo
      /\ users[user].user_index <= global_index
      /\ users[user].staked_amount # 0
      /\ global_index \in Nat /\ users \in [User -> UserRewardInfo \cup {None}]
      /\ amount \in Nat
  BY DEF IInv, TypeOK, IndexBehind, Withdraw, HasStake, UserRewardInfo
<1>2. /\ old \in UserRewardInfo
      /\ old.user_index = global_index
      /\ old.pending_rewards * Scale <= Due(user)
  BY <1>1, UpdateRewardsEntry, UpdateOwes DEF Due
<1>3. /\ users' = [users EXCEPT ![user] = [old EXCEPT !.staked_amount = @ - amount]]
      /\ global_index' = global_index /\ rewards' = rewards /\ rejoined' = rejoined
  BY DEF Withdraw
<1> HIDE DEF old
<1>4. /\ users'[user].pending_rewards = old.pending_rewards
      /\ users'[user].user_index = global_index
      /\ users'[user].staked_amount = old.staked_amount - amount
      /\ \A u \in User \ {user} : users'[u] = users[u]
  BY <1>1, <1>2, <1>3 DEF UserRewardInfo
<1>5. users'[user] # None
  BY <1>1, WithdrawStep, NoneAssumption
<1>6. Due(user)' + 0 * Scale <= Due(user)
  <2>1. /\ old.pending_rewards * Scale \in Nat /\ Scale \in Nat
        /\ old.staked_amount - amount \in Int
    BY <1>1, <1>2, ScaleAssumption DEF UserRewardInfo
  <2>2. Due(user)' = old.pending_rewards * Scale
                       + (global_index - global_index) * (old.staked_amount - amount)
    BY <1>3, <1>4, <1>5 DEF Due, Owed
  <2>3. /\ (global_index - global_index) * (old.staked_amount - amount) = 0
        /\ 0 * Scale = 0
    BY <1>1, <2>1
  <2>4. Due(user) \in Nat
    BY DueNat
  <2>5. QED
    BY <1>2, <2>1, <2>2, <2>3, <2>4
<1>7. rewards'[Contract] = rewards[Contract] - 0
  BY <1>3, Addresses DEF IInv, TypeOK
<1>8. QED
  BY <1>3, <1>4, <1>6, <1>7, CoveredByUserStep

LEMMA CoveredByClaim ==
    ASSUME IInv, IInv', Covered, NEW user \in User, ClaimRewards(user)
    PROVE  Covered'
<1> DEFINE old == UpdateRewards(users[user])
           n == Claimable(user)
<1>1. /\ users[user] # None /\ users[user] \in UserRewardInfo
      /\ users[user].user_index <= global_index
      /\ global_index \in Nat /\ users \in [User -> UserRewardInfo \cup {None}]
  BY DEF IInv, TypeOK, IndexBehind, ClaimRewards
<1>2. /\ old \in UserRewardInfo
      /\ old.staked_amount = 0 \/ old.user_index = global_index
  BY <1>1, UpdateRewardsEntry
<1>3. n \in Nat /\ n * Scale <= Due(user)
  BY DueNat
<1>4. /\ users' = [users EXCEPT ![user] = [old EXCEPT !.pending_rewards = 0]]
      /\ global_index' = global_index /\ rejoined' = rejoined
      /\ n <= rewards[Contract]
      /\ rewards' = Sent(rewards, Contract, user, n)
  BY DEF ClaimRewards, CanSend
<1> HIDE DEF old, n
<1>5. /\ users'[user] \in UserRewardInfo
      /\ users'[user].pending_rewards = 0
      /\ users'[user].user_index = old.user_index
      /\ users'[user].staked_amount = old.staked_amount
      /\ \A u \in User \ {user} : users'[u] = users[u]
  BY <1>1, <1>2, <1>4 DEF UserRewardInfo
<1>6. rewards'[Contract] = rewards[Contract] - n
  <2>1. /\ rewards \in [Account -> Nat] /\ user \in Account /\ Contract \in Account
        /\ user # Contract
    BY Addresses DEF IInv, TypeOK
  <2>2. QED
    BY <1>3, <1>4, <2>1, SentBank
<1>7. Due(user)' = 0
  <2>1. /\ Scale \in Nat /\ old.staked_amount \in Nat /\ old.user_index \in Nat
    BY <1>2, ScaleAssumption DEF UserRewardInfo
  <2>2. Due(user)' = 0 * Scale + (global_index - old.user_index) * old.staked_amount
    BY <1>4, <1>5, NoneAssumption DEF Due, Owed
  <2>3. (global_index - old.user_index) * old.staked_amount = 0
    BY <1>1, <1>2, <2>1
  <2>4. QED
    BY <2>1, <2>2, <2>3
<1>8. Due(user)' + n * Scale <= Due(user)
  BY <1>3, <1>7, ScaleAssumption
<1>9. QED
  BY <1>3, <1>4, <1>5, <1>6, <1>8, CoveredByUserStep

LEMMA CoveredNext == IInv /\ IInv' /\ StakeIsSum /\ Covered /\ [Next]_vars => Covered'
<1> SUFFICES ASSUME IInv, IInv', StakeIsSum, Covered, [Next]_vars
             PROVE  Covered'
  OBVIOUS
<1>1. CASE UNCHANGED vars
  BY <1>1 DEF vars, Covered, Due
<1>2. CASE Next
  BY <1>2, CoveredByIncrease, CoveredByDeposit, CoveredByWithdraw, CoveredByClaim DEF Next
<1>3. QED
  BY <1>1, <1>2

\* The total changes with the stake of one user, or not at all.
LEMMA StakeMoved ==
    ASSUME StakeIsSum, NEW user \in User, NEW n \in Int,
           \A u \in User : Staked(u) \in Int,
           [u \in User |-> Staked(u)]' =
             [[u \in User |-> Staked(u)] EXCEPT ![user] = @ + n],
           total_staked' = total_staked + n
    PROVE  StakeIsSum'
<1> DEFINE f == [u \in User |-> Staked(u)]
           g == [f EXCEPT ![user] = @ + n]
<1>1. \A u \in User : f[u] \in Int
  OBVIOUS
<1>2. [u \in User |-> Staked(u)]' = g
  OBVIOUS
<1>3. /\ \A u \in User : f[u] \in Int /\ g[u] \in Int
      /\ \A u \in User \ {user} : g[u] = f[u]
      /\ g[user] - f[user] = n
  BY <1>1
<1>4. total_staked = SumFunctionOnSet(f, User)
  BY DEF StakeIsSum
<1> HIDE DEF f, g
<1>5. SumFunctionOnSet(g, User) = SumFunctionOnSet(f, User) + (g[user] - f[user])
  BY <1>3, UserAssumption, SumChange
<1>6. QED
  BY <1>2, <1>3, <1>4, <1>5 DEF StakeIsSum

LEMMA StakeNext == IInv /\ StakeIsSum /\ [Next]_vars => StakeIsSum'
<1> SUFFICES ASSUME IInv, StakeIsSum, [Next]_vars
             PROVE  StakeIsSum'
  OBVIOUS
<1>1. \A u \in User : Staked(u) \in Int
  BY DueNat
<1>2. ASSUME NEW amount \in 1..rewards[Owner], IncreaseReward(amount)
      PROVE  StakeIsSum'
  BY <1>2 DEF IncreaseReward, StakeIsSum, Staked
<1>3. ASSUME NEW user \in User, NEW amount \in 1..bank[user], Deposit(user, amount)
      PROVE  StakeIsSum'
  <2>1. /\ amount \in Int
        /\ [u \in User |-> Staked(u)]' =
             [[u \in User |-> Staked(u)] EXCEPT ![user] = @ + amount]
    BY <1>3, DepositStep
  <2>2. total_staked' = total_staked + amount
    BY <1>3 DEF Deposit
  <2>3. QED
    BY <1>1, <2>1, <2>2, StakeMoved
<1>4. ASSUME NEW user \in User, NEW amount \in 1..(total_staked + 1),
             Withdraw(user, amount)
      PROVE  StakeIsSum'
  <2> DEFINE n == 0 - amount
  <2>1. /\ amount \in Int
        /\ [u \in User |-> Staked(u)]' =
             [[u \in User |-> Staked(u)] EXCEPT ![user] = @ - amount]
    BY <1>4, WithdrawStep
  <2>2. total_staked' = total_staked - amount
    BY <1>4 DEF Withdraw
  <2>3. /\ n \in Int
        /\ Staked(user) - amount = Staked(user) + n
        /\ total_staked - amount = total_staked + n
    BY <1>1, <2>1 DEF IInv, TypeOK
  <2>4. [u \in User |-> Staked(u)]' =
          [[u \in User |-> Staked(u)] EXCEPT ![user] = @ + n]
    BY <2>1, <2>3
  <2> HIDE DEF n
  <2>5. QED
    BY <1>1, <2>2, <2>3, <2>4, StakeMoved
<1>5. ASSUME NEW user \in User, ClaimRewards(user)
      PROVE  StakeIsSum'
  <2>1. /\ [u \in User |-> Staked(u)]' = [u \in User |-> Staked(u)]
        /\ total_staked' = total_staked
    BY <1>5, ClaimRewardsStep DEF ClaimRewards
  <2>2. QED
    BY <2>1 DEF StakeIsSum
<1>6. CASE UNCHANGED vars
  BY <1>6 DEF vars, StakeIsSum, Staked
<1>7. QED
  BY <1>2, <1>3, <1>4, <1>5, <1>6 DEF Next

LEMMA SumsInit == Init => StakeIsSum /\ Covered
<1> SUFFICES ASSUME Init PROVE StakeIsSum /\ Covered
  OBVIOUS
<1> DEFINE f == [u \in User |-> Staked(u)]
           g == [u \in User |-> Due(u)]
<1>1. \A u \in User : f[u] = 0 /\ g[u] = 0
  BY DEF Init, Staked, Due
<1>2. SumFunctionOnSet(f, User) = 0 /\ SumFunctionOnSet(g, User) = 0
  <2> HIDE DEF f, g
  <2>1. QED
    BY <1>1, UserAssumption, SumZero
<1>3. rewards[Contract] \in Nat /\ Scale \in Nat /\ rewards[Contract] * Scale \in Nat
  BY BankAssumption, ScaleAssumption, Addresses DEF Init
<1>4. QED
  BY <1>2, <1>3 DEF Init, StakeIsSum, Covered

\* What everybody could claim, times the unit, is at most what is owed.
LEMMA SumOfRewards ==
    ASSUME IInv, StakeIsSum, Covered
    PROVE  RewardsCovered
<1> SUFFICES ASSUME rejoined = {}
             PROVE  TotalClaimable <= rewards[Contract]
  BY DEF RewardsCovered
<1> DEFINE f == [u \in User |-> Claimable(u)]
           g == [u \in User |-> Due(u)]
<1>1. /\ Scale \in Int /\ Scale > 0 /\ 1 \in Int
      /\ rewards[Contract] \in Int
  BY ScaleAssumption, Addresses DEF IInv, TypeOK
<1>2. \A u \in User : f[u] \in Int /\ g[u] \in Int /\ f[u] * Scale <= g[u] * 1
  BY DueNat
<1>3. SumFunctionOnSet(g, User) <= rewards[Contract] * Scale
  BY DEF Covered
<1>4. TotalClaimable = SumFunctionOnSet(f, User)
  BY DEF TotalClaimable
<1> HIDE DEF f, g
<1>5. SumFunctionOnSet(f, User) * Scale <= SumFunctionOnSet(g, User) * 1
  BY <1>1, <1>2, UserAssumption, SumBound
<1>6. SumFunctionOnSet(f, User) \in Int /\ SumFunctionOnSet(g, User) \in Int
  BY <1>2, UserAssumption, SumInt
<1>7. ASSUME NEW p \in Int, NEW q \in Int, NEW r \in Int, NEW s \in Int, s > 0,
             p * s <= q * 1, q <= r * s
      PROVE  p <= r
  <2>1. p * s <= r * s
    BY <1>7
  <2>2. QED
    BY <1>7, <2>1
<1>8. QED
  BY <1>1, <1>3, <1>4, <1>5, <1>6, <1>7

\* While nobody came back with an old index, the contract can pay every user at once.
THEOREM RewardsProved == Spec => []RewardsCovered
<1>1. Init => StakeIsSum /\ Covered
  BY SumsInit
<1>2. IInv /\ IInv' /\ StakeIsSum /\ Covered /\ [Next]_vars => StakeIsSum' /\ Covered'
  BY StakeNext, CoveredNext
<1>3. IInv /\ StakeIsSum /\ Covered => RewardsCovered
  BY SumOfRewards
<1>4. QED
  BY <1>1, <1>2, <1>3, Invariant, PTL DEF Spec
=============================================================================
