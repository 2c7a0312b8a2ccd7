----------------------------- MODULE Brisingamen -----------------------------
(***************************************************************************)
(* ctf-09, Brisingamen: users stake coins and share the rewards the owner  *)
(* pays in, in another denomination, by a global index: rewards paid per   *)
(* staked coin since the contract exists.  A user's entry remembers the    *)
(* index up to which the rewards of the user were counted.                 *)
(***************************************************************************)
EXTENDS Bank, FiniteSets, Functions

CONSTANTS
    User,           \* addresses that stake
    Owner,          \* STATE.owner, the address that instantiated the contract
    Contract,       \* the address of the contract
    None,           \* no entry in USERS
    Scale,          \* the unit of Decimal, 10^18 in cosmwasm_std
    InitialBank,    \* coins of everybody at the start, DENOM
    InitialRewards  \* coins of everybody at the start, REWARD_DENOM

Account == User \cup {Owner, Contract}

ASSUME UserAssumption == IsFiniteSet(User)
ASSUME AddressAssumption == Contract \notin User /\ Contract # Owner
ASSUME ScaleAssumption == Scale \in Nat \ {0}
ASSUME BankAssumption ==
    /\ InitialBank \in [Account -> Nat]
    /\ InitialRewards \in [Account -> Nat]

VARIABLES
    bank,           \* DENOM coins of every account
    rewards,        \* REWARD_DENOM coins of every account
    global_index,   \* STATE.global_index, in units of 1 / Scale
    total_staked,   \* STATE.total_staked
    users,          \* USERS
    rejoined        \* history: users who once staked again after leaving with
                    \* an entry that had missed an increase of the index

vars == <<bank, rewards, global_index, total_staked, users, rejoined>>

UserRewardInfo == [staked_amount : Nat, user_index : Nat, pending_rewards : Nat]

ASSUME NoneAssumption == None \notin UserRewardInfo

TypeOK ==
    /\ bank \in [Account -> Nat]
    /\ rewards \in [Account -> Nat]
    /\ global_index \in Nat
    /\ total_staked \in Nat
    /\ users \in [User -> UserRewardInfo \cup {None}]
    /\ rejoined \subseteq User

Init ==
    /\ bank = InitialBank
    /\ rewards = InitialRewards
    /\ global_index = 0
    /\ total_staked = 0
    /\ users = [u \in User |-> None]
    /\ rejoined = {}

-----------------------------------------------------------------------------
\* Decimal::from_ratio rounds down.
FromRatio(amount, total) == (amount * Scale) \div total

\* Decimal * Uint128 rounds down.
Accrued(info) == ((global_index - info.user_index) * info.staked_amount) \div Scale

\* (Mutated forms: the index of the entry stays behind; the new rewards take the
\* place of the pending ones.)
UpdateRewards_KeepsIndex(info) == [info EXCEPT !.pending_rewards = @ + Accrued(info)]
UpdateRewards_Overwrites(info) ==
    IF info.staked_amount = 0 THEN info
    ELSE [info EXCEPT !.pending_rewards = Accrued(info), !.user_index = global_index]
UpdateRewards(info) ==
    IF info.staked_amount = 0 THEN info
    ELSE [info EXCEPT !.pending_rewards = @ + Accrued(info),
                      !.user_index = global_index]

NewInfo == [staked_amount |-> 0, user_index |-> global_index, pending_rewards |-> 0]

\* The entry deposit works on: a returning user keeps the old one.
Entry(user) == IF users[user] = None THEN NewInfo ELSE users[user]

\* The stake of the user is compared; the subtraction from the total is checked.
\* (Mutated form: only the total.)
HasStake_InTotal(user, amount) == amount <= total_staked
HasStake(user, amount) ==
    amount <= users[user].staked_amount /\ amount <= total_staked

IncreaseReward(amount) ==
    /\ CanSend(rewards, Owner, amount)
    /\ total_staked # 0
    /\ global_index' = global_index + FromRatio(amount, total_staked)
    /\ rewards' = Sent(rewards, Owner, Contract, amount)
    /\ UNCHANGED <<bank, total_staked, users, rejoined>>

Deposit(user, amount) ==
    /\ CanSend(bank, user, amount)
    /\ users' = [users EXCEPT ![user] =
                   [UpdateRewards(Entry(user)) EXCEPT !.staked_amount = @ + amount]]
    /\ total_staked' = total_staked + amount
    /\ bank' = Sent(bank, user, Contract, amount)
    /\ rejoined' = IF users'[user].user_index # global_index
                   THEN rejoined \cup {user} ELSE rejoined
    /\ UNCHANGED <<rewards, global_index>>

\* (Mutated form: the new total is computed and not saved.)
Withdraw_KeepsTotal(user, amount) ==
    /\ users[user] # None
    /\ HasStake(user, amount)
    /\ users' = [users EXCEPT ![user] =
                   [UpdateRewards(users[user]) EXCEPT !.staked_amount = @ - amount]]
    /\ CanSend(bank, Contract, amount)
    /\ bank' = Sent(bank, Contract, user, amount)
    /\ UNCHANGED <<rewards, global_index, total_staked, rejoined>>
Withdraw(user, amount) ==
    /\ users[user] # None
    /\ HasStake(user, amount)
    /\ users' = [users EXCEPT ![user] =
                   [UpdateRewards(users[user]) EXCEPT !.staked_amount = @ - amount]]
    /\ total_staked' = total_staked - amount
    /\ CanSend(bank, Contract, amount)
    /\ bank' = Sent(bank, Contract, user, amount)
    /\ UNCHANGED <<rewards, global_index, rejoined>>

\* What query_user shows, and what a claim would pay.
Claimable(user) ==
    IF users[user] = None THEN 0 ELSE UpdateRewards(users[user]).pending_rewards

ClaimRewards(user) ==
    /\ users[user] # None
    /\ CanSend(rewards, Contract, Claimable(user))
    /\ users' = [users EXCEPT ![user] =
                   [UpdateRewards(users[user]) EXCEPT !.pending_rewards = 0]]
    /\ rewards' = Sent(rewards, Contract, user, Claimable(user))
    /\ UNCHANGED <<bank, global_index, total_staked, rejoined>>

\* A user may ask for more than the contract holds: total_staked + 1 stands for it.
Next ==
    \/ \E amount \in 1..rewards[Owner] : IncreaseReward(amount)
    \/ \E user \in User :
         \/ \E amount \in 1..bank[user] : Deposit(user, amount)
         \/ \E amount \in 1..(total_staked + 1) : Withdraw(user, amount)
         \/ ClaimRewards(user)

Spec == Init /\ [][Next]_vars

-----------------------------------------------------------------------------
Staked(user) == IF users[user] = None THEN 0 ELSE users[user].staked_amount

\* The contract owns at least what is staked: rewards are never paid out of it.
StakeBacked == total_staked <= bank[Contract]

\* total_staked is the sum of all stakes: two stores updated by two saves.
StakeIsSum == total_staked = SumFunctionOnSet([u \in User |-> Staked(u)], User)

TotalClaimable == SumFunctionOnSet([u \in User |-> Claimable(u)], User)

\* All users can claim, in any order: with a total that is what it says, the two
\* roundings never promise more than the owner paid in.  (It needs that nobody came
\* back with an old index.)
RewardsCovered ==
    /\ StakeIsSum
    /\ rejoined = {} => TotalClaimable <= rewards[Contract]

\* A user's claimable rewards go down only by being paid to this user in full:
\* no deposit, withdrawal or increase rounds away what was already counted.
RewardsNeverLost ==
    [][\A u \in User : Claimable(u)' < Claimable(u)
         => /\ Claimable(u)' = 0
            /\ rewards'[u] = rewards[u] + Claimable(u)]_vars

\* Rewards come from increases only.  What the test says of a user without stake,
\* "user1 will not receive any rewards anymore", is to hold for good.
RewardsComeFromIncreases ==
    [][\A u \in User : Claimable(u)' > Claimable(u)
         => global_index' > global_index]_vars

Deposits == INSTANCE Custody WITH
    Depositor <- User, held <- bank[Contract], credit <- [u \in User |-> Staked(u)]

\* Stakes are kept like deposits, whatever the rewards do.
ImplementsCustody == Deposits!Spec
=============================================================================
