------------------------------- MODULE Gungnir -------------------------------
(***************************************************************************)
(* ctf-02, Gungnir: users deposit tokens and lock some of them for voting  *)
(* power.  total_tokens is a Uint128, whose arithmetic is always checked;  *)
(* voting_power is a bare u128, whose arithmetic panics in a debug build   *)
(* and wraps in the release build of Cargo.toml (overflow-checks = false). *)
(***************************************************************************)
EXTENDS Timelock

CONSTANT Modulus    \* 2^128, the number of values of a u128

UserInfo == [total_tokens : Nat, voting_power : 0..(Modulus - 1), released_time : Nat]

ASSUME NoInfoAssumption == None \notin UserInfo
ASSUME ModulusAssumption == Modulus \in Nat \ {0}

VARIABLES
    users,          \* VOTING_POWER
    overflow_checks,\* the deployed build checks bare integer arithmetic
    pledge          \* history: per user, the voting power after the last stake
                    \* and the time of that stake

gungnirVars == <<bank, users, now, overflow_checks, pledge>>

GungnirTypeOK ==
    /\ bank \in [Account -> Nat]
    /\ users \in [User -> UserInfo \cup {None}]
    /\ now \in Nat
    /\ overflow_checks \in BOOLEAN
    /\ pledge \in [User -> [power : Nat, at : Nat]]

GungnirInit ==
    /\ bank = InitialBank
    /\ users = [u \in User |-> None]
    /\ now = 0
    /\ overflow_checks \in BOOLEAN
    /\ pledge = [u \in User |-> [power |-> 0, at |-> 0]]

-----------------------------------------------------------------------------
\* The arithmetic of a bare u128: a result that does not fit panics in a build
\* with overflow checks, and wraps without.
NoPanic(result) == overflow_checks => result \in 0..(Modulus - 1)

\* (Mutated form: a wider integer.)
Wrapped_Wide(result) == result
Wrapped(result) == result % Modulus

Entry(user) ==
    IF users[user] = None
    THEN [total_tokens |-> 0, voting_power |-> 0, released_time |-> 0]
    ELSE users[user]

\* The subtraction from total_tokens is checked in every build.
HasTokens(user, amount) == amount <= users[user].total_tokens

\* "cannot withdraw staked tokens".  (Mutated form: the power is compared with the
\* tokens before the withdrawal.)
KeepsStaked_Before(user, amount) ==
    users[user].total_tokens >= users[user].voting_power
KeepsStaked(user, amount) ==
    users[user].total_tokens - amount >= users[user].voting_power

\* (Mutated form: measured from the other end of the lock.)
Released_Inverted(user) == now <= users[user].released_time
Released(user) == now >= users[user].released_time

TokensCredited(user, amount) == [Entry(user) EXCEPT !.total_tokens = @ + amount]

GungnirDeposit(user, amount) ==
    /\ CanSend(bank, user, amount)
    /\ users' = [users EXCEPT ![user] = TokensCredited(user, amount)]
    /\ bank' = Sent(bank, user, Contract, amount)
    /\ UNCHANGED <<now, overflow_checks, pledge>>

\* (Mutated form: the entry is changed and not saved.)
TokensDebited_NotSaved(user, amount) == users
TokensDebited(user, amount) == [users EXCEPT ![user].total_tokens = @ - amount]

GungnirWithdraw(user, amount) ==
    /\ users[user] # None
    /\ HasTokens(user, amount)
    /\ KeepsStaked(user, amount)
    /\ CanSend(bank, Contract, amount)
    /\ users' = TokensDebited(user, amount)
    /\ bank' = Sent(bank, Contract, user, amount)
    /\ UNCHANGED <<now, overflow_checks, pledge>>

Stake(user, lock_amount) ==
    /\ users[user] # None
    /\ LET sum == users[user].voting_power + lock_amount
       IN  /\ NoPanic(sum)
           /\ Wrapped(sum) <= users[user].total_tokens
           /\ users' = [users EXCEPT ![user].voting_power = Wrapped(sum),
                                     ![user].released_time = now + LOCK_PERIOD]
           /\ pledge' = [pledge EXCEPT ![user] = [power |-> Wrapped(sum), at |-> now]]
    /\ UNCHANGED <<bank, now, overflow_checks>>

Unstake(user, unlock_amount) ==
    /\ users[user] # None
    /\ Released(user)
    /\ LET difference == users[user].voting_power - unlock_amount
       IN  /\ NoPanic(difference)
           /\ users' = [users EXCEPT ![user].voting_power = Wrapped(difference)]
    /\ UNCHANGED <<bank, now, overflow_checks, pledge>>

GungnirTick == Tick /\ UNCHANGED <<bank, users, overflow_checks, pledge>>

\* A user may ask for more than the contract holds: one coin more stands for it.
GungnirNext ==
    \/ \E user \in User :
         \/ \E amount \in 1..bank[user] : GungnirDeposit(user, amount)
         \/ \E amount \in 1..(bank[Contract] + 1) : GungnirWithdraw(user, amount)
         \/ \E amount \in 0..(Modulus - 1) : Stake(user, amount) \/ Unstake(user, amount)
    \/ GungnirTick

GungnirSpec == GungnirInit /\ [][GungnirNext]_gungnirVars

-----------------------------------------------------------------------------
Backed(user) ==
    users[user] # None => users[user].voting_power <= users[user].total_tokens

\* Voting power stays backed by deposited tokens: always in a build with overflow
\* checks, and in the release build through every deposit, withdrawal and stake.
\* There only an unstake of more than the power, once the lock is over, wraps it to
\* more than the tokens.
PowerStaysBacked ==
    [][\A u \in User : Backed(u) /\ ~Backed(u)' =>
         /\ ~overflow_checks
         /\ Released(u)
         /\ Entry(u)'.total_tokens = Entry(u).total_tokens]_gungnirVars

\* For LOCK_PERIOD after the last stake the user keeps at least the tokens that the
\* voting power stood for then, through every withdrawal and unstake, in every build.
LockKeepsTokens ==
    \A u \in User : now < pledge[u].at + LOCK_PERIOD =>
        pledge[u].power <= Entry(u).total_tokens

Tokens == INSTANCE Custody WITH
    Depositor <- User,
    held <- bank[Contract],
    credit <- [u \in User |-> Entry(u).total_tokens]

\* Tokens are kept like deposits in every build, whatever voting_power wraps to.
GungnirImplementsCustody == Tokens!Spec
=============================================================================
