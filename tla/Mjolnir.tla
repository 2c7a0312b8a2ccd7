------------------------------- MODULE Mjolnir -------------------------------
(***************************************************************************)
(* ctf-01, Mjolnir: deposits locked for a period.  Every deposit becomes a *)
(* lockup with an id of its own; a withdrawal names a list of ids, all of  *)
(* which are read from storage before the first is removed.                *)
(***************************************************************************)
EXTENDS Timelock, Sequences, Functions

CONSTANTS
    MINIMUM_DEPOSIT_AMOUNT,
    IdLists,        \* the lists of ids that users pass to withdraw
    MaxId           \* bound on LAST_ID

Id == 1..MaxId
Lockup == [owner : User, amount : Nat, release_timestamp : Nat]

ASSUME NoLockupAssumption == None \notin Lockup
ASSUME MjolnirAssumption == MINIMUM_DEPOSIT_AMOUNT \in Nat /\ MaxId \in Nat
ASSUME ListAssumption == IdLists \subseteq Seq(Id)

VARIABLES
    last_id,        \* LAST_ID: the id of the next lockup
    lockups,        \* LOCKUPS
    overpaid        \* history: what withdrawals paid beyond the lockups they ended

mjolnirVars == <<bank, last_id, lockups, now, overpaid>>

MjolnirTypeOK ==
    /\ bank \in [Account -> Nat]
    /\ last_id \in 1..(MaxId + 1)
    /\ lockups \in [Id -> Lockup \cup {None}]
    /\ now \in Nat
    /\ overpaid \in Nat

MjolnirInit ==
    /\ bank = InitialBank
    /\ last_id = 1
    /\ lockups = [id \in Id |-> None]
    /\ now = 0
    /\ overpaid = 0

-----------------------------------------------------------------------------
\* (Mutated form: the lock ends a period before the deposit.)
ReleaseTime_Minus == now - LOCK_PERIOD
ReleaseTime == now + LOCK_PERIOD

\* (Mutated form: LAST_ID is read and not saved.)
NextId_NotSaved == last_id
NextId == last_id + 1

MjolnirDeposit(user, amount) ==
    /\ CanSend(bank, user, amount)
    /\ amount >= MINIMUM_DEPOSIT_AMOUNT
    /\ last_id <= MaxId
    /\ last_id' = NextId
    /\ lockups' = [lockups EXCEPT ![last_id] =
            [owner |-> user, amount |-> amount, release_timestamp |-> ReleaseTime]]
    /\ bank' = Sent(bank, user, Contract, amount)
    /\ UNCHANGED <<now, overpaid>>

\* Every lockup of the list belongs to the sender and is released.  (Mutated form:
\* only the first one is looked at.)
Authorized_First(user, ids) ==
    ids # <<>> => /\ lockups[ids[1]].owner = user
                  /\ now >= lockups[ids[1]].release_timestamp
Authorized(user, ids) ==
    \A id \in Range(ids) : /\ lockups[id].owner = user
                           /\ now >= lockups[id].release_timestamp

\* What the loop adds up: an id that is listed twice counts twice.
TotalAmount(ids) ==
    SumFunctionOnSet([i \in DOMAIN ids |-> lockups[ids[i]].amount], DOMAIN ids)

\* What a set of lockups is worth, each counted once.
Locked(ids) == SumFunctionOnSet([id \in ids |-> lockups[id].amount], ids)

Removed(ids) == [id \in Id |-> IF id \in Range(ids) THEN None ELSE lockups[id]]

MjolnirWithdraw(user, ids) ==
    /\ \A id \in Range(ids) : lockups[id] # None
    /\ Authorized(user, ids)
    /\ CanSend(bank, Contract, TotalAmount(ids))
    /\ lockups' = Removed(ids)
    /\ bank' = Sent(bank, Contract, user, TotalAmount(ids))
    /\ overpaid' = overpaid + TotalAmount(ids) - Locked(Range(ids))
    /\ UNCHANGED <<last_id, now>>

MjolnirTick == Tick /\ UNCHANGED <<bank, last_id, lockups, overpaid>>

MjolnirNext ==
    \/ \E user \in User :
         \/ \E amount \in 1..bank[user] : MjolnirDeposit(user, amount)
         \/ \E ids \in IdLists : MjolnirWithdraw(user, ids)
    \/ MjolnirTick

MjolnirSpec == MjolnirInit /\ [][MjolnirNext]_mjolnirVars

-----------------------------------------------------------------------------
\* A lockup stays as it is until its period has passed since the deposit; then it
\* is removed in a withdrawal that pays its owner at least its amount.
LockupEndsPaid ==
    [][\A id \in Id :
         lockups[id] # None /\ lockups'[id] # lockups[id] =>
            LET owner == lockups[id].owner
            IN  /\ lockups'[id] = None
                /\ now >= lockups[id].release_timestamp
                /\ bank'[owner] >= bank[owner] + lockups[id].amount]_mjolnirVars

LockedBy(user) == Locked({id \in Id : lockups[id] # None /\ lockups[id].owner = user})

Lockups == INSTANCE Custody WITH
    Depositor <- User,
    held <- bank[Contract] + overpaid,
    credit <- [u \in User |-> LockedBy(u)]

\* Lockups are kept like deposits, but for what a list that names an id twice takes
\* with it: a withdrawal pays what it ends, to its owner, and nobody else's lockup
\* changes.
MjolnirImplementsCustody == Lockups!Spec
=============================================================================
