------------------------------- MODULE Timelock -------------------------------
(***************************************************************************)
(* The setting of the contracts that lock deposits for a period.           *)
(***************************************************************************)
EXTENDS Depository

CONSTANTS
    None,           \* no entry in a store
    LOCK_PERIOD,    \* how long a deposit or a stake is locked
    MaxTime         \* bound on the clock

ASSUME TimeAssumption == LOCK_PERIOD \in Nat /\ MaxTime \in Nat

VARIABLE now        \* block time

Tick == now < MaxTime /\ now' = now + 1
=============================================================================
