------------------------------ MODULE Depository ------------------------------
(***************************************************************************)
(* The setting of the contracts that keep deposits of one denomination:    *)
(* the accounts and the bank.                                              *)
(***************************************************************************)
EXTENDS Accounts

CONSTANT InitialBank    \* the coins everybody owns when it is instantiated

ASSUME BankAssumption == InitialBank \in [Account -> Nat]

VARIABLE bank       \* coins of every account
=============================================================================
