------------------------------- MODULE Accounts -------------------------------
(***************************************************************************)
(* The addresses that a contract of its own deals with.                    *)
(***************************************************************************)
EXTENDS Bank

CONSTANTS
    User,           \* addresses that call the contract
    Contract        \* the address of the contract

Account == User \cup {Contract}

ASSUME ContractAssumption == Contract \notin User
=============================================================================
