---------------------------- MODULE MCLaevateinn ----------------------------
(***************************************************************************)
(* The three contracts with two users and another contract.                *)
(***************************************************************************)
EXTENDS Laevateinn

CONSTANTS
    Lent,       \* coins of flash_loan at the start
    Own         \* coins of each user and of the other contract

MCInitialBank ==
    [a \in Account |-> CASE a = FlashLoan -> Lent
                        [] a \in User \cup {Borrower} -> Own
                        [] OTHER -> 0]
=============================================================================
