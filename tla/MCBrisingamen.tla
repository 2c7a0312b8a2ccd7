---------------------------- MODULE MCBrisingamen ----------------------------
(***************************************************************************)
(* Brisingamen with a few coins.                                           *)
(***************************************************************************)
EXTENDS Brisingamen

CONSTANTS
    Coins,      \* coins of each user at the start
    Rewards     \* reward coins of the owner at the start

MCInitialBank == [a \in Account |-> IF a \in User THEN Coins ELSE 0]
MCInitialRewards == [a \in Account |-> IF a = Owner THEN Rewards ELSE 0]
=============================================================================
