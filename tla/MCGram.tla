------------------------------- MODULE MCGram -------------------------------
(***************************************************************************)
(* Gram with a handful of coins.                                           *)
(***************************************************************************)
EXTENDS Gram

CONSTANTS
    Coins,      \* coins of each user at the start
    Seed        \* coins the vault owns at the start

MCInitialBank == [a \in Account |-> IF a = Vault THEN Seed ELSE Coins]
=============================================================================
