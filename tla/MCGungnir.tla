------------------------------ MODULE MCGungnir ------------------------------
(***************************************************************************)
(* Gungnir with a few coins and a narrow voting power.                     *)
(***************************************************************************)
EXTENDS Gungnir

CONSTANT Coins  \* coins of each user at the start

MCInitialBank == [a \in Account |-> IF a \in User THEN Coins ELSE 0]
=============================================================================
