----------------------------- MODULE MCDraupnir -----------------------------
(***************************************************************************)
(* Draupnir with two users, the first of whom is the first owner.          *)
(***************************************************************************)
EXTENDS Draupnir

CONSTANT Coins  \* coins of each user at the start

MCInitialBank == [a \in Account |-> IF a \in User THEN Coins ELSE 0]
=============================================================================
