------------------------------ MODULE MCMjolnir ------------------------------
(***************************************************************************)
(* Mjolnir with lists of at most two ids, without and with repetitions.    *)
(***************************************************************************)
EXTENDS Mjolnir

CONSTANT Coins  \* coins of each user at the start

MCInitialBank == [a \in Account |-> IF a \in User THEN Coins ELSE 1]
AllLists == {<<>>} \cup {<<i>> : i \in Id} \cup {<<i, j>> : i, j \in Id}
=============================================================================
