------------------------------- MODULE MCHofund -------------------------------
(***************************************************************************)
(* Hofund with two users who share a few tokens, the first of whom is the  *)
(* first owner.                                                            *)
(***************************************************************************)
EXTENDS Hofund, FiniteSets

CONSTANT Tokens     \* voting tokens of each user at the start

MCInitialBalance == [a \in Account |-> IF a \in User THEN Tokens ELSE 0]
MCInitialSupply == Cardinality(User) * Tokens
=============================================================================
