---------------------------- MODULE MCMistilteinn ----------------------------
(***************************************************************************)
(* Mistilteinn with two users, a page of two tokens and a usize of two     *)
(* bits; every whitelist and every limit up to MaxLimit.                   *)
(***************************************************************************)
EXTENDS Mistilteinn, TLC

CONSTANTS alice, bob

MCUser == {alice, bob}
Symmetry == Permutations(MCUser)
=============================================================================
