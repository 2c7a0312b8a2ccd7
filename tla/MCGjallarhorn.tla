---------------------------- MODULE MCGjallarhorn ----------------------------
(***************************************************************************)
(* Gjallarhorn with two users who own an NFT and a coin each.  Alice with  *)
(* her NFT and Bob with his are interchangeable, both pairs at once.       *)
(***************************************************************************)
EXTENDS Gjallarhorn, TLC

CONSTANTS alice, bob, t1, t2

MCUser == {alice, bob}
MCToken == {t1, t2}
MCInitialOwner == [t \in Token |-> IF t = t1 THEN alice ELSE bob]
MCInitialBank == [a \in Account |-> IF a = Market THEN 0 ELSE 1]

\* Each user changes places with the other if and only if their NFTs do.
Symmetry == {p \in Permutations(User \cup Token) :
               \A t \in Token : p[t] \in Token /\ p[InitialOwner[t]] = InitialOwner[p[t]]}
=============================================================================
