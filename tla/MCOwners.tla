------------------------------- MODULE MCOwners -------------------------------
(***************************************************************************)
(* The contracts that let an owner send messages in their name, each       *)
(* deployed by itself: the two vaults Draupnir and Tyrfing, and Hofund.    *)
(* What only the others store stays as it is.  Two users, the first of     *)
(* whom is the first owner.                                                *)
(***************************************************************************)
EXTENDS Draupnir, Tyrfing, Hofund, FiniteSets

CONSTANTS
    Coins,      \* coins of each user at the start
    Tokens      \* voting tokens of each user at the start

VARIABLE deployed   \* which of the three it is

Each(n) == [a \in Account |-> IF a \in User THEN n ELSE 0]
MCInitialBank == Each(Coins)
MCInitialBalance == Each(Tokens)
MCInitialSupply == Cardinality(User) * Tokens

MCInit ==
    /\ DraupnirInit /\ TyrfingInit /\ HofundInit
    /\ deployed \in {"draupnir", "tyrfing", "hofund"}

MCNext ==
    /\ \/ deployed = "draupnir" /\ DraupnirNext /\ UNCHANGED <<roles, hofundVars>>
       \/ deployed = "tyrfing" /\ TyrfingNext /\ UNCHANGED <<ownership, hofundVars>>
       \/ deployed = "hofund" /\ HofundNext /\ UNCHANGED <<vaultVars, ownership, roles>>
    /\ UNCHANGED deployed

MCSpec == MCInit /\ [][MCNext]_<<vaultVars, ownership, roles, hofundVars, deployed>>
=============================================================================
