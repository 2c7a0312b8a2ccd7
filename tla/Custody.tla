------------------------------- MODULE Custody -------------------------------
(***************************************************************************)
(* What a contract that keeps deposits promises: coins that come in are    *)
(* credited to one user, coins that go out are debited from one user who   *)
(* had them, in the same transaction and in the same amount, and nobody    *)
(* else's credit moves.                                                    *)
(***************************************************************************)
EXTENDS Integers

CONSTANT Depositor

VARIABLES
    held,       \* coins the contract owns
    credit      \* what it owes each depositor

vars == <<held, credit>>

Init ==
    /\ held \in Nat
    /\ credit = [d \in Depositor |-> 0]

PayIn(d) ==
    /\ held' \in Nat
    /\ held' > held
    /\ credit' = [credit EXCEPT ![d] = @ + (held' - held)]

PayOut(d) ==
    /\ held' \in Nat
    /\ held' < held
    /\ held - held' <= credit[d]
    /\ credit' = [credit EXCEPT ![d] = @ - (held - held')]

\* Coins sent to the contract without a message are nobody's.
Gift ==
    /\ held' \in Nat
    /\ held' > held
    /\ UNCHANGED credit

Next == (\E d \in Depositor : PayIn(d) \/ PayOut(d)) \/ Gift

Spec == Init /\ [][Next]_vars
=============================================================================
