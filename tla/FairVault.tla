------------------------------ MODULE FairVault ------------------------------
(***************************************************************************)
(* What a share vault promises: whoever enters or leaves gets all that the *)
(* coins or the shares are worth at the ratio before, but for a rounding   *)
(* of less than one, which is never against those who stay.  assets is     *)
(* what the vault holds, supply the number of shares outstanding.          *)
(***************************************************************************)
EXTENDS Integers

VARIABLES assets, supply

vars == <<assets, supply>>

Init ==
    /\ assets \in Nat
    /\ supply = 0

\* All of what is due, rounded down: the largest number that times part is no more
\* than product.
RoundedDown(number, product, part) ==
    number * part <= product /\ product < (number + 1) * part

\* Coins come in, shares go out: as many as the coins are worth, and no more.
Enter ==
    /\ assets' \in Nat /\ supply' \in Nat
    /\ assets' > assets
    /\ supply' > supply
    /\ IF supply = 0 THEN supply' = assets' - assets
       ELSE RoundedDown(supply' - supply, (assets' - assets) * supply, assets)

\* Shares come back, coins go out: as many as the shares are worth, and no more.
Leave ==
    /\ assets' \in Nat /\ supply' \in Nat
    /\ assets' < assets
    /\ supply' < supply
    /\ RoundedDown(assets - assets', (supply - supply') * assets, supply)

\* Coins come in for nothing: anybody may send coins to a contract.
Gift ==
    /\ assets' \in Nat
    /\ assets' > assets
    /\ UNCHANGED supply

Next == Enter \/ Leave \/ Gift

Spec == Init /\ [][Next]_vars
=============================================================================
