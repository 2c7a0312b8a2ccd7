----------------------------- MODULE SerialIssue -----------------------------
(***************************************************************************)
(* What a contract that numbers what it issues promises: numbers are given *)
(* out one after the other, each to one thing and never again, and what is *)
(* not there any more does not come back.                                  *)
(***************************************************************************)
EXTENDS Naturals

VARIABLES
    issued,     \* how many numbers were given out
    live        \* the numbers of the things that exist

vars == <<issued, live>>

Init == issued = 0 /\ live = {}

Issue == issued' = issued + 1 /\ live' = live \cup {issued}

Retire == live' \subseteq live /\ UNCHANGED issued

Next == Issue \/ Retire

Spec == Init /\ [][Next]_vars
=============================================================================
