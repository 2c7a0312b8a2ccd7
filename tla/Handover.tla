------------------------------- MODULE Handover -------------------------------
(***************************************************************************)
(* What a contract with an owner in two steps promises: somebody becomes a *)
(* candidate first, only the candidate ever becomes owner, and a candidate *)
(* may be dropped.                                                         *)
(***************************************************************************)
CONSTANTS
    Party,      \* who may be owner or candidate
    None        \* no candidate

VARIABLES owner, candidate

vars == <<owner, candidate>>

Init == owner \in Party /\ candidate = None

Nominate == candidate' \in Party /\ UNCHANGED owner

\* The candidate may stay on record.
TakeOver ==
    /\ candidate # None
    /\ owner' = candidate
    /\ candidate' \in {candidate, None}

Drop == candidate' = None /\ UNCHANGED owner

Next == Nominate \/ TakeOver \/ Drop

Spec == Init /\ [][Next]_vars
=============================================================================
