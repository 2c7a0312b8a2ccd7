------------------------------ MODULE AtomicLoan ------------------------------
(***************************************************************************)
(* What the flash-loan contract promises to whoever looks at it between    *)
(* two transactions.  With the proxy contract as proxy a loan is never     *)
(* seen: a transaction that lends also gets at least as much back.  Only   *)
(* a proxy that is not the proxy contract can keep a loan open.            *)
(***************************************************************************)
EXTENDS Integers

CONSTANTS ProxyContract, None

VARIABLES
    funds,      \* coins of the flash-loan contract
    loan,       \* None, or the amount lent
    proxy       \* None, or the address that may borrow

vars == <<funds, loan, proxy>>

Init == funds \in Nat /\ loan = None /\ proxy = None

\* Coins come in, by a gift, by a loan that was paid back, or both.
Keep == funds' >= funds /\ UNCHANGED <<loan, proxy>>

\* The owner takes everything.
Withdraw == funds' = 0 /\ UNCHANGED <<loan, proxy>>

\* The proxy is chosen once.
SetProxy == proxy = None /\ proxy' # None /\ funds' >= funds /\ UNCHANGED loan

\* All the coins are lent, with those that the borrower brought.
Open ==
    /\ proxy \notin {None, ProxyContract}
    /\ loan = None
    /\ loan' >= funds /\ loan' > 0
    /\ funds' = 0
    /\ UNCHANGED proxy

Close ==
    /\ proxy # ProxyContract
    /\ loan # None /\ loan' = None
    /\ funds' >= loan /\ funds' >= funds
    /\ UNCHANGED proxy

Next == Keep \/ Withdraw \/ SetProxy \/ Open \/ Close

Spec == Init /\ [][Next]_vars
=============================================================================
