-------------------------------- MODULE Bank --------------------------------
(***************************************************************************)
(* The native-coin module of the chain, as the contracts use it.  A bank   *)
(* is a function from accounts to amounts of the one denomination the      *)
(* contract accepts.  It is external code: its meaning here is what        *)
(* BankMsg::Send, query_balance and must_pay of the contracts rely on.     *)
(***************************************************************************)
EXTENDS Integers

\* must_pay(&info, DENOM): exactly one coin of the denomination, not zero; the
\* sender must own it.  The same test decides whether BankMsg::Send succeeds.
CanSend(bank, from, amount) ==
    /\ amount > 0
    /\ amount <= bank[from]

\* The bank after amount coins went from one account to another.
Sent(bank, from, to, amount) ==
    IF from = to THEN bank
    ELSE [bank EXCEPT ![from] = @ - amount, ![to] = @ + amount]
=============================================================================
