-------------------------------- MODULE Cw721 --------------------------------
(***************************************************************************)
(* The NFT contract the marketplace and the mint talk to (cw721-base), as  *)
(* far as they use it.  A collection c is a record of                      *)
(*   owner      the owner of every token,                                  *)
(*   approved   per token, the addresses that may send this token,         *)
(*   operators  per address, the addresses that may send all its tokens.   *)
(* An approval that expires is one that is revoked.                        *)
(***************************************************************************)

\* TransferNft succeeds for the owner, an approved spender or an operator.
MaySend(c, sender, token) ==
    \/ sender = c.owner[token]
    \/ sender \in c.approved[token]
    \/ sender \in c.operators[c.owner[token]]

\* The token changes hands and loses its approvals; operators stay.
Transferred(c, token, to) ==
    [c EXCEPT !.owner[token] = to, !.approved[token] = {}]

\* The Approval query: an error unless the spender is the owner or has an
\* approval for this token.  Being an operator does not count.
HasApproval(c, spender, token) ==
    \/ spender = c.owner[token]
    \/ spender \in c.approved[token]

\* Approve and Revoke, and their ApproveAll and RevokeAll forms.
Approved(c, spender, token) == [c EXCEPT !.approved[token] = @ \cup {spender}]
Revoked(c, spender, token) == [c EXCEPT !.approved[token] = @ \ {spender}]
ApprovedAll(c, owner, spender) == [c EXCEPT !.operators[owner] = @ \cup {spender}]
RevokedAll(c, owner, spender) == [c EXCEPT !.operators[owner] = @ \ {spender}]
=============================================================================
