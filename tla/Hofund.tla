-------------------------------- MODULE Hofund --------------------------------
(***************************************************************************)
(* ctf-06, Hofund: users propose themselves as owner, others vote by       *)
(* sending cw20 tokens to the contract, and whoever resolves the proposal  *)
(* counts the tokens the contract then holds.  The token moves like the    *)
(* coins of a bank; it can be minted and burnt.                            *)
(***************************************************************************)
EXTENDS Accounts

CONSTANTS
    None,           \* no entry in PROPOSAL
    InitialOwner,   \* the owner it is instantiated with
    InitialBalance, \* the tokens everybody holds when it is instantiated
    InitialSupply,  \* how many those are
    voting_window,  \* CONFIG.voting_window
    MaxSupply,      \* bound on the supply of tokens
    MaxTime         \* bound on the clock

Proposal == [proposer : Account, timestamp : Nat]

ASSUME NoneAssumption == None \notin Proposal /\ None \notin Account
ASSUME InitialOwnerAssumption == InitialOwner \in Account
ASSUME TokenAssumption == InitialBalance \in [Account -> Nat]
ASSUME NumberAssumption ==
    /\ InitialSupply \in 0..MaxSupply
    /\ voting_window \in Nat
    /\ MaxSupply \in Nat
    /\ MaxTime \in Nat

VARIABLES
    balance,        \* the token contract: balance of every account
    total_supply,   \* the token contract: number of tokens
    owner,          \* CONFIG.owner
    proposal,       \* PROPOSAL
    now,            \* block time
    cast            \* history: tokens sent as votes since the proposal was made, MaxSupply
                    \* for all that are more

hofundVars == <<balance, total_supply, owner, proposal, now, cast>>

HofundTypeOK ==
    /\ balance \in [Account -> Nat]
    /\ total_supply \in Int
    /\ owner \in Account
    /\ proposal \in Proposal \cup {None}
    /\ now \in Nat
    /\ proposal # None => proposal.timestamp <= now
    /\ cast \in 0..MaxSupply

HofundInit ==
    /\ balance = InitialBalance
    /\ total_supply = InitialSupply
    /\ owner = InitialOwner
    /\ proposal = None
    /\ now = 0
    /\ cast = 0

-----------------------------------------------------------------------------
\* timestamp + voting_window < now closes the vote and the resolution alike.
WindowOpen == ~(proposal.timestamp + voting_window < now)

\* (Mutated form: the end of the window instead of its beginning.)
Timestamp_End == now + voting_window
Timestamp == now

Propose(sender) ==
    /\ proposal = None
    /\ proposal' = [proposer |-> sender, timestamp |-> Timestamp]
    /\ cast' = 0
    /\ UNCHANGED <<balance, total_supply, owner, now>>

Counted(sum) == IF sum < MaxSupply THEN sum ELSE MaxSupply

\* Tokens sent to the contract with a message.  receive_cw20 needs a proposal, looks
\* at the window if the message is CastVote, and accepts any other message.
Receive(voter, amount, isVote) ==
    /\ CanSend(balance, voter, amount)
    /\ proposal # None
    /\ isVote => WindowOpen
    /\ balance' = Sent(balance, voter, Contract, amount)
    /\ cast' = (IF isVote THEN Counted(cast + amount) ELSE cast)
    /\ UNCHANGED <<total_supply, owner, proposal, now>>

\* (Mutated form: compared the other way round.)
Passed_Below == balance[Contract] <= total_supply \div 3
Passed == balance[Contract] >= total_supply \div 3

\* (Mutated form: whoever sends the message.)
Winner_Sender(sender) == sender
Winner(sender) == proposal.proposer

\* A proposal that passed stays in PROPOSAL.
ResolveProposal(sender) ==
    /\ proposal # None
    /\ WindowOpen
    /\ IF Passed
       THEN owner' = Winner(sender) /\ UNCHANGED proposal
       ELSE proposal' = None /\ UNCHANGED owner
    /\ UNCHANGED <<balance, total_supply, now, cast>>

-----------------------------------------------------------------------------
\* What a holder does at the token contract: transfer, burn.  The minter mints.
UseToken(holder) ==
    /\ \E amount \in 1..balance[holder] :
         \/ /\ \E to \in Account : balance' = Sent(balance, holder, to, amount)
            /\ UNCHANGED total_supply
         \/ /\ balance' = [balance EXCEPT ![holder] = @ - amount]
            /\ total_supply' = total_supply - amount
    /\ UNCHANGED <<owner, proposal, now, cast>>

MintToken(to) ==
    /\ total_supply < MaxSupply
    /\ balance' = [balance EXCEPT ![to] = @ + 1]
    /\ total_supply' = total_supply + 1
    /\ UNCHANGED <<owner, proposal, now, cast>>

\* The owner lets the contract send any message: to the token, or to itself.
OwnerAction(sender) ==
    /\ owner = sender
    /\ UseToken(Contract) \/ Propose(Contract)

Tick ==
    /\ now < MaxTime
    /\ now' = now + 1
    /\ UNCHANGED <<balance, total_supply, owner, proposal, cast>>

HofundNext ==
    \/ \E user \in User :
         \/ Propose(user)
         \/ ResolveProposal(user)
         \/ OwnerAction(user)
         \/ \E amount \in 1..balance[user], isVote \in BOOLEAN :
              Receive(user, amount, isVote)
         \/ UseToken(user)
    \/ \E account \in Account : MintToken(account)
    \/ Tick

HofundSpec == HofundInit /\ [][HofundNext]_hofundVars

-----------------------------------------------------------------------------
\* The owner is replaced by the proposer on record and by nobody else: not by whoever
\* resolves the proposal, and not without a proposal.
Election == INSTANCE Handover WITH
    Party <- Account,
    candidate <- IF proposal = None THEN None ELSE proposal.proposer

HofundImplementsHandover == Election!Spec

\* A proposal with a third of the supply is not lost: nothing replaces it, and when
\* it goes, its proposer is owner or the contract held less than a third.
ProposalHeard ==
    [][proposal # None /\ proposal' # proposal =>
         /\ proposal' = None
         /\ owner' = proposal.proposer \/ 3 * balance[Contract] < total_supply]_hofundVars

\* "If a proposal was voted for with more than a third of the current supply, the
\* user gets the owner role": a new owner was voted for with more than a third.
ElectedByThird ==
    [][owner' # owner => 3 * cast > total_supply]_hofundVars
=============================================================================
