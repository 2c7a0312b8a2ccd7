------------------------------ MODULE Draupnir ------------------------------
(***************************************************************************)
(* ctf-05, Draupnir: a vault whose ownership changes hands in two steps.   *)
(* accept_owner builds the error for a sender that was not proposed and    *)
(* does not return it, so any sender becomes owner.                        *)
(***************************************************************************)
EXTENDS Vault

CONSTANT NoOwner    \* no proposed owner

ASSUME NoOwnerAssumption == NoOwner \notin Account

VARIABLES
    current_owner,  \* STATE.current_owner
    proposed_owner, \* STATE.proposed_owner
    proposer        \* history: who was owner when proposed_owner was proposed

ownership == <<current_owner, proposed_owner, proposer>>
draupnirVars == <<vaultVars, ownership>>

DraupnirTypeOK ==
    /\ VaultTypeOK
    /\ current_owner \in Account
    /\ proposed_owner \in Account \cup {NoOwner}
    /\ proposer \in Account \cup {NoOwner}

DraupnirInit ==
    /\ VaultInit
    /\ current_owner = FirstOwner
    /\ proposed_owner = NoOwner
    /\ proposer = NoOwner

-----------------------------------------------------------------------------
DraupnirDeposit(sender, amount) == VaultDeposit(sender, amount) /\ UNCHANGED ownership

DraupnirWithdraw(sender, amount) == VaultWithdraw(sender, amount) /\ UNCHANGED ownership

ProposeOwner(sender, new_owner) ==
    /\ current_owner = sender
    /\ proposed_owner' = new_owner
    /\ proposer' = sender
    /\ UNCHANGED <<vaultVars, current_owner>>

\* (Mutated form: the proposal stays when ownership changes.)
ProposalClosed_Kept == UNCHANGED <<proposed_owner, proposer>>
ProposalClosed == proposed_owner' = NoOwner /\ proposer' = NoOwner

AcceptOwner(sender) ==
    /\ current_owner' = sender
    /\ ProposalClosed
    /\ UNCHANGED vaultVars

DropOwner(sender) ==
    /\ current_owner = sender
    /\ ProposalClosed
    /\ UNCHANGED <<vaultVars, current_owner>>

DraupnirHandle(sender) ==
    \/ \E amount \in 1..bank[sender] : DraupnirDeposit(sender, amount)
    \/ \E amount \in 1..MaxBalance : DraupnirWithdraw(sender, amount)
    \/ \E new_owner \in Account : ProposeOwner(sender, new_owner)
    \/ AcceptOwner(sender)
    \/ DropOwner(sender)

DraupnirOwnerAction(sender) ==
    /\ current_owner = sender
    /\ \/ /\ \E to \in User, amount \in 1..bank[Contract] : VaultSpend(to, amount)
          /\ UNCHANGED ownership
       \/ DraupnirHandle(Contract)

DraupnirNext == \E user \in User : DraupnirHandle(user) \/ DraupnirOwnerAction(user)

DraupnirSpec == DraupnirInit /\ [][DraupnirNext]_draupnirVars

-----------------------------------------------------------------------------
\* A proposal is always one of the current owner: it does not outlive the ownership
\* of who made it, through accepting, dropping and the contract's calls of itself.
ProposalOfOwner ==
    proposed_owner # NoOwner => proposer = current_owner

\* Types, and no proposal of an earlier owner.
OwnershipOK == DraupnirTypeOK /\ ProposalOfOwner

Ownership == INSTANCE Handover WITH
    Party <- Account,
    None <- NoOwner,
    owner <- current_owner,
    candidate <- proposed_owner

\* "a two step address transfer is implemented for the owner role", "for new owner
\* to accept a pending ownership transfer": only who was proposed becomes owner.
ImplementsHandover == Ownership!Spec
=============================================================================
