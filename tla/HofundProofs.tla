----------------------------- MODULE HofundProofs -----------------------------
(***************************************************************************)
(* Theorems about Hofund for every set of users, every distribution of     *)
(* tokens and every voting window.                                         *)
(***************************************************************************)
EXTENDS Hofund, TLAPS

LEMMA Addresses == Contract \in Account /\ User \subseteq Account
BY DEF Account

LEMMA SentBalance ==
    ASSUME NEW b \in [Account -> Nat], NEW f \in Account, NEW t \in Account,
           NEW n \in Nat, n <= b[f]
    PROVE  Sent(b, f, t, n) \in [Account -> Nat]
BY DEF Sent

-----------------------------------------------------------------------------
\* Type correctness, one lemma per action.
LEMMA ProposeType ==
    ASSUME HofundTypeOK, NEW sender \in Account, Propose(sender)
    PROVE  HofundTypeOK'
<1>1. proposal' \in Proposal /\ proposal'.timestamp = now
  BY DEF HofundTypeOK, Propose, Timestamp, Proposal
<1>2. cast' \in 0..MaxSupply /\ UNCHANGED <<balance, total_supply, owner, now>>
  BY NumberAssumption DEF Propose
<1>3. QED
  BY <1>1, <1>2 DEF HofundTypeOK

LEMMA ReceiveType ==
    ASSUME HofundTypeOK, NEW voter \in User, NEW amount \in 1..balance[voter],
           NEW isVote \in BOOLEAN, Receive(voter, amount, isVote)
    PROVE  HofundTypeOK'
<1>1. balance[voter] \in Nat
  BY Addresses DEF HofundTypeOK
<1>2. amount \in Nat /\ amount <= balance[voter]
  BY <1>1
<1>3. balance' \in [Account -> Nat]
  BY <1>2, Addresses, SentBalance DEF HofundTypeOK, Receive
<1>4. cast' \in 0..MaxSupply
  BY <1>2, NumberAssumption DEF HofundTypeOK, Receive, Counted
<1>5. UNCHANGED <<total_supply, owner, proposal, now>>
  BY DEF Receive
<1>6. QED
  BY <1>3, <1>4, <1>5 DEF HofundTypeOK

LEMMA ResolveType ==
    ASSUME HofundTypeOK, NEW sender \in User, ResolveProposal(sender)
    PROVE  HofundTypeOK'
<1>1. proposal.proposer \in Account
  BY DEF HofundTypeOK, ResolveProposal, Proposal
<1>2. owner' \in Account /\ proposal' \in {proposal, None}
  BY <1>1 DEF HofundTypeOK, ResolveProposal, Winner
<1>3. UNCHANGED <<balance, total_supply, now, cast>>
  BY DEF ResolveProposal
<1>4. QED
  BY <1>2, <1>3 DEF HofundTypeOK

LEMMA UseTokenType ==
    ASSUME HofundTypeOK, NEW holder \in Account, UseToken(holder)
    PROVE  HofundTypeOK'
<1>1. PICK amount \in 1..balance[holder] :
         \/ /\ \E to \in Account : balance' = Sent(balance, holder, to, amount)
            /\ UNCHANGED total_supply
         \/ /\ balance' = [balance EXCEPT ![holder] = @ - amount]
            /\ total_supply' = total_supply - amount
  BY DEF UseToken
<1>2. balance[holder] \in Nat /\ amount \in Nat /\ amount <= balance[holder]
  BY <1>1 DEF HofundTypeOK
<1>3. balance' \in [Account -> Nat] /\ total_supply' \in Int
  <2>1. CASE /\ \E to \in Account : balance' = Sent(balance, holder, to, amount)
             /\ UNCHANGED total_supply
    BY <2>1, <1>2, SentBalance DEF HofundTypeOK
  <2>2. CASE /\ balance' = [balance EXCEPT ![holder] = @ - amount]
             /\ total_supply' = total_supply - amount
    BY <2>2, <1>2 DEF HofundTypeOK
  <2>3. QED
    BY <1>1, <2>1, <2>2
<1>4. UNCHANGED <<owner, proposal, now, cast>>
  BY DEF UseToken
<1>5. QED
  BY <1>3, <1>4 DEF HofundTypeOK

LEMMA MintType ==
    ASSUME HofundTypeOK, NEW to \in Account, MintToken(to)
    PROVE  HofundTypeOK'
<1>1. balance' \in [Account -> Nat] /\ total_supply' \in Int
  BY DEF HofundTypeOK, MintToken
<1>2. UNCHANGED <<owner, proposal, now, cast>>
  BY DEF MintToken
<1>3. QED
  BY <1>1, <1>2 DEF HofundTypeOK

LEMMA TickType == HofundTypeOK /\ Tick => HofundTypeOK'
<1> SUFFICES ASSUME HofundTypeOK, Tick PROVE HofundTypeOK'
  OBVIOUS
<1>1. now' \in Nat /\ now <= now'
  BY DEF HofundTypeOK, Tick
<1>2. UNCHANGED <<balance, total_supply, owner, proposal, cast>>
  BY DEF Tick
<1>3. proposal # None => proposal.timestamp <= now'
  BY <1>1 DEF HofundTypeOK, Proposal
<1>4. QED
  BY <1>1, <1>2, <1>3 DEF HofundTypeOK

LEMMA TypeInit == HofundInit => HofundTypeOK
BY TokenAssumption, InitialOwnerAssumption, NumberAssumption DEF HofundInit, HofundTypeOK

LEMMA TypeNext == HofundTypeOK /\ [HofundNext]_hofundVars => HofundTypeOK'
<1> SUFFICES ASSUME HofundTypeOK, [HofundNext]_hofundVars PROVE HofundTypeOK'
  OBVIOUS
<1>1. CASE UNCHANGED hofundVars
  BY <1>1 DEF HofundTypeOK, hofundVars
<1>2. ASSUME NEW sender \in User, OwnerAction(sender) PROVE HofundTypeOK'
  BY <1>2, Addresses, UseTokenType, ProposeType DEF OwnerAction
<1>3. CASE HofundNext
  BY <1>2, <1>3, Addresses, ProposeType, ReceiveType, ResolveType, UseTokenType,
     MintType, TickType DEF HofundNext
<1>4. QED
  BY <1>1, <1>3

\* The stores and the token keep their types; no proposal is from the future.
THEOREM TypeCorrect == HofundSpec => []HofundTypeOK
BY TypeInit, TypeNext, PTL DEF HofundSpec

-----------------------------------------------------------------------------
\* What each step does to the owner and the proposal.  Only a resolution touches the
\* owner, and only a resolution removes a proposal.
LEMMA StepsOfOwnership ==
    ASSUME HofundTypeOK, [HofundNext]_hofundVars
    PROVE  \/ UNCHANGED <<owner, proposal>>
           \/ \E sender \in Account : Propose(sender)
           \/ \E sender \in User : ResolveProposal(sender)
<1>1. ASSUME NEW sender \in User, OwnerAction(sender)
      PROVE  UNCHANGED <<owner, proposal>> \/ Propose(Contract)
  BY <1>1 DEF OwnerAction, UseToken
<1>2. CASE HofundNext
  BY <1>1, <1>2, Addresses DEF HofundNext, Receive, UseToken, MintToken, Tick
<1>3. CASE UNCHANGED hofundVars
  BY <1>3 DEF hofundVars
<1>4. QED
  BY <1>2, <1>3

\* Less than a third of the supply, rounded down, is less than a third.
LEMMA Third ==
    ASSUME NEW s \in Int, NEW b \in Nat, ~(b >= s \div 3)
    PROVE  3 * b < s
<1>1. s = 3 * (s \div 3) + (s % 3) /\ (s % 3) \in 0..2 /\ (s \div 3) \in Int
  OBVIOUS
<1>2. QED
  BY <1>1

LEMMA ResolveStep ==
    ASSUME HofundTypeOK, NEW sender \in User, ResolveProposal(sender)
    PROVE  /\ proposal # None
           /\ \/ owner' = proposal.proposer /\ proposal' = proposal
              \/ /\ owner' = owner /\ proposal' = None
                 /\ 3 * balance[Contract] < total_supply
<1>1. balance[Contract] \in Nat /\ total_supply \in Int
  BY Addresses DEF HofundTypeOK
<1>2. CASE Passed
  BY <1>2 DEF ResolveProposal, Winner
<1>3. CASE ~Passed
  <2>1. 3 * balance[Contract] < total_supply
    BY <1>1, <1>3, Third DEF Passed
  <2>2. proposal # None /\ owner' = owner /\ proposal' = None
    BY <1>3 DEF ResolveProposal
  <2>3. QED
    BY <2>1, <2>2
<1>4. QED
  BY <1>2, <1>3

\* A proposal with a third of the supply is not lost: it goes only with its proposer
\* as owner, or when the contract holds less than a third.
THEOREM ProposalProved == HofundSpec => ProposalHeard
<1>1. HofundTypeOK /\ [HofundNext]_hofundVars =>
        [proposal # None /\ proposal' # proposal =>
           /\ proposal' = None
           /\ owner' = proposal.proposer \/ 3 * balance[Contract] < total_supply]_hofundVars
  <2> SUFFICES ASSUME HofundTypeOK, [HofundNext]_hofundVars, proposal # None, proposal' # proposal
               PROVE  proposal' = None /\ 3 * balance[Contract] < total_supply
    OBVIOUS
  <2>1. \E sender \in User : ResolveProposal(sender)
    BY StepsOfOwnership DEF Propose
  <2>2. QED
    BY <2>1, ResolveStep
<1>2. QED
  BY <1>1, TypeInit, TypeNext, PTL DEF HofundSpec, ProposalHeard

-----------------------------------------------------------------------------
\* The owner is replaced by the proposer on record, as the abstract specification says.
THEOREM Refinement == HofundSpec => HofundImplementsHandover
<1> DEFINE candidate == IF proposal = None THEN None ELSE proposal.proposer
<1>1. HofundInit => Election!Init
  BY InitialOwnerAssumption DEF HofundInit, Election!Init
<1>2. HofundTypeOK /\ [HofundNext]_hofundVars => [Election!Next]_(Election!vars)
  <2> SUFFICES ASSUME HofundTypeOK, [HofundNext]_hofundVars
               PROVE  [Election!Next]_(Election!vars)
    OBVIOUS
  <2>1. CASE UNCHANGED <<owner, proposal>>
    BY <2>1 DEF Election!vars
  <2>2. CASE \E sender \in Account : Propose(sender)
    <3>1. proposal' # None /\ proposal'.proposer \in Account /\ owner' = owner
      <4>1. PICK sender \in Account : Propose(sender)
        BY <2>2
      <4>2. proposal' \in Proposal /\ owner' = owner
        BY <4>1 DEF HofundTypeOK, Propose, Timestamp, Proposal
      <4>3. QED
        BY <4>2, NoneAssumption DEF Proposal
    <3>2. QED
      BY <3>1 DEF Election!Next, Election!Nominate
  <2>3. CASE \E sender \in User : ResolveProposal(sender)
    <3>1. proposal # None
      BY <2>3, ResolveStep
    <3>2. proposal.proposer # None
      BY <3>1, NoneAssumption DEF HofundTypeOK, Proposal
    <3>3. CASE owner' = proposal.proposer /\ proposal' = proposal
      BY <3>1, <3>2, <3>3 DEF Election!Next, Election!TakeOver
    <3>4. CASE owner' = owner /\ proposal' = None
      BY <3>4 DEF Election!Next, Election!Drop
    <3>5. QED
      BY <2>3, <3>3, <3>4, ResolveStep
  <2>4. QED
    BY <2>1, <2>2, <2>3, StepsOfOwnership
<1>3. QED
  BY <1>1, <1>2, TypeInit, TypeNext, PTL
     DEF HofundSpec, HofundImplementsHandover, Election!Spec
=============================================================================
