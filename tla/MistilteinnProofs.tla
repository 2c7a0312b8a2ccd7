--------------------------- MODULE MistilteinnProofs ---------------------------
(***************************************************************************)
(* Theorems about Mistilteinn for every set of users, every whitelist, and *)
(* every limit, page and width of a usize.                                 *)
(***************************************************************************)
EXTENDS Mistilteinn, FiniteSetTheorems, TLAPS

\* A token that exists has a number that was given out; and who owns less than was
\* minted gave the difference away.
Numbering == \A id \in Id : holder[id] # None => id < total_tokens

Counted ==
    \A u \in User : /\ minted[u] <= Cardinality(TokensOf(u)) + left[u]
                    /\ minted[u] <= total_tokens

IInv == TypeOK /\ Numbering /\ Counted /\ MintedWithinLimit

LEMMA FiniteIds ==
    ASSUME NEW S \in SUBSET Id
    PROVE  IsFiniteSet(S) /\ Cardinality(S) \in Nat
<1>1. IsFiniteSet(Id)
  BY NumberAssumption, FS_Interval DEF Id
<1>2. QED
  BY <1>1, FS_Subset, FS_CardinalityType

LEMMA Finite ==
    ASSUME NEW u
    PROVE  IsFiniteSet(TokensOf(u)) /\ Cardinality(TokensOf(u)) \in Nat
BY FiniteIds DEF TokensOf

LEMMA IdType == Id \subseteq Nat /\ \A n \in Nat : n < MaxTokens => n \in Id
BY NumberAssumption DEF Id

\* A cut limit is no larger than the limit, and the same if it needs no cut.
LEMMA CutLimit ==
    ASSUME TypeOK
    PROVE  /\ mint_per_user % UsizeValues \in Nat
           /\ mint_per_user % UsizeValues <= mint_per_user
           /\ mint_per_user < UsizeValues => mint_per_user % UsizeValues = mint_per_user
<1>1. mint_per_user \in Nat /\ UsizeValues \in Nat \ {0}
  BY NumberAssumption DEF TypeOK
<1>2. QED
  BY <1>1

\* If the page is long enough, who may mint owns less than the limit.
LEMMA BelowLimit ==
    ASSUME TypeOK, NEW u \in User, MayMint(u), PageShowsLimit
    PROVE  Cardinality(TokensOf(u)) < mint_per_user
<1>1. Cardinality(TokensOf(u)) \in Nat /\ mint_per_user \in Nat /\ PageSize \in Nat
  BY Finite, NumberAssumption DEF TypeOK
<1>2. Listed(u) \in Nat
  BY <1>1 DEF Listed
<1>3. Listed(u) < mint_per_user
  BY <1>1, <1>2, CutLimit DEF MayMint, LimitReached
<1>4. mint_per_user <= PageSize
  BY DEF PageShowsLimit
<1>5. QED
  BY <1>1, <1>3, <1>4 DEF Listed

-----------------------------------------------------------------------------
\* Mint gives the next number to the sender and moves nothing else.
LEMMA MintStep ==
    ASSUME IInv, NEW user \in User, Mint(user)
    PROVE  /\ total_tokens \in Id /\ holder[total_tokens] = None
           /\ total_tokens' = total_tokens + 1
           /\ holder' = [holder EXCEPT ![total_tokens] = user]
           /\ Cardinality(TokensOf(user))' = Cardinality(TokensOf(user)) + 1
           /\ \A u \in User \ {user} : TokensOf(u)' = TokensOf(u)
<1>1. /\ total_tokens' = total_tokens + 1
      /\ holder' = [holder EXCEPT ![total_tokens] = user]
      /\ total_tokens < MaxTokens
      /\ holder[total_tokens] = None
  BY DEF Mint, MayMint, Unclaimed, TokenId, NextTotal
<1>2. total_tokens \in Id
  BY <1>1, IdType, NumberAssumption DEF IInv, TypeOK
<1>3. user # None
  BY NoneAssumption
<1>4. holder \in [Id -> User \cup {None}]
  BY DEF IInv, TypeOK
<1>5. TokensOf(user)' = TokensOf(user) \cup {total_tokens}
  BY <1>1, <1>2, <1>4 DEF TokensOf
<1>6. total_tokens \notin TokensOf(user)
  BY <1>1, <1>3 DEF TokensOf
<1>7. Cardinality(TokensOf(user))' = Cardinality(TokensOf(user)) + 1
  <2>1. Cardinality(TokensOf(user) \cup {total_tokens}) = Cardinality(TokensOf(user)) + 1
    BY <1>6, Finite, FS_AddElement
  <2>2. QED
    BY <1>5, <2>1
<1>8. \A u \in User \ {user} : TokensOf(u)' = TokensOf(u)
  BY <1>1, <1>2, <1>4, NoneAssumption DEF TokensOf
<1>9. QED
  BY <1>1, <1>2, <1>7, <1>8

LEMMA MintPreserves ==
    ASSUME IInv, NEW user \in User, Mint(user)
    PROVE  IInv'
<1>1. /\ total_tokens \in Id /\ holder[total_tokens] = None
      /\ total_tokens' = total_tokens + 1
      /\ holder' = [holder EXCEPT ![total_tokens] = user]
      /\ Cardinality(TokensOf(user))' = Cardinality(TokensOf(user)) + 1
      /\ \A u \in User \ {user} : TokensOf(u)' = TokensOf(u)
  BY MintStep
<1>2. /\ total_tokens < MaxTokens /\ total_tokens \in Nat
      /\ minted' = [minted EXCEPT ![user] = @ + 1]
      /\ UNCHANGED <<nft_contract, mint_per_user, whitelist, left>>
  BY IdType DEF Mint, IInv, TypeOK
<1>3. TypeOK'
  <2>1. total_tokens' \in 0..MaxTokens
    BY <1>1, <1>2, NumberAssumption
  <2>2. minted' \in [User -> Nat]
    BY <1>2 DEF IInv, TypeOK
  <2>3. holder' \in [Id -> User \cup {None}]
    BY <1>1 DEF IInv, TypeOK
  <2>4. QED
    BY <1>2, <2>1, <2>2, <2>3 DEF IInv, TypeOK
<1>4. Numbering'
  <2> SUFFICES ASSUME NEW id \in Id, holder'[id] # None PROVE id < total_tokens'
    BY DEF Numbering
  <2>1. id \in Nat
    BY IdType
  <2>2. CASE id = total_tokens
    BY <1>1, <1>2, <2>2
  <2>3. CASE id # total_tokens
    <3>1. holder[id] # None
      BY <1>1, <2>3 DEF IInv, TypeOK
    <3>2. id < total_tokens
      BY <3>1 DEF IInv, Numbering
    <3>3. QED
      BY <1>1, <1>2, <2>1, <3>2
  <2>4. QED
    BY <2>2, <2>3
<1>5. ASSUME NEW u \in User
      PROVE  /\ minted'[u] <= Cardinality(TokensOf(u))' + left'[u]
             /\ minted'[u] <= total_tokens'
             /\ PageShowsLimit => minted'[u] <= mint_per_user + left'[u]
  <2>1. /\ minted[u] \in Nat /\ left[u] \in Nat /\ mint_per_user \in Nat
        /\ Cardinality(TokensOf(u)) \in Nat
        /\ minted[u] <= Cardinality(TokensOf(u)) + left[u]
        /\ minted[u] <= total_tokens
        /\ PageShowsLimit => minted[u] <= mint_per_user + left[u]
    BY Finite DEF IInv, TypeOK, Counted, MintedWithinLimit
  <2>2. CASE u = user
    <3>1. minted'[u] = minted[u] + 1 /\ left'[u] = left[u]
      BY <1>2, <2>2 DEF IInv, TypeOK
    <3>2. Cardinality(TokensOf(u))' = Cardinality(TokensOf(u)) + 1
      BY <1>1, <2>2
    <3>3. PageShowsLimit => Cardinality(TokensOf(u)) < mint_per_user
      BY <2>2, BelowLimit DEF IInv, Mint
    <3>4. minted'[u] <= Cardinality(TokensOf(u))' + left'[u]
      BY <2>1, <3>1, <3>2
    <3>5. minted'[u] <= total_tokens'
      BY <1>1, <1>2, <2>1, <3>1
    <3>6. PageShowsLimit => minted'[u] <= mint_per_user + left'[u]
      BY <2>1, <3>1, <3>3
    <3>7. QED
      BY <3>4, <3>5, <3>6
  <2>3. CASE u # user
    <3>1. minted'[u] = minted[u] /\ left'[u] = left[u]
      BY <1>2, <2>3 DEF IInv, TypeOK
    <3>2. Cardinality(TokensOf(u))' = Cardinality(TokensOf(u))
      BY <1>1, <2>3
    <3>3. QED
      BY <1>1, <1>2, <2>1, <3>1, <3>2
  <2>4. QED
    BY <2>2, <2>3
<1>6. Counted'
  BY <1>5 DEF Counted
<1>7. MintedWithinLimit'
  BY <1>2, <1>5 DEF MintedWithinLimit, PageShowsLimit
<1>8. QED
  BY <1>3, <1>4, <1>6, <1>7 DEF IInv

-----------------------------------------------------------------------------
\* A transfer or a burning takes one token from its holder, which is counted.
LEMMA UseNftPreserves ==
    ASSUME IInv, NEW id \in Id, NEW to \in User \cup {None}, UseNft(id, to)
    PROVE  IInv'
<1> DEFINE from == holder[id]
<1>1. /\ from \in User /\ from # to
      /\ holder' = [holder EXCEPT ![id] = to]
      /\ left' = [left EXCEPT ![from] = IF @ < MaxTokens THEN @ + 1 ELSE @]
      /\ UNCHANGED <<nft_contract, mint_per_user, total_tokens, whitelist, minted>>
  BY DEF UseNft, IInv, TypeOK, config
<1>2. holder \in [Id -> User \cup {None}]
  BY DEF IInv, TypeOK
<1>3. TypeOK'
  <2>1. left' \in [User -> Nat]
    BY <1>1 DEF IInv, TypeOK
  <2>2. holder' \in [Id -> User \cup {None}]
    BY <1>1, <1>2
  <2>3. QED
    BY <1>1, <2>1, <2>2 DEF IInv, TypeOK
<1>4. Numbering'
  <2> SUFFICES ASSUME NEW i \in Id, holder'[i] # None PROVE i < total_tokens'
    BY DEF Numbering
  <2>1. holder[i] # None
    BY <1>1, <1>2, NoneAssumption
  <2>2. QED
    BY <1>1, <2>1 DEF IInv, Numbering
<1> HIDE DEF from
<1>5. ASSUME NEW u \in User
      PROVE  /\ minted'[u] <= Cardinality(TokensOf(u))' + left'[u]
             /\ minted'[u] <= total_tokens'
             /\ PageShowsLimit => minted'[u] <= mint_per_user + left'[u]
  <2>1. /\ minted[u] \in Nat /\ left[u] \in Nat /\ mint_per_user \in Nat
        /\ total_tokens \in Nat /\ MaxTokens \in Nat /\ total_tokens <= MaxTokens
        /\ Cardinality(TokensOf(u)) \in Nat
        /\ minted[u] <= Cardinality(TokensOf(u)) + left[u]
        /\ minted[u] <= total_tokens
        /\ PageShowsLimit => minted[u] <= mint_per_user + left[u]
        /\ minted'[u] = minted[u] /\ total_tokens' = total_tokens
    BY <1>1, Finite, NumberAssumption DEF IInv, TypeOK, Counted, MintedWithinLimit
  <2>2. CASE u = from
    <3>1. left'[u] = IF left[u] < MaxTokens THEN left[u] + 1 ELSE left[u]
      BY <1>1, <2>2 DEF IInv, TypeOK
    <3>2. TokensOf(u)' = TokensOf(u) \ {id} /\ id \in TokensOf(u)
      BY <1>1, <1>2, <2>2 DEF TokensOf, from
    <3>3. Cardinality(TokensOf(u) \ {id}) = Cardinality(TokensOf(u)) - 1
      BY <3>2, Finite, FS_RemoveElement
    <3>4. Cardinality(TokensOf(u))' = Cardinality(TokensOf(u)) - 1
      BY <3>2, <3>3
    <3>5. Cardinality(TokensOf(u))' \in Nat
      <4>1. TokensOf(u)' \in SUBSET Id
        BY DEF TokensOf
      <4>2. QED
        BY <4>1, FiniteIds
    <3>6. QED
      BY <2>1, <3>1, <3>4, <3>5
  <2>3. CASE u # from
    <3>1. left'[u] = left[u]
      BY <1>1, <2>3 DEF IInv, TypeOK
    <3>2. TokensOf(u)' \in {TokensOf(u), TokensOf(u) \cup {id}}
      <4>1. CASE u = to
        <5>1. TokensOf(u)' = TokensOf(u) \cup {id}
          BY <1>1, <1>2, <4>1 DEF TokensOf
        <5>2. QED
          BY <5>1
      <4>2. CASE u # to
        <5>1. id \notin TokensOf(u)
          BY <2>3 DEF TokensOf, from
        <5>2. TokensOf(u)' = TokensOf(u)
          BY <1>1, <1>2, <4>2, <5>1 DEF TokensOf
        <5>3. QED
          BY <5>2
      <4>3. QED
        BY <4>1, <4>2
    <3>3. Cardinality(TokensOf(u) \cup {id}) \in
            {Cardinality(TokensOf(u)), Cardinality(TokensOf(u)) + 1}
      BY Finite, FS_AddElement
    <3>4. Cardinality(TokensOf(u))' \in
            {Cardinality(TokensOf(u)), Cardinality(TokensOf(u)) + 1}
      <4>1. CASE TokensOf(u)' = TokensOf(u)
        BY <4>1
      <4>2. CASE TokensOf(u)' = TokensOf(u) \cup {id}
        BY <3>3, <4>2
      <4>3. QED
        BY <3>2, <4>1, <4>2
    <3>5. Cardinality(TokensOf(u))' \in Nat
      <4>1. TokensOf(u)' \in SUBSET Id
        BY DEF TokensOf
      <4>2. QED
        BY <4>1, FiniteIds
    <3>6. QED
      BY <2>1, <3>1, <3>4, <3>5
  <2>4. QED
    BY <2>2, <2>3
<1>6. Counted'
  BY <1>5 DEF Counted
<1>7. MintedWithinLimit'
  BY <1>1, <1>5 DEF MintedWithinLimit, PageShowsLimit
<1>8. QED
  BY <1>3, <1>4, <1>6, <1>7 DEF IInv

-----------------------------------------------------------------------------
LEMMA InvariantInit == Init => IInv
<1> SUFFICES ASSUME Init PROVE IInv
  OBVIOUS
<1>1. TypeOK
  BY NumberAssumption DEF Init, TypeOK
<1>2. Numbering
  BY DEF Init, Numbering
<1>3. ASSUME NEW u \in User
      PROVE  /\ minted[u] <= Cardinality(TokensOf(u)) + left[u]
             /\ minted[u] <= total_tokens
             /\ minted[u] <= mint_per_user + left[u]
  <2>1. /\ minted[u] = 0 /\ left[u] = 0 /\ total_tokens = 0
        /\ Cardinality(TokensOf(u)) \in Nat /\ mint_per_user \in Nat
    BY <1>1, Finite DEF Init, TypeOK
  <2>2. QED
    BY <2>1
<1>4. QED
  BY <1>1, <1>2, <1>3 DEF IInv, Counted, MintedWithinLimit

LEMMA Unmoved ==
    ASSUME IInv, UNCHANGED <<mint_per_user, total_tokens, whitelist, holder, minted, left>>,
           nft_contract' \in {nft_contract, Nft}
    PROVE  IInv'
<1>1. \A u : TokensOf(u)' = TokensOf(u)
  BY DEF TokensOf
<1>2. TypeOK' /\ Numbering'
  BY DEF IInv, TypeOK, Numbering
<1>3. Counted'
  BY <1>1 DEF IInv, Counted
<1>4. MintedWithinLimit'
  BY DEF IInv, MintedWithinLimit, PageShowsLimit
<1>5. QED
  BY <1>2, <1>3, <1>4 DEF IInv

LEMMA InvariantNext == IInv /\ [Next]_vars => IInv'
<1> SUFFICES ASSUME IInv, [Next]_vars PROVE IInv'
  OBVIOUS
<1>1. CASE UNCHANGED vars
  BY <1>1, Unmoved DEF vars, config
<1>2. CASE Reply
  BY <1>2, Unmoved DEF Reply
<1>3. CASE Next
  BY <1>2, <1>3, MintPreserves, UseNftPreserves DEF Next
<1>4. QED
  BY <1>1, <1>3

LEMMA Invariant == Spec => []IInv
BY InvariantInit, InvariantNext, PTL DEF Spec

\* The stores and the collection keep their types.
THEOREM TypeCorrect == Spec => []TypeOK
BY Invariant, PTL DEF IInv

\* If the page shows the limit, nobody mints more than the limit and what they gave
\* away.
THEOREM LimitProved == Spec => []MintedWithinLimit
BY Invariant, PTL DEF IInv

\* Nobody on the whitelist who owns less than the limit is refused.
THEOREM MayMintProved == Spec => []WhitelistedMayMint
<1>1. IInv => WhitelistedMayMint
  <2> SUFFICES ASSUME IInv, nft_contract = Nft, mint_per_user < UsizeValues,
                      total_tokens < MaxTokens,
                      NEW u \in whitelist, Cardinality(TokensOf(u)) < mint_per_user
               PROVE  MayMint(u)
    BY DEF WhitelistedMayMint
  <2>1. total_tokens \in Id /\ total_tokens \in Nat
    BY IdType, NumberAssumption DEF IInv, TypeOK
  <2>2. Unclaimed(TokenId)
    <3>1. ~(total_tokens < total_tokens)
      BY <2>1
    <3>2. QED
      BY <2>1, <3>1 DEF Unclaimed, TokenId, IInv, Numbering
  <2>3. /\ Cardinality(TokensOf(u)) \in Nat /\ PageSize \in Nat /\ mint_per_user \in Nat
        /\ mint_per_user % UsizeValues = mint_per_user
    BY Finite, CutLimit, NumberAssumption DEF IInv, TypeOK
  <2>4. Listed(u) \in Nat /\ Listed(u) <= Cardinality(TokensOf(u))
    BY <2>3 DEF Listed
  <2>5. ~LimitReached(u)
    BY <2>3, <2>4 DEF LimitReached
  <2>6. QED
    BY <2>2, <2>5 DEF MayMint
<1>2. QED
  BY <1>1, Invariant, PTL

\* Ids are issued as the abstract specification of serial numbers says.
THEOREM Refinement == Spec => ImplementsSerialIssue
<1> DEFINE live == {id \in Id : holder[id] # None}
<1>1. Init => Numbered!Init
  BY DEF Init, Numbered!Init
<1>2. IInv /\ [Next]_vars => [Numbered!Next]_(Numbered!vars)
  <2> SUFFICES ASSUME IInv, [Next]_vars
               PROVE  [Numbered!Next]_(Numbered!vars)
    OBVIOUS
  <2>1. CASE UNCHANGED vars \/ Reply
    BY <2>1 DEF vars, config, Reply, Numbered!vars
  <2>2. ASSUME NEW user \in User, Mint(user) PROVE Numbered!Issue
    <3>1. /\ total_tokens \in Id /\ total_tokens' = total_tokens + 1
          /\ holder' = [holder EXCEPT ![total_tokens] = user]
      BY <2>2, MintStep
    <3>2. live' = live \cup {total_tokens}
      BY <3>1, NoneAssumption DEF IInv, TypeOK
    <3>3. QED
      BY <3>1, <3>2 DEF Numbered!Issue
  <2>3. ASSUME NEW id \in Id, NEW to \in User \cup {None}, UseNft(id, to)
        PROVE  Numbered!Retire
    <3>1. holder' = [holder EXCEPT ![id] = to] /\ holder[id] # None
          /\ total_tokens' = total_tokens
      BY <2>3 DEF UseNft, config
    <3>2. live' \subseteq live
      BY <3>1 DEF IInv, TypeOK
    <3>3. QED
      BY <3>1, <3>2 DEF Numbered!Retire
  <2>4. CASE Next
    BY <2>1, <2>2, <2>3, <2>4 DEF Next, Numbered!Next
  <2>5. QED
    BY <2>1, <2>4
<1>3. QED
  BY <1>1, <1>2, Invariant, PTL DEF Spec, ImplementsSerialIssue, Numbered!Spec
=============================================================================
