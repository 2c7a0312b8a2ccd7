----------------------------- MODULE Mistilteinn -----------------------------
(***************************************************************************)
(* ctf-10, Mistilteinn: users on a whitelist mint NFTs.  The limit per     *)
(* user is compared with the tokens the user owns at the moment, as far as *)
(* one page of the NFT contract's answer shows them.  Tokens are moved and *)
(* burnt at the NFT contract, by their owner or whom the owner approved.   *)
(***************************************************************************)
EXTENDS Naturals, FiniteSets

CONSTANTS
    User,           \* addresses that own tokens and call the contract
    None,           \* no contract yet, no owner
    Nft,            \* the address of the NFT contract
    PageSize,       \* tokens the NFT contract lists when asked without a limit
    UsizeValues,    \* 2^32, the number of values of a usize of the target
    MaxLimit,       \* bound on mint_per_user
    MaxTokens       \* bound on total_tokens

Id == 0..(MaxTokens - 1)

ASSUME NoneAssumption == None # Nft /\ None \notin User
ASSUME NumberAssumption ==
    /\ PageSize \in Nat
    /\ UsizeValues \in Nat \ {0}
    /\ MaxLimit \in Nat
    /\ MaxTokens \in Nat

VARIABLES
    nft_contract,   \* CONFIG.nft_contract
    mint_per_user,  \* CONFIG.mint_per_user
    total_tokens,   \* CONFIG.total_tokens
    whitelist,      \* WHITELIST
    holder,         \* the NFT contract: who owns which token
    minted,         \* history: tokens a user minted
    left            \* history: tokens that left a user, by transfer or burning

config == <<nft_contract, mint_per_user, total_tokens, whitelist>>
vars == <<config, holder, minted, left>>

TypeOK ==
    /\ nft_contract \in {None, Nft}
    /\ mint_per_user \in Nat
    /\ total_tokens \in 0..MaxTokens
    /\ whitelist \subseteq User
    /\ holder \in [Id -> User \cup {None}]
    /\ minted \in [User -> Nat]
    /\ left \in [User -> Nat]

\* An entry that is no address is stored like any other and never is a sender, so
\* the whitelist is as good as the users on it.
Init ==
    /\ nft_contract = None
    /\ mint_per_user \in 0..MaxLimit
    /\ total_tokens = 0
    /\ whitelist \in SUBSET User
    /\ holder = [id \in Id |-> None]
    /\ minted = [u \in User |-> 0]
    /\ left = [u \in User |-> 0]

\* The NFT contract was instantiated; until then there is nothing to query.
Reply ==
    /\ nft_contract = None
    /\ nft_contract' = Nft
    /\ UNCHANGED <<mint_per_user, total_tokens, whitelist, holder, minted, left>>

-----------------------------------------------------------------------------
TokensOf(user) == {id \in Id : holder[id] = user}

\* How many tokens one page of the answer lists.
Listed(user) ==
    IF Cardinality(TokensOf(user)) < PageSize THEN Cardinality(TokensOf(user))
    ELSE PageSize

\* (Mutated form: one more.)
LimitReached_Late(user) == Listed(user) > mint_per_user % UsizeValues
LimitReached(user) == Listed(user) >= mint_per_user % UsizeValues

\* (Mutated form: numbered by the tokens in circulation.)
TokenId_Circulating == Cardinality({id \in Id : holder[id] # None})
TokenId == total_tokens

\* The NFT contract refuses an id that is somebody's.
Unclaimed(id) == holder[id] = None

MayMint(user) ==
    /\ nft_contract = Nft
    /\ user \in whitelist
    /\ ~LimitReached(user)
    /\ Unclaimed(TokenId)

\* (Mutated form: advanced by what the user owns.)
NextTotal_Owned(user) == total_tokens + 1 + Listed(user)
NextTotal(user) == total_tokens + 1

Mint(user) ==
    /\ total_tokens < MaxTokens
    /\ MayMint(user)
    /\ total_tokens' = NextTotal(user)
    /\ holder' = [holder EXCEPT ![TokenId] = user]
    /\ minted' = [minted EXCEPT ![user] = @ + 1]
    /\ UNCHANGED <<nft_contract, mint_per_user, whitelist, left>>

\* A token changes hands or is burnt.  The history stops counting at MaxTokens, more
\* than which nobody mints.
UseNft(id, to) ==
    /\ holder[id] \notin {None, to}
    /\ holder' = [holder EXCEPT ![id] = to]
    /\ left' = [left EXCEPT ![holder[id]] = IF @ < MaxTokens THEN @ + 1 ELSE @]
    /\ UNCHANGED <<config, minted>>

Next ==
    \/ Reply
    \/ \E user \in User : Mint(user)
    \/ \E id \in Id, to \in User \cup {None} : UseNft(id, to)

Spec == Init /\ [][Next]_vars

-----------------------------------------------------------------------------
\* The page is long enough to show that the limit is reached.
PageShowsLimit == mint_per_user <= PageSize

\* Tokens that are gone may be minted again, and no others: received tokens never
\* help, and nobody mints more than the limit without giving as many away.
MintedWithinLimit ==
    PageShowsLimit =>
        \A u \in User : minted[u] <= mint_per_user + left[u]

\* "other users can mint freely": a user on the whitelist who owns less than the
\* limit is not refused, whatever was minted, moved and burnt before.  (A limit that
\* is no usize is cut to one.)
WhitelistedMayMint ==
    nft_contract = Nft /\ mint_per_user < UsizeValues /\ total_tokens < MaxTokens =>
        \A u \in whitelist : Cardinality(TokensOf(u)) < mint_per_user => MayMint(u)

Numbered == INSTANCE SerialIssue WITH
    issued <- total_tokens,
    live <- {id \in Id : holder[id] # None}

\* Ids are given out in order, and the id of a burnt token is not used again.
ImplementsSerialIssue == Numbered!Spec
=============================================================================
