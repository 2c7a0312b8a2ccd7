# Formal verification of the CosmWasm contracts

TLA+ models of the smart contracts in this repository, TLC runs that check them
on small instances, and TLAPS proofs of what matters most for every instance.

## 1. The system

Ten independent challenges, `ctf-01` to `ctf-10`. Each is one CosmWasm contract,
except `ctf-03`, which is three. A contract is a set of handlers (`instantiate`,
`execute`, `reply`, `query`) over a key-value store. The chain around them gives
four guarantees that every model relies on:

* transactions run one after the other; nothing runs concurrently with a handler;
* coins attached to a message are moved before its handler runs;
* the messages a handler returns run after it, depth first, in order;
* if a handler returns an error or panics, or one of its messages fails, the whole
  transaction is undone, unless the message was sent with a `reply_always`.

So in all modules but one a transaction is one step, and a handler that refuses
is a step that cannot be taken. `Laevateinn` is about what happens *between* the
messages of one transaction: there a step is one message.

### Inventory

| Component | State | Operations | Interacts with | What is hard | What makes it correct |
|---|---|---|---|---|---|
| **Gram** `ctf-04` share vault | `CONFIG.total_supply`, `BALANCES`, its bank balance | mint, burn; anybody may send it coins | bank | rounding, over long mixes of mints, burns and donations; balance read after the deposit arrived | shares stay backed, and there are coins for all of them; the price of a share never falls; a mint or a burn gives all that is due at the ratio before it, rounded down |
| **Gjallarhorn** `ctf-08` NFT market | `SALES`, `TRADES`, `OPERATIONS` | new sale, buy, cancel sale, new trade, accept trade, cancel trade, reply, queries | cw721, bank | two ledgers (its stores, the NFT contract) that users also move without it; stale sales and approvals; transfers whose failure is swallowed | while an NFT is in escrow, its sale names who put it there; coins move only against NFTs; a trade whose offer still stands is an exchange |
| **Brisingamen** `ctf-09` staking rewards | `STATE` (owner, index, total), `USERS` | increase reward, deposit, withdraw, claim | bank (two denominations) | lazy rewards by a global index; two roundings; entries that outlive a stake | stakes are kept like deposits; counted rewards are not lost; the contract can pay what it promises |
| **Laevateinn** `ctf-03` flash loans | `flash_loan`: owner, proxy, open loan; `proxy`: address of the lender | flash_loan, settle_loan, set_proxy_addr, withdraw_funds, transfer_owner; request_flash_loan; arbitrage | each other, bank, any contract that borrows | the borrower runs in the middle of a transaction and may call everybody; balance read before the loan is made | a loan ends in the transaction it began in, loans do not nest, no coins are lost; a request to the proxy should not change the owner (it can, see below) |
| **Gungnir** `ctf-02` voting power | `VOTING_POWER` per user | deposit, withdraw, stake, unstake | bank, block time, build profile | bare `u128` arithmetic that panics or wraps depending on the build; release times | power stays backed by tokens, with the exception of the release build named below; the tokens of the last stake stay until it is released; tokens are kept like deposits |
| **Mjolnir** `ctf-01` lockups | `LAST_ID`, `LOCKUPS` | deposit, withdraw (a list of ids) | bank, block time | all lockups are read before the first is removed; ids may repeat | a lockup ends released and paid; nobody else's lockup changes (a repeated id is paid twice, see below) |
| **Hofund** `ctf-06` election | `CONFIG.owner`, `PROPOSAL`, its token balance | propose, cast vote (cw20 hook), resolve, owner action | cw20, block time | proposals that cannot be resolved or removed; tokens of earlier votes; a truncated third | only the proposer on record becomes owner; a proposal with a third of the supply is not lost; an owner should be elected by more than a third (need not be, see below) |
| **Draupnir** `ctf-05` vault with owner | `STATE` (owner, proposed owner), `BALANCES` | deposit, withdraw, owner action, propose, accept, drop | bank, itself (a message of the owner) | two-step handover; the contract as its own depositor | deposits are kept; a proposal is one of the current owner; the owner should change only to who was proposed (need not, see below) |
| **Tyrfing** `ctf-07` top depositor | `OWNER`, `TOP_DEPOSITOR`, `THRESHOLD`, `BALANCES` | deposit, withdraw, update config, owner action | bank, itself | two items under one storage key; a threshold that deposits raise and the owner sets | deposits are kept; the role, which is the owner's too, passes only to a higher deposit |
| **Mistilteinn** `ctf-10` NFT mint | `CONFIG`, `WHITELIST` | mint, reply of the instantiation | cw721 | a limit compared with one page of a query, over tokens that move | no user mints more than the limit and what was given away; nobody below the limit is refused; token ids are not reused |

`owner_action` of three contracts runs any message the owner likes. What such a message
can change in a model is a transfer of what the contract owns, or a call of the contract by
itself; both are in `DraupnirOwnerAction`, `TyrfingOwnerAction` and Hofund's `OwnerAction`.

## 2. The modules

| Module | What it is |
|---|---|
| `Bank` | coins of every account; when a payment succeeds (external) |
| `Cw721` | owners, approvals and operators of an NFT collection (external) |
| `FairVault` | abstract: a share vault that gives all that is due, rounded down in favour of those who stay |
| `Custody` | abstract: deposits credited and paid out to one user at a time, in the amount that moved |
| `Handover` | abstract: an owner who is only ever replaced by a candidate named before |
| `SerialIssue` | abstract: numbers given out once and in order |
| `AtomicLoan` | abstract: the lender as seen between two transactions |
| `Accounts` | the setting of the contracts that stand alone: users and the contract |
| `Depository` | Accounts with the bank, for Vault, Gungnir and Mjolnir |
| `Timelock` | Depository with the clock of Gungnir and Mjolnir |
| `Vault` | the handlers that Draupnir and Tyrfing share, clause for clause: deposit, withdraw, a payment by the owner |
| `Gram`, `Gjallarhorn`, `Brisingamen`, `Laevateinn`, `Gungnir`, `Mjolnir`, `Hofund`, `Draupnir`, `Tyrfing`, `Mistilteinn` | the contracts |
| `MC...` | constants for TLC; `MCOwners` puts Draupnir, Tyrfing and Hofund side by side, one of them deployed in each behaviour |
| `BankProofs` | lemmas the other proofs share: payments between accounts, sums over finite sets |
| `GramProofs`, `GjallarhornProofs`, `BrisingamenProofs`, `LaevateinnProofs`, `HofundProofs`, `MistilteinnProofs` | theorems about the contract of that name |
| `CustodyProofs` | theorems about the four contracts that keep deposits: Draupnir, Tyrfing, Gungnir, Mjolnir |

**How code and model correspond.** A store is a variable with the name it has in
the code (`total_supply`, `USERS` as `users`, `requested_amount`, ...); an address
with no entry has the value `None`, or zero where the code reads it with
`unwrap_or_default` and nothing else can tell the difference. A handler is an
action of its name; its early returns, `?`, `unwrap` and the checked arithmetic
of `Uint128` are conjuncts of its guard, in the order of the code; a payment it
returns is part of the same action, with `CanSend` as a guard (the bank refuses an
amount of zero). Inputs are bounded by what accounts own, plus one unit more so
that refusals are reached. Operators with a name such as `SharesFor_Stale` are
mutated forms of the operator they stand before: plausible bugs, used to see that a
property would notice them. No specification uses them. The handlers of Draupnir, Tyrfing, Gungnir and
Mjolnir carry the name of their contract (`MjolnirDeposit`), because one module proves about all
four; `NoOwner` is what Draupnir stores where nobody is proposed. `PROJECT.json` maps every
definition to its lines.

**Composition.** `Gjallarhorn` composes the market with the NFT contract and the
bank; users also transfer, approve and revoke without the market (`UseNft`).
`Laevateinn` composes its three contracts, a fourth with arbitrary behaviour
(`Borrower`: it keeps, returns or forwards the loan, calls any contract, or fails)
and the users, over a stack of messages with rollback (`Submit`, `Run`, `Abort`).
`Draupnir` and `Tyrfing` extend `Vault`, adding who is owner to its steps; there the
contract may be the sender of its own messages. `Mistilteinn` composes the mint with the
NFT contract it instantiates: until `Reply` there is none and every mint is refused, afterwards
owners and those they approve transfer and burn without the mint (`UseNft`).

**Abstractions.** Amounts are natural numbers: `Uint128` is checked, so an overflow
is a refused transaction, and no account owns 2^128 coins. In `Vault` a balance can grow with
no coin arriving (a deposit of the contract with itself), so there the bound is a constant,
`MaxBalance`. The exception is
`voting_power` of Gungnir, whose width is the constant `Modulus` and whose arithmetic
depends on the build: `overflow_checks` is chosen in `Init` and never changes, so every
run and theorem is about both. One denomination per use; a coin of another one is refused by
`must_pay`. The recipient of a request to the proxy of Laevateinn is a text, not an address, because
the guard compares it as such (`ctf-03/contracts/proxy/src/contract.rs:79`): the address of the lender
has a second spelling, `FlashLoanUpper`, and `Resolved` is the contract that the chain finds for a text.
All other addresses have one spelling each: those the contracts validate before they store them, and those
that no guard compares. Event attributes and wording are left
out. Queries change no state; the one a property is about is modelled (`Claimable` of
Brisingamen), and so is the page of the NFT contract that `mint` of Mistilteinn reads
(`PageSize`, ten in `cw721-base`) with the cast that shortens the limit (`UsizeValues`, 2^32 on
the chain). The whitelist of Mistilteinn is as good as the users on it: an entry that is no
address never equals a sender. The cw20 token of Hofund moves like the coins of a bank.

**History variables.** `depositor` (Gjallarhorn), `rejoined` (Brisingamen), `pledge`
(Gungnir), `overpaid` (Mjolnir), `signer` and `withdrew` (Laevateinn), `cast` (Hofund),
`spent` (Vault), `proposer` (Draupnir), `config` and `peak` (Tyrfing), `minted` and `left`
(Mistilteinn) record what the code does not store; no guard reads them. `saved` of Laevateinn is the state a rollback restores.

## 3. What TLC checks

| Run | Instance | Shows |
|---|---|---|
| `gram` | 3 users, 5 coins each, 1 coin donated before the first mint | Shares are never more than coins (`SupplyBacked`), the total is their sum and all could leave and be paid (`ClaimsCovered`), the price never falls (`RateNeverFalls`); the vault implements `FairVault`: neither more nor less than what is due |
| `gjallarhorn` | 2 users with an NFT and a coin each, 1 sale and 1 accepted trade | `EscrowRefundable`, `DeliveryVersusPayment`, `TradeIsExchange` |
| `brisingamen` | 2 users with 3 coins, 4 reward coins, decimals in quarters | `StakeBacked`, `RewardsCovered`, `RewardsNeverLost`; stakes implement `Custody` |
| `brisingamen_rejoin` | the same | **violated**: `RewardsComeFromIncreases` |
| `laevateinn` | 2 users and another contract with 1 coin each, 2 coins lent; the proxy contract, the other contract or a user may become proxy; the recipient of a loan may be the lender in its second spelling | `LoansDoNotNest`, `FundsSurviveLoans`; implements `AtomicLoan`, so no loan is open between transactions |
| `laevateinn_owner` | the same | **violated**: `OwnerKeptByProxy` |
| `gungnir` | 2 users with 2 coins, power modulo 4, lock of 2, either build | `PowerStaysBacked` and `LockKeepsTokens` in both builds; tokens implement `Custody` whatever the power wraps to |
| `mjolnir` | 2 users with 4 coins, at most 4 lockups of at least 2, every list of at most 2 ids | `LockupEndsPaid`; lockups implement `Custody`, but for what a repeated id takes with it |
| `owners` | 2 users. Draupnir and Tyrfing: 2 coins each, balances and thresholds of at most 3. Hofund: 2 tokens each, a supply of at most 5, a window of 1 | Draupnir, `OwnershipOK`: a proposal is one of the current owner. Tyrfing, `RankingOK`: the shared cell is of the configuring owner, then of the highest deposit; `RolePassesUpwards`. Both, `VaultImplementsCustody`: what a user is owed changes only by the user's deposits and withdrawals, whatever the owner pays out. Hofund: `ProposalHeard`; ownership implements `Handover` |
| `draupnir_handover` | 2 users with 2 coins | **violated**: `ImplementsHandover` |
| `hofund_third` | 2 users with 2 tokens each | **violated**: `ElectedByThird` |
| `mistilteinn` | 2 users, 4 tokens, a page of 2, a usize of 4 values, every whitelist and every limit up to 4 | `MintedWithinLimit`, `WhitelistedMayMint`; ids implement `SerialIssue` |

**Bounds, and why they are enough.** Every contract treats users alike, and the hazards
are between one user and another (two users) or between two and a bystander (three, in
Gram). Amounts need only be large enough that a quotient is truncated in both
directions: with 5 coins, donations and burns, prices such as 3/2 and 7/3 occur; with
`Scale = 4`, thirds and halves of an index are rounded and do not divide. `Modulus = 4`
lets the power wrap upwards and downwards with four coins. `MaxTime = 4` passes two
lock periods of 2. `MaxSales` and `MaxTrades` bound counters nobody reads; they stop
the history after one sale and one acceptance, while listing, cancelling and the
users' own transfers are unbounded. Alice with her NFT and Bob with his are
interchangeable there, and the cfg says so (`SYMMETRY`). In Mjolnir four lockups are all that
eight coins pay for, and two ids are enough to mix owners, release times and repetitions.
In Hofund a supply of 4 or 5 has a third that is rounded down, and a clock of 4 passes two
windows. In Draupnir and Tyrfing two users change roles in both directions and the contract
is the third account; the coins of both users are more than the largest balance, 3, so that
its limit is met, by one user or by the contract's deposits with itself. In Mistilteinn limits
0 to 4 lie below, at and above a page of 2, and 4 is the first that the cast makes zero; `left`
stops counting at `MaxTokens`, more than which nobody mints. In Laevateinn the stack needs no bound: the
other contract reacts with at most one payment and one call, which is never one of itself, and a nested
loan is refused, so the depth is finite. The chain has gas for what this leaves out.

**Deadlock** is checked in every run but those of four contracts that may come to a stop.
In Gram users may have given all coins away while no share exists. In Mjolnir everything may be
withdrawn when ids and clock are at their bounds. In Hofund, and so in `owners`, the contract may
end as its own owner with all tokens and a closed proposal. In Mistilteinn all ids may have been
issued and burnt.

**Fairness.** None is assumed and no liveness is claimed. The contracts do nothing unless a user calls
them. What they might owe somebody in the end depends on what others choose to do (that a proposal is
resolved within its window, that a price rises until a holding is worth a coin), and that a transaction
comes to its end is the work of the chain, by its gas, and not of this code.

### What the violations show

* `RewardsComeFromIncreases`: `update_rewards` returns before it moves `user_index` when
  the stake is zero (`ctf-09/src/contract.rs:180`); after a later deposit the entry
  counts increases made while nothing was staked. `RewardsCovered` is therefore stated
  for histories in which nobody came back that way (`rejoined = {}`).
* `ImplementsHandover` of Draupnir: `accept_owner` builds the error for a sender that was not
  proposed and does not return it (`ctf-05/src/contract.rs:133`), so the second step does
  not depend on the first. That a proposal never outlives the ownership of who
  made it holds all the same.
* `OwnerKeptByProxy`: the proxy is there to keep the lender's own messages out of reach: "Cannot flash
  loan money to the flash loan contract" (`ctf-03/contracts/proxy/src/contract.rs:51`), "Disallow calling
  flash loan addr" (`:63`). It compares the text of the recipient with the address it stores (`:79`); the
  same address in its second spelling is another text and the same contract, and the lender trusts the proxy
  with `TransferOwner`. No coins are lost by such a request as such (`FundsSurviveLoans` and
  `ImplementsAtomicLoan` include it).
* `ElectedByThird` of Hofund: "If a proposal was voted for with more than a third of the current supply,
  the user gets the `owner` role" (`ctf-06/README.md:5`). The vote is the token balance of the contract
  (`ctf-06/src/contract.rs:158`), which counts tokens of earlier votes and tokens that were no votes, and it
  is compared with the third rounded down, which it may equal (`:168`).

### Conditions that properties carry

Other promises of docs and comments hold under a condition only, or not at all. The properties
state the condition, and it is needed:

* `TradeIsExchange`: `exec_accept_trade` sends both transfers with `reply_always`
  (`ctf-08/src/contract.rs:257`, `:270`) and `reply` does not look at the result. If the
  trader revoked the approval since the offer or moved the NFT, or the sale is a stale one, an
  acceptance succeeds and moves one NFT or none.
* `MjolnirImplementsCustody`: `withdraw` loads all lockups of the list first
  (`ctf-01/src/contract.rs:104`), so one that is listed twice is paid twice; `overpaid` is what
  such lists took from the coins of others.
* `EscrowRefundable` is about an NFT while it is in escrow; no property says that it leaves only against a
  payment or by its depositor's wish, since that is not so. An NFT may be offered in a trade, change hands and
  be listed by its new owner; `exec_cancel_trade` then sends it to the old one by its id
  (`ctf-08/src/contract.rs:308`), which the market, as the owner it is by now, may do. `CancelTrade` of
  the model takes this step, and the other properties hold through it.
* Nothing is claimed of the window of Hofund: `resolve_proposal` refuses a proposal whose window is over
  (`ctf-06/src/contract.rs:141`), with the error "The proposal is not ready yet"
  (`ctf-06/src/error.rs:21`), which would be the other way round. As it is, a proposal that is not resolved
  in time stays for good, and `propose` needs that there is none; so does one that passed, which may be
  resolved again within its window. `ProposalHeard` and `HofundImplementsHandover` allow a proposal that
  passed to be removed or kept.
* `VaultImplementsCustody`: the owner's messages may pay out anything; `spent` is what they
  did. A contract that deposits with itself has a balance without coins
  (`ctf-05/src/contract.rs:106`), which is why `Depositor` is `User`.
* `Open` and `Close` of `AtomicLoan`: `flash_loan` trusts whoever is its proxy
  (`ctf-03/contracts/flash_loan/src/contract.rs:241`). If that is not the proxy contract but a user or
  a contract with code of its own, it may take the ownership, and may open a loan in one transaction
  and close it in another.
* `RankingOK`: `OWNER` and `TOP_DEPOSITOR` are one cell (`ctf-07/src/contract.rs:14`), so a
  deposit above the threshold makes the sender owner. The property takes that as the code has it: it builds
  in that a depositor becomes owner, where the names say only top depositor. A balance that is above a threshold
  lowered later counts at its next deposit only; `peak` therefore starts again with
  every configuration.
* `MintedWithinLimit`: a limit above the page is never reached (`PageShowsLimit`), and tokens that
  left a user may be minted again (`left`). `WhitelistedMayMint`: a limit that is no usize is
  cut (`ctf-10/src/contract.rs:105`).

* `PowerStaysBacked`: in the release profile of Gungnir (`ctf-02/Cargo.toml:27`), which is the one deployed,
  `voting_power -= unlock_amount` wraps (`ctf-02/src/contract.rs:154`), so that a user without a locked
  stake may end with any power. That is the one exception the property has. `voting_power += lock_amount`
  (`:119`) wraps too, to a power that the tokens back: it may be smaller than the power before, and then frees
  tokens of an earlier stake. `LockKeepsTokens` is therefore about the last stake.

Two conditions are in the antecedent of a property and leave a hazard of `PROJECT.json` without one: what
`AcceptTrade` does with an approval that was revoked, and what a list of Mjolnir takes that names an id twice.
A dust holding of Gram, worth less than a coin, is covered by `ClaimsCovered` with zero and cannot be burnt
alone (`ctf-04/src/contract.rs:137`).

## 4. What is proved

For every set of users, every endowment, every width and scale, every list of ids:

| Theorem | Statement |
|---|---|
| `GramProofs!TypeCorrect`, `SupplyAlwaysBacked`, `ClaimsProved`, `MintNeverPanics`, `RateProved`, `Refinement` | `TypeOK`, `SupplyBacked`, `ClaimsCovered`, no division by zero in mint, `RateNeverFalls`, `ImplementsFairVault` |
| `GjallarhornProofs!TypeCorrect`, `EscrowProved`, `DeliveryProved`, `ExchangeProved` | `TypeOK`, `EscrowRefundable`, `DeliveryVersusPayment`, `TradeIsExchange` |
| `BrisingamenProofs!TypeCorrect`, `StakeAlwaysBacked`, `RewardsProved`, `UpdateNeverPanics`, `RewardsNeverLostProved`, `Refinement` | `TypeOK`, `StakeBacked`, `RewardsCovered`, no entry is ahead of the index, `RewardsNeverLost`, `ImplementsCustody` |
| `LaevateinnProofs!LaevateinnTypeCorrect`, `NestingProved`, `FundsProved`, `LenderRefinement` | `TypeOK`, `LoansDoNotNest`, `FundsSurviveLoans`, `ImplementsAtomicLoan` |
| `CustodyProofs!GungnirTypeCorrect`, `LockProved`, `PowerProved`, `GungnirRefinement` | `GungnirTypeOK`, `LockKeepsTokens`, `PowerStaysBacked`, `GungnirImplementsCustody` |
| `CustodyProofs!MjolnirTypeCorrect`, `LockupProved`, `MjolnirRefinement` | `MjolnirTypeOK`, `LockupEndsPaid`, `MjolnirImplementsCustody` |
| `CustodyProofs!OwnershipProved`, `DraupnirRefinement` | `OwnershipOK`, `VaultImplementsCustody` |
| `CustodyProofs!RankingProved`, `RoleProved`, `TyrfingRefinement` | `RankingOK`, `RolePassesUpwards`, `VaultImplementsCustody` |
| `HofundProofs!TypeCorrect`, `ProposalProved`, `Refinement` | `HofundTypeOK`, `ProposalHeard`, `HofundImplementsHandover` |
| `MistilteinnProofs!TypeCorrect`, `LimitProved`, `MayMintProved`, `Refinement` | `TypeOK`, `MintedWithinLimit`, `WhitelistedMayMint`, `ImplementsSerialIssue` |

They rest on the named assumptions of the modules: the contract is not one of its users, the
contracts of Laevateinn are different from each other and from all users, the chain starts with
natural numbers of coins, `Scale` and `Modulus` are positive, what stands for "no entry" is not an
entry. Where shares or rewards of all users are added up (Gram, Brisingamen), users are finitely
many, as on any chain.

* **Sums.** What a fold adds up over a finite set is defined by recursion, and the library's
  induction theorems cannot be used here. `BankProofs` derives induction over the subsets of a
  finite set (`SubsetInduction`) from the fact that a non-empty set of natural numbers has a least
  element (`LeastNumber`), and from it what the contracts need: a sum is a natural number, changes
  by what one summand changes, splits at a subset, is monotone. `SumOfList` is about the amounts of
  a list, with repetitions.
* **Gram.** `SupplyBacked` is inductive with `TypeOK`: minting `n` shares for `a` coins
  has `n * assets <= a * supply`, so `n <= a` as long as `supply <= assets`; burning
  `s` shares pays at most `s * assets / supply`, which leaves at least `supply - s`.
  The inequality of products, with the one that bounds a quotient from below
  (`MultiplyRatioFloor`), is the abstract step of `FairVault` too, and `RateProved`
  follows from it by cross-multiplication. For `ClaimsProved` each handler changes one balance and
  the total by the same number, and the quotients of all balances add up to no more than the
  quotient of their sum.
* **Gjallarhorn.** `EscrowRefundable` is inductive with `TypeOK`. Handlers that remove a
  sale also give that NFT to a user, so it is nobody's deposit any more; handlers that move
  other NFTs (an accepted or cancelled trade) leave the sales alone, and can take an NFT out
  of escrow but not put one in; users move their own NFTs, and the market is no user. The
  two action properties follow from it, one step at a time: `OtherSteps` names the
  handlers that move coins or count trades, and `AcceptExchanges` follows the approval through the first transfer.
* **Brisingamen.** `IndexBehind` strengthens the invariant: an entry's index never exceeds
  the global one, hence every difference is a natural number and
  `update_rewards` only adds. `RewardsNeverLost` is then one argument per action about
  `Claimable`. `RewardsCovered` is not inductive, because rewards are rounded down where they are
  counted. `Covered` states it before that rounding: pending rewards times `Scale`, plus stake times
  how far the index has moved, added up over all users, are at most the reward coins times `Scale`.
  An increase adds at most what it brings to the second part, as the stakes add up to
  the total (`StakeIsSum`); a handler that counts a user's rewards moves them to the first part.
* **Laevateinn.** A step is one message, so the invariant says what the stack of a running transaction
  can look like. `Progress` has eight cases of its first message and the rest: a call or a payment with
  nothing left but perhaps one settlement; a payment before a further call; `flash_loan` paying out all
  it has; the three messages of a loan, each with those that must follow; a settlement left over when the
  recipient was the lender itself and has settled already. Each case says what holds of the
  coins meanwhile: nothing was taken (`Quiet`), a loan of at least what there was is
  open and its settlement waits (`Lending`), or all is on its way to whom the owner or another proxy
  than the proxy contract said (`PayingOut`). A nested request finds `Lending` and is refused, so one
  settlement is all there can be. A lemma per kind of message takes the cases on, `Ends` says in which
  of five ways a transaction can finish, and each of them is a step of `AtomicLoan`.
* **Gungnir.** `LockKeepsTokens` is not inductive: nothing in it says that an unstake is
  refused. `PledgesKept` adds that while a stake is locked its release time is that of
  the pledge, the power is the pledge, and it is backed. That argument needs no
  overflow checks, as a locked power cannot be unstaked and a staked one is compared
  with the tokens after it wrapped. `PowerStaysBacked` has a lemma per handler; an unstake within the
  power is exact in either build (`CheckedIsExact`).
* **Mjolnir.** `IdsFresh` strengthens the types: no lockup has an id that is not given out, so a
  deposit overwrites none. A list pays at least what each of its lockups holds (`ListPays`), and at
  least what they hold together if each is counted once, so `overpaid` is a natural number. In the refinement
  the credit of a user is a sum over the ids the user owns: a deposit adds one id to that set
  (`DepositLocks`), a withdrawal takes the ids of the list from it and none from that of anybody else
  (`WithdrawUnlocks`).
* **Hofund.** `HofundTypeOK` is inductive. `StepsOfOwnership` sorts every step into three: it
  leaves owner and proposal alone, makes a proposal, or resolves one; the properties are then
  facts about a resolution (`ResolveStep`), with `Third` for the rounded division.
* **Draupnir.** `OwnershipOK` is inductive. Each handler of the vault is a step of `Custody` for
  a user, and leaves all users' credit and the coins alone when the contract is the sender. The
  lemmas are about `Vault`, so `TyrfingRefinement` needs only that Tyrfing takes no other steps.
* **Tyrfing.** `RankingOK` is not inductive: the threshold must not be below the one configured, or
  a deposit could raise it to just that and the depositor be taken for the owner.
* **Mistilteinn.** `Counted` strengthens the invariant: what a user minted is at most what the
  user owns and what left; `Numbering`: a token that exists has a number below the next. The first
  with `BelowLimit` gives `MintedWithinLimit`, the second that the next id is free.

**What a proof corrected.** `AtomicLoan` used to say that nothing else happens to the coins in the
transaction in which a loan is opened or closed, or the proxy chosen. That is not so when the proxy is the
other contract: a user may call it, and it may pay coins back before it takes or settles a loan of its own. The
instance of TLC had no such proxy and gave that contract no coins; it now has both, and the abstract
specification says what holds.

**Only model-checked:** no property of a passing run. The four that the code violates,
`RewardsComeFromIncreases`, `OwnerKeptByProxy`, `ImplementsHandover` and `ElectedByThird`, have
counterexamples instead.

## 5. Plan

Done: the shared parts and all ten contracts; theorems for every property of the passing runs. Left:

1. The queries of Gjallarhorn by seller and by trader (`ctf-08/src/contract.rs:383`, `:407`): they
   need an order of the keys, which nothing else in the model has.
2. A run that shows how an NFT leaves escrow through `CancelTrade` without a payment, and one that shows a
   depositor of Tyrfing become its owner.

Not planned: message and error types, generated schemas and the test harness, which have no
behaviour of their own.
