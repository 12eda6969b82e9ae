# Verification of the rewards-center program

This directory holds the TLA+ development for the Solana program in
`programs/rewards-center` (package `cardinal-rewards-center`) and its
TypeScript SDK in `sdk/`. It models what the program keeps in accounts and what
each instruction does to them, checks it on small instances with TLC, and proves
the main results for every instance with TLAPS.

Source paths below are relative to `programs/rewards-center/src/` unless they
start with `sdk/` or `tests/`.

## 1. The system

A *stake pool* is opened by anyone who pays for it. Owners of programmable NFTs
(pNFTs) that the pool admits *stake* them: the token never leaves the owner's
wallet, it is locked there by a delegate, the user's *escrow* address. While it is
staked, its *stake entry* counts seconds. *Reward distributors* attached to the
pool pay tokens for those seconds. Every stake, unstake and claim may be charged
a *payment* that is split between collectors.

| Component | State | Operations | Talks to |
|---|---|---|---|
| Stake pool (`stake_pool/`) | `StakePool`: authority, waiting periods, end date, allowlist, `total_staked` | `init_pool`, `update_pool`, `close_stake_pool` | reads `Discount`; its counter is moved by stake and unstake |
| Stake entry (`stake_entry/`, `stake_entry/pnfts/`) | `StakeEntry`: amount, last staker, three timestamps, total seconds | `init_entry`, `stake_pnft`, `unstake_pnft`, `update_total_stake_seconds`, `reset_stake_entry`, `close_stake_entry`, `resize_stake_entry` | CPI to token-metadata (Delegate, Lock, Unlock, Revoke); pool; authorization; payment |
| Authorization (`authorization/`) | `StakeAuthorizationRecord` per pool and mint | `authorize_mint`, `deauthorize_mint`, the check `mint_is_allowed` | read by `init_entry` and `stake_pnft` |
| Discount (`discount/`) | `Discount`: a string | `init_discount` | read by `init_pool` for the fee |
| Payment (`payment/`) | `PaymentInfo`: amount, mint, shares in basis points | `init_payment_info`, `update_payment_info`, `close_payment_info`, the helper `handle_payment_info` | called by stake, unstake, claim; transfers from the payer |
| Reward distributor (`reward_distribution/reward_distributor/`) | `RewardDistributor`: amount per duration, multiplier, cap, total issued; a treasury token account | init, update, close, `reclaim_funds` | treasury |
| Reward entry (`reward_distribution/reward_entry/`) | `RewardEntry`: seconds already rewarded, multiplier | init, update, close, `claim_rewards` | reads `StakeEntry`; treasury; payment |
| SDK (`sdk/`) | none of its own: what a wallet has read, and the transaction it has built from it | `stake`, `unstake`, `claimRewards`, `claimRewardReceipt`, `boost`, the account lists of payments and authorization, pending rewards | the program, through the IDL (`sdk/idl/`) |
| Not built | `stake_booster/`, `reward_receipts/` have no `mod` in `lib.rs`; `stake_entry/multiplier_stake_seconds/` is compiled but no instruction dispatches to it | | |

`StakeEntry.used_stake_seconds` is therefore always 0, and
`multiplier_stake_seconds` and `multiplier_basis_points` always `None`.

### What is hard

- **Order.** An instruction is one atomic step, but anyone can submit any
  instruction at any time. What a call does depends on which calls of other
  parties came before it: transfers, unstakes through another pool, an authority's
  reset, update or close.
- **Lazy time.** Seconds are credited only when an entry is touched, from
  timestamps that five instructions rewrite.
- **Two-phase unstake.** In a pool with a cooldown the first call only starts the
  cooldown, a later call completes. Calls are retried, duplicated or late.
- **Reopened accounts.** Pools, entries, records and distributors live at derived
  addresses: after a close they can be created again, and whatever refers to them
  is attached to the new account.
- **One payment info.** Whatever a pool or a distributor names, stake, unstake and claim take
  one hard-coded payment info. Its authority is no pool's, and while it is missing or cannot be
  paid nothing that has to pay goes through, a release included.
- **Failure.** A failing constraint, check or CPI rolls the transaction back. There
  is no partial effect inside the program; the SDK's multi-instruction
  transactions are atomic too, but are built from accounts read earlier.
- **Arithmetic.** `u16` sums of basis points, `as u32` casts of time differences,
  integer divisions in rewards and payments, caps by the treasury.

### What makes each component correct

- Pools: `total_staked` is the number of staked entries, so the decrement in
  `unstake_pnft` cannot fail and a pool with stakes cannot be closed.
- Entries: a staked token is locked by its staker's escrow, belongs to its staker,
  and can always be taken back; nothing is locked without an entry that says so;
  seconds are exact.
- Authorization: only gates the way in, never the way out.
- Payment: every collector gets its basis points and no more, or nobody anything.
- Rewards: no second is paid twice, none is marked as paid that was not, nothing beyond the
  treasury is paid, `rewards_issued` is the sum of what left the treasury through claims.
- SDK: a transaction built from a stale read fails or does what was meant: it pays in
  full, pays nobody but the staker, and a wallet that keeps trying gets its token back.
- IDL: what the SDK encodes and grants is what the program decodes and asks for.

## 2. The modules

```
StakeLedger                       what the pools promise (abstract)
    ^ implemented by
StakePool                         pools, entries, records, discounts, custody
    ^ EXTENDS                     <- StakePoolProofs <- StakeLedgerProofs
RewardDistribution                distributors, reward entries, claims
    ^ EXTENDS
RewardsCenter                     the program: both sets of instructions
    ^ EXTENDS                     <- RewardsCenterProofs
Client                            wallets with the SDK beside everybody else
    | EXTENDS                     <- ClientProofs <- ClientRewardProofs
    +-- Interface                 the IDL against the program's instructions
    +-- Layouts                   the IDL against the program's structs
Payment                           how one payment is split, and the SDK's account
                                  lists (on its own)  <- PaymentProofs
FoldLemmas                        sums over sets and folds over sequences, for
                                  ClientRewardProofs and PaymentProofs
MCStakePool, MCRewards, MCClient, MCPayment       small instances for TLC
```

| Module | Models |
|---|---|
| `StakePool` | `stake_pool/`, `stake_entry/`, `stake_entry/pnfts/`, `authorization/`, `discount/`; token records as far as the CPIs and the owner change them; the accepted payment info and the charge of a payment |
| `StakeLedger` | the abstract promise: who holds which token, an exact stopwatch per stake, releases that were asked for |
| `RewardDistribution` | `reward_distribution/`: actions over its own four variables, which read the accounts of `StakePool` |
| `RewardsCenter` | `lib.rs`: the instructions of the two, interleaved, with the properties that relate them |
| `Client` | `sdk/api.ts`, `sdk/authorization.ts`, `sdk/rewardDistribution.ts`: drafts, their submission, and the estimate of rewards |
| `Interface` | `sdk/idl/`, the `Accounts` structs and `lib.rs`: which instructions of the SDK reach their handler, and which accounts each may change |
| `Layouts` | `sdk/idl/` and the structs: the fields of accounts and arguments, in the order they are encoded |
| `Payment` | `payment/`, `sdk/payment.ts`: the payment info account, `handle_payment` with its rounding, `u16` and `u64` arithmetic, and the accounts callers list for it |

Correspondence with the code:

- **One action per instruction.** A handler is atomic and a failing call leaves no
  effect, so its constraints, `require`s, failing CPIs and panics are guards, and its
  assignments, CPIs and closes are the primed variables of the same action.
  `InitPool`, `StakePNFT`, `ClaimRewards`... have the names of the instructions.
- **Accounts** at a derived address are functions over the seeds: `entry[<<p, m>>]`,
  `reward[<<d, e>>]`, `None` while the account does not exist. Closing gives `None`,
  which lets a later init find the address free, as on chain.
- **Who calls.** The signer is a parameter (`u`, `a`); the quantifiers of `Next` let any
  wallet submit any instruction at any time and repeatedly.
- **Tokens.** `token[m]` has the owner and the user whose escrow is the locking
  delegate. `StakePNFT` needs the token without a delegate (CPI Delegate), `TransferToken`
  needs it unlocked, `CompleteUnstake` needs the caller's escrow on it (CPI Unlock).
- **Payment.** `handle_payment_info` accepts one hard-coded address, `PaymentKey`; the payment info there
  is the variable `payment` of `StakePool`, `None` while it does not exist. `SetPaymentInfo` opens or
  changes it, and is open to anybody at any time, since its authority is a wallet of its own that pools do not know.
  Of what `Payment` has in detail it keeps three things: `price`, what all shares take together (rounded down
  one by one); `collectors`, a name for the list of accounts the shares ask for; and `takes`, whose lists of accounts
  can succeed. A caller who builds the list by hand (`"direct"`) succeeds unless the shares have wrapped around, the SDK
  (`"sdk"`) not with a share of zero before another either. `CanPay(u)` has every way a payment fails: no
  account, shares that cannot be paid, a payer without the price. The payer is a signer among the remaining
  accounts that the program never compares with the user, so `StakePNFT(u, payer, e)`, `UnstakePNFT` and `ClaimRewards`
  take it as a parameter of its own. Collectors are outside `Users`: what they do with the money is nobody's concern here.
- **Time** is a variable that `Tick` moves. `as u32` is `% U32`.
- **SDK.** Building reads the accounts and sets `draft[w]` (`BuildStake`, `BuildUnstake`,
  `BuildClaim`); submitting is a later step. A submitted transaction is one action:
  its instructions run in order, each sees what those before it did, and all succeed or none has
  an effect (`SubmitStake`, `SubmitUnstake`, `SubmitClaim`). `Expire` drops a draft that was
  lost, refused or got too old; a draft runs at most once, as the network admits a signed
  transaction once. The program's own instructions stay available to everybody, the wallet
  included. Claims from several distributors change different accounts, so a
  draft holds them as a set.
- **The SDK's payment and token accounts.** The SDK lists the payment info that the pool
  (`stake_payment_info`, `unstake_payment_info`) or the distributor (`claim_rewards_payment_info`) names, as it
  read it: `ReadPayment(key)` is that content for `PaymentKey`, and `None`, of which the program takes nothing, for
  any other address or a missing account. `ListAccepted` compares it with the payment info of the moment the transaction
  runs. `init_pool`, `update_pool` and `init_reward_distributor` take any address, `update_reward_distributor` only the
  accepted one. `account[m]` is the kind of token account that holds a token: the SDK stakes from the one the
  caller names and unstakes from the associated one. `MoveToken` moves it between accounts of its owner;
  `TokensArrive` lets a token that changes hands arrive in any account of the new owner.
- **Payment accounts.** In `Payment` the accounts come from the caller: `PayDirectly` lists any
  accounts at all, `ListAccounts` lists them from the payment info as the SDK does, and `PayListed`
  uses that list when the info may have changed.
- **Calls.** `Accepted(i)` says that the IDL has the accounts of instruction `i` in the order,
  and with at least the flags, that the program asks for; a draft is submitted only if
  that holds for each of its instructions.
- **Abstraction.** Identifiers, mints, creators and collections are model values, a
  mint's metadata is the set of verified tags; metadata parsing, rent, account sizes and
  bumps are left out.

Definitions marked "Faulty variant" are not used by any specification: each is the
definition after it with a plausible bug, to see that a property notices.

## 3. The runs

| Run | Instance | Shows |
|---|---|---|
| `cooldown` | 2 users, 1 pool, 1 token, clock 1..5, two settings (cooldown; minimum stake with reset), funds 3, a payment info that is absent, free, costs 1, or cannot be paid | types, the refinement of `StakeLedger`, and that a requested release completes |
| `custody` | 2 users, 2 pools with two tokens and one, clock 2..3, allowlist, end date, closing and reopening, no charge | custody, and counters of pools that share their users' escrows |
| `rewards` | 2 users, 1 token, 1 distributor, clock 1..4, two settings (2 tokens for 2 s; half a token a second for at most 2 s), 2 tokens a wallet, at most 3 issued | claims against every other instruction |
| `payment` | 3 wallets with 8 units, amounts 0 and 5, splits of one, two and four shares, one that wraps around and one that is refused; callers who list any accounts, and one transaction of the SDK under way | fairness of a split, whoever listed the accounts and when, and that a payment is all or nothing |
| `client` | 2 users, 1 with the SDK, 1 token, 1 distributor (a token a second, 1 token a wallet, at most 2 issued), clock 1..3, a cooldown of 1 second, an authorization record, payments of 1 and wallets with 1 | drafts built at any moment and submitted at any later one, against every instruction of both users: custody, ledger, payment in full, to the staker, no seconds lost, declared accounts, the estimate |
| `release` | 1 user with the SDK, 1 token, 1 distributor, clock 1..2, cooldown, two payment info addresses for pool and distributor, payments of 0 and 1, funds 2, two token accounts | a wallet that keeps unstaking through the SDK gets on |
| `stale_cooldown`, `shared_token`, `two_distributors`, `remainder`, `share_totals`, `pending` | the smallest instance of each | the six disagreements of section 5 |

**Why the bounds are enough.** The custody argument involves at most two entries of a pool
or two pools of a user, two owners, and one closed and reopened account, and the instances
have these. The clock runs past a cooldown of two seconds, a minimum stake of one and an
end date, so that every test against the clock is seen failing and just holding, and the
waiting periods are also seen long over. In `rewards` the treasury can be empty, short, exact and
too full, and the limit of the second setting is reached. In `payment` each share of the four-share and of the
uneven split of 5 takes something: one payment makes several transfers, rounds each of them, and
a wallet that has paid once has 3 left, which pays the first share and not the last. A collector appears
twice, one share is 0, two of the payers are collectors themselves, and the amounts that fail are seen beside
those that do not. In `cooldown` the payment info can be
in every state that `CanPay` tells apart. In `client` a draft is as stale as can be: between its reading and its run the
entry may be updated, reset, cooled, unstaked by the wallet itself, transferred and staked by the
other user, the payment info opened, the distributor closed and reopened, its treasury emptied; a wallet can afford
one payment and not two. In `release` the pool and the distributor name the accepted address or
another, and the draft was built from either. Records are in `client` only: `custody` admits tokens by allowlist.
The theorems of section 6 remove the bounds for all of the properties but liveness.

`U32` is 64 in the instances: the clock stays below it as the Unix time stays below
2^32 (until 2106), which `StakePoolAssumption` states. `StartTime` is at least every minimum stake
period, as Unix time is. `MaxTime` and `MaxIssued` are the only bounds in guards; `InitialFunds` and `InitialTokens` bound the money there is.
`U64` is 2^30 in the instances of `Payment`; the amounts stay below it.

`client` evaluates the assumptions of `Interface` and `Layouts` too: they are finite tables, so
evaluating them once is a complete check.

Deadlock is checked in every run: no instance stops, since tokens can be moved and
records changed at any time.

## 4. Fairness

`RequestedReleaseCompletes` is checked under `FairSpec`: weak fairness of `Tick`, because the
chain's clock runs, and of each `UnstakePNFT(u, u, e)`, because nothing in the program completes an
unstake by itself: a wallet that wants its token back submits the instruction, paying for it itself, until it goes
through. No fairness is assumed of authorities, other payers or other users.

Its premise is `<>[]CanPay(owner)`: from some time on there is a payment info whose shares can be paid
and whose price the owner has. Before that time it may be missing, wrapped around or too dear any number of times, and the
retries must not spoil anything. The premise is the property's limit and not a detail: whoever has the authority of the one
accepted payment info can hold back every release there is. Excused are a reset by the authority, changed settings, a
pool that is gone, and periods that end after the clock's bound.

`SdkUnstakeProceeds` is the same promise through the SDK, under `ClientFairSpec`. The wallet calls
`unstake` again whenever an earlier draft has failed, and sends what it built. Others interfere between
the two, so a draft may be valid only now and then: the fairness of `BuildUnstake` and of
`SubmitUnstake` is strong, which says that a wallet that could build or send infinitely often does so
some time. `Expire` is weakly fair because a recent blockhash ages. No claim or stake is
fair. Here the premises say where the SDK can release a token at all, and each of them is a way in which it cannot:

- the pool names the accepted payment info (`PayableTerms`). The repository's own constant names another
  (`5vsKac...`, `sdk/constants.ts:18`, which `tests/init-pool.ts:58` gives to a pool), while the program
  takes `3w1HMp...` only (`payment/state.rs:66-70`): in such a pool every stake of the SDK fails and every unstake that has
  to pay, and only the program's own instruction gives the token back;
- the token is in the wallet's associated account (`StakedBy`): `unstake` looks nowhere else (`sdk/api.ts:302`);
- from some time on the payment info has shares the SDK can list and a price the wallet can afford for
  all claims and the unstake together (`SdkCanPay`).

Excused are new terms, a reset, and a distributor that names another payment info or whose claims cannot succeed (a
duration or rate of zero): a claim that fails takes the whole unstake with it.

## 5. Where code and words disagree

Six runs end in a counterexample on purpose.

- `stale_cooldown`: `unstake_pnft` on an entry that is not staked starts a cooldown, and the
  next stake inherits it: its seconds do not count until the cooldown is reset.
- `shared_token`: the escrow belongs to the user, not to the pool. If two pools admit a
  token, an unstake through the second releases the stake of the first and decrements the
  wrong counter; a pool with a staked entry can then be closed. Every result that needs
  it states the assumption `ExclusiveEntries` (no two pools take one token).
- `two_distributors`: `claim_rewards` does not require that the reward entry is one of the
  distributor.
- `remainder`: the remainder that a comment says is distributed to the first collectors is
  always zero; what rounding drops stays with the payer.
- `share_totals`: the 16-bit sum of basis points wraps around, and an account it lets
  through fails every payment.
- `pending`: the estimate of pending rewards counts from `last_staked_at` and adds
  `total_stake_seconds`; an update moves seconds into the second and does not move the first,
  so they count twice until the token is unstaked. `PendingExact` (run `client`) says where the estimate
  is right.

A seventh is a premise rather than a run: the SDK lists the payment info a pool or a distributor names, and the
repository's constant and test name one the program does not accept (section 4).

The IDL and the program have drifted apart, which `InterfaceAssumption` lists in full: the program has
`init_discount`, which the IDL lacks; `init_pool` takes an owner account the IDL's `initPool` does
not pass; and the IDL has 19 instructions the program does not dispatch. `stake` and `unstake` of the SDK
use four of these for tokens that are no pNFTs (`README.md:11` speaks of "NFTs and FTs"), and
`claimRewardReceipt` and `boost` three more: such transactions always fail. The layouts of all
accounts and arguments of the built program agree (`LayoutsAssumption`).

## 6. What is proved

Every safety and action property of the passing runs, and every refinement, is a theorem: it holds for
any sets of users, pools, tokens, entries, distributors, wallets and settings.

| Theorem | States | Assumes besides the types of the constants |
|---|---|---|
| `TypeCorrect` | `TypeOK` of `StakePool` | |
| `CustodyInvariant` | the inductive invariant `CustodyInv` | `ExclusiveEntries` |
| `StakedTokensRecoverable`, `NothingLockedForNobodyHolds`, `TotalStakedIsExact` | the three safety invariants of `custody` | `ExclusiveEntries` |
| `StakePoolImplementsLedger` | `Spec` refines `StakeLedger` | `ExclusiveEntries` |
| `CenterStakedTokensRecoverable`, `CenterImplementsLedger` | the same for the whole program, `CenterSpec` | `ExclusiveEntries` |
| `RewardTypeCorrect`, `IssuedTokensAreAccountedFor`, `SecondsAreForfeitedByResetsOnly`, `MarkedSecondsArePaidFor` | the properties of `rewards` | |
| `TokensArePaidForSeconds` | the property of `rewards` on the rate of claims | `EvenRates`, `OneDistributorPerPool` |
| `ClientTypeCorrect`, `ClientRewardTypeCorrect` | with the SDK's transactions: `ClientTypeOK`, `RewardTypeOK` | |
| `ClientStakedTokensRecoverable`, `ClientNothingLockedForNobody`, `ClientTotalStakedIsExact`, `ClientImplementsLedger` | custody and the refinement, with the SDK's transactions | `ExclusiveEntries` |
| `ClientPaysTheStaker`, `UnstakesPayInFull` | what a transaction pays, and to whom | |
| `ClientForfeitsByResetsOnly` | `OnlyResetsForfeit`, with the SDK's transactions | |
| `ClientChangesAreDeclared` | a transaction changes only accounts it may write | |
| `PendingRewardsAreExact` | `PendingExact`: the SDK's estimate is right for a staked entry that is not cooling and was not credited since | |
| `PaymentTypeCorrect` | `PaymentTypeOK` of `Payment` | |
| `PaymentsAreFair` | `FairShares` | `NoTotalWraps` |

**Assumptions.** `StakePoolAssumption`, `RewardDistributionAssumption`, `ClientAssumption`,
`DraftAssumption`, `InterfaceAssumption` and `PaymentAssumption` give the types of the constants, say that entries, distributors and
wallets are finitely many, and list the tables of the IDL; the runs evaluate them. Four more are hypotheses of single theorems
and not assumptions of the model, since nothing in the program enforces them:

- `ExclusiveEntries`: no two pools take one token. Run `shared_token` shows what happens otherwise.
- `OneDistributorPerPool`: without it a claim may mark its seconds on the entry of another
  distributor (run `two_distributors`).
- `EvenRates`: rate times multiplier divides the scale or is divided by it. With a rate of 3
  tokens a duration and a scale of 10, say, one token stands for three durations and a third, and
  three are marked.
- `NoTotalWraps`: an amount times the 2^16 of a share's width, times the number of shares, stays within
  `U64`. With 2^64 this allows any payment of up to 2^48 / n units in n shares.
  Beyond it the unchecked sum in `handle_payment` may wrap around, and a remainder is handed out that does not exist.

**Custody.** None of the three invariants is inductive alone. That an unstake succeeds only
on a staked entry follows from `NothingLockedForNobody`, since nothing in the handler
tests it: the token is locked by the caller's escrow, so some entry of the token is staked, and
by `ExclusiveEntries` it is this one. That the amount never becomes 2 follows from
`StakedTokenRecoverable`: the token of a staked entry has a delegate, so a second stake
fails. That a pool with stakes does not close follows from `TotalStakedExact`. Their
conjunction with `TypeOK` is `CustodyInv`. Instructions that do not touch stakes go through one
lemma, `CustodyFrame`.

**Ledger.** `LedgerInv` adds `ClockInv`: no timestamp of an entry is in the future. Then stored
seconds plus those of `SecondsIncreased` run as a stopwatch: `Tick` adds the amount, and
every instruction that rewrites a timestamp first credits what it takes away.

**Rewards.** `RewardInv` adds to the types that a distributor's settings are ones an authority
gave. The lemma `RoundedDown` has the arithmetic of a claim: the tokens are whole
durations times rate and multiplier, divided by the scale; computing the seconds back by
the inverse operations, each rounded down, gives at most the seconds that were due, whatever
part of the tokens the treasury can pay. `MarkedAtRate` has the same inverse from the other side: the seconds it
gives are worth no more than the tokens paid, so that a claim from a short treasury leaves what it did not pay for
to a later one (`MarkedSecondsArePaidFor`); `OnlyClaimsCredit` shows that no other step marks a second. `ScaleAssumption` says that a power of ten is positive:
the provers do not interpret exponentiation. The converse, that a claim marks no fewer seconds
than the tokens stand for unless it empties the treasury, is `TokensArePaidForSeconds`; its invariant adds that the multiplier of every reward entry is
one somebody gave, so that `EvenRates` speaks of it, and its arithmetic has two cases, whether the rate divides the scale or the
scale the rate.

**SDK.** A transaction of several instructions is proved to be one step of the ledger: the lemmas
`SubmitStakeStep`, `BeginCooldownStep`, `EndStakeStep` and `SubmitClaimStep` show that update, claims and
unstake together change stakes as a single instruction would, because only the
update touches the stake entry before the last instruction and crediting twice in one second
adds nothing. The custody lemmas `CustodyOfStake` and `CustodyOfUnstake` are those of `StakePool`. The two
payment theorems rest on `PayInv`, which needs only that drafts have their types and that
token balances are a function of the wallets, so they hold whatever an authority does to a distributor; the lemma
`WhatGoesThrough` says that a draft that leaves a wallet with an effect was submitted and did not
expire. In `UnstakesPayInFull` the seconds that `Updated` has credited are those `ElapsedSeconds` counts
at that moment: that is why the update must be in the same transaction as the claims.

`ClientRewardTypeCorrect` shows that `RewardInv` survives a transaction with claims from any number of
distributors: each claim takes at most what its own treasury has (`ClaimTakes`), and what the
payee receives is their sum, whatever the order (`ClaimsTokens`, by `TotalNat` of `FoldLemmas`).
`ClientForfeitsByResetsOnly` adds that the claims mark no more than the update of the same transaction has
stored (`MarkedWithin`), and that the unstake after them takes no seconds away, or all.
`ClientChangesAreDeclared` compares the accounts each kind of transaction changes with the writable
ones in the tables of the IDL and of the program; that an unstake leaves the reward accounts alone
when it carries no claim is `NoClaims`.

**The estimate.** `PendingRewardsAreExact` is about entries the program would update at that moment: they name a staker and
are not cooling. For the others the program refuses the update (`stake_entry/update_total_stake_seconds.rs:7` and `18-20`),
so their uncredited seconds cannot be claimed before the unstake; `ClaimableSeconds` says which seconds can. The theorem
rests on `RewardInv` and `ClockInv`, which is proved here
for `ClientSpec` without `ExclusiveEntries`: timestamps do not run ahead even where custody goes wrong. The SDK
counts the seconds of a stake from `last_staked_at`, which equals `last_updated_at` until an update
(`EstimatedSeconds`), divides toward zero, shows nothing
below zero and caps by the treasury; the program returns early when no second is due and divides
natural numbers. The lemmas `EstimateOfDue` and `EstimateOfOverpaid` show that the two agree on either side of zero.

**Payment.** Sums and transfers are folds over the shares. `FoldLemmas` proves what is needed about
folds for every finite set and every sequence: a fold has a value after every element, each
computed from the one before (`SequenceFoldExists`, `Unrolled`), and a sum of natural numbers over a finite set is
one (`TotalNat`). These are inductions
over one set of numbers, as the induction theorems of the library cannot be instantiated:
`EveryNumber` takes the set on which a claim holds.
`PaymentInv` is `PaymentTypeOK`, which has it that `SharesAreValid` accepted the shares, with settings that were asked for. Along the fold, `TransfersFold` keeps
every balance natural, since `CanTransfer` failing once fails the payment, and `PayTally` keeps
for each wallet what it has got so far next to its basis points so far. `NoRemainder` shows that the remainder is never
positive: shares add up to the divisor modulo 2^16, and a sum that did wrap around
is more than the divisor, so that the remainder is negative and the payment fails. So nobody gets an extra unit,
and each share that is not zero is one division rounded down, which loses less than a unit (`PayIsFair`).
That the transfers themselves neither make nor lose money is the business of the system and token programs, which `Transfer` and
`CanTransfer` stand for.

**Only model-checked:** liveness, that is `RequestedReleaseCompletes` and `SdkUnstakeProceeds`, which
need `ENABLED` and fairness; and the six counterexamples.

## 7. What is not modelled

- Of the SDK: the time to the next reward and the total over entries that `getRewardMap` returns;
  addresses, which stand for the seeds they are derived from; compute budgets and the
  creation of token accounts (a wallet is taken to have one for the reward mint).
- `stake_booster/` and `reward_receipts/`, which are not built, and
  `stake_entry/multiplier_stake_seconds/`, which no instruction reaches.
- `close_payment_info` closes the account into itself, which the framework rejects: it
  never succeeds and has no step.
- `resize_stake_entry` changes the size of an account and no field.
- Overflow of `u128` and `u64` in seconds and rewards; a panic there fails the call.
- In `StakePool` and `Client`: a payment so small that every share rounds to nothing, and what collectors do with the
  money. In `Payment`: that SPL tokens, which need a token account of the payer and of each collector, are listed with
  one account more; the amounts are split alike.
- Several reward mints, and tokens other than pNFTs (no instruction stakes them).
- Solana itself: rent, fees of the network, transaction limits, account validation other
  than the constraints the handlers state.

## 8. Plan

Done: all modules of section 2, with proofs of their safety and action properties and refinements.

Left, in this order:

1. An abstract specification of reward distribution (a budget of seconds per stake,
   tokens for seconds) that `RewardsCenter` implements, with the refinement proved.
2. Larger instances of `Client`: two distributors in one transaction, settings that change,
   and a mint whose metadata has an unverified creator. Each is within TLC's reach without
   liveness, and beyond a few minutes together with it.
