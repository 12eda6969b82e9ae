----------------------------- MODULE StakePool -----------------------------
(***************************************************************************)
(* Stake pools of the rewards-center program: the pool, stake-entry,        *)
(* authorization-record and discount accounts, the instructions that change *)
(* them, and the token records the instructions lock and unlock by CPI.     *)
(*                                                                         *)
(* An instruction is atomic: when a constraint, a check or a CPI fails the  *)
(* whole transaction is rolled back, so a failing call is a step that is    *)
(* not enabled.  Anyone may submit any instruction at any time, again and   *)
(* in any order, which covers retried, duplicated and late transactions.    *)
(* An account that does not exist is None, as is an absent Option.          *)
(*                                                                         *)
(* A definition marked as a faulty variant is not part of the model: it is  *)
(* the definition after it with a plausible bug, which a property catches.  *)
(***************************************************************************)
EXTENDS Integers, FiniteSets

CONSTANTS
    Users,          \* wallets: stakers, payers and pool authorities
    Pools,          \* pool identifiers
    Mints,          \* programmable NFTs
    Entries,        \* the <<pool, mint>> pairs a stake entry may be created for
    Records,        \* those an authorization record may be created for
    Discounts,      \* discount identifiers
    Tags,           \* creator and collection addresses
    Verified,       \* Verified[m]: tags the metadata of m carries, verified
    Terms,          \* the settings an authority gives init_pool and update_pool
    FullFee,        \* price of a pool (3 SOL)
    DiscountFee,    \* price with the discount account (1 SOL)
    InfoKeys,       \* addresses a pool or a distributor may name as payment info
    PaymentKey,     \* the only one handle_payment_info accepts
    Collectors,     \* who the shares of a payment go to
    Payments,       \* the contents its authority gives the accepted payment info
    InitialFunds,   \* lamports each wallet starts with
    StartTime,      \* clock bounds: the model runs from StartTime to MaxTime
    MaxTime,
    U32,            \* 2^32, the modulus of "as u32"
    None

(* Settings of a pool.  Some(0) and None mean the same to the two waiting  *)
(* periods, so 0 stands for both.                                          *)
PoolTerms ==
    [authority : Users, reset_on_unstake : BOOLEAN, cooldown_seconds : Nat,
     min_stake_seconds : Nat, end_date : Nat \cup {None},
     requires_authorization : BOOLEAN, allowed : SUBSET Tags,
     stake_payment_info : InfoKeys, unstake_payment_info : InfoKeys]

PoolAccount == [terms : PoolTerms, total_staked : Nat]

EntryAccount ==
    [amount : Nat, last_staker : Users \cup {None}, last_staked_at : Nat,
     last_updated_at : Nat, total_stake_seconds : Nat,
     cooldown_start_seconds : Nat \cup {None}]

(* The accepted payment info, as module Payment has it in detail.  price is *)
(* what a payment takes from the payer, 0 when payment_amount is 0 (one so  *)
(* small that every share rounds down to nothing is left out).  takes tells *)
(* whose list of accounts the shares accept: no list at all when            *)
(* their sum has wrapped around ("Sub error"), and not the list the SDK     *)
(* makes when a share of zero comes before another.                         *)
PaymentAccount ==
    [price : Nat, collectors : Collectors, takes : SUBSET {"direct", "sdk"}]

(* The clock is a Unix time, so it is past every minimum stake period: an  *)
(* entry that was never staked has last_staked_at = 0.                     *)
ASSUME StakePoolAssumption ==
    /\ None \notin Users \cup Nat \cup PoolAccount \cup EntryAccount \cup PaymentAccount
    /\ Entries \subseteq Pools \X Mints
    /\ Records \subseteq Pools \X Mints
    /\ IsFiniteSet(Entries)
    /\ Verified \in [Mints -> SUBSET Tags]
    /\ Terms \subseteq PoolTerms
    /\ \A t \in Terms : t.min_stake_seconds <= StartTime
    /\ PaymentKey \in InfoKeys
    /\ Payments \subseteq PaymentAccount
    /\ {FullFee, DiscountFee, InitialFunds} \subseteq Nat
    /\ {StartTime, MaxTime, U32} \subseteq Nat
    /\ MaxTime < U32

VARIABLES
    pool,        \* pool[p]: the StakePool account, or None
    entry,       \* entry[e]: the StakeEntry account, or None
    authorized,  \* the <<pool, mint>> pairs that have an authorization record
    discount,    \* discount[d]: discount_str of the Discount account, or None
    token,       \* token[m]: owner of the NFT, and the user whose escrow has
                 \* it locked as staking delegate (None: unlocked, undelegated)
    funds,       \* funds[u]: lamports of wallet u
    payment,     \* the payment info at PaymentKey, or None
    now          \* the clock's unix_timestamp

vars == <<pool, entry, authorized, discount, token, funds, payment, now>>

Init ==
    /\ pool = [p \in Pools |-> None]
    /\ entry = [e \in Entries |-> None]
    /\ authorized = {}
    /\ discount = [d \in Discounts |-> None]
    /\ token \in [Mints -> [owner : Users, escrow : {None}]]
    /\ funds = [u \in Users |-> InitialFunds]
    /\ payment = None
    /\ now = StartTime

-----------------------------------------------------------------------------
(* Shared checks and updates.                                              *)

PoolOf(e) == e[1]
MintOf(e) == e[2]

IsAuthority(a, p) == pool[p] # None /\ pool[p].terms.authority = a

MintIsAllowed(p, m) ==
    LET t == pool[p].terms
    IN  \/ t.allowed = {} /\ ~t.requires_authorization
        \/ t.allowed \cap Verified[m] # {}
        \/ t.requires_authorization /\ <<p, m>> \in authorized

(* A payment by u can succeed: the payment info exists, and unless it asks *)
(* for nothing its shares can be paid and u has the price.                 *)
CanPay(u) ==
    /\ payment # None
    /\ payment.price > 0 => "direct" \in payment.takes /\ funds[u] >= payment.price

(* handle_payment_info.  The payer is a signer among the remaining accounts *)
(* and need not be the user of the instruction.  Collectors are not among  *)
(* Users.                                                                  *)
HandlePaymentInfo(payer) ==
    /\ CanPay(payer)
    /\ funds' = [funds EXCEPT ![payer] = @ - payment.price]

(* Faulty variant: a subtraction that does not saturate. *)
PlainSub(a, b) == a - b

SaturatingSub(a, b) == IF a < b THEN 0 ELSE a - b

(* Seconds staked that total_stake_seconds does not hold yet. *)
SecondsIncreased(s) ==
    LET until == IF s.cooldown_start_seconds = None
                 THEN now ELSE s.cooldown_start_seconds
    IN  SaturatingSub(until, s.last_updated_at) * s.amount

IncrementTotalStakeSeconds(s) ==
    [s EXCEPT !.total_stake_seconds = @ + SecondsIncreased(s),
              !.last_updated_at = now]

(* Seconds from t to now, cast "as u32". *)
SecondsSince(t) == (now - t) % U32

-----------------------------------------------------------------------------
(* Pools and discounts.                                                    *)

InitDiscount(d, str) ==
    /\ discount[d] = None
    /\ discount' = [discount EXCEPT ![d] = str]
    /\ UNCHANGED <<pool, entry, authorized, token, funds, payment, now>>

PoolFee(d) == IF discount[d] = "discount" THEN DiscountFee ELSE FullFee

InitPool(payer, p, d, t) ==
    /\ pool[p] = None
    /\ discount[d] # None
    /\ funds[payer] >= PoolFee(d)
    /\ funds' = [funds EXCEPT ![payer] = @ - PoolFee(d)]
    /\ pool' = [pool EXCEPT ![p] = [terms |-> t, total_staked |-> 0]]
    /\ UNCHANGED <<entry, authorized, discount, token, payment, now>>

(* Faulty variant: the rebuilt account forgets total_staked. *)
UpdatePoolFromScratch(a, p, t) ==
    /\ IsAuthority(a, p)
    /\ pool' = [pool EXCEPT ![p] = [terms |-> t, total_staked |-> 0]]
    /\ UNCHANGED <<entry, authorized, discount, token, funds, payment, now>>

UpdatePool(a, p, t) ==
    /\ IsAuthority(a, p)
    /\ pool' = [pool EXCEPT ![p].terms = t]
    /\ UNCHANGED <<entry, authorized, discount, token, funds, payment, now>>

(* Faulty variant: no test of total_staked. *)
CloseAnyStakePool(a, p) ==
    /\ IsAuthority(a, p)
    /\ pool' = [pool EXCEPT ![p] = None]
    /\ UNCHANGED <<entry, authorized, discount, token, funds, payment, now>>

CloseStakePool(a, p) ==
    /\ IsAuthority(a, p)
    /\ pool[p].total_staked = 0
    /\ pool' = [pool EXCEPT ![p] = None]
    /\ UNCHANGED <<entry, authorized, discount, token, funds, payment, now>>

AuthorizeMint(a, p, m) ==
    /\ IsAuthority(a, p)
    /\ <<p, m>> \notin authorized
    /\ authorized' = authorized \cup {<<p, m>>}
    /\ UNCHANGED <<pool, entry, discount, token, funds, payment, now>>

DeauthorizeMint(a, p, m) ==
    /\ IsAuthority(a, p)
    /\ <<p, m>> \in authorized
    /\ authorized' = authorized \ {<<p, m>>}
    /\ UNCHANGED <<pool, entry, discount, token, funds, payment, now>>

-----------------------------------------------------------------------------
(* The payment info.                                                       *)

(* init_payment_info, then update_payment_info by whoever its authority is: *)
(* a wallet of its own, which asks nobody who has staked.                  *)
SetPaymentInfo(i) ==
    /\ payment' = i
    /\ UNCHANGED <<pool, entry, authorized, discount, token, funds, now>>

-----------------------------------------------------------------------------
(* Stake entries.                                                          *)

InitEntry(e) ==
    /\ pool[PoolOf(e)] # None
    /\ entry[e] = None
    /\ MintIsAllowed(PoolOf(e), MintOf(e))
    /\ entry' = [entry EXCEPT ![e] =
                    [amount |-> 0, last_staker |-> None, last_staked_at |-> 0,
                     last_updated_at |-> 0, total_stake_seconds |-> 0,
                     cooldown_start_seconds |-> None]]
    /\ UNCHANGED <<pool, authorized, discount, token, funds, payment, now>>

(* Faulty variant: last_updated_at is not moved to the new stake. *)
AfterStakeKeepingTime(s, u) ==
    [s EXCEPT !.last_staker = u, !.last_staked_at = now, !.amount = @ + 1]

(* A second stake on an entry that still has an amount first credits the   *)
(* time so far and drops the cooldown; a first stake leaves it alone.      *)
AfterStake(s, u) ==
    LET before == IF s.amount # 0
                  THEN [IncrementTotalStakeSeconds(s)
                            EXCEPT !.cooldown_start_seconds = None]
                  ELSE s
    IN  [before EXCEPT !.last_staker = u, !.last_staked_at = now,
                       !.last_updated_at = now, !.amount = @ + 1]

StakePNFT(u, payer, e) ==
    LET p == PoolOf(e)
        m == MintOf(e)
    IN  /\ pool[p] # None
        /\ entry[e] # None
        /\ token[m].owner = u
        /\ pool[p].terms.end_date # None => now <= pool[p].terms.end_date
        /\ MintIsAllowed(p, m)
        /\ HandlePaymentInfo(payer)
        /\ entry' = [entry EXCEPT ![e] = AfterStake(@, u)]
        /\ pool' = [pool EXCEPT ![p].total_staked = @ + 1]
        /\ token[m].escrow = None                  \* CPI Delegate(StakingV1)
        /\ token' = [token EXCEPT ![m].escrow = u] \* CPI Lock
        /\ UNCHANGED <<authorized, discount, payment, now>>

MinStakeSatisfied(e) ==
    SecondsSince(entry[e].last_staked_at)
        >= pool[PoolOf(e)].terms.min_stake_seconds

(* Faulty variant: a repeated call starts the cooldown over. *)
StartCooldownAgain(e) ==
    /\ pool[PoolOf(e)].terms.cooldown_seconds > 0
    /\ entry' = [entry EXCEPT ![e].cooldown_start_seconds = now]
    /\ UNCHANGED <<pool, token>>

(* The first call in a pool with a cooldown only starts the cooldown. *)
StartCooldown(e) ==
    /\ pool[PoolOf(e)].terms.cooldown_seconds > 0
    /\ entry[e].cooldown_start_seconds = None
    /\ entry' = [entry EXCEPT ![e].cooldown_start_seconds = now]
    /\ UNCHANGED <<pool, token>>

CooldownSatisfied(e) ==
    LET cooldown == pool[PoolOf(e)].terms.cooldown_seconds
        start == entry[e].cooldown_start_seconds
    IN  cooldown > 0 => start # None /\ SecondsSince(start) >= cooldown

(* Faulty variant: the amount is left on the entry. *)
AfterUnstakeKeepingAmount(s, reset) ==
    [IncrementTotalStakeSeconds(s)
        EXCEPT !.last_staker = None, !.cooldown_start_seconds = None]

AfterUnstake(s, reset) ==
    [IncrementTotalStakeSeconds(s)
        EXCEPT !.last_staker = None, !.amount = 0,
               !.cooldown_start_seconds = None,
               !.total_stake_seconds = IF reset THEN 0 ELSE @]

CompleteUnstake(u, payer, e) ==
    LET p == PoolOf(e)
        m == MintOf(e)
    IN  /\ CooldownSatisfied(e)
        /\ HandlePaymentInfo(payer)
        /\ entry' = [entry EXCEPT ![e] =
                        AfterUnstake(@, pool[p].terms.reset_on_unstake)]
        /\ pool[p].total_staked > 0                   \* else "Sub error"
        /\ pool' = [pool EXCEPT ![p].total_staked = @ - 1]
        /\ token[m].escrow = u                        \* CPI Unlock
        /\ token' = [token EXCEPT ![m].escrow = None] \* CPI Revoke

(* Neither the last staker nor the amount of the entry is checked. *)
UnstakePNFT(u, payer, e) ==
    /\ pool[PoolOf(e)] # None
    /\ entry[e] # None
    /\ token[MintOf(e)].owner = u
    /\ MinStakeSatisfied(e)
    /\ \/ StartCooldown(e) /\ UNCHANGED funds
       \/ CompleteUnstake(u, payer, e)
    /\ UNCHANGED <<authorized, discount, payment, now>>

UpdateTotalStakeSeconds(e) ==
    /\ entry[e] # None
    /\ entry[e].last_staker # None
    /\ entry[e].cooldown_start_seconds = None
    /\ entry' = [entry EXCEPT ![e] = IncrementTotalStakeSeconds(@)]
    /\ UNCHANGED <<pool, authorized, discount, token, funds, payment, now>>

ResetStakeEntry(a, e) ==
    /\ IsAuthority(a, PoolOf(e))
    /\ entry[e] # None
    /\ entry' = [entry EXCEPT ![e] =
                    [@ EXCEPT !.total_stake_seconds = 0, !.last_updated_at = now,
                              !.last_staked_at = now,
                              !.cooldown_start_seconds = None]]
    /\ UNCHANGED <<pool, authorized, discount, token, funds, payment, now>>

(* Faulty variant: a staked entry can be closed. *)
CloseAnyStakeEntry(a, e) ==
    /\ IsAuthority(a, PoolOf(e))
    /\ entry[e] # None
    /\ entry' = [entry EXCEPT ![e] = None]
    /\ UNCHANGED <<pool, authorized, discount, token, funds, payment, now>>

CloseStakeEntry(a, e) ==
    /\ IsAuthority(a, PoolOf(e))
    /\ entry[e] # None
    /\ entry[e].last_staker = None
    /\ entry' = [entry EXCEPT ![e] = None]
    /\ UNCHANGED <<pool, authorized, discount, token, funds, payment, now>>

-----------------------------------------------------------------------------
(* The environment.                                                        *)

(* The token programs let an owner move a token no delegate has locked. *)
TransferToken(m, u) ==
    /\ token[m].escrow = None
    /\ token[m].owner # u
    /\ token' = [token EXCEPT ![m].owner = u]
    /\ UNCHANGED <<pool, entry, authorized, discount, funds, payment, now>>

(* One second passes.  Bounded by MaxTime. *)
Tick ==
    /\ now < MaxTime
    /\ now' = now + 1
    /\ UNCHANGED <<pool, entry, authorized, discount, token, funds, payment>>

PoolStep(a) ==
    \/ \E d \in Discounts, str \in {"discount", "other"} : InitDiscount(d, str)
    \/ \E p \in Pools, t \in Terms :
          \/ \E d \in Discounts : InitPool(a, p, d, t)
          \/ UpdatePool(a, p, t)
    \/ \E p \in Pools : CloseStakePool(a, p)
    \/ \E r \in Records :
          AuthorizeMint(a, PoolOf(r), MintOf(r)) \/ DeauthorizeMint(a, PoolOf(r), MintOf(r))

EntryStep(u) ==
    \E e \in Entries :
        \/ InitEntry(e)
        \/ \E payer \in Users : StakePNFT(u, payer, e) \/ UnstakePNFT(u, payer, e)
        \/ UpdateTotalStakeSeconds(e)
        \/ ResetStakeEntry(u, e)
        \/ CloseStakeEntry(u, e)

Next ==
    \/ \E u \in Users : PoolStep(u) \/ EntryStep(u)
    \/ \E i \in Payments : SetPaymentInfo(i)
    \/ \E m \in Mints, u \in Users : TransferToken(m, u)
    \/ Tick

Spec == Init /\ [][Next]_vars

(* A wallet that wants its token back resubmits the unstake, paying for it *)
(* itself, until it goes through, and the clock keeps running.             *)
FairSpec ==
    /\ Spec
    /\ WF_vars(Tick)
    /\ \A u \in Users, e \in Entries : WF_vars(UnstakePNFT(u, u, e))

-----------------------------------------------------------------------------
(* Properties.                                                             *)

IsStaked(e) == entry[e] # None /\ entry[e].amount # 0

(* Every account holds values of its type. *)
TypeOK ==
    /\ pool \in [Pools -> PoolAccount \cup {None}]
    /\ entry \in [Entries -> EntryAccount \cup {None}]
    /\ authorized \subseteq Records
    /\ discount \in [Discounts -> {"discount", "other", None}]
    /\ token \in [Mints -> [owner : Users, escrow : Users \cup {None}]]
    /\ funds \in [Users -> Nat]
    /\ payment \in PaymentAccount \cup {None}
    /\ now \in Nat

(* Entries of different pools never share a token.  The program does not   *)
(* enforce it: the escrow belongs to the user and not to the pool, so it   *)
(* is a condition on how pools are set up.                                 *)
ExclusiveEntries ==
    \A e, f \in Entries : MintOf(e) = MintOf(f) => e = f

(* While an entry is staked its token is locked by the escrow of the       *)
(* entry's last staker, who still owns it, and its pool exists: the way    *)
(* back through unstake_pnft stays open.  (stake_pnft and unstake_pnft     *)
(* against transfers, closed pools, closed and reopened entries.)          *)
StakedTokenRecoverable ==
    \A e \in Entries : IsStaked(e) =>
        /\ entry[e].amount = 1
        /\ entry[e].last_staker # None
        /\ token[MintOf(e)].owner = entry[e].last_staker
        /\ token[MintOf(e)].escrow = entry[e].last_staker
        /\ pool[PoolOf(e)] # None

(* No token stays locked in an escrow without an entry that knows it is    *)
(* staked, and an entry with no stake names no staker: what close_stake_-  *)
(* entry and update_total_stake_seconds rely on when they test last_staker.*)
NothingLockedForNobody ==
    /\ \A m \in Mints : token[m].escrow # None =>
          \E e \in Entries : MintOf(e) = m /\ IsStaked(e)
    /\ \A e \in Entries : entry[e] # None /\ ~IsStaked(e) =>
          entry[e].last_staker = None

(* total_staked counts exactly the staked entries of the pool, so the      *)
(* decrement of unstake_pnft never fails and close_stake_pool never closes *)
(* a pool that still holds a stake.                                        *)
StakedEntries(p) == {e \in Entries : PoolOf(e) = p /\ IsStaked(e)}

TotalStakedExact ==
    \A p \in Pools : pool[p] # None =>
        pool[p].total_staked = Cardinality(StakedEntries(p))

(* close_stake_pool leaves no staked entry behind ("Cannot close staked    *)
(* entry", errors.rs:24).                                                  *)
CloseLeavesNothingStaked ==
    \A e \in Entries : IsStaked(e) => pool[PoolOf(e)] # None

(* The cooldown of a staked entry was started during this stake: stake_-   *)
(* pnft starts a stake whose seconds count (README.md:38, "Stake pool      *)
(* tracking total stake duration").                                        *)
CooldownBelongsToStake ==
    \A e \in Entries :
        IsStaked(e) /\ entry[e].cooldown_start_seconds # None =>
            entry[e].cooldown_start_seconds >= entry[e].last_staked_at

(* The accounts implement the ledger of StakeLedger: stored seconds plus   *)
(* the seconds not yet credited are an exact stopwatch, whatever the order *)
(* of updates, resets and cooldowns, and tokens move as the ledger says.   *)
LedgerHolder ==
    [e \in Entries |-> IF entry[e] = None THEN None ELSE entry[e].last_staker]

LedgerRequested ==
    {e \in Entries : entry[e] # None /\ entry[e].cooldown_start_seconds # None}

ElapsedSeconds(s) == s.total_stake_seconds + SecondsIncreased(s)

LedgerElapsed ==
    [e \in Entries |-> IF entry[e] = None THEN 0 ELSE ElapsedSeconds(entry[e])]

Ledger == INSTANCE StakeLedger WITH
    owner <- [m \in Mints |-> token[m].owner],
    holder <- LedgerHolder,
    requested <- LedgerRequested,
    elapsed <- LedgerElapsed

ImplementsLedger == Ledger!Spec

(* A staker who has asked for the token back and keeps resubmitting gets   *)
(* it once the waiting periods are over (within the clock's bound), unless *)
(* the authority resets the entry, changes the pool's terms or closes it.  *)
(* It takes a payment info that exists, has shares that can be paid and a  *)
(* price the staker can afford, from some time on: the accepted payment    *)
(* info can hold back every token there is (payment/state.rs:66-127).      *)
CoolingUntil(e, t) ==
    /\ IsStaked(e)
    /\ pool[PoolOf(e)] # None
    /\ pool[PoolOf(e)].terms = t
    /\ entry[e].cooldown_start_seconds # None
    /\ entry[e].cooldown_start_seconds + t.cooldown_seconds <= MaxTime
    /\ entry[e].last_staked_at + t.min_stake_seconds <= MaxTime

ReleaseExcused(e, t) ==
    \/ pool[PoolOf(e)] = None
    \/ pool[PoolOf(e)].terms # t
    \/ entry[e].cooldown_start_seconds = None

RequestedReleaseCompletes ==
    \A e \in Entries, t \in Terms :
        <>[]CanPay(token[MintOf(e)].owner) =>
            (CoolingUntil(e, t) ~> (~IsStaked(e) \/ ReleaseExcused(e, t)))

=============================================================================
