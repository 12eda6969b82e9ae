------------------------- MODULE RewardDistribution -------------------------
(***************************************************************************)
(* Reward distributors and reward entries.  A distributor is attached to a  *)
(* pool and pays tokens of its treasury for the seconds its stake entries   *)
(* hold; a reward entry remembers which seconds were paid for.  The module  *)
(* reads the accounts of StakePool and has the actions of the reward        *)
(* instructions only: RewardsCenter composes them with those of StakePool.  *)
(***************************************************************************)
EXTENDS StakePool

CONSTANTS
    Distributors,   \* pairs <<pool, identifier>>
    RewardTerms,    \* the settings an authority gives a distributor
    Multipliers,    \* the multipliers an authority gives a reward entry
    InitialTokens,  \* reward tokens each wallet starts with
    MaxIssued       \* bound of rewards_issued in the model

(* max_reward_seconds_received is an Option; None is no limit. *)
DistributorTerms ==
    [reward_amount : Nat, reward_duration_seconds : Nat, default_multiplier : Nat,
     multiplier_decimals : Nat, max_reward_seconds_received : Nat \cup {None},
     claim_rewards_payment_info : InfoKeys]

DistributorAccount ==
    [authority : Users, terms : DistributorTerms, rewards_issued : Nat]

RewardAccount == [reward_seconds_received : Nat, multiplier : Nat]

PoolOfDistributor(d) == d[1]

(* A reward entry is kept for a distributor and a stake entry of its pool. *)
RewardEntries ==
    {r \in Distributors \X Entries : PoolOfDistributor(r[1]) = PoolOf(r[2])}

DistributorOf(r) == r[1]
StakeOf(r) == r[2]

ASSUME RewardDistributionAssumption ==
    /\ None \notin DistributorAccount \cup RewardAccount
    /\ \A d \in Distributors : PoolOfDistributor(d) \in Pools
    /\ RewardTerms \subseteq DistributorTerms
    /\ Multipliers \subseteq Nat
    /\ {InitialTokens, MaxIssued} \subseteq Nat

VARIABLES
    distributor,  \* distributor[d]: the RewardDistributor account, or None
    treasury,     \* treasury[d]: its reward tokens
    reward,       \* reward[r]: the RewardEntry account, or None
    tokens        \* reward tokens of each wallet; None is the default address

rewardVars == <<distributor, treasury, reward, tokens>>
stakeVars == <<pool, entry, authorized, discount, token, payment, now>>

RewardInit ==
    /\ distributor = [d \in Distributors |-> None]
    /\ treasury = [d \in Distributors |-> 0]
    /\ reward = [r \in RewardEntries |-> None]
    /\ tokens = [u \in Users \cup {None} |-> IF u = None THEN 0 ELSE InitialTokens]

IsDistributorAuthority(a, d) ==
    distributor[d] # None /\ distributor[d].authority = a

-----------------------------------------------------------------------------
(* Distributors.  Opening and closing one takes the pool's authority, the  *)
(* rest the authority the distributor was opened by.                       *)

InitRewardDistributor(a, d, t) ==
    /\ IsAuthority(a, PoolOfDistributor(d))
    /\ distributor[d] = None
    /\ distributor' = [distributor EXCEPT ![d] =
                          [authority |-> a, terms |-> t, rewards_issued |-> 0]]
    /\ UNCHANGED <<treasury, reward, tokens, funds, stakeVars>>

UpdateRewardDistributor(a, d, t) ==
    /\ IsDistributorAuthority(a, d)
    /\ t.claim_rewards_payment_info = PaymentKey   \* assert_payment_info
    /\ distributor' = [distributor EXCEPT ![d].terms = t]
    /\ UNCHANGED <<treasury, reward, tokens, funds, stakeVars>>

(* n tokens go from the treasury of d to the wallet u. *)
TakeFromTreasury(d, u, n) ==
    /\ treasury' = [treasury EXCEPT ![d] = @ - n]
    /\ tokens' = [tokens EXCEPT ![u] = @ + n]

CloseRewardDistributor(a, d) ==
    /\ IsAuthority(a, PoolOfDistributor(d))
    /\ distributor[d] # None
    /\ TakeFromTreasury(d, a, treasury[d])
    /\ distributor' = [distributor EXCEPT ![d] = None]
    /\ UNCHANGED <<reward, funds, stakeVars>>

ReclaimFunds(a, d, n) ==
    /\ IsDistributorAuthority(a, d)
    /\ n <= treasury[d]
    /\ TakeFromTreasury(d, a, n)
    /\ UNCHANGED <<distributor, reward, funds, stakeVars>>

(* Anyone may send tokens to a treasury, before or after it is opened. *)
FundTreasury(u, d, n) ==
    /\ n <= tokens[u]
    /\ treasury' = [treasury EXCEPT ![d] = @ + n]
    /\ tokens' = [tokens EXCEPT ![u] = @ - n]
    /\ UNCHANGED <<distributor, reward, funds, stakeVars>>

-----------------------------------------------------------------------------
(* Reward entries.                                                         *)

InitRewardEntry(r) ==
    LET d == DistributorOf(r)
    IN  /\ distributor[d] # None
        /\ entry[StakeOf(r)] # None
        /\ reward[r] = None
        /\ reward' = [reward EXCEPT ![r] =
                         [reward_seconds_received |-> 0,
                          multiplier |-> distributor[d].terms.default_multiplier]]
        /\ UNCHANGED <<distributor, treasury, tokens, funds, stakeVars>>

UpdateRewardEntry(a, r, multiplier) ==
    /\ IsDistributorAuthority(a, DistributorOf(r))
    /\ reward[r] # None
    /\ reward' = [reward EXCEPT ![r].multiplier = multiplier]
    /\ UNCHANGED <<distributor, treasury, tokens, funds, stakeVars>>

CloseRewardEntry(a, r) ==
    /\ IsDistributorAuthority(a, DistributorOf(r))
    /\ reward[r] # None
    /\ reward' = [reward EXCEPT ![r] = None]
    /\ UNCHANGED <<distributor, treasury, tokens, funds, stakeVars>>

-----------------------------------------------------------------------------
(* claim_rewards.                                                          *)

AtMost(n, limit) == IF limit # None /\ limit < n THEN limit ELSE n

Scale(t) == 10 ^ t.multiplier_decimals

(* A power of ten is positive: a fact of arithmetic the proofs start from. *)
ASSUME ScaleAssumption == \A t \in RewardTerms : Scale(t) \in Nat \ {0}

(* Faulty variant: max_reward_seconds_received is ignored. *)
AllSeconds(s, t) == s.total_stake_seconds

(* The seconds of stake entry s that distributor terms t pay for at all.   *)
RewardSeconds(s, t) == AtMost(s.total_stake_seconds, t.max_reward_seconds_received)

(* Faulty variant: a started duration is paid for in part. *)
ProRataDue(seconds, t, multiplier) ==
    (((seconds * t.reward_amount) \div t.reward_duration_seconds) * multiplier)
        \div Scale(t)

(* Tokens due for so many unpaid seconds: whole durations only. *)
RewardDue(seconds, t, multiplier) ==
    (((seconds \div t.reward_duration_seconds) * t.reward_amount) * multiplier)
        \div Scale(t)

(* Faulty variant: a started duration counts as a whole one. *)
StartedDurations(amount, t, multiplier) ==
    IF multiplier = 0 THEN 0
    ELSE (((amount * Scale(t)) \div multiplier) \div t.reward_amount + 1)
             * t.reward_duration_seconds

(* Seconds that a payment of so many tokens marks as received. *)
SecondsFor(amount, t, multiplier) ==
    IF multiplier = 0 THEN 0
    ELSE (((amount * Scale(t)) \div multiplier) \div t.reward_amount)
             * t.reward_duration_seconds

(* Faulty variant: the seconds due are marked, whatever was paid for them. *)
MarksAllDue(due, paid, t, multiplier) == SecondsFor(due, t, multiplier)

(* Seconds a claim marks that has paid so many of the tokens due. *)
Marks(due, paid, t, multiplier) == SecondsFor(paid, t, multiplier)

(* Faulty variant: the tokens due are issued, whatever the treasury holds. *)
DueWhateverTreasury(due, held) == due

(* The treasury pays what it has when it has less. *)
Payable(due, held) == AtMost(due, held)

(* Wallet u claims from distributor d for the reward entry r.  The program *)
(* requires d and r to belong to the pool of the stake entry, not r to     *)
(* belong to d.  When the seconds received have reached the stake entry's  *)
(* seconds or the limit, the call succeeds and changes nothing.            *)
ClaimRewards(u, payer, d, r) ==
    LET e == StakeOf(r)
        t == distributor[d].terms
        multiplier == reward[r].multiplier
        received == reward[r].reward_seconds_received
        unpaid == RewardSeconds(entry[e], t) - received
        due == RewardDue(unpaid, t, multiplier)
        amount == Payable(due, treasury[d])
    IN  /\ distributor[d] # None
        /\ reward[r] # None
        /\ entry[e] # None
        /\ pool[PoolOf(e)] # None
        /\ PoolOfDistributor(d) = PoolOf(e)
        /\ u = entry[e].last_staker \/ u = distributor[d].authority
        /\ unpaid > 0
        /\ t.reward_duration_seconds > 0               \* else "Div error"
        /\ multiplier # 0 => t.reward_amount > 0
        /\ distributor[d].rewards_issued + amount <= MaxIssued
        /\ TakeFromTreasury(d, entry[e].last_staker, amount)
        /\ distributor' = [distributor EXCEPT ![d].rewards_issued = @ + amount]
        /\ reward' = [reward EXCEPT ![r].reward_seconds_received =
                         @ + Marks(due, amount, t, multiplier)]
        /\ HandlePaymentInfo(payer)
        /\ UNCHANGED stakeVars

DistributorStep(u) ==
    \E d \in Distributors :
        \/ \E t \in RewardTerms :
              \/ InitRewardDistributor(u, d, t)
              \/ UpdateRewardDistributor(u, d, t)
        \/ CloseRewardDistributor(u, d)
        \/ \E n \in 1 .. treasury[d] : ReclaimFunds(u, d, n)
        \/ \E n \in 1 .. tokens[u] : FundTreasury(u, d, n)

RewardEntryStep(u) ==
    \E r \in RewardEntries :
        \/ InitRewardEntry(r)
        \/ \E multiplier \in Multipliers : UpdateRewardEntry(u, r, multiplier)
        \/ CloseRewardEntry(u, r)
        \/ \E payer \in Users, d \in Distributors : ClaimRewards(u, payer, d, r)

RewardNext == \E u \in Users : DistributorStep(u) \/ RewardEntryStep(u)
=============================================================================
