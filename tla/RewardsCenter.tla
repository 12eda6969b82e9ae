---------------------------- MODULE RewardsCenter ----------------------------
(***************************************************************************)
(* The program: the instructions of StakePool and of RewardDistribution,    *)
(* interleaved in any order.                                               *)
(***************************************************************************)
EXTENDS RewardDistribution

centerVars == <<vars, rewardVars>>

CenterInit == Init /\ RewardInit

CenterNext ==
    \/ Next /\ UNCHANGED rewardVars
    \/ RewardNext

CenterSpec == CenterInit /\ [][CenterNext]_centerVars

-----------------------------------------------------------------------------
(* Properties.                                                             *)

(* Every reward account holds values of its type; in particular no wallet  *)
(* and no treasury is overdrawn.                                           *)
RewardTypeOK ==
    /\ distributor \in [Distributors -> DistributorAccount \cup {None}]
    /\ treasury \in [Distributors -> Nat]
    /\ reward \in [RewardEntries -> RewardAccount \cup {None}]
    /\ tokens \in [Users \cup {None} -> Nat]

(* Tokens distributor d issues in a step, and seconds reward entry r       *)
(* marks as received, for accounts that exist before and after it.         *)
Issued(d) ==
    IF distributor[d] # None /\ distributor'[d] # None
    THEN distributor'[d].rewards_issued - distributor[d].rewards_issued ELSE 0

Credited(r) ==
    IF reward[r] # None /\ reward'[r] # None
    THEN reward'[r].reward_seconds_received - reward[r].reward_seconds_received
    ELSE 0

(* Multipliers a reward entry can have, and rates at which a whole number  *)
(* of durations stands for every token, or a whole number of tokens for    *)
(* every duration: nothing in the program asks for such settings.          *)
GivenMultipliers == Multipliers \cup {t.default_multiplier : t \in RewardTerms}

EvenRates ==
    \A t \in RewardTerms, multiplier \in GivenMultipliers :
        LET rate == t.reward_amount * multiplier
        IN  rate % Scale(t) = 0 \/ (rate # 0 /\ Scale(t) % rate = 0)

OneDistributorPerPool ==
    \A c, d \in Distributors : PoolOfDistributor(c) = PoolOfDistributor(d) => c = d

(* claim_rewards marks no second as received that no token was paid for,   *)
(* at the rate of the distributor and the entry: a treasury that runs      *)
(* short pays for fewer seconds, and the rest stay claimable               *)
(* (claim_rewards.rs:77-97).                                               *)
SecondsMarkedArePaidFor ==
    [][ \A r \in RewardEntries : Credited(r) > 0 =>
          \E d \in Distributors :
            /\ distributor[d] # None
            /\ PoolOfDistributor(d) = PoolOf(StakeOf(r))
            /\ LET t == distributor[d].terms
               IN  Credited(r) * t.reward_amount * reward[r].multiplier
                      <= Issued(d) * t.reward_duration_seconds * Scale(t)
      ]_centerVars

(* claim_rewards pays no token without marking the seconds it pays for, at *)
(* the rate of the distributor and the entry, on an entry of its own; only *)
(* a treasury that is emptied pays less than the next whole amount.  It    *)
(* relies on EvenRates and OneDistributorPerPool.                          *)
TokensPaidForSeconds ==
    [][ \A d \in Distributors : Issued(d) > 0 =>
          \E r \in RewardEntries :
            /\ DistributorOf(r) = d
            /\ LET t == distributor[d].terms
               IN  \/ Issued(d) * t.reward_duration_seconds * Scale(t)
                        <= Credited(r) * t.reward_amount * reward[r].multiplier
                   \/ treasury'[d] = 0 ]_centerVars

(* Seconds received overtake the seconds of the stake entry only when an   *)
(* authority's reset, an unstake with reset or a reopened entry sets those *)
(* back to zero: no order of stakes, updates and claims marks more seconds *)
(* than were staked.  (That the seconds marked were paid for is            *)
(* SecondsMarkedArePaidFor.)                                               *)
WithinStake(r) ==
    reward[r] # None /\ entry[StakeOf(r)] # None =>
        reward[r].reward_seconds_received <= entry[StakeOf(r)].total_stake_seconds

OnlyResetsForfeit ==
    [][ \A r \in RewardEntries : WithinStake(r) /\ ~WithinStake(r)' =>
          entry'[StakeOf(r)].total_stake_seconds = 0 ]_centerVars

(* rewards_issued grows by exactly what the treasury pays to the last      *)
(* staker, and the seconds marked as received stay within those staked and *)
(* within max_reward_seconds_received.                                     *)
IssuedTokensLeaveTreasury ==
    [][ \A d \in Distributors : Issued(d) > 0 =>
          \E r \in RewardEntries :
            LET s == entry[StakeOf(r)]
                max == distributor[d].terms.max_reward_seconds_received
            IN  /\ PoolOfDistributor(d) = PoolOf(StakeOf(r))
                /\ treasury'[d] = treasury[d] - Issued(d)
                /\ tokens'[s.last_staker] = tokens[s.last_staker] + Issued(d)
                /\ reward'[r].reward_seconds_received <= s.total_stake_seconds
                /\ max # None => reward'[r].reward_seconds_received <= max
      ]_centerVars

(* A claim from a distributor marks seconds on that distributor's reward   *)
(* entries, so that no second is paid for again by the same distributor    *)
(* ("Invalid reward distributor", errors.rs:106).                          *)
ClaimsCountOnOwnEntry ==
    [][ \A d \in Distributors : Issued(d) > 0 =>
          \A r \in RewardEntries : Credited(r) > 0 => DistributorOf(r) = d
      ]_centerVars
=============================================================================
