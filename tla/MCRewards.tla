----------------------------- MODULE MCRewards -----------------------------
(***************************************************************************)
(* Small instances of RewardsCenter for TLC.                               *)
(***************************************************************************)
EXTENDS RewardsCenter

CONSTANTS u1, u2, p1, m1, id1, id2, accepted, collector

OneEntry == {<<p1, m1>>}
NoTags == [m \in Mints |-> {}]

OneDistributor == {<<p1, id1>>}
TwoDistributors == {<<p1, id1>>, <<p1, id2>>}

OpenPool == [authority |-> u1, reset_on_unstake |-> FALSE, cooldown_seconds |-> 0,
             min_stake_seconds |-> 0, end_date |-> None,
             requires_authorization |-> FALSE, allowed |-> {},
             stake_payment_info |-> accepted, unstake_payment_info |-> accepted]
OpenTerms == {OpenPool}

(* Payments of nothing. *)
FreeOnly == {[price |-> 0, collectors |-> collector, takes |-> {"direct", "sdk"}]}

(* Two tokens for two seconds; and a token for two seconds at half rate,   *)
(* for at most two seconds.                                                *)
Whole == [reward_amount |-> 2, reward_duration_seconds |-> 2,
          default_multiplier |-> 1, multiplier_decimals |-> 0,
          max_reward_seconds_received |-> None,
          claim_rewards_payment_info |-> accepted]
Half == [reward_amount |-> 1, reward_duration_seconds |-> 1,
         default_multiplier |-> 5, multiplier_decimals |-> 1,
         max_reward_seconds_received |-> 2,
         claim_rewards_payment_info |-> accepted]
WholeAndHalf == {Whole, Half}
WholeOnly == {Whole}

(* The settings of these instances divide evenly. *)
ASSUME RatesAreEven == EvenRates
=============================================================================
