------------------------------ MODULE MCClient ------------------------------
(***************************************************************************)
(* Small instances of Client for TLC.                                      *)
(***************************************************************************)
EXTENDS Client

CONSTANTS u1, u2, p1, m1, id1, tag, accepted, foreign, collector

OneEntry == {<<p1, m1>>}
OneDistributor == {<<p1, id1>>}
NoTags == [m \in Mints |-> {}]
AllPNFT == [m \in Mints |-> "pnft"]

(* A pool with a cooldown of a second; the same with an authorization      *)
(* record asked for; and with another payment info named.                  *)
Cooling == [authority |-> u1, reset_on_unstake |-> FALSE, cooldown_seconds |-> 1,
            min_stake_seconds |-> 0, end_date |-> None,
            requires_authorization |-> FALSE, allowed |-> {},
            stake_payment_info |-> accepted, unstake_payment_info |-> accepted]
Recorded == [Cooling EXCEPT !.requires_authorization = TRUE]
Foreign == [Cooling EXCEPT !.stake_payment_info = foreign,
                           !.unstake_payment_info = foreign]
RecordedTerms == {Recorded}
CoolingTerms == {Cooling}
BothKeys == {Cooling, Foreign}

(* A token for each second, with either payment info. *)
Plain == [reward_amount |-> 1, reward_duration_seconds |-> 1,
          default_multiplier |-> 1, multiplier_decimals |-> 0,
          max_reward_seconds_received |-> None,
          claim_rewards_payment_info |-> accepted]
PlainOnly == {Plain}
PlainBothKeys == {Plain, [Plain EXCEPT !.claim_rewards_payment_info = foreign]}

(* A payment of nothing, and one of a lamport. *)
Free == [price |-> 0, collectors |-> collector, takes |-> {"direct", "sdk"}]
Priced == [Free EXCEPT !.price = 1]
FreeOnly == {Free}
PricedOnly == {Priced}
FreeAndPriced == {Free, Priced}
=============================================================================
