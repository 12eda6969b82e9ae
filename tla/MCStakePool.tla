---------------------------- MODULE MCStakePool ----------------------------
(***************************************************************************)
(* Small instances of StakePool for TLC.                                   *)
(***************************************************************************)
EXTENDS StakePool

CONSTANTS u1, u2, p1, p2, m1, m2, m3, creator, accepted, collector

OneEntry == {<<p1, m1>>}
(* Two pools, one with two tokens and one with one. *)
TwoPools == {<<p1, m1>>, <<p1, m2>>, <<p2, m3>>}
(* Two pools that both take m1. *)
SharedToken == {<<p1, m1>>, <<p2, m1>>, <<p2, m2>>}

(* m1 carries the verified creator, the others do not. *)
CreatorOfM1 == [m \in Mints |-> IF m = m1 THEN {creator} ELSE {}]

Open == [authority |-> u1, reset_on_unstake |-> FALSE, cooldown_seconds |-> 0,
         min_stake_seconds |-> 0, end_date |-> None,
         requires_authorization |-> FALSE, allowed |-> {},
         stake_payment_info |-> accepted, unstake_payment_info |-> accepted]

(* A cooldown of two seconds; the same with totals cleared on unstake. *)
Cooling == [Open EXCEPT !.cooldown_seconds = 2]
CoolingTerms == {Cooling}
CoolingResetTerms == {Cooling, [Open EXCEPT !.reset_on_unstake = TRUE,
                                            !.min_stake_seconds = 1]}
OpenTerms == {Open}

(* An allowlist, authorization records beside it, an end date. *)
Guarded == [Open EXCEPT !.allowed = {creator}, !.requires_authorization = TRUE,
                        !.cooldown_seconds = 1]
GuardedTerms == {Guarded, [Open EXCEPT !.end_date = 2, !.authority = u2]}

(* A payment of nothing, one that anyone who has a lamport can make, and   *)
(* one that nobody can make, as its shares have wrapped around.            *)
Free == [price |-> 0, collectors |-> collector, takes |-> {"direct", "sdk"}]
Priced == [Free EXCEPT !.price = 1]
Blocked == [Priced EXCEPT !.takes = {}]
FreeOnly == {Free}
FreePricedBlocked == {Free, Priced, Blocked}
=============================================================================
