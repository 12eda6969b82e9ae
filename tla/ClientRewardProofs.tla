------------------------- MODULE ClientRewardProofs -------------------------
(***************************************************************************)
(* Proofs about the reward accounts under Client: a transaction with claims *)
(* from any number of distributors overdraws no treasury, changes only      *)
(* accounts it may write, and is estimated exactly by the SDK.              *)
(***************************************************************************)
EXTENDS ClientProofs, FoldLemmas

-----------------------------------------------------------------------------
(* The claims of a transaction.                                            *)

(* What is known of the draft of a transaction when its claims run. *)
Claiming(b) ==
    /\ b.entry \in Entries
    /\ b.payee \in Users \cup {None}
    /\ b.claims \subseteq DistributorsFor(b.entry)
    /\ CanUpdate(b)
    /\ \E w \in Users : \A d \in b.claims : CanClaim(w, b, d)

(* What the claim from d takes from its treasury. *)
Taken(b, d) == IF d \in Charged(b) THEN Paid(b, d) ELSE 0

(* The seconds it marks as received. *)
Marked(b, d) ==
    IF d \in Charged(b)
    THEN SecondsFor(Paid(b, d), distributor[d].terms, RewardOf(b, d).multiplier)
    ELSE 0

(* The accounts a claim finds hold values of their types. *)
LEMMA ClaimParts ==
    ASSUME TypeOK, RewardInv, NEW b, Claiming(b), NEW d \in b.claims
    PROVE  /\ d \in Distributors /\ <<d, b.entry>> \in RewardEntries
           /\ distributor[d] \in DistributorAccount
           /\ distributor[d].terms \in RewardTerms
           /\ treasury[d] \in Nat
           /\ RewardOf(b, d) \in RewardAccount
           /\ RewardSeconds(Updated(b), distributor[d].terms) \in Nat
           /\ d \in Charged(b) =>
                /\ Unpaid(b, d) \in Nat
                /\ distributor[d].terms.reward_duration_seconds # 0
                /\ RewardOf(b, d).multiplier # 0 => distributor[d].terms.reward_amount # 0
<1> DEFINE t == distributor[d].terms
<1>1. PICK w \in Users : CanClaim(w, b, d)
  BY DEF Claiming
<1>2. d \in Distributors /\ <<d, b.entry>> \in RewardEntries
  BY DEF Claiming, DistributorsFor, RewardEntries
<1>3. distributor[d] \in DistributorAccount /\ t \in RewardTerms /\ treasury[d] \in Nat
  BY <1>1, <1>2 DEF CanClaim, RewardInv, RewardTypeOK
<1>4. t \in DistributorTerms
  BY <1>3, RewardDistributionAssumption
<1>5. RewardOf(b, d) \in RewardAccount
  <2>1. CASE d \in b.inits
    BY <1>4, <2>1 DEF RewardOf, RewardAccount, DistributorTerms
  <2>2. CASE d \notin b.inits
    BY <1>1, <1>2, <2>2 DEF CanClaim, RewardOf, RewardInv, RewardTypeOK
  <2> QED
    BY <2>1, <2>2
<1>6. RewardSeconds(Updated(b), t) \in Nat
  <2>1. Updated(b).total_stake_seconds \in Nat
    BY UpdatedType DEF Claiming, EntryAccount
  <2>2. t.max_reward_seconds_received \in Nat \cup {None}
    BY <1>4 DEF DistributorTerms
  <2> QED
    BY <2>1, <2>2, AtMostNat DEF RewardSeconds
<1>7. ASSUME d \in Charged(b)
      PROVE  /\ Unpaid(b, d) \in Nat
             /\ t.reward_duration_seconds # 0
             /\ RewardOf(b, d).multiplier # 0 => t.reward_amount # 0
  <2>1. Unpaid(b, d) > 0
    BY <1>7 DEF Charged
  <2>2. Unpaid(b, d) \in Int
    BY <1>5, <1>6 DEF Unpaid, RewardAccount
  <2>3. t.reward_duration_seconds > 0 /\ (RewardOf(b, d).multiplier # 0 => t.reward_amount > 0)
    BY <1>1, <2>1 DEF CanClaim
  <2> QED
    BY <2>1, <2>2, <2>3
<1> QED
  BY <1>2, <1>3, <1>5, <1>6, <1>7

(* No claim takes more than the treasury has. *)
LEMMA ClaimTakes ==
    ASSUME TypeOK, RewardInv, NEW b, Claiming(b), NEW d \in b.claims
    PROVE  /\ Taken(b, d) \in Nat /\ Taken(b, d) <= treasury[d]
           /\ Marked(b, d) \in Nat
<1> DEFINE t == distributor[d].terms
           seconds == Unpaid(b, d)
           multiplier == RewardOf(b, d).multiplier
           due == RewardDue(seconds, t, multiplier)
           paid == Paid(b, d)
           back == (((paid * Scale(t)) \div multiplier) \div t.reward_amount)
                       * t.reward_duration_seconds
<1>1. t \in RewardTerms /\ t \in DistributorTerms /\ treasury[d] \in Nat
      /\ Scale(t) \in Nat \ {0} /\ RewardOf(b, d) \in RewardAccount
  BY ClaimParts, RewardDistributionAssumption, ScaleAssumption
<1>2. t.reward_amount \in Nat /\ multiplier \in Nat /\ t.reward_duration_seconds \in Nat
  BY <1>1 DEF DistributorTerms, RewardAccount
<1>3. CASE d \notin Charged(b)
  BY <1>1, <1>3 DEF Taken, Marked
<1>4. CASE d \in Charged(b)
  <2>1. /\ seconds \in Nat /\ t.reward_duration_seconds # 0
        /\ multiplier # 0 => t.reward_amount # 0
    BY <1>4, ClaimParts
  <2>2. due \in Nat
    <3> HIDE DEF t, seconds, multiplier
    <3> QED
      BY <1>1, <1>2, <2>1, RoundedDown DEF RewardDue
  <2>3. paid \in Nat /\ paid <= due /\ paid <= treasury[d]
    <3>1. paid = AtMost(due, treasury[d])
      BY DEF Paid, Payable, Due
    <3>2. treasury[d] # None
      BY <1>1, StakePoolAssumption
    <3> HIDE DEF paid, due
    <3> QED
      BY <1>1, <2>2, <3>1, <3>2, AtMostNat
  <2>4. multiplier # 0 => back \in Nat
    <3> HIDE DEF t, seconds, multiplier, paid
    <3> QED
      BY <1>1, <1>2, <2>1, <2>3, RoundedDown DEF due, RewardDue
  <2>5. Marked(b, d) = IF multiplier = 0 THEN 0 ELSE back
    BY <1>4 DEF Marked, SecondsFor
  <2>6. Marked(b, d) \in Nat
    <3> HIDE DEF back
    <3> QED
      BY <2>4, <2>5
  <2> QED
    BY <1>4, <2>3, <2>6 DEF Taken
<1> QED
  BY <1>3, <1>4

(* The payee receives the sum of what the claims take, in whatever order   *)
(* they run.                                                               *)
LEMMA ClaimsPay ==
    ASSUME NEW b, Claims(b), b.claims # {}
    PROVE  tokens' = [tokens EXCEPT ![b.payee] =
                         @ + Total([d \in Distributors |-> Taken(b, d)], b.claims)]
BY DEF Claims, Taken, FoldFunctionOnSet, Total

LEMMA ClaimsTokens ==
    ASSUME TypeOK, RewardInv, NEW b, Claiming(b), Claims(b)
    PROVE  tokens' \in [Users \cup {None} -> Nat]
<1>1. CASE b.claims = {}
  BY <1>1 DEF Claims, RewardInv, RewardTypeOK
<1>2. CASE b.claims # {}
  <2> DEFINE taken == [d \in Distributors |-> Taken(b, d)]
             total == Total(taken, b.claims)
  <2>1. b.claims \subseteq Distributors
    BY DEF Claiming, DistributorsFor
  <2>2. IsFiniteSet(b.claims)
    BY <2>1, ClientAssumption, FS_Subset
  <2>3. \A d \in b.claims : taken[d] \in Nat
    BY <2>1, ClaimTakes
  <2>4. total \in Nat
    <3> HIDE DEF taken
    <3> QED
      BY <2>2, <2>3, TotalNat
  <2>5. tokens' = [tokens EXCEPT ![b.payee] = @ + total]
    BY <1>2, ClaimsPay
  <2>6. b.payee \in Users \cup {None} /\ tokens \in [Users \cup {None} -> Nat]
    BY DEF Claiming, RewardInv, RewardTypeOK
  <2> HIDE DEF total
  <2>7. tokens[b.payee] + total \in Nat
    BY <2>4, <2>6
  <2> QED
    BY <2>5, <2>6, <2>7
<1> QED
  BY <1>1, <1>2

(* The seconds the claims mark, each on the reward entry it is for. *)
LEMMA ClaimsMark ==
    ASSUME NEW b, Claims(b)
    PROVE  reward' = [r \in RewardEntries |->
              IF StakeOf(r) = b.entry /\ DistributorOf(r) \in b.claims
              THEN [RewardOf(b, DistributorOf(r)) EXCEPT
                        !.reward_seconds_received = @ + Marked(b, DistributorOf(r))]
              ELSE reward[r]]
<1>1. \A r \in RewardEntries : DistributorOf(r) \in Distributors
  BY DEF RewardEntries, DistributorOf
<1> QED
  BY <1>1 DEF Claims, Marked, Marks

(* Claims leave the reward accounts with values of their types. *)
LEMMA ClaimsKeepRewardInv ==
    ASSUME TypeOK, RewardInv, NEW b, Claiming(b), Claims(b)
    PROVE  RewardInv'
<1> DEFINE after(d) == [distributor[d] EXCEPT !.rewards_issued = @ + Taken(b, d)]
           paidFor(d) == [RewardOf(b, d) EXCEPT !.reward_seconds_received = @ + Marked(b, d)]
<1>1. /\ treasury' = [d \in Distributors |-> treasury[d] - Taken(b, d)]
      /\ distributor' = [d \in Distributors |->
            IF d \in b.claims THEN after(d) ELSE distributor[d]]
  BY DEF Claims, Taken
<1>2. reward' = [r \in RewardEntries |->
          IF StakeOf(r) = b.entry /\ DistributorOf(r) \in b.claims
          THEN paidFor(DistributorOf(r)) ELSE reward[r]]
  BY ClaimsMark
<1>3. ASSUME NEW d \in Distributors
      PROVE  treasury[d] - Taken(b, d) \in Nat
  <2>1. treasury[d] \in Nat
    BY DEF RewardInv, RewardTypeOK
  <2>2. CASE d \in b.claims
    BY <2>1, <2>2, ClaimTakes
  <2>3. CASE d \notin b.claims
    BY <2>1, <2>3 DEF Taken, Charged
  <2> QED
    BY <2>2, <2>3
<1>4. ASSUME NEW d \in b.claims
      PROVE  /\ after(d) \in DistributorAccount /\ after(d).terms \in RewardTerms
             /\ paidFor(d) \in RewardAccount
  <2>1. /\ distributor[d] \in DistributorAccount /\ distributor[d].terms \in RewardTerms
        /\ RewardOf(b, d) \in RewardAccount
    BY ClaimParts
  <2>2. Taken(b, d) \in Nat /\ Marked(b, d) \in Nat
    BY ClaimTakes
  <2>3. after(d) \in DistributorAccount /\ after(d).terms \in RewardTerms
    BY <2>1, <2>2 DEF DistributorAccount
  <2>4. paidFor(d) \in RewardAccount
    BY <2>1, <2>2 DEF RewardAccount
  <2> QED
    BY <2>3, <2>4
<1> HIDE DEF after, paidFor
<1>5. treasury' \in [Distributors -> Nat]
  BY <1>1, <1>3
<1>6. distributor' \in [Distributors -> DistributorAccount \cup {None}]
  BY <1>1, <1>4 DEF RewardInv, RewardTypeOK
<1>7. reward' \in [RewardEntries -> RewardAccount \cup {None}]
  BY <1>2, <1>4 DEF RewardInv, RewardTypeOK
<1>8. \A d \in Distributors : distributor'[d] # None => distributor'[d].terms \in RewardTerms
  BY <1>1, <1>4 DEF RewardInv
<1>9. tokens' \in [Users \cup {None} -> Nat]
  BY ClaimsTokens
<1> QED
  BY <1>5, <1>6, <1>7, <1>8, <1>9 DEF RewardInv, RewardTypeOK

-----------------------------------------------------------------------------
(* Every step of a wallet. *)

LEMMA ClaimingDraft ==
    ASSUME TypeOK, DraftTypeOK, NEW w \in Clients, SubmitUnstake(w) \/ SubmitClaim(w)
    PROVE  Claiming(draft[w]) /\ Claims(draft[w])
<1>1. /\ draft[w] # None /\ draft[w].kind # "stake"
      /\ CanUpdate(draft[w]) /\ Claims(draft[w])
      /\ \A d \in draft[w].claims : CanClaim(w, draft[w], d)
  BY DEF SubmitUnstake, SubmitClaim, Submitted
<1> QED
  BY <1>1, DraftParts DEF Claiming

LEMMA ClientRewardNext ==
    ASSUME TypeOK, DraftTypeOK, RewardInv, [ClientNext]_clientVars
    PROVE  RewardInv'
<1>1. CASE [CenterNext]_centerVars
  BY <1>1, RewardInvNext
<1>2. ASSUME NEW w \in Clients, ClientStep(w)
      PROVE  RewardInv'
  <2>1. CASE UNCHANGED rewardVars
    BY <2>1, RewardInvNext DEF rewardVars, RewardInv, RewardTypeOK
  <2>2. CASE SubmitUnstake(w) \/ SubmitClaim(w)
    BY <2>2, ClaimingDraft, ClaimsKeepRewardInv
  <2> QED
    BY <1>2, <2>1, <2>2 DEF ClientStep, BuildStake, BuildUnstake, BuildClaim, Build,
       Expire, SubmitStake, centerVars
<1> QED
  BY <1>1, <1>2 DEF ClientNext, clientVars, MoveToken

LEMMA ClientRewardInvariant == ClientSpec => [](TypeOK /\ DraftTypeOK /\ RewardInv)
<1>1. ClientInit => TypeOK /\ DraftTypeOK /\ RewardInv
  BY ClientTypeInit, RewardInitial DEF ClientInit
<1>2. TypeOK /\ DraftTypeOK /\ RewardInv /\ [ClientNext]_clientVars
        => (TypeOK /\ DraftTypeOK /\ RewardInv)'
  BY ClientTypeNext, ClientRewardNext
<1> QED
  BY <1>1, <1>2, PTL DEF ClientSpec

(* However many claims one transaction holds and however stale the wallet's *)
(* view was, none of them overdraws a treasury.                            *)
THEOREM ClientRewardTypeCorrect == ClientSpec => []RewardTypeOK
BY ClientRewardInvariant, PTL DEF RewardInv

-----------------------------------------------------------------------------
(* Seconds received and seconds staked.                                    *)

(* A claim of a transaction marks no second beyond those staked, counting  *)
(* the ones the update of the same transaction has just stored.            *)
LEMMA MarkedWithin ==
    ASSUME TypeOK, RewardInv, NEW b, Claiming(b), NEW d \in b.claims, d \in Charged(b)
    PROVE  RewardOf(b, d).reward_seconds_received + Marked(b, d)
               <= Updated(b).total_stake_seconds
<1> DEFINE t == distributor[d].terms
           received == RewardOf(b, d).reward_seconds_received
           multiplier == RewardOf(b, d).multiplier
           seconds == Unpaid(b, d)
           due == RewardDue(seconds, t, multiplier)
           paid == Paid(b, d)
           back == (((paid * Scale(t)) \div multiplier) \div t.reward_amount)
                       * t.reward_duration_seconds
           total == Updated(b).total_stake_seconds
<1>1. t \in DistributorTerms /\ Scale(t) \in Nat \ {0} /\ RewardOf(b, d) \in RewardAccount
      /\ treasury[d] \in Nat /\ treasury[d] # None
  BY ClaimParts, RewardDistributionAssumption, ScaleAssumption, StakePoolAssumption
<1>2. /\ t.reward_amount \in Nat /\ t.reward_duration_seconds \in Nat \ {0}
      /\ t.max_reward_seconds_received \in Nat \cup {None}
      /\ multiplier \in Nat /\ received \in Nat
      /\ seconds \in Nat /\ (multiplier # 0 => t.reward_amount # 0)
  <2>1. seconds \in Nat /\ t.reward_duration_seconds # 0
        /\ (multiplier # 0 => t.reward_amount # 0)
    BY ClaimParts
  <2> QED
    BY <1>1, <2>1 DEF DistributorTerms, RewardAccount
<1>3. total \in Nat
  BY UpdatedType DEF Claiming, EntryAccount
<1>4. received + seconds <= total
  <2>1. seconds = AtMost(total, t.max_reward_seconds_received) - received
    BY DEF Unpaid, RewardSeconds
  <2>2. /\ AtMost(total, t.max_reward_seconds_received) \in Nat
        /\ AtMost(total, t.max_reward_seconds_received) <= total
    BY <1>2, <1>3, AtMostNat
  <2> HIDE DEF seconds, received, total
  <2> QED
    BY <1>2, <1>3, <2>1, <2>2
<1>5. Marked(b, d) = IF multiplier = 0 THEN 0 ELSE back
  BY DEF Marked, SecondsFor
<1>6. multiplier # 0 => back \in Nat /\ back <= seconds
  <2>1. due \in Nat
    <3> HIDE DEF t, seconds, multiplier
    <3> QED
      BY <1>1, <1>2, RoundedDown DEF RewardDue
  <2>2. paid \in Nat /\ paid <= due
    <3>1. paid = AtMost(due, treasury[d])
      BY DEF Paid, Payable, Due
    <3> HIDE DEF paid, due
    <3> QED
      BY <1>1, <2>1, <3>1, AtMostNat
  <2> HIDE DEF t, seconds, multiplier, paid
  <2> QED
    BY <1>1, <1>2, <2>2, RoundedDown DEF due, RewardDue
<1> HIDE DEF back, multiplier, seconds, received, total
<1>7. received + Marked(b, d) <= total
  BY <1>2, <1>3, <1>4, <1>5, <1>6
<1> QED
  BY <1>7 DEF received, total

(* So what a reward entry has received is within the updated stake entry    *)
(* after the claims, if it was before.                                     *)
LEMMA ClaimsStayWithin ==
    ASSUME TypeOK, RewardInv, NEW b, Claiming(b), Claims(b),
           NEW r \in RewardEntries, StakeOf(r) = b.entry, WithinStake(r),
           reward'[r] # None
    PROVE  reward'[r].reward_seconds_received <= Updated(b).total_stake_seconds
<1> DEFINE d == DistributorOf(r)
           total == Updated(b).total_stake_seconds
<1>1. r = <<d, b.entry>> /\ d \in Distributors
  BY DEF RewardEntries, DistributorOf, StakeOf
<1>2. total \in Nat /\ (reward[r] # None => reward[r].reward_seconds_received <= total)
  <2>1. entry[b.entry] \in EntryAccount /\ entry[b.entry] # None
    BY DEF Claiming, CanUpdate, TypeOK
  <2>2. /\ total \in Nat /\ entry[b.entry].total_stake_seconds \in Nat
        /\ entry[b.entry].total_stake_seconds <= total
    <3>1. SecondsIncreased(entry[b.entry]) \in Nat
          /\ entry[b.entry].total_stake_seconds \in Nat
      BY <2>1, SecondsIncreasedNat DEF EntryAccount
    <3>2. Updated(b) = entry[b.entry]
          \/ Updated(b).total_stake_seconds =
                entry[b.entry].total_stake_seconds + SecondsIncreased(entry[b.entry])
      BY <2>1, IncrementFacts DEF Updated
    <3> QED
      BY <3>1, <3>2
  <2>3. ASSUME reward[r] # None
        PROVE  reward[r].reward_seconds_received <= total
    <3>1. reward[r].reward_seconds_received <= entry[b.entry].total_stake_seconds
      BY <2>1, <2>3 DEF WithinStake
    <3>2. reward[r].reward_seconds_received \in Nat
      BY <2>3 DEF RewardInv, RewardTypeOK, RewardAccount
    <3> HIDE DEF total
    <3> QED
      BY <2>2, <3>1, <3>2
  <2> QED
    BY <2>2, <2>3
<1>3. CASE d \notin b.claims
  <2>1. reward'[r] = reward[r]
    BY <1>3, ClaimsMark
  <2> QED
    BY <1>2, <2>1
<1>4. CASE d \in b.claims
  <2>1. reward'[r] = [RewardOf(b, d) EXCEPT !.reward_seconds_received = @ + Marked(b, d)]
    BY <1>4, ClaimsMark
  <2>2. RewardOf(b, d) \in RewardAccount
    BY <1>4, ClaimParts
  <2>3. reward'[r].reward_seconds_received =
            RewardOf(b, d).reward_seconds_received + Marked(b, d)
    BY <2>1, <2>2 DEF RewardAccount
  <2>4. CASE d \in Charged(b)
    BY <1>4, <2>3, <2>4, MarkedWithin
  <2>5. CASE d \notin Charged(b)
    <3>1. Marked(b, d) = 0 /\ RewardOf(b, d).reward_seconds_received \in Nat
      BY <2>2, <2>5 DEF Marked, RewardAccount
    <3>2. RewardOf(b, d).reward_seconds_received <= total
      <4>1. CASE d \in b.inits
        BY <1>2, <4>1 DEF RewardOf
      <4>2. CASE d \notin b.inits
        <5>1. RewardOf(b, d) = reward[r]
          BY <1>1, <4>2 DEF RewardOf
        <5>2. reward[r] # None
          BY <2>2, <5>1, RewardDistributionAssumption
        <5> QED
          BY <1>2, <5>1, <5>2
      <4> QED
        BY <4>1, <4>2
    <3> HIDE DEF total
    <3> QED
      BY <2>3, <3>1, <3>2 DEF total
  <2> QED
    BY <2>4, <2>5
<1> QED
  BY <1>3, <1>4

(* A stake leaves what a reward entry has received within the seconds of   *)
(* the stake entry, or opens the entry with no seconds.                    *)
LEMMA ForfeitOfStake ==
    ASSUME TypeOK, DraftTypeOK, RewardInv, NEW w \in Clients, SubmitStake(w),
           NEW r \in RewardEntries, WithinStake(r),
           entry'[StakeOf(r)].total_stake_seconds # 0
    PROVE  WithinStake(r)'
<1> DEFINE b == draft[w]
           e == b.entry
           x == StakeOf(r)
           s == IF b.opens THEN NewEntry ELSE entry[e]
<1>1. x \in Entries /\ e \in Entries
  BY DraftParts DEF SubmitStake, Submitted, RewardEntries, StakeOf
<1>2. reward' = reward /\ entry' = [entry EXCEPT ![e] = AfterStake(s, w)]
  BY <1>1 DEF SubmitStake, rewardVars, TypeOK
<1>3. CASE x # e
  <2>1. entry'[x] = entry[x]
    BY <1>1, <1>2, <1>3 DEF TypeOK
  <2> QED
    BY <1>2, <2>1 DEF WithinStake, StakeOf
<1>4. CASE x = e
  <2>1. entry'[x] = AfterStake(s, w)
    BY <1>1, <1>2, <1>4 DEF TypeOK
  <2>2. NewEntry \in EntryAccount /\ NewEntry.amount = 0 /\ NewEntry.total_stake_seconds = 0
    BY DEF NewEntry, EntryAccount
  <2>3. ~b.opens
    BY <2>1, <2>2, SecondsAfterStake
  <2>4. s = entry[e] /\ entry[e] \in EntryAccount /\ entry[e] # None
    BY <1>1, <2>3, StakePoolAssumption DEF SubmitStake, TypeOK
  <2>5. /\ entry[x].total_stake_seconds \in Nat
        /\ entry'[x].total_stake_seconds \in Nat
        /\ entry[x].total_stake_seconds <= entry'[x].total_stake_seconds
    BY <1>4, <2>1, <2>4, SecondsAfterStake
  <2>6. ASSUME reward[r] # None
        PROVE  reward[r].reward_seconds_received <= entry'[x].total_stake_seconds
    <3>1. reward[r].reward_seconds_received \in Nat
      BY <2>6 DEF RewardInv, RewardTypeOK, RewardAccount
    <3>2. reward[r].reward_seconds_received <= entry[x].total_stake_seconds
      BY <1>4, <2>4, <2>6 DEF WithinStake
    <3> QED
      BY <2>5, <3>1, <3>2
  <2> QED
    BY <1>2, <2>6 DEF WithinStake, StakeOf
<1> QED
  BY <1>3, <1>4

(* The claims of a transaction stay within the seconds its update stores,  *)
(* and the unstake after them takes none away, or all.                     *)
LEMMA ForfeitOfClaims ==
    ASSUME TypeOK, DraftTypeOK, RewardInv, NEW w \in Clients,
           SubmitUnstake(w) \/ SubmitClaim(w),
           NEW r \in RewardEntries, WithinStake(r),
           entry'[StakeOf(r)].total_stake_seconds # 0
    PROVE  WithinStake(r)'
<1> DEFINE b == draft[w]
           e == b.entry
           x == StakeOf(r)
           i == Updated(b)
           reset == pool[PoolOf(e)].terms.reset_on_unstake
           after == entry'[e]
<1>1. Claiming(b) /\ Claims(b)
  BY ClaimingDraft
<1>2. x \in Entries /\ e \in Entries /\ i \in EntryAccount
  BY <1>1, UpdatedType DEF Claiming, RewardEntries, StakeOf
<1>3. /\ \A y \in Entries : y # e => entry'[y] = entry[y]
      /\ after.total_stake_seconds # 0 =>
            /\ after.total_stake_seconds \in Nat
            /\ i.total_stake_seconds <= after.total_stake_seconds
  <2>1. i.total_stake_seconds \in Nat /\ SecondsIncreased(i) \in Nat
    BY <1>2, SecondsIncreasedNat DEF EntryAccount
  <2>2. CASE SubmitClaim(w)
    <3>1. entry' = [entry EXCEPT ![e] = i]
      BY <2>2 DEF SubmitClaim
    <3> HIDE DEF i
    <3>2. after = i /\ \A y \in Entries : y # e => entry'[y] = entry[y]
      BY <1>2, <3>1 DEF TypeOK
    <3> QED
      BY <2>1, <3>2
  <2>3. CASE SubmitUnstake(w) /\ BeginCooldown(w)
    <3> DEFINE j == [i EXCEPT !.cooldown_start_seconds = now]
    <3>1. entry' = [entry EXCEPT ![e] = j]
      BY <2>3 DEF BeginCooldown
    <3>2. j.total_stake_seconds = i.total_stake_seconds
      <4> HIDE DEF i
      <4> QED
        BY <1>2 DEF EntryAccount
    <3> HIDE DEF i, j
    <3>3. after = j /\ \A y \in Entries : y # e => entry'[y] = entry[y]
      BY <1>2, <3>1 DEF TypeOK
    <3> QED
      BY <2>1, <3>2, <3>3
  <2>4. CASE SubmitUnstake(w) /\ EndStake(w)
    <3>1. entry' = [entry EXCEPT ![e] = AfterUnstake(i, reset)]
      BY <2>4 DEF EndStake
    <3>2. reset \in BOOLEAN
      <4>1. pool[PoolOf(e)] \in PoolAccount
        BY <1>2, <2>4, StakePoolAssumption DEF SubmitUnstake, TypeOK, PoolOf
      <4> QED
        BY <4>1 DEF PoolAccount, PoolTerms
    <3>3. AfterUnstake(i, reset).total_stake_seconds =
            IF reset THEN 0 ELSE i.total_stake_seconds + SecondsIncreased(i)
      BY <1>2, <3>2, AfterUnstakeFacts
    <3> HIDE DEF i, reset
    <3>4. /\ after = AfterUnstake(i, reset)
          /\ \A y \in Entries : y # e => entry'[y] = entry[y]
      BY <1>2, <3>1 DEF TypeOK
    <3> HIDE DEF after
    <3> QED
      BY <2>1, <3>2, <3>3, <3>4
  <2> QED
    BY <2>2, <2>3, <2>4 DEF SubmitUnstake
<1>4. CASE x # e
  <2>1. entry'[x] = entry[x] /\ reward'[r] = reward[r]
    BY <1>1, <1>2, <1>3, <1>4, ClaimsMark DEF TypeOK
  <2> QED
    BY <2>1 DEF WithinStake, StakeOf
<1>5. CASE x = e
  <2>1. entry'[x] = after
    BY <1>5
  <2>2. ASSUME reward'[r] # None
        PROVE  reward'[r].reward_seconds_received <= after.total_stake_seconds
    <3>1. reward'[r].reward_seconds_received <= i.total_stake_seconds
      BY <1>1, <1>5, <2>2, ClaimsStayWithin
    <3>2. reward'[r].reward_seconds_received \in Nat
      BY <1>1, <2>2, ClaimsKeepRewardInv DEF RewardInv, RewardTypeOK, RewardAccount
    <3>3. i.total_stake_seconds \in Nat
      BY <1>2 DEF EntryAccount
    <3>4. /\ after.total_stake_seconds \in Nat
          /\ i.total_stake_seconds <= after.total_stake_seconds
      BY <1>3, <2>1
    <3> HIDE DEF i
    <3> QED
      BY <3>1, <3>2, <3>3, <3>4
  <2> QED
    BY <2>1, <2>2 DEF WithinStake, StakeOf
<1> QED
  BY <1>4, <1>5

(* Not even a transaction that stores seconds, claims them from several    *)
(* distributors and unstakes forfeits any, unless the pool resets the entry. *)
THEOREM ClientForfeitsByResetsOnly == ClientSpec => OnlyResetsForfeit
<1>1. ASSUME TypeOK, DraftTypeOK, RewardInv, [ClientNext]_clientVars
      PROVE  ForfeitStep
  <2>1. CASE [CenterNext]_centerVars
    BY <1>1, <2>1, ForfeitNext
  <2>2. ASSUME NEW w \in Clients, ClientStep(w)
        PROVE  ForfeitStep
    <3>1. CASE UNCHANGED centerVars
      BY <1>1, <3>1, ForfeitNext
    <3>2. CASE SubmitStake(w) \/ SubmitUnstake(w) \/ SubmitClaim(w)
      BY <1>1, <3>2, ForfeitOfStake, ForfeitOfClaims DEF ForfeitStep
    <3> QED
      BY <2>2, <3>1, <3>2
         DEF ClientStep, BuildStake, BuildUnstake, BuildClaim, Build, Expire
  <2> QED
    BY <1>1, <2>1, <2>2 DEF ClientNext, clientVars, MoveToken
<1>2. TypeOK /\ DraftTypeOK /\ RewardInv /\ [ClientNext]_clientVars
        => [ForfeitStep]_centerVars
  BY <1>1
<1>3. ClientSpec => [][ForfeitStep]_centerVars
  BY <1>2, ClientRewardInvariant, PTL DEF ClientSpec
<1> QED
  BY <1>3 DEF OnlyResetsForfeit, ForfeitStep

-----------------------------------------------------------------------------
(* What the instructions of a transaction may write.                       *)

LEMMA Writes ==
    ASSUME NEW i, NEW n \in DOMAIN Idl[i].accounts,
           Idl[i].accounts[n].writable, Program[i].accounts[n].writable
    PROVE  Idl[i].accounts[n].name \in WritableBy(i)
BY DEF WritableBy

LEMMA StakeWrites ==
    {"stakePool", "stakeEntry", "stakeTokenRecordAccount", "user"}
        \subseteq WritableBy("stakePnft")
<1> DEFINE i == "stakePnft"
<1>1. Idl[i] = stakePnft /\ Program[i] = Ix(StakePNFTCtx, <<>>)
  BY DEF Idl, Program
<1>2. ASSUME NEW n \in {1, 2, 6, 8}
      PROVE  /\ n \in DOMAIN Idl[i].accounts
             /\ Idl[i].accounts[n].writable /\ Program[i].accounts[n].writable
  BY <1>1 DEF stakePnft, StakePNFTCtx, Ix, Mut, MutSigner, Read, Account
<1>3. /\ Idl[i].accounts[1].name = "stakePool"
      /\ Idl[i].accounts[2].name = "stakeEntry"
      /\ Idl[i].accounts[6].name = "stakeTokenRecordAccount"
      /\ Idl[i].accounts[8].name = "user"
  BY <1>1 DEF stakePnft, Ix, Mut, MutSigner, Account
<1> QED
  BY <1>2, <1>3, Writes

LEMMA UnstakeWrites ==
    {"stakePool", "stakeEntry", "stakeTokenRecordAccount", "user"}
        \subseteq WritableBy("unstakePnft")
<1> DEFINE i == "unstakePnft"
<1>1. Idl[i] = unstakePnft /\ Program[i] = Ix(UnstakePNFTCtx, <<>>)
  BY DEF Idl, Program
<1>2. ASSUME NEW n \in {1, 2, 6, 8}
      PROVE  /\ n \in DOMAIN Idl[i].accounts
             /\ Idl[i].accounts[n].writable /\ Program[i].accounts[n].writable
  BY <1>1 DEF unstakePnft, UnstakePNFTCtx, Ix, Mut, MutSigner, Read, Account
<1>3. /\ Idl[i].accounts[1].name = "stakePool"
      /\ Idl[i].accounts[2].name = "stakeEntry"
      /\ Idl[i].accounts[6].name = "stakeTokenRecordAccount"
      /\ Idl[i].accounts[8].name = "user"
  BY <1>1 DEF unstakePnft, Ix, Mut, MutSigner, Account
<1> QED
  BY <1>2, <1>3, Writes

LEMMA UpdateWrites == "stakeEntry" \in WritableBy("updateTotalStakeSeconds")
<1> DEFINE i == "updateTotalStakeSeconds"
<1>1. /\ Idl[i] = updateTotalStakeSeconds
      /\ Program[i] = Ix(UpdateTotalStakeSecondsCtx, <<>>)
  BY DEF Idl, Program
<1>2. /\ 1 \in DOMAIN Idl[i].accounts
      /\ Idl[i].accounts[1].writable /\ Program[i].accounts[1].writable
      /\ Idl[i].accounts[1].name = "stakeEntry"
  BY <1>1 DEF updateTotalStakeSeconds, UpdateTotalStakeSecondsCtx, Ix, Mut, MutSigner,
     Account
<1> QED
  BY <1>2, Writes

LEMMA ClaimWrites ==
    {"rewardEntry", "rewardDistributor", "userRewardMintTokenAccount",
     "rewardDistributorTokenAccount", "user"} \subseteq WritableBy("claimRewards")
<1> DEFINE i == "claimRewards"
<1>1. Idl[i] = claimRewards /\ Program[i] = Ix(ClaimRewardsCtx, <<>>)
  BY DEF Idl, Program
<1>2. ASSUME NEW n \in {1, 2, 6, 7, 8}
      PROVE  /\ n \in DOMAIN Idl[i].accounts
             /\ Idl[i].accounts[n].writable /\ Program[i].accounts[n].writable
  BY <1>1 DEF claimRewards, ClaimRewardsCtx, Ix, Mut, MutSigner, Read, Account
<1>3. /\ Idl[i].accounts[1].name = "rewardEntry"
      /\ Idl[i].accounts[2].name = "rewardDistributor"
      /\ Idl[i].accounts[6].name = "userRewardMintTokenAccount"
      /\ Idl[i].accounts[7].name = "rewardDistributorTokenAccount"
      /\ Idl[i].accounts[8].name = "user"
  BY <1>1 DEF claimRewards, Ix, Mut, MutSigner, Account
<1> QED
  BY <1>2, <1>3, Writes

(* Of the instructions that move a token only those for pNFTs are taken.   *)
LEMMA OnlyPnftsMove ==
    ASSUME NEW e \in Entries
    PROVE  /\ Accepted(StakeCall[Standard[MintOf(e)]]) =>
                  StakeCall[Standard[MintOf(e)]] = "stakePnft"
           /\ Accepted(UnstakeCall[Standard[MintOf(e)]]) =>
                  UnstakeCall[Standard[MintOf(e)]] = "unstakePnft"
<1>1. MintOf(e) \in Mints
  BY StakePoolAssumption DEF MintOf
<1>2. Standard[MintOf(e)] \in {"pnft", "ccs", "edition"}
  BY <1>1, ClientAssumption
<1>3. \A i \in {"stakeCcs", "stakeEdition", "unstakeCcs", "unstakeEdition"} : ~Accepted(i)
  BY InterfaceAssumption DEF NotDispatched
<1> QED
  BY <1>2, <1>3 DEF StakeCall, UnstakeCall

(* A transaction without claims leaves the reward accounts alone, and pays *)
(* nothing for claims.                                                     *)
LEMMA NoClaims ==
    ASSUME RewardInv, NEW b, Claims(b), b.claims = {}
    PROVE  UNCHANGED rewardVars
<1>1. Charged(b) = {}
  BY DEF Charged
<1>2. treasury' = [d \in Distributors |-> treasury[d] - 0]
  BY <1>1 DEF Claims
<1>3. treasury' = treasury
  BY <1>2 DEF RewardInv, RewardTypeOK
<1>4. distributor' = distributor /\ reward' = reward /\ tokens' = tokens
  BY DEF Claims, RewardInv, RewardTypeOK
<1> QED
  BY <1>3, <1>4 DEF rewardVars

Declared(w) == Changed \subseteq UNION {WritableBy(i) : i \in Calls(draft[w])}

LEMMA StakeDeclared ==
    ASSUME DraftTypeOK, NEW w \in Clients, SubmitStake(w)
    PROVE  Declared(w)
<1> DEFINE i == StakeCall[Standard[MintOf(draft[w].entry)]]
<1>1. /\ draft[w] # None /\ draft[w].kind = "stake"
      /\ \A c \in Calls(draft[w]) : Accepted(c)
      /\ UNCHANGED rewardVars
  BY DEF SubmitStake, Submitted
<1>2. i \in Calls(draft[w])
  BY <1>1 DEF Calls
<1>3. i = "stakePnft"
  BY <1>1, <1>2, DraftParts, OnlyPnftsMove
<1>4. Changed \subseteq {"stakePool", "stakeEntry", "stakeTokenRecordAccount", "user"}
  BY <1>1 DEF Changed, rewardVars
<1> HIDE DEF i
<1> QED
  BY <1>2, <1>3, <1>4, StakeWrites DEF Declared

(* What the claims of a transaction change is declared by claimRewards. *)
LEMMA ClaimsDeclared ==
    ASSUME RewardInv, DraftTypeOK, NEW w \in Clients, draft[w] # None,
           draft[w].kind # "stake", Claims(draft[w])
    PROVE  Changed \ {"stakePool", "stakeEntry", "stakeTokenRecordAccount", "user"}
               \subseteq UNION {WritableBy(i) : i \in Calls(draft[w])}
<1>1. CASE draft[w].claims = {}
  BY <1>1, NoClaims DEF Changed, rewardVars
<1>2. CASE draft[w].claims # {}
  <2>1. "claimRewards" \in Calls(draft[w])
    BY <1>2 DEF Calls
  <2>2. Changed \ {"stakePool", "stakeEntry", "stakeTokenRecordAccount", "user"}
            \subseteq WritableBy("claimRewards")
    BY ClaimWrites DEF Changed
  <2> QED
    BY <2>1, <2>2
<1> QED
  BY <1>1, <1>2

LEMMA UnstakeDeclared ==
    ASSUME RewardInv, DraftTypeOK, NEW w \in Clients, SubmitUnstake(w)
    PROVE  Declared(w)
<1> DEFINE i == UnstakeCall[Standard[MintOf(draft[w].entry)]]
<1>1. /\ draft[w] # None /\ draft[w].kind = "unstake"
      /\ \A c \in Calls(draft[w]) : Accepted(c)
      /\ Claims(draft[w])
  BY DEF SubmitUnstake, Submitted
<1>2. i \in Calls(draft[w])
  BY <1>1 DEF Calls
<1>3. i = "unstakePnft"
  BY <1>1, <1>2, DraftParts, OnlyPnftsMove
<1>4. {"stakePool", "stakeEntry", "stakeTokenRecordAccount", "user"}
          \subseteq UNION {WritableBy(c) : c \in Calls(draft[w])}
  <2> HIDE DEF i
  <2> QED
    BY <1>2, <1>3, UnstakeWrites
<1>5. Changed \ {"stakePool", "stakeEntry", "stakeTokenRecordAccount", "user"}
          \subseteq UNION {WritableBy(c) : c \in Calls(draft[w])}
  BY <1>1, ClaimsDeclared
<1> QED
  BY <1>4, <1>5 DEF Declared

LEMMA ClaimDeclared ==
    ASSUME TypeOK, RewardInv, DraftTypeOK, NEW w \in Clients, SubmitClaim(w)
    PROVE  Declared(w)
<1> DEFINE b == draft[w]
           granted == UNION {WritableBy(c) : c \in Calls(b)}
<1>1. /\ draft[w] # None /\ b.kind = "claim"
      /\ Claims(b)
      /\ Charge(w, ChargedLists(b), Cardinality(Charged(b)))
      /\ entry' = [entry EXCEPT ![b.entry] = Updated(b)]
      /\ pool' = pool /\ token' = token
  BY DEF SubmitClaim, Submitted
<1>2. w \in Users /\ b.updates \in BOOLEAN /\ b.entry \in Entries
  BY <1>1, DraftParts
<1>3. Changed \ {"stakePool", "stakeEntry", "stakeTokenRecordAccount", "user"}
          \subseteq granted
  BY <1>1, ClaimsDeclared
<1>4. entry' # entry => "stakeEntry" \in granted
  <2> SUFFICES ASSUME entry' # entry
               PROVE  "stakeEntry" \in granted
    OBVIOUS
  <2>1. b.updates
    BY <1>1, <1>2 DEF Updated, TypeOK
  <2>2. "updateTotalStakeSeconds" \in Calls(b)
    BY <1>1, <2>1 DEF Calls
  <2> QED
    BY <2>2, UpdateWrites
<1>5. funds' # funds => "user" \in granted
  <2> SUFFICES ASSUME funds' # funds
               PROVE  "user" \in granted
    OBVIOUS
  <2>1. b.claims # {}
    <3> SUFFICES ASSUME b.claims = {}
                 PROVE  FALSE
      OBVIOUS
    <3>1. Cardinality(Charged(b)) = 0
      BY FS_EmptySet DEF Charged
    <3>2. Cost(0) = 0
      BY DEF Cost, TypeOK, PaymentAccount
    <3>3. funds' = [funds EXCEPT ![w] = @ - 0]
      BY <1>1, <3>1, <3>2 DEF Charge
    <3>4. funds[w] - 0 = funds[w]
      BY <1>2 DEF TypeOK
    <3> QED
      BY <1>2, <3>3, <3>4 DEF TypeOK
  <2>2. "claimRewards" \in Calls(b)
    BY <1>1, <2>1 DEF Calls
  <2> QED
    BY <2>2, ClaimWrites
<1>6. "stakePool" \notin Changed /\ "stakeTokenRecordAccount" \notin Changed
  BY <1>1 DEF Changed
<1>7. /\ "stakeEntry" \in Changed => entry' # entry
      /\ "user" \in Changed => funds' # funds
  BY DEF Changed
<1> QED
  BY <1>3, <1>4, <1>5, <1>6, <1>7 DEF Declared

(* A transaction of the SDK changes no account that the instructions it    *)
(* holds do not declare as writable, on the side of the IDL and on that of *)
(* the program.                                                            *)
THEOREM ClientChangesAreDeclared == ClientSpec => ChangesAreDeclared
<1> DEFINE Step ==
        \A w \in Clients : GoesThrough(w) =>
            Changed \subseteq UNION {WritableBy(i) : i \in Calls(draft[w])}
<1>1. TypeOK /\ DraftTypeOK /\ RewardInv /\ [ClientNext]_clientVars => [Step]_clientVars
  BY WhatGoesThrough, StakeDeclared, UnstakeDeclared, ClaimDeclared DEF Declared
<1> HIDE DEF Step
<1>2. ClientSpec => [][Step]_clientVars
  BY <1>1, ClientRewardInvariant, PTL DEF ClientSpec
<1> QED
  BY <1>2 DEF ChangesAreDeclared, Step

-----------------------------------------------------------------------------
(* No entry is credited from a time in the future, also when pools share   *)
(* tokens.                                                                 *)

LEMMA ClockOfStake ==
    ASSUME TypeOK, NEW s \in EntryAccount, EntryClock(s), NEW u \in Users
    PROVE  AfterStake(s, u) \in EntryAccount /\ EntryClock(AfterStake(s, u))
<1> DEFINE i == AfterStake(s, u)
<1>1. now \in Nat
  BY DEF TypeOK
<1>2. /\ i \in EntryAccount /\ i.last_updated_at = now
      /\ s.amount = 0 => i.cooldown_start_seconds = s.cooldown_start_seconds
  BY AfterStakeFacts
<1>3. s.amount # 0 => i.cooldown_start_seconds = None
  <2> DEFINE j == IncrementTotalStakeSeconds(s)
  <2>1. j \in EntryAccount
    BY IncrementFacts
  <2> HIDE DEF j
  <2> QED
    BY <2>1 DEF AfterStake, EntryAccount, j
<1> HIDE DEF i
<1>4. EntryClock(i)
  BY <1>1, <1>2, <1>3 DEF EntryClock
<1> QED
  BY <1>2, <1>4 DEF i

LEMMA ClockOfUnstake ==
    ASSUME TypeOK, NEW s \in EntryAccount, NEW reset \in BOOLEAN
    PROVE  /\ AfterUnstake(s, reset) \in EntryAccount
           /\ EntryClock(AfterUnstake(s, reset))
<1>1. now \in Nat
  BY DEF TypeOK
<1> QED
  BY <1>1, AfterUnstakeFacts DEF EntryClock

LEMMA ClockOfCooldown ==
    ASSUME TypeOK, NEW s \in EntryAccount, EntryClock(s)
    PROVE  /\ [s EXCEPT !.cooldown_start_seconds = now] \in EntryAccount
           /\ EntryClock([s EXCEPT !.cooldown_start_seconds = now])
<1>1. now \in Nat
  BY DEF TypeOK
<1> QED
  BY <1>1 DEF EntryClock, EntryAccount

LEMMA ClockEntryStep ==
    ASSUME TypeOK, ClockInv, NEW u \in Users, EntryStep(u)
    PROVE  ClockInv'
<1>1. PICK e \in Entries, payer \in Users :
          \/ InitEntry(e) \/ StakePNFT(u, payer, e) \/ UnstakePNFT(u, payer, e)
          \/ UpdateTotalStakeSeconds(e) \/ ResetStakeEntry(u, e) \/ CloseStakeEntry(u, e)
  BY DEF EntryStep
<1>2. now \in Nat
  BY DEF TypeOK
<1> DEFINE s == entry[e]
<1>3. s # None => s \in EntryAccount /\ EntryClock(s)
  BY DEF TypeOK, ClockInv
<1>4. CASE InitEntry(e)
  <2> DEFINE i == [amount |-> 0, last_staker |-> None, last_staked_at |-> 0,
                   last_updated_at |-> 0, total_stake_seconds |-> 0,
                   cooldown_start_seconds |-> None]
  <2>1. i \in EntryAccount /\ EntryClock(i)
    BY <1>2 DEF EntryAccount, EntryClock
  <2>2. EntryBecomes(e, i)
    BY <1>4 DEF InitEntry, EntryBecomes
  <2> HIDE DEF i
  <2> QED
    BY <2>1, <2>2, ClockUpdate
<1>5. CASE StakePNFT(u, payer, e)
  <2>1. s # None /\ EntryBecomes(e, AfterStake(s, u))
    BY <1>5 DEF StakePNFT, EntryBecomes
  <2> QED
    BY <1>3, <2>1, ClockOfStake, ClockUpdate
<1>6. CASE UnstakePNFT(u, payer, e)
  <2>1. s # None /\ pool[PoolOf(e)] # None /\ now' = now
    BY <1>6 DEF UnstakePNFT
  <2>2. CASE StartCooldown(e)
    <3> DEFINE i == [s EXCEPT !.cooldown_start_seconds = now]
    <3>1. EntryBecomes(e, i)
      BY <2>1, <2>2 DEF StartCooldown, EntryBecomes
    <3>2. i \in EntryAccount /\ EntryClock(i)
      BY <1>3, <2>1, ClockOfCooldown
    <3> HIDE DEF i
    <3> QED
      BY <3>1, <3>2, ClockUpdate
  <2>3. CASE CompleteUnstake(u, payer, e)
    <3> DEFINE reset == pool[PoolOf(e)].terms.reset_on_unstake
    <3>1. reset \in BOOLEAN
      BY <2>1, StakePoolAssumption DEF TypeOK, PoolOf, PoolAccount, PoolTerms
    <3>2. EntryBecomes(e, AfterUnstake(s, reset))
      BY <2>1, <2>3 DEF CompleteUnstake, EntryBecomes
    <3> HIDE DEF reset
    <3> QED
      BY <1>3, <2>1, <3>1, <3>2, ClockOfUnstake, ClockUpdate
  <2> QED
    BY <1>6, <2>2, <2>3 DEF UnstakePNFT
<1>7. CASE UpdateTotalStakeSeconds(e)
  <2> DEFINE i == IncrementTotalStakeSeconds(s)
  <2>1. s # None /\ EntryBecomes(e, i)
    BY <1>7 DEF UpdateTotalStakeSeconds, EntryBecomes
  <2>2. i \in EntryAccount /\ EntryClock(i)
    BY <1>2, <1>3, <2>1, IncrementFacts DEF EntryClock
  <2> HIDE DEF i
  <2> QED
    BY <2>1, <2>2, ClockUpdate
<1>8. CASE ResetStakeEntry(u, e)
  <2> DEFINE i == [s EXCEPT !.total_stake_seconds = 0, !.last_updated_at = now,
                            !.last_staked_at = now, !.cooldown_start_seconds = None]
  <2>1. s # None /\ EntryBecomes(e, i)
    BY <1>8 DEF ResetStakeEntry, EntryBecomes
  <2>2. i \in EntryAccount
    BY <1>2, <1>3, <2>1 DEF EntryAccount
  <2>3. i.last_updated_at = now /\ i.cooldown_start_seconds = None
    BY <1>3, <2>1 DEF EntryAccount
  <2>4. EntryClock(i)
    BY <1>2, <2>3 DEF EntryClock
  <2> HIDE DEF i
  <2> QED
    BY <2>1, <2>2, <2>4, ClockUpdate
<1>9. CASE CloseStakeEntry(u, e)
  <2> SUFFICES ASSUME NEW f \in Entries, entry'[f] # None
               PROVE  EntryClock(entry[f])'
    BY DEF ClockInv
  <2>1. entry'[f] = entry[f] /\ now' = now
    BY <1>9 DEF CloseStakeEntry, TypeOK
  <2> QED
    BY <2>1 DEF EntryClock, ClockInv
<1> QED
  BY <1>1, <1>4, <1>5, <1>6, <1>7, <1>8, <1>9

LEMMA ClockCenterNext ==
    ASSUME TypeOK, ClockInv, [CenterNext]_centerVars
    PROVE  ClockInv'
<1>1. CASE UNCHANGED <<entry, now>>
  BY <1>1 DEF ClockInv, EntryClock
<1>2. CASE Tick
  <2> SUFFICES ASSUME NEW f \in Entries, entry'[f] # None
               PROVE  EntryClock(entry[f])'
    BY DEF ClockInv
  <2>1. entry[f] \in EntryAccount /\ EntryClock(entry[f]) /\ now \in Nat
    BY <1>2 DEF Tick, TypeOK, ClockInv
  <2> QED
    BY <1>2, <2>1 DEF Tick, EntryClock, EntryAccount
<1>3. ASSUME NEW u \in Users, EntryStep(u)
      PROVE  ClockInv'
  BY <1>3, ClockEntryStep
<1>4. CASE RewardNext
  BY <1>1, <1>4, RewardKeepsStakes DEF stakeVars
<1> QED
  BY <1>1, <1>2, <1>3, <1>4 DEF CenterNext, centerVars, vars, Next, PoolStep, InitDiscount,
     InitPool, UpdatePool, CloseStakePool, AuthorizeMint, DeauthorizeMint, TransferToken,
     SetPaymentInfo

LEMMA ClockClientNext ==
    ASSUME TypeOK, DraftTypeOK, ClockInv, [ClientNext]_clientVars
    PROVE  ClockInv'
<1>1. CASE [CenterNext]_centerVars
  BY <1>1, ClockCenterNext
<1>2. ASSUME NEW w \in Clients, SubmitStake(w)
      PROVE  ClockInv'
  <2> DEFINE b == draft[w]
             e == b.entry
             s == IF b.opens THEN NewEntry ELSE entry[e]
  <2>1. draft[w] # None /\ b.kind = "stake"
    BY <1>2 DEF SubmitStake, Submitted
  <2>2. w \in Users /\ e \in Entries
    BY <2>1, DraftParts
  <2>3. (b.opens <=> entry[e] = None) /\ EntryBecomes(e, AfterStake(s, w))
    BY <1>2 DEF SubmitStake, EntryBecomes
  <2>4. NewEntry \in EntryAccount /\ EntryClock(NewEntry)
    BY DEF NewEntry, EntryAccount, EntryClock, TypeOK
  <2>5. s \in EntryAccount /\ EntryClock(s)
    BY <2>2, <2>3, <2>4 DEF TypeOK, ClockInv
  <2> HIDE DEF s
  <2> QED
    BY <2>2, <2>3, <2>5, ClockOfStake, ClockUpdate
<1>3. ASSUME NEW w \in Clients, SubmitUnstake(w) \/ SubmitClaim(w)
      PROVE  ClockInv'
  <2> DEFINE b == draft[w]
             e == b.entry
             s == Updated(b)
             reset == pool[PoolOf(e)].terms.reset_on_unstake
  <2>1. draft[w] # None /\ b.kind # "stake" /\ CanUpdate(b) /\ now' = now
    BY <1>3 DEF SubmitUnstake, SubmitClaim, Submitted
  <2>2. e \in Entries /\ b.updates \in BOOLEAN
    BY <2>1, DraftParts
  <2>3. s \in EntryAccount /\ EntryClock(s)
    BY <2>1, <2>2, UpdatedFacts
  <2>4. CASE SubmitClaim(w)
    <3>1. EntryBecomes(e, s)
      BY <2>1, <2>4 DEF SubmitClaim, EntryBecomes
    <3> HIDE DEF s
    <3> QED
      BY <2>2, <2>3, <3>1, ClockUpdate
  <2>5. CASE SubmitUnstake(w) /\ BeginCooldown(w)
    <3> DEFINE i == [s EXCEPT !.cooldown_start_seconds = now]
    <3>1. EntryBecomes(e, i)
      BY <2>1, <2>5 DEF BeginCooldown, EntryBecomes
    <3> HIDE DEF s
    <3>2. i \in EntryAccount /\ EntryClock(i)
      BY <2>3, ClockOfCooldown
    <3> HIDE DEF i
    <3> QED
      BY <2>2, <3>1, <3>2, ClockUpdate
  <2>6. CASE SubmitUnstake(w) /\ EndStake(w)
    <3>1. pool[PoolOf(e)] # None
      BY <2>6 DEF SubmitUnstake
    <3>2. reset \in BOOLEAN
      BY <2>2, <3>1, StakePoolAssumption DEF TypeOK, PoolOf, PoolAccount, PoolTerms
    <3>3. EntryBecomes(e, AfterUnstake(s, reset))
      BY <2>1, <2>6 DEF EndStake, EntryBecomes
    <3> HIDE DEF s, reset
    <3> QED
      BY <2>2, <2>3, <3>2, <3>3, ClockOfUnstake, ClockUpdate
  <2> QED
    BY <1>3, <2>4, <2>5, <2>6 DEF SubmitUnstake
<1>4. ASSUME NEW w \in Clients, ClientStep(w)
      PROVE  ClockInv'
  <2>1. CASE UNCHANGED centerVars
    BY <2>1, ClockCenterNext
  <2> QED
    BY <1>2, <1>3, <1>4, <2>1
       DEF ClientStep, BuildStake, BuildUnstake, BuildClaim, Build, Expire
<1> QED
  BY <1>1, <1>4 DEF ClientNext, clientVars, MoveToken

-----------------------------------------------------------------------------
(* The estimate of the SDK, which divides toward zero, against the claim    *)
(* of the program, which pays nothing below one unpaid second.             *)

(* The tokens the SDK shows for unpaid seconds, of which there may be less *)
(* than none. *)
Estimate(unpaid, dur, rate, multiplier, scale) ==
    TruncDiv(TruncDiv(unpaid, dur) * rate * multiplier, scale)

(* The tokens the program owes for unpaid seconds. *)
Owed(unpaid, dur, rate, multiplier, scale) ==
    (((unpaid \div dur) * rate) * multiplier) \div scale

LEMMA EstimateOfDue ==
    ASSUME NEW unpaid \in Nat, NEW dur \in Nat \ {0}, NEW rate \in Nat,
           NEW multiplier \in Nat, NEW scale \in Nat \ {0}
    PROVE  /\ Estimate(unpaid, dur, rate, multiplier, scale) =
                  Owed(unpaid, dur, rate, multiplier, scale)
           /\ Estimate(unpaid, dur, rate, multiplier, scale) \in Nat
           /\ unpaid = 0 => Estimate(unpaid, dur, rate, multiplier, scale) = 0
<1> DEFINE k == unpaid \div dur
           g == k * rate * multiplier
<1>1. k \in Nat /\ TruncDiv(unpaid, dur) = k
  BY DEF TruncDiv
<1>2. unpaid = 0 => k = 0
  OBVIOUS
<1> HIDE DEF k
<1>3. g \in Nat /\ (k = 0 => g = 0)
  <2>1. k * rate \in Nat
    BY <1>1
  <2>2. k = 0 => g = 0
    BY <1>1
  <2> QED
    BY <2>1, <2>2
<1> HIDE DEF g
<1>4. TruncDiv(g, scale) = g \div scale /\ g \div scale \in Nat
      /\ (g = 0 => g \div scale = 0)
  BY <1>3 DEF TruncDiv
<1>5. Estimate(unpaid, dur, rate, multiplier, scale) = g \div scale
  BY <1>1, <1>4 DEF Estimate, g
<1>6. Owed(unpaid, dur, rate, multiplier, scale) = g \div scale
  BY DEF Owed, g, k
<1> QED
  BY <1>2, <1>3, <1>4, <1>5, <1>6

LEMMA EstimateOfOverpaid ==
    ASSUME NEW unpaid \in Int, unpaid < 0, NEW dur \in Nat \ {0}, NEW rate \in Nat,
           NEW multiplier \in Nat, NEW scale \in Nat \ {0}
    PROVE  /\ Estimate(unpaid, dur, rate, multiplier, scale) \in Int
           /\ Estimate(unpaid, dur, rate, multiplier, scale) <= 0
<1> DEFINE k == (-unpaid) \div dur
           h == k * rate * multiplier
           g == (-k) * rate * multiplier
<1>1. k \in Nat /\ TruncDiv(unpaid, dur) = -k
  BY DEF TruncDiv
<1> HIDE DEF k
<1>2. h \in Nat /\ g = -h
  <2>1. k * rate \in Nat /\ (-k) * rate = -(k * rate)
    BY <1>1
  <2> DEFINE x == k * rate
  <2> HIDE DEF x
  <2>2. x \in Nat /\ (-k) * rate = -x
    BY <2>1 DEF x
  <2>3. x * multiplier \in Nat /\ (-x) * multiplier = -(x * multiplier)
    BY <2>2
  <2> QED
    BY <2>2, <2>3 DEF x
<1>3. Estimate(unpaid, dur, rate, multiplier, scale) = TruncDiv(g, scale)
  BY <1>1 DEF Estimate
<1> HIDE DEF g, h
<1>4. TruncDiv(g, scale) \in Int /\ TruncDiv(g, scale) <= 0
  <2>1. h \div scale \in Nat /\ 0 \div scale = 0
    BY <1>2
  <2>2. CASE h = 0
    <3>1. g = 0
      <4>1. g + h = 0 /\ g \in Int
        BY <1>2
      <4> QED
        BY <2>2, <4>1
    <3>2. TruncDiv(0, scale) = 0
      BY <2>1 DEF TruncDiv
    <3> QED
      BY <3>1, <3>2
  <2>3. CASE h # 0
    <3>1. g < 0 /\ -g = h
      BY <1>2, <2>3
    <3> QED
      BY <2>1, <3>1 DEF TruncDiv
  <2> QED
    BY <2>2, <2>3
<1> QED
  BY <1>3, <1>4

(* Where it is exact, the SDK counts the seconds an update would store.    *)
LEMMA EstimatedSeconds ==
    ASSUME TypeOK, NEW s \in EntryAccount, EntryClock(s),
           s.last_updated_at = s.last_staked_at, s.cooldown_start_seconds = None
    PROVE  /\ (now - s.last_staked_at) * s.amount + s.total_stake_seconds
                    = ElapsedSeconds(s)
           /\ ElapsedSeconds(s) \in Nat
<1> DEFINE since == now - s.last_staked_at
           total == s.total_stake_seconds
           x == SaturatingSub(now, s.last_updated_at)
           y == x * s.amount
<1>1. /\ now \in Nat /\ s.last_updated_at \in Nat /\ s.last_updated_at <= now
      /\ s.amount \in Nat /\ total \in Nat
  BY DEF TypeOK, EntryAccount, EntryClock
<1>2. x = since /\ x \in Nat
  BY <1>1 DEF SaturatingSub
<1>3. ElapsedSeconds(s) = total + y
  BY DEF ElapsedSeconds, SecondsIncreased
<1> HIDE DEF x, since, total
<1>4. y \in Nat /\ since * s.amount = y
  BY <1>1, <1>2
<1> HIDE DEF y
<1>5. /\ since * s.amount + total = ElapsedSeconds(s)
      /\ ElapsedSeconds(s) \in Nat
  BY <1>1, <1>3, <1>4
<1> QED
  BY <1>5 DEF since, total

LEMMA PendingIsExact ==
    ASSUME TypeOK, RewardInv, NEW d \in Distributors, NEW e \in Entries,
           <<d, e>> \in RewardEntries, Estimated(d, e),
           entry[e].last_updated_at = entry[e].last_staked_at,
           EntryClock(entry[e])
    PROVE  IsExact(d, e)
<1> DEFINE s == entry[e]
           t == distributor[d].terms
           r == reward[<<d, e>>]
           max == t.max_reward_seconds_received
           dur == t.reward_duration_seconds
           rate == t.reward_amount
           scale == Scale(t)
           received == IF r = None THEN 0 ELSE r.reward_seconds_received
           multiplier == IF r = None THEN t.default_multiplier ELSE r.multiplier
           unpaid == UnpaidNow(d, e)
           shown == Estimate(unpaid, dur, rate, multiplier, scale)
           held == treasury[d]
<1>1. /\ s \in EntryAccount /\ distributor[d] # None /\ dur > 0
      /\ s.cooldown_start_seconds = None /\ s.last_staker # None
  BY DEF Estimated, TypeOK
<1>2. t \in RewardTerms /\ t \in DistributorTerms /\ scale \in Nat \ {0}
  BY <1>1, RewardDistributionAssumption, ScaleAssumption DEF RewardInv
<1>3. /\ dur \in Nat \ {0} /\ rate \in Nat /\ max \in Nat \cup {None}
      /\ t.default_multiplier \in Nat
  BY <1>1, <1>2 DEF DistributorTerms
<1>4. received \in Nat /\ multiplier \in Nat /\ held \in Nat /\ held # None
  BY <1>3, StakePoolAssumption DEF RewardInv, RewardTypeOK, RewardAccount
<1>5. ElapsedSeconds(s) \in Nat
  BY <1>1, EstimatedSeconds
<1>6. unpaid = AtMost(ElapsedSeconds(s), max) - received /\ unpaid \in Int
  <2>1. unpaid = AtMost(ElapsedSeconds(s), max) - received
    BY <1>1 DEF UnpaidNow, ClaimableSeconds
  <2>2. AtMost(ElapsedSeconds(s), max) \in Nat
    BY <1>3, <1>5, AtMostNat
  <2> HIDE DEF unpaid, received
  <2> QED
    BY <1>4, <2>1, <2>2
<1>7. CalculatePendingRewards(d, e) = AtMost(shown, held)
  <2> DEFINE seconds == (now - s.last_staked_at) * s.amount + s.total_stake_seconds
  <2>1. seconds = ElapsedSeconds(s)
    BY <1>1, EstimatedSeconds
  <2>2. UncappedRewards(d, e) =
            TruncDiv(TruncDiv(AtMost(seconds, max) - received, dur)
                         * rate * multiplier, scale)
    BY <1>1 DEF UncappedRewards
  <2>3. UncappedRewards(d, e) = shown
    <3> HIDE DEF seconds, unpaid, dur, rate, multiplier, scale, max, received, s
    <3> QED
      BY <1>6, <2>1, <2>2 DEF Estimate
  <2> QED
    BY <2>3 DEF CalculatePendingRewards
<1>8. PayableNow(d, e) = IF unpaid > 0
          THEN AtMost(RewardDue(unpaid, t, multiplier), held) ELSE 0
  BY DEF PayableNow, Payable
<1>9. RewardDue(unpaid, t, multiplier) = Owed(unpaid, dur, rate, multiplier, scale)
  BY DEF RewardDue, Owed
<1> DEFINE due == RewardDue(unpaid, t, multiplier)
<1>10. unpaid >= 0 => shown = due /\ shown \in Nat /\ (unpaid = 0 => shown = 0)
  <2> HIDE DEF unpaid, dur, rate, multiplier, scale, shown, due
  <2> SUFFICES ASSUME unpaid >= 0
               PROVE  shown = due /\ shown \in Nat /\ (unpaid = 0 => shown = 0)
    OBVIOUS
  <2>1. unpaid \in Nat
    BY <1>6
  <2>2. scale \in Nat \ {0} /\ dur \in Nat \ {0} /\ rate \in Nat /\ multiplier \in Nat
    BY <1>2, <1>3, <1>4
  <2> QED
    BY <1>9, <2>1, <2>2, EstimateOfDue DEF shown, due
<1>11. unpaid < 0 => shown \in Int /\ shown <= 0
  <2> HIDE DEF unpaid, dur, rate, multiplier, scale, shown
  <2> QED
    BY <1>2, <1>3, <1>4, <1>6, EstimateOfOverpaid DEF shown
<1> DEFINE pending == CalculatePendingRewards(d, e)
<1>12. (IF pending < 0 THEN 0 ELSE pending) = PayableNow(d, e)
  <2> HIDE DEF unpaid, shown, held, due, pending
  <2>1. pending = IF held < shown THEN held ELSE shown
    BY <1>4, <1>7 DEF AtMost, pending
  <2>2. PayableNow(d, e) = IF unpaid > 0
            THEN IF held < due THEN held ELSE due ELSE 0
    BY <1>4, <1>8 DEF AtMost, due
  <2>3. CASE unpaid > 0
    <3>1. shown = due /\ shown \in Nat
      BY <1>6, <1>10, <2>3
    <3>2. pending \in Nat /\ pending = PayableNow(d, e)
      BY <1>4, <2>1, <2>2, <2>3, <3>1
    <3> QED
      BY <3>2
  <2>4. CASE unpaid = 0
    <3>1. shown = 0
      BY <1>10, <2>4
    <3>2. pending = 0 /\ PayableNow(d, e) = 0
      BY <1>4, <2>1, <2>2, <2>4, <3>1
    <3> QED
      BY <3>2
  <2>5. CASE unpaid < 0
    <3>1. pending = shown /\ PayableNow(d, e) = 0
      BY <1>4, <1>6, <1>11, <2>1, <2>2, <2>5
    <3> QED
      BY <1>11, <2>5, <3>1
  <2> QED
    BY <1>6, <2>3, <2>4, <2>5
<1> QED
  BY <1>12 DEF IsExact

(* For a stake no update has credited yet, which is one the program would  *)
(* update and let claim at this moment, the estimate is exact for every    *)
(* setting of the rates, however seconds and tokens are rounded, and also  *)
(* when more seconds were received than the entry still holds.             *)
THEOREM PendingRewardsAreExact == ClientSpec => []PendingExact
<1>1. TypeOK /\ RewardInv /\ ClockInv => PendingExact
  <2> SUFFICES ASSUME TypeOK, RewardInv, ClockInv, NEW r \in RewardEntries,
                      Estimated(DistributorOf(r), StakeOf(r)),
                      entry[StakeOf(r)].last_updated_at = entry[StakeOf(r)].last_staked_at
               PROVE  IsExact(DistributorOf(r), StakeOf(r))
    BY DEF PendingExact
  <2>1. /\ DistributorOf(r) \in Distributors /\ StakeOf(r) \in Entries
        /\ <<DistributorOf(r), StakeOf(r)>> \in RewardEntries
    BY DEF RewardEntries, DistributorOf, StakeOf
  <2>2. EntryClock(entry[StakeOf(r)])
    BY <2>1 DEF Estimated, ClockInv
  <2> QED
    BY <2>1, <2>2, PendingIsExact
<1>2. ClientSpec => []ClockInv
  <2>1. ClientInit => ClockInv
    BY DEF ClientInit, CenterInit, Init, ClockInv
  <2>2. TypeOK /\ DraftTypeOK /\ ClockInv /\ [ClientNext]_clientVars => ClockInv'
    BY ClockClientNext
  <2> QED
    BY <2>1, <2>2, ClientRewardInvariant, PTL DEF ClientSpec
<1> QED
  BY <1>1, <1>2, ClientRewardInvariant, PTL
=============================================================================
