------------------------ MODULE RewardsCenterProofs ------------------------
(***************************************************************************)
(* Proofs about the whole program: what holds of the stake pools holds of   *)
(* them beside the reward instructions, and the reward accounts keep their  *)
(* types and never pay for seconds that were not staked.                   *)
(***************************************************************************)
EXTENDS RewardsCenter, StakeLedgerProofs

-----------------------------------------------------------------------------
(* Stakes.  The reward instructions leave them alone; of the variables of   *)
(* StakePool they touch only the funds of who pays for a claim.            *)

LEMMA RewardKeepsStakes ==
    ASSUME TypeOK, RewardNext
    PROVE  UNCHANGED stakeVars /\ TypeOK'
<1>1. UNCHANGED stakeVars
  BY DEF RewardNext, DistributorStep, RewardEntryStep, InitRewardDistributor,
     UpdateRewardDistributor, CloseRewardDistributor, ReclaimFunds, FundTreasury,
     InitRewardEntry, UpdateRewardEntry, CloseRewardEntry, ClaimRewards
<1>2. ASSUME NEW u \in Users, NEW payer \in Users,
             NEW d \in Distributors, NEW r \in RewardEntries,
             ClaimRewards(u, payer, d, r)
      PROVE  funds' \in [Users -> Nat]
  BY <1>2, PaymentType DEF ClaimRewards
<1>3. funds' = funds \/ funds' \in [Users -> Nat]
  BY <1>2 DEF RewardNext, DistributorStep, RewardEntryStep, InitRewardDistributor,
     UpdateRewardDistributor, CloseRewardDistributor, ReclaimFunds, FundTreasury,
     InitRewardEntry, UpdateRewardEntry, CloseRewardEntry
<1> QED
  BY <1>1, <1>3 DEF TypeOK, stakeVars

LEMMA UnchangedStakes ==
    ASSUME CustodyInv, TypeOK', UNCHANGED stakeVars
    PROVE  CustodyInv'
<1>1. SameStakes /\ PoolsOpenedEmpty /\ PoolsClosedEmpty
  BY DEF stakeVars, SameStakes, PoolsOpenedEmpty, PoolsClosedEmpty, IsStaked,
     CustodyInv, NothingLockedForNobody
<1> QED
  BY <1>1, CustodyFrame DEF stakeVars

LEMMA CenterLedgerNext ==
    ASSUME ExclusiveEntries, LedgerInv, [CenterNext]_centerVars
    PROVE  LedgerInv' /\ LedgerStep
<1>1. CASE [Next]_vars
  BY <1>1, LedgerNext
<1>2. CASE RewardNext
  <2>1. UNCHANGED stakeVars /\ TypeOK'
    BY <1>2, RewardKeepsStakes DEF LedgerInv, CustodyInv
  <2>2. CustodyInv'
    BY <2>1, UnchangedStakes DEF LedgerInv
  <2>3. ClockInv' /\ LedgerStep
    BY <2>1, UnseenStep DEF stakeVars
  <2> QED
    BY <2>2, <2>3 DEF LedgerInv
<1> QED
  BY <1>1, <1>2 DEF CenterNext, centerVars

(* In the whole program, while rewards are configured and claimed at any   *)
(* time, every staked token stays recoverable by its staker.               *)
THEOREM CenterStakedTokensRecoverable ==
    ASSUME ExclusiveEntries
    PROVE  CenterSpec => []StakedTokenRecoverable
<1>1. CenterInit => LedgerInv
  BY LedgerInit DEF CenterInit
<1>2. LedgerInv /\ [CenterNext]_centerVars => LedgerInv'
  BY CenterLedgerNext
<1>3. LedgerInv => StakedTokenRecoverable
  BY DEF LedgerInv, CustodyInv
<1> QED
  BY <1>1, <1>2, <1>3, PTL DEF CenterSpec

(* In the whole program the stake accounts still implement the ledger.     *)
THEOREM CenterImplementsLedger ==
    ASSUME ExclusiveEntries
    PROVE  CenterSpec => ImplementsLedger
<1>1. CenterInit => LedgerInv /\ Ledger!Init
  BY LedgerInit DEF CenterInit
<1>2. LedgerInv /\ [CenterNext]_centerVars => LedgerInv' /\ [Ledger!Next]_(Ledger!vars)
  BY CenterLedgerNext DEF LedgerStep
<1> QED
  BY <1>1, <1>2, PTL DEF CenterSpec, ImplementsLedger, Ledger!Spec

-----------------------------------------------------------------------------
(* Claims.                                                                 *)

LEMMA AtMostNat ==
    ASSUME NEW n \in Nat, NEW limit \in Nat \cup {None}
    PROVE  AtMost(n, limit) \in Nat /\ AtMost(n, limit) <= n
           /\ (limit # None => AtMost(n, limit) <= limit)
BY DEF AtMost

(* Whole durations are paid for, so their seconds are no more than the     *)
(* seconds that are due, however the multiplications and divisions round.  *)
LEMMA RoundedDown ==
    ASSUME NEW seconds \in Nat, NEW dur \in Nat \ {0}, NEW rate \in Nat,
           NEW multiplier \in Nat, NEW scale \in Nat \ {0}
    PROVE  LET due == (((seconds \div dur) * rate) * multiplier) \div scale
           IN  /\ due \in Nat
               /\ \A amount \in Nat : amount <= due /\ multiplier # 0 /\ rate # 0 =>
                    LET back == (((amount * scale) \div multiplier) \div rate) * dur
                    IN  back \in Nat /\ back <= seconds
<1> DEFINE q == seconds \div dur
           g == (q * rate) * multiplier
           due == g \div scale
<1>1. q \in Nat /\ q * dur <= seconds
  OBVIOUS
<1>2. g \in Nat
  <2>1. q * rate \in Nat
    BY <1>1
  <2> QED
    BY <2>1
<1>3. due \in Nat /\ due * scale <= g
  <2> HIDE DEF g
  <2> QED
    BY <1>2
<1>4. ASSUME NEW amount \in Nat, amount <= due, multiplier # 0, rate # 0
      PROVE  LET back == (((amount * scale) \div multiplier) \div rate) * dur
             IN  back \in Nat /\ back <= seconds
  <2> DEFINE x == amount * scale
             y == x \div multiplier
             z == y \div rate
  <2> HIDE DEF due
  <2>1. x \in Nat /\ x <= due * scale
    BY <1>3, <1>4
  <2>2. x <= (q * rate) * multiplier
    BY <2>1, <1>2, <1>3
  <2> HIDE DEF x, q
  <2>3. q * rate \in Nat
    BY <1>1
  <2>4. y \in Nat /\ y * multiplier <= x
    BY <2>1, <1>4
  <2> HIDE DEF y
  <2>5. y <= q * rate
    <3> DEFINE w == q * rate
    <3>1. y * multiplier <= w * multiplier /\ w \in Nat
      BY <2>1, <2>2, <2>3, <2>4
    <3> HIDE DEF w
    <3>2. y <= w
      BY <3>1, <2>4, <1>4
    <3> QED
      BY <3>2 DEF w
  <2>6. z \in Nat /\ z * rate <= y
    BY <2>4, <1>4
  <2> HIDE DEF z
  <2>7. z <= q
    <3>1. z * rate <= q * rate /\ q \in Nat
      BY <2>3, <2>4, <2>5, <2>6, <1>1
    <3> QED
      BY <3>1, <2>6, <1>4
  <2>8. z * dur \in Nat /\ z * dur <= q * dur
    BY <2>6, <2>7, <1>1
  <2>9. z * dur <= seconds
    BY <2>6, <2>8, <1>1
  <2> QED
    BY <2>8, <2>9 DEF x, y, z
<1> QED
  BY <1>3, <1>4

(* What the reward accounts hold: values of their types, and settings an   *)
(* authority has given.                                                    *)
RewardInv ==
    /\ RewardTypeOK
    /\ \A d \in Distributors : distributor[d] # None => distributor[d].terms \in RewardTerms

LEMMA TakeType ==
    ASSUME RewardTypeOK, NEW d \in Distributors, NEW u \in Users \cup {None},
           NEW n \in Nat, n <= treasury[d], TakeFromTreasury(d, u, n)
    PROVE  /\ treasury' \in [Distributors -> Nat]
           /\ tokens' \in [Users \cup {None} -> Nat]
           /\ treasury'[d] = treasury[d] - n
           /\ tokens'[u] = tokens[u] + n
<1>1. treasury[d] \in Nat /\ tokens[u] \in Nat
  BY DEF RewardTypeOK
<1>2. treasury[d] - n \in Nat /\ tokens[u] + n \in Nat
  BY <1>1
<1> QED
  BY <1>1, <1>2 DEF RewardTypeOK, TakeFromTreasury

(* What a claim issues and marks, and that the marked seconds stay within  *)
(* those the distributor pays for.                                         *)
ClaimedAmount(d, r) ==
    LET t == distributor[d].terms
    IN  Payable(RewardDue(RewardSeconds(entry[StakeOf(r)], t)
                              - reward[r].reward_seconds_received,
                          t, reward[r].multiplier),
                treasury[d])

ClaimedSeconds(d, r) ==
    SecondsFor(ClaimedAmount(d, r), distributor[d].terms, reward[r].multiplier)

LEMMA ClaimArithmetic ==
    ASSUME TypeOK, RewardInv, NEW u \in Users, NEW payer \in Users,
           NEW d \in Distributors, NEW r \in RewardEntries, ClaimRewards(u, payer, d, r)
    PROVE  /\ ClaimedAmount(d, r) \in Nat
           /\ ClaimedAmount(d, r) <= treasury[d]
           /\ ClaimedSeconds(d, r) \in Nat
           /\ reward[r].reward_seconds_received + ClaimedSeconds(d, r)
                <= RewardSeconds(entry[StakeOf(r)], distributor[d].terms)
<1> DEFINE t == distributor[d].terms
           s == entry[StakeOf(r)]
           received == reward[r].reward_seconds_received
           multiplier == reward[r].multiplier
           unpaid == RewardSeconds(s, t) - received
           due == RewardDue(unpaid, t, multiplier)
           amount == ClaimedAmount(d, r)
           back == (((amount * Scale(t)) \div multiplier) \div t.reward_amount)
                       * t.reward_duration_seconds
<1>1. t \in RewardTerms /\ Scale(t) \in Nat \ {0}
  BY ScaleAssumption DEF ClaimRewards, RewardInv
<1>2. /\ t.reward_duration_seconds \in Nat \ {0}
      /\ t.reward_amount \in Nat
      /\ t.max_reward_seconds_received \in Nat \cup {None}
      /\ multiplier # 0 => t.reward_amount # 0
  <2>1. t \in DistributorTerms
    BY <1>1, RewardDistributionAssumption
  <2>2. t.reward_duration_seconds \in Nat /\ t.reward_amount \in Nat
        /\ t.max_reward_seconds_received \in Nat \cup {None}
    BY <2>1 DEF DistributorTerms
  <2>3. t.reward_duration_seconds > 0 /\ (multiplier # 0 => t.reward_amount > 0)
    BY DEF ClaimRewards
  <2> QED
    BY <2>2, <2>3
<1>3. received \in Nat /\ multiplier \in Nat /\ treasury[d] \in Nat
  BY DEF ClaimRewards, RewardInv, RewardTypeOK, RewardAccount
<1>4. StakeOf(r) \in Entries
  BY DEF RewardEntries, StakeOf
<1>5. s.total_stake_seconds \in Nat
  BY <1>4 DEF ClaimRewards, TypeOK, EntryAccount
<1>6. RewardSeconds(s, t) \in Nat /\ unpaid \in Nat
  <2>1. RewardSeconds(s, t) \in Nat
    BY <1>2, <1>5, AtMostNat DEF RewardSeconds
  <2>2. unpaid > 0
    BY DEF ClaimRewards
  <2> QED
    BY <2>1, <2>2, <1>3
<1>7. due \in Nat
  BY <1>1, <1>2, <1>3, <1>6, RoundedDown DEF RewardDue
<1>8. amount \in Nat /\ amount <= due /\ amount <= treasury[d]
  <2>1. amount = AtMost(due, treasury[d])
    BY DEF ClaimedAmount, Payable
  <2>2. treasury[d] # None
    BY <1>3, StakePoolAssumption
  <2> QED
    BY <2>1, <2>2, <1>3, <1>7, AtMostNat
<1>9. multiplier # 0 => back \in Nat /\ back <= unpaid
  <2> HIDE DEF t, unpaid, multiplier, amount
  <2> QED
    BY <1>1, <1>2, <1>3, <1>6, <1>8, RoundedDown DEF due, RewardDue
<1>10. ClaimedSeconds(d, r) = IF multiplier = 0 THEN 0 ELSE back
  BY DEF ClaimedSeconds, SecondsFor
<1>11. ClaimedSeconds(d, r) \in Nat /\ ClaimedSeconds(d, r) <= unpaid
  <2> HIDE DEF back, unpaid
  <2> QED
    BY <1>6, <1>9, <1>10
<1>12. received + ClaimedSeconds(d, r) <= RewardSeconds(s, t)
  <2> HIDE DEF received, s, t
  <2> QED
    BY <1>3, <1>6, <1>11 DEF unpaid
<1> QED
  BY <1>8, <1>11, <1>12

(* The accounts after a claim. *)
LEMMA ClaimResult ==
    ASSUME TypeOK, RewardInv, NEW u \in Users, NEW payer \in Users,
           NEW d \in Distributors, NEW r \in RewardEntries, ClaimRewards(u, payer, d, r)
    PROVE  LET n == ClaimedAmount(d, r)
               x == reward[r].reward_seconds_received + ClaimedSeconds(d, r)
               s == entry[StakeOf(r)]
               max == distributor[d].terms.max_reward_seconds_received
           IN  /\ RewardTypeOK'
               /\ distributor' = [distributor EXCEPT ![d].rewards_issued = @ + n]
               /\ distributor'[d].terms = distributor[d].terms
               /\ distributor'[d].rewards_issued = distributor[d].rewards_issued + n
               /\ treasury'[d] = treasury[d] - n
               /\ tokens'[s.last_staker] = tokens[s.last_staker] + n
               /\ \A q \in RewardEntries \ {r} : reward'[q] = reward[q]
               /\ reward'[r] # None
               /\ reward'[r].reward_seconds_received = x
               /\ x <= s.total_stake_seconds
               /\ max # None => x <= max
<1> DEFINE n == ClaimedAmount(d, r)
           x == reward[r].reward_seconds_received + ClaimedSeconds(d, r)
           s == entry[StakeOf(r)]
           t == distributor[d].terms
<1>1. /\ n \in Nat /\ n <= treasury[d] /\ ClaimedSeconds(d, r) \in Nat
      /\ x <= RewardSeconds(s, t)
  BY ClaimArithmetic
<1>2. /\ TakeFromTreasury(d, s.last_staker, n)
      /\ distributor' = [distributor EXCEPT ![d].rewards_issued = @ + n]
      /\ reward' = [reward EXCEPT ![r].reward_seconds_received = @ + ClaimedSeconds(d, r)]
  BY DEF ClaimRewards, ClaimedAmount, ClaimedSeconds, Marks
<1>3. /\ distributor[d] \in DistributorAccount
      /\ reward[r] \in RewardAccount
      /\ s \in EntryAccount
  BY DEF ClaimRewards, RewardInv, RewardTypeOK, TypeOK, RewardEntries, StakeOf
<1>4. s.last_staker \in Users \cup {None} /\ s.total_stake_seconds \in Nat
  BY <1>3 DEF EntryAccount
<1>5. /\ treasury' \in [Distributors -> Nat]
      /\ tokens' \in [Users \cup {None} -> Nat]
      /\ treasury'[d] = treasury[d] - n
      /\ tokens'[s.last_staker] = tokens[s.last_staker] + n
  <2> HIDE DEF n, s
  <2> QED
    BY <1>1, <1>2, <1>4, TakeType DEF RewardInv
<1> HIDE DEF n
<1> DEFINE y == [distributor[d] EXCEPT !.rewards_issued = @ + n]
           z == [reward[r] EXCEPT !.reward_seconds_received = @ + ClaimedSeconds(d, r)]
<1>6. /\ y \in DistributorAccount /\ y.terms = t
      /\ y.rewards_issued = distributor[d].rewards_issued + n
  <2>1. distributor[d].rewards_issued + n \in Nat
    BY <1>1, <1>3 DEF DistributorAccount
  <2> QED
    BY <1>3, <2>1 DEF DistributorAccount
<1>7. z \in RewardAccount /\ z.reward_seconds_received = x
  <2>1. x \in Nat
    BY <1>1, <1>3 DEF RewardAccount
  <2> QED
    BY <1>3, <2>1 DEF RewardAccount
<1>8. distributor' = [distributor EXCEPT ![d] = y] /\ reward' = [reward EXCEPT ![r] = z]
  BY <1>2
<1> HIDE DEF y, z
<1>9. /\ distributor' \in [Distributors -> DistributorAccount \cup {None}]
      /\ distributor'[d] = y
  BY <1>6, <1>8 DEF RewardInv, RewardTypeOK
<1>10. /\ reward' \in [RewardEntries -> RewardAccount \cup {None}]
       /\ reward'[r] = z
       /\ \A q \in RewardEntries \ {r} : reward'[q] = reward[q]
       /\ z # None
  BY <1>7, <1>8, RewardDistributionAssumption DEF RewardInv, RewardTypeOK
<1>11. /\ x <= s.total_stake_seconds
       /\ t.max_reward_seconds_received # None => x <= t.max_reward_seconds_received
  <2>1. t.max_reward_seconds_received \in Nat \cup {None}
    BY <1>3 DEF DistributorAccount, DistributorTerms
  <2>2. /\ RewardSeconds(s, t) \in Nat
        /\ RewardSeconds(s, t) <= s.total_stake_seconds
        /\ t.max_reward_seconds_received # None =>
              RewardSeconds(s, t) <= t.max_reward_seconds_received
    BY <2>1, <1>4, AtMostNat DEF RewardSeconds
  <2>3. x \in Nat
    BY <1>1, <1>3 DEF RewardAccount
  <2> HIDE DEF x, s, t
  <2> QED
    BY <1>1, <1>4, <2>1, <2>2, <2>3
<1> QED
  BY <1>2, <1>5, <1>6, <1>7, <1>9, <1>10, <1>11 DEF RewardTypeOK, n

-----------------------------------------------------------------------------
(* Every step keeps RewardInv.                                             *)

LEMMA RewardInitial == CenterInit => RewardInv
BY RewardDistributionAssumption DEF CenterInit, RewardInit, RewardInv, RewardTypeOK

LEMMA RewardInvNext ==
    ASSUME TypeOK, RewardInv, [CenterNext]_centerVars
    PROVE  RewardInv'
<1> USE DEF RewardInv
<1>1. ASSUME NEW a \in Users, NEW d \in Distributors, NEW t \in RewardTerms,
             InitRewardDistributor(a, d, t)
      PROVE  RewardInv'
  <2> DEFINE x == [authority |-> a, terms |-> t, rewards_issued |-> 0]
  <2>1. x \in DistributorAccount /\ x.terms \in RewardTerms
    BY RewardDistributionAssumption DEF DistributorAccount
  <2>2. distributor' = [distributor EXCEPT ![d] = x]
    BY <1>1 DEF InitRewardDistributor
  <2> HIDE DEF x
  <2> QED
    BY <1>1, <2>1, <2>2 DEF InitRewardDistributor, RewardTypeOK
<1>2. ASSUME NEW a \in Users, NEW d \in Distributors, NEW t \in RewardTerms,
             UpdateRewardDistributor(a, d, t)
      PROVE  RewardInv'
  <2> DEFINE x == [distributor[d] EXCEPT !.terms = t]
  <2>1. distributor[d] \in DistributorAccount /\ t \in DistributorTerms
    BY <1>2, RewardDistributionAssumption
       DEF UpdateRewardDistributor, IsDistributorAuthority, RewardTypeOK
  <2>2. x \in DistributorAccount /\ x.terms = t
    BY <2>1 DEF DistributorAccount
  <2>3. distributor' = [distributor EXCEPT ![d] = x]
    BY <1>2 DEF UpdateRewardDistributor
  <2> HIDE DEF x
  <2> QED
    BY <1>2, <2>2, <2>3 DEF UpdateRewardDistributor, RewardTypeOK
<1>3. ASSUME NEW a \in Users, NEW d \in Distributors, CloseRewardDistributor(a, d)
      PROVE  RewardInv'
  <2>1. treasury[d] \in Nat /\ treasury[d] <= treasury[d]
    BY DEF RewardTypeOK
  <2>2. treasury' \in [Distributors -> Nat] /\ tokens' \in [Users \cup {None} -> Nat]
    BY <1>3, <2>1, TakeType DEF CloseRewardDistributor
  <2> QED
    BY <1>3, <2>2 DEF CloseRewardDistributor, RewardTypeOK
<1>4. ASSUME NEW a \in Users, NEW d \in Distributors, NEW n \in 1 .. treasury[d],
             ReclaimFunds(a, d, n)
      PROVE  RewardInv'
  <2>1. n \in Nat /\ n <= treasury[d]
    BY DEF RewardTypeOK
  <2>2. treasury' \in [Distributors -> Nat] /\ tokens' \in [Users \cup {None} -> Nat]
    BY <1>4, <2>1, TakeType DEF ReclaimFunds
  <2> QED
    BY <1>4, <2>2 DEF ReclaimFunds, RewardTypeOK
<1>5. ASSUME NEW u \in Users, NEW d \in Distributors, NEW n \in 1 .. tokens[u],
             FundTreasury(u, d, n)
      PROVE  RewardInv'
  <2>1. tokens[u] \in Nat /\ treasury[d] \in Nat
    BY DEF RewardTypeOK
  <2>2. tokens[u] - n \in Nat /\ treasury[d] + n \in Nat
    BY <2>1
  <2> QED
    BY <1>5, <2>2 DEF FundTreasury, RewardTypeOK
<1>6. ASSUME NEW r \in RewardEntries, InitRewardEntry(r)
      PROVE  RewardInv'
  <2> DEFINE x == [reward_seconds_received |-> 0,
                   multiplier |-> distributor[DistributorOf(r)].terms.default_multiplier]
  <2>1. distributor[DistributorOf(r)] \in DistributorAccount
    BY <1>6 DEF InitRewardEntry, RewardTypeOK, RewardEntries, DistributorOf
  <2>2. x \in RewardAccount
    BY <2>1 DEF DistributorAccount, DistributorTerms, RewardAccount
  <2>3. reward' = [reward EXCEPT ![r] = x]
    BY <1>6 DEF InitRewardEntry
  <2> HIDE DEF x
  <2> QED
    BY <1>6, <2>2, <2>3 DEF InitRewardEntry, RewardTypeOK
<1>7. ASSUME NEW a \in Users, NEW r \in RewardEntries, NEW m \in Multipliers,
             UpdateRewardEntry(a, r, m)
      PROVE  RewardInv'
  <2> DEFINE x == [reward[r] EXCEPT !.multiplier = m]
  <2>1. x \in RewardAccount
    BY <1>7, RewardDistributionAssumption DEF UpdateRewardEntry, RewardTypeOK, RewardAccount
  <2>2. reward' = [reward EXCEPT ![r] = x]
    BY <1>7 DEF UpdateRewardEntry
  <2> HIDE DEF x
  <2> QED
    BY <1>7, <2>1, <2>2 DEF UpdateRewardEntry, RewardTypeOK
<1>8. ASSUME NEW a \in Users, NEW r \in RewardEntries, CloseRewardEntry(a, r)
      PROVE  RewardInv'
  BY <1>8 DEF CloseRewardEntry, RewardTypeOK
<1>9. ASSUME NEW u \in Users, NEW payer \in Users,
             NEW d \in Distributors, NEW r \in RewardEntries,
             ClaimRewards(u, payer, d, r)
      PROVE  RewardInv'
  <2>1. /\ RewardTypeOK'
        /\ distributor'[d].terms = distributor[d].terms
        /\ distributor' = [distributor EXCEPT ![d].rewards_issued = @ + ClaimedAmount(d, r)]
    BY <1>9, ClaimResult
  <2>2. \A c \in Distributors \ {d} : distributor'[c] = distributor[c]
    BY <2>1 DEF RewardTypeOK
  <2>3. distributor[d] # None
    BY <1>9 DEF ClaimRewards
  <2> QED
    BY <2>1, <2>2, <2>3
<1>10. CASE UNCHANGED rewardVars
  BY <1>10 DEF rewardVars, RewardTypeOK
<1> QED
  BY <1>1, <1>2, <1>3, <1>4, <1>5, <1>6, <1>7, <1>8, <1>9, <1>10
     DEF CenterNext, centerVars, RewardNext, DistributorStep, RewardEntryStep

LEMMA CenterTypeNext ==
    ASSUME TypeOK, [CenterNext]_centerVars
    PROVE  TypeOK'
BY TypeNext, RewardKeepsStakes DEF CenterNext, centerVars

LEMMA CenterInvariant == CenterSpec => [](TypeOK /\ RewardInv)
<1>1. CenterInit => TypeOK /\ RewardInv
  BY TypeInit, RewardInitial DEF CenterInit
<1>2. TypeOK /\ RewardInv /\ [CenterNext]_centerVars => (TypeOK /\ RewardInv)'
  BY CenterTypeNext, RewardInvNext
<1> QED
  BY <1>1, <1>2, PTL DEF CenterSpec

(* No wallet and no treasury is ever overdrawn by claims, reclaims and     *)
(* closes, whatever the settings and their rounding.                       *)
THEOREM RewardTypeCorrect == CenterSpec => []RewardTypeOK
BY CenterInvariant, PTL DEF RewardInv

-----------------------------------------------------------------------------
(* Action properties.                                                      *)

(* What a claim issues and credits, as the properties measure it. *)
LEMMA ClaimedIssuedAndCredited ==
    ASSUME TypeOK, RewardInv, NEW u \in Users, NEW payer \in Users,
           NEW d \in Distributors, NEW r \in RewardEntries, ClaimRewards(u, payer, d, r)
    PROVE  Issued(d) = ClaimedAmount(d, r) /\ Credited(r) = ClaimedSeconds(d, r)
<1>1. ClaimedAmount(d, r) \in Nat /\ ClaimedSeconds(d, r) \in Nat
  BY ClaimArithmetic
<1>2. /\ distributor'[d].rewards_issued
              = distributor[d].rewards_issued + ClaimedAmount(d, r)
      /\ reward'[r] # None
      /\ reward'[r].reward_seconds_received
              = reward[r].reward_seconds_received + ClaimedSeconds(d, r)
  BY ClaimResult
<1>3. /\ distributor[d] \in DistributorAccount /\ reward[r] \in RewardAccount
      /\ distributor[d] # None /\ reward[r] # None
  BY DEF ClaimRewards, RewardInv, RewardTypeOK
<1>4. distributor[d].rewards_issued \in Nat /\ reward[r].reward_seconds_received \in Nat
  BY <1>3 DEF DistributorAccount, RewardAccount
<1>5. distributor'[d] # None
  <2>1. distributor' = [distributor EXCEPT ![d].rewards_issued = @ + ClaimedAmount(d, r)]
    BY ClaimResult
  <2>2. [distributor[d] EXCEPT !.rewards_issued = @ + ClaimedAmount(d, r)]
            \in DistributorAccount
    BY <1>1, <1>3, <1>4 DEF DistributorAccount
  <2> QED
    BY <2>1, <2>2, RewardDistributionAssumption DEF RewardInv, RewardTypeOK
<1> QED
  BY <1>1, <1>2, <1>3, <1>4, <1>5 DEF Issued, Credited

(* Only a claim from a distributor issues its tokens. *)
LEMMA OnlyClaimsIssue ==
    ASSUME TypeOK, RewardInv, [CenterNext]_centerVars,
           NEW d \in Distributors, Issued(d) > 0
    PROVE  \E u \in Users, payer \in Users, r \in RewardEntries :
             ClaimRewards(u, payer, d, r)
<1>1. /\ distributor[d] # None /\ distributor'[d] # None
      /\ distributor'[d].rewards_issued > distributor[d].rewards_issued
      /\ distributor[d] \in DistributorAccount
      /\ distributor'[d].rewards_issued # distributor[d].rewards_issued
  <2>1. RewardInv'
    BY RewardInvNext
  <2>2. distributor[d] # None /\ distributor'[d] # None
    BY DEF Issued
  <2>3. distributor[d] \in DistributorAccount /\ distributor'[d] \in DistributorAccount
    BY <2>1, <2>2 DEF RewardInv, RewardTypeOK
  <2>4. distributor[d].rewards_issued \in Nat /\ distributor'[d].rewards_issued \in Nat
    BY <2>3 DEF DistributorAccount
  <2> QED
    BY <2>2, <2>3, <2>4 DEF Issued
<1>2. ASSUME NEW u \in Users, DistributorStep(u)
      PROVE  FALSE
  <2>1. ASSUME NEW c \in Distributors, NEW t \in RewardTerms,
               UpdateRewardDistributor(u, c, t)
        PROVE  FALSE
    <3>1. distributor' = [distributor EXCEPT ![c] = [distributor[c] EXCEPT !.terms = t]]
      BY <2>1 DEF UpdateRewardDistributor
    <3>2. [distributor[d] EXCEPT !.terms = t].rewards_issued = distributor[d].rewards_issued
      BY <1>1 DEF DistributorAccount
    <3> QED
      BY <1>1, <3>1, <3>2 DEF RewardInv, RewardTypeOK
  <2> QED
    BY <1>1, <1>2, <2>1 DEF DistributorStep, InitRewardDistributor,
       CloseRewardDistributor, ReclaimFunds, FundTreasury, RewardInv, RewardTypeOK
<1>3. ASSUME NEW u \in Users, RewardEntryStep(u)
      PROVE  \E payer \in Users, r \in RewardEntries : ClaimRewards(u, payer, d, r)
  <2>1. ASSUME NEW payer \in Users, NEW c \in Distributors \ {d}, NEW r \in RewardEntries,
               ClaimRewards(u, payer, c, r)
        PROVE  FALSE
    <3>1. distributor' = [distributor EXCEPT ![c].rewards_issued = @ + ClaimedAmount(c, r)]
      BY <2>1, ClaimResult
    <3> QED
      BY <1>1, <3>1 DEF RewardInv, RewardTypeOK
  <2> QED
    BY <1>1, <1>3, <2>1 DEF RewardEntryStep, InitRewardEntry, UpdateRewardEntry,
       CloseRewardEntry
<1>4. distributor' # distributor
  BY <1>1
<1> QED
  BY <1>2, <1>3, <1>4 DEF CenterNext, centerVars, rewardVars, RewardNext

(* rewards_issued grows only by what the treasury pays to the last staker, *)
(* and the seconds marked as received stay within those staked and those   *)
(* the distributor pays for, for all settings, multipliers and treasuries. *)
THEOREM IssuedTokensAreAccountedFor == CenterSpec => IssuedTokensLeaveTreasury
<1> DEFINE Step ==
        \A d \in Distributors : Issued(d) > 0 =>
          \E r \in RewardEntries :
            LET s == entry[StakeOf(r)]
                max == distributor[d].terms.max_reward_seconds_received
            IN  /\ PoolOfDistributor(d) = PoolOf(StakeOf(r))
                /\ treasury'[d] = treasury[d] - Issued(d)
                /\ tokens'[s.last_staker] = tokens[s.last_staker] + Issued(d)
                /\ reward'[r].reward_seconds_received <= s.total_stake_seconds
                /\ max # None => reward'[r].reward_seconds_received <= max
<1>1. ASSUME TypeOK, RewardInv, [CenterNext]_centerVars
      PROVE  Step
  <2> SUFFICES ASSUME NEW d \in Distributors, Issued(d) > 0
               PROVE  \E r \in RewardEntries :
                 LET s == entry[StakeOf(r)]
                     max == distributor[d].terms.max_reward_seconds_received
                 IN  /\ PoolOfDistributor(d) = PoolOf(StakeOf(r))
                     /\ treasury'[d] = treasury[d] - Issued(d)
                     /\ tokens'[s.last_staker] = tokens[s.last_staker] + Issued(d)
                     /\ reward'[r].reward_seconds_received <= s.total_stake_seconds
                     /\ max # None => reward'[r].reward_seconds_received <= max
    OBVIOUS
  <2>1. PICK u \in Users, payer \in Users, r \in RewardEntries :
           ClaimRewards(u, payer, d, r)
    BY <1>1, OnlyClaimsIssue
  <2>2. Issued(d) = ClaimedAmount(d, r)
    BY <1>1, <2>1, ClaimedIssuedAndCredited
  <2>3. PoolOfDistributor(d) = PoolOf(StakeOf(r))
    BY <2>1 DEF ClaimRewards
  <2> WITNESS r \in RewardEntries
  <2> QED
    BY <1>1, <2>1, <2>2, <2>3, ClaimResult
<1>2. TypeOK /\ RewardInv /\ [CenterNext]_centerVars => [Step]_centerVars
  BY <1>1
<1> HIDE DEF Step
<1>3. CenterSpec => [][Step]_centerVars
  BY <1>2, CenterInvariant, PTL DEF CenterSpec
<1> QED
  BY <1>3 DEF IssuedTokensLeaveTreasury, Step

(* A stake adds what an earlier stake of the entry has run up, or nothing. *)
LEMMA SecondsAfterStake ==
    ASSUME TypeOK, NEW s \in EntryAccount, NEW u
    PROVE  /\ s.total_stake_seconds \in Nat
           /\ AfterStake(s, u).total_stake_seconds \in Nat
           /\ s.total_stake_seconds <= AfterStake(s, u).total_stake_seconds
           /\ s.amount = 0 =>
                AfterStake(s, u).total_stake_seconds = s.total_stake_seconds
<1> DEFINE i == IncrementTotalStakeSeconds(s)
           j == IF s.amount # 0 THEN [i EXCEPT !.cooldown_start_seconds = None] ELSE s
<1>1. /\ i \in EntryAccount /\ SecondsIncreased(s) \in Nat
      /\ i.total_stake_seconds = s.total_stake_seconds + SecondsIncreased(s)
  BY IncrementFacts, SecondsIncreasedNat
<1>2. s.total_stake_seconds \in Nat
  BY DEF EntryAccount
<1>3. /\ j \in EntryAccount /\ s.total_stake_seconds <= j.total_stake_seconds
      /\ s.amount = 0 => j = s
  <2> HIDE DEF i
  <2> QED
    BY <1>1, <1>2 DEF EntryAccount
<1>4. AfterStake(s, u).total_stake_seconds = j.total_stake_seconds
      /\ j.total_stake_seconds \in Nat
  <2>1. AfterStake(s, u) = [j EXCEPT !.last_staker = u, !.last_staked_at = now,
                                     !.last_updated_at = now, !.amount = @ + 1]
    BY DEF AfterStake
  <2> HIDE DEF j
  <2> QED
    BY <1>3, <2>1 DEF EntryAccount
<1> HIDE DEF j
<1> QED
  BY <1>2, <1>3, <1>4

(* The instructions on stakes never take seconds from an entry, except all *)
(* of them.                                                                *)
LEMMA SecondsOnlyGrow ==
    ASSUME TypeOK, [Next]_vars, NEW e \in Entries,
           entry'[e] # None, entry'[e].total_stake_seconds # 0
    PROVE  /\ entry[e] # None
           /\ entry[e].total_stake_seconds <= entry'[e].total_stake_seconds
<1>1. TypeOK /\ TypeOK'
  BY TypeNext
<1>2. CASE entry'[e] = entry[e]
  BY <1>1, <1>2 DEF TypeOK, EntryAccount
<1>3. ASSUME entry'[e] # entry[e], InitEntry(e)
      PROVE  FALSE
  BY <1>3 DEF InitEntry, TypeOK
<1>4. ASSUME NEW u \in Users, NEW payer \in Users, StakePNFT(u, payer, e)
      PROVE  /\ entry[e] \in EntryAccount
             /\ entry[e].total_stake_seconds <= entry'[e].total_stake_seconds
  <2>1. entry[e] \in EntryAccount /\ entry'[e] = AfterStake(entry[e], u)
    BY <1>4 DEF StakePNFT, TypeOK
  <2> QED
    BY <2>1, SecondsAfterStake
<1>5. ASSUME NEW u \in Users, NEW payer \in Users, UnstakePNFT(u, payer, e)
      PROVE  /\ entry[e] \in EntryAccount
             /\ entry[e].total_stake_seconds <= entry'[e].total_stake_seconds
  <2>1. entry[e] \in EntryAccount /\ pool[PoolOf(e)] \in PoolAccount
    BY <1>5, StakePoolAssumption DEF UnstakePNFT, TypeOK, PoolOf
  <2>2. entry[e].total_stake_seconds \in Nat /\ SecondsIncreased(entry[e]) \in Nat
    BY <2>1, SecondsIncreasedNat DEF EntryAccount
  <2>3. CASE StartCooldown(e)
    <3>1. entry'[e].total_stake_seconds = entry[e].total_stake_seconds
      BY <2>1, <2>3 DEF StartCooldown, TypeOK, EntryAccount
    <3> QED
      BY <3>1, <2>1, <2>2
  <2>4. CASE CompleteUnstake(u, payer, e)
    <3>1. entry'[e] = AfterUnstake(entry[e], pool[PoolOf(e)].terms.reset_on_unstake)
      BY <2>4 DEF CompleteUnstake, TypeOK
    <3>2. pool[PoolOf(e)].terms.reset_on_unstake \in BOOLEAN
      BY <2>1 DEF PoolAccount, PoolTerms
    <3>3. entry'[e].total_stake_seconds =
            entry[e].total_stake_seconds + SecondsIncreased(entry[e])
      BY <3>1, <3>2, <2>1, AfterUnstakeFacts
    <3> QED
      BY <3>3, <2>1, <2>2
  <2> QED
    BY <1>5, <2>3, <2>4 DEF UnstakePNFT
<1>6. ASSUME UpdateTotalStakeSeconds(e)
      PROVE  /\ entry[e] \in EntryAccount
             /\ entry[e].total_stake_seconds <= entry'[e].total_stake_seconds
  <2>1. entry[e] \in EntryAccount /\ entry'[e] = IncrementTotalStakeSeconds(entry[e])
    BY <1>6 DEF UpdateTotalStakeSeconds, TypeOK
  <2>2. entry[e].total_stake_seconds \in Nat /\ SecondsIncreased(entry[e]) \in Nat
    BY <2>1, SecondsIncreasedNat DEF EntryAccount
  <2> QED
    BY <2>1, <2>2, IncrementFacts
<1>7. ASSUME NEW a \in Users, ResetStakeEntry(a, e)
      PROVE  FALSE
  <2>1. entry[e] \in EntryAccount
    BY <1>7 DEF ResetStakeEntry, TypeOK
  <2> QED
    BY <1>7, <2>1 DEF ResetStakeEntry, TypeOK, EntryAccount
<1>8. ASSUME NEW a \in Users, CloseStakeEntry(a, e)
      PROVE  FALSE
  BY <1>8 DEF CloseStakeEntry, TypeOK
<1>9. ASSUME NEW u \in Users, NEW payer \in Users, NEW f \in Entries \ {e},
             \/ InitEntry(f) \/ StakePNFT(u, payer, f) \/ UnstakePNFT(u, payer, f)
             \/ UpdateTotalStakeSeconds(f) \/ ResetStakeEntry(u, f) \/ CloseStakeEntry(u, f)
      PROVE  entry'[e] = entry[e]
  BY <1>9 DEF InitEntry, StakePNFT, UnstakePNFT, StartCooldown, CompleteUnstake,
     UpdateTotalStakeSeconds, ResetStakeEntry, CloseStakeEntry, TypeOK
<1>10. ASSUME NEW u \in Users, PoolStep(u)
       PROVE  entry' = entry
  BY <1>10 DEF PoolStep, InitDiscount, InitPool, UpdatePool, CloseStakePool,
     AuthorizeMint, DeauthorizeMint
<1>11. ASSUME NEW m \in Mints, NEW u \in Users, TransferToken(m, u)
       PROVE  entry' = entry
  BY <1>11 DEF TransferToken
<1>12. CASE UNCHANGED vars
  BY <1>2, <1>12 DEF vars
<1>13. ASSUME Tick \/ \E i \in Payments : SetPaymentInfo(i) PROVE entry' = entry
  BY <1>13 DEF Tick, SetPaymentInfo
<1>14. ASSUME NEW u \in Users, EntryStep(u)
       PROVE  /\ entry[e] # None
              /\ entry[e].total_stake_seconds <= entry'[e].total_stake_seconds
  <2>1. entry[e] \in EntryAccount => entry[e] # None
    BY StakePoolAssumption
  <2> QED
    BY <1>14, <2>1, <1>2, <1>3, <1>4, <1>5, <1>6, <1>7, <1>8, <1>9 DEF EntryStep
<1> QED
  BY <1>2, <1>10, <1>11, <1>12, <1>13, <1>14 DEF Next

(* Seconds received overtake the seconds staked only where those are set   *)
(* back to zero: a claim never marks more than is staked, and no stake     *)
(* instruction takes part of the seconds away.                             *)
ForfeitStep ==
    \A r \in RewardEntries : WithinStake(r) /\ ~WithinStake(r)' =>
        entry'[StakeOf(r)].total_stake_seconds = 0

LEMMA ForfeitNext ==
    ASSUME TypeOK, RewardInv, [CenterNext]_centerVars
    PROVE  ForfeitStep
<1> SUFFICES ASSUME NEW r \in RewardEntries, WithinStake(r), ~WithinStake(r)',
                    entry'[StakeOf(r)].total_stake_seconds # 0
             PROVE  FALSE
  BY DEF ForfeitStep
<1> DEFINE e == StakeOf(r)
<1>1. e \in Entries
  BY DEF RewardEntries, StakeOf
<1>2. /\ reward'[r] # None /\ entry'[e] # None
      /\ ~(reward'[r].reward_seconds_received <= entry'[e].total_stake_seconds)
  BY DEF WithinStake, StakeOf
<1>3. TypeOK' /\ RewardInv'
  BY CenterTypeNext, RewardInvNext
<1>4. entry'[e].total_stake_seconds \in Nat
      /\ reward'[r].reward_seconds_received \in Nat
  BY <1>1, <1>2, <1>3 DEF TypeOK, EntryAccount, RewardInv, RewardTypeOK, RewardAccount
<1>5. CASE Next /\ UNCHANGED rewardVars
  <2>1. /\ entry[e] # None
        /\ entry[e].total_stake_seconds <= entry'[e].total_stake_seconds
    BY <1>1, <1>2, <1>5, SecondsOnlyGrow
  <2>2. reward'[r] = reward[r]
    BY <1>5 DEF rewardVars
  <2>3. reward[r].reward_seconds_received <= entry[e].total_stake_seconds
    BY <1>2, <2>1, <2>2 DEF WithinStake
  <2>4. entry[e].total_stake_seconds \in Nat
    BY <1>1, <2>1 DEF TypeOK, EntryAccount
  <2> QED
    BY <1>2, <1>4, <2>1, <2>2, <2>3, <2>4
<1>6. CASE RewardNext
  <2>1. entry'[e] = entry[e]
    BY <1>6, RewardKeepsStakes DEF stakeVars
  <2>2. reward[r] # None =>
           reward[r].reward_seconds_received <= entry'[e].total_stake_seconds
    BY <1>2, <2>1 DEF WithinStake
  <2>3. reward'[r] # reward[r]
    BY <1>2, <2>2
  <2>4. ASSUME NEW q \in RewardEntries, InitRewardEntry(q) PROVE FALSE
    BY <1>2, <1>4, <2>3, <2>4 DEF InitRewardEntry, RewardInv, RewardTypeOK
  <2>5. ASSUME NEW a \in Users, NEW q \in RewardEntries, NEW m \in Multipliers,
               UpdateRewardEntry(a, q, m)
        PROVE  FALSE
    <3>1. q = r /\ reward[r] # None
      BY <2>3, <2>5 DEF UpdateRewardEntry, RewardInv, RewardTypeOK
    <3>2. reward[r] \in RewardAccount /\ reward'[r] = [reward[r] EXCEPT !.multiplier = m]
      BY <2>5, <3>1 DEF UpdateRewardEntry, RewardInv, RewardTypeOK
    <3>3. reward'[r].reward_seconds_received = reward[r].reward_seconds_received
      BY <3>2 DEF RewardAccount
    <3> QED
      BY <1>2, <2>2, <3>1, <3>3
  <2>6. ASSUME NEW a \in Users, NEW q \in RewardEntries, CloseRewardEntry(a, q)
        PROVE  FALSE
    BY <1>2, <2>3, <2>6 DEF CloseRewardEntry, RewardInv, RewardTypeOK
  <2>7. ASSUME NEW u \in Users, NEW payer \in Users,
               NEW d \in Distributors, NEW q \in RewardEntries,
               ClaimRewards(u, payer, d, q)
        PROVE  FALSE
    <3>1. q = r
      BY <2>3, <2>7, ClaimResult
    <3>2. reward'[r].reward_seconds_received <= entry[e].total_stake_seconds
      BY <2>7, <3>1, ClaimResult
    <3> QED
      BY <1>2, <2>1, <3>2
  <2>8. \A u \in Users : ~RewardEntryStep(u)
    BY <2>4, <2>5, <2>6, <2>7 DEF RewardEntryStep
  <2>9. ASSUME NEW u \in Users, DistributorStep(u) PROVE reward' = reward
    BY <2>9 DEF DistributorStep, InitRewardDistributor, UpdateRewardDistributor,
       CloseRewardDistributor, ReclaimFunds, FundTreasury
  <2> QED
    BY <1>6, <2>3, <2>8, <2>9 DEF RewardNext
<1>7. CASE UNCHANGED centerVars
  BY <1>7, <1>2 DEF centerVars, rewardVars, vars, WithinStake
<1> QED
  BY <1>5, <1>6, <1>7 DEF CenterNext

(* No order of instructions forfeits seconds that were staked, but a reset. *)
THEOREM SecondsAreForfeitedByResetsOnly == CenterSpec => OnlyResetsForfeit
<1>1. TypeOK /\ RewardInv /\ [CenterNext]_centerVars => [ForfeitStep]_centerVars
  BY ForfeitNext
<1>2. CenterSpec => [][ForfeitStep]_centerVars
  BY <1>1, CenterInvariant, PTL DEF CenterSpec
<1> QED
  BY <1>2 DEF OnlyResetsForfeit, ForfeitStep

-----------------------------------------------------------------------------
(* Seconds are marked for what was paid.                                   *)

(* The durations that some tokens stand for cost no more than the tokens.  *)
LEMMA MarkedAtRate ==
    ASSUME NEW amount \in Nat, NEW rate \in Nat \ {0}, NEW multiplier \in Nat \ {0},
           NEW scale \in Nat, NEW dur \in Nat
    PROVE  LET back == (((amount * scale) \div multiplier) \div rate) * dur
           IN  back * rate * multiplier <= amount * dur * scale
<1> DEFINE x == amount * scale
           y == x \div multiplier
           z == y \div rate
<1>1. x \in Nat
  OBVIOUS
<1>2. y \in Nat /\ y * multiplier <= x
  <2> HIDE DEF x
  <2> QED
    BY <1>1
<1>3. z \in Nat /\ z * rate <= y
  <2> HIDE DEF y
  <2> QED
    BY <1>2
<1> HIDE DEF y, z
<1> DEFINE g == (z * rate) * multiplier
<1>4. g \in Nat /\ g <= y * multiplier
  BY <1>2, <1>3
<1>5. g <= x
  <2> HIDE DEF x, g
  <2> QED
    BY <1>1, <1>2, <1>4
<1>6. g * dur <= x * dur
  <2> HIDE DEF x, g
  <2> QED
    BY <1>1, <1>4, <1>5
<1>7. (z * dur) * rate * multiplier = g * dur /\ amount * dur * scale = x * dur
  BY <1>3
<1> HIDE DEF x, g
<1> QED
  BY <1>6, <1>7 DEF x, y, z

(* What a claim marks is paid for. *)
LEMMA ClaimWithinRate ==
    ASSUME TypeOK, RewardInv, NEW u \in Users, NEW payer \in Users,
           NEW d \in Distributors, NEW r \in RewardEntries, ClaimRewards(u, payer, d, r),
           ClaimedSeconds(d, r) # 0
    PROVE  LET t == distributor[d].terms
           IN  ClaimedSeconds(d, r) * t.reward_amount * reward[r].multiplier
                  <= ClaimedAmount(d, r) * t.reward_duration_seconds * Scale(t)
<1> DEFINE t == distributor[d].terms
           n == ClaimedAmount(d, r)
           multiplier == reward[r].multiplier
           rate == t.reward_amount
           dur == t.reward_duration_seconds
           scale == Scale(t)
<1>1. t \in RewardTerms /\ scale \in Nat \ {0} /\ n \in Nat
  BY ScaleAssumption, ClaimArithmetic DEF ClaimRewards, RewardInv
<1>2. t \in DistributorTerms /\ reward[r] \in RewardAccount
  BY <1>1, RewardDistributionAssumption DEF ClaimRewards, RewardInv, RewardTypeOK
<1>3. multiplier # 0
  BY DEF ClaimedSeconds, SecondsFor
<1>4. /\ rate \in Nat \ {0} /\ dur \in Nat
      /\ multiplier \in Nat \ {0}
  <2>1. rate > 0
    BY <1>3 DEF ClaimRewards
  <2> QED
    BY <1>2, <1>3, <2>1 DEF DistributorTerms, RewardAccount
<1>5. ClaimedSeconds(d, r) = (((n * scale) \div multiplier) \div rate) * dur
  BY <1>3 DEF ClaimedSeconds, SecondsFor
<1> HIDE DEF t, n, multiplier, rate, dur, scale
<1>6. (((n * scale) \div multiplier) \div rate) * dur * rate * multiplier
         <= n * dur * scale
  BY <1>1, <1>4, MarkedAtRate
<1>7. ClaimedSeconds(d, r) * rate * multiplier <= n * dur * scale
  BY <1>5, <1>6
<1> QED
  BY <1>7 DEF t, n, multiplier, rate, dur, scale

(* Only a claim for a reward entry marks seconds on it. *)
LEMMA OnlyClaimsCredit ==
    ASSUME TypeOK, RewardInv, [CenterNext]_centerVars,
           NEW r \in RewardEntries, Credited(r) > 0
    PROVE  \E u \in Users, payer \in Users, d \in Distributors :
             ClaimRewards(u, payer, d, r)
<1>1. /\ reward[r] # None /\ reward'[r] # None
      /\ reward[r] \in RewardAccount
      /\ reward'[r].reward_seconds_received # reward[r].reward_seconds_received
  <2>1. reward[r] # None /\ reward'[r] # None
    BY DEF Credited
  <2>2. reward[r] \in RewardAccount /\ reward'[r] \in RewardAccount
    BY <2>1, RewardInvNext DEF RewardInv, RewardTypeOK
  <2>3. reward[r].reward_seconds_received \in Nat /\ reward'[r].reward_seconds_received \in Nat
    BY <2>2 DEF RewardAccount
  <2> QED
    BY <2>1, <2>2, <2>3 DEF Credited
<1>2. ASSUME NEW a \in Users, NEW q \in RewardEntries, NEW m \in Multipliers,
             UpdateRewardEntry(a, q, m)
      PROVE  FALSE
  <2>1. reward' = [reward EXCEPT ![q] = [reward[q] EXCEPT !.multiplier = m]]
    BY <1>2 DEF UpdateRewardEntry
  <2>2. [reward[r] EXCEPT !.multiplier = m].reward_seconds_received
            = reward[r].reward_seconds_received
    BY <1>1 DEF RewardAccount
  <2> QED
    BY <1>1, <2>1, <2>2 DEF RewardInv, RewardTypeOK
<1>3. ASSUME NEW u \in Users, NEW payer \in Users, NEW d \in Distributors,
             NEW q \in RewardEntries \ {r}, ClaimRewards(u, payer, d, q)
      PROVE  FALSE
  BY <1>1, <1>3, ClaimResult
<1>4. ASSUME NEW u \in Users, RewardEntryStep(u)
      PROVE  \E payer \in Users, d \in Distributors : ClaimRewards(u, payer, d, r)
  BY <1>1, <1>2, <1>3, <1>4 DEF RewardEntryStep, InitRewardEntry, CloseRewardEntry,
     RewardInv, RewardTypeOK
<1>5. reward' # reward
  BY <1>1
<1>6. ASSUME NEW u \in Users, DistributorStep(u) PROVE FALSE
  BY <1>5, <1>6 DEF DistributorStep, InitRewardDistributor, UpdateRewardDistributor,
     CloseRewardDistributor, ReclaimFunds, FundTreasury
<1> QED
  BY <1>4, <1>5, <1>6 DEF CenterNext, centerVars, rewardVars, RewardNext

(* No claim marks seconds that no token was paid for, at the rate of the   *)
(* distributor and the entry, for all settings, multipliers and contents   *)
(* of the treasury: a short treasury leaves the rest claimable.            *)
THEOREM MarkedSecondsArePaidFor == CenterSpec => SecondsMarkedArePaidFor
<1> DEFINE Step ==
        \A r \in RewardEntries : Credited(r) > 0 =>
          \E d \in Distributors :
            /\ distributor[d] # None
            /\ PoolOfDistributor(d) = PoolOf(StakeOf(r))
            /\ LET t == distributor[d].terms
               IN  Credited(r) * t.reward_amount * reward[r].multiplier
                      <= Issued(d) * t.reward_duration_seconds * Scale(t)
<1>1. ASSUME TypeOK, RewardInv, [CenterNext]_centerVars
      PROVE  Step
  <2> SUFFICES ASSUME NEW r \in RewardEntries, Credited(r) > 0
               PROVE  \E d \in Distributors :
                 /\ distributor[d] # None
                 /\ PoolOfDistributor(d) = PoolOf(StakeOf(r))
                 /\ LET t == distributor[d].terms
                    IN  Credited(r) * t.reward_amount * reward[r].multiplier
                           <= Issued(d) * t.reward_duration_seconds * Scale(t)
    OBVIOUS
  <2>1. PICK u \in Users, payer \in Users, d \in Distributors :
           ClaimRewards(u, payer, d, r)
    BY <1>1, OnlyClaimsCredit
  <2>2. Issued(d) = ClaimedAmount(d, r) /\ Credited(r) = ClaimedSeconds(d, r)
    BY <1>1, <2>1, ClaimedIssuedAndCredited
  <2>3. LET t == distributor[d].terms
        IN  Credited(r) * t.reward_amount * reward[r].multiplier
               <= Issued(d) * t.reward_duration_seconds * Scale(t)
    <3>1. ClaimedSeconds(d, r) # 0
      BY <2>2
    <3> QED
      BY <1>1, <2>1, <2>2, <3>1, ClaimWithinRate
  <2>4. distributor[d] # None /\ PoolOfDistributor(d) = PoolOf(StakeOf(r))
    BY <2>1 DEF ClaimRewards
  <2> WITNESS d \in Distributors
  <2> QED
    BY <2>3, <2>4
<1>2. TypeOK /\ RewardInv /\ [CenterNext]_centerVars => [Step]_centerVars
  BY <1>1
<1> HIDE DEF Step
<1>3. CenterSpec => [][Step]_centerVars
  BY <1>2, CenterInvariant, PTL DEF CenterSpec
<1> QED
  BY <1>3 DEF SecondsMarkedArePaidFor, Step

-----------------------------------------------------------------------------
(* The rate of claims.                                                     *)

(* What divides without a rest is a multiple. *)
LEMMA Multiple ==
    ASSUME NEW a \in Nat, NEW b \in Nat \ {0}, a % b = 0
    PROVE  a \div b \in Nat /\ a = (a \div b) * b
OBVIOUS

LEMMA DivideBack ==
    ASSUME NEW a \in Nat, NEW b \in Nat \ {0}
    PROVE  a * b \in Nat /\ (a * b) \div b = a
OBVIOUS

(* The tokens due for k durations, and the durations they stand for again. *)
ThereAndBack(k, rate, multiplier, scale, due, back) ==
    /\ due = ((k * rate) * multiplier) \div scale
    /\ back = ((due * scale) \div multiplier) \div rate
    /\ (rate * multiplier) % scale = 0 \/ scale % (rate * multiplier) = 0

(* The tokens for whole durations stand for a whole number of durations.   *)
LEMMA ExactRate ==
    ASSUME NEW k \in Nat, NEW rate \in Nat \ {0}, NEW multiplier \in Nat \ {0},
           NEW scale \in Nat \ {0}, NEW due, NEW back,
           ThereAndBack(k, rate, multiplier, scale, due, back)
    PROVE  due \in Nat /\ back \in Nat /\ due * scale = back * (rate * multiplier)
<1> DEFINE q == rate * multiplier
<1> USE DEF ThereAndBack
<1>1. q \in Nat \ {0}
  OBVIOUS
<1>2. (k * rate) * multiplier = k * q /\ k * q \in Nat
  OBVIOUS
<1>3. due \in Nat
  <2> HIDE DEF q
  <2> QED
    BY <1>2
<1>4. \E j \in Nat : due * scale = j * q
  <2>1. CASE q % scale = 0
    <3> DEFINE c == q \div scale
    <3>1. c \in Nat /\ q = c * scale
      <4> HIDE DEF q
      <4> QED
        BY <1>1, <2>1, Multiple
    <3> HIDE DEF c
    <3>2. k * q = (k * c) * scale /\ k * c \in Nat
      <4> HIDE DEF q
      <4> QED
        BY <3>1
    <3> DEFINE kc == k * c
    <3>3. due = kc
      <4>1. kc \in Nat /\ due = (kc * scale) \div scale
        BY <1>2, <3>2
      <4> HIDE DEF kc
      <4> QED
        BY <4>1, DivideBack
    <3> HIDE DEF q
    <3> QED
      BY <3>2, <3>3
  <2>2. CASE scale % q = 0
    <3> DEFINE c == scale \div q
    <3> HIDE DEF q
    <3>1. c \in Nat /\ scale = c * q
      BY <1>1, <2>2, Multiple
    <3> HIDE DEF c
    <3>2. due * scale = (due * c) * q /\ due * c \in Nat
      BY <1>1, <1>3, <3>1
    <3> QED
      BY <3>2
  <2> QED
    BY <2>1, <2>2
<1>5. PICK j \in Nat : due * scale = j * q
  BY <1>4
<1>6. due * scale = (j * rate) * multiplier /\ j * rate \in Nat
  BY <1>5
<1>7. (due * scale) \div multiplier = j * rate
  <2> DEFINE y == j * rate
  <2>1. y \in Nat /\ due * scale = y * multiplier
    BY <1>6
  <2> HIDE DEF y
  <2>2. (due * scale) \div multiplier = y
    BY <2>1, DivideBack
  <2> QED
    BY <2>2 DEF y
<1>8. ((due * scale) \div multiplier) \div rate = j
  BY <1>7, DivideBack
<1> QED
  BY <1>3, <1>5, <1>8

(* The multiplier of a reward entry is one an authority has given. *)
MultipliersGiven ==
    \A r \in RewardEntries : reward[r] # None => reward[r].multiplier \in GivenMultipliers

LEMMA MultipliersNext ==
    ASSUME TypeOK, RewardInv, MultipliersGiven, [CenterNext]_centerVars
    PROVE  MultipliersGiven'
<1> USE DEF MultipliersGiven
<1>1. ASSUME NEW r \in RewardEntries, InitRewardEntry(r)
      PROVE  MultipliersGiven'
  <2>1. DistributorOf(r) \in Distributors
    BY DEF RewardEntries, DistributorOf
  <2>2. distributor[DistributorOf(r)].terms \in RewardTerms
    BY <1>1, <2>1 DEF InitRewardEntry, RewardInv
  <2> QED
    BY <1>1, <2>2 DEF InitRewardEntry, RewardInv, RewardTypeOK, GivenMultipliers
<1>2. ASSUME NEW a \in Users, NEW r \in RewardEntries, NEW m \in Multipliers,
             UpdateRewardEntry(a, r, m)
      PROVE  MultipliersGiven'
  <2> DEFINE x == [reward[r] EXCEPT !.multiplier = m]
  <2>1. x.multiplier \in GivenMultipliers
    BY <1>2 DEF UpdateRewardEntry, RewardInv, RewardTypeOK, RewardAccount, GivenMultipliers
  <2>2. reward' = [reward EXCEPT ![r] = x]
    BY <1>2 DEF UpdateRewardEntry
  <2> HIDE DEF x
  <2> QED
    BY <2>1, <2>2 DEF RewardInv, RewardTypeOK
<1>3. ASSUME NEW a \in Users, NEW r \in RewardEntries, CloseRewardEntry(a, r)
      PROVE  MultipliersGiven'
  BY <1>3 DEF CloseRewardEntry, RewardInv, RewardTypeOK
<1>4. ASSUME NEW u \in Users, NEW payer \in Users,
             NEW d \in Distributors, NEW r \in RewardEntries,
             ClaimRewards(u, payer, d, r)
      PROVE  MultipliersGiven'
  <2> DEFINE x == [reward[r] EXCEPT !.reward_seconds_received = @ + ClaimedSeconds(d, r)]
  <2>1. reward' = [reward EXCEPT ![r] = x]
    BY <1>4 DEF ClaimRewards, ClaimedSeconds, ClaimedAmount, Marks
  <2>2. reward[r] \in RewardAccount /\ reward[r] # None
    BY <1>4 DEF ClaimRewards, RewardInv, RewardTypeOK
  <2>3. x.multiplier = reward[r].multiplier
    BY <2>2 DEF RewardAccount
  <2> HIDE DEF x
  <2> QED
    BY <2>1, <2>2, <2>3 DEF RewardInv, RewardTypeOK
<1>5. CASE UNCHANGED reward
  BY <1>5
<1> QED
  BY <1>1, <1>2, <1>3, <1>4, <1>5
     DEF CenterNext, centerVars, rewardVars, RewardNext, DistributorStep, RewardEntryStep,
         InitRewardDistributor, UpdateRewardDistributor, CloseRewardDistributor,
         ReclaimFunds, FundTreasury

(* A claim that leaves something in the treasury pays at the exact rate.   *)
LEMMA ClaimAtRate ==
    ASSUME EvenRates, TypeOK, RewardInv, MultipliersGiven,
           NEW u \in Users, NEW payer \in Users,
             NEW d \in Distributors, NEW r \in RewardEntries,
           ClaimRewards(u, payer, d, r), ClaimedAmount(d, r) # 0
    PROVE  LET t == distributor[d].terms
               n == ClaimedAmount(d, r)
           IN  \/ n * t.reward_duration_seconds * Scale(t)
                    <= ClaimedSeconds(d, r) * t.reward_amount * reward[r].multiplier
               \/ treasury[d] - n = 0
<1> DEFINE t == distributor[d].terms
           received == reward[r].reward_seconds_received
           multiplier == reward[r].multiplier
           rate == t.reward_amount
           dur == t.reward_duration_seconds
           scale == Scale(t)
           unpaid == RewardSeconds(entry[StakeOf(r)], t) - received
           k == unpaid \div dur
           due == RewardDue(unpaid, t, multiplier)
           n == ClaimedAmount(d, r)
<1>1. t \in RewardTerms /\ scale \in Nat \ {0} /\ multiplier \in GivenMultipliers
  BY ScaleAssumption DEF ClaimRewards, RewardInv, MultipliersGiven
<1>2. /\ dur \in Nat \ {0} /\ rate \in Nat /\ multiplier \in Nat
      /\ t.max_reward_seconds_received \in Nat \cup {None}
      /\ treasury[d] \in Nat /\ received \in Nat
  <2>1. t \in DistributorTerms
    BY <1>1, RewardDistributionAssumption
  <2>2. dur > 0
    BY DEF ClaimRewards
  <2>3. reward[r] \in RewardAccount
    BY DEF ClaimRewards, RewardInv, RewardTypeOK
  <2> QED
    BY <2>1, <2>2, <2>3 DEF DistributorTerms, RewardAccount, RewardInv, RewardTypeOK
<1>3. unpaid \in Nat
  <2>1. entry[StakeOf(r)].total_stake_seconds \in Nat
    BY DEF ClaimRewards, TypeOK, EntryAccount, RewardEntries, StakeOf
  <2>2. RewardSeconds(entry[StakeOf(r)], t) \in Nat /\ unpaid > 0
    BY <1>2, <2>1, AtMostNat DEF RewardSeconds, ClaimRewards
  <2> QED
    BY <1>2, <2>2
<1>4. k \in Nat
  <2> HIDE DEF unpaid, dur
  <2> QED
    BY <1>2, <1>3
<1>5. due \in Nat /\ due = ((k * rate) * multiplier) \div scale
  <2>1. due \in Nat
    <3> HIDE DEF unpaid, t
    <3> QED
      BY <1>1, <1>2, <1>3, RoundedDown DEF RewardDue
  <2> QED
    BY <2>1 DEF RewardDue
<1>6. n = due \/ treasury[d] - n = 0
  <2>1. n = AtMost(due, treasury[d])
    BY DEF ClaimedAmount, Payable
  <2> HIDE DEF n, due
  <2> QED
    BY <1>2, <1>5, <2>1 DEF AtMost
<1>7. SUFFICES ASSUME n = due
               PROVE  n * dur * scale <= ClaimedSeconds(d, r) * rate * multiplier
  BY <1>6
<1>8. rate # 0 /\ multiplier # 0
  <2>1. due # 0
    BY <1>7
  <2> HIDE DEF rate, multiplier, k, scale, due
  <2>2. ASSUME rate = 0 \/ multiplier = 0
        PROVE  FALSE
    <3>1. (k * rate) * multiplier = 0
      BY <1>2, <1>4, <2>2
    <3>2. due = 0 \div scale
      BY <1>5, <3>1
    <3> QED
      BY <1>1, <2>1, <3>2
  <2> QED
    BY <2>2
<1> DEFINE back == ((due * scale) \div multiplier) \div rate
<1>9. ClaimedSeconds(d, r) = back * dur
  BY <1>7, <1>8 DEF ClaimedSeconds, SecondsFor
<1>10. (rate * multiplier) % scale = 0 \/ scale % (rate * multiplier) = 0
  BY <1>1 DEF EvenRates
<1> HIDE DEF n, unpaid, t, rate, multiplier, dur, scale, k, due
<1>11. back \in Nat /\ due * scale = back * (rate * multiplier)
  <2>1. ThereAndBack(k, rate, multiplier, scale, due, back)
    BY <1>5, <1>10 DEF ThereAndBack
  <2>2. rate \in Nat \ {0} /\ multiplier \in Nat \ {0}
    BY <1>2, <1>8
  <2> HIDE DEF back
  <2> QED
    BY <1>1, <1>4, <2>1, <2>2, ExactRate
<1> HIDE DEF back
<1>12. due * dur * scale = (due * scale) * dur
  BY <1>1, <1>2, <1>5
<1>13. (back * dur) * rate * multiplier = (back * (rate * multiplier)) * dur
  BY <1>2, <1>11
<1>14. due * dur * scale \in Nat
  BY <1>1, <1>2, <1>5
<1> QED
  BY <1>7, <1>9, <1>11, <1>12, <1>13, <1>14

(* Tokens are paid at the rate of the distributor and the entry, for       *)
(* seconds marked on an entry of the distributor, for all settings that    *)
(* divide evenly and however long nobody claimed.                          *)
THEOREM TokensArePaidForSeconds ==
    ASSUME EvenRates, OneDistributorPerPool
    PROVE  CenterSpec => TokensPaidForSeconds
<1> DEFINE Step ==
        \A d \in Distributors : Issued(d) > 0 =>
          \E r \in RewardEntries :
            /\ DistributorOf(r) = d
            /\ LET t == distributor[d].terms
               IN  \/ Issued(d) * t.reward_duration_seconds * Scale(t)
                        <= Credited(r) * t.reward_amount * reward[r].multiplier
                   \/ treasury'[d] = 0
<1>1. ASSUME TypeOK, RewardInv, MultipliersGiven, [CenterNext]_centerVars
      PROVE  Step
  <2> SUFFICES ASSUME NEW d \in Distributors, Issued(d) > 0
               PROVE  \E r \in RewardEntries :
                 /\ DistributorOf(r) = d
                 /\ LET t == distributor[d].terms
                    IN  \/ Issued(d) * t.reward_duration_seconds * Scale(t)
                             <= Credited(r) * t.reward_amount * reward[r].multiplier
                        \/ treasury'[d] = 0
    OBVIOUS
  <2>1. PICK u \in Users, payer \in Users, r \in RewardEntries :
           ClaimRewards(u, payer, d, r)
    BY <1>1, OnlyClaimsIssue
  <2>2. treasury'[d] = treasury[d] - ClaimedAmount(d, r)
    BY <1>1, <2>1, ClaimResult
  <2>3. Issued(d) = ClaimedAmount(d, r) /\ Credited(r) = ClaimedSeconds(d, r)
    BY <1>1, <2>1, ClaimedIssuedAndCredited
  <2>4. DistributorOf(r) = d
    BY <2>1 DEF ClaimRewards, RewardEntries, DistributorOf, StakeOf, OneDistributorPerPool
  <2>5. LET t == distributor[d].terms
        IN  \/ Issued(d) * t.reward_duration_seconds * Scale(t)
                 <= Credited(r) * t.reward_amount * reward[r].multiplier
            \/ treasury'[d] = 0
    <3>1. ClaimedAmount(d, r) # 0
      BY <2>3
    <3> QED
      BY <1>1, <2>1, <2>2, <2>3, <3>1, ClaimAtRate
  <2> WITNESS r \in RewardEntries
  <2> QED
    BY <2>4, <2>5
<1>2. CenterSpec => []MultipliersGiven
  <2>1. CenterInit => MultipliersGiven
    BY DEF CenterInit, RewardInit, MultipliersGiven
  <2>2. TypeOK /\ RewardInv /\ MultipliersGiven /\ [CenterNext]_centerVars
            => MultipliersGiven'
    BY MultipliersNext
  <2> QED
    BY <2>1, <2>2, CenterInvariant, PTL DEF CenterSpec
<1>3. TypeOK /\ RewardInv /\ MultipliersGiven /\ [CenterNext]_centerVars
          => [Step]_centerVars
  BY <1>1
<1> HIDE DEF Step
<1>4. CenterSpec => [][Step]_centerVars
  BY <1>2, <1>3, CenterInvariant, PTL DEF CenterSpec
<1> QED
  BY <1>4 DEF TokensPaidForSeconds, Step
=============================================================================
