---------------------------- MODULE ClientProofs ----------------------------
(***************************************************************************)
(* Proofs about Client for every set of wallets, distributors and settings: *)
(* transactions of several instructions keep custody and the ledger intact, *)
(* and pay the staker of the moment they run, in full.                     *)
(***************************************************************************)
EXTENDS Client, RewardsCenterProofs

-----------------------------------------------------------------------------
(* Parts of a transaction.                                                 *)

(* The stake entry after the update of the transaction: the seconds so far *)
(* are stored, and nothing else a later instruction looks at has changed.  *)
LEMMA UpdatedFacts ==
    ASSUME TypeOK, ClockInv, NEW b, b.entry \in Entries, b.updates \in BOOLEAN,
           CanUpdate(b)
    PROVE  LET s == entry[b.entry]
               i == Updated(b)
           IN  /\ s \in EntryAccount /\ EntryClock(s)
               /\ i \in EntryAccount /\ EntryClock(i)
               /\ i.amount = s.amount
               /\ i.last_staker = s.last_staker
               /\ i.cooldown_start_seconds = s.cooldown_start_seconds
               /\ ElapsedSeconds(i) = ElapsedSeconds(s)
               /\ b.updates => i.total_stake_seconds = ElapsedSeconds(s)
<1> DEFINE s == entry[b.entry]
           i == Updated(b)
<1>1. s \in EntryAccount /\ EntryClock(s) /\ now \in Nat
  BY DEF CanUpdate, TypeOK, ClockInv
<1>2. CASE ~b.updates
  BY <1>1, <1>2 DEF Updated
<1>3. CASE b.updates
  <2>1. i = IncrementTotalStakeSeconds(s) /\ s.cooldown_start_seconds = None
    BY <1>3 DEF Updated, CanUpdate
  <2>2. /\ i \in EntryAccount /\ i.amount = s.amount
        /\ i.last_staker = s.last_staker
        /\ i.cooldown_start_seconds = s.cooldown_start_seconds
        /\ i.total_stake_seconds = ElapsedSeconds(s)
        /\ i.last_updated_at = now
    BY <1>1, <2>1, IncrementFacts DEF ElapsedSeconds
  <2>3. EntryClock(i)
    BY <1>1, <2>1, <2>2 DEF EntryClock
  <2>4. ElapsedSeconds(i) = ElapsedSeconds(s)
    BY <2>2, <2>3, ElapsedWhenCurrent
  <2> QED
    BY <1>1, <2>2, <2>3, <2>4
<1> QED
  BY <1>2, <1>3

LEMMA ChargeType ==
    ASSUME TypeOK, NEW w \in Users, NEW n \in Nat, NEW lists, Charge(w, lists, n)
    PROVE  funds' \in [Users -> Nat]
<1>1. Cost(n) \in Nat
  <2>1. CASE payment = None
    BY <2>1 DEF Cost
  <2>2. CASE payment # None
    <3>1. payment.price \in Nat
      BY <2>2 DEF TypeOK, PaymentAccount
    <3>2. Cost(n) = n * payment.price
      BY <2>2 DEF Cost
    <3> QED
      BY <3>1, <3>2
  <2> QED
    BY <2>1, <2>2
<1>2. funds[w] >= Cost(n) /\ funds' = [funds EXCEPT ![w] = @ - Cost(n)]
  BY DEF Charge
<1>3. funds[w] \in Nat
  BY DEF TypeOK
<1> QED
  BY <1>1, <1>2, <1>3 DEF TypeOK

LEMMA ChargedCount ==
    ASSUME NEW b, b.claims \subseteq Distributors
    PROVE  Cardinality(Charged(b)) \in Nat
<1>1. IsFiniteSet(Charged(b))
  BY ClientAssumption, FS_Subset DEF Charged
<1> QED
  BY <1>1, FS_CardinalityType

(* The parts a draft of each kind has. *)
LEMMA DraftParts ==
    ASSUME DraftTypeOK, NEW w \in Clients, draft[w] # None
    PROVE  /\ w \in Users
           /\ draft[w].entry \in Entries
           /\ draft[w].kind = "stake" =>
                /\ draft[w].opens \in BOOLEAN
           /\ draft[w].kind # "stake" =>
                /\ draft[w].updates \in BOOLEAN
                /\ draft[w].claims \subseteq Distributors
                /\ draft[w].payee \in Users \cup {None}
                /\ draft[w].claims # {} => draft[w].updates
                /\ draft[w].claims \subseteq DistributorsFor(draft[w].entry)
<1>1. w \in Users /\ draft[w] \in StakeDraft \cup RewardDraft
  BY ClientAssumption DEF DraftTypeOK
<1>2. CASE draft[w] \in StakeDraft
  BY <1>1, <1>2 DEF StakeDraft
<1>3. CASE draft[w] \in RewardDraft
  BY <1>1, <1>3 DEF RewardDraft, DraftTypeOK
<1> QED
  BY <1>1, <1>2, <1>3

-----------------------------------------------------------------------------
(* Types.  A transaction leaves values of their types in every account of   *)
(* StakePool.                                                              *)

LEMMA SubmitStakeType ==
    ASSUME TypeOK, DraftTypeOK, NEW w \in Clients, SubmitStake(w)
    PROVE  TypeOK'
<1> DEFINE b == draft[w]
           e == b.entry
           p == PoolOf(e)
           m == MintOf(e)
           s == IF b.opens THEN NewEntry ELSE entry[e]
           i == AfterStake(s, w)
<1>1. draft[w] # None /\ b.kind = "stake"
  BY DEF SubmitStake, Submitted
<1>2. w \in Users /\ e \in Entries /\ b.opens \in BOOLEAN
  BY <1>1, DraftParts
<1>3. p \in Pools /\ m \in Mints
  BY <1>2, StakePoolAssumption DEF PoolOf, MintOf
<1>4. /\ pool[p] # None
      /\ b.opens <=> entry[e] = None
      /\ Charge(w, {b.listed}, 1)
      /\ entry' = [entry EXCEPT ![e] = i]
      /\ pool' = [pool EXCEPT ![p].total_staked = @ + 1]
      /\ token' = [token EXCEPT ![m].escrow = w]
      /\ UNCHANGED <<authorized, discount, payment, now>>
  BY <1>1 DEF SubmitStake
<1>5. NewEntry \in EntryAccount
  BY DEF NewEntry, EntryAccount
<1>6. s \in EntryAccount
  BY <1>2, <1>4, <1>5 DEF TypeOK
<1> HIDE DEF s
<1>7. i \in EntryAccount
  BY <1>2, <1>6, AfterStakeFacts
<1> HIDE DEF i
<1>8. entry' \in [Entries -> EntryAccount \cup {None}]
  BY <1>4, <1>7 DEF TypeOK
<1>9. pool[p] \in PoolAccount
  BY <1>3, <1>4 DEF TypeOK
<1>10. [pool[p] EXCEPT !.total_staked = @ + 1] \in PoolAccount
  BY <1>9 DEF PoolAccount
<1>11. pool' \in [Pools -> PoolAccount \cup {None}]
  BY <1>3, <1>4, <1>10 DEF TypeOK
<1>12. funds' \in [Users -> Nat]
  BY <1>2, <1>4, ChargeType
<1>13. token' \in [Mints -> [owner : Users, escrow : Users \cup {None}]]
  BY <1>2, <1>3, <1>4 DEF TypeOK
<1> QED
  BY <1>4, <1>8, <1>11, <1>12, <1>13 DEF TypeOK

LEMMA UpdatedType ==
    ASSUME TypeOK, NEW b, b.entry \in Entries, CanUpdate(b)
    PROVE  Updated(b) \in EntryAccount
<1>1. entry[b.entry] \in EntryAccount
  BY DEF CanUpdate, TypeOK
<1> QED
  BY <1>1, IncrementFacts DEF Updated

LEMMA SubmitUnstakeType ==
    ASSUME TypeOK, DraftTypeOK, NEW w \in Clients, SubmitUnstake(w)
    PROVE  TypeOK'
<1> DEFINE b == draft[w]
           e == b.entry
           p == PoolOf(e)
           m == MintOf(e)
           s == Updated(b)
           reset == pool[p].terms.reset_on_unstake
<1>1. /\ draft[w] # None /\ b.kind # "stake" /\ CanUpdate(b) /\ pool[p] # None
      /\ UNCHANGED <<authorized, discount, payment, now>>
  BY DEF SubmitUnstake, Submitted
<1>2. w \in Users /\ e \in Entries /\ b.claims \subseteq Distributors
  BY <1>1, DraftParts
<1>3. p \in Pools /\ m \in Mints /\ now \in Nat
  BY <1>2, StakePoolAssumption DEF PoolOf, MintOf, TypeOK
<1>4. s \in EntryAccount
  BY <1>1, <1>2, UpdatedType
<1>5. pool[p] \in PoolAccount /\ reset \in BOOLEAN
  BY <1>1, <1>3 DEF TypeOK, PoolAccount, PoolTerms
<1>6. Cardinality(Charged(b)) \in Nat /\ Cardinality(Charged(b)) + 1 \in Nat
  BY <1>2, ChargedCount
<1> HIDE DEF s
<1>7. CASE BeginCooldown(w)
  <2> DEFINE i == [s EXCEPT !.cooldown_start_seconds = now]
  <2>1. entry' = [entry EXCEPT ![e] = i] /\ pool' = pool /\ token' = token
    BY <1>7 DEF BeginCooldown, s
  <2>2. i \in EntryAccount
    BY <1>3, <1>4 DEF EntryAccount
  <2>3. funds' \in [Users -> Nat]
    BY <1>2, <1>6, <1>7, ChargeType DEF BeginCooldown
  <2> QED
    BY <1>1, <1>2, <2>1, <2>2, <2>3 DEF TypeOK
<1>8. CASE EndStake(w)
  <2> DEFINE i == AfterUnstake(s, reset)
  <2>1. /\ entry' = [entry EXCEPT ![e] = i]
        /\ pool[p].total_staked > 0
        /\ pool' = [pool EXCEPT ![p].total_staked = @ - 1]
        /\ token' = [token EXCEPT ![m].escrow = None]
    BY <1>8 DEF EndStake, s
  <2>2. i \in EntryAccount
    BY <1>4, <1>5, AfterUnstakeFacts
  <2> HIDE DEF i
  <2>3. entry' \in [Entries -> EntryAccount \cup {None}]
    BY <2>1, <2>2 DEF TypeOK
  <2>4. [pool[p] EXCEPT !.total_staked = @ - 1] \in PoolAccount
    BY <1>5, <2>1 DEF PoolAccount
  <2>5. pool' \in [Pools -> PoolAccount \cup {None}]
    BY <1>3, <2>1, <2>4 DEF TypeOK
  <2>6. token' \in [Mints -> [owner : Users, escrow : Users \cup {None}]]
    BY <1>3, <2>1 DEF TypeOK
  <2>7. funds' \in [Users -> Nat]
    BY <1>2, <1>6, <1>8, ChargeType DEF EndStake
  <2> QED
    BY <1>1, <2>3, <2>5, <2>6, <2>7 DEF TypeOK
<1> QED
  BY <1>7, <1>8 DEF SubmitUnstake

LEMMA SubmitClaimType ==
    ASSUME TypeOK, DraftTypeOK, NEW w \in Clients, SubmitClaim(w)
    PROVE  TypeOK'
<1> DEFINE b == draft[w]
           e == b.entry
<1>1. /\ draft[w] # None /\ b.kind # "stake" /\ CanUpdate(b)
      /\ entry' = [entry EXCEPT ![e] = Updated(b)]
      /\ Charge(w, ChargedLists(b), Cardinality(Charged(b)))
      /\ UNCHANGED <<pool, authorized, discount, token, payment, now>>
  BY DEF SubmitClaim, Submitted
<1>2. w \in Users /\ e \in Entries /\ b.claims \subseteq Distributors
  BY <1>1, DraftParts
<1>3. Updated(b) \in EntryAccount
  BY <1>1, <1>2, UpdatedType
<1>4. funds' \in [Users -> Nat]
  BY <1>1, <1>2, ChargedCount, ChargeType
<1> QED
  BY <1>1, <1>2, <1>3, <1>4 DEF TypeOK

-----------------------------------------------------------------------------
(* Custody and the ledger.  Each transaction is one step of the ledger or  *)
(* none, though it holds several instructions.                             *)

(* The entry of a draft becomes i, which the ledger does not tell from it. *)
LEMMA SameForLedger ==
    ASSUME LedgerInv, TypeOK', NEW e \in Entries, NEW i \in EntryAccount,
           entry[e] \in EntryAccount, EntryClock(i),
           i.amount = entry[e].amount, i.last_staker = entry[e].last_staker,
           i.cooldown_start_seconds = entry[e].cooldown_start_seconds,
           ElapsedSeconds(i) = ElapsedSeconds(entry[e]),
           entry' = [entry EXCEPT ![e] = i], UNCHANGED <<pool, token, now>>
    PROVE  LedgerInv' /\ LedgerStep
<1>1. TypeOK /\ ClockInv /\ CustodyInv
  BY DEF LedgerInv, CustodyInv
<1>2. EntryBecomes(e, i)
  BY DEF EntryBecomes
<1>3. entry[e] # None /\ i # None
  BY StakePoolAssumption
<1>4. SameStakes
  BY <1>1, <1>3 DEF SameStakes, IsStaked, CustodyInv, TypeOK, NothingLockedForNobody
<1>5. PoolsOpenedEmpty /\ PoolsClosedEmpty
  BY DEF PoolsOpenedEmpty, PoolsClosedEmpty
<1>6. CustodyInv'
  BY <1>1, <1>4, <1>5, CustodyFrame
<1>7. ClockInv'
  BY <1>1, <1>2, ClockUpdate
<1>8. /\ LedgerHolder' = [LedgerHolder EXCEPT ![e] = entry[e].last_staker]
      /\ LedgerElapsed' = [LedgerElapsed EXCEPT ![e] = ElapsedSeconds(entry[e])]
      /\ LedgerRequested' = IF entry[e].cooldown_start_seconds = None
                            THEN LedgerRequested \ {e}
                            ELSE LedgerRequested \cup {e}
  BY <1>1, <1>2, LedgerUpdate
<1>9. UNCHANGED <<LedgerHolder, LedgerElapsed, LedgerRequested, LedgerOwner>>
  BY <1>3, <1>8 DEF LedgerHolder, LedgerElapsed, LedgerRequested, LedgerOwner
<1> QED
  BY <1>6, <1>7, <1>9 DEF LedgerInv, LedgerStep, Ledger!vars, LedgerOwner

LEMMA SubmitClaimStep ==
    ASSUME LedgerInv, DraftTypeOK, NEW w \in Clients, SubmitClaim(w)
    PROVE  LedgerInv' /\ LedgerStep
<1> DEFINE b == draft[w]
           e == b.entry
           i == Updated(b)
<1>1. TypeOK /\ ClockInv
  BY DEF LedgerInv, CustodyInv
<1>2. draft[w] # None /\ b.kind # "stake"
  BY DEF SubmitClaim, Submitted
<1>3. w \in Users /\ e \in Entries /\ b.updates \in BOOLEAN /\ b.claims \subseteq Distributors
  BY <1>2, DraftParts
<1>4. CanUpdate(b) /\ entry' = [entry EXCEPT ![e] = i]
  BY DEF SubmitClaim
<1>5. /\ entry[e] \in EntryAccount
      /\ i \in EntryAccount /\ EntryClock(i)
      /\ i.amount = entry[e].amount
      /\ i.last_staker = entry[e].last_staker
      /\ i.cooldown_start_seconds = entry[e].cooldown_start_seconds
      /\ ElapsedSeconds(i) = ElapsedSeconds(entry[e])
  BY <1>1, <1>3, <1>4, UpdatedFacts
<1>6. UNCHANGED <<pool, token, now>>
  BY DEF SubmitClaim
<1>7. TypeOK'
  BY <1>1, SubmitClaimType
<1> HIDE DEF i
<1> QED
  BY <1>3, <1>4, <1>5, <1>6, <1>7, SameForLedger

(* initEntry and stakePnft together are the stake of the ledger. *)
LEMMA SubmitStakeStep ==
    ASSUME ExclusiveEntries, LedgerInv, DraftTypeOK, NEW w \in Clients, SubmitStake(w)
    PROVE  LedgerInv' /\ LedgerStep
<1> DEFINE b == draft[w]
           e == b.entry
           p == PoolOf(e)
           m == MintOf(e)
           s == IF b.opens THEN NewEntry ELSE entry[e]
           i == AfterStake(s, w)
<1>1. TypeOK /\ ClockInv /\ CustodyInv /\ now \in Nat
  BY DEF LedgerInv, CustodyInv, TypeOK
<1>2. draft[w] # None /\ b.kind = "stake"
  BY DEF SubmitStake, Submitted
<1>3. w \in Users /\ e \in Entries /\ b.opens \in BOOLEAN /\ w # None
  BY <1>2, DraftParts, StakePoolAssumption
<1>4. p \in Pools /\ m \in Mints
  BY <1>3, StakePoolAssumption DEF PoolOf, MintOf
<1>5. /\ pool[p] # None
      /\ token[m].owner = w /\ token[m].escrow = None
      /\ b.opens <=> entry[e] = None
      /\ Charge(w, {b.listed}, 1)
      /\ entry' = [entry EXCEPT ![e] = i]
      /\ pool' = [pool EXCEPT ![p].total_staked = @ + 1]
      /\ token' = [token EXCEPT ![m].escrow = w]
      /\ UNCHANGED <<authorized, discount, payment, now>>
  BY <1>2 DEF SubmitStake
<1>6. /\ NewEntry \in EntryAccount /\ EntryClock(NewEntry)
      /\ NewEntry.amount = 0 /\ NewEntry.last_staker = None
      /\ NewEntry.total_stake_seconds = 0
      /\ NewEntry.cooldown_start_seconds = None
  BY <1>1 DEF NewEntry, EntryAccount, EntryClock
<1>7. ~IsStaked(e)
  BY <1>1, <1>3, <1>5 DEF CustodyInv, StakedTokenRecoverable
<1>8. /\ s \in EntryAccount /\ EntryClock(s) /\ s.amount = 0 /\ s.last_staker = None
  BY <1>1, <1>3, <1>5, <1>6, <1>7
     DEF TypeOK, ClockInv, CustodyInv, NothingLockedForNobody, IsStaked
<1>9. /\ ElapsedSeconds(s) = s.total_stake_seconds
      /\ LedgerHolder[e] = None
      /\ LedgerElapsed[e] = ElapsedSeconds(s)
      /\ e \in LedgerRequested <=> s.cooldown_start_seconds # None
  BY <1>1, <1>3, <1>5, <1>6, <1>8, ElapsedOfIdle
     DEF LedgerHolder, LedgerElapsed, LedgerRequested
<1> HIDE DEF s
<1>10. /\ i \in EntryAccount /\ i.amount = 1 /\ i.last_staker = w
       /\ i.last_updated_at = now
       /\ i.cooldown_start_seconds = s.cooldown_start_seconds
       /\ i.total_stake_seconds = s.total_stake_seconds
  BY <1>1, <1>3, <1>8, AfterStakeFacts
<1> HIDE DEF i
<1>11. EntryClock(i) /\ ElapsedSeconds(i) = ElapsedSeconds(s) /\ EntryBecomes(e, i)
  BY <1>1, <1>5, <1>8, <1>9, <1>10, ElapsedWhenCurrent DEF EntryClock, EntryBecomes
<1>12. TypeOK'
  BY <1>1, SubmitStakeType
<1>13. CustodyInv'
  BY <1>1, <1>3, <1>5, <1>7, <1>10, <1>12, CustodyOfStake
<1>14. ClockInv'
  BY <1>1, <1>3, <1>10, <1>11, ClockUpdate
<1>15. /\ LedgerHolder' = [LedgerHolder EXCEPT ![e] = w]
       /\ LedgerElapsed' = LedgerElapsed
       /\ LedgerRequested' = LedgerRequested
  <2>1. /\ LedgerHolder' = [LedgerHolder EXCEPT ![e] = w]
        /\ LedgerElapsed' = [LedgerElapsed EXCEPT ![e] = ElapsedSeconds(s)]
        /\ LedgerRequested' = IF s.cooldown_start_seconds = None
                              THEN LedgerRequested \ {e}
                              ELSE LedgerRequested \cup {e}
    BY <1>1, <1>3, <1>10, <1>11, LedgerUpdate
  <2>2. LedgerElapsed' = LedgerElapsed
    BY <1>9, <2>1 DEF LedgerElapsed
  <2>3. LedgerRequested' = LedgerRequested
    BY <1>9, <2>1
  <2> QED
    BY <2>1, <2>2, <2>3
<1>16. LedgerOwner' = LedgerOwner /\ LedgerOwner[m] = w
  BY <1>1, <1>4, <1>5 DEF LedgerOwner, TypeOK
<1>17. \A f \in Entries : MintOf(f) = m => LedgerHolder[f] = None
  BY <1>3, <1>9 DEF ExclusiveEntries
<1>18. Ledger!Stake(w, e)
  BY <1>15, <1>16, <1>17 DEF Ledger!Stake, LedgerOwner, MintOf
<1> QED
  BY <1>3, <1>13, <1>14, <1>18 DEF LedgerInv, LedgerStep, Ledger!Next

(* unstakePnft asks for the release of the stake the claims were paid for. *)
LEMMA BeginCooldownStep ==
    ASSUME LedgerInv, DraftTypeOK, NEW w \in Clients, SubmitUnstake(w), BeginCooldown(w)
    PROVE  LedgerInv' /\ LedgerStep
<1> DEFINE b == draft[w]
           e == b.entry
           s == Updated(b)
           i == [s EXCEPT !.cooldown_start_seconds = now]
<1>1. TypeOK /\ ClockInv /\ CustodyInv /\ now \in Nat
  BY DEF LedgerInv, CustodyInv, TypeOK
<1>2. draft[w] # None /\ b.kind # "stake" /\ CanUpdate(b)
  BY DEF SubmitUnstake, Submitted
<1>3. w \in Users /\ e \in Entries /\ b.updates \in BOOLEAN /\ b.claims \subseteq Distributors
  BY <1>2, DraftParts
<1>4. /\ entry[e].cooldown_start_seconds = None
      /\ entry' = [entry EXCEPT ![e] = i]
      /\ UNCHANGED <<pool, authorized, discount, token, payment, now>>
  BY DEF BeginCooldown, SubmitUnstake
<1>5. /\ entry[e] \in EntryAccount
      /\ s \in EntryAccount /\ EntryClock(s)
      /\ s.amount = entry[e].amount
      /\ s.last_staker = entry[e].last_staker
      /\ s.cooldown_start_seconds = None
      /\ ElapsedSeconds(s) = ElapsedSeconds(entry[e])
  BY <1>1, <1>2, <1>3, <1>4, UpdatedFacts
<1>6. TypeOK'
  BY <1>1, SubmitUnstakeType
<1> HIDE DEF s
<1>7. /\ i \in EntryAccount
      /\ i.amount = s.amount /\ i.last_staker = s.last_staker
      /\ i.last_updated_at = s.last_updated_at
      /\ i.total_stake_seconds = s.total_stake_seconds
      /\ i.cooldown_start_seconds = now
  BY <1>1, <1>5 DEF EntryAccount
<1>8. EntryBecomes(e, i)
  BY <1>4 DEF EntryBecomes
<1> HIDE DEF i
<1>9. now # None /\ i # None /\ entry[e] # None
  BY <1>1, <1>5, <1>7, StakePoolAssumption
<1>10. EntryClock(i) /\ ElapsedSeconds(i) = ElapsedSeconds(entry[e])
  BY <1>1, <1>5, <1>7, <1>9 DEF EntryClock, ElapsedSeconds, SecondsIncreased
<1>11. SameStakes /\ PoolsOpenedEmpty /\ PoolsClosedEmpty
  BY <1>1, <1>4, <1>5, <1>7, <1>9 DEF SameStakes, IsStaked, CustodyInv, TypeOK,
     NothingLockedForNobody, PoolsOpenedEmpty, PoolsClosedEmpty
<1>12. CustodyInv'
  BY <1>1, <1>4, <1>6, <1>11, CustodyFrame
<1>13. ClockInv'
  BY <1>1, <1>3, <1>7, <1>8, <1>10, ClockUpdate
<1>14. /\ LedgerHolder' = [LedgerHolder EXCEPT ![e] = entry[e].last_staker]
       /\ LedgerElapsed' = [LedgerElapsed EXCEPT ![e] = ElapsedSeconds(entry[e])]
       /\ LedgerRequested' = LedgerRequested \cup {e}
  BY <1>1, <1>3, <1>5, <1>7, <1>8, <1>9, <1>10, LedgerUpdate
<1>15. LedgerHolder' = LedgerHolder /\ LedgerElapsed' = LedgerElapsed
  <2>1. /\ LedgerHolder = [f \in Entries |-> LedgerHolder[f]]
        /\ LedgerElapsed = [f \in Entries |-> LedgerElapsed[f]]
        /\ LedgerHolder[e] = entry[e].last_staker
        /\ LedgerElapsed[e] = ElapsedSeconds(entry[e])
    BY <1>3, <1>9 DEF LedgerHolder, LedgerElapsed
  <2> QED
    BY <1>14, <2>1
<1>16. e \notin LedgerRequested /\ LedgerOwner' = LedgerOwner
  BY <1>4 DEF LedgerRequested, LedgerOwner
<1>17. Ledger!RequestRelease(e)
  BY <1>14, <1>15, <1>16 DEF Ledger!RequestRelease, LedgerOwner
<1> QED
  BY <1>3, <1>12, <1>13, <1>17 DEF LedgerInv, LedgerStep, Ledger!Next

(* unstakePnft releases the stake, with the seconds the claims were paid   *)
(* for on the stopwatch, or none after a reset.                            *)
LEMMA EndStakeStep ==
    ASSUME ExclusiveEntries, LedgerInv, DraftTypeOK, NEW w \in Clients,
           SubmitUnstake(w), EndStake(w)
    PROVE  LedgerInv' /\ LedgerStep
<1> DEFINE b == draft[w]
           e == b.entry
           p == PoolOf(e)
           m == MintOf(e)
           s == Updated(b)
           reset == pool[p].terms.reset_on_unstake
           i == AfterUnstake(s, reset)
           total == IF reset THEN 0 ELSE ElapsedSeconds(entry[e])
<1>1. TypeOK /\ ClockInv /\ CustodyInv /\ now \in Nat
  BY DEF LedgerInv, CustodyInv, TypeOK
<1>2. draft[w] # None /\ b.kind # "stake" /\ CanUpdate(b) /\ pool[p] # None
  BY DEF SubmitUnstake, Submitted
<1>3. /\ w \in Users /\ w # None /\ e \in Entries
      /\ b.updates \in BOOLEAN /\ b.claims \subseteq Distributors
  BY <1>2, DraftParts, StakePoolAssumption
<1>4. p \in Pools /\ m \in Mints
  BY <1>3, StakePoolAssumption DEF PoolOf, MintOf
<1>5. /\ entry' = [entry EXCEPT ![e] = i]
      /\ pool[p].total_staked > 0
      /\ pool' = [pool EXCEPT ![p].total_staked = @ - 1]
      /\ token[m].escrow = w
      /\ token' = [token EXCEPT ![m].escrow = None]
      /\ UNCHANGED <<authorized, discount, payment, now>>
  BY DEF EndStake, SubmitUnstake
<1>6. /\ entry[e] \in EntryAccount
      /\ s \in EntryAccount
      /\ ElapsedSeconds(s) = ElapsedSeconds(entry[e])
  BY <1>1, <1>2, <1>3, UpdatedFacts
<1>7. TypeOK'
  BY <1>1, SubmitUnstakeType
<1>8. pool[p] \in PoolAccount /\ reset \in BOOLEAN
  BY <1>1, <1>2, <1>4 DEF TypeOK, PoolAccount, PoolTerms
<1> HIDE DEF s
<1>9. /\ i \in EntryAccount /\ i.last_staker = None /\ i.amount = 0
      /\ i.cooldown_start_seconds = None
      /\ i.total_stake_seconds = total
      /\ i.last_updated_at = now
  BY <1>1, <1>6, <1>8, AfterUnstakeFacts DEF ElapsedSeconds
<1> HIDE DEF i
<1>10. EntryBecomes(e, i)
  BY <1>5 DEF EntryBecomes
<1>11. EntryClock(i) /\ ElapsedSeconds(i) = total
  BY <1>1, <1>9, ElapsedOfIdle DEF EntryClock
<1>12. IsStaked(e) /\ entry[e].last_staker = w
  BY <1>1, <1>3, <1>5, UnstakeIsOfStaker
<1>13. CustodyInv'
  BY <1>1, <1>3, <1>5, <1>7, <1>9, <1>12, CustodyOfUnstake
<1>14. ClockInv'
  BY <1>1, <1>3, <1>9, <1>10, <1>11, ClockUpdate
<1>15. /\ LedgerHolder' = [LedgerHolder EXCEPT ![e] = None]
       /\ LedgerElapsed' = [LedgerElapsed EXCEPT ![e] = total]
       /\ LedgerRequested' = LedgerRequested \ {e}
  BY <1>1, <1>3, <1>9, <1>10, <1>11, LedgerUpdate
<1>16. LedgerHolder[e] = w /\ total \in {0, LedgerElapsed[e]}
  BY <1>3, <1>6, <1>12, StakePoolAssumption DEF LedgerHolder, LedgerElapsed
<1>17. LedgerOwner' = LedgerOwner
  BY <1>1, <1>4, <1>5 DEF LedgerOwner, TypeOK
<1>18. Ledger!Release(w, e, total)
  BY <1>3, <1>15, <1>16, <1>17 DEF Ledger!Release, LedgerOwner
<1> QED
  BY <1>3, <1>13, <1>14, <1>16, <1>18 DEF LedgerInv, LedgerStep, Ledger!Next

LEMMA SubmitUnstakeStep ==
    ASSUME ExclusiveEntries, LedgerInv, DraftTypeOK, NEW w \in Clients, SubmitUnstake(w)
    PROVE  LedgerInv' /\ LedgerStep
BY BeginCooldownStep, EndStakeStep DEF SubmitUnstake

-----------------------------------------------------------------------------
(* Drafts.                                                                 *)

WellFormed(b) ==
    b # None /\ b.kind # "stake" =>
        /\ b.inits \subseteq b.claims
        /\ b.claims \subseteq DistributorsFor(b.entry)
        /\ b.claims # {} => b.updates

LEMMA DraftBecomes ==
    ASSUME DraftTypeOK, NEW w \in Clients,
           NEW b \in StakeDraft \cup RewardDraft \cup {None}, WellFormed(b),
           draft' = [draft EXCEPT ![w] = b], account' = account
    PROVE  DraftTypeOK'
<1>1. draft' \in [Clients -> StakeDraft \cup RewardDraft \cup {None}]
  BY DEF DraftTypeOK
<1>2. ASSUME NEW v \in Clients PROVE WellFormed(draft'[v])
  <2>1. draft'[v] = IF v = w THEN b ELSE draft[v]
    BY DEF DraftTypeOK
  <2>2. WellFormed(draft[v])
    BY DEF DraftTypeOK, WellFormed
  <2> QED
    BY <2>1, <2>2
<1>3. account' \in [Mints -> Accounts]
  BY DEF DraftTypeOK
<1> QED
  BY <1>1, <1>2, <1>3 DEF DraftTypeOK, WellFormed, DistributorsFor, PoolOf, PoolOfDistributor

LEMMA DraftSent ==
    ASSUME DraftTypeOK, NEW w \in Clients, draft' = [draft EXCEPT ![w] = None],
           account' = account
    PROVE  DraftTypeOK'
BY DraftBecomes DEF WellFormed

(* The lists of accounts a wallet reads for its payments. *)
LEMMA ListsRead ==
    ASSUME TypeOK
    PROVE  /\ \A key : ReadPayment(key) \in PaymentList
           /\ \A ds : ClaimsListed(ds) \in [Distributors -> PaymentList]
<1>1. \A key : ReadPayment(key) \in PaymentList
  BY DEF ReadPayment, PaymentList, TypeOK
<1>2. None \in PaymentList
  BY DEF PaymentList
<1> HIDE DEF PaymentList, ReadPayment
<1> QED
  BY <1>1, <1>2 DEF ClaimsListed

LEMMA BuiltStake ==
    ASSUME TypeOK, DraftTypeOK, NEW w \in Clients, NEW e \in Entries,
           NEW a \in Accounts, BuildStake(w, e, a)
    PROVE  DraftTypeOK'
<1> DEFINE listed == ReadPayment(pool[PoolOf(e)].terms.stake_payment_info)
           b == [kind |-> "stake", entry |-> e, opens |-> entry[e] = None,
                 record |-> RecordListed(PoolOf(e), MintOf(e)),
                 account |-> a, listed |-> listed]
<1>1. draft' = [draft EXCEPT ![w] = b] /\ account' = account
  BY DEF BuildStake, Build
<1>2. listed \in PaymentList
  BY ListsRead
<1> HIDE DEF listed
<1>3. b \in StakeDraft /\ WellFormed(b)
  BY <1>2 DEF StakeDraft, WellFormed, RecordListed
<1> HIDE DEF b
<1> QED
  BY <1>1, <1>3, DraftBecomes

LEMMA BuiltUnstake ==
    ASSUME TypeOK, DraftTypeOK, NEW w \in Clients, NEW e \in Entries,
           NEW ds \in SUBSET DistributorsFor(e), BuildUnstake(w, e, ds)
    PROVE  DraftTypeOK'
<1> DEFINE updates == ClaimsFirst(ds, e)
           claims == IF updates THEN Fetched(ds) ELSE {}
           listed == ReadPayment(pool[PoolOf(e)].terms.unstake_payment_info)
           lists == ClaimsListed(claims)
           b == [kind |-> "unstake", entry |-> e, updates |-> updates,
                 claims |-> claims, inits |-> Unopened(claims, e), payee |-> w,
                 listed |-> listed, claims_listed |-> lists]
<1>1. w \in Users /\ ds \subseteq Distributors
  BY ClientAssumption DEF DistributorsFor
<1>2. draft' = [draft EXCEPT ![w] = b] /\ account' = account
  BY DEF BuildUnstake, Build
<1>3. updates \in BOOLEAN
  BY DEF ClaimsFirst
<1>4. claims \subseteq ds /\ Unopened(claims, e) \subseteq claims
  BY DEF Fetched, Unopened
<1>5. listed \in PaymentList /\ lists \in [Distributors -> PaymentList]
  BY ListsRead
<1> HIDE DEF listed, lists
<1>6. b \in RewardDraft
  BY <1>1, <1>3, <1>4, <1>5 DEF RewardDraft
<1>7. WellFormed(b)
  BY <1>4 DEF WellFormed
<1> HIDE DEF b
<1> QED
  BY <1>2, <1>6, <1>7, DraftBecomes

LEMMA BuiltClaim ==
    ASSUME TypeOK, DraftTypeOK, NEW w \in Clients, NEW e \in Entries,
           NEW ds \in SUBSET DistributorsFor(e), NEW forUsers \in BOOLEAN,
           BuildClaim(w, e, ds, forUsers)
    PROVE  DraftTypeOK'
<1> DEFINE claims == Fetched(ds)
           payee == PayeeOf(w, e, forUsers)
           lists == ClaimsListed(claims)
           b == [kind |-> "claim", entry |-> e, updates |-> TRUE,
                 claims |-> claims, inits |-> Unopened(claims, e), payee |-> payee,
                 listed |-> None, claims_listed |-> lists]
<1>1. w \in Users /\ ds \subseteq Distributors
  BY ClientAssumption DEF DistributorsFor
<1>2. draft' = [draft EXCEPT ![w] = b] /\ account' = account
  BY DEF BuildClaim, Build
<1>3. claims \subseteq ds /\ Unopened(claims, e) \subseteq claims
  BY DEF Fetched, Unopened
<1>4. payee \in Users \cup {None}
  BY <1>1 DEF PayeeOf, TypeOK, EntryAccount
<1>5. None \in PaymentList /\ lists \in [Distributors -> PaymentList]
  BY ListsRead DEF PaymentList
<1> HIDE DEF payee, lists
<1>6. b \in RewardDraft
  BY <1>1, <1>3, <1>4, <1>5 DEF RewardDraft
<1>7. WellFormed(b)
  BY <1>3 DEF WellFormed
<1> HIDE DEF b
<1> QED
  BY <1>2, <1>6, <1>7, DraftBecomes

LEMMA DraftTypeNext ==
    ASSUME TypeOK, DraftTypeOK, [ClientNext]_clientVars
    PROVE  DraftTypeOK'
<1>1. CASE UNCHANGED <<draft, account>>
  BY <1>1 DEF DraftTypeOK
<1>2. CASE UNCHANGED draft /\ TokensArrive
  BY <1>2 DEF DraftTypeOK, TokensArrive
<1>3. ASSUME NEW m \in Mints, MoveToken(m)
      PROVE  DraftTypeOK'
  BY <1>3 DEF DraftTypeOK, MoveToken
<1>4. ASSUME NEW w \in Clients, SubmitStake(w) \/ SubmitUnstake(w) \/ SubmitClaim(w) \/ Expire(w)
      PROVE  DraftTypeOK'
  <2>1. draft' = [draft EXCEPT ![w] = None] /\ account' = account
    BY <1>4 DEF SubmitStake, SubmitUnstake, SubmitClaim, Submitted, Expire
  <2> QED
    BY <2>1, DraftSent
<1>5. ASSUME NEW w \in Clients, ClientStep(w)
      PROVE  DraftTypeOK'
  BY <1>4, <1>5, BuiltStake, BuiltUnstake, BuiltClaim DEF ClientStep
<1> QED
  BY <1>1, <1>2, <1>3, <1>5 DEF ClientNext, clientVars

LEMMA ClientTypeNext ==
    ASSUME TypeOK, DraftTypeOK, [ClientNext]_clientVars
    PROVE  TypeOK' /\ DraftTypeOK'
<1>1. ASSUME [CenterNext]_centerVars
      PROVE  TypeOK'
  BY <1>1, CenterTypeNext
<1>2. ASSUME NEW w \in Clients, ClientStep(w)
      PROVE  TypeOK'
  <2>1. CASE UNCHANGED centerVars
    BY <2>1, CenterTypeNext
  <2>2. CASE SubmitStake(w) \/ SubmitUnstake(w) \/ SubmitClaim(w)
    BY <2>2, SubmitStakeType, SubmitUnstakeType, SubmitClaimType
  <2> QED
    BY <1>2, <2>1, <2>2 DEF ClientStep, BuildStake, BuildUnstake, BuildClaim, Build, Expire
<1>3. TypeOK'
  BY <1>1, <1>2 DEF ClientNext, clientVars, MoveToken
<1>4. DraftTypeOK'
  BY DraftTypeNext
<1> QED
  BY <1>3, <1>4

LEMMA ClientTypeInit == ClientInit => TypeOK /\ DraftTypeOK
BY TypeInit DEF ClientInit, CenterInit, DraftTypeOK

(* Whatever wallets build, submit late, lose or repeat, every account and  *)
(* every draft holds values of its type.                                   *)
THEOREM ClientTypeCorrect == ClientSpec => []ClientTypeOK
<1>1. TypeOK /\ DraftTypeOK /\ [ClientNext]_clientVars => TypeOK' /\ DraftTypeOK'
  BY ClientTypeNext
<1>2. TypeOK /\ DraftTypeOK <=> ClientTypeOK
  BY DEF ClientTypeOK
<1> QED
  BY <1>1, <1>2, ClientTypeInit, PTL DEF ClientSpec

LEMMA ClientLedgerNext ==
    ASSUME ExclusiveEntries, LedgerInv, DraftTypeOK, [ClientNext]_clientVars
    PROVE  LedgerInv' /\ LedgerStep
<1>1. CASE [CenterNext]_centerVars
  BY <1>1, CenterLedgerNext
<1>2. ASSUME NEW w \in Clients, ClientStep(w)
      PROVE  LedgerInv' /\ LedgerStep
  <2>1. CASE UNCHANGED centerVars
    BY <2>1, CenterLedgerNext
  <2>2. CASE SubmitStake(w) \/ SubmitUnstake(w) \/ SubmitClaim(w)
    BY <2>2, SubmitStakeStep, SubmitUnstakeStep, SubmitClaimStep
  <2> QED
    BY <1>2, <2>1, <2>2 DEF ClientStep, BuildStake, BuildUnstake, BuildClaim, Build, Expire
<1> QED
  BY <1>1, <1>2 DEF ClientNext, clientVars, MoveToken

LEMMA ClientInvariant ==
    ASSUME ExclusiveEntries
    PROVE  ClientSpec => [](LedgerInv /\ DraftTypeOK)
<1>1. ClientInit => LedgerInv /\ DraftTypeOK
  BY LedgerInit, ClientTypeInit DEF ClientInit, CenterInit
<1>2. LedgerInv => TypeOK
  BY DEF LedgerInv, CustodyInv
<1>3. LedgerInv /\ DraftTypeOK /\ [ClientNext]_clientVars => LedgerInv' /\ DraftTypeOK'
  BY <1>2, ClientLedgerNext, DraftTypeNext
<1> QED
  BY <1>1, <1>3, PTL DEF ClientSpec

(* Transactions of several instructions, built from stale accounts, never  *)
(* cut a staker off from a staked token.                                   *)
THEOREM ClientStakedTokensRecoverable ==
    ASSUME ExclusiveEntries
    PROVE  ClientSpec => []StakedTokenRecoverable
BY ClientInvariant, PTL DEF LedgerInv, CustodyInv

(* Nor do they leave a token locked that no entry counts as staked. *)
THEOREM ClientNothingLockedForNobody ==
    ASSUME ExclusiveEntries
    PROVE  ClientSpec => []NothingLockedForNobody
BY ClientInvariant, PTL DEF LedgerInv, CustodyInv

(* Nor do they let total_staked and the staked entries drift apart. *)
THEOREM ClientTotalStakedIsExact ==
    ASSUME ExclusiveEntries
    PROVE  ClientSpec => []TotalStakedExact
BY ClientInvariant, PTL DEF LedgerInv, CustodyInv

(* Every transaction of the SDK is one step of the ledger or none: the     *)
(* stopwatch stays exact when entries are opened and staked at once, and   *)
(* updated, paid for and released at once.                                 *)
THEOREM ClientImplementsLedger ==
    ASSUME ExclusiveEntries
    PROVE  ClientSpec => ImplementsLedger
<1>1. ClientInit => Ledger!Init
  BY LedgerInit DEF ClientInit, CenterInit
<1>2. LedgerInv /\ DraftTypeOK /\ [ClientNext]_clientVars => [Ledger!Next]_(Ledger!vars)
  BY ClientLedgerNext DEF LedgerStep
<1> QED
  BY <1>1, <1>2, ClientInvariant, PTL DEF ClientSpec, ImplementsLedger, Ledger!Spec

-----------------------------------------------------------------------------
(* What transactions pay.  tokens is never typed here: the wallets it has   *)
(* a balance for are enough.                                               *)

BalancesOfWallets == DOMAIN tokens = Users \cup {None}

PayInv == TypeOK /\ DraftTypeOK /\ BalancesOfWallets

LEMMA BalancesNext ==
    ASSUME BalancesOfWallets, [ClientNext]_clientVars
    PROVE  BalancesOfWallets'
<1>1. CASE [CenterNext]_centerVars
  <2>1. CASE UNCHANGED tokens
    BY <2>1 DEF BalancesOfWallets
  <2>2. ASSUME NEW d, NEW u, NEW n, TakeFromTreasury(d, u, n)
        PROVE  BalancesOfWallets'
    BY <2>2 DEF TakeFromTreasury, BalancesOfWallets
  <2>3. ASSUME NEW u, NEW d, NEW n, FundTreasury(u, d, n)
        PROVE  BalancesOfWallets'
    BY <2>3 DEF FundTreasury, BalancesOfWallets
  <2>4. ASSUME NEW u \in Users, DistributorStep(u)
        PROVE  BalancesOfWallets'
    BY <2>1, <2>2, <2>3, <2>4 DEF DistributorStep, InitRewardDistributor,
       UpdateRewardDistributor, CloseRewardDistributor, ReclaimFunds
  <2>5. ASSUME NEW u \in Users, RewardEntryStep(u)
        PROVE  BalancesOfWallets'
    BY <2>1, <2>2, <2>5 DEF RewardEntryStep, InitRewardEntry, UpdateRewardEntry,
       CloseRewardEntry, ClaimRewards
  <2> QED
    BY <1>1, <2>1, <2>4, <2>5 DEF CenterNext, centerVars, rewardVars, RewardNext
<1>2. ASSUME NEW w \in Clients, ClientStep(w)
      PROVE  BalancesOfWallets'
  <2>1. CASE UNCHANGED tokens
    BY <2>1 DEF BalancesOfWallets
  <2>2. CASE Claims(draft[w])
    BY <2>2 DEF Claims, BalancesOfWallets
  <2> QED
    BY <1>2, <2>1, <2>2 DEF ClientStep, BuildStake, BuildUnstake, BuildClaim, Build,
       Expire, SubmitStake, SubmitUnstake, SubmitClaim, centerVars, rewardVars
<1> QED
  BY <1>1, <1>2 DEF ClientNext, clientVars, MoveToken

LEMMA PayInvariant == ClientSpec => []PayInv
<1>1. ClientInit => PayInv
  BY ClientTypeInit DEF PayInv, BalancesOfWallets, ClientInit, CenterInit, RewardInit
<1>2. PayInv /\ [ClientNext]_clientVars => PayInv'
  <2> SUFFICES ASSUME PayInv, [ClientNext]_clientVars PROVE PayInv'
    OBVIOUS
  <2>1. TypeOK' /\ DraftTypeOK'
    BY ClientTypeNext DEF PayInv
  <2>2. BalancesOfWallets'
    BY BalancesNext DEF PayInv
  <2> QED
    BY <2>1, <2>2 DEF PayInv
<1> QED
  BY <1>1, <1>2, PTL DEF ClientSpec

(* Only its own submission takes a draft away with a change of accounts. *)
LEMMA WhatGoesThrough ==
    ASSUME DraftTypeOK, [ClientNext]_clientVars, NEW w \in Clients, GoesThrough(w)
    PROVE  SubmitStake(w) \/ SubmitUnstake(w) \/ SubmitClaim(w)
<1>1. draft[w] # None /\ draft'[w] = None /\ centerVars' # centerVars
  BY DEF GoesThrough
<1>2. PICK v \in Clients : ClientStep(v)
  BY <1>1 DEF ClientNext, clientVars, MoveToken
<1>3. SubmitStake(v) \/ SubmitUnstake(v) \/ SubmitClaim(v)
  BY <1>1, <1>2 DEF ClientStep, BuildStake, BuildUnstake, BuildClaim, Build, Expire
<1>4. draft' = [draft EXCEPT ![v] = None]
  BY <1>3 DEF SubmitStake, SubmitUnstake, SubmitClaim, Submitted
<1>5. v = w
  BY <1>1, <1>4 DEF DraftTypeOK
<1> QED
  BY <1>3, <1>5

(* However stale the accounts a transaction was built from, its claims pay *)
(* nobody but the staker of the entry at the moment it runs.               *)
THEOREM ClientPaysTheStaker == ClientSpec => PaidToStaker
<1> DEFINE Step ==
        \A w \in Clients : GoesThrough(w) =>
          \A u \in Users \cup {None} : tokens'[u] # tokens[u] =>
              u = entry[draft[w].entry].last_staker /\ u # None
<1>1. PayInv /\ [ClientNext]_clientVars => Step
  <2> SUFFICES ASSUME PayInv, [ClientNext]_clientVars, NEW w \in Clients, GoesThrough(w),
                      NEW u \in Users \cup {None}, tokens'[u] # tokens[u]
               PROVE  u = entry[draft[w].entry].last_staker /\ u # None
    OBVIOUS
  <2> DEFINE b == draft[w]
  <2>1. SubmitUnstake(w) \/ SubmitClaim(w)
    BY WhatGoesThrough DEF PayInv, SubmitStake, rewardVars
  <2>2. /\ draft[w] # None /\ b.kind # "stake"
        /\ CanUpdate(b) /\ Claims(b)
        /\ \A d \in b.claims : CanClaim(w, b, d)
    BY <2>1 DEF SubmitUnstake, SubmitClaim, Submitted
  <2>3. b.claims # {} /\ u = b.payee
    BY <2>2 DEF Claims, PayInv, BalancesOfWallets
  <2>4. b.payee = entry[b.entry].last_staker
    BY <2>2, <2>3 DEF CanClaim
  <2>5. entry[b.entry].last_staker # None
    BY <2>2, <2>3, DraftParts DEF CanUpdate, PayInv
  <2> QED
    BY <2>3, <2>4, <2>5
<1>2. PayInv /\ [ClientNext]_clientVars => [Step]_clientVars
  BY <1>1
<1> HIDE DEF Step
<1>3. ClientSpec => [][Step]_clientVars
  BY <1>2, PayInvariant, PTL DEF ClientSpec
<1> QED
  BY <1>3 DEF PaidToStaker, Step

(* An unstake that claims is paid for every second up to the moment it     *)
(* runs, whatever happened since it was built.                             *)
THEOREM UnstakesPayInFull == ClientSpec => UnstakePaysInFull
<1> DEFINE Step ==
        \A w \in Clients : GoesThrough(w) /\ draft[w].kind = "unstake" =>
          \A d \in draft[w].claims :
            treasury'[d] = treasury[d] - PayableNow(d, draft[w].entry)
<1>1. PayInv /\ [ClientNext]_clientVars => Step
  <2> SUFFICES ASSUME PayInv, [ClientNext]_clientVars, NEW w \in Clients, GoesThrough(w),
                      draft[w].kind = "unstake", NEW d \in draft[w].claims
               PROVE  treasury'[d] = treasury[d] - PayableNow(d, draft[w].entry)
    OBVIOUS
  <2> DEFINE b == draft[w]
             e == b.entry
  <2>1. SubmitUnstake(w)
    BY WhatGoesThrough DEF PayInv, SubmitStake, SubmitClaim, Submitted
  <2>2. /\ draft[w] # None /\ b.kind # "stake"
        /\ CanUpdate(b) /\ Claims(b) /\ CanClaim(w, b, d)
    BY <2>1 DEF SubmitUnstake, Submitted
  <2>3. d \in Distributors /\ e \in Entries /\ b.updates
    BY <2>2, DraftParts DEF PayInv
  <2>4. Updated(b).total_stake_seconds = ElapsedSeconds(entry[e])
    <3>1. Updated(b) = IncrementTotalStakeSeconds(entry[e])
      BY <2>3 DEF Updated
    <3>2. entry[e] \in EntryAccount
      BY <2>2, <2>3 DEF CanUpdate, PayInv, TypeOK
    <3> QED
      BY <3>1, <3>2, IncrementFacts DEF PayInv, ElapsedSeconds
  <2>9. ClaimableSeconds(entry[e]) = ElapsedSeconds(entry[e])
    BY <2>2, <2>3 DEF CanUpdate, ClaimableSeconds
  <2>5. /\ RewardOf(b, d).reward_seconds_received =
              IF reward[<<d, e>>] = None THEN 0
              ELSE reward[<<d, e>>].reward_seconds_received
        /\ RewardOf(b, d).multiplier =
              IF reward[<<d, e>>] = None THEN distributor[d].terms.default_multiplier
              ELSE reward[<<d, e>>].multiplier
    BY <2>2 DEF CanClaim, RewardOf
  <2>6. Unpaid(b, d) = UnpaidNow(d, e)
    BY <2>4, <2>5, <2>9 DEF Unpaid, UnpaidNow, RewardSeconds
  <2>7. (IF d \in Charged(b) THEN Paid(b, d) ELSE 0) = PayableNow(d, e)
    BY <2>5, <2>6 DEF Charged, Paid, Due, PayableNow
  <2>8. treasury'[d] = treasury[d] - (IF d \in Charged(b) THEN Paid(b, d) ELSE 0)
    BY <2>2, <2>3 DEF Claims
  <2> QED
    BY <2>7, <2>8
<1>2. PayInv /\ [ClientNext]_clientVars => [Step]_clientVars
  BY <1>1
<1> HIDE DEF Step
<1>3. ClientSpec => [][Step]_clientVars
  BY <1>2, PayInvariant, PTL DEF ClientSpec
<1> QED
  BY <1>3 DEF UnstakePaysInFull, Step
=============================================================================
