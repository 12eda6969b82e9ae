------------------------- MODULE StakeLedgerProofs -------------------------
(***************************************************************************)
(* StakePool implements StakeLedger: the timestamps of an entry are an      *)
(* exact stopwatch, and tokens and stakes move as the ledger says.          *)
(***************************************************************************)
EXTENDS StakePoolProofs

-----------------------------------------------------------------------------
(* The timestamps an entry is credited from never lie in the future.       *)

EntryClock(s) ==
    /\ s.last_updated_at <= now
    /\ s.cooldown_start_seconds # None => s.cooldown_start_seconds <= now

ClockInv == \A e \in Entries : entry[e] # None => EntryClock(entry[e])

(* One entry changes, to i, while the clock stands still. *)
EntryBecomes(e, i) ==
    /\ entry' = [entry EXCEPT ![e] = i]
    /\ now' = now

LEMMA ClockUpdate ==
    ASSUME TypeOK, ClockInv, NEW e \in Entries, NEW i \in EntryAccount,
           EntryBecomes(e, i), EntryClock(i)
    PROVE  ClockInv'
<1> SUFFICES ASSUME NEW f \in Entries, entry'[f] # None
             PROVE  EntryClock(entry[f])'
  BY DEF ClockInv
<1>1. entry'[f] = IF f = e THEN i ELSE entry[f]
  BY DEF EntryBecomes, TypeOK
<1> QED
  BY <1>1 DEF EntryClock, EntryBecomes, ClockInv

(* What the ledger sees of that change. *)
LEMMA LedgerUpdate ==
    ASSUME TypeOK, NEW e \in Entries, NEW i \in EntryAccount, EntryBecomes(e, i)
    PROVE  /\ LedgerHolder' = [LedgerHolder EXCEPT ![e] = i.last_staker]
           /\ LedgerElapsed' = [LedgerElapsed EXCEPT ![e] = ElapsedSeconds(i)]
           /\ LedgerRequested' = IF i.cooldown_start_seconds = None
                                 THEN LedgerRequested \ {e}
                                 ELSE LedgerRequested \cup {e}
<1>1. entry' = [f \in Entries |-> IF f = e THEN i ELSE entry[f]] /\ i # None
  BY StakePoolAssumption DEF EntryBecomes, TypeOK
<1>2. now' = now
  BY DEF EntryBecomes
<1>3. LedgerHolder' = [LedgerHolder EXCEPT ![e] = i.last_staker]
  BY <1>1 DEF LedgerHolder
<1>4. LedgerElapsed' = [LedgerElapsed EXCEPT ![e] = ElapsedSeconds(i)]
  BY <1>1, <1>2 DEF LedgerElapsed, ElapsedSeconds, SecondsIncreased
<1>5. LedgerRequested' = IF i.cooldown_start_seconds = None
                         THEN LedgerRequested \ {e}
                         ELSE LedgerRequested \cup {e}
  BY <1>1 DEF LedgerRequested
<1> QED
  BY <1>3, <1>4, <1>5

(* Multiplying out SecondsIncreased for the amounts an entry can have. *)
LEMMA ElapsedOfIdle ==
    ASSUME TypeOK, NEW s \in EntryAccount, s.amount = 0
    PROVE  ElapsedSeconds(s) = s.total_stake_seconds
<1>1. /\ now \in Nat /\ s.last_updated_at \in Nat /\ s.total_stake_seconds \in Nat
      /\ s.cooldown_start_seconds # None => s.cooldown_start_seconds \in Nat
  BY DEF TypeOK, EntryAccount
<1>2. SecondsIncreased(s) = 0
  BY <1>1 DEF SecondsIncreased, SaturatingSub
<1> QED
  BY <1>1, <1>2 DEF ElapsedSeconds

LEMMA ElapsedWhenCurrent ==
    ASSUME TypeOK, NEW s \in EntryAccount, EntryClock(s), s.last_updated_at = now
    PROVE  ElapsedSeconds(s) = s.total_stake_seconds
<1>1. /\ now \in Nat /\ s.amount \in Nat /\ s.total_stake_seconds \in Nat
      /\ s.cooldown_start_seconds # None => s.cooldown_start_seconds \in Nat
  BY DEF TypeOK, EntryAccount
<1> DEFINE until == IF s.cooldown_start_seconds = None
                    THEN now ELSE s.cooldown_start_seconds
<1>2. until \in Nat /\ until <= now
  BY <1>1 DEF EntryClock
<1>3. SaturatingSub(until, s.last_updated_at) = 0
  BY <1>1, <1>2 DEF SaturatingSub
<1>4. SecondsIncreased(s) = 0 * s.amount
  BY <1>3 DEF SecondsIncreased
<1> QED
  BY <1>1, <1>4 DEF ElapsedSeconds

-----------------------------------------------------------------------------
(* One lemma per action that changes an entry: the clock invariant is kept *)
(* and the step is one of the ledger's, or none.                           *)

LedgerInv == CustodyInv /\ ClockInv

LedgerOwner == [m \in Mints |-> token[m].owner]

LedgerStep == [Ledger!Next]_(Ledger!vars)

LEMMA InitEntryStep ==
    ASSUME LedgerInv, NEW e \in Entries, InitEntry(e)
    PROVE  ClockInv' /\ LedgerStep
<1> DEFINE i == [amount |-> 0, last_staker |-> None, last_staked_at |-> 0,
                 last_updated_at |-> 0, total_stake_seconds |-> 0,
                 cooldown_start_seconds |-> None]
<1>1. TypeOK /\ ClockInv /\ now \in Nat
  BY DEF LedgerInv, CustodyInv, TypeOK
<1>2. i \in EntryAccount /\ EntryClock(i) /\ i.amount = 0 /\ i.last_staker = None
      /\ i.total_stake_seconds = 0 /\ i.cooldown_start_seconds = None
  BY <1>1 DEF EntryAccount, EntryClock
<1>3. EntryBecomes(e, i) /\ entry[e] = None /\ token' = token
  BY DEF InitEntry, EntryBecomes
<1> HIDE DEF i
<1>4. ElapsedSeconds(i) = 0
  BY <1>1, <1>2, ElapsedOfIdle
<1>5. /\ LedgerHolder' = [LedgerHolder EXCEPT ![e] = None]
      /\ LedgerElapsed' = [LedgerElapsed EXCEPT ![e] = 0]
      /\ LedgerRequested' = LedgerRequested \ {e}
  BY <1>1, <1>2, <1>3, <1>4, LedgerUpdate
<1>6. UNCHANGED <<LedgerHolder, LedgerElapsed, LedgerRequested, LedgerOwner>>
  BY <1>3, <1>5 DEF LedgerHolder, LedgerElapsed, LedgerRequested, LedgerOwner
<1>7. ClockInv'
  BY <1>1, <1>2, <1>3, ClockUpdate
<1> QED
  BY <1>6, <1>7 DEF LedgerStep, Ledger!vars, LedgerOwner

LEMMA StakeStep ==
    ASSUME ExclusiveEntries, LedgerInv, NEW u \in Users,
           NEW payer \in Users, NEW e \in Entries, StakePNFT(u, payer, e)
    PROVE  ClockInv' /\ LedgerStep
<1> DEFINE s == entry[e]
           i == AfterStake(s, u)
           m == MintOf(e)
<1>1. TypeOK /\ ClockInv /\ CustodyInv /\ now \in Nat /\ m \in Mints
  BY StakePoolAssumption DEF LedgerInv, CustodyInv, TypeOK, MintOf
<1>2. s \in EntryAccount /\ s # None /\ EntryClock(s)
  BY <1>1 DEF StakePNFT, TypeOK, ClockInv
<1>3. token[m].escrow = None /\ token[m].owner = u
  BY DEF StakePNFT
<1>4. s.amount = 0 /\ s.last_staker = None
  BY <1>1, <1>2, <1>3 DEF CustodyInv, StakedTokenRecoverable,
     NothingLockedForNobody, IsStaked
<1>5. i \in EntryAccount /\ i.last_staker = u /\ i.last_updated_at = now
      /\ i.cooldown_start_seconds = s.cooldown_start_seconds
      /\ i.total_stake_seconds = s.total_stake_seconds
  BY <1>1, <1>2, <1>4, AfterStakeFacts
<1>6. EntryBecomes(e, i)
  BY DEF StakePNFT, EntryBecomes
<1> HIDE DEF i
<1>7. EntryClock(i)
  BY <1>1, <1>2, <1>5 DEF EntryClock
<1>8. ElapsedSeconds(i) = ElapsedSeconds(s)
  BY <1>1, <1>2, <1>4, <1>5, <1>7, ElapsedWhenCurrent, ElapsedOfIdle
<1>9. /\ LedgerHolder' = [LedgerHolder EXCEPT ![e] = u]
      /\ LedgerElapsed' = LedgerElapsed
      /\ LedgerRequested' = LedgerRequested
  <2>1. /\ LedgerHolder' = [LedgerHolder EXCEPT ![e] = u]
        /\ LedgerElapsed' = [LedgerElapsed EXCEPT ![e] = ElapsedSeconds(s)]
        /\ LedgerRequested' = IF s.cooldown_start_seconds = None
                              THEN LedgerRequested \ {e}
                              ELSE LedgerRequested \cup {e}
    BY <1>1, <1>5, <1>6, <1>8, LedgerUpdate
  <2> QED
    BY <2>1, <1>2 DEF LedgerElapsed, LedgerRequested
<1>10. LedgerOwner' = LedgerOwner /\ LedgerOwner[m] = u
  BY <1>1, <1>3 DEF LedgerOwner, StakePNFT, TypeOK
<1>11. \A f \in Entries : MintOf(f) = m => LedgerHolder[f] = None
  BY <1>4 DEF ExclusiveEntries, LedgerHolder
<1>12. Ledger!Stake(u, e)
  BY <1>9, <1>10, <1>11 DEF Ledger!Stake, LedgerOwner, MintOf
<1>13. ClockInv'
  BY <1>1, <1>5, <1>6, <1>7, ClockUpdate
<1> QED
  BY <1>12, <1>13 DEF LedgerStep, Ledger!Next

LEMMA UnstakeStep ==
    ASSUME ExclusiveEntries, LedgerInv, NEW u \in Users,
           NEW payer \in Users, NEW e \in Entries, UnstakePNFT(u, payer, e)
    PROVE  ClockInv' /\ LedgerStep
<1> DEFINE s == entry[e]
           p == PoolOf(e)
           m == MintOf(e)
<1>1. TypeOK /\ ClockInv /\ CustodyInv /\ now \in Nat /\ m \in Mints /\ p \in Pools
  BY StakePoolAssumption DEF LedgerInv, CustodyInv, TypeOK, MintOf, PoolOf
<1>2. s \in EntryAccount /\ s # None /\ EntryClock(s) /\ pool[p] \in PoolAccount
  BY <1>1 DEF UnstakePNFT, TypeOK, ClockInv
<1>3. CASE StartCooldown(e)
  <2> DEFINE i == [s EXCEPT !.cooldown_start_seconds = now]
  <2>1. /\ i \in EntryAccount /\ i.last_staker = s.last_staker
        /\ i.amount = s.amount /\ i.last_updated_at = s.last_updated_at
        /\ i.total_stake_seconds = s.total_stake_seconds
        /\ i.cooldown_start_seconds = now
    BY <1>1, <1>2 DEF EntryAccount
  <2>2. EntryBecomes(e, i) /\ s.cooldown_start_seconds = None /\ token' = token
    BY <1>3 DEF UnstakePNFT, StartCooldown, EntryBecomes
  <2> HIDE DEF i
  <2>3. now # None
    BY <1>1, StakePoolAssumption
  <2>4. EntryClock(i) /\ ElapsedSeconds(i) = ElapsedSeconds(s)
    BY <1>1, <1>2, <2>1, <2>2, <2>3 DEF EntryClock, ElapsedSeconds, SecondsIncreased
  <2>5. /\ LedgerHolder' = [LedgerHolder EXCEPT ![e] = s.last_staker]
        /\ LedgerElapsed' = [LedgerElapsed EXCEPT ![e] = ElapsedSeconds(s)]
        /\ LedgerRequested' = LedgerRequested \cup {e}
    BY <1>1, <2>1, <2>2, <2>3, <2>4, LedgerUpdate
  <2>6. LedgerHolder' = LedgerHolder /\ LedgerElapsed' = LedgerElapsed
    BY <1>2, <2>5 DEF LedgerHolder, LedgerElapsed
  <2>7. e \notin LedgerRequested /\ LedgerOwner' = LedgerOwner
    BY <2>2 DEF LedgerRequested, LedgerOwner
  <2>8. Ledger!RequestRelease(e)
    BY <2>5, <2>6, <2>7 DEF Ledger!RequestRelease, LedgerOwner
  <2>9. ClockInv'
    BY <1>1, <2>1, <2>2, <2>4, ClockUpdate
  <2> QED
    BY <2>8, <2>9 DEF LedgerStep, Ledger!Next
<1>4. CASE CompleteUnstake(u, payer, e)
  <2> DEFINE reset == pool[p].terms.reset_on_unstake
             i == AfterUnstake(s, reset)
             total == IF reset THEN 0 ELSE ElapsedSeconds(s)
  <2>1. reset \in BOOLEAN
    BY <1>2 DEF PoolAccount, PoolTerms
  <2>2. /\ i \in EntryAccount /\ i.last_staker = None /\ i.amount = 0
        /\ i.cooldown_start_seconds = None
        /\ i.total_stake_seconds = total
        /\ i.last_updated_at = now
    BY <1>1, <1>2, <2>1, AfterUnstakeFacts DEF ElapsedSeconds
  <2>3. EntryBecomes(e, i)
    BY <1>4 DEF UnstakePNFT, CompleteUnstake, EntryBecomes
  <2> HIDE DEF i
  <2>4. EntryClock(i) /\ ElapsedSeconds(i) = total
    BY <1>1, <2>2, ElapsedOfIdle DEF EntryClock
  <2>5. /\ LedgerHolder' = [LedgerHolder EXCEPT ![e] = None]
        /\ LedgerElapsed' = [LedgerElapsed EXCEPT ![e] = total]
        /\ LedgerRequested' = LedgerRequested \ {e}
    BY <1>1, <2>2, <2>3, <2>4, LedgerUpdate
  <2>6. LedgerHolder[e] = u /\ u # None
    BY <1>1, <1>2, <1>4, UnstakeIsOfStaker, StakePoolAssumption
       DEF LedgerHolder, CompleteUnstake
  <2>7. LedgerOwner' = LedgerOwner
    BY <1>1, <1>4 DEF LedgerOwner, CompleteUnstake, TypeOK
  <2>8. total \in {0, LedgerElapsed[e]}
    BY <1>2 DEF LedgerElapsed
  <2>9. Ledger!Release(u, e, total)
    BY <2>5, <2>6, <2>7, <2>8 DEF Ledger!Release, LedgerOwner
  <2>10. ClockInv'
    BY <1>1, <2>2, <2>3, <2>4, ClockUpdate
  <2> QED
    BY <2>8, <2>9, <2>10 DEF LedgerStep, Ledger!Next
<1> QED
  BY <1>3, <1>4 DEF UnstakePNFT

LEMMA UpdateStep ==
    ASSUME LedgerInv, NEW e \in Entries, UpdateTotalStakeSeconds(e)
    PROVE  ClockInv' /\ LedgerStep
<1> DEFINE s == entry[e]
           i == IncrementTotalStakeSeconds(s)
<1>1. TypeOK /\ ClockInv /\ now \in Nat
  BY DEF LedgerInv, CustodyInv, TypeOK
<1>2. s \in EntryAccount /\ s # None /\ s.cooldown_start_seconds = None
  BY <1>1 DEF UpdateTotalStakeSeconds, TypeOK
<1>3. /\ i \in EntryAccount /\ i.last_staker = s.last_staker
      /\ i.cooldown_start_seconds = None /\ i.last_updated_at = now
      /\ i.total_stake_seconds = ElapsedSeconds(s)
  BY <1>1, <1>2, IncrementFacts DEF ElapsedSeconds
<1>4. EntryBecomes(e, i) /\ token' = token
  BY DEF UpdateTotalStakeSeconds, EntryBecomes
<1> HIDE DEF i
<1>5. EntryClock(i)
  BY <1>1, <1>3 DEF EntryClock
<1>6. ElapsedSeconds(i) = ElapsedSeconds(s)
  BY <1>1, <1>3, <1>5, ElapsedWhenCurrent
<1>7. /\ LedgerHolder' = [LedgerHolder EXCEPT ![e] = s.last_staker]
      /\ LedgerElapsed' = [LedgerElapsed EXCEPT ![e] = ElapsedSeconds(s)]
      /\ LedgerRequested' = LedgerRequested \ {e}
  BY <1>1, <1>3, <1>4, <1>6, LedgerUpdate
<1>8. UNCHANGED <<LedgerHolder, LedgerElapsed, LedgerRequested, LedgerOwner>>
  BY <1>2, <1>4, <1>7 DEF LedgerHolder, LedgerElapsed, LedgerRequested, LedgerOwner
<1>9. ClockInv'
  BY <1>1, <1>3, <1>4, <1>5, ClockUpdate
<1> QED
  BY <1>8, <1>9 DEF LedgerStep, Ledger!vars, LedgerOwner

LEMMA ResetStep ==
    ASSUME LedgerInv, NEW a \in Users, NEW e \in Entries, ResetStakeEntry(a, e)
    PROVE  ClockInv' /\ LedgerStep
<1> DEFINE s == entry[e]
           i == [s EXCEPT !.total_stake_seconds = 0, !.last_updated_at = now,
                          !.last_staked_at = now, !.cooldown_start_seconds = None]
<1>1. TypeOK /\ ClockInv /\ now \in Nat
  BY DEF LedgerInv, CustodyInv, TypeOK
<1>2. s \in EntryAccount /\ s # None
  BY <1>1 DEF ResetStakeEntry, TypeOK
<1>3. /\ i \in EntryAccount /\ i.last_staker = s.last_staker
      /\ i.cooldown_start_seconds = None /\ i.last_updated_at = now
      /\ i.total_stake_seconds = 0
  BY <1>1, <1>2 DEF EntryAccount
<1>4. EntryBecomes(e, i) /\ token' = token
  BY DEF ResetStakeEntry, EntryBecomes
<1> HIDE DEF i
<1>5. EntryClock(i)
  BY <1>1, <1>3 DEF EntryClock
<1>6. ElapsedSeconds(i) = 0
  BY <1>1, <1>3, <1>5, ElapsedWhenCurrent
<1>7. /\ LedgerHolder' = [LedgerHolder EXCEPT ![e] = s.last_staker]
      /\ LedgerElapsed' = [LedgerElapsed EXCEPT ![e] = 0]
      /\ LedgerRequested' = LedgerRequested \ {e}
  BY <1>1, <1>3, <1>4, <1>6, LedgerUpdate
<1>8. LedgerHolder' = LedgerHolder /\ LedgerOwner' = LedgerOwner
  BY <1>2, <1>4, <1>7 DEF LedgerHolder, LedgerOwner
<1>9. Ledger!Reset(e)
  BY <1>7, <1>8 DEF Ledger!Reset, LedgerOwner
<1>10. ClockInv'
  BY <1>1, <1>3, <1>4, <1>5, ClockUpdate
<1> QED
  BY <1>9, <1>10 DEF LedgerStep, Ledger!Next

(* Closing an entry nobody has staked is a reset of its stopwatch. *)
LEMMA CloseEntryStep ==
    ASSUME LedgerInv, NEW a \in Users, NEW e \in Entries, CloseStakeEntry(a, e)
    PROVE  ClockInv' /\ LedgerStep
<1>1. TypeOK /\ ClockInv
  BY DEF LedgerInv, CustodyInv
<1>2. /\ entry' = [f \in Entries |-> IF f = e THEN None ELSE entry[f]]
      /\ entry[e].last_staker = None
      /\ now' = now /\ token' = token
  BY <1>1 DEF CloseStakeEntry, TypeOK
<1>3. LedgerHolder' = LedgerHolder
  BY <1>2 DEF LedgerHolder
<1>4. LedgerElapsed' = [LedgerElapsed EXCEPT ![e] = 0]
  BY <1>2 DEF LedgerElapsed, ElapsedSeconds, SecondsIncreased
<1>5. LedgerRequested' = LedgerRequested \ {e}
  BY <1>2 DEF LedgerRequested
<1>6. Ledger!Reset(e)
  BY <1>2, <1>3, <1>4, <1>5 DEF Ledger!Reset
<1>7. ClockInv'
  <2> SUFFICES ASSUME NEW f \in Entries, entry'[f] # None
               PROVE  EntryClock(entry[f])'
    BY DEF ClockInv
  <2>1. entry'[f] = entry[f] /\ entry[f] # None
    BY <1>2
  <2> QED
    BY <1>1, <1>2, <2>1 DEF EntryClock, ClockInv
<1> QED
  BY <1>6, <1>7 DEF LedgerStep, Ledger!Next

(* A second passes for every stake that is held and not asked back. *)
LEMMA TickStep ==
    ASSUME LedgerInv, Tick
    PROVE  ClockInv' /\ LedgerStep
<1>1. TypeOK /\ ClockInv /\ CustodyInv /\ now \in Nat
  BY DEF LedgerInv, CustodyInv, TypeOK
<1>2. entry' = entry /\ token' = token /\ now' = now + 1
  BY DEF Tick
<1>3. LedgerHolder' = LedgerHolder /\ LedgerRequested' = LedgerRequested
      /\ LedgerOwner' = LedgerOwner
  BY <1>2 DEF LedgerHolder, LedgerRequested, LedgerOwner
<1>4. ASSUME NEW e \in Entries
      PROVE  LedgerElapsed'[e] =
                LedgerElapsed[e] + IF Ledger!Running(e) THEN 1 ELSE 0
  <2> DEFINE s == entry[e]
  <2>1. CASE s = None
    <3>1. ~Ledger!Running(e)
      BY <2>1 DEF Ledger!Running, LedgerHolder
    <3>2. LedgerElapsed[e] = 0 /\ LedgerElapsed'[e] = 0
      BY <1>2, <2>1 DEF LedgerElapsed
    <3> QED
      BY <3>1, <3>2
  <2>2. CASE s # None /\ s.cooldown_start_seconds # None
    <3>1. ~Ledger!Running(e)
      BY <2>2 DEF Ledger!Running, LedgerRequested
    <3>2. LedgerElapsed'[e] = LedgerElapsed[e] /\ LedgerElapsed[e] = ElapsedSeconds(s)
      BY <1>2, <2>2 DEF LedgerElapsed, ElapsedSeconds, SecondsIncreased
    <3>3. ElapsedSeconds(s) \in Nat
      <4>1. /\ s \in EntryAccount /\ s.amount \in Nat /\ s.last_updated_at \in Nat
            /\ s.total_stake_seconds \in Nat /\ s.cooldown_start_seconds \in Nat
        BY <1>1, <2>2 DEF TypeOK, EntryAccount
      <4>2. SaturatingSub(s.cooldown_start_seconds, s.last_updated_at) \in Nat
        BY <4>1 DEF SaturatingSub
      <4>3. SecondsIncreased(s) \in Nat
        BY <2>2, <4>1, <4>2 DEF SecondsIncreased
      <4> QED
        BY <4>1, <4>3 DEF ElapsedSeconds
    <3> QED
      BY <3>1, <3>2, <3>3
  <2>3. CASE s # None /\ s.cooldown_start_seconds = None
    <3>1. /\ s \in EntryAccount /\ s.amount \in Nat /\ s.last_updated_at \in Nat
          /\ s.total_stake_seconds \in Nat /\ s.last_updated_at <= now
      BY <1>1, <2>3 DEF TypeOK, EntryAccount, ClockInv, EntryClock
    <3>2. /\ LedgerElapsed[e] = s.total_stake_seconds
                                  + (now - s.last_updated_at) * s.amount
          /\ LedgerElapsed'[e] = s.total_stake_seconds
                                  + (now + 1 - s.last_updated_at) * s.amount
      <4>1. /\ SaturatingSub(now, s.last_updated_at) = now - s.last_updated_at
            /\ SaturatingSub(now + 1, s.last_updated_at)
                   = now + 1 - s.last_updated_at
        BY <1>1, <3>1 DEF SaturatingSub
      <4>2. /\ LedgerElapsed[e] = s.total_stake_seconds
                   + SaturatingSub(now, s.last_updated_at) * s.amount
            /\ LedgerElapsed'[e] = s.total_stake_seconds
                   + SaturatingSub(now + 1, s.last_updated_at) * s.amount
        BY <1>2, <2>3 DEF LedgerElapsed, ElapsedSeconds, SecondsIncreased
      <4> QED
        BY <4>1, <4>2
    <3>3. CASE s.amount = 0
      <4>1. ~Ledger!Running(e)
        BY <1>1, <2>3, <3>3 DEF Ledger!Running, LedgerHolder, CustodyInv,
           NothingLockedForNobody, IsStaked
      <4> QED
        BY <1>1, <3>1, <3>2, <3>3, <4>1
    <3>4. CASE s.amount # 0
      <4>1. s.amount = 1 /\ s.last_staker # None
        BY <1>1, <2>3, <3>4 DEF CustodyInv, StakedTokenRecoverable, IsStaked
      <4>2. Ledger!Running(e)
        BY <2>3, <4>1 DEF Ledger!Running, LedgerHolder, LedgerRequested
      <4> QED
        BY <1>1, <3>1, <3>2, <4>1, <4>2
    <3> QED
      BY <3>3, <3>4
  <2> QED
    BY <2>1, <2>2, <2>3
<1>5. LedgerElapsed' = [e \in Entries |->
          LedgerElapsed[e] + IF Ledger!Running(e) THEN 1 ELSE 0]
  BY <1>4 DEF LedgerElapsed
<1>6. Ledger!Tick
  BY <1>3, <1>5 DEF Ledger!Tick, LedgerOwner
<1>7. ClockInv'
  <2> SUFFICES ASSUME NEW f \in Entries, entry[f] # None
               PROVE  EntryClock(entry[f])'
    BY <1>2 DEF ClockInv
  <2>1. EntryClock(entry[f]) /\ entry[f] \in EntryAccount
    BY <1>1 DEF ClockInv, TypeOK
  <2> QED
    BY <1>1, <1>2, <2>1 DEF EntryClock, EntryAccount
<1> QED
  BY <1>6, <1>7 DEF LedgerStep, Ledger!Next

(* A token moves only while no entry holds it. *)
LEMMA TransferStep ==
    ASSUME LedgerInv, NEW m \in Mints, NEW u \in Users, TransferToken(m, u)
    PROVE  ClockInv' /\ LedgerStep
<1>1. TypeOK /\ ClockInv /\ CustodyInv
  BY DEF LedgerInv, CustodyInv
<1>2. entry' = entry /\ now' = now /\ token[m].escrow = None
  BY DEF TransferToken
<1>3. UNCHANGED <<LedgerHolder, LedgerElapsed, LedgerRequested>>
  BY <1>2 DEF LedgerHolder, LedgerElapsed, LedgerRequested, ElapsedSeconds,
     SecondsIncreased
<1>4. LedgerOwner' = [LedgerOwner EXCEPT ![m] = u]
  BY <1>1 DEF LedgerOwner, TransferToken, TypeOK
<1>5. \A e \in Entries : MintOf(e) = m => LedgerHolder[e] = None
  BY <1>1, <1>2 DEF CustodyInv, StakedTokenRecoverable, NothingLockedForNobody,
     IsStaked, LedgerHolder
<1>6. Ledger!Transfer(m, u)
  BY <1>3, <1>4, <1>5 DEF Ledger!Transfer, LedgerOwner, MintOf
<1>7. ClockInv'
  BY <1>1, <1>2 DEF ClockInv, EntryClock
<1> QED
  BY <1>6, <1>7 DEF LedgerStep, Ledger!Next

(* Pools, discounts, records and the payment info are not in the ledger. *)
LEMMA UnseenStep ==
    ASSUME LedgerInv, UNCHANGED <<entry, token, now>>
    PROVE  ClockInv' /\ LedgerStep
<1>1. ClockInv' /\ UNCHANGED <<LedgerHolder, LedgerElapsed, LedgerRequested, LedgerOwner>>
  BY DEF LedgerInv, ClockInv, EntryClock, LedgerHolder, LedgerElapsed,
     LedgerRequested, LedgerOwner, ElapsedSeconds, SecondsIncreased
<1> QED
  BY <1>1 DEF LedgerStep, Ledger!vars, LedgerOwner

-----------------------------------------------------------------------------
(* The initial states, the steps, and the specification. *)

LEMMA LedgerInit ==
    Init => LedgerInv /\ Ledger!Init
<1> SUFFICES ASSUME Init PROVE LedgerInv /\ Ledger!Init
  OBVIOUS
<1>1. LedgerInv
  BY CustodyInit DEF LedgerInv, ClockInv, Init
<1>2. LedgerHolder = [e \in Entries |-> None] /\ LedgerRequested = {}
      /\ LedgerElapsed = [e \in Entries |-> 0]
  BY DEF Init, LedgerHolder, LedgerRequested, LedgerElapsed
<1>3. LedgerOwner \in [Mints -> Users]
  BY DEF Init, LedgerOwner
<1> QED
  BY <1>1, <1>2, <1>3 DEF Ledger!Init, LedgerOwner

LEMMA LedgerNext ==
    ASSUME ExclusiveEntries, LedgerInv, [Next]_vars
    PROVE  LedgerInv' /\ LedgerStep
<1>1. CustodyInv'
  BY CustodyNext DEF LedgerInv
<1>2. ASSUME NEW a \in Users, PoolStep(a)
      PROVE  ClockInv' /\ LedgerStep
  <2>1. UNCHANGED <<entry, token, now>>
    BY <1>2 DEF PoolStep, InitDiscount, InitPool, UpdatePool, CloseStakePool,
       AuthorizeMint, DeauthorizeMint
  <2> QED
    BY <2>1, UnseenStep
<1>3. ASSUME NEW u \in Users, EntryStep(u)
      PROVE  ClockInv' /\ LedgerStep
  BY <1>3, InitEntryStep, StakeStep, UnstakeStep, UpdateStep, ResetStep,
     CloseEntryStep DEF EntryStep
<1>4. ASSUME NEW m \in Mints, NEW u \in Users, TransferToken(m, u)
      PROVE  ClockInv' /\ LedgerStep
  BY <1>4, TransferStep
<1>5. CASE Tick
  BY <1>1, <1>5, TickStep DEF LedgerInv
<1>6. CASE \E i \in Payments : SetPaymentInfo(i)
  BY <1>1, <1>6, UnseenStep DEF SetPaymentInfo, LedgerInv
<1>7. CASE UNCHANGED vars
  BY <1>1, <1>7, UnseenStep DEF vars, LedgerInv
<1> QED
  BY <1>1, <1>2, <1>3, <1>4, <1>5, <1>6, <1>7 DEF LedgerInv, Next

(* When no two pools share a token, the accounts implement the ledger: the *)
(* stored seconds plus those not credited yet are an exact stopwatch of    *)
(* every stake, for any number of users, pools, tokens and settings, and   *)
(* tokens and stakes move only as the ledger allows.                       *)
THEOREM StakePoolImplementsLedger ==
    ASSUME ExclusiveEntries
    PROVE  Spec => ImplementsLedger
<1>1. Init => LedgerInv /\ Ledger!Init
  BY LedgerInit
<1>2. LedgerInv /\ [Next]_vars => LedgerInv' /\ [Ledger!Next]_(Ledger!vars)
  BY LedgerNext DEF LedgerStep
<1> QED
  BY <1>1, <1>2, PTL DEF Spec, ImplementsLedger, Ledger!Spec

=============================================================================
