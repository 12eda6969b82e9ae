-------------------------- MODULE StakePoolProofs --------------------------
(***************************************************************************)
(* Proofs about StakePool for every set of users, pools, mints and terms:   *)
(* type correctness, and the custody and counting invariants.              *)
(***************************************************************************)
EXTENDS StakePool, FiniteSetTheorems, TLAPS

-----------------------------------------------------------------------------
(* Updates of a stake entry.                                               *)

(* The seconds still to be credited are a natural number. *)
LEMMA SecondsIncreasedNat ==
    ASSUME TypeOK, NEW s \in EntryAccount
    PROVE  SecondsIncreased(s) \in Nat
<1> DEFINE until == IF s.cooldown_start_seconds = None
                    THEN now ELSE s.cooldown_start_seconds
           x == SaturatingSub(until, s.last_updated_at)
<1>1. until \in Nat /\ s.last_updated_at \in Nat /\ s.amount \in Nat
  BY DEF TypeOK, EntryAccount
<1>2. x \in Nat
  BY <1>1 DEF SaturatingSub
<1>3. x * s.amount \in Nat
  BY <1>1, <1>2
<1> QED
  BY <1>3 DEF SecondsIncreased

(* increment_total_stake_seconds keeps every field but the two it sets. *)
LEMMA IncrementFacts ==
    ASSUME TypeOK, NEW s \in EntryAccount
    PROVE  LET i == IncrementTotalStakeSeconds(s)
           IN  /\ i \in EntryAccount
               /\ i.amount = s.amount
               /\ i.last_staker = s.last_staker
               /\ i.cooldown_start_seconds = s.cooldown_start_seconds
               /\ i.total_stake_seconds = s.total_stake_seconds + SecondsIncreased(s)
               /\ i.last_updated_at = now
<1>1. SecondsIncreased(s) \in Nat
  BY SecondsIncreasedNat
<1>2. s.total_stake_seconds + SecondsIncreased(s) \in Nat
  BY <1>1 DEF EntryAccount
<1> QED
  BY <1>1, <1>2 DEF TypeOK, IncrementTotalStakeSeconds, EntryAccount

(* A stake on an empty entry names its staker and starts its clock. *)
LEMMA AfterStakeFacts ==
    ASSUME TypeOK, NEW s \in EntryAccount, NEW u \in Users
    PROVE  LET i == AfterStake(s, u)
           IN  /\ i \in EntryAccount
               /\ i.amount = s.amount + 1
               /\ i.last_staker = u
               /\ s.amount = 0 =>
                    /\ i.cooldown_start_seconds = s.cooldown_start_seconds
                    /\ i.total_stake_seconds = s.total_stake_seconds
               /\ i.last_updated_at = now
<1>1. IncrementTotalStakeSeconds(s) \in EntryAccount
      /\ IncrementTotalStakeSeconds(s).amount = s.amount
  BY IncrementFacts
<1> DEFINE before == IF s.amount # 0
                     THEN [IncrementTotalStakeSeconds(s)
                              EXCEPT !.cooldown_start_seconds = None]
                     ELSE s
<1>2. before \in EntryAccount /\ before.amount = s.amount
      /\ (s.amount = 0 => before = s)
  BY <1>1 DEF EntryAccount
<1> HIDE DEF before
<1>3. now \in Nat
  BY DEF TypeOK
<1> DEFINE i == [before EXCEPT !.last_staker = u, !.last_staked_at = now,
                               !.last_updated_at = now, !.amount = @ + 1]
<1>4. before.amount \in Nat /\ before.amount + 1 \in Nat
  BY <1>2 DEF EntryAccount
<1>5. i \in EntryAccount
  BY <1>2, <1>3, <1>4 DEF EntryAccount
<1>6. /\ i.amount = before.amount + 1
      /\ i.last_staker = u
      /\ i.cooldown_start_seconds = before.cooldown_start_seconds
      /\ i.total_stake_seconds = before.total_stake_seconds
      /\ i.last_updated_at = now
  BY <1>2 DEF EntryAccount
<1>7. i = AfterStake(s, u)
  BY DEF AfterStake, before
<1> HIDE DEF i
<1> QED
  BY <1>2, <1>5, <1>6, <1>7

(* An unstake empties the entry and credits its seconds, or clears them. *)
LEMMA AfterUnstakeFacts ==
    ASSUME TypeOK, NEW s \in EntryAccount, NEW reset \in BOOLEAN
    PROVE  LET i == AfterUnstake(s, reset)
           IN  /\ i \in EntryAccount
               /\ i.amount = 0
               /\ i.last_staker = None
               /\ i.cooldown_start_seconds = None
               /\ i.total_stake_seconds =
                     IF reset THEN 0 ELSE s.total_stake_seconds + SecondsIncreased(s)
               /\ i.last_updated_at = now
<1> DEFINE j == IncrementTotalStakeSeconds(s)
<1>1. j \in EntryAccount
      /\ j.total_stake_seconds = s.total_stake_seconds + SecondsIncreased(s)
      /\ j.last_updated_at = now
  BY IncrementFacts
<1>2. AfterUnstake(s, reset) =
         [j EXCEPT !.last_staker = None, !.amount = 0,
                   !.cooldown_start_seconds = None,
                   !.total_stake_seconds = IF reset THEN 0 ELSE @]
  BY DEF AfterUnstake
<1> HIDE DEF j
<1> DEFINE total == IF reset THEN 0 ELSE j.total_stake_seconds
           i == [j EXCEPT !.last_staker = None, !.amount = 0,
                          !.cooldown_start_seconds = None,
                          !.total_stake_seconds = total]
<1>3. j.total_stake_seconds \in Nat
  BY <1>1 DEF EntryAccount
<1>4. total \in Nat
  BY <1>3
<1>5. AfterUnstake(s, reset) = i
  BY <1>1, <1>2 DEF EntryAccount
<1> HIDE DEF total
<1>6. i \in EntryAccount
  BY <1>1, <1>4 DEF EntryAccount
<1>7. /\ i.amount = 0
      /\ i.last_staker = None
      /\ i.cooldown_start_seconds = None
      /\ i.total_stake_seconds = total
      /\ i.last_updated_at = now
  BY <1>1 DEF EntryAccount
<1> QED
  BY <1>1, <1>5, <1>6, <1>7 DEF total

-----------------------------------------------------------------------------
(* Type correctness.                                                       *)

LEMMA PaymentType ==
    ASSUME TypeOK, NEW u \in Users, HandlePaymentInfo(u)
    PROVE  funds' \in [Users -> Nat]
<1>1. funds[u] \in Nat /\ payment.price \in Nat
  BY DEF HandlePaymentInfo, CanPay, PaymentAccount, TypeOK
<1>2. funds[u] - payment.price \in Nat
  BY <1>1 DEF HandlePaymentInfo, CanPay
<1> QED
  BY <1>2 DEF HandlePaymentInfo, TypeOK

(* A pair for which an authorization record may exist. *)
LEMMA RecordOfPair ==
    ASSUME NEW r \in Records
    PROVE  /\ PoolOf(r) \in Pools /\ MintOf(r) \in Mints
           /\ <<PoolOf(r), MintOf(r)>> = r
BY StakePoolAssumption DEF PoolOf, MintOf

LEMMA TypeInit == Init => TypeOK
BY StakePoolAssumption DEF Init, TypeOK

LEMMA TypeNext == TypeOK /\ [Next]_vars => TypeOK'
<1> SUFFICES ASSUME TypeOK, [Next]_vars PROVE TypeOK'
  OBVIOUS
<1>1. ASSUME NEW d \in Discounts, NEW str \in {"discount", "other"}, InitDiscount(d, str)
      PROVE  TypeOK'
  BY <1>1 DEF InitDiscount, TypeOK
<1>2. ASSUME NEW a \in Users, NEW p \in Pools, NEW d \in Discounts, NEW t \in Terms,
             InitPool(a, p, d, t)
      PROVE  TypeOK'
  <2>1. [terms |-> t, total_staked |-> 0] \in PoolAccount
    BY StakePoolAssumption DEF PoolAccount
  <2>2. pool' \in [Pools -> PoolAccount \cup {None}]
    BY <1>2, <2>1 DEF InitPool, TypeOK
  <2>3. PoolFee(d) \in Nat /\ funds[a] \in Nat
    BY StakePoolAssumption DEF PoolFee, TypeOK
  <2>4. funds' \in [Users -> Nat]
    BY <1>2, <2>3 DEF InitPool, TypeOK
  <2> QED
    BY <1>2, <2>2, <2>4 DEF InitPool, TypeOK
<1>3. ASSUME NEW a \in Users, NEW p \in Pools, NEW t \in Terms, UpdatePool(a, p, t)
      PROVE  TypeOK'
  <2>1. pool[p] \in PoolAccount /\ t \in PoolTerms
    BY <1>3, StakePoolAssumption DEF UpdatePool, IsAuthority, TypeOK
  <2>2. [pool[p] EXCEPT !.terms = t] \in PoolAccount
    BY <2>1 DEF PoolAccount
  <2> QED
    BY <1>3, <2>2 DEF UpdatePool, TypeOK
<1>4. ASSUME NEW a \in Users, NEW p \in Pools, CloseStakePool(a, p)
      PROVE  TypeOK'
  BY <1>4 DEF CloseStakePool, TypeOK
<1>5. ASSUME NEW a \in Users, NEW p \in Pools, NEW m \in Mints,
             <<p, m>> \in Records, AuthorizeMint(a, p, m) \/ DeauthorizeMint(a, p, m)
      PROVE  TypeOK'
  BY <1>5 DEF AuthorizeMint, DeauthorizeMint, TypeOK
<1>6. ASSUME NEW e \in Entries, InitEntry(e)
      PROVE  TypeOK'
  BY <1>6 DEF InitEntry, TypeOK, EntryAccount
<1>7. ASSUME NEW u \in Users, NEW payer \in Users, NEW e \in Entries,
             StakePNFT(u, payer, e)
      PROVE  TypeOK'
  <2> DEFINE p == PoolOf(e)
             m == MintOf(e)
  <2>1. p \in Pools /\ m \in Mints
    BY StakePoolAssumption DEF PoolOf, MintOf
  <2>2. pool[p] \in PoolAccount /\ entry[e] \in EntryAccount
    BY <1>7, <2>1 DEF StakePNFT, TypeOK
  <2>3. AfterStake(entry[e], u) \in EntryAccount
    BY <2>2, AfterStakeFacts
  <2>4. entry' \in [Entries -> EntryAccount \cup {None}]
    BY <1>7, <2>3 DEF StakePNFT, TypeOK
  <2>5. [pool[p] EXCEPT !.total_staked = @ + 1] \in PoolAccount
    BY <2>2 DEF PoolAccount
  <2>6. pool' \in [Pools -> PoolAccount \cup {None}]
    BY <1>7, <2>1, <2>5 DEF StakePNFT, TypeOK
  <2>7. funds' \in [Users -> Nat]
    BY <1>7, PaymentType DEF StakePNFT
  <2>8. token' \in [Mints -> [owner : Users, escrow : Users \cup {None}]]
    BY <1>7, <2>1 DEF StakePNFT, TypeOK
  <2> QED
    BY <1>7, <2>4, <2>6, <2>7, <2>8 DEF StakePNFT, TypeOK
<1>8. ASSUME NEW u \in Users, NEW payer \in Users, NEW e \in Entries,
             UnstakePNFT(u, payer, e)
      PROVE  TypeOK'
  <2> DEFINE p == PoolOf(e)
             m == MintOf(e)
  <2>1. p \in Pools /\ m \in Mints
    BY StakePoolAssumption DEF PoolOf, MintOf
  <2>2. pool[p] \in PoolAccount /\ entry[e] \in EntryAccount
    BY <1>8, <2>1 DEF UnstakePNFT, TypeOK
  <2>3. CASE StartCooldown(e) /\ UNCHANGED funds
    <3>1. [entry[e] EXCEPT !.cooldown_start_seconds = now] \in EntryAccount
      BY <2>2 DEF EntryAccount, TypeOK
    <3> QED
      BY <1>8, <2>3, <3>1 DEF UnstakePNFT, StartCooldown, TypeOK
  <2>4. CASE CompleteUnstake(u, payer, e)
    <3>1. pool[p].terms.reset_on_unstake \in BOOLEAN
      BY <2>2 DEF PoolAccount, PoolTerms
    <3>2. AfterUnstake(entry[e], pool[p].terms.reset_on_unstake) \in EntryAccount
      BY <2>2, <3>1, AfterUnstakeFacts
    <3>3. entry' \in [Entries -> EntryAccount \cup {None}]
      BY <2>4, <3>2 DEF CompleteUnstake, TypeOK
    <3>4. [pool[p] EXCEPT !.total_staked = @ - 1] \in PoolAccount
      BY <2>2, <2>4 DEF PoolAccount, CompleteUnstake
    <3>5. pool' \in [Pools -> PoolAccount \cup {None}]
      BY <2>1, <2>4, <3>4 DEF CompleteUnstake, TypeOK
    <3>6. funds' \in [Users -> Nat]
      BY <2>4, PaymentType DEF CompleteUnstake
    <3>7. token' \in [Mints -> [owner : Users, escrow : Users \cup {None}]]
      BY <2>1, <2>4 DEF CompleteUnstake, TypeOK
    <3> QED
      BY <1>8, <3>3, <3>5, <3>6, <3>7 DEF UnstakePNFT, TypeOK
  <2> QED
    BY <1>8, <2>3, <2>4 DEF UnstakePNFT
<1>9. ASSUME NEW e \in Entries, UpdateTotalStakeSeconds(e)
      PROVE  TypeOK'
  <2>1. IncrementTotalStakeSeconds(entry[e]) \in EntryAccount
    BY <1>9, IncrementFacts DEF UpdateTotalStakeSeconds, TypeOK
  <2> QED
    BY <1>9, <2>1 DEF UpdateTotalStakeSeconds, TypeOK
<1>10. ASSUME NEW a \in Users, NEW e \in Entries, ResetStakeEntry(a, e)
       PROVE  TypeOK'
  <2>1. entry[e] \in EntryAccount
    BY <1>10 DEF ResetStakeEntry, TypeOK
  <2>2. [entry[e] EXCEPT !.total_stake_seconds = 0, !.last_updated_at = now,
                         !.last_staked_at = now, !.cooldown_start_seconds = None]
           \in EntryAccount
    BY <2>1 DEF EntryAccount, TypeOK
  <2> QED
    BY <1>10, <2>2 DEF ResetStakeEntry, TypeOK
<1>11. ASSUME NEW a \in Users, NEW e \in Entries, CloseStakeEntry(a, e)
       PROVE  TypeOK'
  BY <1>11 DEF CloseStakeEntry, TypeOK
<1>12. ASSUME NEW m \in Mints, NEW u \in Users, TransferToken(m, u)
       PROVE  TypeOK'
  BY <1>12 DEF TransferToken, TypeOK
<1>13. ASSUME Tick
       PROVE  TypeOK'
  BY <1>13 DEF Tick, TypeOK
<1>14. ASSUME NEW i \in Payments, SetPaymentInfo(i)
       PROVE  TypeOK'
  BY <1>14, StakePoolAssumption DEF SetPaymentInfo, TypeOK
<1>15. CASE UNCHANGED vars
  BY <1>15 DEF vars, TypeOK
<1> QED
  BY <1>1, <1>2, <1>3, <1>4, <1>5, <1>6, <1>7, <1>8, <1>9, <1>10, <1>11, <1>12,
     <1>13, <1>14, <1>15, RecordOfPair DEF Next, PoolStep, EntryStep

(* Every account keeps values of its type: no instruction leaves a field  *)
(* negative or a partly written account.                                  *)
THEOREM TypeCorrect == Spec => []TypeOK
BY TypeInit, TypeNext, PTL DEF Spec

-----------------------------------------------------------------------------
(* Custody.  The four invariants hold together: an unstake succeeds only on *)
(* a staked entry because no token is locked for nobody, the count stays    *)
(* positive because it is exact, and a pool closes only when it is empty.   *)

CustodyInv ==
    /\ TypeOK
    /\ StakedTokenRecoverable
    /\ NothingLockedForNobody
    /\ TotalStakedExact

LEMMA StakedEntriesFinite ==
    ASSUME NEW p
    PROVE  /\ IsFiniteSet(StakedEntries(p))
           /\ Cardinality(StakedEntries(p)) \in Nat
<1>1. StakedEntries(p) \in SUBSET Entries
  BY DEF StakedEntries
<1>2. IsFiniteSet(Entries)
  BY StakePoolAssumption
<1>3. IsFiniteSet(StakedEntries(p))
  BY <1>1, <1>2, FS_Subset
<1> QED
  BY <1>3, FS_CardinalityType

(* An instruction that leaves the stakes and the tokens alone, and opens   *)
(* or closes pools only when they are empty, keeps the invariant.          *)
SameStakes ==
    \A e \in Entries :
        /\ IsStaked(e)' <=> IsStaked(e)
        /\ IsStaked(e) => /\ entry'[e].amount = entry[e].amount
                          /\ entry'[e].last_staker = entry[e].last_staker
        /\ entry'[e] # None /\ ~IsStaked(e)' => entry'[e].last_staker = None

PoolsOpenedEmpty ==
    \A p \in Pools : pool'[p] # None =>
        \/ pool[p] # None /\ pool'[p].total_staked = pool[p].total_staked
        \/ StakedEntries(p) = {} /\ pool'[p].total_staked = 0

PoolsClosedEmpty ==
    \A p \in Pools : pool[p] # None /\ pool'[p] = None => StakedEntries(p) = {}

LEMMA CustodyFrame ==
    ASSUME CustodyInv, TypeOK', SameStakes, PoolsOpenedEmpty, PoolsClosedEmpty,
           token' = token
    PROVE  CustodyInv'
<1>1. ASSUME NEW e \in Entries PROVE PoolOf(e) \in Pools /\ MintOf(e) \in Mints
  BY StakePoolAssumption DEF PoolOf, MintOf
<1>2. StakedTokenRecoverable'
  <2> SUFFICES ASSUME NEW e \in Entries, IsStaked(e)'
               PROVE  /\ entry'[e].amount = 1
                      /\ entry'[e].last_staker # None
                      /\ token'[MintOf(e)].owner = entry'[e].last_staker
                      /\ token'[MintOf(e)].escrow = entry'[e].last_staker
                      /\ pool'[PoolOf(e)] # None
    BY DEF StakedTokenRecoverable, MintOf, PoolOf
  <2>1. IsStaked(e)
    BY DEF SameStakes
  <2>2. e \in StakedEntries(PoolOf(e))
    BY <2>1 DEF StakedEntries
  <2>3. pool'[PoolOf(e)] # None
    BY <1>1, <2>1, <2>2 DEF PoolsClosedEmpty, CustodyInv, StakedTokenRecoverable
  <2> QED
    BY <2>1, <2>3 DEF SameStakes, CustodyInv, StakedTokenRecoverable
<1>3. NothingLockedForNobody'
  <2>1. ASSUME NEW m \in Mints, token'[m].escrow # None
        PROVE  \E e \in Entries : MintOf(e) = m /\ IsStaked(e)'
    BY <2>1 DEF SameStakes, CustodyInv, NothingLockedForNobody
  <2> QED
    BY <2>1 DEF NothingLockedForNobody, SameStakes, MintOf
<1>4. TotalStakedExact'
  <2> SUFFICES ASSUME NEW p \in Pools, pool'[p] # None
               PROVE  pool'[p].total_staked = Cardinality(StakedEntries(p)')
    BY DEF TotalStakedExact
  <2>1. StakedEntries(p)' = StakedEntries(p)
    BY DEF StakedEntries, SameStakes, PoolOf
  <2> QED
    BY <2>1, FS_EmptySet DEF PoolsOpenedEmpty, CustodyInv, TotalStakedExact
<1> QED
  BY <1>2, <1>3, <1>4 DEF CustodyInv

LEMMA CustodyInit == Init => CustodyInv
<1> SUFFICES ASSUME Init PROVE CustodyInv
  OBVIOUS
<1>1. \A e \in Entries : entry[e] = None
  BY DEF Init
<1>2. \A m \in Mints : token[m].escrow = None
  BY DEF Init
<1>3. \A p \in Pools : pool[p] = None
  BY DEF Init
<1> QED
  BY <1>1, <1>2, <1>3, TypeInit DEF CustodyInv, StakedTokenRecoverable,
     NothingLockedForNobody, TotalStakedExact, IsStaked

(* An entry without a stake, which may not exist yet, becomes the stake i   *)
(* of u, whose token is locked.                                            *)
LEMMA CustodyOfStake ==
    ASSUME ExclusiveEntries, CustodyInv, TypeOK',
           NEW u \in Users, NEW e \in Entries, NEW i \in EntryAccount,
           i.amount = 1, i.last_staker = u, ~IsStaked(e),
           pool[PoolOf(e)] # None, token[MintOf(e)].owner = u,
           entry' = [entry EXCEPT ![e] = i],
           pool' = [pool EXCEPT ![PoolOf(e)].total_staked = @ + 1],
           token' = [token EXCEPT ![MintOf(e)].escrow = u]
    PROVE  CustodyInv'
<1> DEFINE p == PoolOf(e)
           m == MintOf(e)
<1>1. p \in Pools /\ m \in Mints
  BY StakePoolAssumption DEF PoolOf, MintOf
<1>2. pool[p] \in PoolAccount /\ u # None
  BY <1>1, StakePoolAssumption DEF CustodyInv, TypeOK
<1>5. entry \in [Entries -> EntryAccount \cup {None}]
  BY DEF CustodyInv, TypeOK
<1>6. entry'[e].amount = 1 /\ entry'[e].last_staker = u /\ entry'[e] # None
  BY <1>5, StakePoolAssumption
<1>7. \A f \in Entries \ {e} : entry'[f] = entry[f]
  BY <1>5
<1>8. \A f \in Entries \ {e} : MintOf(f) # m
  BY DEF ExclusiveEntries
<1>9. /\ token'[m].owner = u /\ token'[m].escrow = u
      /\ \A n \in Mints \ {m} : token'[n] = token[n]
  BY <1>1 DEF CustodyInv, TypeOK
<1>10. /\ pool'[p] # None /\ pool'[p].total_staked = pool[p].total_staked + 1
       /\ \A q \in Pools \ {p} : pool'[q] = pool[q]
  <2>1. [pool[p] EXCEPT !.total_staked = @ + 1] \in PoolAccount
    BY <1>2 DEF PoolAccount
  <2>2. [pool[p] EXCEPT !.total_staked = @ + 1].total_staked = pool[p].total_staked + 1
    BY <1>2 DEF PoolAccount
  <2> QED
    BY <1>1, <2>1, <2>2, StakePoolAssumption DEF CustodyInv, TypeOK
<1>11. StakedTokenRecoverable'
  <2> SUFFICES ASSUME NEW f \in Entries, IsStaked(f)'
               PROVE  /\ entry'[f].amount = 1
                      /\ entry'[f].last_staker # None
                      /\ token'[MintOf(f)].owner = entry'[f].last_staker
                      /\ token'[MintOf(f)].escrow = entry'[f].last_staker
                      /\ pool'[PoolOf(f)] # None
    BY DEF StakedTokenRecoverable, MintOf, PoolOf
  <2>1. CASE f = e
    BY <2>1, <1>2, <1>6, <1>9, <1>10
  <2>2. CASE f # e
    <3>1. IsStaked(f) /\ entry'[f] = entry[f]
      BY <2>2, <1>7 DEF IsStaked
    <3>2. MintOf(f) \in Mints \ {m} /\ PoolOf(f) \in Pools
      BY <2>2, <1>8, StakePoolAssumption DEF MintOf, PoolOf
    <3> QED
      BY <3>1, <3>2, <1>9, <1>10 DEF CustodyInv, StakedTokenRecoverable
  <2> QED
    BY <2>1, <2>2
<1>12. NothingLockedForNobody'
  <2>1. ASSUME NEW n \in Mints, token'[n].escrow # None
        PROVE  \E f \in Entries : MintOf(f) = n /\ IsStaked(f)'
    <3>1. CASE n = m
      BY <3>1, <1>6 DEF IsStaked
    <3>2. CASE n # m
      <4>1. PICK f \in Entries : MintOf(f) = n /\ IsStaked(f)
        BY <2>1, <3>2, <1>9 DEF CustodyInv, NothingLockedForNobody
      <4>2. f # e
        BY <3>2, <4>1
      <4> QED
        BY <4>1, <4>2, <1>7 DEF IsStaked
    <3> QED
      BY <3>1, <3>2
  <2>2. ASSUME NEW f \in Entries, entry'[f] # None, ~IsStaked(f)'
        PROVE  entry'[f].last_staker = None
    BY <2>2, <1>6, <1>7 DEF IsStaked, CustodyInv, NothingLockedForNobody
  <2> QED
    BY <2>1, <2>2 DEF NothingLockedForNobody, MintOf
<1>13. TotalStakedExact'
  <2> SUFFICES ASSUME NEW q \in Pools, pool'[q] # None
               PROVE  pool'[q].total_staked = Cardinality(StakedEntries(q)')
    BY DEF TotalStakedExact
  <2>1. CASE q = p
    <3>1. StakedEntries(p)' = StakedEntries(p) \cup {e}
      BY <1>6, <1>7 DEF StakedEntries, IsStaked, PoolOf
    <3>2. e \notin StakedEntries(p)
      BY DEF StakedEntries
    <3>3. Cardinality(StakedEntries(p) \cup {e}) = Cardinality(StakedEntries(p)) + 1
      BY <3>2, StakedEntriesFinite, FS_AddElement
    <3>4. pool[p].total_staked = Cardinality(StakedEntries(p))
      BY <1>1 DEF CustodyInv, TotalStakedExact
    <3> QED
      BY <2>1, <3>1, <3>3, <3>4, <1>10
  <2>2. CASE q # p
    <3>1. StakedEntries(q)' = StakedEntries(q)
      BY <2>2, <1>7 DEF StakedEntries, IsStaked, PoolOf
    <3> QED
      BY <2>2, <3>1, <1>10 DEF CustodyInv, TotalStakedExact
  <2> QED
    BY <2>1, <2>2
<1> QED
  BY <1>11, <1>12, <1>13 DEF CustodyInv

(* A stake of a token no escrow holds goes to an entry that is empty. *)
LEMMA CustodyStake ==
    ASSUME ExclusiveEntries, CustodyInv, TypeOK',
           NEW u \in Users, NEW payer \in Users, NEW e \in Entries,
             StakePNFT(u, payer, e)
    PROVE  CustodyInv'
<1>1. entry[e] \in EntryAccount /\ u # None
  BY StakePoolAssumption DEF StakePNFT, CustodyInv, TypeOK
<1>2. entry[e].amount = 0
  BY <1>1 DEF StakePNFT, CustodyInv, StakedTokenRecoverable, IsStaked
<1>3. /\ AfterStake(entry[e], u) \in EntryAccount
      /\ AfterStake(entry[e], u).amount = 1
      /\ AfterStake(entry[e], u).last_staker = u
  BY <1>1, <1>2, AfterStakeFacts DEF CustodyInv
<1>4. ~IsStaked(e)
  BY <1>2 DEF IsStaked
<1> QED
  BY <1>3, <1>4, CustodyOfStake DEF StakePNFT

(* The token of an entry is locked for the staker of that entry only. *)
LEMMA UnstakeIsOfStaker ==
    ASSUME ExclusiveEntries, CustodyInv, NEW u \in Users, NEW e \in Entries,
           token[MintOf(e)].escrow = u
    PROVE  IsStaked(e) /\ entry[e].last_staker = u
<1>1. MintOf(e) \in Mints
  BY StakePoolAssumption DEF MintOf
<1>2. u # None
  BY StakePoolAssumption
<1>3. PICK f \in Entries : MintOf(f) = MintOf(e) /\ IsStaked(f)
  BY <1>1, <1>2 DEF CustodyInv, NothingLockedForNobody
<1>4. f = e
  BY <1>3 DEF ExclusiveEntries
<1> QED
  BY <1>2, <1>3, <1>4 DEF CustodyInv, StakedTokenRecoverable

(* A staked entry becomes i, without a stake, and its token is unlocked. *)
LEMMA CustodyOfUnstake ==
    ASSUME ExclusiveEntries, CustodyInv, TypeOK',
           NEW e \in Entries, NEW i \in EntryAccount,
           i.amount = 0, i.last_staker = None, IsStaked(e),
           pool[PoolOf(e)].total_staked > 0,
           entry' = [entry EXCEPT ![e] = i],
           pool' = [pool EXCEPT ![PoolOf(e)].total_staked = @ - 1],
           token' = [token EXCEPT ![MintOf(e)].escrow = None]
    PROVE  CustodyInv'
<1> DEFINE p == PoolOf(e)
           m == MintOf(e)
<1>1. p \in Pools /\ m \in Mints
  BY StakePoolAssumption DEF PoolOf, MintOf
<1>2. pool[p] \in PoolAccount /\ pool[p] # None
  BY <1>1 DEF CustodyInv, TypeOK, StakedTokenRecoverable
<1>3. IsStaked(e)
  OBVIOUS
<1>5. entry \in [Entries -> EntryAccount \cup {None}]
  BY DEF CustodyInv, TypeOK
<1>6. entry'[e].amount = 0 /\ entry'[e].last_staker = None
  BY <1>5
<1>7. \A f \in Entries \ {e} : entry'[f] = entry[f]
  BY <1>5
<1>8. \A f \in Entries \ {e} : MintOf(f) # m
  BY DEF ExclusiveEntries
<1>9. /\ token'[m].escrow = None
      /\ \A n \in Mints \ {m} : token'[n] = token[n]
  BY <1>1 DEF CustodyInv, TypeOK
<1>10. /\ pool'[p] # None /\ pool'[p].total_staked = pool[p].total_staked - 1
       /\ \A q \in Pools \ {p} : pool'[q] = pool[q]
  <2>1. [pool[p] EXCEPT !.total_staked = @ - 1] \in PoolAccount
    BY <1>2 DEF PoolAccount
  <2>2. [pool[p] EXCEPT !.total_staked = @ - 1].total_staked = pool[p].total_staked - 1
    BY <1>2 DEF PoolAccount
  <2> QED
    BY <1>1, <2>1, <2>2, StakePoolAssumption DEF CustodyInv, TypeOK
<1>11. ~IsStaked(e)'
  BY <1>6 DEF IsStaked
<1>12. StakedTokenRecoverable'
  <2> SUFFICES ASSUME NEW f \in Entries, IsStaked(f)'
               PROVE  /\ entry'[f].amount = 1
                      /\ entry'[f].last_staker # None
                      /\ token'[MintOf(f)].owner = entry'[f].last_staker
                      /\ token'[MintOf(f)].escrow = entry'[f].last_staker
                      /\ pool'[PoolOf(f)] # None
    BY DEF StakedTokenRecoverable, MintOf, PoolOf
  <2>1. f # e
    BY <1>11
  <2>2. IsStaked(f) /\ entry'[f] = entry[f]
    BY <2>1, <1>7 DEF IsStaked
  <2>3. MintOf(f) \in Mints \ {m} /\ PoolOf(f) \in Pools
    BY <2>1, <1>8, StakePoolAssumption DEF MintOf, PoolOf
  <2> QED
    BY <2>2, <2>3, <1>9, <1>10 DEF CustodyInv, StakedTokenRecoverable
<1>13. NothingLockedForNobody'
  <2>1. ASSUME NEW n \in Mints, token'[n].escrow # None
        PROVE  \E f \in Entries : MintOf(f) = n /\ IsStaked(f)'
    <3>1. n # m
      BY <2>1, <1>9
    <3>2. PICK f \in Entries : MintOf(f) = n /\ IsStaked(f)
      BY <2>1, <3>1, <1>9 DEF CustodyInv, NothingLockedForNobody
    <3>3. f # e
      BY <3>1, <3>2
    <3> QED
      BY <3>2, <3>3, <1>7 DEF IsStaked
  <2>2. ASSUME NEW f \in Entries, entry'[f] # None, ~IsStaked(f)'
        PROVE  entry'[f].last_staker = None
    BY <2>2, <1>6, <1>7 DEF IsStaked, CustodyInv, NothingLockedForNobody
  <2> QED
    BY <2>1, <2>2 DEF NothingLockedForNobody, MintOf
<1>14. TotalStakedExact'
  <2> SUFFICES ASSUME NEW q \in Pools, pool'[q] # None
               PROVE  pool'[q].total_staked = Cardinality(StakedEntries(q)')
    BY DEF TotalStakedExact
  <2>1. CASE q = p
    <3>1. StakedEntries(p)' = StakedEntries(p) \ {e}
      BY <1>7, <1>11 DEF StakedEntries, IsStaked, PoolOf
    <3>2. e \in StakedEntries(p)
      BY <1>3 DEF StakedEntries
    <3>3. Cardinality(StakedEntries(p) \ {e}) = Cardinality(StakedEntries(p)) - 1
      BY <3>2, StakedEntriesFinite, FS_RemoveElement
    <3>4. pool[p].total_staked = Cardinality(StakedEntries(p))
      BY <1>1, <1>2 DEF CustodyInv, TotalStakedExact
    <3> QED
      BY <2>1, <3>1, <3>3, <3>4, <1>10
  <2>2. CASE q # p
    <3>1. StakedEntries(q)' = StakedEntries(q)
      BY <2>2, <1>7 DEF StakedEntries, IsStaked, PoolOf
    <3> QED
      BY <2>2, <3>1, <1>10 DEF CustodyInv, TotalStakedExact
  <2> QED
    BY <2>1, <2>2
<1> QED
  BY <1>12, <1>13, <1>14 DEF CustodyInv

LEMMA CustodyUnstake ==
    ASSUME ExclusiveEntries, CustodyInv, TypeOK',
           NEW u \in Users, NEW payer \in Users, NEW e \in Entries, entry[e] # None,
           pool[PoolOf(e)] # None, CompleteUnstake(u, payer, e)
    PROVE  CustodyInv'
<1> DEFINE reset == pool[PoolOf(e)].terms.reset_on_unstake
<1>1. entry[e] \in EntryAccount /\ reset \in BOOLEAN
  BY StakePoolAssumption DEF CustodyInv, TypeOK, PoolOf, PoolAccount, PoolTerms
<1>2. /\ AfterUnstake(entry[e], reset) \in EntryAccount
      /\ AfterUnstake(entry[e], reset).amount = 0
      /\ AfterUnstake(entry[e], reset).last_staker = None
  BY <1>1, AfterUnstakeFacts DEF CustodyInv
<1>3. IsStaked(e)
  BY UnstakeIsOfStaker DEF CompleteUnstake
<1> QED
  BY <1>2, <1>3, CustodyOfUnstake DEF CompleteUnstake

(* A transfer moves a token that no entry holds. *)
LEMMA CustodyTransfer ==
    ASSUME CustodyInv, TypeOK', NEW m \in Mints, NEW u \in Users, TransferToken(m, u)
    PROVE  CustodyInv'
<1>1. /\ \A n \in Mints \ {m} : token'[n] = token[n]
      /\ token'[m].escrow = token[m].escrow
      /\ entry' = entry /\ pool' = pool
  BY DEF TransferToken, CustodyInv, TypeOK
<1>2. \A e \in Entries : MintOf(e) \in Mints
  BY StakePoolAssumption DEF MintOf
<1>3. \A e \in Entries : MintOf(e) = m => ~IsStaked(e)
  BY DEF TransferToken, CustodyInv, StakedTokenRecoverable
<1>4. StakedTokenRecoverable'
  <2> SUFFICES ASSUME NEW e \in Entries, IsStaked(e)'
               PROVE  /\ entry'[e].amount = 1
                      /\ entry'[e].last_staker # None
                      /\ token'[MintOf(e)].owner = entry'[e].last_staker
                      /\ token'[MintOf(e)].escrow = entry'[e].last_staker
                      /\ pool'[PoolOf(e)] # None
    BY DEF StakedTokenRecoverable, MintOf, PoolOf
  <2>1. IsStaked(e)
    BY <1>1 DEF IsStaked
  <2>2. MintOf(e) \in Mints \ {m}
    BY <2>1, <1>2, <1>3
  <2> QED
    BY <2>1, <2>2, <1>1 DEF CustodyInv, StakedTokenRecoverable
<1>5. NothingLockedForNobody'
  <2>1. ASSUME NEW n \in Mints, token'[n].escrow # None
        PROVE  \E e \in Entries : MintOf(e) = n /\ IsStaked(e)'
    BY <2>1, <1>1 DEF CustodyInv, NothingLockedForNobody, IsStaked
  <2>2. ASSUME NEW e \in Entries, entry'[e] # None, ~IsStaked(e)'
        PROVE  entry'[e].last_staker = None
    BY <2>2, <1>1 DEF CustodyInv, NothingLockedForNobody, IsStaked
  <2> QED
    BY <2>1, <2>2 DEF NothingLockedForNobody, MintOf
<1>6. TotalStakedExact'
  <2>1. \A p : StakedEntries(p)' = StakedEntries(p)
    BY <1>1 DEF StakedEntries, IsStaked, PoolOf
  <2> QED
    BY <2>1, <1>1 DEF CustodyInv, TotalStakedExact
<1> QED
  BY <1>4, <1>5, <1>6 DEF CustodyInv

LEMMA CustodyNext == ExclusiveEntries /\ CustodyInv /\ [Next]_vars => CustodyInv'
<1> SUFFICES ASSUME ExclusiveEntries, CustodyInv, [Next]_vars PROVE CustodyInv'
  OBVIOUS
<1> USE TypeNext DEF CustodyInv
<1>0. TypeOK'
  BY DEF CustodyInv
<1>a. ASSUME entry' = entry PROVE SameStakes
  BY <1>a DEF SameStakes, IsStaked, NothingLockedForNobody
<1>b. ASSUME pool' = pool PROVE PoolsOpenedEmpty /\ PoolsClosedEmpty
  BY <1>b DEF PoolsOpenedEmpty, PoolsClosedEmpty
<1>1. ASSUME NEW d \in Discounts, NEW str \in {"discount", "other"}, InitDiscount(d, str)
      PROVE  CustodyInv'
  BY <1>0, <1>1, <1>a, <1>b, CustodyFrame DEF InitDiscount
<1>2. ASSUME NEW a \in Users, NEW p \in Pools, NEW d \in Discounts, NEW t \in Terms,
             InitPool(a, p, d, t)
      PROVE  CustodyInv'
  <2>1. StakedEntries(p) = {}
    BY <1>2 DEF InitPool, StakedEntries, StakedTokenRecoverable
  <2>2. pool' = [pool EXCEPT ![p] = [terms |-> t, total_staked |-> 0]]
        /\ pool \in [Pools -> PoolAccount \cup {None}]
        /\ [terms |-> t, total_staked |-> 0] \in PoolAccount
    BY <1>2, StakePoolAssumption DEF InitPool, TypeOK, PoolAccount
  <2>3. PoolsOpenedEmpty /\ PoolsClosedEmpty
    BY <2>1, <2>2, StakePoolAssumption DEF PoolsOpenedEmpty, PoolsClosedEmpty
  <2> QED
    BY <1>0, <1>2, <1>a, <2>3, CustodyFrame DEF InitPool
<1>3. ASSUME NEW a \in Users, NEW p \in Pools, NEW t \in Terms, UpdatePool(a, p, t)
      PROVE  CustodyInv'
  <2>1. pool[p] \in PoolAccount /\ t \in PoolTerms
    BY <1>3, StakePoolAssumption DEF UpdatePool, IsAuthority, TypeOK
  <2>2. /\ [pool[p] EXCEPT !.terms = t] \in PoolAccount
        /\ [pool[p] EXCEPT !.terms = t].total_staked = pool[p].total_staked
    BY <2>1 DEF PoolAccount
  <2>3. PoolsOpenedEmpty /\ PoolsClosedEmpty
    BY <1>3, <2>2, StakePoolAssumption
       DEF PoolsOpenedEmpty, PoolsClosedEmpty, UpdatePool, IsAuthority, TypeOK
  <2> QED
    BY <1>0, <1>3, <1>a, <2>3, CustodyFrame DEF UpdatePool
<1>4. ASSUME NEW a \in Users, NEW p \in Pools, CloseStakePool(a, p)
      PROVE  CustodyInv'
  <2>1. Cardinality(StakedEntries(p)) = 0
    BY <1>4 DEF CloseStakePool, IsAuthority, TotalStakedExact
  <2>2. StakedEntries(p) = {}
    BY <2>1, StakedEntriesFinite, FS_EmptySet
  <2>3. PoolsOpenedEmpty /\ PoolsClosedEmpty
    BY <1>4, <2>2 DEF PoolsOpenedEmpty, PoolsClosedEmpty, CloseStakePool, TypeOK
  <2> QED
    BY <1>0, <1>4, <1>a, <2>3, CustodyFrame DEF CloseStakePool
<1>5. ASSUME NEW a \in Users, NEW p \in Pools, NEW m \in Mints,
             AuthorizeMint(a, p, m) \/ DeauthorizeMint(a, p, m)
      PROVE  CustodyInv'
  BY <1>0, <1>5, <1>a, <1>b, CustodyFrame DEF AuthorizeMint, DeauthorizeMint
<1>6. ASSUME NEW e \in Entries, InitEntry(e)
      PROVE  CustodyInv'
  <2>1. SameStakes
    BY <1>6 DEF InitEntry, SameStakes, IsStaked, TypeOK, NothingLockedForNobody
  <2> QED
    BY <1>0, <1>6, <2>1, <1>b, CustodyFrame DEF InitEntry
<1>7. ASSUME NEW u \in Users, NEW payer \in Users, NEW e \in Entries,
             StakePNFT(u, payer, e)
      PROVE  CustodyInv'
  BY <1>0, <1>7, CustodyStake
<1>8. ASSUME NEW u \in Users, NEW payer \in Users, NEW e \in Entries,
             UnstakePNFT(u, payer, e)
      PROVE  CustodyInv'
  <2>1. CASE StartCooldown(e)
    <3>1. entry[e] \in EntryAccount
      BY <1>8 DEF UnstakePNFT, TypeOK
    <3>2. /\ [entry[e] EXCEPT !.cooldown_start_seconds = now] \in EntryAccount
          /\ [entry[e] EXCEPT !.cooldown_start_seconds = now].amount = entry[e].amount
          /\ [entry[e] EXCEPT !.cooldown_start_seconds = now].last_staker
                = entry[e].last_staker
      BY <3>1 DEF EntryAccount, TypeOK
    <3>3. SameStakes
      BY <1>8, <2>1, <3>2, StakePoolAssumption DEF UnstakePNFT, StartCooldown,
         SameStakes, IsStaked, TypeOK, NothingLockedForNobody
    <3> QED
      BY <1>0, <2>1, <3>3, <1>b, CustodyFrame DEF StartCooldown
  <2>2. CASE CompleteUnstake(u, payer, e)
    BY <1>0, <1>8, <2>2, CustodyUnstake DEF UnstakePNFT
  <2> QED
    BY <1>8, <2>1, <2>2 DEF UnstakePNFT
<1>9. ASSUME NEW e \in Entries, UpdateTotalStakeSeconds(e)
      PROVE  CustodyInv'
  <2>1. /\ IncrementTotalStakeSeconds(entry[e]) \in EntryAccount
        /\ IncrementTotalStakeSeconds(entry[e]).amount = entry[e].amount
        /\ IncrementTotalStakeSeconds(entry[e]).last_staker = entry[e].last_staker
    BY <1>9, IncrementFacts DEF UpdateTotalStakeSeconds, TypeOK
  <2>2. SameStakes
    BY <1>9, <2>1, StakePoolAssumption DEF UpdateTotalStakeSeconds, SameStakes,
       IsStaked, TypeOK, NothingLockedForNobody
  <2> QED
    BY <1>0, <1>9, <2>2, <1>b, CustodyFrame DEF UpdateTotalStakeSeconds
<1>10. ASSUME NEW a \in Users, NEW e \in Entries, ResetStakeEntry(a, e)
       PROVE  CustodyInv'
  <2> DEFINE r == [entry[e] EXCEPT
                     !.total_stake_seconds = 0, !.last_updated_at = now,
                     !.last_staked_at = now, !.cooldown_start_seconds = None]
  <2>1. entry[e] \in EntryAccount
    BY <1>10 DEF ResetStakeEntry, TypeOK
  <2>2. r \in EntryAccount /\ r.amount = entry[e].amount
        /\ r.last_staker = entry[e].last_staker
    BY <2>1 DEF EntryAccount, TypeOK
  <2>3. entry' = [entry EXCEPT ![e] = r]
    BY <1>10 DEF ResetStakeEntry
  <2> HIDE DEF r
  <2>4. SameStakes
    BY <1>10, <2>2, <2>3, StakePoolAssumption DEF ResetStakeEntry, SameStakes,
       IsStaked, TypeOK, NothingLockedForNobody
  <2> QED
    BY <1>0, <1>10, <2>4, <1>b, CustodyFrame DEF ResetStakeEntry
<1>11. ASSUME NEW a \in Users, NEW e \in Entries, CloseStakeEntry(a, e)
       PROVE  CustodyInv'
  <2>1. ~IsStaked(e)
    BY <1>11 DEF CloseStakeEntry, StakedTokenRecoverable
  <2>2. SameStakes
    BY <1>11, <2>1 DEF CloseStakeEntry, SameStakes, IsStaked, TypeOK,
       NothingLockedForNobody
  <2> QED
    BY <1>0, <1>11, <2>2, <1>b, CustodyFrame DEF CloseStakeEntry
<1>12. ASSUME NEW m \in Mints, NEW u \in Users, TransferToken(m, u)
       PROVE  CustodyInv'
  BY <1>0, <1>12, CustodyTransfer
<1>13. ASSUME Tick
       PROVE  CustodyInv'
  BY <1>0, <1>13, <1>a, <1>b, CustodyFrame DEF Tick
<1>14. ASSUME NEW i \in Payments, SetPaymentInfo(i)
       PROVE  CustodyInv'
  BY <1>0, <1>14, <1>a, <1>b, CustodyFrame DEF SetPaymentInfo
<1>15. CASE UNCHANGED vars
  BY <1>0, <1>15, <1>a, <1>b, CustodyFrame DEF vars
<1> QED
  BY <1>1, <1>2, <1>3, <1>4, <1>5, <1>6, <1>7, <1>8, <1>9, <1>10, <1>11, <1>12,
     <1>13, <1>14, <1>15, RecordOfPair DEF Next, PoolStep, EntryStep

THEOREM CustodyInvariant ==
    ASSUME ExclusiveEntries
    PROVE  Spec => []CustodyInv
<1>1. CustodyInv /\ [Next]_vars => CustodyInv'
  BY CustodyNext
<1> QED
  BY <1>1, CustodyInit, PTL DEF Spec

(* A staked token is always locked by its staker's escrow, owned by its    *)
(* staker, and its pool exists.                                            *)
THEOREM StakedTokensRecoverable ==
    ASSUME ExclusiveEntries
    PROVE  Spec => []StakedTokenRecoverable
BY CustodyInvariant, PTL DEF CustodyInv

(* A locked token always has a staked entry, and an entry without a stake  *)
(* names no staker.                                                        *)
THEOREM NothingLockedForNobodyHolds ==
    ASSUME ExclusiveEntries
    PROVE  Spec => []NothingLockedForNobody
BY CustodyInvariant, PTL DEF CustodyInv

(* total_staked is the number of staked entries of the pool. *)
THEOREM TotalStakedIsExact ==
    ASSUME ExclusiveEntries
    PROVE  Spec => []TotalStakedExact
BY CustodyInvariant, PTL DEF CustodyInv

=============================================================================
