----------------------------- MODULE FoldLemmas -----------------------------
(***************************************************************************)
(* Induction over the natural numbers, stated with a set instead of a      *)
(* predicate, and what it shows of the folds of the library: the recursive *)
(* function a fold is defined by exists, and it can be unrolled.           *)
(***************************************************************************)
EXTENDS Integers, SequencesExt, FiniteSetTheorems, TLAPS

(* A set with 0 and the successors of its numbers has every number: a      *)
(* least number outside it would follow one inside it.                     *)
LEMMA EveryNumber ==
    ASSUME NEW T, 0 \in T, \A n \in Nat : n \in T => n + 1 \in T
    PROVE  \A n \in Nat : n \in T
<1> DEFINE Outside == Nat \ T
<1>1. SUFFICES ASSUME Outside # {}
               PROVE  FALSE
  OBVIOUS
<1>2. PICK x \in Outside : \A y \in Outside : ~(<<y, x>> \in OpToRel(<, Nat))
  <2>1. IsWellFoundedOn(OpToRel(<, Nat), Nat)
    BY NatLessThanWellFounded
  <2>2. Outside \subseteq Nat
    OBVIOUS
  <2>. HIDE DEF Outside
  <2> QED
    BY <1>1, <2>1, <2>2, WFMin
<1>3. x # 0 /\ x \in Nat
  OBVIOUS
<1>4. x - 1 \in Nat /\ x - 1 < x /\ (x - 1) + 1 = x
  BY <1>3
<1>5. x - 1 \in Outside
  BY <1>3, <1>4
<1>6. <<x - 1, x>> \in OpToRel(<, Nat)
  BY <1>3, <1>4 DEF OpToRel
<1> QED
  BY <1>2, <1>5, <1>6

(* A finite set with one element taken out. *)
LEMMA OneLess ==
    ASSUME NEW S, IsFiniteSet(S), NEW x, x \in S
    PROVE  Cardinality(S \ {x}) = Cardinality(S) - 1
BY FS_RemoveElement, Zenon

-----------------------------------------------------------------------------
(* Folds.                                                                  *)

(* C chooses an element of each subset of S. *)
Chooses(C, S) == \A s \in SUBSET S : s # {} => C[s] \in s

(* f is the recursive function of a fold: the chosen element of a set is   *)
(* applied to the value for the rest of the set.                           *)
IsFold(f, base, G, C, S) ==
    /\ f[{}] = base
    /\ \A s \in SUBSET S : s # {} => f[s] = G[C[s]][f[s \ {C[s]}]]

(* f and h start alike and go on alike. *)
Agree(f, h, C, S) ==
    /\ f[{}] = h[{}]
    /\ \A s \in SUBSET S :
          s # {} /\ f[s \ {C[s]}] = h[s \ {C[s]}] => f[s] = h[s]

(* The function a fold is defined by exists: it is built for the sets of    *)
(* at most n elements, for one n after the other.                          *)
LEMMA FoldExists ==
    ASSUME NEW S, IsFiniteSet(S), NEW D, NEW base \in D,
           NEW C, Chooses(C, S),
           NEW G \in [S -> [D -> D]]
    PROVE  \E f \in [SUBSET S -> D] : IsFold(f, base, G, C, S)
<1> DEFINE Upto(n) == {s \in SUBSET S : Cardinality(s) <= n}
           Follows(f, n) == \A s \in Upto(n) :
                             f[s] = IF s = {} THEN base ELSE G[C[s]][f[s \ {C[s]}]]
           T == {n \in Nat : \E f \in [Upto(n) -> D] : Follows(f, n)}
<1>1. 0 \in T
  <2> DEFINE f == [s \in Upto(0) |-> base]
  <2>1. \A s \in Upto(0) : s = {}
    BY FS_Subset, FS_EmptySet, FS_CardinalityType
  <2>2. f \in [Upto(0) -> D] /\ Follows(f, 0)
    BY <2>1
  <2> QED
    BY <2>2
<1>2. ASSUME NEW n \in Nat, n \in T
      PROVE  n + 1 \in T
  <2>1. PICK f \in [Upto(n) -> D] : Follows(f, n)
    BY <1>2
  <2>2. \A s \in Upto(n + 1) : s # {} => s \ {C[s]} \in Upto(n) /\ C[s] \in S
    <3> SUFFICES ASSUME NEW s \in Upto(n + 1), s # {}
                 PROVE  s \ {C[s]} \in Upto(n) /\ C[s] \in S
      OBVIOUS
    <3>1. IsFiniteSet(s) /\ Cardinality(s) \in Nat /\ C[s] \in s
      BY FS_Subset, FS_CardinalityType DEF Chooses
    <3>2. Cardinality(s \ {C[s]}) = Cardinality(s) - 1
      BY <3>1, OneLess
    <3> QED
      BY <3>1, <3>2
  <2>3. Upto(n) \subseteq Upto(n + 1)
    <3> SUFFICES ASSUME NEW s \in Upto(n)
                 PROVE  Cardinality(s) <= n + 1
      OBVIOUS
    <3> QED
      BY FS_Subset, FS_CardinalityType
  <2> DEFINE step(s) == G[C[s]][f[s \ {C[s]}]]
             g == [s \in Upto(n + 1) |-> IF s \in Upto(n) THEN f[s] ELSE step(s)]
  <2>4. {} \in Upto(n)
    BY FS_EmptySet
  <2>5. \A s \in Upto(n + 1) : s # {} => step(s) \in D
    BY <2>1, <2>2
  <2>6. g \in [Upto(n + 1) -> D]
    BY <2>1, <2>4, <2>5
  <2>7. \A s \in Upto(n) : g[s] = f[s]
    BY <2>3
  <2>8. ASSUME NEW s \in Upto(n + 1)
        PROVE  g[s] = IF s = {} THEN base ELSE G[C[s]][g[s \ {C[s]}]]
    <3>1. CASE s = {}
      BY <2>1, <2>4, <2>7, <3>1
    <3>2. CASE s # {}
      <4>1. g[s] = step(s)
        BY <2>1, <2>7, <3>2
      <4>2. g[s \ {C[s]}] = f[s \ {C[s]}]
        BY <2>2, <2>7, <3>2
      <4> QED
        BY <3>2, <4>1, <4>2
    <3> QED
      BY <3>1, <3>2
  <2>9. Follows(g, n + 1)
    BY <2>8
  <2> HIDE DEF Upto, Follows, g
  <2>10. n + 1 \in Nat
    OBVIOUS
  <2> QED
    BY <2>6, <2>9, <2>10
<1>3. Cardinality(S) \in T
  <2>1. Cardinality(S) \in Nat
    BY FS_CardinalityType
  <2> HIDE DEF T
  <2> QED
    BY <1>1, <1>2, <2>1, EveryNumber
<1>4. Upto(Cardinality(S)) = SUBSET S
  BY FS_Subset
<1>5. PICK f \in [SUBSET S -> D] : Follows(f, Cardinality(S))
  BY <1>3, <1>4
<1>6. IsFold(f, base, G, C, S)
  BY <1>4, <1>5 DEF IsFold
<1> QED
  BY <1>6

(* It is the only one: two functions agree on every set if they agree on   *)
(* the empty set, and on a set whenever they do without its chosen element. *)
LEMMA FoldUnique ==
    ASSUME NEW S, IsFiniteSet(S),
           NEW C, Chooses(C, S),
           NEW f, NEW h, Agree(f, h, C, S)
    PROVE  \A s \in SUBSET S : f[s] = h[s]
<1> DEFINE T == {n \in Nat : \A s \in SUBSET S : Cardinality(s) = n => f[s] = h[s]}
<1>1. 0 \in T
  BY FS_Subset, FS_EmptySet DEF Agree
<1>2. ASSUME NEW n \in Nat, n \in T
      PROVE  n + 1 \in T
  <2> SUFFICES ASSUME NEW s \in SUBSET S, Cardinality(s) = n + 1
               PROVE  f[s] = h[s]
    OBVIOUS
  <2>1. IsFiniteSet(s) /\ s # {}
    BY FS_Subset, FS_EmptySet
  <2>2. Cardinality(s \ {C[s]}) = Cardinality(s) - 1
    BY <2>1, OneLess DEF Chooses
  <2>3. f[s \ {C[s]}] = h[s \ {C[s]}]
    BY <1>2, <2>2
  <2> QED
    BY <2>1, <2>3 DEF Agree
<1>3. \A n \in Nat : n \in T
  <2> HIDE DEF T
  <2> QED
    BY <1>1, <1>2, EveryNumber
<1> QED
  BY <1>3, FS_Subset, FS_CardinalityType

-----------------------------------------------------------------------------
(* Sums over finite sets.                                                  *)

(* The sum of g over S, as FoldFunction and MapThenSumSet compute it. *)
Total(g, S) ==
    MapThenFoldSet(LAMBDA x, y : x + y, 0, LAMBDA i : g[i],
                   LAMBDA s : CHOOSE x \in s : TRUE, S)

(* The step of a sum: the value of g is added. *)
Adds(g, S) == [x \in S |-> [n \in Nat |-> g[x] + n]]

(* A sum of natural numbers is one. *)
LEMMA TotalNat ==
    ASSUME NEW S, IsFiniteSet(S), NEW g, \A x \in S : g[x] \in Nat
    PROVE  Total(g, S) \in Nat
<1> DEFINE P(f) == f = [s \in SUBSET S |-> IF s = {} THEN 0
                          ELSE LET x == CHOOSE x \in s : TRUE
                               IN  g[x] + f[s \ {x}]]
           C == [s \in SUBSET S |-> CHOOSE x \in s : TRUE]
           i == CHOOSE h : P(h)
<1>1. Chooses(C, S)
  BY DEF Chooses
<1>2. Adds(g, S) \in [S -> [Nat -> Nat]] /\ 0 \in Nat
  BY DEF Adds
<1>3. PICK f \in [SUBSET S -> Nat] : IsFold(f, 0, Adds(g, S), C, S)
  <2> HIDE DEF C
  <2> QED
    BY <1>1, <1>2, FoldExists
<1>4. f[{}] = 0 /\ \A s \in SUBSET S : s # {} => f[s] = g[C[s]] + f[s \ {C[s]}]
  BY <1>1, <1>3 DEF IsFold, Adds, Chooses
<1>5. P(f)
  BY <1>3, <1>4
<1>6. P(i)
  <2> HIDE DEF P
  <2> QED
    BY <1>5
<1>7. i[{}] = 0 /\ \A s \in SUBSET S : s # {} => i[s] = g[C[s]] + i[s \ {C[s]}]
  <2> HIDE DEF i
  <2> QED
    BY <1>6
<1>8. \A s \in SUBSET S : i[s] = f[s]
  <2> HIDE DEF i, C
  <2>1. Agree(i, f, C, S)
    BY <1>4, <1>7 DEF Agree
  <2> QED
    BY <1>1, <2>1, FoldUnique
<1>9. Total(g, S) = i[S]
  BY DEF Total, MapThenFoldSet
<1> QED
  <2> HIDE DEF i
  <2> QED
    BY <1>8, <1>9

-----------------------------------------------------------------------------
(* Folds over sequences, which take the indices from the highest down.     *)

(* A property of zero that every index hands on holds for every index. *)
LEMMA EveryIndex ==
    ASSUME NEW n \in Nat, NEW T, 0 \in T, \A k \in 1 .. n : k - 1 \in T => k \in T
    PROVE  \A k \in 0 .. n : k \in T
<1> DEFINE U == {k \in Nat : k <= n => k \in T}
<1>1. 0 \in U
  OBVIOUS
<1>2. ASSUME NEW k \in Nat, k \in U
      PROVE  k + 1 \in U
  <2> SUFFICES ASSUME k + 1 <= n
               PROVE  k + 1 \in T
    OBVIOUS
  <2>1. k + 1 \in 1 .. n /\ (k + 1) - 1 = k /\ k <= n
    OBVIOUS
  <2> QED
    BY <1>2, <2>1
<1>3. \A k \in Nat : k \in U
  <2> HIDE DEF U
  <2> QED
    BY <1>1, <1>2, EveryNumber
<1> QED
  BY <1>3

(* A set of indices has a highest one. *)
LEMMA HighestIndex ==
    ASSUME NEW n \in Nat, NEW s \in SUBSET (1 .. n), s # {}
    PROVE  Max(s) \in s /\ \A y \in s : Max(s) >= y
<1> DEFINE T == {k \in Nat : \A t \in SUBSET (1 .. k) :
                                t # {} => \E x \in t : \A y \in t : x >= y}
<1>1. 0 \in T
  <2>1. 1 .. 0 = {}
    OBVIOUS
  <2> QED
    BY <2>1
<1>2. ASSUME NEW k \in Nat, k \in T
      PROVE  k + 1 \in T
  <2> SUFFICES ASSUME NEW t \in SUBSET (1 .. k + 1), t # {}
               PROVE  \E x \in t : \A y \in t : x >= y
    OBVIOUS
  <2>1. CASE k + 1 \in t
    BY <2>1
  <2>2. CASE k + 1 \notin t
    <3>1. t \in SUBSET (1 .. k)
      BY <2>2
    <3> QED
      BY <1>2, <3>1
  <2> QED
    BY <2>1, <2>2
<1>3. n \in T
  <2> HIDE DEF T
  <2> QED
    BY <1>1, <1>2, EveryNumber
<1>4. \E x \in s : \A y \in s : x >= y
  BY <1>3
<1> QED
  BY <1>4 DEF Max

HighestOf(n) == [s \in SUBSET (1 .. n) |-> Max(s)]

LEMMA HighestChooses ==
    ASSUME NEW n \in Nat
    PROVE  Chooses(HighestOf(n), 1 .. n) /\ IsFiniteSet(1 .. n)
<1>1. ASSUME NEW s \in SUBSET (1 .. n), s # {}
      PROVE  HighestOf(n)[s] \in s
  BY <1>1, HighestIndex DEF HighestOf
<1>2. IsFiniteSet(1 .. n)
  BY FS_Interval
<1> QED
  BY <1>1, <1>2 DEF Chooses

(* f is the recursive function of such a fold, as far as its values are in *)
(* D.                                                                      *)
Follows(f, base, G, D, n) ==
    /\ f[{}] = base
    /\ \A s \in SUBSET (1 .. n) :
          s # {} /\ f[s \ {Max(s)}] \in D => f[s] = G[Max(s)][f[s \ {Max(s)}]]

FollowsAlways(f, base, G, n) ==
    /\ f[{}] = base
    /\ \A s \in SUBSET (1 .. n) : s # {} =>
          Max(s) \in 1 .. n /\ f[s] = G[Max(s)][f[s \ {Max(s)}]]

(* The steps of a fold over n elements with values in D. *)
Steps(n, D) == [1 .. n -> [D -> D]]

LEMMA SequenceFoldExists ==
    ASSUME NEW n \in Nat, NEW D, NEW base \in D, NEW G \in Steps(n, D)
    PROVE  \E f \in [SUBSET (1 .. n) -> D] : FollowsAlways(f, base, G, n)
<1>1. Chooses(HighestOf(n), 1 .. n) /\ IsFiniteSet(1 .. n)
  BY HighestChooses
<1>2. PICK f \in [SUBSET (1 .. n) -> D] : IsFold(f, base, G, HighestOf(n), 1 .. n)
  BY <1>1, FoldExists DEF Steps
<1>3. ASSUME NEW s \in SUBSET (1 .. n), s # {}
      PROVE  Max(s) \in 1 .. n /\ f[s] = G[Max(s)][f[s \ {Max(s)}]]
  <2>1. Max(s) \in s
    BY <1>3, HighestIndex
  <2> QED
    BY <1>2, <1>3, <2>1 DEF IsFold, HighestOf
<1>4. f[{}] = base
  BY <1>2 DEF IsFold
<1> QED
  BY <1>3, <1>4 DEF FollowsAlways

(* a has the values of a fold after each index. *)
Unrolls(a, base, G, n) ==
    a[0] = base /\ \A k \in 1 .. n : a[k] = G[k][a[k - 1]]

(* They end with the value of f for all indices. *)
UnrollsTo(a, f, base, G, D, n) ==
    a \in [0 .. n -> D] /\ Unrolls(a, base, G, n) /\ a[n] = f[1 .. n]

(* A function that follows the equation of such a fold has, on the first   *)
(* indices, the values one gets going up from the first.                   *)
LEMMA Unrolled ==
    ASSUME NEW n \in Nat, NEW D, NEW base \in D, NEW G \in Steps(n, D),
           NEW i, Follows(i, base, G, D, n)
    PROVE  \E a : UnrollsTo(a, i, base, G, D, n)
<1> DEFINE a == [k \in 0 .. n |-> i[1 .. k]]
           T == {k \in 0 .. n : /\ i[1 .. k] \in D
                                /\ k > 0 => i[1 .. k] = G[k][i[1 .. (k - 1)]]}
<1>1. ASSUME NEW k \in 1 .. n
      PROVE  /\ 1 .. k \in SUBSET (1 .. n) /\ 1 .. k # {}
             /\ Max(1 .. k) = k /\ (1 .. k) \ {k} = 1 .. (k - 1)
  <2>1. 1 .. k \in SUBSET (1 .. n) /\ k \in 1 .. k
    OBVIOUS
  <2>2. Max(1 .. k) \in 1 .. k /\ \A y \in 1 .. k : Max(1 .. k) >= y
    <3>1. 1 .. k # {}
      BY <2>1
    <3> QED
      BY <2>1, <3>1, HighestIndex
  <2>3. Max(1 .. k) = k
    BY <2>1, <2>2
  <2>4. (1 .. k) \ {k} = 1 .. (k - 1)
    OBVIOUS
  <2> QED
    BY <2>1, <2>3, <2>4
<1>2. 1 .. 0 = {} /\ i[{}] = base
  BY DEF Follows
<1>3. 0 \in T
  BY <1>2
<1>4. ASSUME NEW k \in 1 .. n, k - 1 \in T
      PROVE  k \in T
  <2>1. i[1 .. (k - 1)] \in D
    BY <1>4
  <2> DEFINE s == 1 .. k
  <2>2. s \in SUBSET (1 .. n) /\ s # {} /\ Max(s) = k /\ s \ {k} = 1 .. (k - 1)
    BY <1>1
  <2> HIDE DEF s
  <2>3. i[s] = G[k][i[1 .. (k - 1)]]
    BY <2>1, <2>2 DEF Follows
  <2>4. i[s] \in D
    BY <2>1, <2>3 DEF Steps
  <2> QED
    BY <2>3, <2>4 DEF s
<1>5. \A k \in 0 .. n : k \in T
  <2> HIDE DEF T
  <2> QED
    BY <1>3, <1>4, EveryIndex
<1>6. a \in [0 .. n -> D]
  BY <1>5
<1>7. Unrolls(a, base, G, n)
  <2>1. a[0] = base
    BY <1>2
  <2>2. ASSUME NEW k \in 1 .. n
        PROVE  a[k] = G[k][a[k - 1]]
    <3>1. k \in 0 .. n /\ k - 1 \in 0 .. n /\ k > 0
      OBVIOUS
    <3> QED
      BY <1>5, <3>1
  <2> QED
    BY <2>1, <2>2 DEF Unrolls
<1> QED
  BY <1>6, <1>7 DEF UnrollsTo
=============================================================================
