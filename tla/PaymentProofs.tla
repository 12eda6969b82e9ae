---------------------------- MODULE PaymentProofs ----------------------------
(***************************************************************************)
(* Proofs about Payment for every set of wallets and every list of shares: *)
(* payments overdraw nobody and give each collector its share.             *)
(***************************************************************************)
EXTENDS Payment, FoldLemmas

-----------------------------------------------------------------------------
(* The folds of the model, unrolled: each has a value after every share.   *)

(* The numbers of a share. *)
LEMMA ShareFacts ==
    ASSUME NEW shares \in Seq(PaymentShare), PaymentAssumption,
           NEW k \in 1 .. Len(shares)
    PROVE  /\ shares[k] \in PaymentShare
           /\ shares[k].address \in Wallets
           /\ shares[k].basis_points \in Nat
           /\ shares[k].basis_points < U16
           /\ U16 \in Nat \ {0} /\ U64 \in Nat \ {0} /\ Divisor \in Nat \ {0}
<1>1. U16 \in Nat \ {0} /\ U64 \in Nat \ {0} /\ Divisor \in Nat \ {0}
  BY DEF PaymentAssumption
<1>2. shares[k] \in PaymentShare
  OBVIOUS
<1>3. shares[k].address \in Wallets /\ shares[k].basis_points \in 0 .. U16 - 1
  BY <1>2 DEF PaymentShare
<1>4. \A x \in 0 .. U16 - 1 : x \in Nat /\ x < U16
  BY <1>1
<1> QED
  BY <1>1, <1>2, <1>3, <1>4

(* The sum of basis points, which wraps around. *)
LEMMA BasisPointsFold ==
    ASSUME NEW shares \in Seq(PaymentShare), PaymentAssumption
    PROVE  \E a \in [0 .. Len(shares) -> Int] :
              /\ a[0] = 0
              /\ \A k \in 1 .. Len(shares) :
                    a[k] = (a[k - 1] + shares[k].basis_points) % U16
              /\ SharesAreValid(shares) <=> a[Len(shares)] = Divisor
<1> DEFINE n == Len(shares)
           P(f) == f = [s \in SUBSET DOMAIN shares |->
                           IF s = {} THEN 0
                           ELSE LET x == Max(s)
                                IN  (f[s \ {x}] + shares[x].basis_points) % U16]
           G == [k \in 1 .. n |-> [t \in Int |-> (t + shares[k].basis_points) % U16]]
           i == CHOOSE f : P(f)
<1>1. n \in Nat /\ DOMAIN shares = 1 .. n /\ 0 \in Int
  OBVIOUS
<1>2. ASSUME NEW k \in 1 .. n, NEW t \in Int
      PROVE  (t + shares[k].basis_points) % U16 \in Int
  BY ShareFacts
<1>3. G \in Steps(n, Int)
  BY <1>2 DEF Steps
<1>4. PICK f \in [SUBSET (1 .. n) -> Int] : FollowsAlways(f, 0, G, n)
  <2> HIDE DEF n, G
  <2> QED
    BY <1>1, <1>3, SequenceFoldExists
<1>5. P(f)
  BY <1>1, <1>4 DEF FollowsAlways
<1>6. P(i)
  <2> HIDE DEF P
  <2> QED
    BY <1>5
<1>7. Follows(i, 0, G, Int, n)
  <2> HIDE DEF i
  <2>1. ASSUME NEW s \in SUBSET (1 .. n), s # {}, i[s \ {Max(s)}] \in Int
        PROVE  i[s] = G[Max(s)][i[s \ {Max(s)}]]
    <3>1. Max(s) \in 1 .. n
      BY <1>4, <2>1 DEF FollowsAlways
    <3> QED
      BY <1>1, <1>6, <2>1, <3>1
  <2> QED
    BY <1>6, <2>1 DEF Follows
<1>8. PICK a : UnrollsTo(a, i, 0, G, Int, n)
  <2> HIDE DEF n, G, i, P
  <2> QED
    BY <1>1, <1>3, <1>7, Unrolled
<1>9. SharesAreValid(shares) <=> a[n] = Divisor
  <2>1. SharesAreValid(shares) <=> i[1 .. n] = Divisor
    BY <1>1 DEF SharesAreValid, FoldLeft, MapThenFoldSet
  <2> HIDE DEF i
  <2> QED
    BY <1>8, <2>1 DEF UnrollsTo
<1>10. ASSUME NEW k \in 1 .. n
       PROVE  a[k] = (a[k - 1] + shares[k].basis_points) % U16
  <2>1. k - 1 \in 0 .. n
    BY <1>1
  <2>2. a[k] = G[k][a[k - 1]]
    BY <1>8 DEF UnrollsTo, Unrolls
  <2> QED
    BY <1>8, <2>1, <2>2 DEF UnrollsTo
<1> QED
  BY <1>8, <1>9, <1>10 DEF UnrollsTo, Unrolls

(* The sum a remainder is computed from, which wraps around too. *)
LEMMA RemainderFold ==
    ASSUME NEW shares \in Seq(PaymentShare), NEW amount \in Nat, PaymentAssumption
    PROVE  \E a \in [0 .. Len(shares) -> Int] :
              /\ a[0] = 0
              /\ \A k \in 1 .. Len(shares) :
                    a[k] = (a[k - 1] + amount * shares[k].basis_points) % U64
              /\ Remainder(amount, shares) = amount - a[Len(shares)] \div Divisor
<1> DEFINE n == Len(shares)
           P(f) == f = [s \in SUBSET DOMAIN shares |->
                           IF s = {} THEN 0
                           ELSE LET x == Max(s)
                                IN  (f[s \ {x}] + amount * shares[x].basis_points) % U64]
           G == [k \in 1 .. n |-> [t \in Int |-> (t + amount * shares[k].basis_points) % U64]]
           i == CHOOSE f : P(f)
<1>1. n \in Nat /\ DOMAIN shares = 1 .. n /\ 0 \in Int
  OBVIOUS
<1>2. ASSUME NEW k \in 1 .. n, NEW t \in Int
      PROVE  (t + amount * shares[k].basis_points) % U64 \in Int
  <2>1. amount * shares[k].basis_points \in Int /\ U64 \in Nat \ {0}
    BY ShareFacts
  <2> QED
    BY <2>1
<1>3. G \in Steps(n, Int)
  BY <1>2 DEF Steps
<1>4. PICK f \in [SUBSET (1 .. n) -> Int] : FollowsAlways(f, 0, G, n)
  <2> HIDE DEF n, G
  <2> QED
    BY <1>1, <1>3, SequenceFoldExists
<1>5. P(f)
  BY <1>1, <1>4 DEF FollowsAlways
<1>6. P(i)
  <2> HIDE DEF P
  <2> QED
    BY <1>5
<1>7. Follows(i, 0, G, Int, n)
  <2> HIDE DEF i
  <2>1. ASSUME NEW s \in SUBSET (1 .. n), s # {}, i[s \ {Max(s)}] \in Int
        PROVE  i[s] = G[Max(s)][i[s \ {Max(s)}]]
    <3>1. Max(s) \in 1 .. n
      BY <1>4, <2>1 DEF FollowsAlways
    <3> QED
      BY <1>1, <1>6, <2>1, <3>1
  <2> QED
    BY <1>6, <2>1 DEF Follows
<1>8. PICK a : UnrollsTo(a, i, 0, G, Int, n)
  <2> HIDE DEF n, G, i, P
  <2> QED
    BY <1>1, <1>3, <1>7, Unrolled
<1>9. Remainder(amount, shares) = amount - a[n] \div Divisor
  <2>1. Remainder(amount, shares) = amount - i[1 .. n] \div Divisor
    BY <1>1 DEF Remainder, FoldLeft, MapThenFoldSet
  <2> HIDE DEF i
  <2> QED
    BY <1>8, <2>1 DEF UnrollsTo
<1>10. ASSUME NEW k \in 1 .. n
       PROVE  a[k] = (a[k - 1] + amount * shares[k].basis_points) % U64
  <2>1. k - 1 \in 0 .. n
    BY <1>1
  <2>2. a[k] = G[k][a[k - 1]]
    BY <1>8 DEF UnrollsTo, Unrolls
  <2> QED
    BY <1>8, <2>1, <2>2 DEF UnrollsTo
<1> QED
  BY <1>8, <1>9, <1>10 DEF UnrollsTo, Unrolls

(* What a wallet is due of the whole. *)
LEMMA CollectorFold ==
    ASSUME info \in PaymentInfo, PaymentAssumption, NEW w
    PROVE  \E a \in [0 .. Len(info.payment_shares) -> Int] :
              /\ a[0] = 0
              /\ \A k \in 1 .. Len(info.payment_shares) :
                    a[k] = a[k - 1] + (IF info.payment_shares[k].address = w
                            THEN info.payment_shares[k].basis_points ELSE 0)
              /\ BasisPointsOf(w) = a[Len(info.payment_shares)]
<1> DEFINE n == Len(info.payment_shares)
           P(f) == f = [s \in SUBSET DOMAIN info.payment_shares |->
                           IF s = {} THEN 0
                           ELSE LET x == Max(s)
                                IN  f[s \ {x}] + (IF info.payment_shares[x].address = w
                            THEN info.payment_shares[x].basis_points ELSE 0)]
           G == [k \in 1 .. n |-> [t \in Int |-> t + (IF info.payment_shares[k].address = w
                            THEN info.payment_shares[k].basis_points ELSE 0)]]
           i == CHOOSE f : P(f)
<1>1. n \in Nat /\ DOMAIN info.payment_shares = 1 .. n /\ 0 \in Int
  BY DEF PaymentInfo
<1>2. ASSUME NEW k \in 1 .. n, NEW t \in Int
      PROVE  t + (IF info.payment_shares[k].address = w
                            THEN info.payment_shares[k].basis_points ELSE 0) \in Int
  <2>1. info.payment_shares \in Seq(PaymentShare)
    BY DEF PaymentInfo
  <2>2. info.payment_shares[k].basis_points \in Int
    BY <2>1, ShareFacts
  <2> QED
    BY <2>2
<1>3. G \in Steps(n, Int)
  BY <1>2 DEF Steps
<1>4. PICK f \in [SUBSET (1 .. n) -> Int] : FollowsAlways(f, 0, G, n)
  <2> HIDE DEF n, G
  <2> QED
    BY <1>1, <1>3, SequenceFoldExists
<1>5. P(f)
  BY <1>1, <1>4 DEF FollowsAlways
<1>6. P(i)
  <2> HIDE DEF P
  <2> QED
    BY <1>5
<1>7. Follows(i, 0, G, Int, n)
  <2> HIDE DEF i
  <2>1. ASSUME NEW s \in SUBSET (1 .. n), s # {}, i[s \ {Max(s)}] \in Int
        PROVE  i[s] = G[Max(s)][i[s \ {Max(s)}]]
    <3>1. Max(s) \in 1 .. n
      BY <1>4, <2>1 DEF FollowsAlways
    <3> QED
      BY <1>1, <1>6, <2>1, <3>1
  <2> QED
    BY <1>6, <2>1 DEF Follows
<1>8. PICK a : UnrollsTo(a, i, 0, G, Int, n)
  <2> HIDE DEF n, G, i, P
  <2> QED
    BY <1>1, <1>3, <1>7, Unrolled
<1>9. BasisPointsOf(w) = a[n]
  <2>1. BasisPointsOf(w) = i[1 .. n]
    BY <1>1 DEF BasisPointsOf, FoldLeft, MapThenFoldSet
  <2> HIDE DEF i
  <2> QED
    BY <1>8, <2>1 DEF UnrollsTo
<1>10. ASSUME NEW k \in 1 .. n
       PROVE  a[k] = a[k - 1] + (IF info.payment_shares[k].address = w
                            THEN info.payment_shares[k].basis_points ELSE 0)
  <2>1. k - 1 \in 0 .. n
    BY <1>1
  <2>2. a[k] = G[k][a[k - 1]]
    BY <1>8 DEF UnrollsTo, Unrolls
  <2> QED
    BY <1>8, <2>1, <2>2 DEF UnrollsTo
<1> QED
  BY <1>8, <1>9, <1>10 DEF UnrollsTo, Unrolls

(* The values PayShare hands on. *)
Tally ==
    [funds : [Wallets -> Int], accounts : Seq(Wallets), remainder : Int, ok : BOOLEAN]

(* The balances h are those of f after n has moved between two wallets. *)
Moved(f, h, from, to, n) ==
    /\ h \in [Wallets -> Int]
    /\ \A w \in Wallets :
          h[w] = f[w] - (IF w = from THEN n ELSE 0) + (IF w = to THEN n ELSE 0)

(* A transfer moves the amount, also from a wallet to itself. *)
LEMMA TransferMoves ==
    ASSUME NEW f \in [Wallets -> Int], NEW from \in Wallets, NEW to \in Wallets,
           NEW n \in Int
    PROVE  Moved(f, Transfer(f, from, to, n), from, to, n)
BY DEF Transfer, Moved

(* PayShare hands on values of their types. *)
LEMMA PayShareType ==
    ASSUME PaymentAssumption, NEW amount \in Nat, NEW payer \in Wallets,
           NEW r \in Tally, NEW s \in PaymentShare
    PROVE  PayShare(payer, amount, r, s) \in Tally
<1> DEFINE extra == IF r.remainder > 0 THEN 1 ELSE 0
           due == ShareOf(amount, s.basis_points) + extra
<1>1. Divisor \in Nat \ {0} /\ s.basis_points \in Nat
  BY DEF PaymentAssumption, PaymentShare
<1>2. amount * s.basis_points \in Nat
  BY <1>1
<1>3. due \in Int /\ extra \in Int
  BY <1>1, <1>2 DEF ShareOf
<1>4. /\ r.funds \in [Wallets -> Int] /\ r.accounts \in Seq(Wallets)
      /\ r.remainder \in Int /\ r.ok \in BOOLEAN
  BY DEF Tally
<1>5. CASE s.basis_points = 0
  BY <1>5 DEF PayShare
<1>6. CASE s.basis_points # 0 /\ r.accounts = <<>>
  BY <1>6 DEF PayShare, Tally
<1>7. CASE s.basis_points # 0 /\ r.accounts # <<>>
  <2>1. Head(r.accounts) \in Wallets /\ Tail(r.accounts) \in Seq(Wallets)
    BY <1>4, <1>7
  <2>2. PayShare(payer, amount, r, s) =
          [funds |-> Transfer(r.funds, payer, Head(r.accounts), due),
           accounts |-> Tail(r.accounts),
           remainder |-> r.remainder - extra,
           ok |-> /\ r.ok
                  /\ IsCollector(Head(r.accounts), s)
                  /\ CanTransfer(r.funds, payer, due)]
    BY <1>7 DEF PayShare
  <2> HIDE DEF due, extra
  <2>3. Transfer(r.funds, payer, Head(r.accounts), due) \in [Wallets -> Int]
    BY <1>3, <1>4, <2>1, TransferMoves DEF Moved
  <2>4. r.remainder - extra \in Int
    BY <1>3, <1>4
  <2> QED
    BY <1>4, <2>1, <2>2, <2>3, <2>4 DEF Tally, IsCollector, CanTransfer
<1> QED
  BY <1>5, <1>6, <1>7

(* What handle_payment_info does to the balances. *)
Transfers(payer, amount, start, shares) ==
    FoldLeft(LAMBDA r, s : PayShare(payer, amount, r, s), start, shares)

(* a has the values before each share and at the end. *)
Tallies(a, payer, amount, start, shares) ==
    /\ a \in [0 .. Len(shares) -> Tally]
    /\ a[0] = start
    /\ \A k \in 1 .. Len(shares) :
          a[k] = PayShare(payer, amount, a[k - 1], shares[k])
    /\ Transfers(payer, amount, start, shares) = a[Len(shares)]

(* The transfers of a payment, one after the other. *)
LEMMA TransfersFold ==
    ASSUME NEW shares \in Seq(PaymentShare), NEW amount \in Nat, NEW payer \in Wallets,
           NEW start \in Tally, PaymentAssumption
    PROVE  \E a : Tallies(a, payer, amount, start, shares)
<1> DEFINE n == Len(shares)
           P(f) == f = [s \in SUBSET DOMAIN shares |->
                           IF s = {} THEN start
                           ELSE LET x == Max(s)
                                IN  PayShare(payer, amount, f[s \ {x}], shares[x])]
           G == [k \in 1 .. n |-> [t \in Tally |-> PayShare(payer, amount, t, shares[k])]]
           i == CHOOSE f : P(f)
<1>1. n \in Nat /\ DOMAIN shares = 1 .. n /\ start \in Tally
  OBVIOUS
<1>2. ASSUME NEW k \in 1 .. n, NEW t \in Tally
      PROVE  PayShare(payer, amount, t, shares[k]) \in Tally
  BY ShareFacts, PayShareType
<1>3. G \in Steps(n, Tally)
  BY <1>2 DEF Steps
<1>4. PICK f \in [SUBSET (1 .. n) -> Tally] : FollowsAlways(f, start, G, n)
  <2> HIDE DEF n, G
  <2> QED
    BY <1>1, <1>3, SequenceFoldExists
<1>5. P(f)
  BY <1>1, <1>4 DEF FollowsAlways
<1>6. P(i)
  <2> HIDE DEF P
  <2> QED
    BY <1>5
<1>7. Follows(i, start, G, Tally, n)
  <2> HIDE DEF i
  <2>1. ASSUME NEW s \in SUBSET (1 .. n), s # {}, i[s \ {Max(s)}] \in Tally
        PROVE  i[s] = G[Max(s)][i[s \ {Max(s)}]]
    <3>1. Max(s) \in 1 .. n
      BY <1>4, <2>1 DEF FollowsAlways
    <3> QED
      BY <1>1, <1>6, <2>1, <3>1
  <2> QED
    BY <1>6, <2>1 DEF Follows
<1>8. PICK a : UnrollsTo(a, i, start, G, Tally, n)
  <2> HIDE DEF n, G, i, P
  <2> QED
    BY <1>1, <1>3, <1>7, Unrolled
<1>9. Transfers(payer, amount, start, shares) = a[n]
  <2>1. Transfers(payer, amount, start, shares) = i[1 .. n]
    BY <1>1 DEF Transfers, FoldLeft, MapThenFoldSet
  <2> HIDE DEF i
  <2> QED
    BY <1>8, <2>1 DEF UnrollsTo
<1>10. ASSUME NEW k \in 1 .. n
       PROVE  a[k] = PayShare(payer, amount, a[k - 1], shares[k])
  <2>1. k - 1 \in 0 .. n
    BY <1>1
  <2>2. a[k] = G[k][a[k - 1]]
    BY <1>8 DEF UnrollsTo, Unrolls
  <2> QED
    BY <1>8, <2>1, <2>2 DEF UnrollsTo
<1> QED
  BY <1>8, <1>9, <1>10 DEF UnrollsTo, Unrolls, Tallies

-----------------------------------------------------------------------------
(* A payment.                                                              *)

(* Division rounds down. *)
LEMMA Quotient ==
    ASSUME NEW x \in Nat, NEW d \in Nat \ {0}
    PROVE  /\ x \div d \in Nat
           /\ (x \div d) * d <= x
           /\ x < (x \div d) * d + d
           /\ \A q \in Nat : q * d <= x => q <= x \div d
<1>1. x \div d \in Nat /\ (x \div d) * d <= x /\ x < (x \div d) * d + d
  OBVIOUS
<1>2. ASSUME NEW q \in Nat, q * d <= x, x \div d < q
      PROVE  FALSE
  <2> DEFINE y == x \div d
  <2>1. y \in Nat /\ x < y * d + d /\ y + 1 <= q
    BY <1>1, <1>2
  <2> HIDE DEF y
  <2>2. (y + 1) * d <= q * d
    BY <2>1
  <2>3. (y + 1) * d = y * d + d
    BY <2>1
  <2> QED
    BY <1>2, <2>1, <2>2, <2>3
<1> QED
  BY <1>1, <1>2

(* A sum that wraps around is no more than the sum, and equal below the     *)
(* modulus.                                                                *)
LEMMA Wrapped ==
    ASSUME NEW x \in Nat, NEW m \in Nat \ {0}
    PROVE  x % m \in Nat /\ x % m <= x /\ (x < m => x % m = x)
OBVIOUS

(* One share: nobody is overdrawn unless the payment fails, and when no    *)
(* unit is left over the collector gets its share, rounded down.           *)
LEMMA PayShareFacts ==
    ASSUME PaymentAssumption, NEW amount \in Nat, NEW payer \in Wallets,
           NEW r \in Tally, NEW s \in PaymentShare
    PROVE  LET q == PayShare(payer, amount, r, s)
           IN  /\ q.ok => r.ok
               /\ q.ok /\ (\A w \in Wallets : r.funds[w] >= 0) =>
                     \A w \in Wallets : q.funds[w] >= 0
               /\ r.remainder <= 0 => q.remainder <= 0
               /\ q.ok /\ r.remainder <= 0 =>
                     \A w \in Wallets \ {payer} :
                         q.funds[w] = r.funds[w]
                             + (IF s.address = w
                                THEN ShareOf(amount, s.basis_points) ELSE 0)
<1> DEFINE extra == IF r.remainder > 0 THEN 1 ELSE 0
           share == ShareOf(amount, s.basis_points)
           due == share + extra
           q == PayShare(payer, amount, r, s)
<1>1. Divisor \in Nat \ {0} /\ s.basis_points \in Nat
  BY DEF PaymentAssumption, PaymentShare
<1>2. share \in Nat /\ (s.basis_points = 0 => share = 0)
  <2>1. amount * s.basis_points \in Nat
    BY <1>1
  <2>2. share \in Nat
    BY <1>1, <2>1, Quotient DEF ShareOf
  <2>3. ASSUME s.basis_points = 0
        PROVE  share = 0
    <3>1. amount * s.basis_points = 0
      BY <2>3
    <3> QED
      BY <1>1, <3>1 DEF ShareOf
  <2> QED
    BY <2>2, <2>3
<1>3. /\ r.funds \in [Wallets -> Int] /\ r.accounts \in Seq(Wallets)
      /\ r.remainder \in Int /\ r.ok \in BOOLEAN
  BY DEF Tally
<1>4. extra \in Nat /\ due \in Nat /\ (r.remainder <= 0 => extra = 0)
  <2> HIDE DEF share
  <2> QED
    BY <1>2, <1>3
<1>5. CASE s.basis_points = 0
  <2>1. q = r
    BY <1>5 DEF PayShare
  <2> HIDE DEF q, share
  <2> QED
    BY <1>2, <1>3, <1>5, <2>1 DEF q, share
<1>6. CASE s.basis_points # 0 /\ r.accounts = <<>>
  <2>1. q = [r EXCEPT !.ok = FALSE]
    BY <1>6 DEF PayShare
  <2>2. q.funds = r.funds /\ q.ok = FALSE /\ q.remainder = r.remainder
    BY <2>1 DEF Tally
  <2> HIDE DEF q
  <2> QED
    BY <2>2 DEF q
<1>7. CASE s.basis_points # 0 /\ r.accounts # <<>>
  <2> DEFINE to == Head(r.accounts)
  <2>1. to \in Wallets
    BY <1>3, <1>7
  <2>2. q = [funds |-> Transfer(r.funds, payer, to, due),
             accounts |-> Tail(r.accounts),
             remainder |-> r.remainder - extra,
             ok |-> /\ r.ok
                    /\ IsCollector(to, s)
                    /\ CanTransfer(r.funds, payer, due)]
    BY <1>7 DEF PayShare
  <2>3. /\ q.funds = Transfer(r.funds, payer, to, due)
        /\ q.remainder = r.remainder - extra
        /\ q.ok => r.ok /\ to = s.address /\ r.funds[payer] >= due
    <3> HIDE DEF due, extra, to
    <3> QED
      BY <2>2 DEF IsCollector, CanTransfer
  <2> HIDE DEF q, due, extra, to
  <2>4. \A w \in Wallets :
           q.funds[w] = r.funds[w] - (IF w = payer THEN due ELSE 0)
                                   + (IF w = to THEN due ELSE 0)
    <3> DEFINE f == r.funds
    <3>1. f \in [Wallets -> Int] /\ due \in Int /\ q.funds = Transfer(f, payer, to, due)
      BY <1>3, <1>4, <2>3
    <3> HIDE DEF f
    <3>2. Moved(f, q.funds, payer, to, due)
      BY <2>1, <3>1, TransferMoves
    <3> QED
      BY <3>2 DEF Moved, f
  <2>5. ASSUME q.ok, \A w \in Wallets : r.funds[w] >= 0, NEW w \in Wallets
        PROVE  q.funds[w] >= 0
    <3>1. r.funds[w] \in Int /\ r.funds[w] >= 0
      BY <1>3, <2>5
    <3>2. CASE w = payer
      BY <1>4, <2>3, <2>4, <2>5, <3>1, <3>2
    <3>3. CASE w # payer
      BY <1>4, <2>4, <3>1, <3>3
    <3> QED
      BY <3>2, <3>3
  <2>6. r.remainder <= 0 => q.remainder <= 0
    BY <1>3, <1>4, <2>3
  <2>7. ASSUME q.ok, r.remainder <= 0, NEW w \in Wallets \ {payer}
        PROVE  q.funds[w] = r.funds[w] + (IF s.address = w THEN share ELSE 0)
    <3>1. due = share
      <4> HIDE DEF share
      <4> QED
        BY <1>2, <1>4, <2>7 DEF due
    <3>2. r.funds[w] \in Int
      BY <1>3
    <3> HIDE DEF share
    <3> QED
      BY <1>2, <2>3, <2>4, <2>7, <3>1, <3>2
  <2> QED
    BY <2>3, <2>4, <2>5, <2>6, <2>7 DEF q
<1> QED
  BY <1>5, <1>6, <1>7

(* The remainder of valid shares is nothing when no total wraps: what is   *)
(* summed up is at least the whole amount.                                 *)
LEMMA NoRemainder ==
    ASSUME PaymentAssumption, NoTotalWraps, NEW i \in Settings,
           SharesAreValid(i.payment_shares), i.payment_amount > 0
    PROVE  Remainder(i.payment_amount, i.payment_shares) <= 0
<1> DEFINE amount == i.payment_amount
           shares == i.payment_shares
           n == Len(shares)
<1>1. /\ amount \in Nat /\ amount > 0 /\ shares \in Seq(PaymentShare) /\ n \in Nat
      /\ Divisor \in Nat \ {0} /\ U16 \in Nat \ {0} /\ U64 \in Nat \ {0}
      /\ amount * U16 * n <= U64
  <2>1. i \in PaymentInfo
    BY DEF PaymentAssumption
  <2>2. amount \in Nat /\ shares \in Seq(PaymentShare)
    BY <2>1 DEF PaymentInfo
  <2>3. n \in Nat
    BY <2>2
  <2> QED
    BY <2>2, <2>3 DEF PaymentAssumption, NoTotalWraps
<1>2. PICK b \in [0 .. n -> Int] :
          /\ b[0] = 0
          /\ \A k \in 1 .. n : b[k] = (b[k - 1] + shares[k].basis_points) % U16
          /\ b[n] = Divisor
  BY <1>1, BasisPointsFold
<1>3. PICK c \in [0 .. n -> Int] :
          /\ c[0] = 0
          /\ \A k \in 1 .. n : c[k] = (c[k - 1] + amount * shares[k].basis_points) % U64
          /\ Remainder(amount, shares) = amount - c[n] \div Divisor
  BY <1>1, RemainderFold
<1> DEFINE most == amount * (U16 - 1)
           T == {k \in 0 .. n : /\ 0 <= c[k] /\ c[k] <= most * k
                                /\ 0 <= b[k] /\ amount * b[k] <= c[k]}
<1>4. most \in Nat /\ \A k \in Nat : k <= n /\ k > 0 => most * k < U64
  <2>1. most \in Nat
    BY <1>1
  <2>2. ASSUME NEW k \in Nat, k <= n, k > 0
        PROVE  most * k < U64
    <3>1. amount * U16 = most + amount /\ amount * U16 \in Nat
      BY <1>1
    <3> HIDE DEF most, amount, n
    <3>2. (amount * U16) * k <= (amount * U16) * n
      BY <1>1, <2>2, <3>1
    <3>3. (amount * U16) * k = most * k + amount * k
      BY <1>1, <2>1, <2>2, <3>1
    <3>4. amount * k > 0 /\ amount * k \in Nat /\ most * k \in Nat
      BY <1>1, <2>1, <2>2
    <3>5. (amount * U16) * n \in Nat /\ (amount * U16) * n <= U64
      BY <1>1, <3>1
    <3> DEFINE upto == (amount * U16) * k
               all == (amount * U16) * n
               gap == amount * k
    <3>6. upto <= all /\ all <= U64 /\ upto = most * k + gap /\ gap > 0
          /\ upto \in Int /\ all \in Int /\ gap \in Int /\ most * k \in Int
      BY <1>1, <3>2, <3>3, <3>4, <3>5
    <3> HIDE DEF upto, all, gap
    <3> QED
      BY <1>1, <3>6
  <2> QED
    BY <2>1, <2>2
<1>5. 0 \in T
  BY <1>1, <1>2, <1>3, <1>4
<1>6. ASSUME NEW k \in 1 .. n, k - 1 \in T
      PROVE  k \in T
  <2> DEFINE points == shares[k].basis_points
             paid == amount * points
             b0 == b[k - 1]
             c0 == c[k - 1]
  <2>1. points \in Nat /\ points < U16 /\ paid \in Nat
    <3>1. points \in Nat /\ points < U16
      BY <1>1, ShareFacts
    <3> HIDE DEF points
    <3> QED
      BY <1>1, <3>1
  <2>2. /\ b0 \in Nat /\ c0 \in Nat
        /\ c0 <= most * (k - 1) /\ amount * b0 <= c0
    BY <1>2, <1>3, <1>6
  <2>3. b[k] = (b0 + points) % U16 /\ c[k] = (c0 + paid) % U64
    BY <1>2, <1>3
  <2> HIDE DEF points, paid, b0, c0, most
  <2>4. paid <= most
    <3> HIDE DEF amount
    <3>1. points <= U16 - 1 /\ U16 - 1 \in Nat
      BY <1>1, <2>1
    <3>2. amount * points <= amount * (U16 - 1)
      BY <1>1, <2>1, <3>1
    <3> QED
      BY <3>2 DEF paid, most
  <2>5. c0 + paid <= most * k
    <3>1. most * k = most * (k - 1) + most
      BY <1>4
    <3>2. most * (k - 1) \in Nat
      BY <1>4
    <3> QED
      BY <1>4, <2>1, <2>2, <2>4, <3>1, <3>2
  <2>6. c0 + paid < U64
    <3>1. most * k < U64 /\ most * k \in Nat
      BY <1>1, <1>4
    <3> QED
      BY <1>1, <2>1, <2>2, <2>5, <3>1
  <2>7. c[k] = c0 + paid
    <3>1. c0 + paid \in Nat
      BY <2>1, <2>2
    <3> QED
      BY <1>1, <2>3, <2>6, <3>1, Wrapped
  <2>8. b[k] \in Nat /\ b[k] <= b0 + points
    <3>1. b0 + points \in Nat
      BY <2>1, <2>2
    <3> QED
      BY <1>1, <2>3, <3>1, Wrapped
  <2>9. amount * b[k] <= c[k]
    <3> DEFINE bk == b[k]
    <3>1. bk \in Nat /\ bk <= b0 + points
      BY <2>8
    <3> HIDE DEF amount, bk
    <3>2. amount * bk <= amount * (b0 + points)
      BY <1>1, <2>1, <2>2, <3>1
    <3>3. amount * (b0 + points) = amount * b0 + paid
      BY <1>1, <2>1, <2>2 DEF paid
    <3>4. amount * b0 \in Nat /\ amount * bk \in Nat
      BY <1>1, <2>2, <3>1
    <3> QED
      BY <2>1, <2>2, <2>7, <3>2, <3>3, <3>4 DEF bk
  <2>10. k \in 0 .. n /\ c[k] \in Nat
    BY <1>1, <2>1, <2>2, <2>7
  <2>11. 0 <= c[k] /\ c[k] <= most * k /\ 0 <= b[k]
    BY <2>5, <2>7, <2>8, <2>10
  <2>12. (0 <= c[k] /\ c[k] <= most * k) /\ (0 <= b[k] /\ amount * b[k] <= c[k])
    BY <2>9, <2>11, Zenon
  <2> HIDE DEF amount, n
  <2> QED
    BY <2>10, <2>12, Zenon
<1>7. n \in T
  <2>1. \A k \in 0 .. n : k \in T
    <3> HIDE DEF T, n
    <3> QED
      BY <1>1, <1>5, <1>6, EveryIndex
  <2>2. n \in 0 .. n
    BY <1>1
  <2> HIDE DEF T, n
  <2> QED
    BY <2>1, <2>2
<1>8. amount <= c[n] \div Divisor /\ c[n] \div Divisor \in Nat
  <2> DEFINE x == c[n]
  <2>1. x \in Nat /\ amount * Divisor <= x
    <3>1. n \in 0 .. n /\ c[n] \in Int /\ 0 <= c[n] /\ amount * b[n] <= c[n]
      BY <1>1, <1>7
    <3> QED
      BY <1>2, <3>1
  <2> HIDE DEF x, amount
  <2>2. amount <= x \div Divisor /\ x \div Divisor \in Nat
    BY <1>1, <2>1, Quotient
  <2> QED
    BY <2>2 DEF x
<1> QED
  BY <1>1, <1>3, <1>8

(* The values of a payment: the tally starts with the balances and ends    *)
(* with the new ones.                                                      *)
LEMMA PayTally ==
    ASSUME PaymentAssumption, info \in PaymentInfo, funds \in [Wallets -> Nat],
           NEW payer \in Wallets, NEW accounts \in Seq(Wallets), Pay(payer, accounts)
    PROVE  LET n == Len(info.payment_shares)
           IN  \E a \in [0 .. n -> Tally] :
                  /\ a[0].funds = funds
                  /\ a[0].remainder = Remainder(info.payment_amount, info.payment_shares)
                  /\ \A k \in 1 .. n :
                        a[k] = PayShare(payer, info.payment_amount, a[k - 1],
                                        info.payment_shares[k])
                  /\ a[n].ok /\ funds' = a[n].funds
<1> DEFINE amount == info.payment_amount
           shares == info.payment_shares
           remainder == Remainder(amount, shares)
           start == [funds |-> funds, accounts |-> accounts,
                     remainder |-> remainder, ok |-> TRUE]
<1>1. amount \in Nat /\ shares \in Seq(PaymentShare)
  BY DEF PaymentInfo
<1>2. remainder \in Int
  <2> HIDE DEF amount, shares
  <2>1. PICK c \in [0 .. Len(shares) -> Int] :
            Remainder(amount, shares) = amount - c[Len(shares)] \div Divisor
    BY <1>1, RemainderFold
  <2>2. Len(shares) \in 0 .. Len(shares) /\ Divisor \in Nat \ {0}
    BY <1>1 DEF PaymentAssumption
  <2>3. c[Len(shares)] \in Int
    BY <2>2
  <2> QED
    BY <1>1, <2>1, <2>2, <2>3
<1>3. start \in Tally
  <2> HIDE DEF remainder
  <2> QED
    BY <1>2 DEF Tally
<1> DEFINE result == Transfers(payer, amount, start, shares)
<1>4. PICK a : Tallies(a, payer, amount, start, shares)
  <2> HIDE DEF start, amount, shares
  <2> QED
    BY <1>1, <1>3, TransfersFold
<1>5. result.ok /\ funds' = result.funds
  BY DEF Pay, Transfers
<1>6. start.funds = funds /\ start.remainder = remainder
  <2> HIDE DEF remainder
  <2> QED
    OBVIOUS
<1> QED
  <2> HIDE DEF start, result
  <2> QED
    BY <1>4, <1>5, <1>6 DEF result, Tallies

(* A payment overdraws nobody. *)
LEMMA PayFacts ==
    ASSUME PaymentAssumption, info \in PaymentInfo, funds \in [Wallets -> Nat],
           NEW payer \in Wallets, NEW accounts \in Seq(Wallets), Pay(payer, accounts)
    PROVE  funds' \in [Wallets -> Nat]
<1> DEFINE amount == info.payment_amount
           shares == info.payment_shares
           n == Len(shares)
<1>1. amount \in Nat /\ shares \in Seq(PaymentShare) /\ n \in Nat
  BY DEF PaymentInfo
<1>2. PICK a \in [0 .. n -> Tally] :
          /\ a[0].funds = funds
          /\ \A k \in 1 .. n : a[k] = PayShare(payer, amount, a[k - 1], shares[k])
          /\ a[n].ok /\ funds' = a[n].funds
  BY PayTally
<1> DEFINE T == {k \in 0 .. n : a[k].ok => \A w \in Wallets : a[k].funds[w] >= 0}
<1>3. 0 \in T
  BY <1>1, <1>2
<1>4. ASSUME NEW k \in 1 .. n, k - 1 \in T
      PROVE  k \in T
  <2>1. k \in 0 .. n /\ k - 1 \in 0 .. n
    BY <1>1
  <2>2. a[k - 1] \in Tally /\ shares[k] \in PaymentShare
    BY <1>1, <1>2, <2>1, ShareFacts
  <2>3. a[k] = PayShare(payer, amount, a[k - 1], shares[k])
    BY <1>2
  <2>4. a[k - 1].ok => \A w \in Wallets : a[k - 1].funds[w] >= 0
    BY <1>4
  <2>5. /\ a[k].ok => a[k - 1].ok
        /\ a[k].ok /\ (\A w \in Wallets : a[k - 1].funds[w] >= 0) =>
              \A w \in Wallets : a[k].funds[w] >= 0
    <3> HIDE DEF amount, shares
    <3>1. a[k].ok => a[k - 1].ok
      BY <1>1, <2>2, <2>3, PayShareFacts
    <3>2. ASSUME a[k].ok, \A w \in Wallets : a[k - 1].funds[w] >= 0
          PROVE  \A w \in Wallets : a[k].funds[w] >= 0
      <4> DEFINE r == a[k - 1]
                 q == PayShare(payer, amount, r, shares[k])
      <4>1. q.ok /\ (\A w \in Wallets : r.funds[w] >= 0) =>
               \A w \in Wallets : q.funds[w] >= 0
        <5> HIDE DEF r
        <5>1. r \in Tally
          BY <2>2 DEF r
        <5> QED
          BY <1>1, <2>2, <5>1, PayShareFacts
      <4> QED
        BY <2>3, <3>2, <4>1
    <3> QED
      BY <3>1, <3>2
  <2> HIDE DEF n
  <2> QED
    BY <2>1, <2>4, <2>5
<1>5. n \in T /\ n \in 0 .. n
  <2>1. \A k \in 0 .. n : k \in T
    <3> HIDE DEF T, n
    <3> QED
      BY <1>1, <1>3, <1>4, EveryIndex
  <2>2. n \in 0 .. n
    BY <1>1
  <2> HIDE DEF T, n
  <2> QED
    BY <2>1, <2>2
<1>6. a[n].ok => \A w \in Wallets : a[n].funds[w] >= 0
  BY <1>5
<1>7. a[n] \in Tally
  <2> HIDE DEF T, n
  <2> QED
    BY <1>2, <1>5
<1>8. a[n].funds \in [Wallets -> Int]
  BY <1>7 DEF Tally
<1> HIDE DEF T, n
<1> QED
  BY <1>2, <1>6, <1>8

(* One more share of a collector keeps what it got within a unit a share   *)
(* of what is exact.                                                       *)
LEMMA FairStep ==
    ASSUME NEW d \in Nat \ {0}, NEW amount \in Nat, NEW points \in Nat,
           NEW m \in Nat, NEW g \in Int, NEW c \in Int,
           NEW share, share = (amount * points) \div d,
           g * d <= amount * c, amount * c - (d - 1) * m <= g * d
    PROVE  /\ (g + share) * d <= amount * (c + points)
           /\ amount * (c + points) - (d - 1) * (m + 1) <= (g + share) * d
<1> DEFINE A == g * d
           B == share * d
           C == amount * c
           E == amount * points
           F == (d - 1) * m
<1>1. E \in Nat
  OBVIOUS
<1>2. share \in Nat /\ B <= E /\ E < B + d
  <2> HIDE DEF E
  <2>1. share = E \div d
    BY DEF E
  <2> QED
    BY <1>1, <2>1, Quotient
<1>3. A \in Int /\ B \in Int /\ C \in Int /\ F \in Int
  BY <1>2
<1>4. /\ (d - 1) * (m + 1) = F + (d - 1)
      /\ (g + share) * d = A + B
      /\ amount * (c + points) = C + E
  BY <1>2
<1> HIDE DEF A, B, C, E, F
<1>5. A <= C /\ C - F <= A
  BY DEF A, C, F
<1>6. A + B <= C + E /\ (C + E) - (F + (d - 1)) <= A + B
  BY <1>1, <1>2, <1>3, <1>5
<1> QED
  BY <1>4, <1>6

(* The shares of a collector, counted up to an index. *)
LEMMA CountUpTo ==
    ASSUME info \in PaymentInfo, NEW w
    PROVE  LET n == Len(info.payment_shares)
               m == [k \in 0 .. n |-> Cardinality({j \in SharesOf(w) : j <= k})]
           IN  /\ m \in [0 .. n -> Nat] /\ m[0] = 0 /\ m[n] = Cardinality(SharesOf(w))
               /\ \A k \in 1 .. n :
                     m[k] = m[k - 1] + (IF k \in SharesOf(w) THEN 1 ELSE 0)
<1> DEFINE n == Len(info.payment_shares)
           S == SharesOf(w)
           upTo(k) == {j \in S : j <= k}
<1>1. n \in Nat /\ S \subseteq 1 .. n
  BY DEF PaymentInfo, SharesOf
<1> HIDE DEF n, S
<1>2. \A j \in S : j \in Nat /\ 0 < j /\ j <= n
  BY <1>1
<1>3. IsFiniteSet(1 .. n)
  BY <1>1, FS_Interval
<1>4. \A k : IsFiniteSet(upTo(k)) /\ Cardinality(upTo(k)) \in Nat
  <2>1. \A k : upTo(k) \in SUBSET (1 .. n)
    BY <1>1
  <2> HIDE DEF upTo
  <2> QED
    BY <1>3, <2>1, FS_Subset, FS_CardinalityType
<1>5. upTo(0) = {} /\ upTo(n) = S
  <2>1. \A j \in S : ~(j <= 0) /\ j <= n
    BY <1>2
  <2> QED
    BY <2>1, Zenon
<1>6. ASSUME NEW k \in 1 .. n
      PROVE  Cardinality(upTo(k))
                = Cardinality(upTo(k - 1)) + (IF k \in S THEN 1 ELSE 0)
  <2>1. \A j \in S : ((j <= k) <=> (j <= k - 1 \/ j = k)) /\ ~(k <= k - 1)
    BY <1>2
  <2>2. CASE k \in S
    <3>1. upTo(k) = upTo(k - 1) \cup {k} /\ k \notin upTo(k - 1)
      BY <2>1, <2>2, Zenon
    <3> HIDE DEF upTo
    <3> QED
      BY <1>4, <2>2, <3>1, FS_AddElement
  <2>3. CASE k \notin S
    <3>1. upTo(k) = upTo(k - 1)
      BY <2>1, <2>3, Zenon
    <3> HIDE DEF upTo
    <3> QED
      BY <1>4, <2>3, <3>1
  <2> QED
    BY <2>2, <2>3
<1>7. 0 \in 0 .. n /\ n \in 0 .. n /\ \A k \in 1 .. n : k \in 0 .. n /\ k - 1 \in 0 .. n
  BY <1>1
<1>8. Cardinality(upTo(0)) = 0
  BY <1>5, FS_EmptySet
<1> QED
  BY <1>4, <1>5, <1>6, <1>7, <1>8 DEF n, S

(* Without a remainder, every wallet but the payer gets its share. *)
LEMMA PayIsFair ==
    ASSUME PaymentAssumption, info \in PaymentInfo, funds \in [Wallets -> Nat],
           NEW payer \in Wallets, NEW accounts \in Seq(Wallets), Pay(payer, accounts),
           Remainder(info.payment_amount, info.payment_shares) <= 0,
           funds' # funds, NEW w \in Wallets \ {payer}
    PROVE  LET got == (funds'[w] - funds[w]) * Divisor
               exact == info.payment_amount * BasisPointsOf(w)
           IN  exact - (Divisor - 1) * Cardinality(SharesOf(w)) <= got /\ got <= exact
<1> DEFINE amount == info.payment_amount
           shares == info.payment_shares
           n == Len(shares)
           points(k) == shares[k].basis_points
           share(k) == ShareOf(amount, points(k))
<1>1. /\ amount \in Nat /\ shares \in Seq(PaymentShare) /\ n \in Nat
      /\ Divisor \in Nat \ {0}
  BY DEF PaymentInfo, PaymentAssumption
<1>2. PICK a \in [0 .. n -> Tally] :
          /\ a[0].funds = funds
          /\ a[0].remainder = Remainder(amount, shares)
          /\ \A k \in 1 .. n : a[k] = PayShare(payer, amount, a[k - 1], shares[k])
          /\ a[n].ok /\ funds' = a[n].funds
  BY PayTally
<1>3. PICK c \in [0 .. n -> Int] :
          /\ c[0] = 0
          /\ \A k \in 1 .. n :
                c[k] = c[k - 1] + (IF shares[k].address = w THEN points(k) ELSE 0)
          /\ BasisPointsOf(w) = c[n]
  BY CollectorFold
<1>4. \A k \in 1 .. n : shares[k] \in PaymentShare /\ points(k) \in Nat
  BY <1>1, ShareFacts
<1>5. \A k \in 0 .. n : a[k].remainder <= 0
  <2> DEFINE T == {k \in 0 .. n : a[k].remainder <= 0}
  <2>1. 0 \in T
    BY <1>1, <1>2
  <2>2. ASSUME NEW k \in 1 .. n, k - 1 \in T
        PROVE  k \in T
    <3>1. k \in 0 .. n /\ a[k - 1] \in Tally /\ a[k - 1].remainder <= 0
      BY <1>1, <1>2, <2>2
    <3>2. a[k] = PayShare(payer, amount, a[k - 1], shares[k])
      BY <1>2
    <3> DEFINE r == a[k - 1]
               s == shares[k]
    <3>3. s \in PaymentShare /\ r \in Tally /\ r.remainder <= 0
      BY <1>4, <3>1
    <3> HIDE DEF amount, r, s
    <3>4. PayShare(payer, amount, r, s).remainder <= 0
      BY <1>1, <3>3, PayShareFacts
    <3> QED
      BY <3>1, <3>2, <3>4 DEF r, s
  <2>3. \A k \in 0 .. n : k \in T
    <3> HIDE DEF T, n
    <3> QED
      BY <1>1, <2>1, <2>2, EveryIndex
  <2> QED
    BY <2>3
<1> DEFINE g == [k \in 0 .. n |-> a[k].funds[w] - funds[w]]
<1>6. g \in [0 .. n -> Int] /\ g[0] = 0
  BY <1>1, <1>2 DEF Tally
<1>7. ASSUME NEW k \in 1 .. n
      PROVE  a[k].ok => /\ a[k - 1].ok
                        /\ g[k] = g[k - 1] + (IF shares[k].address = w
                                              THEN share(k) ELSE 0)
  <2>1. k \in 0 .. n /\ k - 1 \in 0 .. n
    BY <1>1
  <2>2. a[k - 1] \in Tally /\ a[k - 1].remainder <= 0
    BY <1>2, <1>5, <2>1
  <2>3. a[k] = PayShare(payer, amount, a[k - 1], shares[k])
    BY <1>2
  <2>4. /\ a[k].ok => a[k - 1].ok
        /\ a[k].ok => a[k].funds[w] = a[k - 1].funds[w]
                            + (IF shares[k].address = w THEN share(k) ELSE 0)
    <3> DEFINE r == a[k - 1]
               s == shares[k]
               q == PayShare(payer, amount, r, s)
    <3>1. s \in PaymentShare /\ r \in Tally /\ r.remainder <= 0
      BY <1>4, <2>2
    <3> HIDE DEF amount, r, s
    <3>2. /\ q.ok => r.ok
          /\ q.ok => q.funds[w] = r.funds[w] + (IF s.address = w
                                  THEN ShareOf(amount, s.basis_points) ELSE 0)
      BY <1>1, <3>1, PayShareFacts
    <3>3. a[k] = q
      BY <2>3 DEF r, s
    <3> HIDE DEF q
    <3> QED
      BY <3>2, <3>3 DEF r, s
  <2>5. a[k - 1].funds[w] \in Int /\ funds[w] \in Int
    BY <2>2 DEF Tally
  <2>6. share(k) \in Nat
    <3>1. amount * points(k) \in Nat
      BY <1>1, <1>4
    <3> HIDE DEF amount, points
    <3> QED
      BY <1>1, <3>1, Quotient DEF ShareOf
  <2>7. g[k] = a[k].funds[w] - funds[w] /\ g[k - 1] = a[k - 1].funds[w] - funds[w]
    BY <2>1
  <2> DEFINE before == a[k - 1].funds[w]
             after == a[k].funds[w]
             start == funds[w]
             got == IF shares[k].address = w THEN share(k) ELSE 0
  <2>8. got \in Int
    BY <2>6
  <2>9. before \in Int /\ start \in Int /\ g[k] = after - start /\ g[k - 1] = before - start
    BY <2>5, <2>7
  <2>10. a[k].ok => a[k - 1].ok /\ after = before + got
    BY <2>4
  <2> HIDE DEF before, after, start, got, g, share, amount, shares, n
  <2>11. a[k].ok => g[k] = g[k - 1] + got
    BY <2>8, <2>9, <2>10
  <2> QED
    BY <2>10, <2>11 DEF got
<1> DEFINE m == [k \in 0 .. n |-> Cardinality({j \in SharesOf(w) : j <= k})]
           T == {k \in 0 .. n : a[k].ok =>
                   /\ g[k] * Divisor <= amount * c[k]
                   /\ amount * c[k] - (Divisor - 1) * m[k] <= g[k] * Divisor}
<1>8. /\ m \in [0 .. n -> Nat] /\ m[0] = 0 /\ m[n] = Cardinality(SharesOf(w))
      /\ \A k \in 1 .. n : m[k] = m[k - 1] + (IF k \in SharesOf(w) THEN 1 ELSE 0)
  <2> HIDE DEF g
  <2> QED
    BY <1>1, CountUpTo
<1>9. 0 \in T
  <2> HIDE DEF g, m, amount, n
  <2> QED
    BY <1>1, <1>3, <1>6, <1>8
<1>10. ASSUME NEW k \in 1 .. n, k - 1 \in T
       PROVE  k \in T
  <2> SUFFICES ASSUME a[k].ok
               PROVE  k \in T
    BY <1>1
  <2> DEFINE g0 == g[k - 1]
             c0 == c[k - 1]
             m0 == m[k - 1]
  <2>1. k \in 0 .. n /\ k - 1 \in 0 .. n /\ points(k) \in Nat
    <3>1. points(k) \in Nat
      BY <1>4
    <3> HIDE DEF g, T, n, points
    <3> QED
      BY <1>1, <3>1
  <2>2. g0 * Divisor <= amount * c0 /\ amount * c0 - (Divisor - 1) * m0 <= g0 * Divisor
    <3>1. a[k - 1].ok
      BY <1>7
    <3> HIDE DEF amount, g, m, n
    <3> QED
      BY <1>10, <3>1
  <2> HIDE DEF m
  <2>3. g0 \in Int /\ c0 \in Int /\ m0 \in Nat
    BY <1>3, <1>6, <1>8, <2>1
  <2>4. CASE k \in SharesOf(w)
    <3>1. /\ g[k] = g0 + share(k) /\ c[k] = c0 + points(k) /\ m[k] = m0 + 1
      <4>1. shares[k].address = w
        BY <2>4 DEF SharesOf
      <4> QED
        BY <1>3, <1>7, <1>8, <2>4, <4>1
    <3>2. share(k) = (amount * points(k)) \div Divisor
      BY DEF ShareOf
    <3> HIDE DEF g, g0, c0, m0, amount, shares, share, points, n
    <3>3. /\ (g0 + share(k)) * Divisor <= amount * (c0 + points(k))
          /\ amount * (c0 + points(k)) - (Divisor - 1) * (m0 + 1)
                <= (g0 + share(k)) * Divisor
      BY <1>1, <2>1, <2>2, <2>3, <3>2, FairStep
    <3>4. /\ g[k] * Divisor <= amount * c[k]
          /\ amount * c[k] - (Divisor - 1) * m[k] <= g[k] * Divisor
      BY <3>1, <3>3
    <3> QED
      BY <2>1, <3>4, Zenon
  <2>5. CASE k \notin SharesOf(w)
    <3>1. g[k] = g0 /\ c[k] = c0 /\ m[k] = m0
      <4>1. k \in DOMAIN shares
        BY <1>1
      <4>2. shares[k].address # w \/ points(k) = 0
        BY <2>5, <4>1 DEF SharesOf
      <4>3. points(k) = 0 => share(k) = 0
        <5>1. amount * 0 = 0 /\ 0 \div Divisor = 0
          BY <1>1
        <5> QED
          BY <5>1 DEF ShareOf
      <4>4. g[k] = g0 + (IF shares[k].address = w THEN share(k) ELSE 0)
        BY <1>7
      <4>5. c[k] = c0 + (IF shares[k].address = w THEN points(k) ELSE 0)
        BY <1>3
      <4>6. m[k] = m0
        <5>1. m[k] = m0 + (IF k \in SharesOf(w) THEN 1 ELSE 0)
          BY <1>8
        <5> HIDE DEF m0
        <5> QED
          BY <2>3, <2>5, <5>1
      <4> HIDE DEF g, g0, c0, m0, shares, share, points, n
      <4> QED
        BY <2>3, <4>2, <4>3, <4>4, <4>5, <4>6
    <3> HIDE DEF g, g0, c0, m0, amount, n
    <3>2. /\ g[k] * Divisor <= amount * c[k]
          /\ amount * c[k] - (Divisor - 1) * m[k] <= g[k] * Divisor
      BY <2>2, <3>1
    <3> QED
      BY <2>1, <3>2, Zenon
  <2> QED
    BY <2>4, <2>5
<1>11. n \in T
  <2>1. \A k \in 0 .. n : k \in T
    <3> HIDE DEF T, n
    <3> QED
      BY <1>1, <1>9, <1>10, EveryIndex
  <2>2. n \in 0 .. n
    BY <1>1
  <2> HIDE DEF T, n
  <2> QED
    BY <2>1, <2>2
<1>12. g[n] = funds'[w] - funds[w]
  BY <1>1, <1>2
<1> HIDE DEF g, m
<1> QED
  BY <1>2, <1>3, <1>8, <1>11, <1>12

-----------------------------------------------------------------------------
(* The specification. *)

(* What is true of every state: the account was checked when it was set. *)
PaymentInv ==
    /\ PaymentTypeOK
    /\ info # None => info \in Settings /\ SharesAreValid(info.payment_shares)

(* The accounts of a transaction are a payer and accounts to pay. *)
LEMMA PayListedFacts ==
    ASSUME PaymentAssumption, PaymentTypeOK, PayListed
    PROVE  /\ info \in PaymentInfo
           /\ Head(unsent) \in Wallets /\ Tail(unsent) \in Seq(Wallets)
           /\ Pay(Head(unsent), Tail(unsent))
<1>1. info # None /\ unsent \in Seq(Wallets) /\ unsent # <<>>
  BY DEF PayListed, Pay, PaymentTypeOK
<1>2. Head(unsent) \in Wallets /\ Tail(unsent) \in Seq(Wallets)
  BY <1>1
<1> QED
  BY <1>1, <1>2 DEF PayListed, PaymentTypeOK

(* The same of what any caller lists. *)
LEMMA PayDirectlyFacts ==
    ASSUME PaymentAssumption, PaymentTypeOK, NEW payer \in Wallets, PayDirectly(payer)
    PROVE  /\ info \in PaymentInfo
           /\ \E accounts \in Seq(Wallets) : Pay(payer, accounts)
<1>1. info \in PaymentInfo
  BY DEF PayDirectly, PaymentTypeOK
<1>2. PICK accounts \in SeqOf(Wallets, Len(info.payment_shares)) : Pay(payer, accounts)
  BY DEF PayDirectly
<1>3. Len(info.payment_shares) \in Nat
  BY <1>1 DEF PaymentInfo
<1>4. accounts \in Seq(Wallets)
  <2>1. PICK m \in 0 .. Len(info.payment_shares) : accounts \in [1 .. m -> Wallets]
    BY <1>2 DEF SeqOf
  <2>2. m \in Nat
    BY <1>3
  <2> QED
    BY <2>1, <2>2
<1> QED
  BY <1>1, <1>2, <1>4

(* The SDK lists wallets. *)
LEMMA RemainingAccountsFacts ==
    ASSUME PaymentAssumption, info \in PaymentInfo, NEW payer \in Wallets
    PROVE  RemainingAccounts(payer) \in Seq(Wallets)
<1> DEFINE shares == info.payment_shares
<1>1. shares \in Seq(PaymentShare)
  BY DEF PaymentInfo
<1>2. AddressesOf(shares) \in Seq(Wallets)
  <2> HIDE DEF shares
  <2>1. DOMAIN shares = 1 .. Len(shares) /\ Len(shares) \in Nat
    BY <1>1
  <2>2. \A k \in 1 .. Len(shares) : shares[k].address \in Wallets
    <3>1. \A k \in 1 .. Len(shares) : shares[k] \in PaymentShare
      BY <1>1, ShareFacts
    <3> QED
      BY <3>1 DEF PaymentShare
  <2> QED
    BY <2>1, <2>2 DEF AddressesOf
<1>3. <<payer>> \in Seq(Wallets) /\ <<>> \in Seq(Wallets)
  OBVIOUS
<1>4. <<payer>> \o AddressesOf(shares) \in Seq(Wallets)
  BY <1>2, <1>3
<1> QED
  BY <1>3, <1>4 DEF RemainingAccounts

(* The invariant holds, one step per action. *)
LEMMA PaymentStep ==
    ASSUME PaymentAssumption, PaymentInv, [Next]_vars
    PROVE  PaymentInv'
<1> USE DEF PaymentInv
<1>1. ASSUME NEW i \in Settings, InitPaymentInfo(i)
      PROVE  PaymentInv'
  BY <1>1 DEF InitPaymentInfo, PaymentTypeOK, PaymentAssumption
<1>2. ASSUME NEW i \in Settings, NEW a \in Wallets, UpdatePaymentInfo(a, i)
      PROVE  PaymentInv'
  BY <1>2 DEF UpdatePaymentInfo, PaymentTypeOK, PaymentAssumption
<1>3. ASSUME NEW w \in Wallets, PayDirectly(w)
      PROVE  PaymentInv'
  <2>1. PICK accounts \in Seq(Wallets) : Pay(w, accounts)
    BY <1>3, PayDirectlyFacts
  <2>2. funds' \in [Wallets -> Nat]
    BY <1>3, <2>1, PayDirectlyFacts, PayFacts DEF PaymentTypeOK
  <2>3. UNCHANGED <<info, unsent>>
    BY <1>3, <2>1 DEF PayDirectly, Pay
  <2> QED
    BY <2>2, <2>3 DEF PaymentTypeOK
<1>4. ASSUME NEW w \in Wallets, ListAccounts(w)
      PROVE  PaymentInv'
  <2>1. RemainingAccounts(w) \in Seq(Wallets)
    BY <1>4, RemainingAccountsFacts DEF ListAccounts, PaymentTypeOK
  <2> QED
    BY <1>4, <2>1 DEF ListAccounts, PaymentTypeOK
<1>5. ASSUME PayListed
      PROVE  PaymentInv'
  <2>1. funds' \in [Wallets -> Nat]
    BY <1>5, PayListedFacts, PayFacts DEF PaymentTypeOK
  <2>2. UNCHANGED info /\ unsent' = None
    BY <1>5 DEF PayListed, Pay
  <2> QED
    BY <2>1, <2>2 DEF PaymentTypeOK
<1>6. ASSUME Drop
      PROVE  PaymentInv'
  BY <1>6 DEF Drop, PaymentTypeOK
<1>7. ASSUME UNCHANGED vars
      PROVE  PaymentInv'
  BY <1>7 DEF vars, PaymentTypeOK
<1> QED
  BY <1>1, <1>2, <1>3, <1>4, <1>5, <1>6, <1>7 DEF Next

(* The invariant holds at the start. *)
LEMMA PaymentStart ==
    ASSUME PaymentAssumption, Init
    PROVE  PaymentInv
BY DEF PaymentAssumption, Init, PaymentInv, PaymentTypeOK

(* Accounts and balances have values of their type: no payment overdraws a *)
(* wallet, whoever lists which accounts, and the payment info never holds  *)
(* shares whose 16-bit sum is not the divisor, after any update of it.     *)
THEOREM PaymentTypeCorrect == Spec => []PaymentTypeOK
<1>1. Init => PaymentInv
  BY PaymentAssumption, PaymentStart
<1>2. PaymentInv /\ [Next]_vars => PaymentInv'
  BY PaymentAssumption, PaymentStep
<1>3. PaymentInv => PaymentTypeOK
  BY DEF PaymentInv
<1> QED
  BY <1>1, <1>2, <1>3, PTL DEF Spec

(* Where no total wraps, every wallet but the payer gets its basis points  *)
(* of the amount, each share rounded down: whichever accounts the caller   *)
(* lists, and also when the payment info has changed since the SDK read it.*)
THEOREM PaymentsAreFair ==
    ASSUME NoTotalWraps
    PROVE  Spec => FairShares
<1> DEFINE Fair == funds' # funds =>
              \E payer \in Wallets : \A w \in Wallets \ {payer} :
                LET got == (funds'[w] - funds[w]) * Divisor
                    exact == info.payment_amount * BasisPointsOf(w)
                IN  exact - (Divisor - 1) * Cardinality(SharesOf(w)) <= got /\ got <= exact
<1>1. Init => PaymentInv
  BY PaymentAssumption, PaymentStart
<1>2. PaymentInv /\ [Next]_vars => PaymentInv'
  BY PaymentAssumption, PaymentStep
<1>3. ASSUME PaymentInv, NEW payer \in Wallets, NEW accounts \in Seq(Wallets),
             Pay(payer, accounts), funds' # funds
      PROVE  Fair
  <2>1. /\ info \in Settings /\ SharesAreValid(info.payment_shares)
        /\ info \in PaymentInfo /\ funds \in [Wallets -> Nat]
        /\ info.payment_amount > 0
    BY <1>3 DEF PaymentInv, PaymentTypeOK, Pay
  <2>2. Remainder(info.payment_amount, info.payment_shares) <= 0
    BY <2>1, PaymentAssumption, NoRemainder
  <2>3. ASSUME NEW w \in Wallets \ {payer}
        PROVE  LET got == (funds'[w] - funds[w]) * Divisor
                   exact == info.payment_amount * BasisPointsOf(w)
               IN  exact - (Divisor - 1) * Cardinality(SharesOf(w)) <= got /\ got <= exact
    BY <1>3, <2>1, <2>2, PaymentAssumption, PayIsFair
  <2> QED
    BY <2>3
<1>4. PaymentInv /\ [Next]_vars => [Fair]_vars
  <2> SUFFICES ASSUME PaymentInv, Next, funds' # funds
               PROVE  Fair
    BY DEF vars
  <2>1. ASSUME NEW w \in Wallets, PayDirectly(w)
        PROVE  Fair
    <3>1. \E accounts \in Seq(Wallets) : Pay(w, accounts)
      BY <2>1, PaymentAssumption, PayDirectlyFacts DEF PaymentInv
    <3> QED
      BY <1>3, <3>1
  <2>2. ASSUME PayListed
        PROVE  Fair
    BY <1>3, <2>2, PaymentAssumption, PayListedFacts DEF PaymentInv
  <2> HIDE DEF Fair
  <2> QED
    BY <2>1, <2>2 DEF Next, InitPaymentInfo, UpdatePaymentInfo, ListAccounts, Drop
<1> QED
  BY <1>1, <1>2, <1>4, PTL DEF Spec, FairShares
=============================================================================
