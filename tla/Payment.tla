------------------------------- MODULE Payment -------------------------------
(***************************************************************************)
(* The payment info account and handle_payment, which splits a payment      *)
(* between collectors.  handle_payment_info accepts one payment info, at a  *)
(* fixed address, so the model has one account.                            *)
(*                                                                         *)
(* The accounts a payment moves money between come from the caller.  The    *)
(* SDK lists them from the payment info it read, which may have changed     *)
(* when the transaction runs; one transaction of the SDK is under way at a  *)
(* time, beside callers who list whatever accounts they like.              *)
(*                                                                         *)
(* Native SOL and an SPL token are split alike; only one is modelled.  A    *)
(* definition marked as a faulty variant is not part of the model.          *)
(***************************************************************************)
EXTENDS Integers, Sequences, FiniteSets, SequencesExt

CONSTANTS
    Wallets,       \* payers, collectors and authorities
    Settings,      \* the accounts that are asked for
    InitialFunds,  \* what each wallet starts with
    Divisor,       \* BASIS_POINTS_DIVISOR, 10_000
    U16,           \* 2^16, the modulus of the sum of basis points
    U64,           \* 2^64, or a smaller modulus in the model
    None

PaymentShare == [address : Wallets, basis_points : 0 .. U16 - 1]

PaymentInfo ==
    [authority : Wallets, payment_amount : Nat, payment_shares : Seq(PaymentShare)]

ASSUME PaymentAssumption ==
    /\ None \notin PaymentInfo
    /\ Settings \subseteq PaymentInfo
    /\ {InitialFunds, Divisor, U16, U64} \subseteq Nat \ {0}
    /\ IsFiniteSet(Wallets)

VARIABLES
    info,    \* the PaymentInfo account, or None
    funds,   \* funds[w]
    unsent   \* the accounts the SDK's transaction lists, payer first, or None

vars == <<info, funds, unsent>>

Init ==
    /\ info = None
    /\ unsent = None
    /\ funds = [w \in Wallets |-> InitialFunds]

-----------------------------------------------------------------------------
(* The account.  The sum has the width of a share and wraps around: the    *)
(* release profile does not turn overflow checks on.                       *)

SharesAreValid(shares) ==
    FoldLeft(LAMBDA total, s : (total + s.basis_points) % U16, 0, shares) = Divisor

InitPaymentInfo(i) ==
    /\ info = None
    /\ SharesAreValid(i.payment_shares)
    /\ info' = i
    /\ UNCHANGED <<funds, unsent>>

(* Faulty variant: the new shares are not added up. *)
UpdateUnchecked(a, i) ==
    /\ info # None
    /\ info.authority = a
    /\ info' = i
    /\ UNCHANGED <<funds, unsent>>

UpdatePaymentInfo(a, i) ==
    /\ info # None
    /\ info.authority = a
    /\ SharesAreValid(i.payment_shares)
    /\ info' = i
    /\ UNCHANGED <<funds, unsent>>

-----------------------------------------------------------------------------
(* A payment. *)

(* The system program, or the token program, moves n from one wallet to     *)
(* another, and refuses to when there is less.                             *)
Transfer(f, from, to, n) == [[f EXCEPT ![from] = @ - n] EXCEPT ![to] = @ + n]

ShareOf(amount, basis_points) == (amount * basis_points) \div Divisor

(* The part of the amount that no share accounts for. *)
Remainder(amount, shares) ==
    LET sum == FoldLeft(LAMBDA total, s : (total + amount * s.basis_points) % U64,
                        0, shares)
    IN  amount - sum \div Divisor

CanTransfer(f, from, n) == f[from] >= n

(* Faulty variant: the keys of the accounts are not compared. *)
AnyAccount(account, s) == TRUE

IsCollector(account, s) == account = s.address

(* Faulty variant: a share the payer cannot afford is left out. *)
PayAffordable(payer, amount, r, s) ==
    LET extra == IF r.remainder > 0 THEN 1 ELSE 0
        due == ShareOf(amount, s.basis_points) + extra
    IN  IF s.basis_points = 0 THEN r
        ELSE IF r.accounts = <<>> THEN [r EXCEPT !.ok = FALSE]
        ELSE [funds |-> IF CanTransfer(r.funds, payer, due)
                        THEN Transfer(r.funds, payer, Head(r.accounts), due)
                        ELSE r.funds,
              accounts |-> Tail(r.accounts),
              remainder |-> r.remainder - extra,
              ok |-> r.ok /\ IsCollector(Head(r.accounts), s)]

(* The next of the accounts is paid a share, and a unit of what is left    *)
(* over.  r has the balances, the accounts not used yet, what is left over *)
(* and whether all went well.                                              *)
PayShare(payer, amount, r, s) ==
    LET extra == IF r.remainder > 0 THEN 1 ELSE 0
        due == ShareOf(amount, s.basis_points) + extra
    IN  IF s.basis_points = 0 THEN r
        ELSE IF r.accounts = <<>> THEN [r EXCEPT !.ok = FALSE]
        ELSE [funds |-> Transfer(r.funds, payer, Head(r.accounts), due),
              accounts |-> Tail(r.accounts),
              remainder |-> r.remainder - extra,
              ok |-> /\ r.ok
                     /\ IsCollector(Head(r.accounts), s)
                     /\ CanTransfer(r.funds, payer, due)]

(* handle_payment_info, called by stake, unstake and claim, with the       *)
(* accounts after the payer and the transfer program.  An amount of zero   *)
(* returns at once, and accounts that are left over do no harm.            *)
Pay(payer, accounts) ==
    LET amount == info.payment_amount
        shares == info.payment_shares
        remainder == Remainder(amount, shares)
        result == FoldLeft(LAMBDA r, s : PayShare(payer, amount, r, s),
                           [funds |-> funds, accounts |-> accounts,
                            remainder |-> remainder, ok |-> TRUE],
                           shares)
    IN  /\ info # None
        /\ amount > 0
        /\ \A k \in DOMAIN shares : amount * shares[k].basis_points < U64
        /\ remainder >= 0                                   \* else "Sub error"
        /\ result.ok
        /\ funds' = result.funds
        /\ UNCHANGED info

-----------------------------------------------------------------------------
(* The callers. *)

AddressesOf(shares) == [k \in DOMAIN shares |-> shares[k].address]

(* A caller may list any accounts; no more than the shares are looked at. *)
PayDirectly(payer) ==
    /\ info # None
    /\ \E accounts \in SeqOf(Wallets, Len(info.payment_shares)) : Pay(payer, accounts)
    /\ UNCHANGED unsent

(* The SDK lists the payer and the collector of every share, or nobody for *)
(* a payment of zero.                                                      *)
RemainingAccounts(payer) ==
    IF info.payment_amount = 0 THEN <<>>
    ELSE <<payer>> \o AddressesOf(info.payment_shares)

ListAccounts(payer) ==
    /\ info # None
    /\ unsent = None
    /\ unsent' = RemainingAccounts(payer)
    /\ UNCHANGED <<info, funds>>

PayListed ==
    /\ unsent \notin {None, <<>>}
    /\ Pay(Head(unsent), Tail(unsent))
    /\ unsent' = None

(* The transaction fails, is lost or expires. *)
Drop ==
    /\ unsent # None
    /\ unsent' = None
    /\ UNCHANGED <<info, funds>>

Next ==
    \/ \E i \in Settings :
          \/ InitPaymentInfo(i)
          \/ \E a \in Wallets : UpdatePaymentInfo(a, i)
    \/ \E w \in Wallets :
          \/ PayDirectly(w)
          \/ ListAccounts(w)
    \/ PayListed
    \/ Drop

Spec == Init /\ [][Next]_vars

-----------------------------------------------------------------------------
(* Properties.                                                             *)

(* Accounts hold values of their type: no payment overdraws a wallet, and  *)
(* the account never holds shares that init_payment_info would refuse,     *)
(* however often it is updated.                                            *)
PaymentTypeOK ==
    /\ info \in PaymentInfo \cup {None}
    /\ info # None => SharesAreValid(info.payment_shares)
    /\ funds \in [Wallets -> Nat]
    /\ unsent \in Seq(Wallets) \cup {None}

BasisPointsOf(w) ==
    FoldLeft(LAMBDA total, s : total + IF s.address = w THEN s.basis_points ELSE 0,
             0, info.payment_shares)

(* The shares of w that a payment does not pass over. *)
SharesOf(w) ==
    {k \in DOMAIN info.payment_shares :
        info.payment_shares[k].address = w /\ info.payment_shares[k].basis_points # 0}

(* No total of the shares of a payment reaches U64.  Nothing in the program *)
(* sees to it: with U64 = 2^64 it holds for n shares of an amount of at    *)
(* most 2^48 / n, and where it does not a collector can get a unit more    *)
(* than its share.                                                         *)
NoTotalWraps ==
    \A i \in Settings : i.payment_amount * U16 * Len(i.payment_shares) <= U64

(* In a payment every wallet but the payer gets its basis points of the    *)
(* amount, never more, and less by under one unit for each share of its    *)
(* own: also when it has several shares, when the payer can afford the     *)
(* first shares and not the last, which leaves all of them unpaid, and     *)
(* when the SDK listed the accounts from a payment info that has changed   *)
(* (payment/state.rs:128-177).  It relies on NoTotalWraps.                 *)
FairShares ==
    [][ funds' # funds =>
          \E payer \in Wallets : \A w \in Wallets \ {payer} :
            LET got == (funds'[w] - funds[w]) * Divisor
                exact == info.payment_amount * BasisPointsOf(w)
            IN  exact - (Divisor - 1) * Cardinality(SharesOf(w)) <= got /\ got <= exact
      ]_vars

(* A payment takes the whole amount from a payer who is no collector       *)
(* ("remainder is distributed to first collectors", payment/state.rs:126). *)
WholeAmountPaid ==
    [][ \A w \in Wallets : funds'[w] < funds[w] /\ BasisPointsOf(w) = 0 =>
          funds[w] - funds'[w] = info.payment_amount ]_vars

(* The shares of a payment info add up to BASIS_POINTS_DIVISOR ("Invalid   *)
(* payment shares", errors.rs:40).                                         *)
SharesAddUp ==
    info # None =>
        FoldLeft(LAMBDA total, s : total + s.basis_points, 0, info.payment_shares)
            = Divisor
=============================================================================
