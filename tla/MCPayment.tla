----------------------------- MODULE MCPayment -----------------------------
(***************************************************************************)
(* Small instances of Payment for TLC.                                     *)
(***************************************************************************)
EXTENDS Payment

CONSTANTS u1, u2, u3

Share(w, n) == [address |-> w, basis_points |-> n]

(* One collector, and another; two with an odd split; one with two shares  *)
(* beside a share of nothing; and a split of too much, which is refused.   *)
Splits ==
    {<<Share(u1, 10000)>>,
     <<Share(u2, 10000)>>,
     <<Share(u1, 3333), Share(u2, 6667)>>,
     <<Share(u1, 2500), Share(u2, 0), Share(u1, 2500), Share(u2, 5000)>>,
     <<Share(u1, 10000), Share(u2, 1)>>}

(* Two shares that add up to 10000 + 2^16. *)
WrappedSplit == <<Share(u1, 65535), Share(u2, 10001)>>

InfosOf(splits) ==
    [authority : {u1, u2}, payment_amount : {0, 5}, payment_shares : splits]

SplitInfos == InfosOf(Splits)
WrappedInfos == InfosOf(Splits \cup {WrappedSplit})

ASSUME SmallAmounts == NoTotalWraps
=============================================================================
