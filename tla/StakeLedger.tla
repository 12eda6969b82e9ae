---------------------------- MODULE StakeLedger ----------------------------
(***************************************************************************)
(* What a stake pool promises its stakers, with no accounts, timestamps or  *)
(* escrows: who holds which stake, whether its release has been requested,  *)
(* and an exact stopwatch that runs while a stake is held and no release    *)
(* has been requested.  StakePool.tla implements it with lazily updated     *)
(* timestamps, a per-user escrow and counters.                              *)
(***************************************************************************)
EXTENDS Naturals

CONSTANTS
    Users,      \* wallets
    Mints,      \* the tokens that can be staked
    Entries,    \* pairs <<pool, mint>>: the stake entries that may exist
    None        \* no holder

VARIABLES
    owner,      \* owner[m]: the wallet that owns token m
    holder,     \* holder[e]: the wallet whose stake e is, or None
    requested,  \* the entries whose release has been requested
    elapsed     \* elapsed[e]: seconds staked since the last reset

vars == <<owner, holder, requested, elapsed>>

Init ==
    /\ owner \in [Mints -> Users]
    /\ holder = [e \in Entries |-> None]
    /\ requested = {}
    /\ elapsed = [e \in Entries |-> 0]

Running(e) == holder[e] # None /\ e \notin requested

(* A token is staked by its owner, in one entry at a time. *)
Stake(u, e) ==
    /\ owner[e[2]] = u
    /\ \A f \in Entries : f[2] = e[2] => holder[f] = None
    /\ holder' = [holder EXCEPT ![e] = u]
    /\ UNCHANGED <<owner, requested, elapsed>>

(* The stopwatch stops when the release is requested.  A request survives  *)
(* on an entry nobody holds, and the next stake then starts stopped.       *)
RequestRelease(e) ==
    /\ e \notin requested
    /\ requested' = requested \cup {e}
    /\ UNCHANGED <<owner, holder, elapsed>>

(* A stake is released by its holder alone, who keeps the token. *)
Release(u, e, total) ==
    /\ u # None
    /\ holder[e] = u
    /\ total \in {0, elapsed[e]}
    /\ holder' = [holder EXCEPT ![e] = None]
    /\ requested' = requested \ {e}
    /\ elapsed' = [elapsed EXCEPT ![e] = total]
    /\ UNCHANGED owner

(* The stopwatch is set back to zero, and a pending request withdrawn. *)
Reset(e) ==
    /\ requested' = requested \ {e}
    /\ elapsed' = [elapsed EXCEPT ![e] = 0]
    /\ UNCHANGED <<owner, holder>>

(* A token changes hands only while no entry holds it. *)
Transfer(m, u) ==
    /\ \A e \in Entries : e[2] = m => holder[e] = None
    /\ owner' = [owner EXCEPT ![m] = u]
    /\ UNCHANGED <<holder, requested, elapsed>>

(* One second passes. *)
Tick ==
    /\ elapsed' = [e \in Entries |-> elapsed[e] + IF Running(e) THEN 1 ELSE 0]
    /\ UNCHANGED <<owner, holder, requested>>

Next ==
    \/ \E u \in Users, e \in Entries :
          \/ Stake(u, e)
          \/ \E total \in {0, elapsed[e]} : Release(u, e, total)
    \/ \E e \in Entries : RequestRelease(e) \/ Reset(e)
    \/ \E m \in Mints, u \in Users : Transfer(m, u)
    \/ Tick

Spec == Init /\ [][Next]_vars
=============================================================================
