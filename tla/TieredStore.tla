----------------------------- MODULE TieredStore -----------------------------
(***************************************************************************)
(* What tiering promises to the owner of one client's snapshots, without   *)
(* saying how: two stores, two horizons, and when a copy may be dropped.   *)
(* There are no passes, rows or goroutines here; OffsiteTiering, with all  *)
(* its stale listings, failures and crashes, implements this.              *)
(***************************************************************************)
EXTENDS Naturals

VARIABLES
    now,     \* the day
    policy,  \* whether the client is offsited, and both horizons
    taken,   \* snapshots completed so far, named for their day
    hot,     \* those on the server
    cold     \* those with a copy offsite

storeVars == <<now, policy, taken, hot, cold>>

\* A horizon of 0 days never ends.
Policy == [offsite: BOOLEAN, hotDays: Nat, coldDays: Nat]

PastHot(s) == policy.hotDays > 0 /\ s + policy.hotDays < now
PastCold(s) == policy.coldDays > 0 /\ s + policy.coldDays < now

Init ==
    /\ now = 1
    /\ policy \in Policy
    /\ taken = {} /\ hot = {} /\ cold = {}

Age ==
    /\ now' = now + 1
    /\ UNCHANGED <<policy, taken, hot, cold>>

Take ==
    /\ now \notin taken
    /\ taken' = taken \cup {now}
    /\ hot' = hot \cup {now}
    /\ UNCHANGED <<now, policy, cold>>

Archive(s) ==
    /\ policy.offsite
    /\ cold' = cold \cup {s}
    /\ UNCHANGED <<now, policy, taken, hot>>

\* Offsite first, and never the newest.
DropHot(s) ==
    /\ PastHot(s)
    /\ \E t \in taken : t > s
    /\ policy.offsite => s \in cold \/ PastCold(s)
    /\ hot' = hot \ {s}
    /\ UNCHANGED <<now, policy, taken, cold>>

DropCold(s) ==
    /\ policy.offsite /\ PastCold(s)
    /\ cold' = cold \ {s}
    /\ UNCHANGED <<now, policy, taken, hot>>

Next ==
    \/ Age \/ Take
    \/ \E s \in taken : Archive(s)
    \/ \E s \in hot : DropHot(s)
    \/ \E s \in cold : DropCold(s)

Spec == Init /\ [][Next]_storeVars
=============================================================================
