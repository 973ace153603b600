----------------------------- MODULE LinkLeases -----------------------------
(***************************************************************************)
(* What a cache of delivery links promises, without saying how it keeps    *)
(* its entries: every (tenant, asset) key holds at most one lease on a     *)
(* resolve result.  A lease is granted for one tenant at a time, ends      *)
(* SafetyMargin before the shortest link of its result does, is never      *)
(* renewed or moved, and may be forgotten at any moment.                   *)
(***************************************************************************)
EXTENDS Integers, FiniteSets

CONSTANTS Tenants, Assets, Results, TicksPerSecond, SafetyMargin

VARIABLES lease, clock

vars == <<lease, clock>>

Keys == Tenants \X Assets

TypeOK ==
    /\ DOMAIN lease \subseteq Keys
    /\ \A k \in DOMAIN lease :
           lease[k] \in [result: Results, storedAt: Nat, expiresAt: Nat]
    /\ clock \in Nat

Init ==
    /\ lease = [k \in {} |-> {}]
    /\ clock \in Nat

(* A lease cut now for asset a: on a result for a, ending SafetyMargin     *)
(* before each of its links.                                               *)
IsFreshLease(l, a) ==
    /\ l.result \in Results
    /\ l.result.asset = a
    /\ l.storedAt = clock
    /\ l.expiresAt > clock
    /\ \A e \in l.result.expiries :
           l.expiresAt + SafetyMargin <= clock + TicksPerSecond * e

(* Some keys of one tenant get a fresh lease; every other key keeps what   *)
(* it held, or loses it.                                                   *)
Grant(t) ==
    /\ DOMAIN lease' \subseteq Keys
    /\ \A k \in DOMAIN lease' :
           \/ k \in DOMAIN lease /\ lease'[k] = lease[k]
           \/ k[1] = t /\ IsFreshLease(lease'[k], k[2])
    /\ UNCHANGED clock

Tick ==
    /\ clock' = clock + 1
    /\ UNCHANGED lease

Next ==
    \/ \E t \in Tenants : Grant(t)
    \/ Tick

Spec == Init /\ [][Next]_vars
=============================================================================
