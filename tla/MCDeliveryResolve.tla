------------------------- MODULE MCDeliveryResolve --------------------------
(***************************************************************************)
(* Small instances of DeliveryResolve for TLC, two in one: a caller alone, *)
(* whose pages take several batches, and two callers of two tenants, who   *)
(* ask for one asset.                                                      *)
(***************************************************************************)
EXTENDS DeliveryResolve

CONSTANTS a1, a2, c1, c2, t1

VARIABLE alone   \* which of the two; never changes

\* The callers, one of a client without a tenant.
TwoTenants == [c \in Callers |-> IF c = c1 THEN t1 ELSE NoTenant]

OneAndBoth == {<<a1>>, <<a2, a1, a2>>}

MCInit == Init /\ alone \in BOOLEAN

\* What no step of the instance does; the app changes one of the assets.
InScope ==
    /\ server'[a2] = server[a2]
    /\ IF alone THEN call'[c2] = Idle
                ELSE \A c \in Callers : Range(call'[c].ids) \subseteq {a1}

MCNext == Next /\ InScope /\ UNCHANGED alone

MCSpec == MCInit /\ [][MCNext]_<<vars, alone>>
=============================================================================
