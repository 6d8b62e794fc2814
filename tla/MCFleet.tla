------------------------------ MODULE MCFleet ------------------------------
(***************************************************************************)
(* The four fleet stores side by side.  They share no state and no file,   *)
(* so a behaviour of the fleet is one behaviour of each and no property    *)
(* here relates two of them: `store` picks, at the start, the one whose    *)
(* operations are explored.                                                *)
(***************************************************************************)
EXTENDS DeviceFleet, AdminStores

CONSTANTS d1, d2, d3, c1, c2, g1, g2, t1, t2, toolA, toolB, p1, p2

ASSUME FleetAssumption == c1 \in Credential

VARIABLE store

TwoRoles == {{toolA}, {toolA, toolB}}
Sizes == {0, 2}

Reports == {"online", "offline"}

\* What upgrades see of the registry: who is there, how they are, in which order.
EnrolAndReport ==
    \/ \E d \in Device : Enroll(d, c1)
    \/ \E d \in Device, h \in Heartbeats : Heartbeat(d, h)
    \/ DevRestart

fleetVars == <<devVars, jitVars, pkgVars, polVars, store>>

FleetInit ==
    /\ DevInit /\ JitInit /\ PkgInit /\ PolInit
    /\ store \in {"devices", "upgrades", "jit", "packages", "policies"}

\* AdminApi.dispatch: one action of one store.
FleetNext ==
    /\ UNCHANGED store
    /\ \/ store = "devices" /\ RegistryNext /\ UNCHANGED <<jitVars, pkgVars, polVars>>
       \/ store = "upgrades" /\ (EnrolAndReport \/ RolloutNext) /\ UNCHANGED <<jitVars, pkgVars, polVars>>
       \/ store = "jit" /\ JitNext /\ UNCHANGED <<devVars, pkgVars, polVars>>
       \/ store = "packages" /\ PkgNext /\ UNCHANGED <<devVars, jitVars, polVars>>
       \/ store = "policies" /\ PolNext /\ UNCHANGED <<devVars, jitVars, pkgVars>>

FleetSpec == FleetInit /\ [][FleetNext]_fleetVars
=============================================================================
