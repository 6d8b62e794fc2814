---------------------------- MODULE DeviceFleet ----------------------------
(***************************************************************************)
(* The device registry and the staged upgrades driven from it:             *)
(* packages/engine/src/device-registry.js and upgrade.js, as an operator   *)
(* reaches them through FleetController and AdminApi.dispatch.             *)
(*                                                                         *)
(* Both stores change their map in memory first and write the whole map    *)
(* to a temporary file renamed over the store; a write that throws leaves  *)
(* the map changed and the file as it was, and a restart reads the file.   *)
(* Devices are kept most recently seen first, the order in which the file  *)
(* is cut at MaxDevices and the canary cohort is taken.                    *)
(***************************************************************************)
EXTENDS Integers, Sequences, FiniteSets, SequencesExt

CONSTANTS
    Device,       \* device ids
    Credential,   \* secrets (the registry keeps their hashes)
    MaxDevices,   \* MAX_DEVICES
    Heartbeats,   \* the health values devices report
    CanarySize,   \* the canary sizes an operator asks for
    MaxDevFails   \* bound: writes that throw

ASSUME DevAssumption ==
    /\ MaxDevices \in Nat \ {0}
    /\ Heartbeats \subseteq {"online", "degraded", "offline"}
    /\ CanarySize \subseteq Nat
    /\ MaxDevFails \in Nat

VARIABLES
    devices,      \* DeviceRegistry.devices, most recently seen first
    devicesFile,  \* the store file of the registry
    lapsed,       \* credentials whose expiry date has passed
    upgrade,      \* UpgradeOrchestrator.upgrades: one upgrade, or NoUpgrade
    upgradeFile,  \* its store file
    barred,       \* history: devices whose revocation was acknowledged
    retired,      \* history: <<device, credential>> replaced for good
    devFails      \* writes that threw so far

devVars == <<devices, devicesFile, lapsed, upgrade, upgradeFile, barred, retired, devFails>>

Health == {"online", "degraded", "offline"}
DeviceRecord == [id : Device, credential : Credential, health : Health, revoked : BOOLEAN]

NoUpgrade == [state |-> "none", canary |-> {}, rollout |-> {}, completed |-> {}]
UpgradeStates == {"canary", "rollout", "complete", "rolled_back", "failed"}
UpgradeRecord == [state : UpgradeStates, canary : SUBSET Device,
                  rollout : SUBSET Device, completed : SUBSET Device]

Known(map) == {map[i].id : i \in DOMAIN map}
Place(map, d) == CHOOSE i \in DOMAIN map : map[i].id = d
Entry(map, d) == map[Place(map, d)]
Amend(map, r) == [i \in DOMAIN map |-> IF map[i].id = r.id THEN r ELSE map[i]]
Touch(map, r) == <<r>> \o RemoveAt(map, Place(map, r.id))
Kept(map) == SubSeq(map, 1, IF Len(map) < MaxDevices THEN Len(map) ELSE MaxDevices)

\* Changes the registry's map and writes it: the write may throw.
SaveDevices(map) ==
    /\ devices' = map
    /\ \/ devicesFile' = Kept(map) /\ UNCHANGED devFails
       \/ devFails < MaxDevFails /\ devFails' = devFails + 1 /\ UNCHANGED devicesFile
    /\ UNCHANGED <<lapsed, upgrade, upgradeFile>>
Saved == UNCHANGED devFails

\* Enrolling a known id returns the device as it is, revoked or not.
Enroll(d, c) ==
    /\ d \notin Known(devices)
    /\ SaveDevices(<<[id |-> d, credential |-> c, health |-> "online", revoked |-> FALSE]>> \o devices)
    /\ barred' = barred \ {d}
    /\ retired' = {p \in retired : p[1] # d}

Heartbeat(d, h) ==
    /\ d \in Known(devices)
    /\ SaveDevices(Touch(devices, [Entry(devices, d) EXCEPT !.health = h]))
    /\ UNCHANGED <<barred, retired>>

(* mutant: a new credential brings a revoked device back *)
MutRotateRevives(d, c) ==
    /\ d \in Known(devices)
    /\ SaveDevices(Amend(devices, [Entry(devices, d) EXCEPT !.credential = c, !.revoked = FALSE]))
    /\ UNCHANGED <<barred, retired>>

RotateCredential(d, c) ==
    /\ d \in Known(devices)
    /\ SaveDevices(Amend(devices, [Entry(devices, d) EXCEPT !.credential = c]))
    /\ LET old == Entry(devices, d).credential
           gone == IF Saved /\ old # c THEN {<<d, old>>} ELSE {}
       IN retired' = (retired \cup gone) \ {<<d, c>>}
    /\ UNCHANGED barred

Revoke(d) ==
    /\ d \in Known(devices)
    /\ SaveDevices(Amend(devices, [Entry(devices, d) EXCEPT !.revoked = TRUE]))
    /\ barred' = IF Saved THEN barred \cup {d} ELSE barred
    /\ UNCHANGED retired

CredentialLapses(c) ==
    /\ c \notin lapsed
    /\ lapsed' = lapsed \cup {c}
    /\ UNCHANGED <<devices, devicesFile, upgrade, upgradeFile, barred, retired, devFails>>

\* verifyCredential, as an answer: known, not revoked, the stored hash, not expired.
Verifies(d, c) ==
    /\ d \in Known(devices)
    /\ ~Entry(devices, d).revoked
    /\ Entry(devices, d).credential = c
    /\ c \notin lapsed

\* eligibleForRemediation
Eligible(d) ==
    d \in Known(devices) /\ LET r == Entry(devices, d)
                            IN ~r.revoked /\ r.health = "online" /\ r.credential \notin lapsed

-----------------------------------------------------------------------------
(* Upgrades.                                                               *)

SaveUpgrade(u) ==
    /\ upgrade' = u
    /\ \/ upgradeFile' = u /\ UNCHANGED devFails
       \/ devFails < MaxDevFails /\ devFails' = devFails + 1 /\ UNCHANGED upgradeFile
    /\ UNCHANGED <<devices, devicesFile, lapsed, barred, retired>>

\* list({ health: 'online' }), which does not leave revoked devices out: places of the map.
Online == {i \in DOMAIN devices : devices[i].health = "online"}
FirstOf(places, n) == {i \in places : Cardinality({j \in places : j <= i}) <= n}
Named(places) == {devices[i].id : i \in places}

StartUpgrade(size) ==
    /\ upgrade = NoUpgrade
    /\ Online # {}
    /\ LET cohort == Named(FirstOf(Online, IF size < 1 THEN 1 ELSE size))
       IN SaveUpgrade([state |-> "canary", canary |-> cohort,
                       rollout |-> Named(Online) \ cohort, completed |-> {}])

\* One stage on: only the step out of the canary stage looks at the devices.
Promote ==
    \/ /\ upgrade.state = "canary"
       /\ IF upgrade.canary \subseteq Named(Online)
          THEN SaveUpgrade([upgrade EXCEPT !.state = "rollout", !.canary = {}, !.completed = upgrade.canary])
          ELSE SaveUpgrade([upgrade EXCEPT !.state = "failed"])
    \/ /\ upgrade.state = "rollout"
       /\ SaveUpgrade([upgrade EXCEPT !.state = "complete", !.rollout = {}, !.completed = @ \cup upgrade.rollout])
    \/ upgrade.state = "failed" /\ SaveUpgrade(upgrade)

(* mutant: a completed upgrade can be rolled back *)
MutRollbackUpgrade ==
    /\ upgrade # NoUpgrade
    /\ SaveUpgrade([upgrade EXCEPT !.state = "rolled_back"])

RollbackUpgrade ==
    /\ upgrade.state \in UpgradeStates \ {"complete"}
    /\ SaveUpgrade([upgrade EXCEPT !.state = "rolled_back"])

\* The process restarts: both stores are read back.
LoadDevices == devices' = devicesFile
LoadUpgrades == upgrade' = upgradeFile
DevRestart ==
    /\ LoadDevices
    /\ LoadUpgrades
    /\ UNCHANGED <<devicesFile, lapsed, upgradeFile, barred, retired, devFails>>

DevInit ==
    /\ devices = <<>> /\ devicesFile = <<>> /\ lapsed = {}
    /\ upgrade = NoUpgrade /\ upgradeFile = NoUpgrade
    /\ barred = {} /\ retired = {} /\ devFails = 0

RegistryNext ==
    \/ \E d \in Device, c \in Credential : Enroll(d, c) \/ RotateCredential(d, c)
    \/ \E d \in Device, h \in Heartbeats : Heartbeat(d, h)
    \/ \E d \in Device : Revoke(d)
    \/ \E c \in Credential : CredentialLapses(c)
    \/ DevRestart

RolloutNext ==
    \/ \E n \in CanarySize : StartUpgrade(n)
    \/ Promote
    \/ RollbackUpgrade

DevNext == RegistryNext \/ RolloutNext

DevSpec == DevInit /\ [][DevNext]_devVars

-----------------------------------------------------------------------------
(* The maps name a device once, the store file is within its limit, and    *)
(* the records have the shape normaliseDevice and normaliseUpgrade give.   *)
DevTypeOK ==
    /\ \A map \in {devices, devicesFile} :
          /\ \A i \in DOMAIN map : map[i] \in DeviceRecord
          /\ \A i, j \in DOMAIN map : map[i].id = map[j].id => i = j
    /\ Len(devicesFile) <= MaxDevices
    /\ lapsed \subseteq Credential
    /\ {upgrade, upgradeFile} \subseteq UpgradeRecord \cup {NoUpgrade}
    /\ barred \subseteq Device
    /\ retired \subseteq Device \X Credential
    /\ devFails \in 0..MaxDevFails

(* A device whose revocation was acknowledged is refused with any          *)
(* credential and gets no remediation, over heartbeats, rotations, failed  *)
(* writes and restarts, until it is enrolled anew - which takes the store  *)
(* to have dropped it at its limit (revoke, device-registry.js:212).       *)
RevokedStaysOut ==
    \A d \in barred : ~Eligible(d) /\ \A c \in Credential : ~Verifies(d, c)

(* A credential replaced by an acknowledged rotation does not verify again *)
(* unless it is handed out again (rotateCredential, device-registry.js:196)*)
RetiredCredentialStaysOut ==
    \A p \in retired : ~Verifies(p[1], p[2])

(* The devices an upgrade was started for stay what they are: its three    *)
(* cohorts are disjoint, and the stage says how far it went - nobody is    *)
(* upgraded while the canary is out or after it failed, everybody once it  *)
(* is complete (promote, upgrade.js:100).                                  *)
StageFitsCohorts ==
    \A u \in {upgrade, upgradeFile} \ {NoUpgrade} :
       /\ u.canary \cap u.rollout = {} /\ (u.canary \cup u.rollout) \cap u.completed = {}
       /\ u.state \in {"canary", "failed"} => u.completed = {} /\ u.canary # {}
       /\ u.state \in {"rollout", "complete"} => u.canary = {} /\ u.completed # {}
       /\ u.state = "complete" => u.rollout = {}

StageAfter(s) ==
    CASE s = "none" -> UpgradeStates \cup {"none"}
      [] s = "canary" -> UpgradeStates
      [] s = "rollout" -> {"rollout", "complete", "rolled_back"}
      [] s = "failed" -> {"failed", "rolled_back"}
      [] OTHER -> {s}

(* What the store file says of an upgrade never goes back, whatever writes *)
(* fail and whenever the process restarts: a failed canary is not rolled   *)
(* out, a complete or rolled back upgrade stays so (upgrade.js:103, 132).  *)
StoredStageNeverGoesBack ==
    [][upgradeFile'.state \in StageAfter(upgradeFile.state)]_devVars

(* Who was put out stays out (device-registry.js:196, :212): no operation, *)
(* failed write or restart lets a revoked device or a retired credential   *)
(* in again, and the records and the limit of the store hold meanwhile.    *)
DevicesStayOut == DevTypeOK /\ RevokedStaysOut /\ RetiredCredentialStaysOut

(* An upgrade goes forward (upgrade.js:100-132): its cohorts fit its       *)
(* stage, in memory and on file, and the stage on file never goes back.    *)
UpgradesAdvance == []StageFitsCohorts /\ StoredStageNeverGoesBack
=============================================================================
