----------------------------- MODULE AdminStores ----------------------------
(***************************************************************************)
(* The smaller stores of the admin API: grants of access, the packages of  *)
(* a host, the policies of the tenants. They share a pattern - the map in  *)
(* memory is changed, then the file is written - and no state.             *)
(***************************************************************************)
EXTENDS Integers, Sequences, SequencesExt, FiniteSetsExt

(***************************************************************************)
(* Just-in-time access grants: packages/engine/src/jit.js, with the tenant *)
(* default FleetController.grant adds.  A grant is a window for a          *)
(* principal on some tools; the newest MaxGrants are kept in the file.     *)
(***************************************************************************)
CONSTANTS
    Grant,         \* grant ids
    Tenant,        \* tenants, the default one included
    Unscoped,      \* the empty tenant of a legacy grant
    Tool,          \* tool names
    RoleTools,     \* ROLES: the tool sets of the roles
    MaxGrants,     \* MAX_GRANTS
    MaxTime,       \* bound: the clock
    MaxJitFails    \* bound: writes that throw

ASSUME JitAssumption ==
    /\ Unscoped \notin Tenant
    /\ RoleTools \subseteq SUBSET Tool
    /\ MaxGrants \in Nat \ {0} /\ MaxTime \in Nat /\ MaxJitFails \in Nat

VARIABLES
    grants,       \* the map of one principal's grants, newest first
    grantsFile,   \* the store file
    now,          \* the clock
    closed,       \* history: grants whose revocation was acknowledged
    jitFails      \* writes that threw so far

jitVars == <<grants, grantsFile, now, closed, jitFails>>

Forever == MaxTime + 1     \* no expiresAt
GrantRecord == [id : Grant, tenant : Tenant \cup {Unscoped}, tools : SUBSET Tool,
                from : 0..MaxTime, until : 0..Forever, revoked : BOOLEAN]

Ids(map) == {map[i].id : i \in DOMAIN map}
Newest(map) == SubSeq(map, 1, IF Len(map) < MaxGrants THEN Len(map) ELSE MaxGrants)
MarkRevoked(map, ids) == [i \in DOMAIN map |-> [map[i] EXCEPT !.revoked = @ \/ map[i].id \in ids]]
ActiveWindow(g) == ~g.revoked /\ g.from <= now /\ now < g.until
Expired(map) == {map[i].id : i \in {k \in DOMAIN map : ~map[k].revoked /\ map[k].until <= now}}

SaveGrants(map) ==
    /\ grants' = map
    /\ \/ grantsFile' = Newest(map) /\ UNCHANGED jitFails
       \/ jitFails < MaxJitFails /\ jitFails' = jitFails + 1 /\ UNCHANGED grantsFile

\* Tools that are named take the place of the role's; a known id is returned
\* as it is.
GiveGrant(id, tenant, role, tools, from, until) ==
    /\ id \notin Ids(grants)
    /\ SaveGrants(<<[id |-> id, tenant |-> tenant, tools |-> IF tools # {} THEN tools ELSE role,
                     from |-> from, until |-> until, revoked |-> FALSE]>> \o grants)
    /\ closed' = closed \ {id}
    /\ UNCHANGED now

RevokeGrant(id) ==
    /\ id \in Ids(grants)
    /\ SaveGrants(MarkRevoked(grants, {id}))
    /\ closed' = IF jitFails' = jitFails THEN closed \cup {id} ELSE closed
    /\ UNCHANGED now

\* expire(): one revocation and one write each, until a write throws.
Expire ==
    /\ \/ /\ grants' = MarkRevoked(grants, Expired(grants))
          /\ grantsFile' = IF Expired(grants) = {} THEN grantsFile ELSE Newest(grants')
          /\ closed' = closed \cup Expired(grants)
          /\ UNCHANGED jitFails
       \/ \E done \in SUBSET Expired(grants), torn \in Expired(grants) :
             /\ torn \notin done
             /\ jitFails < MaxJitFails /\ jitFails' = jitFails + 1
             /\ grants' = MarkRevoked(grants, done \cup {torn})
             /\ grantsFile' = IF done = {} THEN grantsFile ELSE Newest(MarkRevoked(grants, done))
             /\ closed' = closed \cup done
    /\ UNCHANGED now

ClockTicks ==
    /\ now < MaxTime
    /\ now' = now + 1
    /\ UNCHANGED <<grants, grantsFile, closed, jitFails>>

JitRestart ==
    /\ grants' = grantsFile
    /\ UNCHANGED <<grantsFile, now, closed, jitFails>>

\* check(): a caller that names no tenant is served by unscoped grants only.
Serving(tenant, tool) ==
    {grants[i].id : i \in {k \in DOMAIN grants :
       grants[k].tenant = tenant /\ tool \in grants[k].tools /\ ActiveWindow(grants[k])}}

JitInit ==
    /\ grants = <<>> /\ grantsFile = <<>> /\ now = 0
    /\ closed = {} /\ jitFails = 0

JitNext ==
    \/ \E id \in Grant, t \in Tenant \cup {Unscoped}, role \in RoleTools, tools \in {{}} \cup {{x} : x \in Tool},
          from \in {0, now}, until \in {now + 1, Forever} :
             until <= Forever /\ GiveGrant(id, t, role, tools, from, until)
    \/ \E id \in Grant : RevokeGrant(id)
    \/ Expire
    \/ ClockTicks
    \/ JitRestart

JitSpec == JitInit /\ [][JitNext]_jitVars

-----------------------------------------------------------------------------
(* The map names a grant once, the file is within its limit.               *)
JitTypeOK ==
    /\ \A map \in {grants, grantsFile} :
          /\ \A i \in DOMAIN map : map[i] \in GrantRecord
          /\ \A i, j \in DOMAIN map : map[i].id = map[j].id => i = j
    /\ Len(grantsFile) <= MaxGrants
    /\ now \in 0..MaxTime
    /\ closed \subseteq Grant /\ jitFails \in 0..MaxJitFails

(* A grant whose revocation was acknowledged, by an operator or by the     *)
(* sweep of expired grants, opens no tool again: not after failed writes   *)
(* and restarts, and not when the same id is granted again, unless the     *)
(* store had dropped it at its limit (revoke, jit.js:108; expire, :147).   *)
ClosedStaysClosed ==
    \A t \in Tenant \cup {Unscoped}, x \in Tool : Serving(t, x) \cap closed = {}
-----------------------------------------------------------------------------
(***************************************************************************)
(* Installing, upgrading and rolling back the packages of a host:          *)
(* packages/engine/src/package-lifecycle.js.  Like the other fleet stores  *)
(* it changes its map, then writes the file; a rollback writes twice.  The *)
(* cut of the file at MAX_PACKAGES is left out: a package it drops starts  *)
(* over, and no property relates two packages.                             *)
(***************************************************************************)
CONSTANTS
    Package,       \* host:id keys
    Version,       \* package versions
    NoVersion,     \* the empty string
    MaxPkgFaults   \* bound: writes that throw and crashes within an operation

ASSUME PkgAssumption == NoVersion \notin Version /\ MaxPkgFaults \in Nat

VARIABLES
    packages,      \* the map: package -> record ("unknown" when it has none)
    packagesFile,  \* the store file
    good,          \* history: versions of each package that were confirmed
    pkgFaults      \* faults so far

pkgVars == <<packages, packagesFile, good, pkgFaults>>

PkgStates == {"unknown", "installing", "installed", "upgrading", "rollback_required",
              "rolling_back", "rolled_back", "failed"}
PkgRecord == [state : PkgStates, current : Version \cup {NoVersion}, previous : Version \cup {NoVersion}]

\* The edges of TRANSITIONS that #transition is asked for.
Transitions == [installing |-> {"installed", "failed"}, installed |-> {"upgrading"},
                upgrading |-> {"installed", "rollback_required", "failed"},
                rollback_required |-> {"rolling_back"}, rolling_back |-> {"rolled_back", "failed"},
                rolled_back |-> {"upgrading"}, failed |-> {"installing", "upgrading"}]

PkgFault == pkgFaults < MaxPkgFaults /\ pkgFaults' = pkgFaults + 1

SavePackage(p, r) ==
    /\ packages' = [packages EXCEPT ![p] = r]
    /\ \/ packagesFile' = packages' /\ UNCHANGED pkgFaults
       \/ UNCHANGED packagesFile /\ PkgFault

Transition(p, next) ==
    /\ packages[p].state # "unknown"
    /\ next = packages[p].state \/ next \in Transitions[packages[p].state]
    /\ SavePackage(p, [packages[p] EXCEPT !.state = next])

Install(p, v) ==
    /\ packages[p].state \in {"unknown", "rolled_back"}
    /\ SavePackage(p, [packages[p] EXCEPT !.state = "installing", !.current = v])
    /\ UNCHANGED good

Confirm(p) ==
    /\ Transition(p, "installed")
    /\ good' = [good EXCEPT ![p] = @ \cup {packages[p].current}]

(* mutant: a running upgrade can be replaced by another one *)
MutUpgrade(p, v) ==
    /\ packages[p].state \in {"installed", "upgrading"}
    /\ SavePackage(p, [state |-> "upgrading", current |-> v, previous |-> packages[p].current])
    /\ UNCHANGED good

Upgrade(p, v) ==
    /\ packages[p].state = "installed"
    /\ SavePackage(p, [state |-> "upgrading", current |-> v, previous |-> packages[p].current])
    /\ UNCHANGED good

Fail(p) ==
    /\ Transition(p, IF packages[p].state = "upgrading" THEN "rollback_required" ELSE "failed")
    /\ UNCHANGED good

CanRollBackFrom == {"rollback_required", "upgrading"}

\* Two writes in one call: the first may throw, the process may end between
\* them (and reads the file back), the second may throw.
Rollback(p) ==
    LET r == packages[p]
        begun == [packages EXCEPT ![p].state = "rolling_back"]
        done == [packages EXCEPT ![p] = [state |-> "rolled_back", current |-> r.previous, previous |-> NoVersion]]
    IN /\ r.state \in CanRollBackFrom
       /\ r.previous # NoVersion
       /\ \/ packages' = done /\ packagesFile' = done /\ UNCHANGED pkgFaults
          \/ packages' = begun /\ UNCHANGED packagesFile /\ PkgFault
          \/ packages' = begun /\ packagesFile' = begun /\ PkgFault
          \/ packages' = done /\ packagesFile' = begun /\ PkgFault
       /\ UNCHANGED good

PkgRestart ==
    /\ packages' = packagesFile
    /\ UNCHANGED <<packagesFile, good, pkgFaults>>

PkgInit ==
    /\ packages = [p \in Package |-> [state |-> "unknown", current |-> NoVersion, previous |-> NoVersion]]
    /\ packagesFile = packages
    /\ good = [p \in Package |-> {}]
    /\ pkgFaults = 0

PkgNext ==
    \/ \E p \in Package, v \in Version : Install(p, v) \/ Upgrade(p, v)
    \/ \E p \in Package : Confirm(p) \/ Fail(p) \/ Rollback(p)
    \/ PkgRestart

PkgSpec == PkgInit /\ [][PkgNext]_pkgVars

-----------------------------------------------------------------------------
(* The package records have the shape normalisePackage gives them, and a   *)
(* package that has one has a version.                                     *)
PkgTypeOK ==
    /\ {packages, packagesFile} \subseteq [Package -> PkgRecord]
    /\ \A p \in Package : packages[p].state = "unknown" <=> packages[p].current = NoVersion
    /\ good \in [Package -> SUBSET Version]
    /\ pkgFaults \in 0..MaxPkgFaults

(* The way back is never lost: while an upgrade runs, has failed or is     *)
(* being rolled back - also when a crash stopped the rollback between its  *)
(* two writes - the previous version is one that was confirmed before, and *)
(* a rolled back package is at such a version (package-lifecycle.js:3, 153)*)
KnownGoodIsKept ==
    \A p \in Package, map \in {packages, packagesFile} :
       /\ map[p].state \in {"upgrading", "rollback_required", "rolling_back"} => map[p].previous \in good[p]
       /\ map[p].state \in {"installed", "rolled_back"} => map[p].current \in good[p]
-----------------------------------------------------------------------------
(***************************************************************************)
(* The versioned policies of the tenants: packages/engine/src/policy-      *)
(* registry.js.  Revisions are kept newest first; the file is cut at       *)
(* MaxRevisions, the active pointers are not.                              *)
(***************************************************************************)
CONSTANTS
    PolTenant,     \* tenants
    NoRevision,    \* no active revision
    MaxRevisions,  \* MAX_REVISIONS
    MaxCreated,    \* bound: revisions created
    MaxPolFaults   \* bound: writes that throw and files damaged

ASSUME PolAssumption ==
    /\ MaxRevisions \in Nat \ {0} /\ MaxCreated \in Nat /\ MaxPolFaults \in Nat
    /\ NoRevision \notin 1..MaxCreated

VARIABLES
    revisions,   \* the map, newest first; an id is the order of creation
    active,      \* tenant -> active revision
    polFile,     \* the store file: revisions, active, damaged
    created,     \* revisions created so far
    damage,      \* history: a damaged file was read
    polFaults    \* faults so far

polVars == <<revisions, active, polFile, created, damage, polFaults>>

Revision == [id : 1..MaxCreated, tenant : PolTenant, version : 1..MaxCreated, state : {"active", "draft"}]

RevIds(map) == {map[i].id : i \in DOMAIN map}
Rev(map, id) == map[CHOOSE i \in DOMAIN map : map[i].id = id]
WithState(map, id, s) == [i \in DOMAIN map |-> IF map[i].id = id THEN [map[i] EXCEPT !.state = s] ELSE map[i]]
Versions(t) == {revisions[i].version : i \in {k \in DOMAIN revisions : revisions[k].tenant = t}}
PolFault == polFaults < MaxPolFaults /\ polFaults' = polFaults + 1

NewestRevisions(map) == SubSeq(map, 1, IF Len(map) < MaxRevisions THEN Len(map) ELSE MaxRevisions)

SavePolicies(map, act) ==
    /\ revisions' = map
    /\ active' = act
    /\ \/ /\ polFile' = [revisions |-> NewestRevisions(map), active |-> act, damaged |-> FALSE]
          /\ UNCHANGED polFaults
       \/ UNCHANGED polFile /\ PolFault
    /\ UNCHANGED damage

CreateRevision(t) ==
    /\ created < MaxCreated
    /\ created' = created + 1
    /\ SavePolicies(<<[id |-> created', tenant |-> t, version |-> Max(Versions(t) \cup {0}) + 1,
                       state |-> "draft"]>> \o revisions, active)

\* activate() and rollback(): the former active revision is a draft again.
Activate(id) ==
    /\ id \in RevIds(revisions)
    /\ LET t == Rev(revisions, id).tenant
           former == active[t]
       IN SavePolicies(WithState(WithState(revisions, former, "draft"), id, "active"),
                       [active EXCEPT ![t] = id])
    /\ UNCHANGED created

\* A definition in the file no longer hashes to what is stored with it.
FileDamaged ==
    /\ ~polFile.damaged /\ polFile.revisions # <<>>
    /\ polFile' = [polFile EXCEPT !.damaged = TRUE]
    /\ PolFault
    /\ UNCHANGED <<revisions, active, created, damage>>

\* #load: pointers to revisions that are gone are dropped; at the first hash
\* that does not fit, loading ends with what was read and no pointer.
PolRestart ==
    /\ IF polFile.damaged
       THEN /\ \E n \in 0..Len(polFile.revisions) - 1 : revisions' = SubSeq(polFile.revisions, 1, n)
            /\ active' = [t \in PolTenant |-> NoRevision]
            /\ damage' = TRUE
       ELSE /\ revisions' = polFile.revisions
            /\ active' = [t \in PolTenant |-> IF polFile.active[t] \in RevIds(polFile.revisions)
                                              THEN polFile.active[t] ELSE NoRevision]
            /\ UNCHANGED damage
    /\ UNCHANGED <<polFile, created, polFaults>>

PolInit ==
    /\ revisions = <<>> /\ active = [t \in PolTenant |-> NoRevision]
    /\ polFile = [revisions |-> <<>>, active |-> active, damaged |-> FALSE]
    /\ created = 0 /\ damage = FALSE /\ polFaults = 0

PolNext ==
    \/ \E t \in PolTenant : CreateRevision(t)
    \/ \E id \in 1..MaxCreated : Activate(id)
    \/ FileDamaged
    \/ PolRestart

PolSpec == PolInit /\ [][PolNext]_polVars

-----------------------------------------------------------------------------
(* Revisions, pointers and the file have the shape #save writes.           *)
PolTypeOK ==
    /\ \A map \in {revisions, polFile.revisions} : \A i \in DOMAIN map : map[i] \in Revision
    /\ active \in [PolTenant -> 1..MaxCreated \cup {NoRevision}]
    /\ Len(polFile.revisions) <= MaxRevisions
    /\ created \in 0..MaxCreated /\ damage \in BOOLEAN /\ polFaults \in 0..MaxPolFaults

(* The active pointer of a tenant and the states of its revisions tell the *)
(* same: exactly the revision pointed to is marked active - in memory, and *)
(* in what the next start makes of the file - unless a damaged file has    *)
(* been read, which drops the pointers and keeps the marks (activate,      *)
(* policy-registry.js:79; #load, :60).                                     *)
PointerIsTheActiveOne ==
    ~damage => \A i \in DOMAIN revisions :
       revisions[i].state = "active" <=> active[revisions[i].tenant] = revisions[i].id

(* No two revisions of a tenant have the same version, and the newer one   *)
(* has the higher version (create, policy-registry.js:72).                 *)
VersionsFollowCreation ==
    \A i, j \in DOMAIN revisions : i < j /\ revisions[i].tenant = revisions[j].tenant
                                     => revisions[i].version > revisions[j].version

(* A tenant's active policy survives a restart unless MaxRevisions newer   *)
(* ones were created: the cut of the file is the only way to lose it       *)
(* (#save, policy-registry.js:65).                                         *)
ActiveIsLostOnlyAtTheLimit ==
    ~damage => \A t \in PolTenant :
       polFile.active[t] \notin RevIds(polFile.revisions) \cup {NoRevision}
          => Len(polFile.revisions) = MaxRevisions /\ \A id \in RevIds(polFile.revisions) : id > polFile.active[t]

(* The stores behind the admin API keep what they acknowledged             *)
(* (jit.js:108, package-lifecycle.js:153, policy-registry.js:65): a closed *)
(* grant opens no tool, the version a package can go back to survives, the *)
(* pointer and the active revision of a tenant are the same unless the     *)
(* limit dropped it, and each file is within its limit - on a disk whose   *)
(* writes fail, over restarts.                                             *)
AdminStoresHold ==
    /\ JitTypeOK /\ ClosedStaysClosed
    /\ PkgTypeOK /\ KnownGoodIsKept
    /\ PolTypeOK /\ PointerIsTheActiveOne /\ VersionsFollowCreation /\ ActiveIsLostOnlyAtTheLimit
=============================================================================
