------------------------------ MODULE SelfUpdate ------------------------------
(***************************************************************************)
(* Self-update (apps/desktop/src/update.js, #handleUpdate and !cmd update  *)
(* of agent.js, `remote-agent update`): the release is downloaded and      *)
(* extracted, swapped with the installed tree, and its dependencies are    *)
(* installed.  Updaters are processes: the daemon and the command line.    *)
(*                                                                         *)
(* A tree is [version, deps]: whether its dependencies are installed.      *)
(***************************************************************************)
EXTENDS Naturals, FiniteSets

CONSTANTS
    Updater,     \* processes that update
    MaxVersion,  \* bound: the newest release there will be
    MaxUpdates,  \* bound: updates begun
    MaxCuts      \* bound: processes cut off in the middle of an update

ASSUME UpdateAssumption ==
    /\ {MaxVersion, MaxUpdates} \subseteq Nat \ {0} /\ MaxCuts \in Nat
    /\ IsFiniteSet(Updater) /\ Updater # {}

VARIABLES
    running,     \* the updaters of this behaviour: one, or all
    feed,        \* the latest release, 0 when the feed cannot be reached
    install,     \* ~/.remote-agent/agent
    backups,     \* .agent.bak-<version>, by the version of the process that made it
    unpacked,    \* the tree in .update-tmp
    updateFile,  \* the version update.json has as installed
    proc,        \* [at, version, target]: VERSION is read once, when it starts
    updates, cuts

updateVars == <<running, feed, install, backups, unpacked, updateFile, proc, updates, cuts>>

NoTree == [version |-> 0, deps |-> FALSE]
Tree(v, deps) == [version |-> v, deps |-> deps]
Complete(tree) == tree.version # 0 /\ tree.deps

MoveOn(u, from, to) == proc[u].at = from /\ proc' = [proc EXCEPT ![u].at = to]

Publish ==
    /\ feed' \in 0 .. MaxVersion /\ feed' # feed
    /\ UNCHANGED <<running, install, backups, unpacked, updateFile, proc, updates, cuts>>

IsUpdateAvailable(installed, latest) == latest # 0 /\ installed < latest

\* checkForUpdates, and the answers before anything is touched
BeginUpdate(u) ==
    /\ u \in running /\ proc[u].at = "idle" /\ updates < MaxUpdates
    /\ IsUpdateAvailable(proc[u].version, feed) /\ install # NoTree
    /\ updates' = updates + 1
    /\ proc' = [proc EXCEPT ![u].at = "unpack", ![u].target = feed]
    /\ UNCHANGED <<running, feed, install, backups, unpacked, updateFile, cuts>>

\* finally: the working directory is removed, whoever works in it.
Abandon(u) == proc' = [proc EXCEPT ![u].at = "idle", ![u].target = 0] /\ unpacked' = NoTree

\* Download, checksum, extraction and the version in the archive: any of them
\* may fail.
Unpack(u) ==
    /\ proc[u].at = "unpack"
    /\ \/ MoveOn(u, "unpack", "move away") /\ unpacked' = Tree(proc[u].target, FALSE)
       \/ Abandon(u)
    /\ UNCHANGED <<running, feed, install, backups, updateFile, updates, cuts>>

(* mutant: the backup is thrown away before the new tree is in *)
MutMoveAway(u) ==
    /\ install # NoTree /\ MoveOn(u, "move away", "move in")
    /\ install' = NoTree
    /\ UNCHANGED <<running, feed, backups, unpacked, updateFile, updates, cuts>>

\* rmSync(backup), renameSync(installDir, backup)
MoveAway(u) ==
    /\ IF install # NoTree
       THEN /\ MoveOn(u, "move away", "move in")
            /\ backups' = [backups EXCEPT ![proc[u].version] = install]
            /\ install' = NoTree
            /\ UNCHANGED unpacked
       ELSE /\ proc[u].at = "move away" /\ Abandon(u)
            /\ backups' = [backups EXCEPT ![proc[u].version] = NoTree]
            /\ UNCHANGED install
    /\ UNCHANGED <<running, feed, updateFile, updates, cuts>>

\* renameSync(newTree, installDir); on an error the backup is put back.
MoveIn(u) ==
    /\ proc[u].at = "move in"
    /\ \/ /\ unpacked # NoTree /\ install = NoTree
          /\ install' = unpacked /\ unpacked' = NoTree
          /\ MoveOn(u, "move in", "deps")
          /\ UNCHANGED backups
       \/ /\ install' = IF install = NoTree THEN backups[proc[u].version] ELSE install
          /\ backups' = [backups EXCEPT ![proc[u].version] = IF install = NoTree THEN NoTree ELSE @]
          /\ Abandon(u)
    /\ UNCHANGED <<running, feed, updateFile, updates, cuts>>

\* npm install; when it fails the backup is put back.
InstallDeps(u) ==
    /\ proc[u].at = "deps"
    /\ \/ /\ install' = IF install = NoTree THEN NoTree ELSE [install EXCEPT !.deps = TRUE]
          /\ MoveOn(u, "deps", "record")
          /\ UNCHANGED <<backups, unpacked>>
       \/ /\ install' = backups[proc[u].version]
          /\ backups' = [backups EXCEPT ![proc[u].version] = NoTree]
          /\ Abandon(u)
    /\ UNCHANGED <<running, feed, updateFile, updates, cuts>>

\* rmSync(backup), the lifecycle record, and the end
RecordUpdate(u) ==
    /\ proc[u].at = "record"
    /\ backups' = [backups EXCEPT ![proc[u].version] = NoTree]
    /\ updateFile' = proc[u].target
    /\ Abandon(u)
    /\ UNCHANGED <<running, feed, install, updates, cuts>>

\* The process is cut off.  It can be started again when there is a tree.
CutOff(u) ==
    /\ proc[u].at # "idle" /\ cuts < MaxCuts
    /\ cuts' = cuts + 1
    /\ proc' = [proc EXCEPT ![u].at = "off", ![u].target = 0]
    /\ UNCHANGED <<running, feed, install, backups, unpacked, updateFile, updates>>

Restarted(u) ==
    /\ proc[u].at \in {"off", "idle"} /\ Complete(install)
    /\ proc' = [proc EXCEPT ![u] = [at |-> "idle", version |-> install.version, target |-> 0]]
    /\ proc' # proc
    /\ UNCHANGED <<running, feed, install, backups, unpacked, updateFile, updates, cuts>>

UpdateInit ==
    /\ running \in {{CHOOSE u \in Updater : TRUE}, Updater}
    /\ feed = 0 /\ install = Tree(1, TRUE) /\ unpacked = NoTree /\ updateFile = 1
    /\ backups = [v \in 1 .. MaxVersion |-> NoTree]
    /\ proc = [u \in Updater |-> [at |-> "idle", version |-> 1, target |-> 0]]
    /\ updates = 0 /\ cuts = 0

UpdateNext ==
    \/ Publish
    \/ \E u \in Updater : BeginUpdate(u) \/ Unpack(u) \/ MoveAway(u) \/ MoveIn(u) \/ InstallDeps(u)
                          \/ RecordUpdate(u) \/ CutOff(u) \/ Restarted(u)

UpdateSpec == UpdateInit /\ [][UpdateNext]_updateVars
-----------------------------------------------------------------------------
OneUpdater == Cardinality(running) = 1
NoneAtWork == \A u \in Updater : proc[u].at = "idle"

(* An update of one process that is not cut off leaves a tree that runs:   *)
(* the new one, or the old one put back, whichever step failed             *)
(* ("so the device keeps working", update.js:189).                         *)
AnUpdateLeavesATree == OneUpdater /\ cuts = 0 /\ NoneAtWork => Complete(install)

(* Wherever one process is cut off, and however often, a tree that runs is *)
(* on the disk: installed, or in the backup (update.js:174).               *)
ATreeIsKept == OneUpdater => Complete(install) \/ \E v \in DOMAIN backups : Complete(backups[v])

(* What update.json calls installed is what is installed, while nothing is *)
(* cut off: never the release whose installation was rolled back           *)
(* (update.js:196).                                                        *)
RecordedIsInstalled == OneUpdater /\ cuts = 0 /\ NoneAtWork => install.version = updateFile

(* An update (update.js:174-196) leaves a program that runs: while one     *)
(* process updates, a whole tree is installed, or one is kept in the       *)
(* backup where the update was cut off, and what update.json records is    *)
(* what is installed.                                                      *)
UpdatesHold == AnUpdateLeavesATree /\ ATreeIsKept /\ RecordedIsInstalled
=============================================================================
