--------------------------- MODULE WorkspaceFiles ---------------------------
(***************************************************************************)
(* The typed file operations of a workspace (apps/desktop/src/             *)
(* workspace-ops.js, tools/files.js, #pollTasks of agent.js): the poll     *)
(* claims an operation of the hosted file browser, runs it, and reports    *)
(* its outcome, while tasks and the owner's editor write the same files.   *)
(*                                                                         *)
(* A content is [id, whole]: two contents with the same id have the same   *)
(* hash; one that is not whole lacks the end of what it was made from.     *)
(*                                                                         *)
(* The second part is its dev-server previews (preview-start, stop and     *)
(* status): a detached process group for each workspace, remembered in a   *)
(* file that outlives the daemon, while the poll awaits one operation at a *)
(* time.  A server is a group: a leader (npm, node) and, once it listens,  *)
(* the process that holds the port, which may be another one.              *)
(***************************************************************************)
EXTENDS Naturals, FiniteSets, Sequences

CONSTANTS
    Op,          \* operations of the browser
    Path,        \* paths of the workspace
    Big,         \* those of files larger than one read, 50000 bytes
    MaxContents, \* bound: contents written
    MaxLost      \* bound: requests and answers that get lost, daemons that stop

ASSUME FilesAssumption == Big \subseteq Path /\ {MaxContents, MaxLost} \subseteq Nat

VARIABLES
    disk,    \* the content of each path, Absent for none
    trash,   \* contents in ~/.remote-agent/trash
    fresh,   \* contents written
    opState, \* of each operation in the cloud: listed, claimed, or its outcome
    opRun,   \* the one that runs: [op, at, kind, path, to, expect, base, outcome]
    raced,   \* history: the path was written between the check and the write
    runs,    \* history: how often each operation was executed
    lost

fileVars == <<disk, trash, fresh, opState, opRun, raced, runs, lost>>

Absent == [id |-> 0, whole |-> TRUE]
NoRun == [op |-> "", at |-> "idle", kind |-> "", path |-> "", to |-> "", expect |-> 0,
          base |-> Absent, outcome |-> ""]
Kinds == {"write", "patch", "rename", "copy", "trash", "restore"}

Lose == lost < MaxLost /\ lost' = lost + 1
Go(at) == opRun' = [opRun EXCEPT !.at = at]
OpAnswer(outcome) == opRun' = [opRun EXCEPT !.at = "report", !.outcome = outcome]

Started(o) ==
    /\ \E k \in Kinds, p, q \in Path, h \in 0 .. fresh :
        /\ k = "rename" \/ k = "copy" \/ q = p
        /\ k \in {"write", "patch"} \/ h = 0
        /\ opRun' = [NoRun EXCEPT !.op = o, !.at = IF k = "write" THEN "check" ELSE k,
                                  !.kind = k, !.path = p, !.to = q, !.expect = h]
    /\ runs' = [runs EXCEPT ![o] = @ + 1]
    /\ raced' = FALSE

\* claimWorkspaceOp: the request gets lost, or its answer, or it is won.
ClaimOp(o) ==
    /\ opRun = NoRun /\ opState[o] = "listed"
    /\ \/ opState' = [opState EXCEPT ![o] = "claimed"] /\ Started(o) /\ UNCHANGED lost
       \/ Lose /\ opState' \in {opState, [opState EXCEPT ![o] = "claimed"]}
          /\ UNCHANGED <<opRun, runs, raced>>
    /\ UNCHANGED <<disk, trash, fresh>>

\* read: at most MAX_READ_BYTES of the file, and the hash of all of it
ReadPart(p) == [disk[p] EXCEPT !.whole = @ /\ p \notin Big]

\* The patch of the content just read; its base text may not be there.  The
\* expected hash is that of the request, or else that of what was read.
PatchReads ==
    /\ opRun.at = "patch"
    /\ LET read == disk[opRun.path]
       IN IF read = Absent THEN OpAnswer("failed")
          ELSE \/ opRun' = [opRun EXCEPT !.at = "check", !.base = ReadPart(opRun.path),
                                         !.expect = IF @ # 0 THEN @ ELSE read.id]
               \/ OpAnswer("conflict")
    /\ UNCHANGED <<disk, trash, fresh, opState, raced, runs, lost>>

(* mutant: a file that is not there conflicts with nothing *)
MutCheckHash ==
    /\ opRun.at = "check"
    /\ IF opRun.expect # 0 /\ disk[opRun.path] # Absent /\ disk[opRun.path].id # opRun.expect
       THEN OpAnswer("conflict") ELSE Go("write")
    /\ UNCHANGED <<disk, trash, fresh, opState, raced, runs, lost>>

CheckHash ==
    /\ opRun.at = "check"
    /\ IF opRun.expect # 0 /\ disk[opRun.path].id # opRun.expect THEN OpAnswer("conflict") ELSE Go("write")
    /\ UNCHANGED <<disk, trash, fresh, opState, raced, runs, lost>>

\* The file is opened (and cut to nothing) and written.
WriteFile ==
    /\ opRun.at = "write" /\ fresh < MaxContents
    /\ fresh' = fresh + 1
    /\ disk' = [disk EXCEPT ![opRun.path] =
           [id |-> fresh + 1, whole |-> opRun.kind = "patch" => opRun.base.whole]]
    /\ OpAnswer("succeeded")
    /\ UNCHANGED <<trash, opState, raced, runs, lost>>

\* fs.rename: what was at the destination is gone.
RenameFile ==
    /\ opRun.at = "rename"
    /\ IF disk[opRun.path] = Absent THEN OpAnswer("failed") /\ UNCHANGED disk
       ELSE /\ OpAnswer("succeeded")
            /\ disk' = [disk EXCEPT ![opRun.path] = Absent, ![opRun.to] = disk[opRun.path]]
    /\ UNCHANGED <<trash, fresh, opState, raced, runs, lost>>

\* fs.cp with errorOnExist
CopyFile ==
    /\ opRun.at = "copy"
    /\ IF disk[opRun.path] = Absent \/ disk[opRun.to] # Absent THEN OpAnswer("failed") /\ UNCHANGED disk
       ELSE OpAnswer("succeeded") /\ disk' = [disk EXCEPT ![opRun.to] = disk[opRun.path]]
    /\ UNCHANGED <<trash, fresh, opState, raced, runs, lost>>

\* delete without purge: moved to the trash, under a name of its own
TrashFile ==
    /\ opRun.at = "trash"
    /\ IF disk[opRun.path] = Absent THEN OpAnswer("failed") /\ UNCHANGED <<disk, trash>>
       ELSE /\ OpAnswer("succeeded")
            /\ disk' = [disk EXCEPT ![opRun.path] = Absent]
            /\ trash' = trash \cup {disk[opRun.path]}
    /\ UNCHANGED <<fresh, opState, raced, runs, lost>>

RestoreChecks ==
    /\ opRun.at = "restore"
    /\ IF disk[opRun.path] # Absent THEN OpAnswer("conflict") ELSE Go("move")
    /\ UNCHANGED <<disk, trash, fresh, opState, raced, runs, lost>>

RestoreMoves ==
    /\ opRun.at = "move"
    /\ \/ \E c \in trash :
            /\ disk' = [disk EXCEPT ![opRun.path] = c] /\ trash' = trash \ {c}
            /\ OpAnswer("succeeded")
       \/ OpAnswer("failed") /\ UNCHANGED <<disk, trash>>      \* no such trash id
    /\ UNCHANGED <<fresh, opState, raced, runs, lost>>

\* workspaceOpResult: a report that gets lost is not sent again.
ReportOp ==
    /\ opRun.at = "report"
    /\ \/ opState' = [opState EXCEPT ![opRun.op] = opRun.outcome] /\ UNCHANGED lost
       \/ Lose /\ UNCHANGED opState
    /\ opRun' = NoRun
    /\ UNCHANGED <<disk, trash, fresh, raced, runs>>

\* A task, or the owner, writes or deletes a file.
Edit(p) ==
    /\ fresh < MaxContents
    /\ \/ fresh' = fresh + 1 /\ disk' = [disk EXCEPT ![p] = [id |-> fresh + 1, whole |-> TRUE]]
       \/ disk[p] # Absent /\ disk' = [disk EXCEPT ![p] = Absent] /\ UNCHANGED fresh
    /\ raced' = (raced \/ (opRun.at \in {"write", "move"} /\ opRun.path = p))
    /\ UNCHANGED <<trash, opState, opRun, runs, lost>>

\* The daemon stops; a file it was writing is left cut to nothing.
StopDaemon ==
    /\ opRun # NoRun /\ Lose
    /\ opRun' = NoRun /\ raced' = FALSE
    /\ \/ UNCHANGED disk
       \/ opRun.at = "write" /\ disk' = [disk EXCEPT ![opRun.path] = [id |-> MaxContents + 1, whole |-> FALSE]]
    /\ UNCHANGED <<trash, fresh, opState, runs>>

FilesInit ==
    /\ disk = [p \in Path |-> Absent] /\ trash = {} /\ fresh = 0
    /\ opState = [o \in Op |-> "listed"] /\ runs = [o \in Op |-> 0]
    /\ opRun = NoRun /\ raced = FALSE /\ lost = 0

FilesNext ==
    \/ PatchReads \/ CheckHash \/ WriteFile \/ RenameFile \/ CopyFile \/ TrashFile
    \/ RestoreChecks \/ RestoreMoves \/ ReportOp \/ StopDaemon
    \/ (\E o \in Op : ClaimOp(o)) \/ (\E p \in Path : Edit(p))

FilesSpec == FilesInit /\ [][FilesNext]_fileVars
-----------------------------------------------------------------------------
Writes == opRun.at = "write" /\ opRun'.at = "report"
Contents == {disk[p] : p \in Path} \cup trash

(* A write that names a hash replaces the content of that hash, and        *)
(* creates no file: whatever changed the file between opening it in the    *)
(* browser and the check is a conflict ("File changed since it was         *)
(* opened", files.js:195).  What changes it after the check is lost.       *)
NamedIsReplaced ==
    [][Writes /\ opRun.expect # 0 => disk[opRun.path].id = opRun.expect \/ raced]_fileVars

(* A patch is applied to the content it was computed from, also when the   *)
(* browser names no hash: an edit made while it was computed is a conflict *)
(* (workspace-ops.js:230).                                                 *)
PatchIsOnWhatItRead ==
    [][Writes /\ opRun.kind = "patch" => disk[opRun.path].id = opRun.base.id \/ raced]_fileVars

(* Moving to the trash, restoring and copying lose no content: what was    *)
(* on the disk or in the trash still is (files.js:12, 308).                *)
MovesLoseNothing ==
    [][opRun.at \in {"trash", "restore", "move", "copy"} /\ opRun'.op = opRun.op /\ opRun'.at # opRun.at
       => raced \/ Contents \ {Absent} \subseteq Contents']_fileVars

(* However claims, reports and daemons get lost, no operation is executed  *)
(* twice (agent.js:476-477).                                               *)
OpsRunOnce == \A o \in Op : runs[o] <= 1

(* An operation on a workspace (workspace-ops.js, tools/files.js) is done  *)
(* once, to the file it was meant for: claims and reports may be lost and  *)
(* the daemon restart; a hash names what is replaced, a patch meets what   *)
(* it read, a move or a restore loses no content, unless the file was      *)
(* changed between the check and the write.                                *)
FilesHold == []OpsRunOnce /\ NamedIsReplaced /\ PatchIsOnWhatItRead /\ MovesLoseNothing
-----------------------------------------------------------------------------
(* Previews *)

CONSTANTS
    Site,         \* workspaces, each with its own port
    MaxServers,   \* bound: groups started
    MaxDaemonCuts \* bound: daemons killed in the middle of an operation

ASSUME PreviewAssumption == {MaxServers, MaxDaemonCuts} \subseteq Nat

VARIABLES
    group,     \* each group started: [site, leader, holder]: which of its processes live
    previewFile, \* of each site, the group whose leader's pid is in its file, 0 for none
    viewOp,    \* the operation that runs: [at, site, group]
    answer,    \* history: of each site, what the last operation answered
    orderly,   \* groups die as a whole, and on SIGTERM
    daemonCuts

previewVars == <<group, previewFile, viewOp, answer, orderly, daemonCuts>>

NoView == [at |-> "idle", site |-> "", group |-> 0]
Started0 == DOMAIN group
IsAlive(g) == g # 0 /\ group[g].leader

\* The port of a site answers: some group of the site holds it.
Listening(s) == \E g \in Started0 : group[g].site = s /\ group[g].holder

Finish0(s, said) == viewOp' = NoView /\ answer' = [answer EXCEPT ![s] = said]

\* previewStart up to its await: nothing is written yet.
PreviewStart(s) ==
    /\ viewOp = NoView
    /\ IF IsAlive(previewFile[s]) THEN Finish0(s, "running") /\ answer' # answer /\ UNCHANGED group
       ELSE /\ Len(group) < MaxServers
            /\ group' = Append(group, [site |-> s, leader |-> TRUE, holder |-> FALSE])
            /\ viewOp' = [at |-> "wait for port", site |-> s, group |-> Len(group) + 1]
            /\ UNCHANGED answer
    /\ UNCHANGED <<previewFile, orderly, daemonCuts>>

\* waitForPort: the port answers, or 12 seconds pass.
PortAnswers ==
    /\ viewOp.at = "wait for port"
    /\ LET s == viewOp.site
           gone == ~Listening(s) /\ ~IsAlive(viewOp.group)
       IN /\ previewFile' = [previewFile EXCEPT ![s] = IF gone THEN 0 ELSE viewOp.group]
          /\ Finish0(s, IF Listening(s) THEN "running" ELSE IF gone THEN "failed" ELSE "starting")
    /\ UNCHANGED <<group, orderly, daemonCuts>>

\* previewStop: the group gets SIGTERM, and SIGKILL when the leader lives on.
StopPreview(s) ==
    /\ viewOp = NoView
    /\ IF IsAlive(previewFile[s])
       THEN \E left \in IF orderly THEN {FALSE} ELSE BOOLEAN :      \* a child ignores SIGTERM
            group' = [group EXCEPT ![previewFile[s]].leader = FALSE, ![previewFile[s]].holder = @ /\ left]
       ELSE UNCHANGED group
    /\ previewFile' = [previewFile EXCEPT ![s] = 0]
    /\ Finish0(s, "stopped") /\ answer' # answer
    /\ UNCHANGED <<orderly, daemonCuts>>

\* previewStatus: the file of a leader that is gone is removed.
PreviewStatus(s) ==
    /\ viewOp = NoView
    /\ IF IsAlive(previewFile[s]) THEN Finish0(s, "running") /\ UNCHANGED previewFile
       ELSE Finish0(s, "stopped") /\ previewFile' = [previewFile EXCEPT ![s] = 0]
    /\ answer' # answer
    /\ UNCHANGED <<group, orderly, daemonCuts>>

\* The server listens, or finds its port taken and ends.
ComesUp(g) ==
    /\ group[g].leader /\ ~group[g].holder
    /\ group' = IF Listening(group[g].site) THEN [group EXCEPT ![g].leader = FALSE]
                ELSE [group EXCEPT ![g].holder = TRUE]
    /\ UNCHANGED <<previewFile, viewOp, answer, orderly, daemonCuts>>

\* It ends by itself: all of it, or the leader alone.
Ends(g) ==
    /\ group[g].leader
    /\ \E left \in IF orderly THEN {FALSE} ELSE BOOLEAN :
        group' = [group EXCEPT ![g].leader = FALSE, ![g].holder = @ /\ left]
    /\ UNCHANGED <<previewFile, viewOp, answer, orderly, daemonCuts>>

DaemonKilled ==
    /\ viewOp # NoView /\ daemonCuts < MaxDaemonCuts
    /\ daemonCuts' = daemonCuts + 1 /\ viewOp' = NoView
    /\ UNCHANGED <<group, previewFile, answer, orderly>>

PreviewInit ==
    /\ group = <<>> /\ viewOp = NoView /\ daemonCuts = 0 /\ orderly \in BOOLEAN
    /\ previewFile = [s \in Site |-> 0] /\ answer = [s \in Site |-> ""]

PreviewNext ==
    \/ PortAnswers \/ DaemonKilled
    \/ \E s \in Site : PreviewStart(s) \/ StopPreview(s) \/ PreviewStatus(s)
    \/ \E g \in Started0 : ComesUp(g) \/ Ends(g)

PreviewSpec == PreviewInit /\ [][PreviewNext]_previewVars
-----------------------------------------------------------------------------
Lives(g) == group[g].leader \/ group[g].holder
Calm0 == orderly /\ daemonCuts = 0

(* Groups that die as a whole, and a daemon that is not killed between the *)
(* start and the file: what was answered to be stopped is stopped, also    *)
(* the server that was slow to come up (workspace-ops.js:138-147, "stop    *)
(* kills the whole tree").                                                 *)
StoppedIsStopped ==
    Calm0 => \A s \in Site : answer[s] = "stopped" /\ viewOp.site # s =>
        \A g \in Started0 : group[g].site = s => ~Lives(g)

(* ... and no workspace has two servers at a time (workspace-ops.js:112).  *)
OneServerOfASite ==
    Calm0 => \A g, h \in Started0 : Lives(g) /\ Lives(h) /\ group[g].site = group[h].site => g = h
=============================================================================
