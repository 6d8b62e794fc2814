------------------------------ MODULE MCStores ------------------------------
(***************************************************************************)
(* What the device keeps and changes in several steps, side by side: goals,*)
(* command lines, sessions, updates, settings, the pid file, workspace     *)
(* roots and files, previews, the index, memories, the cortex, the         *)
(* settings of a task, the registry of agents, modes.  They share no state *)
(* here: `area` picks, at the start, the one whose operations are explored.*)
(***************************************************************************)
EXTENDS Goals, ShellCommands, Sessions, SelfUpdate, Settings, WorkspaceRoots,
        WorkspaceFiles, WorkspaceIndex, TaskMemory, TaskSettings, AgentRegistry

VARIABLE area

(* Command lines of up to three words, each kind of word and operator. *)
SomeLines ==
    UNION {{l \in [1 .. n -> Words \cup Operators] : \A i \in 1 .. n : i % 2 = 1 <=> l[i] \in Words} : n \in {1, 3, 5}}

(* The state directory under the home, the managed workspaces under it, and
   places in and out of reach of each. *)
HomeDir == <<"home">>
StateOfAgent == <<"home", "state">>
WorkspaceBase == <<"home", "state", "workspace">>
SomePlaces ==
    {HomeDir, StateOfAgent, WorkspaceBase, <<"home", "state", "trash">>, WorkspaceBase \o <<"own">>,
     <<"home", "proj">>, <<"disk">>}

SomeTexts == {{}, {"a"}, {"b", "c"}}
Topics == [c \in {"a", "b", "c"} |-> IF c \in {"a", "b"} THEN "AB" ELSE c]
Themes == [t \in {"a", "b", "c"} |-> IF t = "c" THEN "C" ELSE "AB"]

P(task, caps, lock, allow, paths, tools, skills, ws) ==
    [task |-> task, caps |-> caps, locked |-> lock, allow |-> allow, paths |-> paths, tools |-> tools,
     skills |-> skills, ws |-> ws]
Profiles ==
    [plain  |-> P("work", FALSE, FALSE, {}, {}, {}, {}, ""),
     wide   |-> P("work", TRUE, FALSE, {"git"}, {"docs"}, {"net", "files"}, {"brief"}, ""),
     secure |-> P("work", TRUE, TRUE, {"git"}, {"docs"}, {"net"}, {"brief"}, "ws"),
     bound  |-> P("system", TRUE, FALSE, {}, {"docs"}, {}, {}, "ws")]

FileNames == [p \in {"p", "q", "sig"} |-> IF p = "sig" THEN "s" ELSE "x"]
SkillSets == [minimal |-> {}, standard |-> {"brief"}, full |-> {"brief"}]

storeVars == <<goalVars, shellVars, sessionVars, updateVars, settingsVars, guardVars, rootVars, fileVars,
               previewVars, indexVars, memoryVars, cortexVars, settingVars, registryVars, modesVars, area>>

InArea(a, A) ==
    /\ area = a /\ A
    /\ UNCHANGED area
    /\ IF a = "goals" THEN TRUE ELSE UNCHANGED goalVars
    /\ IF a = "shell" THEN TRUE ELSE UNCHANGED shellVars
    /\ IF a = "sessions" THEN TRUE ELSE UNCHANGED sessionVars
    /\ IF a = "update" THEN TRUE ELSE UNCHANGED updateVars
    /\ IF a = "settings" THEN TRUE ELSE UNCHANGED settingsVars
    /\ IF a = "guard" THEN TRUE ELSE UNCHANGED guardVars
    /\ IF a = "roots" THEN TRUE ELSE UNCHANGED rootVars
    /\ IF a = "files" THEN TRUE ELSE UNCHANGED fileVars
    /\ IF a = "previews" THEN TRUE ELSE UNCHANGED previewVars
    /\ IF a = "index" THEN TRUE ELSE UNCHANGED indexVars
    /\ IF a = "memories" THEN TRUE ELSE UNCHANGED memoryVars
    /\ IF a = "cortex" THEN TRUE ELSE UNCHANGED cortexVars
    /\ IF a = "task" THEN TRUE ELSE UNCHANGED settingVars
    /\ IF a = "agents" THEN TRUE ELSE UNCHANGED registryVars
    /\ IF a = "modes" THEN TRUE ELSE UNCHANGED modesVars

StoresInit ==
    /\ area \in {"goals", "shell", "sessions", "update", "settings", "guard", "roots", "files",
                 "previews", "index", "memories", "cortex", "task", "agents", "modes"}
    /\ GoalInit /\ SessionInit /\ UpdateInit /\ SettingsInit /\ GuardInit /\ RootsInit /\ FilesInit
    /\ PreviewInit /\ MemoryInit /\ CortexInit /\ TaskInit
    /\ IF area = "shell" THEN ShellInit ELSE ShellIdle
    /\ IF area = "index" THEN IndexInit /\ text[1] = {"a"} ELSE text = [f \in File |-> Gone] /\ IndexInit
    /\ IF area = "agents" THEN RegistryInit ELSE entries = <<>> /\ programs = {} /\ RegistryInit
    /\ IF area = "modes" THEN installed \in {{}, Bundled} /\ ModesInit
       ELSE policy = "own" /\ installed = {} /\ ModesInit
    /\ area = "sessions" \/ callers = Caller
    /\ area = "update" \/ running = Updater
    /\ area = "settings" \/ backend = "file"
    /\ area = "previews" \/ orderly

StoresNext ==
    \/ InArea("goals", GoalNext) \/ InArea("shell", ShellNext) \/ InArea("sessions", SessionNext)
    \/ InArea("update", UpdateNext) \/ InArea("settings", SettingsNext) \/ InArea("guard", GuardNext)
    \/ InArea("roots", RootsNext) \/ InArea("files", FilesNext) \/ InArea("previews", PreviewNext)
    \/ InArea("index", IndexNext) \/ InArea("memories", MemoryNext) \/ InArea("cortex", CortexNext)
    \/ InArea("task", TaskNext) \/ InArea("agents", RegistryNext) \/ InArea("modes", ModesNext)

StoresSpec == StoresInit /\ [][StoresNext]_storeVars

(* Who was started can be found and ended, within the exceptions the parts *)
(* name: the session of session.js, with its record and its line in the    *)
(* log, and the daemon the pid file of daemon.js names - wherever a        *)
(* program stops and in whatever order calls overlap.                      *)
LifetimesHold ==
    StartedCanBeEnded /\ EndedIsNotActive /\ EndedHasItsRecord /\ LogEndsWithTheLast /\ FileNamesTheDaemon

(* A workspace is one folder and one preview (workspace-links.js:80,       *)
(* workspace-ops.js:112-147): tasks work in the folder that is reported,   *)
(* none reaches the state directory, and a preview answered to be stopped  *)
(* is stopped.                                                             *)
WorkspacesHold == ReportedIsUsed /\ StateStaysOut /\ StoppedIsStopped /\ OneServerOfASite

(* Settings, credentials and modes survive their writers (settings.js:206, *)
(* credentials.js:127, modes.js:78): what was saved can be loaded, a set   *)
(* changes nothing else, key and metadata agree, a migrated key is read    *)
(* back, a mode is whole and enables what is installed - over cut writes   *)
(* and two writers, within the exceptions the parts name.                  *)
SettingsHold ==
    /\ [](SavedCanBeLoaded /\ MetadataOfTheKey /\ EnabledAreInstalled /\ ModeIsWhole)
    /\ OthersAreKept /\ MigratedIsReadBack
=============================================================================
