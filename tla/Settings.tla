------------------------------ MODULE Settings ------------------------------
(***************************************************************************)
(* Settings and credentials (apps/desktop/src/settings.js, tools/          *)
(* settings.js, credentials.js, config.js): a settings file that is        *)
(* sanitized when it is read and checked when it is written, and an API    *)
(* key in a backend with a file of metadata beside it.                     *)
(*                                                                         *)
(* A value is "d" (the default), "v" (another good one), "range" (of the   *)
(* right type, out of range) or "type" (of the wrong type); "" is absent.  *)
(***************************************************************************)
EXTENDS Naturals, FiniteSets

CONSTANTS
    Key,      \* settings of one part or two, such as memory.enabled
    Unknown,  \* a name that is no setting
    MaxEdits, \* bound: changes of the file by hand, and processes cut off
    MaxKeys   \* bound: API keys obtained

ASSUME SettingsAssumption == Unknown \notin Key /\ {MaxEdits, MaxKeys} \subseteq Nat

VARIABLES
    stored,    \* settings.json: the value of each key
    parses,    \* ... and whether it is JSON
    byHand,    \* history: somebody edited it since it was last saved
    replied,      \* history: the last answer of a set: [key, value], or refused
    edits,
    backend,   \* "file" or "dpapi", for a behaviour
    secret,    \* the key in the backend, 0 for none
    legacy,    \* credentials.json of a Windows device that had none: a key, 0 for none
    metaKey,   \* the key credentials.meta.json was written for, 0 for none
    keys,      \* API keys obtained
    halfSaved  \* history: a process was cut off between the key and its metadata

settingsFile == <<stored, parses, byHand, replied, edits>>
credentials == <<backend, secret, legacy, metaKey, keys, halfSaved>>
settingsVars == <<stored, parses, byHand, replied, edits, backend, secret, legacy, metaKey, keys, halfSaved>>

Defaults == [k \in Key |-> "d"]
Refused == [key |-> "", value |-> "refused"]

\* mergeSettings: what is absent or of another type becomes the default.
Merged == [k \in Key |-> IF ~parses \/ stored[k] \in {"", "type"} THEN "d" ELSE stored[k]]
Valid(s) == \A k \in Key : s[k] # "range"

(* mutant: a set starts from the defaults, whatever the file holds *)
MutCurrentSettings == Defaults

\* loadSettings; setSetting starts from the defaults when it throws.
CurrentSettings == IF Valid(Merged) THEN Merged ELSE Defaults

Saved(s) == stored' = s /\ parses' = TRUE /\ byHand' = FALSE

\* setSetting, saveSettings: written to another file and renamed; a key that
\* is no setting is accepted and dropped.
SetSetting(k, v) ==
    /\ LET next == IF k = Unknown THEN CurrentSettings ELSE [CurrentSettings EXCEPT ![k] = v]
       IN IF k # Unknown /\ v \in {"type", "range"}
          THEN replied' = Refused /\ UNCHANGED <<stored, parses, byHand>>
          ELSE replied' = [key |-> k, value |-> v] /\ Saved(next)
    /\ UNCHANGED <<edits, credentials>>

EditByHand(k, v) ==
    /\ edits < MaxEdits /\ edits' = edits + 1
    /\ \/ stored' = [stored EXCEPT ![k] = v] /\ UNCHANGED parses
       \/ parses' = FALSE /\ UNCHANGED stored
    /\ byHand' = TRUE
    /\ UNCHANGED <<replied, credentials>>

\* save: the backend, then the metadata; the process may be cut off between.
SaveCreds ==
    /\ keys < MaxKeys /\ keys' = keys + 1 /\ secret' = keys'
    /\ \/ metaKey' = keys' /\ halfSaved' = FALSE /\ UNCHANGED edits
       \/ edits < MaxEdits /\ edits' = edits + 1 /\ halfSaved' = TRUE /\ UNCHANGED metaKey
    /\ UNCHANGED <<stored, parses, byHand, replied, backend, legacy>>

ClearCreds ==
    /\ secret' = 0 /\ metaKey' = 0 /\ halfSaved' = FALSE
    /\ UNCHANGED <<settingsFile, backend, legacy, keys>>

\* migrateLegacy: a key that DPAPI does not give back stays in the file.
MigrateLegacy ==
    /\ backend = "dpapi" /\ legacy # 0
    /\ \/ secret' = legacy /\ metaKey' = legacy /\ legacy' = 0
       \/ secret' = 0 /\ UNCHANGED <<metaKey, legacy>>
    /\ UNCHANGED <<settingsFile, backend, keys, halfSaved>>

\* The process starts anew: what the DPAPI backend keeps is in its memory.
CredsRestart ==
    /\ secret' = IF backend = "dpapi" THEN 0 ELSE secret
    /\ secret' # secret
    /\ UNCHANGED <<settingsFile, backend, legacy, metaKey, keys, halfSaved>>

SettingsInit ==
    /\ stored = [k \in Key |-> ""] /\ parses = TRUE /\ byHand = FALSE /\ replied = Refused /\ edits = 0
    /\ backend \in {"file", "dpapi"} /\ secret = 0 /\ metaKey = 0 /\ halfSaved = FALSE
    /\ keys = (IF backend = "dpapi" THEN 1 ELSE 0) /\ legacy = keys

SettingsNext ==
    \/ \E k \in Key \cup {Unknown}, v \in {"d", "v", "range", "type"} : SetSetting(k, v)
    \/ \E k \in Key, v \in {"", "d", "v", "range", "type"} : EditByHand(k, v)
    \/ SaveCreds \/ ClearCreds \/ MigrateLegacy \/ CredsRestart

SettingsSpec == SettingsInit /\ [][SettingsNext]_settingsVars
-----------------------------------------------------------------------------
(* Whatever was set after whatever was edited, a file the program has      *)
(* saved can be loaded: one set repairs a file that was broken by hand     *)
(* (settings.js:208, "Self-healing").                                      *)
SavedCanBeLoaded == ~byHand => parses /\ Valid(Merged)

(* A set leaves every other setting as the program sees it, unless the     *)
(* file could not be loaded (setSetting, settings.js:206).                 *)
OthersAreKept ==
    [][replied' # replied /\ replied'.key \in Key /\ Valid(Merged)
       => \A k \in Key \ {replied'.key} : Merged'[k] = Merged[k]]_settingsVars

(* The metadata speak of the key that is loaded (agentId, rotatedAt),      *)
(* unless a process was cut off between the two (credentials.js:127).      *)
MetadataOfTheKey == ~halfSaved /\ secret # 0 => metaKey = secret

(* The file of a migrated key goes only when the backend has given the     *)
(* key back ("migrates a legacy file only after secure read-back",         *)
(* credentials.test.mjs:23).                                               *)
MigratedIsReadBack == [][legacy # 0 /\ legacy' = 0 => secret' = legacy]_settingsVars
-----------------------------------------------------------------------------
(***************************************************************************)
(* Modes and skills (apps/desktop/src/modes.js, skills.js, config.js):     *)
(* `mode set` writes the policy, then the enabled skills, then the mode;   *)
(* `skills enable` and `disable`, of the command line and of a console,    *)
(* write the skills.  Each is a process that reads config.json whole,      *)
(* changes a key of it and writes it whole, in place.                      *)
(***************************************************************************)
CONSTANTS
    Proc,      \* processes that run one command after another
    Bundled,   \* skills of the package
    SkillsOf   \* the skills of each mode: a function on modes

Modes == {"minimal", "standard", "full"}
ASSUME ModesAssumption == SkillsOf \in [Modes -> SUBSET Bundled]

VARIABLES
    config,    \* config.json: mode, daemon and skills; Empty also when unreadable
    policy,    \* policy.json: the mode whose preset it holds, or "own"
    installed, \* skills with a SKILL.md
    doing,      \* where each process is
    command,   \* what it was asked: [op, arg]
    copy,      \* the config it read
    settled,   \* history: the last `mode set` that ended undisturbed and what it left, or "none"
    alone      \* history: processes that nothing has interfered with since they started

modesVars == <<config, policy, installed, doing, command, copy, settled, alone>>

Empty == [mode |-> "", daemon |-> FALSE, skills |-> {}]
NoCommand == [op |-> "", arg |-> ""]
PresetOf == [minimal |-> "strict", standard |-> "standard", full |-> "permissive"]
Idle == {p \in Proc : doing[p] = "idle"}

\* currentMode: an unknown or a missing mode is the standard one.
CurrentMode == IF config.mode \in Modes THEN config.mode ELSE "standard"

\* modeCmd, skillsCmd, and the console's start and stop of a skill.
Ask(p, op, arg) ==
    /\ p \in Idle
    /\ op = "enable" => arg \in installed
    /\ doing' = [doing EXCEPT ![p] = IF op = "mode" THEN "policy" ELSE "skills"]
    /\ command' = [command EXCEPT ![p] = [op |-> op, arg |-> arg]]
    /\ alone' = IF Idle = Proc THEN {p} ELSE {}
    /\ settled' = "none"
    /\ UNCHANGED <<config, policy, installed, copy>>

\* applyMode, 1: the policy comes first.
WritePolicy(p) ==
    /\ doing[p] = "policy"
    /\ policy' = PresetOf[command[p].arg]
    /\ doing' = [doing EXCEPT ![p] = "skills"]
    /\ UNCHANGED <<config, installed, command, copy, settled, alone>>

\* loadConfig, for a SkillsManager and again for each save.
LoadConfig(p) ==
    /\ doing[p] \in {"skills", "mode"}
    /\ copy' = [copy EXCEPT ![p] = config]
    /\ doing' = [doing EXCEPT ![p] = IF doing[p] = "skills" THEN "save" ELSE "saveMode"]
    /\ UNCHANGED <<config, policy, installed, command, settled, alone>>

\* The new list: saveRaw, enable and disable.
Enabled(c, old) ==
    CASE c.op = "mode" -> SkillsOf[c.arg] \cap installed
      [] c.op = "enable" -> old \cup {c.arg}
      [] c.op = "disable" -> old \ {c.arg}

\* SkillsManager.saveEnabled.
SaveSkills(p) ==
    LET c == command[p]
    IN /\ doing[p] = "save"
       /\ config' = [copy[p] EXCEPT !.skills = Enabled(c, copy[p].skills)]
       /\ doing' = [doing EXCEPT ![p] = IF c.op = "mode" THEN "mode" ELSE "idle"]
       /\ command' = [command EXCEPT ![p] = IF c.op = "mode" THEN c ELSE NoCommand]
       /\ copy' = [copy EXCEPT ![p] = Empty]
       /\ UNCHANGED <<policy, installed, settled, alone>>

\* applyMode, 3: the mode, and for "full" that the daemon is installed; no
\* other mode takes that back.
SaveMode(p) ==
    LET m == command[p].arg
    IN /\ doing[p] = "saveMode"
       /\ config' = [copy[p] EXCEPT !.mode = m, !.daemon = @ \/ m = "full"]
       /\ doing' = [doing EXCEPT ![p] = "idle"]
       /\ command' = [command EXCEPT ![p] = NoCommand]
       /\ copy' = [copy EXCEPT ![p] = Empty]
       /\ settled' = IF p \in alone THEN m ELSE "none"
       /\ UNCHANGED <<policy, installed, alone>>

\* SkillsManager.install copies the bundled skills that are not there yet.
InstallSkills ==
    /\ installed' = installed \cup Bundled
    /\ alone' = {}
    /\ settled' = "none"
    /\ UNCHANGED <<config, policy, doing, command, copy>>

\* A process dies: over a write it leaves a file that cannot be read.
Killed(p) ==
    /\ doing[p] # "idle"
    /\ config' \in IF doing[p] \in {"save", "saveMode"} THEN {config, Empty} ELSE {config}
    /\ doing' = [doing EXCEPT ![p] = "idle"]
    /\ command' = [command EXCEPT ![p] = NoCommand]
    /\ copy' = [copy EXCEPT ![p] = Empty]
    /\ alone' = {}
    /\ UNCHANGED <<policy, installed, settled>>

\* external: the user edits the policy.
EditPolicy ==
    /\ policy' = "own"
    /\ alone' = {} /\ settled' = "none"
    /\ UNCHANGED <<config, installed, doing, command, copy>>

ModesInit ==
    /\ config = Empty
    /\ policy \in {"own", "standard"}
    /\ installed \in SUBSET Bundled
    /\ doing = [p \in Proc |-> "idle"]
    /\ command = [p \in Proc |-> NoCommand]
    /\ copy = [p \in Proc |-> Empty]
    /\ settled = "none"
    /\ alone = {}

ModesNext ==
    \/ \E p \in Proc :
        \/ \E m \in Modes : Ask(p, "mode", m)
        \/ \E op \in {"enable", "disable"}, s \in Bundled : Ask(p, op, s)
        \/ WritePolicy(p) \/ LoadConfig(p) \/ SaveSkills(p) \/ SaveMode(p) \/ Killed(p)
    \/ InstallSkills \/ EditPolicy

ModesSpec == ModesInit /\ [][ModesNext]_modesVars
-----------------------------------------------------------------------------
\* However commands overlap or die, a skill that is enabled is one that is
\* installed (modes.js:95, skills.js:86).
EnabledAreInstalled == config.skills \subseteq installed

\* A `mode set` that nothing interfered with leaves a device that is in that
\* mode as a whole: its name, its policy and its skills (modes.js:78-103,
\* three writes to two files).
ModeIsWhole ==
    settled \in Modes =>
        /\ CurrentMode = settled /\ policy = PresetOf[settled]
        /\ config.skills = SkillsOf[settled] \cap installed
=============================================================================
