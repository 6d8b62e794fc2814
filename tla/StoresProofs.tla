---------------------------- MODULE StoresProofs ----------------------------
(***************************************************************************)
(* Theorems about what the device keeps (MCStores): for any goals, callers,*)
(* updaters, keys, workspaces and servers and any bounds, what was started *)
(* can be ended, what was saved can be loaded, what is reported is what is *)
(* used, over crashes, cut writes and overlapping writers.                 *)
(***************************************************************************)
EXTENDS MCStores, DataLemmas

(* The areas share no state: each step is one of the area it is in, and    *)
(* leaves those of the others alone.                                       *)
LEMMA GoalSteps == [StoresNext]_storeVars => [GoalNext]_goalVars
BY DEF StoresNext, InArea, storeVars

LEMMA SessionSteps == [StoresNext]_storeVars => [SessionNext]_sessionVars
BY DEF StoresNext, InArea, storeVars

LEMMA UpdateSteps == [StoresNext]_storeVars => [UpdateNext]_updateVars
BY DEF StoresNext, InArea, storeVars

LEMMA SettingsSteps == [StoresNext]_storeVars => [SettingsNext]_settingsVars
BY DEF StoresNext, InArea, storeVars

LEMMA GuardSteps == [StoresNext]_storeVars => [GuardNext]_guardVars
BY DEF StoresNext, InArea, storeVars

LEMMA RootsSteps == [StoresNext]_storeVars => [RootsNext]_rootVars
BY DEF StoresNext, InArea, storeVars

LEMMA FilesSteps == [StoresNext]_storeVars => [FilesNext]_fileVars
BY DEF StoresNext, InArea, storeVars

LEMMA PreviewSteps == [StoresNext]_storeVars => [PreviewNext]_previewVars
BY DEF StoresNext, InArea, storeVars

LEMMA CortexSteps == [StoresNext]_storeVars => [CortexNext]_cortexVars
BY DEF StoresNext, InArea, storeVars

LEMMA TaskSteps == [StoresNext]_storeVars => [TaskNext]_settingVars
BY DEF StoresNext, InArea, storeVars

LEMMA RegistrySteps == [StoresNext]_storeVars => [RegistryNext]_registryVars
BY DEF StoresNext, InArea, storeVars

LEMMA ModesSteps == [StoresNext]_storeVars => [ModesNext]_modesVars
BY DEF StoresNext, InArea, storeVars
-----------------------------------------------------------------------------
(* Settings *)

Values == {"", "d", "v", "range", "type"}
SettingsTypes == stored \in [Key -> Values] /\ parses \in BOOLEAN
SettingsInv == SettingsTypes /\ SavedCanBeLoaded /\ MetadataOfTheKey

(* What a set starts from, and what is read back of what it saves. *)
LEMMA CurrentFacts ==
  ASSUME SettingsTypes
  PROVE  /\ CurrentSettings \in [Key -> {"d", "v"}]
         /\ Valid(Merged) => CurrentSettings = Merged
<1>1. \A k \in Key : Merged[k] \in {"d", "v", "range"}
  BY DEF SettingsTypes, Values, Merged
<1>2. Merged \in [Key -> {"d", "v", "range"}]
  BY <1>1 DEF Merged
<1>3. Defaults \in [Key -> {"d", "v"}]
  BY DEF Defaults
<1>4. ASSUME Valid(Merged) PROVE Merged \in [Key -> {"d", "v"}]
  BY <1>1, <1>4 DEF Valid, Merged
<1>. QED BY <1>2, <1>3, <1>4 DEF CurrentSettings

LEMMA SavedFacts ==
  ASSUME NEW s \in [Key -> {"d", "v"}], Saved(s)
  PROVE  stored' = s /\ Merged' = s /\ SettingsTypes' /\ SavedCanBeLoaded'
<1>1. stored' = s /\ parses' = TRUE /\ byHand' = FALSE
  BY DEF Saved
<1>2. \A k \in Key : s[k] \in {"d", "v"}
  OBVIOUS
<1>3. Merged' = [k \in Key |-> s[k]]
  BY <1>1, <1>2 DEF Merged
<1>4. Merged' = s
  BY <1>3
<1>5. SettingsTypes'
  BY <1>1 DEF SettingsTypes, Values
<1>6. SavedCanBeLoaded'
  BY <1>1, <1>2, <1>4 DEF SavedCanBeLoaded, Valid
<1>. QED BY <1>1, <1>4, <1>5, <1>6

(* A set: refused, or saved with that one key changed. *)
LEMMA SetFacts ==
  ASSUME SettingsTypes, NEW k \in Key \cup {Unknown}, NEW v \in {"d", "v", "range", "type"}, SetSetting(k, v)
  PROVE  \/ UNCHANGED <<stored, parses, byHand>>
         \/ /\ replied' = [key |-> k, value |-> v]
            /\ SettingsTypes' /\ SavedCanBeLoaded'
            /\ \A j \in Key : j # k => Merged'[j] = CurrentSettings[j]
<1>. USE SettingsAssumption
<1>. DEFINE new == IF k = Unknown THEN CurrentSettings ELSE [CurrentSettings EXCEPT ![k] = v]
<1>1. CASE replied' = Refused /\ UNCHANGED <<stored, parses, byHand>>
  BY <1>1
<1>2. CASE /\ k = Unknown \/ v \in {"d", "v"}
           /\ replied' = [key |-> k, value |-> v] /\ Saved(new)
  <2>1. new \in [Key -> {"d", "v"}] /\ \A j \in Key : j # k => new[j] = CurrentSettings[j]
    <3>1. CurrentSettings \in [Key -> {"d", "v"}]
      BY CurrentFacts
    <3>. HIDE DEF CurrentSettings
    <3>. QED BY <1>2, <3>1
  <2>. HIDE DEF new
  <2>2. Merged' = new /\ SettingsTypes' /\ SavedCanBeLoaded'
    BY <1>2, <2>1, SavedFacts
  <2>. QED BY <1>2, <2>1, <2>2
<1>. QED BY <1>1, <1>2 DEF SetSetting

LEMMA SettingsInvInit == SettingsInit => SettingsInv
<1>. SUFFICES ASSUME SettingsInit PROVE SettingsInv
  OBVIOUS
<1>1. SettingsTypes /\ MetadataOfTheKey
  BY DEF SettingsInit, SettingsTypes, Values, MetadataOfTheKey
<1>2. SavedCanBeLoaded
  BY DEF SettingsInit, SavedCanBeLoaded, Valid, Merged
<1>. QED BY <1>1, <1>2 DEF SettingsInv

LEMMA SettingsInvStep ==
  ASSUME SettingsInv, [SettingsNext]_settingsVars
  PROVE  /\ SettingsInv'
         /\ replied' # replied /\ replied'.key \in Key /\ Valid(Merged)
              => \A k \in Key \ {replied'.key} : Merged'[k] = Merged[k]
         /\ legacy # 0 /\ legacy' = 0 => secret' = legacy
<1>. USE SettingsAssumption
<1>1. SettingsTypes /\ SavedCanBeLoaded /\ MetadataOfTheKey
  BY DEF SettingsInv
<1>2. ASSUME UNCHANGED <<stored, parses, byHand>>
      PROVE  SettingsTypes' /\ SavedCanBeLoaded' /\ Merged' = Merged
  BY <1>1, <1>2 DEF SettingsTypes, SavedCanBeLoaded, Merged, Valid
<1>3. ASSUME UNCHANGED credentials
      PROVE  MetadataOfTheKey' /\ legacy' = legacy
  BY <1>1, <1>3 DEF MetadataOfTheKey, credentials
<1>4. ASSUME NEW k \in Key \cup {Unknown}, NEW v \in {"d", "v", "range", "type"}, SetSetting(k, v)
      PROVE  /\ SettingsInv' /\ legacy' = legacy
             /\ Valid(Merged) => \A j \in Key \ {replied'.key} : Merged'[j] = Merged[j]
  <2>1. MetadataOfTheKey' /\ legacy' = legacy
    BY <1>3, <1>4 DEF SetSetting
  <2>2. CASE UNCHANGED <<stored, parses, byHand>>
    BY <1>2, <2>1, <2>2 DEF SettingsInv
  <2>3. CASE /\ replied' = [key |-> k, value |-> v]
             /\ SettingsTypes' /\ SavedCanBeLoaded'
             /\ \A j \in Key : j # k => Merged'[j] = CurrentSettings[j]
    BY <1>1, <2>1, <2>3, CurrentFacts DEF SettingsInv
  <2>. QED BY <1>1, <1>4, <2>2, <2>3, SetFacts
<1>5. ASSUME NEW k \in Key, NEW v \in Values, EditByHand(k, v)
      PROVE  SettingsInv' /\ replied' = replied /\ legacy' = legacy
  <2>1. SettingsTypes' /\ byHand' = TRUE
    BY <1>1, <1>5 DEF EditByHand, SettingsTypes
  <2>. QED BY <1>3, <1>5, <2>1 DEF EditByHand, SettingsInv, SavedCanBeLoaded
<1>6. ASSUME UNCHANGED <<stored, parses, byHand, replied>>, MetadataOfTheKey',
             legacy # 0 /\ legacy' = 0 => secret' = legacy
      PROVE  /\ SettingsInv' /\ replied' = replied
             /\ legacy # 0 /\ legacy' = 0 => secret' = legacy
  BY <1>2, <1>6 DEF SettingsInv
<1>7. CASE SaveCreds \/ ClearCreds \/ MigrateLegacy \/ CredsRestart
  <2>1. UNCHANGED <<stored, parses, byHand, replied>>
    BY <1>7 DEF SaveCreds, ClearCreds, MigrateLegacy, CredsRestart, settingsFile
  <2>2. MetadataOfTheKey'
    BY <1>1, <1>7 DEF SaveCreds, ClearCreds, MigrateLegacy, CredsRestart, MetadataOfTheKey
  <2>3. legacy # 0 /\ legacy' = 0 => secret' = legacy
    BY <1>7 DEF SaveCreds, ClearCreds, MigrateLegacy, CredsRestart
  <2>. QED BY <1>6, <2>1, <2>2, <2>3
<1>8. CASE UNCHANGED settingsVars
  BY <1>1, <1>6, <1>8 DEF settingsVars, MetadataOfTheKey
<1>. QED BY <1>4, <1>5, <1>7, <1>8 DEF SettingsNext, Values
-----------------------------------------------------------------------------
(* Modes *)

ConfigFile == [mode : Modes \cup {""}, daemon : BOOLEAN, skills : SUBSET Bundled]

ModesTypes ==
  /\ config \in ConfigFile /\ copy \in [Proc -> ConfigFile] /\ installed \subseteq Bundled
  /\ doing \in [Proc -> {"idle", "policy", "skills", "save", "mode", "saveMode"}]
  /\ command \in [Proc -> [op : {"", "mode", "enable", "disable"}, arg : Modes \cup Bundled \cup {""}]]
  /\ alone \subseteq Proc

(* What a process was asked stands until it is done. *)
AskedOf(p) ==
  /\ doing[p] # "idle" => command[p].op # ""
  /\ doing[p] \in {"policy", "mode", "saveMode"} => command[p].op = "mode"
  /\ command[p].op = "mode" => command[p].arg \in Modes
  /\ command[p].op = "enable" => command[p].arg \in installed

SkillsKnown == config.skills \subseteq installed /\ \A p \in Proc : copy[p].skills \subseteq installed

(* A `mode set` that is alone finds what it wrote. *)
FindsItsOwn(p) ==
  LET c == command[p] IN
  /\ \A q \in Proc : q # p => doing[q] = "idle"
  /\ c.op = "mode" /\ doing[p] \in {"skills", "save", "mode", "saveMode"} => policy = PresetOf[c.arg]
  /\ doing[p] \in {"save", "saveMode"} => copy[p] = config
  /\ doing[p] \in {"mode", "saveMode"} => config.skills = SkillsOf[c.arg] \cap installed

SettledMeansIdle == settled \in Modes => \A p \in Proc : doing[p] = "idle"

ModesInv ==
  /\ ModesTypes /\ SkillsKnown /\ SettledMeansIdle /\ ModeIsWhole
  /\ \A p \in Proc : AskedOf(p)
  /\ \A p \in alone : FindsItsOwn(p)

LEMMA ModesInvInit == ModesInit => ModesInv
<1>. SUFFICES ASSUME ModesInit PROVE ModesInv
  OBVIOUS
<1>1. Empty \in ConfigFile /\ Empty.skills = {}
  BY DEF Empty, ConfigFile
<1>2. NoCommand \in [op : {"", "mode", "enable", "disable"}, arg : Modes \cup Bundled \cup {""}]
      /\ NoCommand.op = ""
  BY DEF NoCommand
<1>3. ModesTypes
  BY <1>1, <1>2 DEF ModesInit, ModesTypes
<1>4. "none" \notin Modes
  BY DEF Modes
<1>5. SkillsKnown /\ SettledMeansIdle /\ ModeIsWhole
  BY <1>1, <1>4 DEF ModesInit, SkillsKnown, SettledMeansIdle, ModeIsWhole
<1>6. \A p \in Proc : AskedOf(p)
  BY <1>2 DEF ModesInit, AskedOf
<1>. QED BY <1>3, <1>5, <1>6 DEF ModesInv, ModesInit

LEMMA ModesInvStep == ModesInv /\ [ModesNext]_modesVars => ModesInv'
<1>. USE ModesAssumption
<1>. SUFFICES ASSUME ModesInv, [ModesNext]_modesVars PROVE ModesInv'
  OBVIOUS
<1>1. /\ ModesTypes /\ SkillsKnown /\ SettledMeansIdle /\ ModeIsWhole
      /\ \A p \in Proc : AskedOf(p)
      /\ \A p \in alone : FindsItsOwn(p)
  BY DEF ModesInv
<1>2. "none" \notin Modes /\ \A m \in Modes : SkillsOf[m] \subseteq Bundled
  BY DEF Modes
<1>3. Empty \in ConfigFile /\ Empty.skills = {}
  BY DEF Empty, ConfigFile
<1>4. NoCommand \in [op : {"", "mode", "enable", "disable"}, arg : Modes \cup Bundled \cup {""}]
      /\ NoCommand.op = ""
  BY DEF NoCommand
<1>5. ASSUME NEW p \in Proc, NEW op \in {"mode", "enable", "disable"}, NEW arg \in Modes \cup Bundled,
             op = "mode" => arg \in Modes, Ask(p, op, arg)
      PROVE  ModesInv'
  <2>1. /\ p \in Idle /\ (op = "enable" => arg \in installed)
        /\ doing' = [doing EXCEPT ![p] = IF op = "mode" THEN "policy" ELSE "skills"]
        /\ command' = [command EXCEPT ![p] = [op |-> op, arg |-> arg]]
        /\ alone' = IF Idle = Proc THEN {p} ELSE {}
        /\ settled' = "none"
        /\ UNCHANGED <<config, policy, installed, copy>>
    BY <1>5 DEF Ask
  <2>2. ModesTypes'
    BY <1>1, <2>1 DEF ModesTypes
  <2>3. SkillsKnown' /\ SettledMeansIdle' /\ ModeIsWhole'
    BY <1>1, <1>2, <2>1 DEF SkillsKnown, SettledMeansIdle, ModeIsWhole
  <2>4. ASSUME NEW q \in Proc PROVE AskedOf(q)'
    <3>1. CASE q = p
      <4>1. /\ command'[p].op = op /\ command'[p].arg = arg
            /\ doing'[p] = IF op = "mode" THEN "policy" ELSE "skills"
        BY <1>1, <2>1 DEF ModesTypes
      <4>2. op = "enable" => arg \in installed'
        BY <2>1
      <4>. QED BY <1>5, <3>1, <4>1, <4>2 DEF AskedOf
    <3>2. CASE q # p
      BY <1>1, <2>1, <3>2 DEF ModesTypes, AskedOf
    <3>. QED BY <3>1, <3>2
  <2>5. ASSUME NEW q \in alone' PROVE FindsItsOwn(q)'
    <3>1. q = p /\ Idle = Proc
      BY <2>1, <2>5
    <3>. QED BY <1>1, <2>1, <3>1 DEF ModesTypes, FindsItsOwn, Idle
  <2>. QED BY <2>2, <2>3, <2>4, <2>5 DEF ModesInv
<1>6. ASSUME NEW p \in Proc, WritePolicy(p) PROVE ModesInv'
  <2>1. /\ doing[p] = "policy"
        /\ policy' = PresetOf[command[p].arg]
        /\ doing' = [doing EXCEPT ![p] = "skills"]
        /\ UNCHANGED <<config, installed, command, copy, settled, alone>>
    BY <1>6 DEF WritePolicy
  <2>2. ModesTypes' /\ SkillsKnown'
    BY <1>1, <2>1 DEF ModesTypes, SkillsKnown
  <2>3. settled' \notin Modes
    BY <1>1, <2>1 DEF SettledMeansIdle
  <2>4. ASSUME NEW q \in Proc PROVE AskedOf(q)'
    BY <1>1, <2>1 DEF ModesTypes, AskedOf
  <2>5. ASSUME NEW q \in alone' PROVE FindsItsOwn(q)'
    <3>1. q \in alone /\ q \in Proc
      BY <1>1, <2>1, <2>5 DEF ModesTypes
    <3>. QED BY <1>1, <2>1, <3>1 DEF ModesTypes, FindsItsOwn
  <2>. QED BY <2>2, <2>3, <2>4, <2>5 DEF ModesInv, SettledMeansIdle, ModeIsWhole
<1>7. ASSUME NEW p \in Proc, LoadConfig(p) PROVE ModesInv'
  <2>1. /\ doing[p] \in {"skills", "mode"}
        /\ copy' = [copy EXCEPT ![p] = config]
        /\ doing' = [doing EXCEPT ![p] = IF doing[p] = "skills" THEN "save" ELSE "saveMode"]
        /\ UNCHANGED <<config, policy, installed, command, settled, alone>>
    BY <1>7 DEF LoadConfig
  <2>2. ModesTypes' /\ SkillsKnown'
    BY <1>1, <2>1 DEF ModesTypes, SkillsKnown
  <2>3. settled' \notin Modes
    BY <1>1, <2>1 DEF SettledMeansIdle
  <2>4. ASSUME NEW q \in Proc PROVE AskedOf(q)'
    BY <1>1, <2>1 DEF ModesTypes, AskedOf
  <2>5. ASSUME NEW q \in alone' PROVE FindsItsOwn(q)'
    <3>1. q \in alone /\ q \in Proc
      BY <1>1, <2>1, <2>5 DEF ModesTypes
    <3>. QED BY <1>1, <2>1, <3>1 DEF ModesTypes, FindsItsOwn
  <2>. QED BY <2>2, <2>3, <2>4, <2>5 DEF ModesInv, SettledMeansIdle, ModeIsWhole
<1>8. ASSUME NEW p \in Proc, SaveSkills(p) PROVE ModesInv'
  <2>. DEFINE c == command[p]
              new == Enabled(c, copy[p].skills)
  <2>1. /\ doing[p] = "save"
        /\ config' = [copy[p] EXCEPT !.skills = new]
        /\ doing' = [doing EXCEPT ![p] = IF c.op = "mode" THEN "mode" ELSE "idle"]
        /\ command' = [command EXCEPT ![p] = IF c.op = "mode" THEN c ELSE NoCommand]
        /\ copy' = [copy EXCEPT ![p] = Empty]
        /\ UNCHANGED <<policy, installed, settled, alone>>
    BY <1>8 DEF SaveSkills
  <2>2. /\ c \in [op : {"", "mode", "enable", "disable"}, arg : Modes \cup Bundled \cup {""}]
        /\ c.op # "" /\ AskedOf(p)
    BY <1>1, <2>1 DEF ModesTypes, AskedOf
  <2>3. new \subseteq installed /\ (c.op = "mode" => new = SkillsOf[c.arg] \cap installed)
    <3>1. copy[p].skills \subseteq installed
      BY <1>1 DEF SkillsKnown
    <3>2. CASE c.op = "mode"
      BY <3>2 DEF Enabled
    <3>3. CASE c.op = "enable"
      BY <2>2, <3>1, <3>3 DEF Enabled, AskedOf
    <3>4. CASE c.op = "disable"
      BY <3>1, <3>4 DEF Enabled
    <3>. QED BY <2>2, <3>2, <3>3, <3>4
  <2>. HIDE DEF c, new
  <2>4. config' \in ConfigFile /\ config'.skills = new
    BY <1>1, <2>1, <2>3 DEF ModesTypes, ConfigFile
  <2>5. ModesTypes' /\ SkillsKnown'
    BY <1>1, <1>3, <1>4, <2>1, <2>2, <2>3, <2>4 DEF ModesTypes, SkillsKnown
  <2>6. settled' \notin Modes
    BY <1>1, <2>1 DEF SettledMeansIdle
  <2>7. ASSUME NEW q \in Proc PROVE AskedOf(q)'
    BY <1>1, <1>4, <2>1, <2>2 DEF ModesTypes, AskedOf, c
  <2>8. ASSUME NEW q \in alone' PROVE FindsItsOwn(q)'
    <3>1. q \in alone /\ q \in Proc /\ q = p
      BY <1>1, <2>1, <2>8 DEF ModesTypes, FindsItsOwn
    <3>2. /\ \A r \in Proc : r # p => doing'[r] = "idle"
          /\ doing'[p] = IF c.op = "mode" THEN "mode" ELSE "idle"
          /\ command'[p] = IF c.op = "mode" THEN c ELSE NoCommand
      BY <1>1, <2>1, <3>1 DEF ModesTypes, FindsItsOwn
    <3>3. c.op = "mode" => policy = PresetOf[c.arg]
      BY <1>1, <2>1, <3>1 DEF FindsItsOwn, c
    <3>. QED BY <2>1, <2>3, <2>4, <3>1, <3>2, <3>3 DEF FindsItsOwn
  <2>. QED BY <2>5, <2>6, <2>7, <2>8 DEF ModesInv, SettledMeansIdle, ModeIsWhole
<1>9. ASSUME NEW p \in Proc, SaveMode(p) PROVE ModesInv'
  <2>. DEFINE m == command[p].arg
  <2>1. /\ doing[p] = "saveMode"
        /\ config' = [copy[p] EXCEPT !.mode = m, !.daemon = @ \/ m = "full"]
        /\ doing' = [doing EXCEPT ![p] = "idle"]
        /\ command' = [command EXCEPT ![p] = NoCommand]
        /\ copy' = [copy EXCEPT ![p] = Empty]
        /\ settled' = IF p \in alone THEN m ELSE "none"
        /\ UNCHANGED <<policy, installed, alone>>
    BY <1>9 DEF SaveMode
  <2>2. m \in Modes /\ command[p].op = "mode"
    BY <1>1, <2>1 DEF AskedOf, Modes
  <2>3. p \in alone => FindsItsOwn(p)
    BY <1>1
  <2>4. p \in alone => /\ \A q \in Proc : q # p => doing[q] = "idle"
                       /\ policy = PresetOf[m] /\ copy[p] = config
                       /\ config.skills = SkillsOf[m] \cap installed
    BY <2>1, <2>2, <2>3 DEF FindsItsOwn
  <2>. HIDE DEF m
  <2>5. config' \in ConfigFile /\ config'.skills = copy[p].skills /\ config'.mode = m
    <3>1. copy[p] \in ConfigFile
      BY <1>1 DEF ModesTypes
    <3>2. (copy[p].daemon \/ m = "full") \in BOOLEAN
      OBVIOUS
    <3>. QED BY <2>1, <2>2, <3>1, <3>2 DEF ConfigFile
  <2>6. ModesTypes' /\ SkillsKnown'
    BY <1>1, <1>3, <1>4, <2>1, <2>5 DEF ModesTypes, SkillsKnown
  <2>7. ASSUME NEW q \in Proc PROVE AskedOf(q)'
    BY <1>1, <1>4, <2>1 DEF ModesTypes, AskedOf
  <2>8. ASSUME p \in alone
        PROVE  (\A q \in Proc : doing'[q] = "idle") /\ ModeIsWhole'
    BY <1>1, <2>1, <2>2, <2>4, <2>5, <2>8 DEF ModesTypes, ModeIsWhole, CurrentMode
  <2>9. SettledMeansIdle' /\ ModeIsWhole'
    BY <1>2, <2>1, <2>8 DEF SettledMeansIdle, ModeIsWhole
  <2>10. ASSUME NEW q \in alone' PROVE FindsItsOwn(q)'
    <3>1. q \in alone /\ q \in Proc /\ q = p
      BY <1>1, <2>1, <2>10 DEF ModesTypes, FindsItsOwn
    <3>. QED BY <2>1, <2>8, <3>1 DEF FindsItsOwn
  <2>. QED BY <2>6, <2>7, <2>9, <2>10 DEF ModesInv
<1>10. CASE InstallSkills
  <2>1. /\ installed' = installed \cup Bundled /\ alone' = {} /\ settled' = "none"
        /\ UNCHANGED <<config, policy, doing, command, copy>>
    BY <1>10 DEF InstallSkills
  <2>. QED
    BY <1>1, <1>2, <2>1
    DEF ModesInv, ModesTypes, SkillsKnown, SettledMeansIdle, ModeIsWhole, AskedOf
<1>11. ASSUME NEW p \in Proc, Killed(p) PROVE ModesInv'
  <2>1. /\ doing[p] # "idle" /\ config' \in {config, Empty}
        /\ doing' = [doing EXCEPT ![p] = "idle"]
        /\ command' = [command EXCEPT ![p] = NoCommand]
        /\ copy' = [copy EXCEPT ![p] = Empty]
        /\ alone' = {} /\ UNCHANGED <<policy, installed, settled>>
    BY <1>11 DEF Killed
  <2>2. ModesTypes' /\ SkillsKnown'
    BY <1>1, <1>3, <1>4, <2>1 DEF ModesTypes, SkillsKnown
  <2>3. settled' \notin Modes
    BY <1>1, <2>1 DEF SettledMeansIdle
  <2>4. ASSUME NEW q \in Proc PROVE AskedOf(q)'
    BY <1>1, <1>4, <2>1 DEF ModesTypes, AskedOf
  <2>. QED BY <2>1, <2>2, <2>3, <2>4 DEF ModesInv, SettledMeansIdle, ModeIsWhole
<1>12. CASE EditPolicy
  BY <1>1, <1>2, <1>12
  DEF EditPolicy, ModesInv, ModesTypes, SkillsKnown, SettledMeansIdle, ModeIsWhole, AskedOf
<1>13. CASE UNCHANGED modesVars
  BY <1>1, <1>13
  DEF modesVars, ModesInv, ModesTypes, SkillsKnown, SettledMeansIdle, ModeIsWhole, AskedOf, FindsItsOwn,
      CurrentMode
<1>. QED
  BY <1>5, <1>6, <1>7, <1>8, <1>9, <1>10, <1>11, <1>12, <1>13 DEF ModesNext

(* Settings, credentials and modes survive their writers, for any keys,    *)
(* processes and skills and any number of writes that are cut              *)
(* (settings.js:206, credentials.js:127, modes.js:78).                     *)
THEOREM SettingsAlwaysHold == StoresSpec => SettingsHold
<1>1. StoresInit => SettingsInv /\ ModesInv
  BY SettingsInvInit, ModesInvInit DEF StoresInit
<1>2. SettingsInv /\ [StoresNext]_storeVars => SettingsInv'
  BY SettingsSteps, SettingsInvStep
<1>3. ModesInv /\ [StoresNext]_storeVars => ModesInv'
  BY ModesSteps, ModesInvStep
<1>4. SettingsInv /\ ModesInv => SavedCanBeLoaded /\ MetadataOfTheKey /\ EnabledAreInstalled /\ ModeIsWhole
  BY DEF SettingsInv, ModesInv, SkillsKnown, EnabledAreInstalled
<1>5. SettingsInv /\ [StoresNext]_storeVars
        => [replied' # replied /\ replied'.key \in Key /\ Valid(Merged)
              => \A k \in Key \ {replied'.key} : Merged'[k] = Merged[k]]_settingsVars
  BY SettingsSteps, SettingsInvStep
<1>6. SettingsInv /\ [StoresNext]_storeVars
        => [legacy # 0 /\ legacy' = 0 => secret' = legacy]_settingsVars
  BY SettingsSteps, SettingsInvStep
<1>. QED
  BY <1>1, <1>2, <1>3, <1>4, <1>5, <1>6, PTL DEF StoresSpec, SettingsHold, OthersAreKept, MigratedIsReadBack
-----------------------------------------------------------------------------
(* Updates *)

Trees == [version : 0 .. MaxVersion, deps : BOOLEAN]
Stages == {"idle", "unpack", "move away", "move in", "deps", "record", "off"}

UpdateTypes ==
  /\ running \subseteq Updater /\ feed \in 0 .. MaxVersion /\ cuts \in Nat
  /\ install \in Trees /\ unpacked \in Trees /\ backups \in [1 .. MaxVersion -> Trees]
  /\ proc \in [Updater -> [at : Stages, version : 1 .. MaxVersion, target : 0 .. MaxVersion]]

(* Who does not update stays as it is. *)
Bystanders == \A u \in Updater : u \notin running => proc[u].at = "idle"

(* A tree can be put back when it runs and is the one recorded. *)
CanBePutBack(tree) == Complete(tree) /\ (cuts = 0 => tree.version = updateFile)

(* Where the one updater u is, and which tree runs by then. *)
Updating(u) ==
  LET new == Tree(proc[u].target, FALSE)
      backup == backups[proc[u].version]
  IN /\ proc[u].at \notin {"idle", "off"} => proc[u].target # 0
     /\ proc[u].at \in {"idle", "unpack", "move away"} => CanBePutBack(install)
     /\ proc[u].at = "move away" => unpacked = new
     /\ proc[u].at = "move in" => install = NoTree /\ unpacked = new /\ CanBePutBack(backup)
     /\ proc[u].at = "deps" => install = new /\ CanBePutBack(backup)
     /\ proc[u].at = "record" => install = Tree(proc[u].target, TRUE)
     /\ proc[u].at = "off" => cuts # 0 /\ ATreeIsKept

UpdateInv == UpdateTypes /\ Bystanders /\ \A u \in Updater : running = {u} => Updating(u)

LEMMA UpdateInvInit == UpdateInit => UpdateInv
<1>. USE UpdateAssumption
<1>. SUFFICES ASSUME UpdateInit PROVE UpdateInv
  OBVIOUS
<1>1. Tree(1, TRUE) \in Trees /\ NoTree \in Trees /\ Complete(Tree(1, TRUE)) /\ Tree(1, TRUE).version = 1
  BY DEF Tree, Trees, NoTree, Complete
<1>2. 1 \in 1 .. MaxVersion /\ 0 \in 0 .. MaxVersion
  OBVIOUS
<1>3. running \subseteq Updater
  <2>1. CASE running = Updater
    BY <2>1
  <2>2. CASE running = {CHOOSE u \in Updater : TRUE}
    BY <2>2
  <2>. QED BY <2>1, <2>2 DEF UpdateInit
<1>4. UpdateTypes
  BY <1>1, <1>2, <1>3 DEF UpdateInit, UpdateTypes, Stages
<1>5. Bystanders /\ \A u \in Updater : Updating(u)
  BY <1>1 DEF UpdateInit, Bystanders, Updating, CanBePutBack
<1>. QED BY <1>4, <1>5 DEF UpdateInv

LEMMA UpdateInvStep == UpdateInv /\ [UpdateNext]_updateVars => UpdateInv'
<1>. USE UpdateAssumption
<1>. SUFFICES ASSUME UpdateInv, [UpdateNext]_updateVars PROVE UpdateInv'
  OBVIOUS
<1>. DEFINE ProcSet == [at : Stages, version : 1 .. MaxVersion, target : 0 .. MaxVersion]
<1>1. UpdateTypes /\ Bystanders /\ \A u \in Updater : running = {u} => Updating(u)
  BY DEF UpdateInv
<1>2. /\ NoTree \in Trees /\ NoTree.version = 0
      /\ \A n \in 0 .. MaxVersion, d \in BOOLEAN :
           /\ Tree(n, d) \in Trees /\ Tree(n, d).version = n /\ Tree(n, d).deps = d
           /\ n # 0 => Tree(n, d) # NoTree
  BY DEF Tree, Trees, NoTree
<1>3. /\ backups \in [1 .. MaxVersion -> Trees] /\ proc \in [Updater -> ProcSet] /\ install \in Trees
      /\ cuts \in Nat /\ MaxVersion \in Nat /\ 0 \in 0 .. MaxVersion
      /\ \A u \in Updater : proc[u].version \in 1 .. MaxVersion /\ proc[u].target \in 0 .. MaxVersion
                            /\ backups[proc[u].version] \in Trees
  BY <1>1 DEF UpdateTypes
<1>4. running' = running
  BY DEF UpdateNext, updateVars, Publish, BeginUpdate, Unpack, MoveAway, MoveIn, InstallDeps, RecordUpdate,
         CutOff, Restarted
<1>5. Complete(install) => ATreeIsKept
  BY DEF ATreeIsKept
<1>6. \A n \in 1 .. MaxVersion : Complete(backups[n]) => ATreeIsKept
  BY <1>3 DEF ATreeIsKept
(* what is left to show of a step of one process *)
<1>7. ASSUME NEW a \in Updater, proc[a].at # "idle" \/ a \in running,
             NEW p \in ProcSet, proc' = [proc EXCEPT ![a] = p],
             UpdateTypes', running = {a} => Updating(a)'
      PROVE  UpdateInv'
  <2>1. a \in running
    BY <1>1, <1>7 DEF Bystanders
  <2>2. Bystanders'
    BY <1>1, <1>3, <1>4, <1>7, <2>1 DEF Bystanders
  <2>3. ASSUME NEW u \in Updater, running' = {u} PROVE Updating(u)'
    <3>1. u = a
      BY <1>4, <2>1, <2>3
    <3>. QED BY <1>4, <1>7, <2>3, <3>1
  <2>. QED BY <1>7, <2>2, <2>3 DEF UpdateInv
<1>8. ASSUME Publish \/ UNCHANGED updateVars PROVE UpdateInv'
  <2>1. /\ feed' \in 0 .. MaxVersion
        /\ UNCHANGED <<running, install, backups, unpacked, updateFile, proc, updates, cuts>>
    BY <1>1, <1>8 DEF Publish, updateVars, UpdateTypes
  <2>2. UpdateTypes' /\ Bystanders'
    BY <1>1, <2>1 DEF UpdateTypes, Bystanders
  <2>3. ASSUME NEW u \in Updater, running' = {u} PROVE Updating(u)'
    BY <1>1, <2>1, <2>3 DEF Updating, CanBePutBack, ATreeIsKept, OneUpdater
  <2>. QED BY <2>2, <2>3 DEF UpdateInv
<1>9. ASSUME NEW a \in Updater, BeginUpdate(a) PROVE UpdateInv'
  <2>. DEFINE p == [proc[a] EXCEPT !.at = "unpack", !.target = feed]
  <2>1. /\ a \in running /\ proc[a].at = "idle" /\ feed # 0
        /\ proc' = [proc EXCEPT ![a] = p]
        /\ UNCHANGED <<running, feed, install, backups, unpacked, updateFile, cuts>>
    BY <1>9 DEF BeginUpdate, IsUpdateAvailable
  <2>2. p \in ProcSet /\ p.at = "unpack" /\ p.target = feed
    BY <1>1, <1>3 DEF UpdateTypes, Stages
  <2>. HIDE DEF p
  <2>3. UpdateTypes'
    BY <1>1, <2>1, <2>2 DEF UpdateTypes
  <2>4. ASSUME running = {a} PROVE Updating(a)'
    BY <1>1, <1>3, <2>1, <2>2, <2>4 DEF Updating, CanBePutBack
  <2>. QED BY <1>7, <2>1, <2>2, <2>3, <2>4
<1>10. ASSUME NEW a \in Updater, Unpack(a) PROVE UpdateInv'
  <2>1. proc[a].at = "unpack" /\ UNCHANGED <<running, feed, install, backups, updateFile, cuts>>
    BY <1>10 DEF Unpack
  <2>2. CASE MoveOn(a, "unpack", "move away") /\ unpacked' = Tree(proc[a].target, FALSE)
    <3>. DEFINE p == [proc[a] EXCEPT !.at = "move away"]
    <3>1. proc' = [proc EXCEPT ![a] = p]
      BY <2>2 DEF MoveOn
    <3>2. p \in ProcSet /\ p.at = "move away" /\ p.target = proc[a].target /\ p.version = proc[a].version
      BY <1>3 DEF Stages
    <3>. HIDE DEF p
    <3>3. UpdateTypes'
      BY <1>1, <1>2, <1>3, <2>1, <2>2, <3>1, <3>2 DEF UpdateTypes
    <3>4. ASSUME running = {a} PROVE Updating(a)'
      BY <1>1, <1>3, <2>1, <2>2, <3>1, <3>2, <3>4 DEF Updating, CanBePutBack
    <3>. QED BY <1>7, <2>1, <3>1, <3>2, <3>3, <3>4
  <2>3. CASE Abandon(a)
    <3>. DEFINE p == [proc[a] EXCEPT !.at = "idle", !.target = 0]
    <3>1. proc' = [proc EXCEPT ![a] = p] /\ unpacked' = NoTree
      BY <2>3 DEF Abandon
    <3>2. p \in ProcSet /\ p.at = "idle"
      BY <1>3 DEF Stages
    <3>. HIDE DEF p
    <3>3. UpdateTypes'
      BY <1>1, <1>2, <2>1, <3>1, <3>2 DEF UpdateTypes
    <3>4. ASSUME running = {a} PROVE Updating(a)'
      BY <1>1, <1>3, <2>1, <3>1, <3>2, <3>4 DEF Updating, CanBePutBack
    <3>. QED BY <1>7, <2>1, <3>1, <3>2, <3>3, <3>4
  <2>. QED BY <1>10, <2>2, <2>3 DEF Unpack
<1>11. ASSUME NEW a \in Updater, MoveAway(a) PROVE UpdateInv'
  <2>1. proc[a].at = "move away" /\ UNCHANGED <<running, feed, updateFile, cuts>>
    BY <1>11 DEF MoveAway, MoveOn
  <2>2. CASE install # NoTree
    <3>. DEFINE p == [proc[a] EXCEPT !.at = "move in"]
    <3>1. /\ proc' = [proc EXCEPT ![a] = p] /\ install' = NoTree /\ unpacked' = unpacked
          /\ backups' = [backups EXCEPT ![proc[a].version] = install]
      BY <1>11, <2>2 DEF MoveAway, MoveOn
    <3>2. p \in ProcSet /\ p.at = "move in" /\ p.target = proc[a].target /\ p.version = proc[a].version
      BY <1>3 DEF Stages
    <3>. HIDE DEF p
    <3>3. UpdateTypes'
      BY <1>1, <1>2, <1>3, <2>1, <3>1, <3>2 DEF UpdateTypes
    <3>4. ASSUME running = {a} PROVE Updating(a)'
      <4>1. proc[a].target # 0 /\ CanBePutBack(install) /\ unpacked = Tree(proc[a].target, FALSE)
        BY <1>1, <2>1, <3>4 DEF Updating
      <4>2. proc'[a] = p /\ backups'[proc[a].version] = install
        BY <1>3, <3>1
      <4>. QED BY <2>1, <3>1, <3>2, <4>1, <4>2 DEF Updating, CanBePutBack, Tree
    <3>. QED BY <1>7, <2>1, <3>1, <3>2, <3>3, <3>4
  <2>3. CASE install = NoTree
    <3>. DEFINE p == [proc[a] EXCEPT !.at = "idle", !.target = 0]
    <3>1. /\ proc' = [proc EXCEPT ![a] = p] /\ install' = install /\ unpacked' = NoTree
          /\ backups' = [backups EXCEPT ![proc[a].version] = NoTree]
      BY <1>11, <2>3 DEF MoveAway, Abandon
    <3>2. p \in ProcSet /\ p.at = "idle"
      BY <1>3 DEF Stages
    <3>. HIDE DEF p
    <3>3. UpdateTypes'
      BY <1>1, <1>2, <1>3, <2>1, <3>1, <3>2 DEF UpdateTypes
    <3>4. ASSUME running = {a} PROVE FALSE
      BY <1>1, <1>2, <2>1, <2>3, <3>4 DEF Updating, CanBePutBack, Complete
    <3>. QED BY <1>7, <2>1, <3>1, <3>2, <3>3, <3>4
  <2>. QED BY <2>2, <2>3
<1>12. ASSUME NEW a \in Updater, MoveIn(a) PROVE UpdateInv'
  <2>1. proc[a].at = "move in" /\ UNCHANGED <<running, feed, updateFile, cuts>>
    BY <1>12 DEF MoveIn
  <2>2. CASE unpacked # NoTree /\ install' = unpacked /\ unpacked' = NoTree
             /\ MoveOn(a, "move in", "deps") /\ UNCHANGED backups
    <3>. DEFINE p == [proc[a] EXCEPT !.at = "deps"]
    <3>1. proc' = [proc EXCEPT ![a] = p]
      BY <2>2 DEF MoveOn
    <3>2. p \in ProcSet /\ p.at = "deps" /\ p.target = proc[a].target /\ p.version = proc[a].version
      BY <1>3 DEF Stages
    <3>. HIDE DEF p
    <3>3. UpdateTypes'
      BY <1>1, <1>2, <1>3, <2>1, <2>2, <3>1, <3>2 DEF UpdateTypes
    <3>4. ASSUME running = {a} PROVE Updating(a)'
      <4>1. /\ proc[a].target # 0 /\ unpacked = Tree(proc[a].target, FALSE)
            /\ CanBePutBack(backups[proc[a].version])
        BY <1>1, <2>1, <3>4 DEF Updating
      <4>2. proc'[a] = p
        BY <1>3, <3>1
      <4>. QED BY <2>1, <2>2, <3>1, <3>2, <4>1, <4>2 DEF Updating, CanBePutBack, Tree
    <3>. QED BY <1>7, <2>1, <3>1, <3>2, <3>3, <3>4
  <2>3. CASE /\ install' = IF install = NoTree THEN backups[proc[a].version] ELSE install
             /\ backups' = [backups EXCEPT ![proc[a].version] = IF install = NoTree THEN NoTree ELSE @]
             /\ Abandon(a)
    <3>. DEFINE p == [proc[a] EXCEPT !.at = "idle", !.target = 0]
    <3>1. proc' = [proc EXCEPT ![a] = p] /\ unpacked' = NoTree
      BY <2>3 DEF Abandon
    <3>2. p \in ProcSet /\ p.at = "idle"
      BY <1>3 DEF Stages
    <3>. HIDE DEF p
    <3>3. install' \in Trees /\ backups' \in [1 .. MaxVersion -> Trees]
      BY <1>2, <1>3, <2>3
    <3>4. UpdateTypes'
      BY <1>1, <1>2, <1>3, <2>1, <3>1, <3>2, <3>3 DEF UpdateTypes
    <3>5. ASSUME running = {a} PROVE Updating(a)'
      <4>1. install = NoTree /\ CanBePutBack(backups[proc[a].version])
        BY <1>1, <2>1, <3>5 DEF Updating
      <4>2. proc'[a] = p /\ install' = backups[proc[a].version]
        BY <1>3, <2>3, <3>1, <4>1
      <4>. QED BY <2>1, <3>2, <4>1, <4>2 DEF Updating, CanBePutBack
    <3>. QED BY <1>7, <2>1, <3>1, <3>2, <3>4, <3>5
  <2>. QED BY <1>12, <2>2, <2>3 DEF MoveIn
<1>13. ASSUME NEW a \in Updater, InstallDeps(a) PROVE UpdateInv'
  <2>1. proc[a].at = "deps" /\ UNCHANGED <<running, feed, updateFile, cuts>>
    BY <1>13 DEF InstallDeps
  <2>2. CASE /\ install' = IF install = NoTree THEN NoTree ELSE [install EXCEPT !.deps = TRUE]
             /\ MoveOn(a, "deps", "record") /\ UNCHANGED <<backups, unpacked>>
    <3>. DEFINE p == [proc[a] EXCEPT !.at = "record"]
    <3>1. proc' = [proc EXCEPT ![a] = p]
      BY <2>2 DEF MoveOn
    <3>2. p \in ProcSet /\ p.at = "record" /\ p.target = proc[a].target /\ p.version = proc[a].version
      BY <1>3 DEF Stages
    <3>. HIDE DEF p
    <3>3. install' \in Trees
      BY <1>2, <1>3, <2>2 DEF Trees
    <3>4. UpdateTypes'
      BY <1>1, <1>2, <1>3, <2>1, <2>2, <3>1, <3>2, <3>3 DEF UpdateTypes
    <3>5. ASSUME running = {a} PROVE Updating(a)'
      <4>1. proc[a].target # 0 /\ install = Tree(proc[a].target, FALSE)
        BY <1>1, <2>1, <3>5 DEF Updating
      <4>2. proc'[a] = p
        BY <1>3, <3>1
      <4>3. install' = Tree(proc[a].target, TRUE)
        BY <1>2, <1>3, <2>2, <4>1 DEF Tree
      <4>. QED BY <2>1, <3>2, <4>1, <4>2, <4>3 DEF Updating, CanBePutBack, Tree
    <3>. QED BY <1>7, <2>1, <3>1, <3>2, <3>4, <3>5
  <2>3. CASE /\ install' = backups[proc[a].version]
             /\ backups' = [backups EXCEPT ![proc[a].version] = NoTree]
             /\ Abandon(a)
    <3>. DEFINE p == [proc[a] EXCEPT !.at = "idle", !.target = 0]
    <3>1. proc' = [proc EXCEPT ![a] = p] /\ unpacked' = NoTree
      BY <2>3 DEF Abandon
    <3>2. p \in ProcSet /\ p.at = "idle"
      BY <1>3 DEF Stages
    <3>. HIDE DEF p
    <3>3. UpdateTypes'
      BY <1>1, <1>2, <1>3, <2>1, <2>3, <3>1, <3>2 DEF UpdateTypes
    <3>4. ASSUME running = {a} PROVE Updating(a)'
      <4>1. CanBePutBack(backups[proc[a].version])
        BY <1>1, <2>1, <3>4 DEF Updating
      <4>2. proc'[a] = p
        BY <1>3, <3>1
      <4>. QED BY <2>1, <2>3, <3>2, <4>1, <4>2 DEF Updating, CanBePutBack
    <3>. QED BY <1>7, <2>1, <3>1, <3>2, <3>3, <3>4
  <2>. QED BY <1>13, <2>2, <2>3 DEF InstallDeps
<1>14. ASSUME NEW a \in Updater, RecordUpdate(a) PROVE UpdateInv'
  <2>. DEFINE p == [proc[a] EXCEPT !.at = "idle", !.target = 0]
  <2>1. /\ proc[a].at = "record" /\ UNCHANGED <<running, feed, install, cuts>>
        /\ proc' = [proc EXCEPT ![a] = p] /\ unpacked' = NoTree
        /\ backups' = [backups EXCEPT ![proc[a].version] = NoTree]
        /\ updateFile' = proc[a].target
    BY <1>14 DEF RecordUpdate, Abandon
  <2>2. p \in ProcSet /\ p.at = "idle"
    BY <1>3 DEF Stages
  <2>. HIDE DEF p
  <2>3. UpdateTypes'
    BY <1>1, <1>2, <1>3, <2>1, <2>2 DEF UpdateTypes
  <2>4. ASSUME running = {a} PROVE Updating(a)'
    <3>1. proc[a].target # 0 /\ install = Tree(proc[a].target, TRUE)
      BY <1>1, <2>1, <2>4 DEF Updating
    <3>2. proc'[a] = p
      BY <1>3, <2>1
    <3>3. CanBePutBack(install)'
      BY <2>1, <3>1 DEF CanBePutBack, Complete, Tree
    <3>. QED BY <2>2, <3>2, <3>3 DEF Updating
  <2>. QED BY <1>7, <2>1, <2>2, <2>3, <2>4
<1>15. ASSUME NEW a \in Updater, CutOff(a) PROVE UpdateInv'
  <2>. DEFINE p == [proc[a] EXCEPT !.at = "off", !.target = 0]
  <2>1. /\ proc[a].at # "idle" /\ cuts' = cuts + 1 /\ proc' = [proc EXCEPT ![a] = p]
        /\ UNCHANGED <<running, feed, install, backups, unpacked, updateFile>>
    BY <1>15 DEF CutOff
  <2>2. p \in ProcSet /\ p.at = "off"
    BY <1>3 DEF Stages
  <2>. HIDE DEF p
  <2>3. UpdateTypes'
    BY <1>1, <1>3, <2>1, <2>2 DEF UpdateTypes
  <2>4. ASSUME running = {a} PROVE Updating(a)'
    <3>1. Updating(a)
      BY <1>1, <2>4
    <3>2. ATreeIsKept
      <4>1. CASE proc[a].at \in {"unpack", "move away"}
        BY <1>5, <3>1, <4>1 DEF Updating, CanBePutBack
      <4>2. CASE proc[a].at \in {"move in", "deps"}
        BY <1>3, <1>6, <3>1, <4>2 DEF Updating, CanBePutBack
      <4>3. CASE proc[a].at = "record"
        BY <1>2, <1>3, <1>5, <3>1, <4>3 DEF Updating, Complete
      <4>4. CASE proc[a].at = "off"
        BY <3>1, <4>4 DEF Updating
      <4>. QED BY <1>1, <2>1, <4>1, <4>2, <4>3, <4>4 DEF UpdateTypes, Stages
    <3>3. ATreeIsKept' /\ cuts' # 0
      BY <1>3, <2>1, <3>2 DEF ATreeIsKept, OneUpdater
    <3>4. proc'[a] = p
      BY <1>3, <2>1
    <3>. QED BY <2>2, <3>3, <3>4 DEF Updating
  <2>. QED BY <1>7, <2>1, <2>2, <2>3, <2>4
<1>16. ASSUME NEW a \in Updater, Restarted(a) PROVE UpdateInv'
  <2>. DEFINE p == [at |-> "idle", version |-> install.version, target |-> 0]
  <2>1. /\ proc[a].at \in {"off", "idle"} /\ Complete(install) /\ proc' = [proc EXCEPT ![a] = p]
        /\ UNCHANGED <<running, feed, install, backups, unpacked, updateFile, cuts>>
    BY <1>16 DEF Restarted
  <2>2. p \in ProcSet /\ p.at = "idle"
    <3>1. install.version \in 1 .. MaxVersion
      BY <1>3, <2>1 DEF Complete, Trees
    <3>. QED BY <1>3, <3>1 DEF Stages
  <2>. HIDE DEF p
  <2>3. UpdateTypes'
    BY <1>1, <1>3, <2>1, <2>2 DEF UpdateTypes
  <2>4. Bystanders'
    BY <1>1, <1>3, <2>1, <2>2 DEF Bystanders
  <2>5. ASSUME NEW u \in Updater, running' = {u} PROVE Updating(u)'
    <3>1. Updating(u)
      BY <1>1, <2>1, <2>5
    <3>2. CASE u = a
      <4>1. proc'[u] = p
        BY <1>3, <2>1, <3>2
      <4>2. CanBePutBack(install)
        BY <2>1, <3>1, <3>2 DEF Updating, CanBePutBack
      <4>3. CanBePutBack(install)'
        BY <2>1, <4>2 DEF CanBePutBack
      <4>. QED BY <2>2, <4>1, <4>3 DEF Updating
    <3>3. CASE u # a
      <4>1. proc'[u] = proc[u]
        BY <1>3, <2>1, <3>3
      <4>2. ATreeIsKept' = ATreeIsKept
        BY <2>1 DEF ATreeIsKept, OneUpdater
      <4>. QED BY <2>1, <3>1, <4>1, <4>2 DEF Updating, CanBePutBack
    <3>. QED BY <3>2, <3>3
  <2>. QED BY <2>3, <2>4, <2>5 DEF UpdateInv
<1>. QED BY <1>8, <1>9, <1>10, <1>11, <1>12, <1>13, <1>14, <1>15, <1>16 DEF UpdateNext

LEMMA UpdateInvHolds == UpdateInv => UpdatesHold
<1>. USE UpdateAssumption
<1>. SUFFICES ASSUME UpdateInv, OneUpdater
              PROVE  UpdatesHold
  BY DEF UpdatesHold, AnUpdateLeavesATree, ATreeIsKept, RecordedIsInstalled
<1>1. UpdateTypes /\ Bystanders /\ \A u \in Updater : running = {u} => Updating(u)
  BY DEF UpdateInv
<1>2. PICK u : running = {u}
  <2>1. IsFiniteSet(running)
    BY <1>1, FS_Subset DEF UpdateTypes
  <2>. QED BY <2>1, FS_Singleton DEF OneUpdater
<1>3. u \in Updater /\ Updating(u)
  BY <1>1, <1>2 DEF UpdateTypes
<1>4. AnUpdateLeavesATree /\ RecordedIsInstalled
  BY <1>3 DEF AnUpdateLeavesATree, RecordedIsInstalled, NoneAtWork, Updating, CanBePutBack
<1>5. ATreeIsKept
  <2>1. proc[u].at \in Stages /\ proc[u].target \in 0 .. MaxVersion /\ proc[u].version \in DOMAIN backups
    BY <1>1, <1>3 DEF UpdateTypes
  <2>2. CASE proc[u].at \in {"idle", "unpack", "move away"}
    BY <1>3, <2>2 DEF Updating, CanBePutBack, ATreeIsKept
  <2>3. CASE proc[u].at \in {"move in", "deps"}
    BY <1>3, <2>1, <2>3 DEF Updating, CanBePutBack, ATreeIsKept
  <2>4. CASE proc[u].at = "record"
    BY <1>3, <2>1, <2>4 DEF Updating, ATreeIsKept, Complete, Tree
  <2>5. CASE proc[u].at = "off"
    BY <1>3, <2>5 DEF Updating
  <2>. QED BY <2>1, <2>2, <2>3, <2>4, <2>5 DEF Stages
<1>. QED BY <1>4, <1>5 DEF UpdatesHold

(* An update (update.js:174-196) leaves a program that runs: of one process *)
(* updating, wherever it is cut off and however often, the disk keeps a    *)
(* tree that runs, installed or in the backup; an update that is not cut   *)
(* off ends with it installed, and update.json records that one - also     *)
(* when the process is started again between two updates.                  *)
THEOREM UpdatesAlwaysHold == StoresSpec => []UpdatesHold
<1>1. StoresInit => UpdateInv
  BY UpdateInvInit DEF StoresInit
<1>2. UpdateInv /\ [StoresNext]_storeVars => UpdateInv'
  BY UpdateSteps, UpdateInvStep
<1>3. UpdateInv => UpdatesHold
  BY UpdateInvHolds
<1>. QED BY <1>1, <1>2, <1>3, PTL DEF StoresSpec
-----------------------------------------------------------------------------
(* The settings of a task *)

InForce(p) ==
  /\ shellAllow = ShellAllowOf(p)
  /\ offered = ToolsOf(p)
  /\ activeSkills = IF p.locked THEN {} ELSE p.skills

TaskInv ==
  /\ line \in Seq(Work) /\ (stage = "idle" <=> line = <<>>)
  /\ legacyRoots = {} /\ calls \in [Direct -> SUBSET {Base}]
  /\ line # <<>> => taskRoots = RootsOf(Head(line))
  /\ stage = "working" => InForce(Profile[Head(line)])

LEMMA TaskInvInit == TaskInit => TaskInv
BY DEF TaskInit, TaskInv

(* The next task is taken, with the folders of its own. *)
LEMMA TaskEndsFacts ==
  ASSUME TaskInv, NEW w, TaskEnds(w), line # <<>>
  PROVE  /\ line' \in Seq(Work) /\ (stage' = "idle" <=> line' = <<>>) /\ stage' # "working"
         /\ line' # <<>> => taskRoots' = RootsOf(Head(line'))
<1>1. Tail(line) \in Seq(Work) /\ line' = Tail(line)
  BY DEF TaskInv, TaskEnds
<1>2. CASE Tail(line) = <<>>
  BY <1>1, <1>2 DEF TaskEnds
<1>3. CASE Tail(line) # <<>>
  BY <1>1, <1>3 DEF TaskEnds
<1>. QED BY <1>2, <1>3

LEMMA TaskInvStep == TaskInv /\ [TaskNext]_settingVars => TaskInv'
<1>. SUFFICES ASSUME TaskInv, [TaskNext]_settingVars PROVE TaskInv'
  OBVIOUS
<1>1. ASSUME NEW w \in Work, TaskArrives(w) PROVE TaskInv'
  <2>1. /\ line' = Append(line, w) /\ UNCHANGED <<settings, legacyRoots, calls>>
        /\ line = <<>> => stage' = "begin" /\ taskRoots' = RootsOf(w)
        /\ line # <<>> => UNCHANGED <<stage, taskRoots>>
    BY <1>1 DEF TaskArrives
  <2>2. line' \in Seq(Work) /\ line' # <<>>
    BY <2>1 DEF TaskInv
  <2>3. Head(line') = IF line = <<>> THEN w ELSE Head(line)
    BY <2>1 DEF TaskInv
  <2>4. UNCHANGED <<shellAllow, offered, activeSkills>>
    BY <2>1 DEF settings
  <2>. QED BY <2>1, <2>2, <2>3, <2>4 DEF TaskInv, InForce, ShellAllowOf, ToolsOf
<1>2. ASSUME AnsweredAtOnce \/ SystemCommandEnds \/ TaskSucceeds \/ TaskFails PROVE TaskInv'
  <2>1. /\ TaskEnds(Head(line)) /\ line # <<>> /\ UNCHANGED <<legacyRoots, calls>>
    BY <1>2 DEF AnsweredAtOnce, SystemCommandEnds, TaskSucceeds, TaskFails, TaskInv
  <2>. QED BY <2>1, TaskEndsFacts DEF TaskInv
<1>3. ASSUME SetUp PROVE TaskInv'
  <2>1. line # <<>> /\ stage' = "working" /\ UNCHANGED <<line, legacyRoots, calls>>
    BY <1>3 DEF SetUp, SetAgentRoots, TaskInv
  <2>2. InForce(Profile[Head(line)])' /\ taskRoots' = RootsOf(Head(line))
    BY <1>3, <2>1 DEF SetUp, SetAgentRoots, InForce, ShellAllowOf, ToolsOf
  <2>. QED BY <2>1, <2>2 DEF TaskInv
<1>4. ASSUME NEW d \in Direct, CommandIsAnswered(d) \/ RunToolStarts(d) \/ RunToolEnds(d) PROVE TaskInv'
  <2>1. UNCHANGED <<line, stage, taskRoots, legacyRoots, shellAllow, offered, activeSkills>>
    BY <1>4 DEF CommandIsAnswered, RunToolStarts, RunToolEnds, settings
  <2>2. calls' \in [Direct -> SUBSET {Base}]
    BY <1>4 DEF CommandIsAnswered, RunToolStarts, RunToolEnds, ActiveRoots, TaskInv
  <2>. QED BY <2>1, <2>2 DEF TaskInv, InForce, ShellAllowOf, ToolsOf
<1>5. ASSUME UNCHANGED settingVars PROVE TaskInv'
  BY <1>5 DEF settingVars, TaskInv, InForce, ShellAllowOf, ToolsOf
<1>. QED BY <1>1, <1>2, <1>3, <1>4, <1>5 DEF TaskNext

LEMMA TaskInvHolds == TaskInv => TaskGetsItsOwn
<1>. SUFFICES ASSUME TaskInv PROVE TaskGetsItsOwn
  OBVIOUS
<1>1. DirectStaysInTheBase
  BY DEF TaskInv, DirectStaysInTheBase
<1>2. ASSUME stage = "working" PROVE NothingOfAnEarlierTask
  <2>. DEFINE w == Head(line)
              p == Profile[w]
  <2>1. w \in Work /\ InForce(p) /\ taskRoots = RootsOf(w)
    BY <1>2 DEF TaskInv
  <2>2. ProfileShape(p) /\ LockedTools # {}
    BY <2>1, TaskAssumption
  <2>3. ActiveRoots(taskRoots) \subseteq {Base, p.ws} \cup IF p.locked THEN {} ELSE p.paths
    BY <2>1 DEF RootsOf, ActiveRoots
  <2>. HIDE DEF p
  <2>4. /\ shellAllow \subseteq IF p.locked THEN {} ELSE p.allow
        /\ activeSkills \subseteq IF p.locked THEN {} ELSE p.skills
    BY <2>1 DEF InForce, ShellAllowOf
  <2>5. /\ p.locked => Offered \subseteq LockedTools
        /\ p.caps /\ ~p.locked /\ p.tools # {} => Offered = p.tools
        /\ ~p.caps => Offered = Offerable
    BY <2>1, <2>2 DEF InForce, ToolsOf, Offered, ProfileShape
  <2>. QED BY <2>3, <2>4, <2>5 DEF NothingOfAnEarlierTask, p
<1>. QED BY <1>1, <1>2 DEF TaskGetsItsOwn, NothingOfAnEarlierTask

(* While a task works (agent.js:712-768, :1050), what its shell may run    *)
(* besides the allowlist, its folders, its tools and its skills are those  *)
(* of its own profile, whatever tasks came before it and however they      *)
(* ended; a locked one has none; and the direct calls of the dashboard     *)
(* stay in the base workspace beside every task.                           *)
THEOREM TaskAlwaysGetsItsOwn == StoresSpec => []TaskGetsItsOwn
<1>1. StoresInit => TaskInv
  BY TaskInvInit DEF StoresInit
<1>2. TaskInv /\ [StoresNext]_storeVars => TaskInv'
  BY TaskSteps, TaskInvStep
<1>3. TaskInv => TaskGetsItsOwn
  BY TaskInvHolds
<1>. QED BY <1>1, <1>2, <1>3, PTL DEF StoresSpec
-----------------------------------------------------------------------------
(* The daemon and its pid file *)

GuardTypes == life \in [Anyone -> {"off", "checked", "up", "told"}] /\ pidFile \in Anyone \cup {""}

(* A daemon between its check and its file is alone. *)
CheckedIsAlone ==
  ruled => \A d, e \in Anyone : life[d] = "checked" => e \notin Up /\ (life[e] = "checked" => e = d)

GuardInv == GuardTypes /\ FileNamesTheDaemon /\ CheckedIsAlone

LEMMA GuardInvInit == GuardInit => GuardInv
BY DEF GuardInit, GuardInv, GuardTypes, FileNamesTheDaemon, CheckedIsAlone, Up

LEMMA GuardInvStep == GuardInv /\ [GuardNext]_guardVars => GuardInv'
<1>. USE GuardAssumption DEF Anyone
<1>. SUFFICES ASSUME GuardInv, [GuardNext]_guardVars PROVE GuardInv'
  OBVIOUS
<1>1. GuardTypes /\ FileNamesTheDaemon /\ CheckedIsAlone
  BY DEF GuardInv
<1>2. ASSUME NEW d \in Anyone, CheckPid(d) PROVE GuardInv'
  <2>1. /\ life' = [life EXCEPT ![d] = "checked"] /\ pidFile' = "" /\ ~PidAlive
        /\ ruled' = (ruled /\ \A e \in Anyone : life[e] # "checked")
    BY <1>2 DEF CheckPid, Lives0
  <2>2. GuardTypes'
    BY <1>1, <2>1 DEF GuardTypes
  <2>3. ASSUME ruled' PROVE \A e \in Anyone : life[e] \notin {"checked", "up", "told"}
    <3>1. ruled /\ \A e \in Anyone : life[e] # "checked"
      BY <2>1, <2>3
    <3>2. \A e \in Up : pidFile = e /\ life[e] # "off" /\ e # ""
      BY <1>1, <3>1 DEF FileNamesTheDaemon, Up
    <3>3. Up = {}
      BY <2>1, <3>2 DEF PidAlive
    <3>. QED BY <3>1, <3>3 DEF Up
  <2>4. FileNamesTheDaemon' /\ CheckedIsAlone'
    BY <1>1, <2>1, <2>3 DEF FileNamesTheDaemon, CheckedIsAlone, Up, GuardTypes
  <2>. QED BY <2>2, <2>4 DEF GuardInv
<1>3. ASSUME ForceStart \/ Uninstall PROVE GuardInv'
  BY <1>1, <1>3 DEF ForceStart, Uninstall, Lives0, GuardInv, GuardTypes, FileNamesTheDaemon, CheckedIsAlone
<1>4. ASSUME NEW d \in Anyone, WritePid(d) PROVE GuardInv'
  <2>1. life[d] = "checked" /\ life' = [life EXCEPT ![d] = "up"] /\ pidFile' = d /\ ruled' = ruled
    BY <1>4 DEF WritePid, Lives0
  <2>2. GuardTypes'
    BY <1>1, <2>1 DEF GuardTypes
  <2>3. ASSUME ruled' PROVE \A e \in Anyone : e # d => life'[e] \notin {"checked", "up", "told"}
    BY <1>1, <2>1, <2>3 DEF CheckedIsAlone, Up, GuardTypes
  <2>4. life'[d] = "up"
    BY <1>1, <2>1 DEF GuardTypes
  <2>5. FileNamesTheDaemon' /\ CheckedIsAlone'
    BY <2>1, <2>3, <2>4 DEF FileNamesTheDaemon, CheckedIsAlone, Up
  <2>. QED BY <2>2, <2>5 DEF GuardInv
<1>5. ASSUME StopRunning PROVE GuardInv'
  <2>1. pidFile \in Anyone /\ life[pidFile] = "up" /\ life' = [life EXCEPT ![pidFile] = "told"]
        /\ UNCHANGED <<pidFile, ruled>>
    BY <1>1, <1>5 DEF StopRunning, Lives0, PidAlive, GuardTypes
  <2>2. GuardTypes'
    BY <1>1, <2>1 DEF GuardTypes
  <2>3. Up' = Up /\ \A e \in Anyone : life'[e] = "checked" <=> life[e] = "checked"
    BY <1>1, <2>1 DEF GuardTypes, Up
  <2>. QED BY <1>1, <2>1, <2>2, <2>3 DEF GuardInv, FileNamesTheDaemon, CheckedIsAlone
<1>6. ASSUME NEW d \in Anyone, CloseDaemon(d) \/ Die(d) PROVE GuardInv'
  <2>1. /\ life' = [life EXCEPT ![d] = "off"] /\ ruled' = ruled
        /\ pidFile' = pidFile \/ (life[d] = "told" /\ pidFile' = "")
    BY <1>6 DEF CloseDaemon, Die, Lives0
  <2>2. GuardTypes'
    BY <1>1, <2>1 DEF GuardTypes
  <2>3. Up' = Up \ {d} /\ \A e \in Anyone : life'[e] = "checked" => life[e] = "checked"
    BY <1>1, <2>1 DEF GuardTypes, Up
  <2>4. FileNamesTheDaemon'
    BY <1>1, <2>1, <2>3 DEF FileNamesTheDaemon, Up
  <2>5. CheckedIsAlone'
    BY <1>1, <2>1, <2>3 DEF CheckedIsAlone
  <2>. QED BY <2>2, <2>4, <2>5 DEF GuardInv
<1>7. ASSUME UNCHANGED <<life, pidFile, ruled>> PROVE GuardInv'
  BY <1>1, <1>7 DEF GuardInv, GuardTypes, FileNamesTheDaemon, CheckedIsAlone, Up
<1>8. ASSUME Install \/ (\E d \in Anyone : Reuse(d)) \/ UNCHANGED guardVars
      PROVE  UNCHANGED <<life, pidFile, ruled>>
  BY <1>8 DEF Install, Reuse, guardVars
<1>. QED BY <1>2, <1>3, <1>4, <1>5, <1>6, <1>7, <1>8 DEF GuardNext
-----------------------------------------------------------------------------
(* Sessions *)

CallStages == {"idle", "write started", "write record", "read log", "write log", "write ended"}
EndStages == {"read log", "write log", "write ended"}

SessionTypes ==
  /\ started \in Nat /\ current \in 0 .. started /\ summaryLog \in Seq(Nat)
  /\ stateFile \in [id : 0 .. started, active : BOOLEAN]
  /\ told \in [open : 0 .. started, ended : SUBSET (0 .. started)]
  /\ step \in [Caller -> [at : CallStages, id : 0 .. started, log : Seq(Nat)]]

(* Only callers have calls in flight. *)
OthersAreIdle == \A c \in Caller : c \notin callers => At(c, "idle")

(* A call that ends a session writes the record first. *)
RecordComesFirst ==
  /\ EndedHasItsRecord
  /\ \A c \in Caller : step[c].at \in EndStages => step[c].id \in records

Opened(s) == [id |-> s, active |-> TRUE]

(* With one call at a time, state.json names the session that is open, and *)
(* the log ends with the one it calls ended.                               *)
FileIsTrue ==
  /\ 0 \notin told.ended
  /\ stateFile.active => stateFile.id \notin told.ended /\ stateFile.id # 0
  /\ ~stateFile.active /\ stateFile.id \in told.ended => Last(summaryLog) = stateFile.id
  /\ told.open # 0 => stateFile = Opened(told.open)

(* What is known of the one call in flight, by its step. *)
CallIsTrue(c) ==
  /\ At(c, "idle") => current = 0 \/ stateFile = Opened(current)
  /\ At(c, "write started") => current = step[c].id /\ step[c].id # 0 /\ step[c].id \notin told.ended
  /\ step[c].at \in {"write record", "read log", "write log", "write ended"}
       => step[c].id # 0 /\ stateFile = Opened(step[c].id)
  /\ At(c, "write ended") => current = 0 /\ Last(summaryLog) = step[c].id

NobodyCalls == callers \cap Caller = {} => current = 0

SessionInv ==
  /\ SessionTypes /\ OthersAreIdle /\ RecordComesFirst
  /\ OneCaller => FileIsTrue /\ NobodyCalls /\ \A c \in callers \cap Caller : CallIsTrue(c)

LEMMA SessionInvInit == SessionInit => SessionInv
<1>. SUFFICES ASSUME SessionInit PROVE SessionInv
  OBVIOUS
<1>1. NoStep \in [at : CallStages, id : 0 .. started, log : Seq(Nat)]
  BY DEF SessionInit, NoStep, CallStages
<1>2. SessionTypes
  BY <1>1 DEF SessionInit, SessionTypes, Nothing
<1>3. OthersAreIdle /\ RecordComesFirst
  BY DEF SessionInit, OthersAreIdle, RecordComesFirst, EndedHasItsRecord, At, NoStep, Nothing, EndStages
<1>4. FileIsTrue /\ NobodyCalls /\ \A c \in Caller : CallIsTrue(c)
  BY DEF SessionInit, FileIsTrue, NobodyCalls, CallIsTrue, At, NoStep, Nothing
<1>. QED BY <1>2, <1>3, <1>4 DEF SessionInv

(* The log that is written ends with the new entry. *)
LEMMA NewestFacts ==
  ASSUME NEW q \in Seq(Nat), NEW n \in Nat
  PROVE  Newest(Append(q, n)) \in Seq(Nat) /\ Last(Newest(Append(q, n))) = n
<1>. USE SessionAssumption
<1>. DEFINE full0 == Append(q, n)
<1>1. full0 \in Seq(Nat) /\ Len(full0) = Len(q) + 1 /\ full0[Len(full0)] = n /\ Len(full0) \in Nat
  OBVIOUS
<1>2. LogRoom \in Nat /\ LogRoom >= 1
  OBVIOUS
<1>. HIDE DEF full0
<1>3. CASE Len(full0) > LogRoom
  <2>. DEFINE m == Len(full0) - LogRoom + 1
              tail0 == SubSeq(full0, m, Len(full0))
  <2>1. m \in 1 .. Len(full0) /\ m \in Int /\ Len(full0) \in Int
    BY <1>1, <1>2, <1>3
  <2>. HIDE DEF m
  <2>2. \A i \in m .. Len(full0) : full0[i] \in Nat
    BY <1>1, <2>1
  <2>3. tail0 \in Seq(Nat) /\ Len(tail0) = Len(full0) - m + 1
        /\ \A i \in 1 .. Len(full0) - m + 1 : tail0[i] = full0[m + i - 1]
    BY <2>1, <2>2, SubSeqProperties
  <2>. HIDE DEF tail0
  <2>4. Last(tail0) = n
    <3>. DEFINE k == Len(tail0)
    <3>1. k \in 1 .. Len(full0) - m + 1 /\ m + k - 1 = Len(full0)
      BY <2>1, <2>3
    <3>. HIDE DEF k
    <3>2. tail0[k] = full0[m + k - 1]
      BY <2>3, <3>1
    <3>. QED BY <1>1, <3>1, <3>2 DEF Last, k
  <2>5. Newest(full0) = tail0
    BY <1>3 DEF Newest, tail0, m
  <2>. QED BY <2>3, <2>4, <2>5 DEF full0
<1>4. CASE ~(Len(full0) > LogRoom)
  BY <1>1, <1>4 DEF Newest, Last, full0
<1>. QED BY <1>3, <1>4

(* What is left to show of a step of one caller. *)
LEMMA OneStep ==
  ASSUME SessionInv, NEW c \in Caller, c \in callers, callers' = callers,
         NEW s, step' = [step EXCEPT ![c] = s], SessionTypes', RecordComesFirst',
         OneCaller => FileIsTrue' /\ CallIsTrue(c)'
  PROVE  SessionInv'
<1>1. SessionTypes /\ OthersAreIdle
  BY DEF SessionInv
<1>2. OthersAreIdle'
  BY <1>1 DEF SessionTypes, OthersAreIdle, At
<1>3. ASSUME OneCaller' PROVE FileIsTrue' /\ NobodyCalls' /\ \A e \in callers' \cap Caller : CallIsTrue(e)'
  BY <1>3 DEF OneCaller, NobodyCalls
<1>. QED BY <1>2, <1>3 DEF SessionInv

LEMMA SessionInvStep == SessionInv /\ [SessionNext]_sessionVars => SessionInv'
<1>. SUFFICES ASSUME SessionInv, [SessionNext]_sessionVars PROVE SessionInv'
  OBVIOUS
<1>. DEFINE Calls == [at : CallStages, id : 0 .. started, log : Seq(Nat)]
<1>1. /\ SessionTypes /\ OthersAreIdle /\ RecordComesFirst /\ started \in Nat /\ 0 \in 0 .. started
      /\ OneCaller => FileIsTrue /\ NobodyCalls /\ \A c \in callers \cap Caller : CallIsTrue(c)
  BY DEF SessionInv, SessionTypes
<1>2. /\ step \in [Caller -> Calls]
      /\ \A c \in Caller : step[c].at \in CallStages /\ step[c].id \in 0 .. started /\ step[c].log \in Seq(Nat)
  BY <1>1 DEF SessionTypes
<1>3. \A c \in Caller : ~At(c, "idle") => c \in callers
  BY <1>1 DEF OthersAreIdle
<1>4. NoStep \in Calls /\ NoStep.at = "idle" /\ NoStep.id = 0 /\ NoStep.log = <<>>
  BY <1>1 DEF NoStep, CallStages
<1>5. Active \in 0 .. started /\ (Active # 0 /\ current = 0 => stateFile = Opened(Active))
  BY <1>1 DEF SessionTypes, Active, Opened
<1>6. ASSUME NEW c \in Caller, BeginStart(c) PROVE SessionInv'
  <2>. DEFINE s == [NoStep EXCEPT !.at = "write started", !.id = started + 1]
  <2>1. /\ c \in callers /\ started' = started + 1 /\ current' = started + 1 /\ step' = [step EXCEPT ![c] = s]
        /\ UNCHANGED <<callers, stateFile, records, summaryLog, told>>
    BY <1>6 DEF BeginStart
  <2>2. s.at = "write started" /\ s.id = started + 1
    BY <1>4
  <2>3. s \in [at : CallStages, id : 0 .. started', log : Seq(Nat)] /\ 0 .. started \subseteq 0 .. started'
    <3>1. started + 1 \in 0 .. started' /\ 0 .. started \subseteq 0 .. started'
      BY <1>1, <2>1
    <3>2. NoStep \in [at : CallStages, id : 0 .. started', log : Seq(Nat)]
      BY <1>4, <3>1
    <3>. QED BY <3>1, <3>2 DEF CallStages
  <2>. HIDE DEF s
  <2>4. step' \in [Caller -> [at : CallStages, id : 0 .. started', log : Seq(Nat)]]
    BY <1>2, <2>1, <2>3
  <2>5. SessionTypes'
    BY <1>1, <2>1, <2>3, <2>4 DEF SessionTypes
  <2>6. RecordComesFirst'
    BY <1>1, <1>2, <2>1, <2>2 DEF RecordComesFirst, EndedHasItsRecord, EndStages
  <2>7. ASSUME OneCaller PROVE FileIsTrue' /\ CallIsTrue(c)'
    <3>1. started + 1 \notin told.ended
      BY <1>1 DEF SessionTypes
    <3>2. step'[c] = s
      BY <1>2, <2>1
    <3>3. FileIsTrue'
      BY <1>1, <2>1, <2>7 DEF FileIsTrue
    <3>4. started + 1 # 0
      BY <1>1
    <3>. QED BY <2>1, <2>2, <3>1, <3>2, <3>3, <3>4 DEF CallIsTrue, At
  <2>. QED BY <2>1, <2>5, <2>6, <2>7, OneStep
<1>7. ASSUME NEW c \in Caller, SaveStarted(c) PROVE SessionInv'
  <2>1. /\ step[c].at = "write started" /\ step' = [step EXCEPT ![c] = NoStep]
        /\ stateFile' = Opened(step[c].id) /\ told' = [told EXCEPT !.open = step[c].id]
        /\ UNCHANGED <<callers, current, records, summaryLog, started>>
    BY <1>7 DEF SaveStarted, At, Return, Opened
  <2>2. c \in callers
    BY <1>3, <2>1 DEF At
  <2>3. SessionTypes'
    <3>1. stateFile' \in [id : 0 .. started, active : BOOLEAN]
      BY <1>2, <2>1 DEF Opened
    <3>2. told' \in [open : 0 .. started, ended : SUBSET (0 .. started)]
      BY <1>1, <1>2, <2>1 DEF SessionTypes
    <3>. QED BY <1>1, <1>2, <1>4, <2>1, <3>1, <3>2 DEF SessionTypes
  <2>4. RecordComesFirst'
    BY <1>1, <1>2, <1>4, <2>1 DEF RecordComesFirst, EndedHasItsRecord, EndStages, Opened
  <2>5. ASSUME OneCaller PROVE FileIsTrue' /\ CallIsTrue(c)'
    <3>1. current = step[c].id /\ step[c].id # 0 /\ step[c].id \notin told.ended
      BY <1>1, <2>1, <2>2, <2>5 DEF CallIsTrue, At
    <3>2. told'.open = step[c].id /\ told'.ended = told.ended /\ 0 \notin told.ended
      BY <1>1, <2>1, <2>5 DEF SessionTypes, FileIsTrue
    <3>3. step'[c] = NoStep
      BY <1>2, <2>1
    <3>4. FileIsTrue'
      BY <2>1, <3>1, <3>2 DEF FileIsTrue, Opened
    <3>. QED BY <1>4, <2>1, <3>1, <3>3, <3>4 DEF CallIsTrue, At
  <2>. QED BY <2>1, <2>2, <2>3, <2>4, <2>5, OneStep
<1>8. ASSUME NEW c \in Caller, BeginEnd(c) PROVE SessionInv'
  <2>. DEFINE s == [NoStep EXCEPT !.at = "write record", !.id = Active]
  <2>1. /\ c \in callers /\ At(c, "idle") /\ Active # 0 /\ step' = [step EXCEPT ![c] = s]
        /\ UNCHANGED <<callers, current, stateFile, records, summaryLog, started, told>>
    BY <1>8 DEF BeginEnd
  <2>2. s.at = "write record" /\ s.id = Active
    BY <1>4
  <2>3. s \in Calls
    BY <1>4, <1>5 DEF CallStages
  <2>. HIDE DEF s
  <2>4. SessionTypes'
    BY <1>1, <1>2, <2>1, <2>3 DEF SessionTypes
  <2>5. RecordComesFirst'
    BY <1>1, <1>2, <2>1, <2>2 DEF RecordComesFirst, EndedHasItsRecord, EndStages
  <2>6. ASSUME OneCaller PROVE FileIsTrue' /\ CallIsTrue(c)'
    <3>1. step'[c] = s
      BY <1>2, <2>1
    <3>2. stateFile = Opened(Active)
      BY <1>1, <1>5, <2>1, <2>6 DEF CallIsTrue, Active
    <3>3. FileIsTrue'
      BY <1>1, <2>1, <2>6 DEF FileIsTrue
    <3>. QED BY <2>1, <2>2, <3>1, <3>2, <3>3 DEF CallIsTrue, At
  <2>. QED BY <2>1, <2>4, <2>5, <2>6, OneStep
<1>9. ASSUME NEW c \in Caller, WriteRecord(c) PROVE SessionInv'
  <2>. DEFINE s == [step[c] EXCEPT !.at = "read log"]
  <2>1. /\ step[c].at = "write record" /\ step' = [step EXCEPT ![c] = s]
        /\ records' = records \cup {step[c].id}
        /\ UNCHANGED <<callers, current, stateFile, summaryLog, started, told>>
    BY <1>9 DEF WriteRecord, At, StepTo
  <2>2. s \in Calls /\ s.at = "read log" /\ s.id = step[c].id
    BY <1>2 DEF CallStages
  <2>. HIDE DEF s
  <2>3. c \in callers
    BY <1>3, <2>1 DEF At
  <2>4. SessionTypes'
    BY <1>1, <1>2, <2>1, <2>2 DEF SessionTypes
  <2>5. RecordComesFirst'
    BY <1>1, <1>2, <2>1, <2>2 DEF RecordComesFirst, EndedHasItsRecord, EndStages
  <2>6. ASSUME OneCaller PROVE FileIsTrue' /\ CallIsTrue(c)'
    <3>1. step'[c] = s
      BY <1>2, <2>1
    <3>2. step[c].id # 0 /\ stateFile = Opened(step[c].id)
      BY <1>1, <2>1, <2>3, <2>6 DEF CallIsTrue
    <3>3. FileIsTrue'
      BY <1>1, <2>1, <2>6 DEF FileIsTrue
    <3>. QED BY <2>1, <2>2, <3>1, <3>2, <3>3 DEF CallIsTrue, At
  <2>. QED BY <2>1, <2>3, <2>4, <2>5, <2>6, OneStep
<1>10. ASSUME NEW c \in Caller, ReadLog(c) PROVE SessionInv'
  <2>. DEFINE s == [step[c] EXCEPT !.at = "write log", !.log = summaryLog]
  <2>1. /\ step[c].at = "read log" /\ step' = [step EXCEPT ![c] = s]
        /\ UNCHANGED <<callers, current, stateFile, records, summaryLog, started, told>>
    BY <1>10 DEF ReadLog, At
  <2>2. s \in Calls /\ s.at = "write log" /\ s.id = step[c].id
    BY <1>1, <1>2 DEF CallStages, SessionTypes
  <2>. HIDE DEF s
  <2>3. c \in callers
    BY <1>3, <2>1 DEF At
  <2>4. SessionTypes'
    BY <1>1, <1>2, <2>1, <2>2 DEF SessionTypes
  <2>5. RecordComesFirst'
    BY <1>1, <1>2, <2>1, <2>2 DEF RecordComesFirst, EndedHasItsRecord, EndStages
  <2>6. ASSUME OneCaller PROVE FileIsTrue' /\ CallIsTrue(c)'
    <3>1. step'[c] = s
      BY <1>2, <2>1
    <3>2. step[c].id # 0 /\ stateFile = Opened(step[c].id)
      BY <1>1, <2>1, <2>3, <2>6 DEF CallIsTrue
    <3>3. FileIsTrue'
      BY <1>1, <2>1, <2>6 DEF FileIsTrue
    <3>. QED BY <2>1, <2>2, <3>1, <3>2, <3>3 DEF CallIsTrue, At
  <2>. QED BY <2>1, <2>3, <2>4, <2>5, <2>6, OneStep
<1>11. ASSUME NEW c \in Caller, WriteLog(c) PROVE SessionInv'
  <2>. DEFINE s == [step[c] EXCEPT !.at = "write ended"]
  <2>1. /\ step[c].at = "write log" /\ step' = [step EXCEPT ![c] = s]
        /\ summaryLog' = Newest(Append(step[c].log, step[c].id)) /\ current' = 0
        /\ UNCHANGED <<callers, stateFile, records, started, told>>
    BY <1>11 DEF WriteLog, At, StepTo
  <2>2. s \in Calls /\ s.at = "write ended" /\ s.id = step[c].id
    BY <1>2 DEF CallStages
  <2>. HIDE DEF s
  <2>3. c \in callers
    BY <1>3, <2>1 DEF At
  <2>4. summaryLog' \in Seq(Nat) /\ Last(summaryLog') = step[c].id
    <3>1. step[c].id \in Nat /\ step[c].log \in Seq(Nat)
      BY <1>1, <1>2
    <3>. QED BY <2>1, <3>1, NewestFacts
  <2>5. SessionTypes'
    BY <1>1, <1>2, <2>1, <2>2, <2>4 DEF SessionTypes
  <2>6. RecordComesFirst'
    BY <1>1, <1>2, <2>1, <2>2 DEF RecordComesFirst, EndedHasItsRecord, EndStages
  <2>7. ASSUME OneCaller PROVE FileIsTrue' /\ CallIsTrue(c)'
    <3>1. step'[c] = s
      BY <1>2, <2>1
    <3>2. step[c].id # 0 /\ stateFile = Opened(step[c].id)
      BY <1>1, <2>1, <2>3, <2>7 DEF CallIsTrue
    <3>3. FileIsTrue'
      BY <1>1, <2>1, <2>7, <3>2 DEF FileIsTrue, Opened
    <3>. QED BY <2>1, <2>2, <2>4, <3>1, <3>2, <3>3 DEF CallIsTrue, At
  <2>. QED BY <2>1, <2>3, <2>5, <2>6, <2>7, OneStep
<1>12. ASSUME NEW c \in Caller, SaveEnded(c) PROVE SessionInv'
  <2>. DEFINE i == step[c].id
  <2>1. /\ step[c].at = "write ended" /\ step' = [step EXCEPT ![c] = NoStep]
        /\ stateFile' = [id |-> i, active |-> FALSE]
        /\ told' = [open |-> IF told.open = i THEN 0 ELSE told.open, ended |-> told.ended \cup {i}]
        /\ UNCHANGED <<callers, current, records, summaryLog, started>>
    BY <1>12 DEF SaveEnded, At, Return
  <2>2. c \in callers
    BY <1>3, <2>1 DEF At
  <2>3. i \in 0 .. started /\ i \in records
    BY <1>1, <1>2, <2>1 DEF RecordComesFirst, EndStages
  <2>4. SessionTypes'
    <3>1. stateFile' \in [id : 0 .. started, active : BOOLEAN]
      BY <2>1, <2>3
    <3>2. told' \in [open : 0 .. started, ended : SUBSET (0 .. started)]
      BY <1>1, <2>1, <2>3 DEF SessionTypes
    <3>. QED BY <1>1, <1>2, <1>4, <2>1, <3>1, <3>2 DEF SessionTypes
  <2>5. RecordComesFirst'
    BY <1>1, <1>2, <1>4, <2>1, <2>3 DEF RecordComesFirst, EndedHasItsRecord, EndStages
  <2>6. ASSUME OneCaller PROVE FileIsTrue' /\ CallIsTrue(c)'
    <3>1. i # 0 /\ stateFile = Opened(i) /\ current = 0 /\ Last(summaryLog) = i
      BY <1>1, <2>1, <2>2, <2>6 DEF CallIsTrue, At
    <3>2. told'.open = 0 /\ 0 \notin told'.ended
      BY <1>1, <2>1, <2>6, <3>1 DEF FileIsTrue, Opened
    <3>3. step'[c] = NoStep
      BY <1>2, <2>1
    <3>4. FileIsTrue'
      BY <2>1, <3>1, <3>2 DEF FileIsTrue
    <3>. QED BY <1>4, <2>1, <3>1, <3>3, <3>4 DEF CallIsTrue, At
  <2>. QED BY <2>1, <2>2, <2>4, <2>5, <2>6, OneStep
<1>13. ASSUME SessionCrash PROVE SessionInv'
  <2>1. /\ current' = 0 /\ step' = [c \in Caller |-> NoStep]
        /\ stateFile' = stateFile \/ stateFile' = Nothing
        /\ told' = [told EXCEPT !.open = IF stateFile' = stateFile THEN @ ELSE 0]
        /\ UNCHANGED <<callers, records, summaryLog, started>>
    BY <1>13 DEF SessionCrash
  <2>2. told'.ended = told.ended /\ told'.open = IF stateFile' = stateFile THEN told.open ELSE 0
    BY <1>1, <2>1 DEF SessionTypes
  <2>3. SessionTypes'
    <3>1. stateFile' \in [id : 0 .. started, active : BOOLEAN]
      <4>1. Nothing \in [id : 0 .. started, active : BOOLEAN]
        BY <1>1 DEF Nothing
      <4>. QED BY <1>1, <2>1, <4>1 DEF SessionTypes
    <3>2. told' \in [open : 0 .. started, ended : SUBSET (0 .. started)]
      BY <1>1, <2>1 DEF SessionTypes
    <3>. QED BY <1>1, <1>4, <2>1, <3>1, <3>2 DEF SessionTypes
  <2>4. OthersAreIdle' /\ RecordComesFirst'
    <3>1. \A c \in Caller : step'[c] = NoStep
      BY <2>1
    <3>2. EndedHasItsRecord'
      BY <1>1, <2>1 DEF RecordComesFirst, EndedHasItsRecord, Nothing
    <3>. QED BY <1>4, <3>1, <3>2 DEF OthersAreIdle, RecordComesFirst, EndStages, At
  <2>5. ASSUME OneCaller' PROVE FileIsTrue' /\ NobodyCalls' /\ \A c \in callers' \cap Caller : CallIsTrue(c)'
    <3>1. FileIsTrue
      BY <1>1, <2>1, <2>5 DEF OneCaller
    <3>2. FileIsTrue'
      BY <2>1, <2>2, <3>1 DEF FileIsTrue, Nothing
    <3>. QED BY <1>4, <2>1, <3>2 DEF NobodyCalls, CallIsTrue, At
  <2>. QED BY <2>3, <2>4, <2>5 DEF SessionInv
<1>14. ASSUME UNCHANGED sessionVars PROVE SessionInv'
  <2>1. UNCHANGED <<callers, current, stateFile, records, summaryLog, step, started, told>>
    BY <1>14 DEF sessionVars
  <2>. QED BY <1>1, <2>1 DEF SessionInv, SessionTypes, OthersAreIdle, RecordComesFirst, EndedHasItsRecord, At,
              OneCaller, FileIsTrue, NobodyCalls, CallIsTrue
<1>. QED BY <1>6, <1>7, <1>8, <1>9, <1>10, <1>11, <1>12, <1>13, <1>14 DEF SessionNext

LEMMA SessionInvHolds ==
  SessionInv => StartedCanBeEnded /\ EndedIsNotActive /\ EndedHasItsRecord /\ LogEndsWithTheLast
<1>. SUFFICES ASSUME SessionInv
              PROVE  StartedCanBeEnded /\ EndedIsNotActive /\ EndedHasItsRecord /\ LogEndsWithTheLast
  OBVIOUS
<1>1. EndedHasItsRecord
  BY DEF SessionInv, RecordComesFirst
<1>2. ASSUME OneCaller, Quiet
      PROVE  FileIsTrue /\ (told.open # 0 => Active = told.open) /\ Active \notin told.ended
  <2>1. FileIsTrue /\ NobodyCalls /\ \A c \in callers \cap Caller : CallIsTrue(c)
    BY <1>2 DEF SessionInv
  <2>2. current = 0 \/ stateFile = Opened(current)
    BY <1>2, <2>1 DEF Quiet, NobodyCalls, CallIsTrue
  <2>3. CASE current = 0
    BY <2>1, <2>3 DEF FileIsTrue, Active, Opened
  <2>4. CASE current # 0 /\ stateFile = Opened(current)
    BY <2>1, <2>4 DEF FileIsTrue, Active, Opened
  <2>. QED BY <2>1, <2>2, <2>3, <2>4
<1>3. StartedCanBeEnded /\ EndedIsNotActive
  BY <1>2 DEF StartedCanBeEnded, EndedIsNotActive
<1>4. LogEndsWithTheLast
  BY <1>2 DEF LogEndsWithTheLast, FileIsTrue
<1>. QED BY <1>1, <1>3, <1>4

(* What was started can be ended (session.js:129-187, daemon.js:10): with  *)
(* one call at a time the session that was answered to be open is the one  *)
(* that is ended, after a restart as well; an ended one is not active, has *)
(* its record and is the last of the log; and as long as no start is       *)
(* forced or overlaps another, the pid file names the daemon that runs.    *)
THEOREM LifetimesAlwaysHold == StoresSpec => []LifetimesHold
<1>1. StoresInit => SessionInv /\ GuardInv
  BY SessionInvInit, GuardInvInit DEF StoresInit
<1>2. SessionInv /\ GuardInv /\ [StoresNext]_storeVars => SessionInv' /\ GuardInv'
  BY SessionSteps, SessionInvStep, GuardSteps, GuardInvStep
<1>3. SessionInv /\ GuardInv => LifetimesHold
  BY SessionInvHolds DEF GuardInv, LifetimesHold
<1>. QED BY <1>1, <1>2, <1>3, PTL DEF StoresSpec
-----------------------------------------------------------------------------
(* Workspaces: the roots *)

(* Nothing of the state directory is reached from a path, the managed      *)
(* folders apart.                                                          *)
OutOfState(dir) ==
  IsInside(StateDir, dir) \/ IsInside(dir, StateDir) => IsInside(dir, ManagedBase)

RootsInv ==
  /\ links \in [Ws -> Places \cup {None0}]
  /\ \A w \in Ws : links[w] # None0 => OutOfState(links[w])

LEMMA RootsInvInit == RootsInit => RootsInv
BY DEF RootsInit, RootsInv

LEMMA RootsInvStep == RootsInv /\ [RootsNext]_rootVars => RootsInv'
<1>. SUFFICES ASSUME RootsInv, [RootsNext]_rootVars PROVE RootsInv'
  OBVIOUS
<1>1. /\ ReadLinks \in [Ws -> Places \cup {None0}]
      /\ \A w \in Ws : ReadLinks[w] # None0 => OutOfState(ReadLinks[w])
  BY DEF RootsInv, ReadLinks
<1>2. ASSUME NEW w \in Ws, NEW dir \in Places, Link(w, dir) PROVE RootsInv'
  <2>1. OutOfState(dir) /\ links' = [ReadLinks EXCEPT ![w] = dir]
    BY <1>2 DEF Link, WriteLinks, MayBeLinked, OutOfState
  <2>. QED BY <1>1, <2>1 DEF RootsInv
<1>3. ASSUME NEW w \in Ws, Unlink(w) PROVE RootsInv'
  <2>1. links' = [ReadLinks EXCEPT ![w] = None0]
    BY <1>3 DEF Unlink, WriteLinks
  <2>. QED BY <1>1, <2>1 DEF RootsInv
<1>4. ASSUME UNCHANGED links PROVE RootsInv'
  BY <1>4 DEF RootsInv
<1>5. ASSUME Damage \/ Sync \/ (\E w \in Ws : InitWorkspace(w)) \/ (\E dir \in Places : Mount(dir))
             \/ UNCHANGED rootVars
      PROVE  UNCHANGED links
  BY <1>5 DEF Damage, Sync, InitWorkspace, Mount, rootVars
<1>. QED BY <1>2, <1>3, <1>4, <1>5 DEF RootsNext

LEMMA RootsInvHolds == RootsInv => ReportedIsUsed /\ StateStaysOut
<1>. SUFFICES ASSUME RootsInv PROVE ReportedIsUsed /\ StateStaysOut
  OBVIOUS
<1>1. \A w \in Ws : OutOfState(ManagedRoot(w))
  <2>. SUFFICES ASSUME NEW w \in Ws PROVE OutOfState(ManagedRoot(w))
    OBVIOUS
  <2>. DEFINE U == STRING \cup {".workspaces"}
              n == Len(ManagedBase)
  <2>1. <<".workspaces", w>> \in Seq(U) /\ ManagedBase \in Seq(U)
    <3>1. ManagedBase \in Seq(STRING) /\ w \in U /\ ".workspaces" \in U
      BY RootsAssumption
    <3>2. ManagedBase \in [1 .. n -> STRING] /\ n \in Nat
      BY <3>1
    <3>3. ManagedBase \in [1 .. n -> U]
      BY <3>2
    <3>. HIDE DEF U, n
    <3>. QED BY <3>1, <3>2, <3>3, MappedSeq
  <2>. HIDE DEF U
  <2>2. IsPrefix(ManagedBase, ManagedBase \o <<".workspaces", w>>)
    BY <2>1, PrefixOfExtension
  <2>. QED BY <2>2 DEF OutOfState, IsInside, ManagedRoot
<1>2. \A w \in Ws : ReadLinks[w] # None0 => OutOfState(ReadLinks[w])
  BY DEF RootsInv, ReadLinks
<1>3. StateStaysOut
  <2>. SUFFICES ASSUME NEW w \in Ws PROVE OutOfState(Root(w, ""))
    BY DEF StateStaysOut, OutOfState
  <2>. QED BY <1>1, <1>2 DEF Root, Linked
<1>4. \A e \in Discovered : /\ e.id \in Ws
                            /\ e.root = IF ReadLinks[e.id] # None0 /\ ReadLinks[e.id] \in dirs
                                        THEN ReadLinks[e.id] ELSE ManagedRoot(e.id)
                            /\ e = [id |-> e.id, root |-> e.root]
  BY DEF Discovered
<1>5. ReportedIsUsed
  <2>1. \A e \in Discovered : e.root = Root(e.id, "")
    BY <1>4 DEF Root, Linked
  <2>2. \A e, f \in Discovered : e.id = f.id => e = f
    BY <1>4
  <2>. QED BY <2>1, <2>2 DEF ReportedIsUsed
<1>. QED BY <1>3, <1>5
-----------------------------------------------------------------------------
(* Workspaces: the previews *)

ServerGroups == [site : Site, leader : BOOLEAN, holder : BOOLEAN]
Waiting == viewOp.at = "wait for port"

PreviewTypes ==
  /\ group \in Seq(ServerGroups) /\ daemonCuts \in Nat
  /\ previewFile \in [Site -> 0 .. Len(group)]
  /\ answer \in [Site -> {"", "running", "failed", "starting", "stopped"}]
  /\ viewOp = NoView
     \/ (Waiting /\ viewOp.site \in Site /\ viewOp.group \in 1 .. Len(group))

(* A file names a group of its site, and so does the operation under way,  *)
(* which found none that lives in the file.                                *)
NamesAreOfTheSite ==
  /\ \A s \in Site : previewFile[s] # 0 => group[previewFile[s]].site = s
  /\ Waiting => group[viewOp.group].site = viewOp.site /\ ~IsAlive(previewFile[viewOp.site])

(* Every group that lives can be found: by the file of its site, or by the *)
(* operation that is about to write it.                                    *)
AliveIsKnown ==
  \A g \in Started0 :
    /\ group[g].holder => group[g].leader
    /\ group[g].leader => previewFile[group[g].site] = g \/ (Waiting /\ viewOp.group = g)

AnsweredIsStopped ==
  \A s \in Site : answer[s] = "stopped" /\ ~(Waiting /\ viewOp.site = s)
    => \A g \in Started0 : group[g].site = s => ~group[g].leader

PreviewInv == PreviewTypes /\ (Calm0 => NamesAreOfTheSite /\ AliveIsKnown /\ AnsweredIsStopped)

LEMMA NoOpDoesNotWait == viewOp = NoView => ~Waiting
<1>1. NoView.at = "idle"
  BY DEF NoView
<1>2. "idle" # "wait for port"
  OBVIOUS
<1>. QED BY <1>1, <1>2 DEF Waiting

LEMMA PreviewInvInit == PreviewInit => PreviewInv
<1>. SUFFICES ASSUME PreviewInit PROVE PreviewInv
  OBVIOUS
<1>1. group = <<>> /\ Started0 = {} /\ ~Waiting
  <2>1. group = <<>> /\ viewOp = NoView
    BY DEF PreviewInit
  <2>. QED BY <2>1, NoOpDoesNotWait DEF Started0
<1>2. PreviewTypes
  <2>1. group \in Seq(ServerGroups) /\ Len(group) = 0
    BY <1>1
  <2>2. previewFile \in [Site -> 0 .. Len(group)]
    <3>1. 0 \in 0 .. Len(group)
      BY <2>1
    <3>. QED BY <3>1 DEF PreviewInit
  <2>. QED BY <2>1, <2>2 DEF PreviewInit, PreviewTypes
<1>3. NamesAreOfTheSite /\ AliveIsKnown /\ AnsweredIsStopped
  BY <1>1 DEF PreviewInit, NamesAreOfTheSite, AliveIsKnown, AnsweredIsStopped
<1>. QED BY <1>2, <1>3 DEF PreviewInv

(* One group changes, or is added; its site stays. *)
LEMMA GroupChanges ==
  ASSUME group \in Seq(ServerGroups), NEW g \in Started0, NEW r \in ServerGroups, r.site = group[g].site,
         group' = [group EXCEPT ![g] = r]
  PROVE  /\ group' \in Seq(ServerGroups) /\ Len(group') = Len(group) /\ Started0' = Started0
         /\ \A h \in Started0 : /\ group'[h] = IF h = g THEN r ELSE group[h]
                                /\ group'[h].site = group[h].site
<1>1. Len(group) \in Nat /\ Started0 = 1 .. Len(group) /\ group \in [1 .. Len(group) -> ServerGroups]
  BY DEF Started0
<1>2. group' \in [1 .. Len(group) -> ServerGroups]
  BY <1>1
<1>3. group' \in Seq(ServerGroups) /\ Len(group') = Len(group) /\ DOMAIN group' = 1 .. Len(group)
  BY <1>1, <1>2, MappedSeq
<1>. QED BY <1>1, <1>3 DEF Started0

LEMMA GroupIsAdded ==
  ASSUME group \in Seq(ServerGroups), NEW r \in ServerGroups, group' = Append(group, r)
  PROVE  /\ group' \in Seq(ServerGroups) /\ Len(group') = Len(group) + 1
         /\ Started0 = 1 .. Len(group) /\ Len(group) \in Nat
         /\ Started0' = Started0 \cup {Len(group) + 1} /\ Len(group) + 1 \notin Started0
         /\ group'[Len(group) + 1] = r
         /\ \A h \in Started0 : group'[h] = group[h]
<1>1. Len(group) \in Nat /\ Started0 = 1 .. Len(group)
  BY DEF Started0
<1>2. /\ group' \in Seq(ServerGroups) /\ Len(group') = Len(group) + 1 /\ DOMAIN group' = 1 .. Len(group) + 1
      /\ group'[Len(group) + 1] = r /\ \A h \in 1 .. Len(group) : group'[h] = group[h]
  BY <1>1
<1>3. 1 .. Len(group) + 1 = (1 .. Len(group)) \cup {Len(group) + 1} /\ Len(group) + 1 \notin 1 .. Len(group)
  BY <1>1
<1>. QED BY <1>1, <1>2, <1>3 DEF Started0

(* A group comes up or dies: none comes to life. *)
LEMMA NoneRevives ==
  ASSUME PreviewInv, NEW g \in Started0, NEW r \in ServerGroups, r.site = group[g].site,
         group' = [group EXCEPT ![g] = r], r.leader => group[g].leader,
         Calm0 => (r.holder => r.leader),
         UNCHANGED <<previewFile, viewOp, answer, orderly, daemonCuts>>
  PROVE  PreviewInv'
<1>1. /\ group' \in Seq(ServerGroups) /\ Len(group') = Len(group) /\ Started0' = Started0
      /\ \A h \in Started0 : /\ group'[h] = IF h = g THEN r ELSE group[h]
                             /\ group'[h].site = group[h].site
  BY GroupChanges DEF PreviewInv, PreviewTypes
<1>2. PreviewTypes'
  BY <1>1 DEF PreviewInv, PreviewTypes, Waiting
<1>3. ASSUME Calm0' PROVE NamesAreOfTheSite' /\ AliveIsKnown' /\ AnsweredIsStopped'
  <2>1. Calm0 /\ NamesAreOfTheSite /\ AliveIsKnown /\ AnsweredIsStopped /\ PreviewTypes
    BY <1>3 DEF Calm0, PreviewInv
  <2>2. /\ \A s \in Site : previewFile[s] # 0 => previewFile[s] \in Started0
        /\ Waiting => viewOp.group \in Started0 /\ viewOp.site \in Site
    <3>1. Started0 = 1 .. Len(group) /\ Len(group) \in Nat
      <4>1. group \in Seq(ServerGroups)
        BY <2>1 DEF PreviewTypes
      <4>. QED BY <4>1 DEF Started0
    <3>2. ASSUME NEW s \in Site, previewFile[s] # 0 PROVE previewFile[s] \in Started0
      <4>1. previewFile[s] \in 0 .. Len(group)
        BY <2>1 DEF PreviewTypes
      <4>. QED BY <3>1, <3>2, <4>1
    <3>3. viewOp = NoView => ~Waiting
      BY NoOpDoesNotWait
    <3>. QED BY <2>1, <3>1, <3>2, <3>3 DEF PreviewTypes
  <2>3. \A h \in Started0 : group'[h].leader => group[h].leader
    BY <1>1
  <2>4. NamesAreOfTheSite'
    BY <1>1, <2>1, <2>2, <2>3 DEF NamesAreOfTheSite, IsAlive, Waiting
  <2>5. AliveIsKnown'
    <3>. SUFFICES ASSUME NEW h \in Started0
                  PROVE  /\ group'[h].holder => group'[h].leader
                         /\ group'[h].leader => previewFile[group[h].site] = h \/ (Waiting /\ viewOp.group = h)
      BY <1>1 DEF AliveIsKnown, Waiting
    <3>1. group[h].leader => previewFile[group[h].site] = h \/ (Waiting /\ viewOp.group = h)
      BY <2>1 DEF AliveIsKnown
    <3>2. group'[h].holder => group'[h].leader
      <4>1. CASE h = g
        BY <1>1, <2>1, <4>1
      <4>2. CASE h # g
        BY <1>1, <2>1, <4>2 DEF AliveIsKnown
      <4>. QED BY <4>1, <4>2
    <3>. QED BY <2>3, <3>1, <3>2
  <2>6. AnsweredIsStopped'
    <3>. SUFFICES ASSUME NEW t \in Site, answer[t] = "stopped",
                         ~(Waiting /\ viewOp.site = t), NEW h \in Started0, group'[h].site = t
                  PROVE  ~group'[h].leader
      BY <1>1 DEF AnsweredIsStopped, Waiting
    <3>1. group[h].site = t
      BY <1>1
    <3>2. ~group[h].leader
      BY <2>1, <3>1 DEF AnsweredIsStopped
    <3>. QED BY <2>3, <3>2
  <2>. QED BY <2>4, <2>5, <2>6
<1>. QED BY <1>2, <1>3 DEF PreviewInv

LEMMA PreviewInvStep == PreviewInv /\ [PreviewNext]_previewVars => PreviewInv'
<1>. SUFFICES ASSUME PreviewInv, [PreviewNext]_previewVars PROVE PreviewInv'
  OBVIOUS
<1>1. PreviewTypes /\ (Calm0 => NamesAreOfTheSite /\ AliveIsKnown /\ AnsweredIsStopped)
  BY DEF PreviewInv
<1>2. /\ group \in Seq(ServerGroups) /\ daemonCuts \in Nat /\ previewFile \in [Site -> 0 .. Len(group)]
      /\ answer \in [Site -> {"", "running", "failed", "starting", "stopped"}]
      /\ Waiting => viewOp.site \in Site /\ viewOp.group \in 1 .. Len(group)
  BY <1>1, NoOpDoesNotWait DEF PreviewTypes
<1>3. Started0 = 1 .. Len(group) /\ Len(group) \in Nat /\ \A g \in Started0 : group[g] \in ServerGroups
  <2>1. group \in Seq(ServerGroups)
    BY <1>2
  <2>. QED BY <2>1 DEF Started0
<1>4. \A s \in Site : previewFile[s] \in 0 .. Len(group) /\ (previewFile[s] # 0 => previewFile[s] \in Started0)
  <2>1. \A s \in Site : previewFile[s] \in 0 .. Len(group)
    BY <1>2
  <2>2. \A k \in 0 .. Len(group) : k # 0 => k \in Started0
    BY <1>3
  <2>. QED BY <2>1, <2>2
<1>5. ASSUME NEW s \in Site, PreviewStart(s) PROVE PreviewInv'
  <2>1. viewOp = NoView /\ ~Waiting /\ UNCHANGED <<previewFile, orderly, daemonCuts>>
    BY <1>5, NoOpDoesNotWait DEF PreviewStart
  <2>2. CASE IsAlive(previewFile[s])
    <3>1. viewOp' = NoView /\ answer' = [answer EXCEPT ![s] = "running"] /\ group' = group
      BY <1>5, <2>2 DEF PreviewStart, Finish0
    <3>2. PreviewTypes' /\ ~Waiting'
      BY <1>2, <2>1, <3>1 DEF PreviewTypes, Waiting
    <3>3. ASSUME Calm0' PROVE NamesAreOfTheSite' /\ AliveIsKnown' /\ AnsweredIsStopped'
      <4>1. NamesAreOfTheSite /\ AliveIsKnown /\ AnsweredIsStopped
        BY <1>1, <2>1, <3>3 DEF Calm0
      <4>2. NamesAreOfTheSite' /\ AliveIsKnown'
        BY <2>1, <3>1, <3>2, <4>1 DEF NamesAreOfTheSite, AliveIsKnown, Started0
      <4>3. AnsweredIsStopped'
        BY <1>2, <2>1, <3>1, <3>2, <4>1 DEF AnsweredIsStopped, Started0
      <4>. QED BY <4>2, <4>3
    <3>. QED BY <3>2, <3>3 DEF PreviewInv
  <2>3. CASE ~IsAlive(previewFile[s])
    <3>. DEFINE n == Len(group) + 1
                r == [site |-> s, leader |-> TRUE, holder |-> FALSE]
    <3>1. group' = Append(group, r) /\ viewOp' = [at |-> "wait for port", site |-> s, group |-> n]
          /\ answer' = answer
      BY <1>5, <2>3 DEF PreviewStart
    <3>2. r \in ServerGroups /\ r.site = s /\ ~r.holder
      BY DEF ServerGroups
    <3>3. Waiting' /\ viewOp'.site = s /\ viewOp'.group = n
      BY <3>1 DEF Waiting
    <3>. HIDE DEF n, r
    <3>4. /\ group' \in Seq(ServerGroups) /\ Len(group') = n /\ Started0' = Started0 \cup {n} /\ n \notin Started0
          /\ n \in 1 .. n /\ 0 .. Len(group) \subseteq 0 .. n
          /\ group'[n] = r /\ \A h \in Started0 : group'[h] = group[h]
      <4>1. /\ group' \in Seq(ServerGroups) /\ Len(group') = n /\ Started0' = Started0 \cup {n} /\ n \notin Started0
            /\ group'[n] = r /\ \A h \in Started0 : group'[h] = group[h]
        BY <1>2, <3>1, <3>2, GroupIsAdded DEF n
      <4>2. n \in 1 .. n /\ 0 .. Len(group) \subseteq 0 .. n
        BY <1>3 DEF n
      <4>. QED BY <4>1, <4>2
    <3>5. PreviewTypes'
      <4>1. previewFile \in [Site -> 0 .. n]
        BY <1>2, <3>4
      <4>. QED BY <1>2, <2>1, <3>1, <3>3, <3>4, <4>1 DEF PreviewTypes
    <3>6. ASSUME Calm0' PROVE NamesAreOfTheSite' /\ AliveIsKnown' /\ AnsweredIsStopped'
      <4>1. NamesAreOfTheSite /\ AliveIsKnown /\ AnsweredIsStopped
        BY <1>1, <2>1, <3>6 DEF Calm0
      <4>2. NamesAreOfTheSite'
        <5>1. \A t \in Site : previewFile[t] # 0 => group'[previewFile[t]].site = t
          BY <1>4, <3>4, <4>1 DEF NamesAreOfTheSite
        <5>2. ~IsAlive(previewFile[s])'
          BY <1>4, <2>1, <2>3, <3>4 DEF IsAlive
        <5>3. ~(previewFile'[s] # 0 /\ group'[previewFile'[s]].leader)
          BY <5>2 DEF IsAlive
        <5>. QED BY <2>1, <3>2, <3>3, <3>4, <5>1, <5>3 DEF NamesAreOfTheSite, IsAlive
      <4>3. AliveIsKnown'
        BY <2>1, <3>2, <3>3, <3>4, <4>1 DEF AliveIsKnown
      <4>4. AnsweredIsStopped'
        <5>. SUFFICES ASSUME NEW t \in Site, answer[t] = "stopped", t # s,
                             NEW h \in Started0', group'[h].site = t
                      PROVE  ~group'[h].leader
          BY <3>1, <3>3 DEF AnsweredIsStopped
        <5>1. h \in Started0
          BY <3>2, <3>4
        <5>. QED BY <2>1, <3>4, <4>1, <5>1 DEF AnsweredIsStopped
      <4>. QED BY <4>2, <4>3, <4>4
    <3>. QED BY <3>5, <3>6 DEF PreviewInv
  <2>. QED BY <2>2, <2>3
<1>6. ASSUME PortAnswers PROVE PreviewInv'
  <2>. DEFINE s == viewOp.site
              gone == ~Listening(s) /\ ~IsAlive(viewOp.group)
              said0 == IF Listening(s) THEN "running" ELSE IF gone THEN "failed" ELSE "starting"
              n == IF gone THEN 0 ELSE viewOp.group
  <2>1. /\ Waiting /\ previewFile' = [previewFile EXCEPT ![s] = n] /\ viewOp' = NoView
        /\ answer' = [answer EXCEPT ![s] = said0] /\ UNCHANGED <<group, orderly, daemonCuts>>
    BY <1>6 DEF PortAnswers, Finish0, Waiting
  <2>2. /\ s \in Site /\ viewOp.group \in 1 .. Len(group) /\ n \in 0 .. Len(group)
        /\ said0 \in {"running", "failed", "starting"} /\ n \in {0, viewOp.group}
        /\ IsAlive(viewOp.group) => n = viewOp.group
    <3>. HIDE DEF gone
    <3>1. s \in Site /\ viewOp.group \in 1 .. Len(group)
      BY <1>2, <2>1
    <3>2. n \in 0 .. Len(group) /\ n \in {0, viewOp.group}
      BY <1>3, <3>1
    <3>3. IsAlive(viewOp.group) => n = viewOp.group
      BY DEF gone
    <3>. QED BY <3>1, <3>2, <3>3
  <2>. HIDE DEF said0, n, s
  <2>3. ~Waiting'
    <3>1. NoView.at = "idle"
      BY DEF NoView
    <3>. QED BY <2>1, <3>1 DEF Waiting
  <2>4. PreviewTypes'
    BY <1>2, <2>1, <2>2 DEF PreviewTypes
  <2>5. ASSUME Calm0' PROVE NamesAreOfTheSite' /\ AliveIsKnown' /\ AnsweredIsStopped'
    <3>1. NamesAreOfTheSite /\ AliveIsKnown /\ AnsweredIsStopped
      BY <1>1, <2>1, <2>5 DEF Calm0
    <3>2. group[viewOp.group].site = s /\ ~IsAlive(previewFile[s])
      BY <2>1, <3>1 DEF NamesAreOfTheSite, s
    <3>3. NamesAreOfTheSite'
      BY <1>2, <2>1, <2>2, <2>3, <3>1, <3>2 DEF NamesAreOfTheSite
    <3>4. AliveIsKnown'
      <4>. SUFFICES ASSUME NEW g \in Started0
                    PROVE  /\ group[g].holder => group[g].leader
                           /\ group[g].leader => previewFile'[group[g].site] = g
        BY <2>1, <2>3 DEF AliveIsKnown, Started0
      <4>1. group[g].holder => group[g].leader
        BY <3>1 DEF AliveIsKnown
      <4>2. ASSUME group[g].leader PROVE previewFile'[group[g].site] = g
        <5>1. previewFile[group[g].site] = g \/ viewOp.group = g
          BY <3>1, <4>2 DEF AliveIsKnown
        <5>2. CASE viewOp.group = g
          <6>1. IsAlive(viewOp.group) /\ group[g].site = s
            BY <1>3, <3>2, <4>2, <5>2 DEF IsAlive
          <6>. QED BY <1>2, <2>1, <2>2, <5>2, <6>1
        <5>3. CASE previewFile[group[g].site] = g
          <6>1. group[g].site # s
            BY <1>3, <3>2, <4>2, <5>3 DEF IsAlive
          <6>2. group[g].site \in Site
            BY <1>3 DEF ServerGroups
          <6>. QED BY <1>2, <2>1, <5>3, <6>1, <6>2
        <5>. QED BY <5>1, <5>2, <5>3
      <4>. QED BY <4>1, <4>2
    <3>5. AnsweredIsStopped'
      <4>. SUFFICES ASSUME NEW t \in Site, answer'[t] = "stopped", NEW g \in Started0, group[g].site = t
                    PROVE  ~group[g].leader
        BY <2>1, <2>3 DEF AnsweredIsStopped, Started0
      <4>1. t # s /\ answer[t] = "stopped"
        BY <1>2, <2>1, <2>2
      <4>. QED BY <3>1, <4>1 DEF AnsweredIsStopped, s
    <3>. QED BY <3>3, <3>4, <3>5
  <2>. QED BY <2>4, <2>5 DEF PreviewInv
<1>7. ASSUME NEW s \in Site, PreviewStatus(s) PROVE PreviewInv'
  <2>1. /\ ~Waiting /\ viewOp' = NoView /\ UNCHANGED <<group, orderly, daemonCuts>>
        /\ \/ previewFile' = previewFile /\ answer' = [answer EXCEPT ![s] = "running"]
           \/ /\ ~IsAlive(previewFile[s]) /\ previewFile' = [previewFile EXCEPT ![s] = 0]
              /\ answer' = [answer EXCEPT ![s] = "stopped"]
    BY <1>7, NoOpDoesNotWait DEF PreviewStatus, Finish0
  <2>2. ~Waiting'
    <3>1. NoView.at = "idle"
      BY DEF NoView
    <3>. QED BY <2>1, <3>1 DEF Waiting
  <2>3. PreviewTypes'
    <3>1. previewFile' \in [Site -> 0 .. Len(group)]
      <4>1. 0 \in 0 .. Len(group)
        BY <1>3
      <4>. QED BY <1>2, <2>1, <4>1
    <3>2. answer' \in [Site -> {"", "running", "failed", "starting", "stopped"}]
      BY <1>2, <2>1
    <3>. QED BY <1>2, <2>1, <3>1, <3>2 DEF PreviewTypes
  <2>4. ASSUME Calm0' PROVE NamesAreOfTheSite' /\ AliveIsKnown' /\ AnsweredIsStopped'
    <3>1. NamesAreOfTheSite /\ AliveIsKnown /\ AnsweredIsStopped
      BY <1>1, <2>1, <2>4 DEF Calm0
    <3>2. NamesAreOfTheSite'
      BY <1>2, <2>1, <2>2, <3>1 DEF NamesAreOfTheSite
    <3>3. \A g \in Started0 : group[g].leader => previewFile[group[g].site] = g /\ IsAlive(g)
      BY <1>3, <2>1, <3>1 DEF AliveIsKnown, IsAlive
    <3>4. AliveIsKnown'
      <4>. SUFFICES ASSUME NEW g \in Started0, group[g].leader PROVE previewFile'[group[g].site] = g
        BY <2>1, <2>2, <3>1 DEF AliveIsKnown, Started0
      <4>1. group[g].site \in Site
        BY <1>3 DEF ServerGroups
      <4>. QED BY <1>2, <2>1, <3>3, <4>1
    <3>5. AnsweredIsStopped'
      <4>. SUFFICES ASSUME NEW t \in Site, answer'[t] = "stopped", NEW g \in Started0, group[g].site = t
                    PROVE  ~group[g].leader
        BY <2>1, <2>2 DEF AnsweredIsStopped, Started0
      <4>1. answer[t] = "stopped" \/ (t = s /\ ~IsAlive(previewFile[s]))
        BY <1>2, <2>1
      <4>. QED BY <2>1, <3>1, <3>3, <4>1 DEF AnsweredIsStopped
    <3>. QED BY <3>2, <3>4, <3>5
  <2>. QED BY <2>3, <2>4 DEF PreviewInv
<1>8. ASSUME NEW s \in Site, StopPreview(s) PROVE PreviewInv'
  <2>. DEFINE x == previewFile[s]
  <2>1. /\ ~Waiting /\ viewOp' = NoView /\ UNCHANGED <<orderly, daemonCuts>>
        /\ previewFile' = [previewFile EXCEPT ![s] = 0] /\ answer' = [answer EXCEPT ![s] = "stopped"]
    BY <1>8, NoOpDoesNotWait DEF StopPreview, Finish0
  <2>2. ~Waiting'
    <3>1. NoView.at = "idle"
      BY DEF NoView
    <3>. QED BY <2>1, <3>1 DEF Waiting
  <2>3. /\ group' \in Seq(ServerGroups) /\ Len(group') = Len(group) /\ Started0' = Started0
        /\ \A g \in Started0 :
             /\ group'[g].site = group[g].site /\ (g # x => group'[g] = group[g])
             /\ (g = x => ~group'[g].leader) /\ (Calm0 /\ group'[g].holder => group'[g].leader)
    <3>1. CASE IsAlive(x)
      <4>1. PICK left0 \in IF orderly THEN {FALSE} ELSE BOOLEAN :
              group' = [group EXCEPT ![x].leader = FALSE, ![x].holder = @ /\ left0]
        BY <1>8, <3>1 DEF StopPreview
      <4>. DEFINE r == [group[x] EXCEPT !.leader = FALSE, !.holder = @ /\ left0]
      <4>2. x \in Started0 /\ group[x] \in ServerGroups
        BY <1>3, <1>4, <3>1 DEF IsAlive
      <4>3. r \in ServerGroups /\ r.site = group[x].site /\ ~r.leader /\ (orderly => ~r.holder)
        BY <4>1, <4>2 DEF ServerGroups
      <4>4. group' = [group EXCEPT ![x] = r]
        BY <1>3, <4>1, <4>2
      <4>. HIDE DEF r, x
      <4>5. /\ group' \in Seq(ServerGroups) /\ Len(group') = Len(group) /\ Started0' = Started0
            /\ \A g \in Started0 : /\ group'[g] = IF g = x THEN r ELSE group[g]
                                   /\ group'[g].site = group[g].site
        BY <1>2, <4>2, <4>3, <4>4, GroupChanges
      <4>6. ASSUME Calm0, NEW g \in Started0, group'[g].holder PROVE group'[g].leader
        <5>1. g # x
          BY <4>3, <4>5, <4>6 DEF Calm0
        <5>. QED BY <1>1, <4>5, <4>6, <5>1 DEF AliveIsKnown
      <4>. QED BY <4>3, <4>5, <4>6
    <3>2. CASE ~IsAlive(x)
      <4>1. group' = group /\ Started0' = Started0
        BY <1>8, <3>2 DEF StopPreview, Started0
      <4>2. \A g \in Started0 : g = x => ~group[g].leader
        BY <1>3, <3>2 DEF IsAlive
      <4>3. Calm0 => \A g \in Started0 : group[g].holder => group[g].leader
        BY <1>1 DEF AliveIsKnown
      <4>. HIDE DEF x
      <4>. QED BY <1>2, <4>1, <4>2, <4>3
    <3>. QED BY <3>1, <3>2
  <2>4. PreviewTypes'
    <3>1. 0 \in 0 .. Len(group)
      BY <1>3
    <3>2. previewFile' \in [Site -> 0 .. Len(group)]
      BY <1>2, <2>1, <3>1
    <3>. QED BY <1>2, <2>1, <2>3, <3>2 DEF PreviewTypes
  <2>5. ASSUME Calm0' PROVE NamesAreOfTheSite' /\ AliveIsKnown' /\ AnsweredIsStopped'
    <3>1. Calm0 /\ NamesAreOfTheSite /\ AliveIsKnown /\ AnsweredIsStopped
      BY <1>1, <2>1, <2>5 DEF Calm0
    <3>2. NamesAreOfTheSite'
      BY <1>2, <1>4, <2>1, <2>2, <2>3, <3>1 DEF NamesAreOfTheSite
    <3>3. \A g \in Started0 : group'[g].leader => group[g].leader /\ previewFile[group[g].site] = g /\ g # x
      BY <2>1, <2>3, <3>1 DEF AliveIsKnown
    <3>4. \A g \in Started0 : group'[g].leader => group[g].site # s /\ group[g].site \in Site
      BY <1>3, <3>3 DEF ServerGroups
    <3>. HIDE DEF x
    <3>5. AliveIsKnown'
      <4>. SUFFICES ASSUME NEW g \in Started0
                    PROVE  /\ group'[g].holder => group'[g].leader
                           /\ group'[g].leader => previewFile'[group'[g].site] = g
        BY <2>2, <2>3 DEF AliveIsKnown
      <4>. QED BY <1>2, <2>1, <2>3, <3>1, <3>3, <3>4
    <3>6. AnsweredIsStopped'
      <4>. SUFFICES ASSUME NEW t \in Site, answer'[t] = "stopped", NEW g \in Started0, group'[g].site = t
                    PROVE  ~group'[g].leader
        BY <2>2, <2>3 DEF AnsweredIsStopped
      <4>1. t = s \/ answer[t] = "stopped"
        BY <1>2, <2>1
      <4>. QED BY <2>1, <2>3, <3>1, <3>3, <3>4, <4>1 DEF AnsweredIsStopped
    <3>. QED BY <3>2, <3>5, <3>6
  <2>. QED BY <2>4, <2>5 DEF PreviewInv
<1>9. ASSUME NEW g \in Started0, ComesUp(g) PROVE PreviewInv'
  <2>1. group[g].leader /\ ~group[g].holder /\ UNCHANGED <<previewFile, viewOp, answer, orderly, daemonCuts>>
    BY <1>9 DEF ComesUp
  <2>2. CASE group' = [group EXCEPT ![g].leader = FALSE]
    <3>. DEFINE r == [group[g] EXCEPT !.leader = FALSE]
    <3>1. r \in ServerGroups /\ r.site = group[g].site /\ ~r.leader /\ ~r.holder
      BY <1>3, <2>1 DEF ServerGroups
    <3>2. group' = [group EXCEPT ![g] = r]
      BY <2>2
    <3>. HIDE DEF r
    <3>. QED BY <2>1, <3>1, <3>2, NoneRevives
  <2>3. CASE group' = [group EXCEPT ![g].holder = TRUE]
    <3>. DEFINE r == [group[g] EXCEPT !.holder = TRUE]
    <3>1. r \in ServerGroups /\ r.site = group[g].site /\ r.leader
      BY <1>3, <2>1 DEF ServerGroups
    <3>2. group' = [group EXCEPT ![g] = r]
      BY <2>3
    <3>. HIDE DEF r
    <3>. QED BY <2>1, <3>1, <3>2, NoneRevives
  <2>. QED BY <1>9, <2>2, <2>3 DEF ComesUp
<1>10. ASSUME NEW g \in Started0, Ends(g) PROVE PreviewInv'
  <2>1. PICK left0 \in IF orderly THEN {FALSE} ELSE BOOLEAN :
          group' = [group EXCEPT ![g].leader = FALSE, ![g].holder = @ /\ left0]
    BY <1>10 DEF Ends
  <2>2. UNCHANGED <<previewFile, viewOp, answer, orderly, daemonCuts>>
    BY <1>10 DEF Ends
  <2>. DEFINE r == [group[g] EXCEPT !.leader = FALSE, !.holder = @ /\ left0]
  <2>3. r \in ServerGroups /\ r.site = group[g].site /\ ~r.leader /\ (orderly => ~r.holder)
    BY <1>3, <2>1 DEF ServerGroups
  <2>4. group' = [group EXCEPT ![g] = r]
    BY <1>3, <2>1
  <2>. HIDE DEF r
  <2>5. Calm0 => (r.holder => r.leader)
    BY <2>3 DEF Calm0
  <2>. QED BY <2>2, <2>3, <2>4, <2>5, NoneRevives
<1>11. ASSUME DaemonKilled PROVE PreviewInv'
  <2>1. daemonCuts' = daemonCuts + 1 /\ viewOp' = NoView /\ UNCHANGED <<group, previewFile, answer>>
    BY <1>11 DEF DaemonKilled
  <2>2. daemonCuts' \in Nat /\ daemonCuts' # 0
    <3>1. daemonCuts \in Nat
      BY <1>2
    <3>2. daemonCuts' = daemonCuts + 1
      BY <2>1
    <3>. QED BY <3>1, <3>2
  <2>3. ~Calm0'
    BY <2>2 DEF Calm0
  <2>4. PreviewTypes'
    BY <1>2, <2>1, <2>2 DEF PreviewTypes
  <2>. QED BY <2>3, <2>4 DEF PreviewInv
<1>12. ASSUME UNCHANGED previewVars PROVE PreviewInv'
  BY <1>1, <1>12 DEF previewVars, PreviewInv, PreviewTypes, Calm0, NamesAreOfTheSite, AliveIsKnown,
     AnsweredIsStopped, Waiting, IsAlive, Started0
<1>. QED BY <1>5, <1>6, <1>7, <1>8, <1>9, <1>10, <1>11, <1>12 DEF PreviewNext

LEMMA PreviewInvHolds == PreviewInv => StoppedIsStopped /\ OneServerOfASite
<1>. SUFFICES ASSUME PreviewInv, Calm0 PROVE StoppedIsStopped /\ OneServerOfASite
  BY DEF StoppedIsStopped, OneServerOfASite
<1>1. NamesAreOfTheSite /\ AliveIsKnown /\ AnsweredIsStopped
  BY DEF PreviewInv
<1>2. \A g \in Started0 : Lives(g) => group[g].leader
  BY <1>1 DEF AliveIsKnown, Lives
<1>3. StoppedIsStopped
  BY <1>1, <1>2 DEF StoppedIsStopped, AnsweredIsStopped
<1>4. \A g \in Started0 : g # 0
  <2>1. group \in Seq(ServerGroups)
    BY DEF PreviewInv, PreviewTypes
  <2>. QED BY <2>1 DEF Started0
<1>5. ASSUME NEW g \in Started0, NEW h \in Started0, Lives(g), Lives(h), group[g].site = group[h].site
      PROVE  g = h
  <2>1. \A k \in {g, h} : group[k].leader /\ (previewFile[group[k].site] = k \/ (Waiting /\ viewOp.group = k))
    BY <1>1, <1>2, <1>5 DEF AliveIsKnown
  <2>2. \A k, m \in {g, h} : ~(previewFile[group[k].site] = k /\ Waiting /\ viewOp.group = m)
    <3>. SUFFICES ASSUME NEW k \in {g, h}, NEW m \in {g, h}, previewFile[group[k].site] = k,
                         Waiting, viewOp.group = m
                  PROVE  FALSE
      OBVIOUS
    <3>1. group[k].site = viewOp.site /\ ~IsAlive(k)
      BY <1>1, <1>5 DEF NamesAreOfTheSite
    <3>2. k # 0
      BY <1>4
    <3>. QED BY <2>1, <3>1, <3>2 DEF IsAlive
  <2>. QED BY <1>5, <2>1, <2>2
<1>. QED BY <1>3, <1>5 DEF OneServerOfASite

(* A workspace is one folder and one preview (workspace-links.js:80,       *)
(* workspace-ops.js:112-147): whatever is linked, mounted and damaged,     *)
(* what is reported is where the tasks work, and none of them reaches the  *)
(* state directory; and while servers die as a whole and the daemon is not *)
(* killed in between, a preview answered to be stopped is stopped, and     *)
(* there is one of a workspace at a time - also when it was started anew   *)
(* while the last one was slow to come up.                                 *)
THEOREM WorkspacesAlwaysHold == StoresSpec => []WorkspacesHold
<1>1. StoresInit => RootsInv /\ PreviewInv
  BY RootsInvInit, PreviewInvInit DEF StoresInit
<1>2. RootsInv /\ PreviewInv /\ [StoresNext]_storeVars => RootsInv' /\ PreviewInv'
  BY RootsSteps, RootsInvStep, PreviewSteps, PreviewInvStep
<1>3. RootsInv /\ PreviewInv => WorkspacesHold
  BY RootsInvHolds, PreviewInvHolds DEF WorkspacesHold
<1>. QED BY <1>1, <1>2, <1>3, PTL DEF StoresSpec
-----------------------------------------------------------------------------
(* The files of a workspace *)

AnyContent == [id : Nat \ {0}, whole : BOOLEAN] \cup {Absent}
OpStages == {"idle", "check", "patch", "write", "rename", "copy", "trash", "restore", "move", "report"}
OpOutcomes == {"failed", "conflict", "succeeded"}
OpRuns == [op : Op \cup {""}, at : OpStages, kind : Kinds \cup {""}, path : Path \cup {""}, to : Path \cup {""},
           expect : Nat, base : AnyContent, outcome : OpOutcomes \cup {""}]

FilesTypes ==
  /\ fresh \in Nat /\ disk \in [Path -> AnyContent] /\ trash \subseteq AnyContent
  /\ opRun \in OpRuns /\ (opRun.at # "idle" => opRun.path \in Path /\ opRun.to \in Path)

(* An operation that is listed was not executed, and a claimed one once. *)
ListedIsNotRun ==
  /\ opState \in [Op -> {"listed", "claimed", ""} \cup OpOutcomes] /\ runs \in [Op -> {0, 1}]
  /\ \A o \in Op : opState[o] = "listed" => runs[o] = 0

(* What the check found still stands, or the file was written since. *)
CheckedStands ==
  LET c == disk[opRun.path]
  IN /\ opRun.at = "patch" => opRun.expect <= fresh
     /\ opRun.at = "check" /\ opRun.kind = "patch"
          => opRun.expect # 0 /\ (opRun.base.id = opRun.expect \/ (opRun.expect <= fresh /\ c.id # opRun.expect))
     /\ opRun.at = "write" => /\ opRun.expect # 0 => c.id = opRun.expect \/ raced
                              /\ opRun.kind = "patch" => c.id = opRun.base.id \/ raced
     /\ opRun.at = "move" => c = Absent \/ raced

FilesInv == FilesTypes /\ ListedIsNotRun /\ CheckedStands

LEMMA FilesInvInit == FilesInit => FilesInv
<1>. SUFFICES ASSUME FilesInit PROVE FilesInv
  OBVIOUS
<1>1. NoRun \in OpRuns /\ NoRun.at = "idle"
  BY DEF NoRun, OpRuns, OpStages, AnyContent
<1>2. FilesTypes
  BY <1>1 DEF FilesInit, FilesTypes, AnyContent
<1>3. ListedIsNotRun /\ CheckedStands
  BY <1>1 DEF FilesInit, ListedIsNotRun, CheckedStands
<1>. QED BY <1>2, <1>3 DEF FilesInv

LEMMA ContentFacts ==
  /\ Absent \in AnyContent /\ Absent.id = 0
  /\ \A c \in AnyContent : c.id \in Nat /\ (c.id = 0 <=> c = Absent)
  /\ \A n \in Nat, b \in BOOLEAN : [id |-> n + 1, whole |-> b] \in AnyContent
BY DEF AnyContent, Absent

(* The operation gets its answer: nothing is left to stand. *)
LEMMA AnswerFacts ==
  ASSUME FilesTypes, NEW said0 \in OpOutcomes, OpAnswer(said0), opRun.at # "idle"
  PROVE  /\ opRun' \in OpRuns /\ opRun'.at = "report" /\ opRun'.path \in Path /\ opRun'.to \in Path
         /\ CheckedStands'
<1>1. /\ opRun' = [opRun EXCEPT !.at = "report", !.outcome = said0] /\ opRun \in OpRuns
      /\ opRun.path \in Path /\ opRun.to \in Path
  BY DEF OpAnswer, FilesTypes
<1>2. opRun' \in OpRuns /\ opRun'.at = "report" /\ opRun'.path = opRun.path /\ opRun'.to = opRun.to
  BY <1>1 DEF OpRuns, OpStages
<1>. QED BY <1>1, <1>2 DEF CheckedStands

LEMMA NoRunFacts ==
  ASSUME opRun' = NoRun
  PROVE  opRun' \in OpRuns /\ opRun'.at = "idle" /\ CheckedStands'
<1>1. NoRun \in OpRuns /\ NoRun.at = "idle"
  BY DEF NoRun, OpRuns, OpStages, AnyContent
<1>. QED BY <1>1 DEF CheckedStands

(* An operation begins: what it must not overwrite is looked at later. *)
LEMMA BeginFacts ==
  ASSUME FilesTypes, ListedIsNotRun, NEW o \in Op, Started(o), opState[o] = "listed",
         opState' = [opState EXCEPT ![o] = "claimed"], UNCHANGED <<disk, trash, fresh>>
  PROVE  FilesTypes' /\ ListedIsNotRun' /\ CheckedStands'
<1>1. PICK k \in Kinds, p \in Path, q \in Path, h \in 0 .. fresh :
        /\ k = "rename" \/ k = "copy" \/ q = p
        /\ k \in {"write", "patch"} \/ h = 0
        /\ opRun' = [NoRun EXCEPT !.op = o, !.at = IF k = "write" THEN "check" ELSE k,
                                  !.kind = k, !.path = p, !.to = q, !.expect = h]
  BY Zenon DEF Started
<1>2. NoRun \in OpRuns
  BY DEF NoRun, OpRuns, OpStages, AnyContent
<1>3. k = "write" \/ k \in OpStages
  BY DEF Kinds, OpStages
<1>4. fresh \in Nat /\ h \in Nat /\ h <= fresh
  BY DEF FilesTypes
<1>5. /\ opRun' \in OpRuns
      /\ opRun'.at = (IF k = "write" THEN "check" ELSE k) /\ opRun'.kind = k
      /\ opRun'.path = p /\ opRun'.to = q /\ opRun'.expect = h
  <2>. DEFINE firstStep == IF k = "write" THEN "check" ELSE k
  <2>1. opRun' = [op |-> o, at |-> firstStep, kind |-> k, path |-> p, to |-> q, expect |-> h,
                  base |-> Absent, outcome |-> ""]
    BY <1>1 DEF NoRun
  <2>2. firstStep \in OpStages
    BY <1>3 DEF OpStages
  <2>3. Absent \in AnyContent
    BY DEF AnyContent
  <2>. HIDE DEF firstStep
  <2>4. opRun' \in OpRuns
    BY <1>4, <2>1, <2>2, <2>3 DEF OpRuns, OpOutcomes
  <2>5. opRun'.at = firstStep /\ opRun'.kind = k /\ opRun'.path = p /\ opRun'.to = q /\ opRun'.expect = h
    BY <2>1
  <2>. QED BY <2>4, <2>5 DEF firstStep
<1>6. FilesTypes'
  BY <1>5 DEF FilesTypes
<1>7. CheckedStands'
  BY <1>4, <1>5 DEF CheckedStands, Kinds
<1>8. ListedIsNotRun'
  <2>1. runs' = [runs EXCEPT ![o] = @ + 1]
    BY DEF Started
  <2>2. runs[o] = 0 /\ runs \in [Op -> {0, 1}]
    BY DEF ListedIsNotRun
  <2>3. runs' = [runs EXCEPT ![o] = 1]
    BY <2>1, <2>2
  <2>4. runs' \in [Op -> {0, 1}] /\ \A p0 \in Op : p0 # o => runs'[p0] = runs[p0]
    BY <2>2, <2>3
  <2>5. opState' \in [Op -> {"listed", "claimed", ""} \cup OpOutcomes]
    BY DEF ListedIsNotRun
  <2>6. \A p0 \in Op : opState'[p0] = "listed" => p0 # o /\ opState[p0] = "listed"
    BY DEF ListedIsNotRun
  <2>. QED BY <2>4, <2>5, <2>6 DEF ListedIsNotRun
<1>. QED BY <1>6, <1>7, <1>8

LEMMA FilesInvStep == FilesInv /\ [FilesNext]_fileVars => FilesInv'
<1>. SUFFICES ASSUME FilesInv, [FilesNext]_fileVars PROVE FilesInv'
  OBVIOUS
<1>1. FilesTypes /\ ListedIsNotRun /\ CheckedStands
  BY DEF FilesInv
<1>2. /\ fresh \in Nat /\ disk \in [Path -> AnyContent] /\ trash \subseteq AnyContent /\ opRun \in OpRuns
      /\ opRun.expect \in Nat /\ opRun.base \in AnyContent /\ opRun.at \in OpStages
      /\ opRun.at # "idle" => opRun.path \in Path /\ opRun.to \in Path
  BY <1>1 DEF FilesTypes, OpRuns
<1>3. \A p \in Path : disk[p] \in AnyContent /\ disk[p].id \in Nat /\ (disk[p].id = 0 <=> disk[p] = Absent)
  BY <1>2, ContentFacts
<1>4. ASSUME NEW o \in Op, ClaimOp(o) PROVE FilesInv'
  <2>1. opState[o] = "listed" /\ UNCHANGED <<disk, trash, fresh>>
    BY <1>4 DEF ClaimOp
  <2>2. CASE opState' = [opState EXCEPT ![o] = "claimed"] /\ Started(o)
    BY <1>1, <2>1, <2>2, BeginFacts DEF FilesInv
  <2>3. CASE /\ opState' \in {opState, [opState EXCEPT ![o] = "claimed"]}
             /\ UNCHANGED <<opRun, runs, raced>>
    <3>1. FilesTypes' /\ CheckedStands'
      BY <1>1, <2>1, <2>3 DEF FilesTypes, CheckedStands
    <3>2. ListedIsNotRun'
      BY <1>1, <2>3 DEF ListedIsNotRun
    <3>. QED BY <3>1, <3>2 DEF FilesInv
  <2>. QED BY <1>4, <2>2, <2>3 DEF ClaimOp
(* what is left to show of a step that leaves the cloud alone *)
<1>5. ASSUME UNCHANGED <<opState, runs>>, FilesTypes', CheckedStands' PROVE FilesInv'
  BY <1>1, <1>5 DEF FilesInv, ListedIsNotRun
<1>6. ASSUME NEW said0 \in OpOutcomes, OpAnswer(said0), opRun.at # "idle", UNCHANGED <<opState, runs>>,
             fresh' \in Nat, disk' \in [Path -> AnyContent], trash' \subseteq AnyContent
      PROVE  FilesInv'
  <2>1. opRun' \in OpRuns /\ opRun'.path \in Path /\ opRun'.to \in Path /\ CheckedStands'
    BY <1>1, <1>6, AnswerFacts
  <2>. QED BY <1>5, <1>6, <2>1 DEF FilesTypes
<1>7. ASSUME PatchReads PROVE FilesInv'
  <2>1. opRun.at = "patch" /\ UNCHANGED <<disk, trash, fresh, opState, raced, runs>>
    BY <1>7 DEF PatchReads
  <2>2. CASE OpAnswer("failed") \/ OpAnswer("conflict")
    BY <1>2, <1>6, <2>1, <2>2 DEF OpOutcomes
  <2>. DEFINE path0 == opRun.path
              read == disk[path0]
              base0 == ReadPart(path0)
              e == IF opRun.expect # 0 THEN opRun.expect ELSE read.id
  <2>3. CASE /\ read # Absent
             /\ opRun' = [opRun EXCEPT !.at = "check", !.base = base0, !.expect = e]
    <3>1. path0 \in Path /\ opRun.to \in Path /\ read \in AnyContent /\ read.id # 0 /\ read.id \in Nat
      BY <1>2, <1>3, <2>1, <2>3
    <3>2. base0 \in AnyContent /\ base0.id = read.id
      BY <3>1, <2>3 DEF ReadPart, AnyContent, Absent
    <3>3. e \in Nat /\ e # 0 /\ (e = read.id \/ e = opRun.expect)
      BY <1>2, <3>1
    <3>. HIDE DEF e, base0
    <3>4. /\ opRun' \in OpRuns /\ opRun'.at = "check" /\ opRun'.path = path0 /\ opRun'.to = opRun.to
          /\ opRun'.expect = e /\ opRun'.base = base0
      BY <1>2, <2>3, <3>2, <3>3 DEF OpRuns, OpStages
    <3>. HIDE DEF path0
    <3>5. FilesTypes'
      BY <1>2, <2>1, <3>1, <3>4 DEF FilesTypes
    <3>6. e <= fresh \/ e = read.id
      BY <1>1, <2>1, <3>3 DEF CheckedStands
    <3>7. CheckedStands'
      BY <2>1, <3>2, <3>3, <3>4, <3>6 DEF CheckedStands
    <3>. QED BY <1>5, <2>1, <3>5, <3>7
  <2>. QED BY <1>7, <2>2, <2>3 DEF PatchReads
<1>8. ASSUME CheckHash PROVE FilesInv'
  <2>1. opRun.at = "check" /\ UNCHANGED <<disk, trash, fresh, opState, raced, runs>>
    BY <1>8 DEF CheckHash
  <2>2. CASE OpAnswer("conflict")
    BY <1>2, <1>6, <2>1, <2>2 DEF OpOutcomes
  <2>3. CASE /\ ~(opRun.expect # 0 /\ disk[opRun.path].id # opRun.expect)
             /\ opRun' = [opRun EXCEPT !.at = "write"]
    <3>1. /\ opRun' \in OpRuns /\ opRun'.at = "write" /\ opRun'.path = opRun.path /\ opRun'.to = opRun.to
          /\ opRun'.expect = opRun.expect /\ opRun'.base = opRun.base /\ opRun'.kind = opRun.kind
      BY <1>2, <2>3 DEF OpRuns, OpStages
    <3>2. FilesTypes'
      BY <1>2, <2>1, <3>1 DEF FilesTypes
    <3>3. CheckedStands'
      BY <1>1, <2>1, <2>3, <3>1 DEF CheckedStands
    <3>. QED BY <1>5, <2>1, <3>2, <3>3
  <2>. QED BY <1>8, <2>2, <2>3 DEF CheckHash, Go
<1>9. ASSUME WriteFile PROVE FilesInv'
  <2>. DEFINE c == [id |-> fresh + 1, whole |-> opRun.kind = "patch" => opRun.base.whole]
  <2>1. /\ opRun.at = "write" /\ OpAnswer("succeeded") /\ fresh' = fresh + 1
        /\ disk' = [disk EXCEPT ![opRun.path] = c] /\ UNCHANGED <<trash, opState, runs>>
    BY <1>9 DEF WriteFile
  <2>2. (opRun.kind = "patch" => opRun.base.whole) \in BOOLEAN
    OBVIOUS
  <2>3. c \in AnyContent
    BY <1>2, <2>2, ContentFacts
  <2>. HIDE DEF c
  <2>4. disk' \in [Path -> AnyContent] /\ fresh' \in Nat
    BY <1>2, <2>1, <2>3
  <2>. QED BY <1>2, <1>6, <2>1, <2>4 DEF OpOutcomes
<1>10. ASSUME RenameFile \/ CopyFile \/ TrashFile PROVE FilesInv'
  <2>1. opRun.at # "idle" /\ UNCHANGED <<fresh, opState, runs>> /\ (OpAnswer("failed") \/ OpAnswer("succeeded"))
    BY <1>10 DEF RenameFile, CopyFile, TrashFile
  <2>2. opRun.path \in Path /\ opRun.to \in Path /\ disk[opRun.path] \in AnyContent
    BY <1>2, <1>3, <2>1
  <2>3. \/ UNCHANGED <<disk, trash>>
        \/ disk' = [disk EXCEPT ![opRun.path] = Absent, ![opRun.to] = disk[opRun.path]] /\ trash' = trash
        \/ disk' = [disk EXCEPT ![opRun.to] = disk[opRun.path]] /\ trash' = trash
        \/ disk' = [disk EXCEPT ![opRun.path] = Absent] /\ trash' = trash \cup {disk[opRun.path]}
    BY <1>10 DEF RenameFile, CopyFile, TrashFile
  <2>4. disk' \in [Path -> AnyContent] /\ trash' \subseteq AnyContent
    BY <1>2, <2>2, <2>3, ContentFacts
  <2>. QED BY <1>2, <1>6, <2>1, <2>4 DEF OpOutcomes
<1>11. ASSUME RestoreChecks PROVE FilesInv'
  <2>1. opRun.at = "restore" /\ UNCHANGED <<disk, trash, fresh, opState, raced, runs>>
    BY <1>11 DEF RestoreChecks
  <2>2. CASE OpAnswer("conflict")
    BY <1>2, <1>6, <2>1, <2>2 DEF OpOutcomes
  <2>3. CASE disk[opRun.path] = Absent /\ opRun' = [opRun EXCEPT !.at = "move"]
    <3>1. opRun' \in OpRuns /\ opRun'.at = "move" /\ opRun'.path = opRun.path /\ opRun'.to = opRun.to
      BY <1>2, <2>3 DEF OpRuns, OpStages
    <3>2. FilesTypes'
      BY <1>2, <2>1, <3>1 DEF FilesTypes
    <3>3. CheckedStands'
      BY <2>1, <2>3, <3>1 DEF CheckedStands
    <3>. QED BY <1>5, <2>1, <3>2, <3>3
  <2>. QED BY <1>11, <2>2, <2>3 DEF RestoreChecks, Go
<1>12. ASSUME RestoreMoves PROVE FilesInv'
  <2>1. opRun.at = "move" /\ UNCHANGED <<fresh, opState, runs>>
    BY <1>12 DEF RestoreMoves
  <2>2. CASE OpAnswer("failed") /\ UNCHANGED <<disk, trash>>
    BY <1>2, <1>6, <2>1, <2>2 DEF OpOutcomes
  <2>3. ASSUME NEW c \in trash, disk' = [disk EXCEPT ![opRun.path] = c], trash' = trash \ {c}, OpAnswer("succeeded")
        PROVE  FilesInv'
    <3>1. disk' \in [Path -> AnyContent] /\ trash' \subseteq AnyContent
      BY <1>2, <2>3
    <3>. QED BY <1>2, <1>6, <2>1, <2>3, <3>1 DEF OpOutcomes
  <2>. QED BY <1>12, <2>2, <2>3 DEF RestoreMoves
<1>13. ASSUME ReportOp PROVE FilesInv'
  <2>1. /\ opRun.at = "report" /\ opRun' = NoRun /\ UNCHANGED <<disk, trash, fresh, runs>>
        /\ opState' \in {opState, [opState EXCEPT ![opRun.op] = opRun.outcome]}
    BY <1>13 DEF ReportOp
  <2>2. opRun' \in OpRuns /\ opRun'.at = "idle" /\ CheckedStands'
    BY <2>1, NoRunFacts
  <2>3. FilesTypes'
    BY <1>2, <2>1, <2>2 DEF FilesTypes
  <2>4. opRun.outcome \in OpOutcomes \cup {""} /\ opRun.outcome # "listed"
    BY <1>2 DEF OpRuns, OpOutcomes
  <2>5. ListedIsNotRun'
    BY <1>1, <2>1, <2>4 DEF ListedIsNotRun
  <2>. QED BY <2>2, <2>3, <2>5 DEF FilesInv
<1>14. ASSUME NEW p \in Path, Edit(p) PROVE FilesInv'
  <2>. DEFINE c == [id |-> fresh + 1, whole |-> TRUE]
  <2>1. /\ UNCHANGED <<trash, opState, opRun, runs>>
        /\ raced' = (raced \/ (opRun.at \in {"write", "move"} /\ opRun.path = p))
        /\ \/ fresh' = fresh + 1 /\ disk' = [disk EXCEPT ![p] = c]
           \/ disk' = [disk EXCEPT ![p] = Absent] /\ fresh' = fresh
    BY <1>14 DEF Edit
  <2>2. c \in AnyContent /\ c.id = fresh + 1
    BY <1>2, ContentFacts
  <2>. HIDE DEF c
  <2>3. FilesTypes'
    BY <1>2, <2>1, <2>2, ContentFacts DEF FilesTypes
  <2>4. fresh <= fresh' /\ (opRun.expect <= fresh => opRun.expect # fresh + 1 /\ opRun.expect <= fresh')
    BY <1>2, <2>1
  <2>5. CASE opRun.path # p
    <3>1. opRun.at # "idle" => disk'[opRun.path] = disk[opRun.path]
      BY <1>2, <2>1, <2>5
    <3>2. raced => raced'
      BY <2>1
    <3>3. CheckedStands'
      BY <1>1, <2>1, <2>4, <3>1, <3>2 DEF CheckedStands
    <3>. QED BY <1>5, <2>1, <2>3, <3>3
  <2>6. CASE opRun.path = p
    <3>1. disk'[p].id \in {0, fresh + 1}
      BY <1>2, <2>1, <2>2, ContentFacts
    <3>2. opRun.at \in {"write", "move"} => raced'
      BY <2>1, <2>6
    <3>3. CheckedStands'
      BY <1>1, <2>1, <2>4, <2>6, <3>1, <3>2 DEF CheckedStands
    <3>. QED BY <1>5, <2>1, <2>3, <3>3
  <2>. QED BY <2>5, <2>6
<1>15. ASSUME StopDaemon PROVE FilesInv'
  <2>. DEFINE c == [id |-> MaxContents + 1, whole |-> FALSE]
  <2>1. /\ opRun' = NoRun /\ UNCHANGED <<trash, fresh, opState, runs>>
        /\ disk' = disk \/ disk' = [disk EXCEPT ![opRun.path] = c]
    BY <1>15 DEF StopDaemon
  <2>2. c \in AnyContent
    BY FilesAssumption, ContentFacts
  <2>. HIDE DEF c
  <2>3. opRun' \in OpRuns /\ opRun'.at = "idle" /\ CheckedStands'
    BY <2>1, NoRunFacts
  <2>4. FilesTypes'
    BY <1>2, <2>1, <2>2, <2>3 DEF FilesTypes
  <2>. QED BY <1>5, <2>1, <2>3, <2>4
<1>16. ASSUME UNCHANGED fileVars PROVE FilesInv'
  BY <1>1, <1>16 DEF fileVars, FilesInv, FilesTypes, ListedIsNotRun, CheckedStands
<1>. QED BY <1>4, <1>7, <1>8, <1>9, <1>10, <1>11, <1>12, <1>13, <1>14, <1>15, <1>16 DEF FilesNext

(* Only the write of the operation goes from its check to its report. *)
LEMMA FilesInvHolds ==
  ASSUME FilesInv, [FilesNext]_fileVars
  PROVE  /\ Writes /\ opRun.expect # 0 => disk[opRun.path].id = opRun.expect \/ raced
         /\ Writes /\ opRun.kind = "patch" => disk[opRun.path].id = opRun.base.id \/ raced
         /\ opRun.at \in {"trash", "restore", "move", "copy"} /\ opRun'.op = opRun.op /\ opRun'.at # opRun.at
              => raced \/ Contents \ {Absent} \subseteq Contents'
<1>1. FilesTypes /\ CheckedStands
  BY DEF FilesInv
<1>2. /\ Writes /\ opRun.expect # 0 => disk[opRun.path].id = opRun.expect \/ raced
      /\ Writes /\ opRun.kind = "patch" => disk[opRun.path].id = opRun.base.id \/ raced
  BY <1>1 DEF Writes, CheckedStands
<1>3. ASSUME opRun.at \in {"trash", "restore", "move", "copy"}, opRun'.at # opRun.at, ~raced
      PROVE  Contents \ {Absent} \subseteq Contents'
  <2>. DEFINE path0 == opRun.path
              to0 == opRun.to
  <2>1. path0 \in Path /\ to0 \in Path /\ disk \in [Path -> AnyContent]
    BY <1>1, <1>3 DEF FilesTypes
  <2>2. \/ UNCHANGED <<disk, trash>>
        \/ disk' = [disk EXCEPT ![path0] = Absent] /\ trash' = trash \cup {disk[path0]}
        \/ disk[to0] = Absent /\ disk' = [disk EXCEPT ![to0] = disk[path0]] /\ trash' = trash
        \/ /\ disk[path0] = Absent
           /\ \E c \in trash : disk' = [disk EXCEPT ![path0] = c] /\ trash' = trash \ {c}
    <3>1. CASE TrashFile \/ CopyFile
      BY <3>1 DEF TrashFile, CopyFile
    <3>2. CASE RestoreMoves
      <4>1. disk[path0] = Absent
        BY <1>1, <1>3, <3>2 DEF RestoreMoves, CheckedStands
      <4>. QED BY <3>2, <4>1 DEF RestoreMoves
    <3>3. CASE RestoreChecks
      BY <3>3 DEF RestoreChecks
    <3>4. CASE StopDaemon
      BY <1>3, <3>4 DEF StopDaemon
    <3>5. CASE (\E p \in Path : Edit(p)) \/ UNCHANGED fileVars
      BY <1>3, <3>5 DEF Edit, fileVars
    <3>6. CASE (\E o \in Op : ClaimOp(o))
      <4>1. NoRun.at = "idle"
        BY DEF NoRun
      <4>. QED BY <1>3, <3>6, <4>1 DEF ClaimOp
    <3>7. CASE PatchReads \/ CheckHash \/ WriteFile \/ RenameFile \/ ReportOp
      BY <1>3, <3>7 DEF PatchReads, CheckHash, WriteFile, RenameFile, ReportOp
    <3>. QED BY <3>1, <3>2, <3>3, <3>4, <3>5, <3>6, <3>7 DEF FilesNext
  <2>. HIDE DEF path0, to0
  <2>3. CASE UNCHANGED <<disk, trash>>
    BY <2>3 DEF Contents
  <2>4. CASE disk' = [disk EXCEPT ![path0] = Absent] /\ trash' = trash \cup {disk[path0]}
    BY <2>1, <2>4 DEF Contents
  <2>5. CASE disk[to0] = Absent /\ disk' = [disk EXCEPT ![to0] = disk[path0]] /\ trash' = trash
    BY <2>1, <2>5 DEF Contents
  <2>6. ASSUME disk[path0] = Absent, NEW c \in trash, disk' = [disk EXCEPT ![path0] = c], trash' = trash \ {c}
        PROVE  Contents \ {Absent} \subseteq Contents'
    BY <2>1, <2>6 DEF Contents
  <2>. QED BY <2>2, <2>3, <2>4, <2>5, <2>6
<1>. QED BY <1>2, <1>3

(* An operation on a workspace (workspace-ops.js, tools/files.js) is done  *)
(* once, to the file it was meant for, whatever claims and reports are     *)
(* lost and wherever the daemon stops: a hash names what is replaced, a    *)
(* patch meets what it read, a move or a restore loses no content, unless  *)
(* the file was changed between the check and the write.                   *)
THEOREM FilesAlwaysHold == StoresSpec => FilesHold
<1>1. StoresInit => FilesInv
  BY FilesInvInit DEF StoresInit
<1>2. FilesInv /\ [StoresNext]_storeVars => FilesInv'
  BY FilesSteps, FilesInvStep
<1>3. FilesInv => OpsRunOnce
  <2>. SUFFICES ASSUME FilesInv, NEW o \in Op PROVE runs[o] <= 1
    BY DEF OpsRunOnce
  <2>1. runs[o] \in {0, 1}
    BY DEF FilesInv, FilesTypes, ListedIsNotRun
  <2>. QED BY <2>1
<1>4. FilesInv /\ [StoresNext]_storeVars
        => [Writes /\ opRun.expect # 0 => disk[opRun.path].id = opRun.expect \/ raced]_fileVars
  BY FilesSteps, FilesInvHolds
<1>5. FilesInv /\ [StoresNext]_storeVars
        => [Writes /\ opRun.kind = "patch" => disk[opRun.path].id = opRun.base.id \/ raced]_fileVars
  BY FilesSteps, FilesInvHolds
<1>6. FilesInv /\ [StoresNext]_storeVars
        => [opRun.at \in {"trash", "restore", "move", "copy"} /\ opRun'.op = opRun.op /\ opRun'.at # opRun.at
              => raced \/ Contents \ {Absent} \subseteq Contents']_fileVars
  BY FilesSteps, FilesInvHolds
<1>. QED
  BY <1>1, <1>2, <1>3, <1>4, <1>5, <1>6, PTL
     DEF StoresSpec, FilesHold, NamedIsReplaced, PatchIsOnWhatItRead, MovesLoseNothing
-----------------------------------------------------------------------------
(* Goals *)

GoalRecord == [status : {"absent", "active"} \cup Ended, completed : Nat, kept : Nat]
Round == [goal : Goal, no : Nat]

(* A round of g waits or runs. *)
Moves(g) ==
  \/ \E i \in 1 .. Len(goalQueue) : goalQueue[i].goal = g
  \/ served # NoRound /\ served.goal = g

GoalTypes ==
  /\ goals \in [Goal -> GoalRecord] /\ goalFile \in [Goal -> GoalRecord]
  /\ goalQueue \in Seq(Round) /\ served \in Round \cup {NoRound}
GoalInv ==
  /\ GoalTypes /\ goalRestarts \in Nat
  /\ \A i \in 1 .. Len(goalQueue) : goalQueue[i].no <= MaxRounds
  /\ \A g \in Goal : goals[g].status = "active" => Moves(g) \/ g \in excused

(* A round put in the queue: it is under the cap, or there was no room. *)
LEMMA EnqueueKeeps ==
  ASSUME GoalTypes, NEW g \in Goal, NEW no \in Nat, no <= MaxRounds,
         \A i \in 1 .. Len(goalQueue) : goalQueue[i].no <= MaxRounds,
         EnqueueRound(g, no)
  PROVE  /\ goalQueue' \in Seq(Round) /\ excused \subseteq excused'
         /\ \A i \in 1 .. Len(goalQueue') : goalQueue'[i].no <= MaxRounds
         /\ Len(goalQueue) \in Nat /\ Len(goalQueue') \in Nat /\ Len(goalQueue) <= Len(goalQueue')
         /\ \A i \in 1 .. Len(goalQueue) : i \in 1 .. Len(goalQueue') /\ goalQueue'[i] = goalQueue[i]
         /\ g \in excused' \/ \E i \in 1 .. Len(goalQueue') : goalQueue'[i].goal = g
<1>. DEFINE r == [goal |-> g, no |-> no]
<1>1. r \in Round /\ r.goal = g /\ r.no = no
  BY DEF Round
<1>2. goalQueue \in Seq(Round) /\ Len(goalQueue) \in Nat
  BY LenProperties DEF GoalTypes
<1>. HIDE DEF r
<1>3. CASE goalQueue' = Append(goalQueue, r) /\ UNCHANGED excused
  <2>1. goalQueue' \in Seq(Round) /\ Len(goalQueue') = Len(goalQueue) + 1
        /\ (\A i \in 1 .. Len(goalQueue) : goalQueue'[i] = goalQueue[i])
        /\ goalQueue'[Len(goalQueue) + 1] = r
    BY <1>1, <1>2, <1>3, AppendProperties
  <2>2. Len(goalQueue) + 1 \in 1 .. Len(goalQueue') /\ Len(goalQueue') \in Nat
        /\ \A i \in 1 .. Len(goalQueue') : i = Len(goalQueue) + 1 \/ i \in 1 .. Len(goalQueue)
    BY <1>2, <2>1
  <2>3. \A i \in 1 .. Len(goalQueue') : goalQueue'[i].no <= MaxRounds
    BY <1>1, <2>1, <2>2
  <2>4. \A i \in 1 .. Len(goalQueue) : i \in 1 .. Len(goalQueue') /\ goalQueue'[i] = goalQueue[i]
    BY <1>2, <2>1
  <2>5. \E i \in 1 .. Len(goalQueue') : goalQueue'[i].goal = g
    BY <1>1, <2>1, <2>2
  <2>. QED BY <1>2, <1>3, <2>1, <2>2, <2>3, <2>4, <2>5
<1>4. CASE excused' = excused \cup {g} /\ UNCHANGED goalQueue
  BY <1>2, <1>4
<1>. QED BY <1>3, <1>4 DEF EnqueueRound, r

LEMMA GoalInvInit == GoalInit => GoalInv
<1>. SUFFICES ASSUME GoalInit PROVE GoalInv
  OBVIOUS
<1>1. UnknownGoal \in GoalRecord /\ UnknownGoal.status = "absent"
  BY DEF UnknownGoal, GoalRecord, Ended
<1>2. goalQueue \in Seq(Round) /\ Len(goalQueue) = 0
  BY DEF GoalInit
<1>3. GoalTypes
  BY <1>1, <1>2 DEF GoalInit, GoalTypes
<1>4. \A g \in Goal : goals[g].status # "active"
  BY <1>1 DEF GoalInit
<1>5. goalRestarts \in Nat
  BY DEF GoalInit
<1>6. \A i \in 1 .. Len(goalQueue) : goalQueue[i].no <= MaxRounds
  BY <1>2
<1>. QED BY <1>3, <1>4, <1>5, <1>6 DEF GoalInv

(* What a round leaves of its goal's record. *)
LEMMA RecordedIsARecord ==
  ASSUME NEW rec \in GoalRecord, NEW after \in {"active"} \cup Ended
  PROVE  [Recorded(rec) EXCEPT !.status = after] \in GoalRecord
<1>1. rec.kept + 1 \in Nat /\ (IF rec.kept < MaxRounds THEN rec.kept + 1 ELSE MaxRounds) \in Nat
  BY GoalAssumption DEF GoalRecord
<1>2. after \in {"absent", "active"} \cup Ended
  OBVIOUS
<1>. QED BY <1>1, <1>2 DEF Recorded, GoalRecord

LEMMA GoalInvStep == GoalInv /\ [GoalNext]_goalVars => GoalInv'
<1>. SUFFICES ASSUME GoalInv, [GoalNext]_goalVars PROVE GoalInv'
  OBVIOUS
<1>. DEFINE UnderCap == \A i \in 1 .. Len(goalQueue) : goalQueue[i].no <= MaxRounds
            Moving == \A g \in Goal : goals[g].status = "active" => Moves(g) \/ g \in excused
<1>0. GoalTypes /\ UnderCap /\ Moving /\ Len(goalQueue) \in Nat
  BY LenProperties DEF GoalInv, GoalTypes
<1>01. goalRestarts' \in Nat
  <2>1. GoalRestart \/ goalRestarts' = goalRestarts
    BY DEF GoalNext, StartGoal, ResumeGoal, AbortGoal, ServeRound, RoundFails, RoundEnds, goalVars
  <2>2. GoalRestart => goalRestarts' = goalRestarts + 1
    BY DEF GoalRestart
  <2>. QED BY <2>1, <2>2 DEF GoalInv
<1>. SUFFICES GoalTypes' /\ UnderCap' /\ Moving'
  BY <1>01 DEF GoalInv
<1>1. SaveGoals /\ goals' \in [Goal -> GoalRecord] => goalFile' \in [Goal -> GoalRecord]
  BY <1>0 DEF SaveGoals, GoalTypes
<1>2. ASSUME NEW g \in Goal, NEW no \in Nat, no <= MaxRounds, EnqueueRound(g, no), UNCHANGED served,
             \A h \in Goal \ {g} : goals'[h].status = "active" => goals[h].status = "active"
      PROVE  Moving' /\ UnderCap' /\ goalQueue' \in Seq(Round)
  <2>1. /\ goalQueue' \in Seq(Round) /\ excused \subseteq excused' /\ UnderCap'
        /\ \A i \in 1 .. Len(goalQueue) : i \in 1 .. Len(goalQueue') /\ goalQueue'[i] = goalQueue[i]
        /\ g \in excused' \/ \E i \in 1 .. Len(goalQueue') : goalQueue'[i].goal = g
    BY <1>0, <1>2, EnqueueKeeps
  <2>2. g \in excused' \/ Moves(g)'
    BY <2>1 DEF Moves
  <2>3. ASSUME NEW h \in Goal \ {g}, goals'[h].status = "active" PROVE Moves(h)' \/ h \in excused'
    <3>1. Moves(h) \/ h \in excused
      BY <1>0, <1>2, <2>3
    <3>. QED BY <1>2, <2>1, <3>1 DEF Moves
  <2>. QED BY <2>1, <2>2, <2>3
<1>3. ASSUME NEW g \in Goal, StartGoal(g) PROVE GoalTypes' /\ UnderCap' /\ Moving'
  <2>1. goals' \in [Goal -> GoalRecord]
    BY <1>0, <1>3 DEF StartGoal, GoalTypes, GoalRecord
  <2>2. Moving' /\ UnderCap' /\ goalQueue' \in Seq(Round)
    <3>1. 1 <= MaxRounds /\ 1 \in Nat
      BY GoalAssumption
    <3>2. \A h \in Goal \ {g} : goals'[h] = goals[h]
      BY <1>0, <1>3 DEF StartGoal, GoalTypes
    <3>3. EnqueueRound(g, 1) /\ UNCHANGED served
      BY <1>3 DEF StartGoal
    <3>. QED BY <1>2, <3>1, <3>2, <3>3
  <2>. QED BY <1>0, <1>1, <1>3, <2>1, <2>2 DEF StartGoal, GoalTypes
<1>4. ASSUME NEW g \in Goal, ResumeGoal(g) PROVE GoalTypes' /\ UnderCap' /\ Moving'
  <2>. DEFINE n == goals[g].completed + 1
  <2>1. n \in Nat /\ n <= MaxRounds
    BY <1>0, <1>4, GoalAssumption DEF ResumeGoal, GoalTypes, GoalRecord
  <2>2. EnqueueRound(g, n) /\ UNCHANGED <<served, goals, goalFile>>
    BY <1>4 DEF ResumeGoal
  <2>. HIDE DEF n
  <2>3. Moving' /\ UnderCap' /\ goalQueue' \in Seq(Round)
    BY <1>2, <2>1, <2>2
  <2>. QED BY <1>0, <2>2, <2>3 DEF GoalTypes
<1>5. ASSUME NEW g \in Goal, AbortGoal(g) PROVE GoalTypes' /\ UnderCap' /\ Moving'
  <2>1. goals' \in [Goal -> GoalRecord]
    BY <1>0, <1>5 DEF AbortGoal, GoalTypes, GoalRecord, Ended
  <2>2. \A h \in Goal : goals'[h].status = "active" => goals[h].status = "active"
    BY <1>0, <1>5 DEF AbortGoal, GoalTypes, GoalRecord
  <2>3. Moving'
    BY <1>0, <1>5, <2>2 DEF AbortGoal, Moves
  <2>. QED BY <1>0, <1>1, <1>5, <2>1, <2>3 DEF AbortGoal, GoalTypes
<1>6. ASSUME ServeRound PROVE GoalTypes' /\ UnderCap' /\ Moving'
  <2>1. /\ goalQueue' \in Seq(Round) /\ Len(goalQueue') = Len(goalQueue) - 1
        /\ \A i \in 1 .. Len(goalQueue') : goalQueue'[i] = goalQueue[i + 1]
    BY <1>0, <1>6, HeadTailProperties DEF ServeRound, GoalTypes
  <2>2. served' = goalQueue[1] /\ served' \in Round /\ Len(goalQueue) >= 1
    BY <1>0, <1>6, HeadTailProperties DEF ServeRound, GoalTypes
  <2>3. UnderCap'
    BY <1>0, <2>1
  <2>4. served' # NoRound
    <3>1. served'.goal \in Goal
      BY <2>2 DEF Round
    <3>. QED BY <3>1, GoalAssumption DEF NoRound
  <2>5. ASSUME NEW h \in Goal, goals'[h].status = "active" PROVE Moves(h)' \/ h \in excused'
    <3>1. Moves(h) \/ h \in excused
      BY <1>0, <1>6, <2>5 DEF ServeRound
    <3>2. ASSUME NEW i \in 1 .. Len(goalQueue), goalQueue[i].goal = h PROVE Moves(h)'
      <4>1. CASE i = 1
        BY <2>2, <2>4, <3>2, <4>1 DEF Moves
      <4>2. CASE i # 1
        <5>1. i - 1 \in 1 .. Len(goalQueue') /\ (i - 1) + 1 = i
          BY <1>0, <2>1, <4>2
        <5>2. goalQueue'[i - 1].goal = h
          BY <2>1, <3>2, <5>1
        <5>. QED BY <5>1, <5>2 DEF Moves
      <4>. QED BY <4>1, <4>2
    <3>3. h \in excused => h \in excused'
      BY <1>6 DEF ServeRound
    <3>. QED BY <1>6, <3>1, <3>2, <3>3 DEF ServeRound, Moves
  <2>. QED BY <1>0, <1>6, <2>1, <2>2, <2>3, <2>5 DEF ServeRound, GoalTypes
<1>7. ASSUME RoundFails PROVE GoalTypes' /\ UnderCap' /\ Moving'
  BY <1>0, <1>7 DEF RoundFails, GoalTypes, Moves
<1>8. ASSUME NEW c \in BOOLEAN, RoundEnds(c) PROVE GoalTypes' /\ UnderCap' /\ Moving'
  <2>. DEFINE g == served.goal
              after == IF c THEN "complete" ELSE IF LastRound(served.no) THEN "blocked" ELSE "active"
  <2>1. served \in Round /\ g \in Goal /\ served' = NoRound /\ served.no \in Nat
    BY <1>0, <1>8 DEF RoundEnds, GoalTypes, Round
  <2>2. CASE goals[g].status # "active"
    <3>1. UNCHANGED <<goals, goalFile, goalQueue, excused>>
      BY <1>8, <2>2 DEF RoundEnds
    <3>. QED BY <1>0, <2>1, <2>2, <3>1 DEF GoalTypes, Moves
  <2>3. CASE goals[g].status = "active"
    <3>1. /\ goals' = [goals EXCEPT ![g] = [Recorded(@) EXCEPT !.status = after]]
          /\ SaveGoals
          /\ IF after = "active" THEN EnqueueRound(g, served.no + 1) ELSE UNCHANGED <<goalQueue, excused>>
      BY <1>8, <2>3 DEF RoundEnds
    <3>2. after \in {"active"} \cup Ended
      BY DEF Ended
    <3>3. after = "active" => ~LastRound(served.no)
      OBVIOUS
    <3>. HIDE DEF after, g
    <3>4. goals[g] \in GoalRecord
      BY <1>0, <2>1 DEF GoalTypes
    <3>5. [Recorded(goals[g]) EXCEPT !.status = after] \in GoalRecord
      BY <3>2, <3>4, RecordedIsARecord
    <3>6. goals' \in [Goal -> GoalRecord] /\ \A h \in Goal \ {g} : goals'[h] = goals[h]
      BY <1>0, <2>1, <3>1, <3>5 DEF GoalTypes
    <3>7. goals'[g].status = after
      <4>1. goals'[g] = [Recorded(goals[g]) EXCEPT !.status = after]
        BY <1>0, <2>1, <3>1 DEF GoalTypes
      <4>2. "status" \in DOMAIN Recorded(goals[g])
        BY <3>4 DEF Recorded, GoalRecord
      <4>. QED BY <4>1, <4>2
    <3>8. goalFile' \in [Goal -> GoalRecord]
      BY <1>1, <3>1, <3>6
    <3>9. CASE after = "active"
      <4>1. served.no + 1 \in Nat /\ served.no + 1 <= MaxRounds
        BY <2>1, <3>3, <3>9, GoalAssumption DEF LastRound
      <4>2. /\ goalQueue' \in Seq(Round) /\ excused \subseteq excused' /\ UnderCap'
            /\ \A i \in 1 .. Len(goalQueue) : i \in 1 .. Len(goalQueue') /\ goalQueue'[i] = goalQueue[i]
            /\ g \in excused' \/ \E i \in 1 .. Len(goalQueue') : goalQueue'[i].goal = g
        BY <1>0, <2>1, <3>1, <3>9, <4>1, EnqueueKeeps
      <4>3. ASSUME NEW h \in Goal, goals'[h].status = "active" PROVE Moves(h)' \/ h \in excused'
        <5>1. CASE h = g
          BY <4>2, <5>1 DEF Moves
        <5>2. CASE h # g
          <6>1. Moves(h) \/ h \in excused
            BY <1>0, <3>6, <4>3, <5>2
          <6>2. ~(served # NoRound /\ served.goal = h)
            BY <5>2 DEF g
          <6>. QED BY <4>2, <6>1, <6>2 DEF Moves
        <5>. QED BY <5>1, <5>2
      <4>. QED BY <2>1, <3>6, <3>8, <4>2, <4>3 DEF GoalTypes
    <3>10. CASE after # "active"
      <4>1. ASSUME NEW h \in Goal, goals'[h].status = "active" PROVE Moves(h)' \/ h \in excused'
        <5>1. h # g
          BY <3>7, <3>10, <4>1
        <5>2. Moves(h) \/ h \in excused
          BY <1>0, <3>6, <4>1, <5>1
        <5>3. ~(served # NoRound /\ served.goal = h)
          BY <5>1 DEF g
        <5>. QED BY <3>1, <3>10, <5>2, <5>3 DEF Moves
      <4>. QED BY <1>0, <2>1, <3>1, <3>6, <3>8, <3>10, <4>1 DEF GoalTypes
    <3>. QED BY <3>9, <3>10
  <2>. QED BY <2>2, <2>3
<1>9. ASSUME GoalRestart PROVE GoalTypes' /\ UnderCap' /\ Moving'
  <2>1. goalQueue' \in Seq(Round) /\ Len(goalQueue') = 0
    BY <1>9 DEF GoalRestart
  <2>. QED BY <1>0, <1>9, <2>1 DEF GoalRestart, GoalTypes
<1>10. ASSUME UNCHANGED goalVars PROVE GoalTypes' /\ UnderCap' /\ Moving'
  BY <1>0, <1>10 DEF goalVars, GoalTypes, Moves
<1>. HIDE DEF UnderCap, Moving
<1>. QED BY <1>3, <1>4, <1>5, <1>6, <1>7, <1>8, <1>9, <1>10 DEF GoalNext

(* What a step may do to a goal that has ended. *)
LEMMA EndedStep ==
  ASSUME GoalInv, [GoalNext]_goalVars, NEW g \in Goal, goals[g].status \in Ended, goalRestarts' = goalRestarts
  PROVE  goals'[g].status \in {goals[g].status, "aborted"} /\ goals'[g].completed = goals[g].completed
<1>0. GoalTypes /\ goals[g] \in GoalRecord /\ goals[g] # UnknownGoal /\ goals[g].status # "active"
  BY DEF GoalInv, GoalTypes, UnknownGoal, Ended
<1>1. ASSUME NEW h \in Goal, StartGoal(h) PROVE goals'[g] = goals[g]
  BY <1>0, <1>1 DEF StartGoal, GoalTypes
<1>2. ASSUME NEW h \in Goal, AbortGoal(h)
      PROVE  goals'[g].status \in {goals[g].status, "aborted"} /\ goals'[g].completed = goals[g].completed
  BY <1>0, <1>2 DEF AbortGoal, GoalTypes, GoalRecord
<1>3. ASSUME NEW c \in BOOLEAN, RoundEnds(c) PROVE goals'[g] = goals[g]
  <2>1. served.goal \in Goal
    BY <1>0, <1>3 DEF RoundEnds, GoalTypes, Round
  <2>2. CASE goals[served.goal].status # "active"
    BY <1>3, <2>2 DEF RoundEnds
  <2>3. CASE goals[served.goal].status = "active"
    <3>1. served.goal # g
      BY <1>0, <2>3
    <3>2. \E rec : goals' = [goals EXCEPT ![served.goal] = rec]
      BY <1>3, <2>3 DEF RoundEnds
    <3>. QED BY <1>0, <3>1, <3>2 DEF GoalTypes
  <2>. QED BY <2>2, <2>3
<1>4. ~GoalRestart
  <2>1. goalRestarts + 1 # goalRestarts
    BY DEF GoalInv
  <2>. QED BY <2>1 DEF GoalRestart
<1>. QED
  BY <1>1, <1>2, <1>3, <1>4 DEF GoalNext, ResumeGoal, ServeRound, RoundFails, goalVars

(* A goal (agent.js:1304-1341) is never given a round past its cap, has a  *)
(* round that waits or runs while it is active, unless one of its rounds   *)
(* failed, found no room or was lost with the daemon, and stays what it    *)
(* ended as while the daemon lives.                                        *)
THEOREM GoalsAlwaysHold == StoresSpec => GoalsHold
<1>1. StoresInit => GoalInv
  BY GoalInvInit DEF StoresInit
<1>2. GoalInv /\ [StoresNext]_storeVars => GoalInv'
  BY GoalSteps, GoalInvStep
<1>3. GoalInv => RoundsStayUnderTheCap /\ ActiveGoalMoves
  <2>. SUFFICES ASSUME GoalInv PROVE RoundsStayUnderTheCap /\ ActiveGoalMoves
    OBVIOUS
  <2>1. DOMAIN goalQueue = 1 .. Len(goalQueue)
    BY LenProperties DEF GoalInv, GoalTypes
  <2>2. ASSUME NEW g \in Goal, Moves(g) PROVE Pending(g) # {}
    <3>1. CASE \E i \in 1 .. Len(goalQueue) : goalQueue[i].goal = g
      BY <2>1, <3>1 DEF Pending
    <3>2. CASE served # NoRound /\ served.goal = g
      <4>1. served \in {served} \cap [goal : {g}, no : Nat]
        BY <3>2 DEF GoalInv, GoalTypes, Round
      <4>2. 0 \in Pending(g)
        BY <4>1 DEF Pending
      <4>. QED BY <4>2
    <3>. QED BY <2>2, <3>1, <3>2 DEF Moves
  <2>. QED BY <2>1, <2>2 DEF GoalInv, RoundsStayUnderTheCap, ActiveGoalMoves
<1>4. GoalInv /\ [StoresNext]_storeVars
        => [\A g \in Goal : goals[g].status \in Ended /\ goalRestarts' = goalRestarts
              => goals'[g].status \in {goals[g].status, "aborted"}
                 /\ goals'[g].completed = goals[g].completed]_goalVars
  BY GoalSteps, EndedStep
<1>. QED
  BY <1>1, <1>2, <1>3, <1>4, PTL DEF StoresSpec, GoalsHold, EndedStands
-----------------------------------------------------------------------------
(* The registry of agents *)

AgentSteps == {"off", "detected", "registered", "writing", "up"}
RegistryTypes ==
    /\ entries \in Seq(Entry) /\ programs \subseteq Program
    /\ found \in [Console -> SUBSET Program] /\ next \in [Console -> Seq(Entry)]
    /\ consoleAt \in [Console -> AgentSteps]
    /\ upToDate \subseteq Console /\ kept \subseteq Entry

LearnedOnce(list) ==
    \A i, j \in DOMAIN list : list[i].by = "auto" /\ list[j].by = "auto" /\ list[i].of = list[j].of => i = j
AllGood(list) == \A i \in DOMAIN list : list[i].kind = "good"
Fits(list) == Len(list) <= AutoMax \/ \A i \in DOMAIN list : StaleAuto(list[i])
Lasting == {e \in kept : ~StaleAuto(e)}

(* What is about to be written is as good as what was read.                *)
NextIsSound == \A c \in Console : LearnedOnce(next[c]) /\ AllGood(next[c]) /\ Len(next[c]) <= AutoMax

(* While nothing spoiled the file: one console writes at a time, and the   *)
(* entries that last are in the file, or with the one that writes it, and  *)
(* with each console that read the file as it is and is about to write.    *)
NothingSpoiled ==
    /\ ~cutOff /\ AllGood(entries) /\ Fits(entries)
    /\ \A c \in Console : consoleAt[c] = "writing" =>
         upToDate \subseteq {c} /\ Lasting \subseteq ToSet(next[c])
         /\ \A d \in Console : consoleAt[d] = "writing" => d = c
    /\ (\A c \in Console : consoleAt[c] # "writing") => Lasting \subseteq ToSet(entries)
    /\ \A c \in upToDate : consoleAt[c] = "registered" => Lasting \subseteq ToSet(next[c])

RegistryInv ==
    /\ RegistryTypes /\ LearnedOnce(entries) /\ NextIsSound
    /\ spoiled \/ NothingSpoiled

LEMMA EntryFacts ==
  /\ \A p \in Program : AutoEntry(p) \in Entry /\ AutoEntry(p).by = "auto" /\ AutoEntry(p).of = p
                        /\ AutoEntry(p).kind = "good"
  /\ AutoMax \in Nat /\ IsFiniteSet(Program)
BY RegistryAssumption DEF Entry, AutoEntry

(* What is picked of a list keeps the order and what holds of each entry.  *)
LEMMA PickedEntries ==
  ASSUME NEW list \in Seq(Entry), NEW K \in SUBSET DOMAIN list
  PROVE  /\ Picked(list, K) \in Seq(Entry) /\ Len(Picked(list, K)) <= Len(list)
         /\ Len(Picked(list, K)) \in Nat /\ Len(list) \in Nat
         /\ K = {} => Len(Picked(list, K)) = 0
         /\ ToSet(Picked(list, K)) = {list[k] : k \in K}
         /\ AllGood(list) => AllGood(Picked(list, K))
         /\ LearnedOnce(list) => LearnedOnce(Picked(list, K))
<1>. DEFINE c == Picked(list, K)
<1>1. /\ c \in Seq(Entry) /\ Len(c) = Cardinality(K) /\ DOMAIN c = 1 .. Len(c)
      /\ Len(c) \in Nat /\ Len(c) <= Len(list)
      /\ \A i \in 1 .. Len(c) : NthOf(K, i) \in K /\ c[i] = list[NthOf(K, i)]
      /\ \A i, j \in 1 .. Len(c) : i < j => NthOf(K, i) < NthOf(K, j)
      /\ ToSet(c) = {list[k] : k \in K}
  BY PickedFacts
<1>. HIDE DEF c
<1>2. Len(list) \in Nat /\ DOMAIN list = 1 .. Len(list)
  BY LenProperties
<1>3. K = {} => Len(c) = 0
  BY <1>1, FS_EmptySet
<1>4. AllGood(list) => AllGood(c)
  BY <1>1 DEF AllGood
<1>5. ASSUME LearnedOnce(list), NEW i \in 1 .. Len(c), NEW j \in 1 .. Len(c),
             c[i].by = "auto", c[j].by = "auto", c[i].of = c[j].of
      PROVE  i = j
  <2>1. NthOf(K, i) \in K /\ NthOf(K, j) \in K /\ NthOf(K, i) = NthOf(K, j)
    BY <1>1, <1>5 DEF LearnedOnce
  <2>2. NthOf(K, i) \in Int /\ ~(NthOf(K, i) < NthOf(K, j)) /\ ~(NthOf(K, j) < NthOf(K, i))
    BY <1>2, <2>1
  <2>3. ~(i < j) /\ ~(j < i)
    BY <1>1, <2>2
  <2>. QED BY <2>3
<1>6. LearnedOnce(list) => LearnedOnce(c)
  BY <1>1, <1>5 DEF LearnedOnce
<1>. QED BY <1>1, <1>2, <1>3, <1>4, <1>6 DEF c

(* What a console reads of the file: what is good in it, all of it unless  *)
(* there was an entry that is not, or the file is cut.                     *)
LEMMA ReadFacts ==
  ASSUME RegistryTypes, LearnedOnce(entries)
  PROVE  /\ RegistryEntries \in Seq(Entry) /\ AllGood(RegistryEntries) /\ LearnedOnce(RegistryEntries)
         /\ ~Torn /\ AllGood(entries) => ToSet(RegistryEntries) = ToSet(entries)
         /\ ~Torn /\ AllGood(entries) /\ Fits(entries) => Fits(RegistryEntries)
<1>. DEFINE K == {i \in DOMAIN entries : entries[i].kind = "good"}
<1>1. entries \in Seq(Entry) /\ K \in SUBSET DOMAIN entries
  BY DEF RegistryTypes
<1>2. /\ Picked(entries, K) \in Seq(Entry) /\ Len(Picked(entries, K)) <= Len(entries)
      /\ Len(Picked(entries, K)) \in Nat /\ Len(entries) \in Nat
      /\ ToSet(Picked(entries, K)) = {entries[k] : k \in K}
      /\ LearnedOnce(entries) => LearnedOnce(Picked(entries, K))
  BY <1>1, PickedEntries
<1>3. <<>> \in Seq(Entry) /\ AllGood(<<>>) /\ LearnedOnce(<<>>)
  BY DEF AllGood, LearnedOnce
<1>4. ASSUME NEW i \in DOMAIN Picked(entries, K) PROVE Picked(entries, K)[i] \in {entries[k] : k \in K}
  <2>1. Picked(entries, K)[i] \in ToSet(Picked(entries, K))
    BY DEF ToSet
  <2>. QED BY <1>2, <2>1
<1>5. AllGood(Picked(entries, K))
  BY <1>4 DEF AllGood
<1>6. ASSUME ~Torn, AllGood(entries)
      PROVE  /\ RegistryEntries = Picked(entries, K) /\ K = DOMAIN entries
             /\ ToSet(RegistryEntries) = ToSet(entries)
             /\ Fits(entries) => Fits(RegistryEntries)
  <2>1. K = DOMAIN entries /\ \A e \in ToSet(entries) : e.kind = "good"
    BY <1>6 DEF AllGood, ToSet
  <2>2. RegistryEntries = Picked(entries, K)
    BY <1>6, <2>1 DEF RegistryEntries
  <2>3. ToSet(RegistryEntries) = ToSet(entries)
    <3>1. {entries[k] : k \in K} = ToSet(entries)
      BY <2>1 DEF ToSet
    <3>. QED BY <1>2, <2>2, <3>1
  <2>4. ASSUME Len(entries) <= AutoMax PROVE Fits(RegistryEntries)
    BY <1>2, <2>2, <2>4, EntryFacts DEF Fits
  <2>5. ASSUME \A i \in DOMAIN entries : StaleAuto(entries[i]) PROVE Fits(RegistryEntries)
    <3>1. \A i \in DOMAIN RegistryEntries : StaleAuto(RegistryEntries[i])
      BY <1>4, <2>1, <2>2, <2>5
    <3>. QED BY <3>1 DEF Fits
  <2>6. Fits(entries) => Fits(RegistryEntries)
    BY <2>4, <2>5 DEF Fits
  <2>. HIDE DEF K
  <2>. QED BY <2>1, <2>2, <2>3, <2>6
<1>7. RegistryEntries = <<>> \/ RegistryEntries = Picked(entries, K)
  BY DEF RegistryEntries
<1>. HIDE DEF K
<1>. QED BY <1>2, <1>3, <1>5, <1>6, <1>7

LEMMA NotStaleFacts ==
  ASSUME NEW list \in Seq(Entry), AllGood(list), LearnedOnce(list)
  PROVE  /\ NotStale(list) \in Seq(Entry) /\ AllGood(NotStale(list)) /\ LearnedOnce(NotStale(list))
         /\ ToSet(NotStale(list)) = {e \in ToSet(list) : ~StaleAuto(e)}
         /\ Fits(list) => Len(NotStale(list)) <= AutoMax
<1>. DEFINE K == {i \in DOMAIN list : ~StaleAuto(list[i])}
<1>1. K \in SUBSET DOMAIN list /\ NotStale(list) = Picked(list, K)
  BY DEF NotStale
<1>2. {list[k] : k \in K} = {e \in ToSet(list) : ~StaleAuto(e)}
  BY DEF ToSet
<1>3. (\A i \in DOMAIN list : StaleAuto(list[i])) => K = {}
  OBVIOUS
<1>. HIDE DEF K
<1>4. /\ Picked(list, K) \in Seq(Entry) /\ Len(Picked(list, K)) <= Len(list)
      /\ Len(Picked(list, K)) \in Nat /\ Len(list) \in Nat
      /\ K = {} => Len(Picked(list, K)) = 0
      /\ ToSet(Picked(list, K)) = {list[k] : k \in K}
      /\ AllGood(list) => AllGood(Picked(list, K))
      /\ LearnedOnce(list) => LearnedOnce(Picked(list, K))
  BY <1>1, PickedEntries
<1>5. Fits(list) => Len(NotStale(list)) <= AutoMax
  BY <1>1, <1>3, <1>4, EntryFacts DEF Fits
<1>. QED BY <1>1, <1>2, <1>4, <1>5

(* What was known comes first, and newcomers as far as there is room.      *)
LEMMA NextEntriesFacts ==
  ASSUME NEW known \in Seq(Entry), AllGood(known), LearnedOnce(known),
         NEW add \in SUBSET Program, \A p \in add : ~Matches(known, p)
  PROVE  LET list == NextEntries(known, add)
         IN  /\ list \in Seq(Entry) /\ AllGood(list) /\ LearnedOnce(list) /\ Len(list) <= AutoMax
             /\ Len(known) <= AutoMax => ToSet(known) \subseteq ToSet(list)
<1>. DEFINE n == Cardinality(add)
            q == SetToSeq(add)
            new == [i \in 1 .. n |-> AutoEntry(q[i])]
            all == known \o new
            list == NextEntries(known, add)
<1>1. n \in Nat /\ q \in [1 .. n -> add] /\ \A i, j \in 1 .. n : q[i] = q[j] => i = j
  <2>1. IsFiniteSet(add)
    BY EntryFacts, FS_Subset
  <2>. QED BY <2>1, SetAsSeq
<1>. HIDE DEF n, q
<1>2. /\ new \in Seq(Entry) /\ Len(new) = n /\ DOMAIN new = 1 .. n
      /\ \A i \in 1 .. n : q[i] \in add /\ new[i].of = q[i] /\ new[i].kind = "good" /\ new[i].by = "auto"
  <2>1. \A i \in 1 .. n : q[i] \in add
    BY <1>1
  <2>2. \A i \in 1 .. n : new[i] = AutoEntry(q[i])
    OBVIOUS
  <2>3. new = [i \in 1 .. n |-> new[i]]
    OBVIOUS
  <2>. HIDE DEF new
  <2>4. new \in [1 .. n -> Entry]
    BY <2>1, <2>2, <2>3, EntryFacts
  <2>5. new \in Seq(Entry) /\ Len(new) = n /\ DOMAIN new = 1 .. n
    BY <1>1, <2>4, MappedSeq
  <2>. QED BY <2>1, <2>2, <2>5, EntryFacts
<1>. HIDE DEF new
<1>3. Len(known) \in Nat /\ DOMAIN known = 1 .. Len(known)
  BY LenProperties
<1>4. /\ all \in Seq(Entry) /\ Len(all) = Len(known) + n
      /\ \A i \in 1 .. Len(known) + n : all[i] = IF i <= Len(known) THEN known[i] ELSE new[i - Len(known)]
  BY <1>2, ConcatProperties
<1>. HIDE DEF all
<1>5. \A i \in 1 .. Len(known) + n :
         \/ i \in 1 .. Len(known) /\ all[i] = known[i]
         \/ i - Len(known) \in 1 .. n /\ all[i] = new[i - Len(known)]
  <2>. TAKE i \in 1 .. Len(known) + n
  <2>1. CASE i <= Len(known)
    BY <1>1, <1>3, <1>4, <2>1
  <2>2. CASE ~(i <= Len(known))
    <3>1. i - Len(known) \in 1 .. n
      BY <1>1, <1>3, <2>2
    <3>. QED BY <1>4, <2>2, <3>1
  <2>. QED BY <2>1, <2>2
<1>6. AllGood(all)
  <2>1. DOMAIN all = 1 .. Len(known) + n
    BY <1>4, LenProperties
  <2>. QED BY <1>2, <1>3, <1>5, <2>1 DEF AllGood
<1>7. ASSUME NEW i \in 1 .. Len(known), NEW j \in 1 .. n PROVE known[i].of # q[j]
  BY <1>1, <1>3 DEF Matches, ToSet
<1>8. ASSUME NEW i \in 1 .. Len(known) + n, NEW j \in 1 .. Len(known) + n,
             all[i].by = "auto", all[j].by = "auto", all[i].of = all[j].of
      PROVE  i = j
  <2>0. i \in Int /\ j \in Int
    BY <1>1, <1>3
  <2>1. CASE i \in 1 .. Len(known) /\ all[i] = known[i] /\ j \in 1 .. Len(known) /\ all[j] = known[j]
    BY <1>3, <1>8, <2>1 DEF LearnedOnce
  <2>2. CASE /\ i - Len(known) \in 1 .. n /\ all[i] = new[i - Len(known)]
             /\ j - Len(known) \in 1 .. n /\ all[j] = new[j - Len(known)]
    <3>1. i - Len(known) = j - Len(known)
      BY <1>1, <1>2, <1>8, <2>2
    <3>. QED BY <1>3, <2>0, <3>1
  <2>. QED BY <1>2, <1>5, <1>7, <1>8, <2>1, <2>2
<1>9. /\ list \in Seq(Entry) /\ Len(list) <= AutoMax /\ Len(list) <= Len(all) /\ DOMAIN list = 1 .. Len(list)
      /\ Len(list) \in Nat /\ Len(list) = (IF Len(all) < AutoMax THEN Len(all) ELSE AutoMax)
      /\ \A i \in 1 .. Len(list) : list[i] = all[i]
  <2>1. list = SubSeq(all, 1, IF Len(all) < AutoMax THEN Len(all) ELSE AutoMax)
    BY DEF NextEntries, all, new, n, q
  <2>. HIDE DEF list
  <2>. QED BY <1>4, <2>1, EntryFacts, CutAt
<1>. HIDE DEF list
<1>10. DOMAIN all = 1 .. Len(known) + n /\ \A i \in 1 .. Len(list) : i \in 1 .. Len(known) + n
  <2>1. DOMAIN all = 1 .. Len(known) + n
    BY <1>4, LenProperties
  <2>2. \A i \in 1 .. Len(list) : i \in 1 .. Len(known) + n
    BY <1>1, <1>3, <1>4, <1>9
  <2>. QED BY <2>1, <2>2
<1>11. AllGood(list) /\ LearnedOnce(list)
  <2>1. AllGood(list)
    BY <1>6, <1>9, <1>10 DEF AllGood
  <2>2. LearnedOnce(list)
    BY <1>8, <1>9, <1>10 DEF LearnedOnce
  <2>. QED BY <2>1, <2>2
<1>12. ASSUME Len(known) <= AutoMax PROVE ToSet(known) \subseteq ToSet(list)
  <2>1. ASSUME NEW i \in 1 .. Len(known)
        PROVE  i \in 1 .. Len(list) /\ list[i] = known[i]
    <3>1. i \in 1 .. Len(list) /\ i <= Len(known) /\ i \in 1 .. Len(known) + n
      BY <1>1, <1>3, <1>4, <1>9, <1>12, EntryFacts
    <3>. QED BY <1>4, <1>9, <3>1
  <2>. QED BY <1>3, <1>9, <2>1 DEF ToSet
<1>. QED BY <1>9, <1>11, <1>12 DEF list

LEMMA RegistryInvInit == RegistryInit => RegistryInv
<1>. SUFFICES ASSUME RegistryInit PROVE RegistryInv
  OBVIOUS
<1>1. PICK s \in SUBSET Signed : entries = [i \in 1 .. Cardinality(s) |-> AutoEntry(SetToSeq(s)[i])]
  BY DEF RegistryInit
<1>. DEFINE n == Cardinality(s)
            q == SetToSeq(s)
<1>2. n \in Nat /\ q \in [1 .. n -> s] /\ (\A i, j \in 1 .. n : q[i] = q[j] => i = j) /\ s \subseteq Program
  <2>1. IsFiniteSet(s) /\ s \subseteq Program
    BY RegistryAssumption, FS_Subset
  <2>. QED BY <2>1, SetAsSeq
<1>3. entries = [i \in 1 .. n |-> AutoEntry(q[i])]
  BY <1>1
<1>. HIDE DEF n, q
<1>4. \A i \in 1 .. n : q[i] \in Signed /\ entries[i] = AutoEntry(q[i]) /\ entries[i] \in Entry
  BY <1>2, <1>3, EntryFacts
<1>5. entries \in Seq(Entry) /\ DOMAIN entries = 1 .. n
  <2>1. entries \in [1 .. n -> Entry]
    BY <1>3, <1>4
  <2>. QED BY <1>2, <2>1, MappedSeq
<1>6. \A i \in 1 .. n : entries[i].by = "auto" /\ entries[i].of = q[i] /\ entries[i].kind = "good"
  BY <1>2, <1>4, EntryFacts
<1>7. RegistryTypes
  <2>1. <<>> \in Seq(Entry) /\ ToSet(entries) \subseteq Entry
    BY <1>4, <1>5 DEF ToSet
  <2>. QED BY <1>5, <2>1 DEF RegistryInit, RegistryTypes, AgentSteps
<1>8. LearnedOnce(entries)
  BY <1>2, <1>5, <1>6 DEF LearnedOnce
<1>9. NextIsSound
  <2>1. LearnedOnce(<<>>) /\ AllGood(<<>>) /\ Len(<<>>) = 0
    BY DEF LearnedOnce, AllGood
  <2>2. 0 <= AutoMax
    BY EntryFacts
  <2>. QED BY <2>1, <2>2 DEF RegistryInit, NextIsSound
<1>10. NothingSpoiled
  <2>1. \A i \in DOMAIN entries : StaleAuto(entries[i])
    BY <1>4, <1>5, <1>6 DEF StaleAuto
  <2>2. AllGood(entries) /\ Fits(entries)
    BY <1>5, <1>6, <2>1 DEF AllGood, Fits
  <2>3. Lasting \subseteq ToSet(entries)
    BY DEF RegistryInit, Lasting
  <2>. QED BY <2>2, <2>3 DEF RegistryInit, NothingSpoiled
<1>. QED BY <1>7, <1>8, <1>9, <1>10 DEF RegistryInv

LEMMA RegistryInvStep == RegistryInv /\ [RegistryNext]_registryVars => RegistryInv'
<1>. SUFFICES ASSUME RegistryInv, [RegistryNext]_registryVars PROVE RegistryInv'
  OBVIOUS
<1>1. RegistryTypes /\ LearnedOnce(entries) /\ NextIsSound /\ (spoiled \/ NothingSpoiled)
  BY DEF RegistryInv
<1>2. /\ <<>> \in Seq(Entry) /\ LearnedOnce(<<>>) /\ AllGood(<<>>) /\ Len(<<>>) <= AutoMax
      /\ Fits(<<>>)
  <2>1. Len(<<>>) = 0 /\ 0 <= AutoMax /\ DOMAIN <<>> = {}
    BY EntryFacts
  <2>. QED BY <2>1 DEF LearnedOnce, AllGood, Fits
<1>3. ASSUME UNCHANGED <<entries, cutOff, consoleAt, next, upToDate, kept, spoiled>>,
             programs' \subseteq Program, found' \in [Console -> SUBSET Program]
      PROVE  RegistryInv'
  <2>1. RegistryTypes'
    BY <1>1, <1>3 DEF RegistryTypes
  <2>2. LearnedOnce(entries)' /\ NextIsSound'
    BY <1>1, <1>3 DEF LearnedOnce, NextIsSound, AllGood
  <2>3. NothingSpoiled => NothingSpoiled'
    BY <1>3 DEF NothingSpoiled, AllGood, Fits, Lasting
  <2>. QED BY <1>1, <1>3, <2>1, <2>2, <2>3 DEF RegistryInv
<1>4. ASSUME NEW c \in Console, DetectAgents(c) PROVE RegistryInv'
  <2>1. RegistryTypes'
    BY <1>1, <1>4 DEF RegistryTypes, DetectAgents, seen, AgentSteps
  <2>2. LearnedOnce(entries)' /\ NextIsSound'
    BY <1>1, <1>4 DEF LearnedOnce, NextIsSound, AllGood, DetectAgents
  <2>3. ASSUME NothingSpoiled PROVE NothingSpoiled'
    <3>1. /\ \A d \in Console : consoleAt'[d] = consoleAt[d] \/ (d = c /\ consoleAt'[d] = "detected")
          /\ consoleAt[c] = "off" /\ upToDate \subseteq Console
          /\ UNCHANGED <<entries, cutOff, next, upToDate, kept>>
      BY <1>1, <1>4 DEF RegistryTypes, DetectAgents, seen
    <3>. QED BY <2>3, <3>1 DEF NothingSpoiled, AllGood, Fits, Lasting
  <2>4. spoiled' = spoiled
    BY <1>4 DEF DetectAgents, seen
  <2>. QED BY <1>1, <2>1, <2>2, <2>3, <2>4 DEF RegistryInv
<1>5. ASSUME NEW c \in Console, AutoRegister(c) PROVE RegistryInv'
  <2>. DEFINE before == RegistryEntries
              known == NotStale(before)
              add == Adopted(known, found[c])
              list == NextEntries(known, add)
  <2>1. /\ before \in Seq(Entry) /\ AllGood(before) /\ LearnedOnce(before)
        /\ ~Torn /\ AllGood(entries) => ToSet(before) = ToSet(entries)
        /\ ~Torn /\ AllGood(entries) /\ Fits(entries) => Fits(before)
    BY <1>1, ReadFacts
  <2>2. add \in SUBSET Program /\ \A p \in add : ~Matches(known, p)
    BY <1>1 DEF RegistryTypes, Adopted
  <2>3. /\ consoleAt[c] = "detected" /\ next' = [next EXCEPT ![c] = list]
        /\ \E a \in {"registered", "up"} : consoleAt' = [consoleAt EXCEPT ![c] = a]
        /\ upToDate' = (IF Torn THEN upToDate \ {c} ELSE upToDate \cup {c})
        /\ found' = [found EXCEPT ![c] = {}]
        /\ UNCHANGED <<entries, cutOff, programs, kept, spoiled>>
    BY <1>5 DEF AutoRegister
  <2>. HIDE DEF before
  <2>4. /\ known \in Seq(Entry) /\ AllGood(known) /\ LearnedOnce(known)
        /\ ToSet(known) = {e \in ToSet(before) : ~StaleAuto(e)}
        /\ Fits(before) => Len(known) <= AutoMax
    BY <2>1, NotStaleFacts
  <2>. HIDE DEF known
  <2>. HIDE DEF add
  <2>5. /\ list \in Seq(Entry) /\ AllGood(list) /\ LearnedOnce(list) /\ Len(list) <= AutoMax
        /\ Len(known) <= AutoMax => ToSet(known) \subseteq ToSet(list)
    BY <2>2, <2>4, NextEntriesFacts
  <2>. HIDE DEF list
  <2>6. RegistryTypes'
    <3>1. next' \in [Console -> Seq(Entry)] /\ consoleAt' \in [Console -> AgentSteps]
      BY <1>1, <2>3, <2>5 DEF RegistryTypes, AgentSteps
    <3>2. found' \in [Console -> SUBSET Program] /\ upToDate' \subseteq Console
      BY <1>1, <2>3 DEF RegistryTypes
    <3>. QED BY <1>1, <2>3, <3>1, <3>2 DEF RegistryTypes
  <2>7. \A d \in Console : next'[d] = IF d = c THEN list ELSE next[d]
    BY <1>1, <2>3 DEF RegistryTypes
  <2>8. NextIsSound' /\ LearnedOnce(entries)'
    <3>1. NextIsSound'
      BY <1>1, <2>5, <2>7 DEF NextIsSound, LearnedOnce, AllGood
    <3>. QED BY <1>1, <2>3, <3>1 DEF LearnedOnce
  <2>9. ASSUME NothingSpoiled PROVE NothingSpoiled'
    <3>1. \A d \in Console : consoleAt'[d] = consoleAt[d] \/ (d = c /\ consoleAt'[d] \in {"registered", "up"})
      BY <1>1, <2>3 DEF RegistryTypes
    <3>2. AllGood(entries)' /\ Fits(entries)' /\ ~cutOff' /\ Lasting' = Lasting
      BY <2>3, <2>9 DEF NothingSpoiled, AllGood, Fits, Lasting
    <3>3. CASE ~Torn
      <4>1. \A d \in Console : consoleAt[d] # "writing" /\ consoleAt'[d] # "writing"
        BY <2>3, <3>1, <3>3 DEF Torn
      <4>2. Lasting \subseteq ToSet(entries)
        BY <2>9, <4>1 DEF NothingSpoiled
      <4>3. Lasting \subseteq ToSet(list)
        <5>1. AllGood(entries) /\ Fits(entries)
          BY <2>9 DEF NothingSpoiled
        <5>2. Lasting \subseteq ToSet(known)
          BY <2>1, <2>4, <3>3, <4>2, <5>1 DEF Lasting
        <5>. QED BY <2>1, <2>4, <2>5, <3>3, <5>1, <5>2
      <4>4. ToSet(entries)' = ToSet(entries)
        BY <2>3
      <4>5. ASSUME NEW d \in upToDate', consoleAt'[d] = "registered" PROVE Lasting' \subseteq ToSet(next'[d])
        <5>1. d \in Console /\ (d = c \/ (d \in upToDate /\ consoleAt[d] = "registered"))
          BY <1>1, <2>3, <3>1, <4>5 DEF RegistryTypes
        <5>. QED BY <2>7, <2>9, <3>2, <4>3, <5>1 DEF NothingSpoiled
      <4>. QED BY <3>2, <4>1, <4>2, <4>4, <4>5 DEF NothingSpoiled
    <3>4. CASE Torn
      <4>1. PICK d \in Console : consoleAt[d] = "writing"
        BY <2>9, <3>4 DEF Torn, NothingSpoiled
      <4>2. d # c /\ consoleAt'[d] = "writing" /\ upToDate' = upToDate \ {c} /\ next'[d] = next[d]
        BY <2>3, <2>7, <3>1, <3>4, <4>1
      <4>3. \A e \in Console : consoleAt'[e] = "writing" => e = d
        BY <2>9, <3>1, <4>1, <4>2 DEF NothingSpoiled
      <4>4. upToDate' \subseteq {d} /\ Lasting' \subseteq ToSet(next'[d])
        BY <2>9, <3>2, <4>1, <4>2 DEF NothingSpoiled
      <4>. QED BY <3>2, <4>2, <4>3, <4>4 DEF NothingSpoiled
    <3>. QED BY <3>3, <3>4
  <2>. QED BY <1>1, <2>3, <2>6, <2>8, <2>9 DEF RegistryInv
<1>6. ASSUME NEW c \in Console, WriteBegins(c) PROVE RegistryInv'
  <2>1. /\ consoleAt[c] = "registered" /\ consoleAt' = [consoleAt EXCEPT ![c] = "writing"]
        /\ entries' = <<>> /\ spoiled' = (spoiled \/ c \notin upToDate) /\ upToDate' = upToDate \cap {c}
        /\ UNCHANGED <<cutOff, programs, found, next, kept>>
    BY <1>6 DEF WriteBegins
  <2>2. RegistryTypes'
    BY <1>1, <1>2, <2>1 DEF RegistryTypes, AgentSteps
  <2>3. LearnedOnce(entries)' /\ NextIsSound'
    BY <1>1, <1>2, <2>1 DEF LearnedOnce, NextIsSound, AllGood
  <2>4. ASSUME NothingSpoiled, c \in upToDate PROVE NothingSpoiled'
    <3>1. \A d \in Console : consoleAt[d] # "writing"
      BY <2>1, <2>4 DEF NothingSpoiled
    <3>2. \A d \in Console : consoleAt'[d] = IF d = c THEN "writing" ELSE consoleAt[d]
      BY <1>1, <2>1 DEF RegistryTypes
    <3>3. Lasting' = Lasting /\ Lasting \subseteq ToSet(next[c])
      BY <2>1, <2>4 DEF NothingSpoiled, Lasting
    <3>4. AllGood(entries)' /\ Fits(entries)'
      BY <1>2, <2>1 DEF AllGood, Fits
    <3>5. upToDate' \subseteq {c} /\ next' = next /\ ~cutOff'
      BY <2>1, <2>4 DEF NothingSpoiled
    <3>. QED BY <3>1, <3>2, <3>3, <3>4, <3>5 DEF NothingSpoiled
  <2>. QED BY <1>1, <2>1, <2>2, <2>3, <2>4 DEF RegistryInv
<1>7. ASSUME NEW c \in Console, WriteEnds(c) PROVE RegistryInv'
  <2>1. /\ consoleAt[c] = "writing" /\ consoleAt' = [consoleAt EXCEPT ![c] = "up"]
        /\ entries' = next[c] /\ cutOff' = FALSE
        /\ kept' = {e \in kept : ~StaleAuto(e)} \cup ToSet(next[c])
        /\ upToDate' = {} /\ next' = [next EXCEPT ![c] = <<>>]
        /\ UNCHANGED <<programs, found, spoiled>>
    BY <1>7 DEF WriteEnds
  <2>2. next[c] \in Seq(Entry) /\ ToSet(next[c]) \subseteq Entry
    <3>1. next[c] \in Seq(Entry)
      BY <1>1 DEF RegistryTypes
    <3>. QED BY <3>1, ElementOfSeq, LenProperties DEF ToSet
  <2>3. RegistryTypes'
    BY <1>1, <1>2, <2>1, <2>2 DEF RegistryTypes, AgentSteps
  <2>4. \A d \in Console : next'[d] = IF d = c THEN <<>> ELSE next[d]
    BY <1>1, <2>1 DEF RegistryTypes
  <2>5. LearnedOnce(entries)' /\ NextIsSound'
    <3>1. LearnedOnce(next[c]) /\ AllGood(next[c])
      BY <1>1 DEF NextIsSound
    <3>2. NextIsSound'
      BY <1>1, <1>2, <2>4 DEF NextIsSound, LearnedOnce, AllGood
    <3>. QED BY <2>1, <3>1, <3>2 DEF LearnedOnce
  <2>6. ASSUME NothingSpoiled PROVE NothingSpoiled'
    <3>1. \A d \in Console : consoleAt'[d] # "writing"
      BY <1>1, <2>1, <2>6 DEF NothingSpoiled, RegistryTypes
    <3>2. Lasting' \subseteq ToSet(next[c])
      BY <2>1, <2>6 DEF NothingSpoiled, Lasting
    <3>3. ToSet(entries)' = ToSet(next[c])
      BY <2>1
    <3>4. AllGood(next[c]) /\ Len(next[c]) <= AutoMax
      BY <1>1 DEF NextIsSound
    <3>5. AllGood(entries)' /\ Fits(entries)'
      BY <2>1, <3>4 DEF AllGood, Fits
    <3>. QED BY <2>1, <3>1, <3>2, <3>3, <3>5 DEF NothingSpoiled
  <2>. QED BY <1>1, <2>1, <2>3, <2>5, <2>6 DEF RegistryInv
<1>8. ASSUME NEW c \in Console, ConsoleEnds(c) PROVE RegistryInv'
  <2>1. /\ consoleAt[c] \in {"writing", "up"} /\ consoleAt' = [consoleAt EXCEPT ![c] = "off"]
        /\ next' = [next EXCEPT ![c] = <<>>]
        /\ cutOff' = (cutOff \/ consoleAt[c] = "writing")
        /\ spoiled' = (spoiled \/ consoleAt[c] = "writing")
        /\ upToDate' = upToDate \ {c}
        /\ UNCHANGED <<entries, programs, found, kept>>
    BY <1>8 DEF ConsoleEnds
  <2>2. RegistryTypes'
    BY <1>1, <1>2, <2>1 DEF RegistryTypes, AgentSteps
  <2>3. \A d \in Console : next'[d] = (IF d = c THEN <<>> ELSE next[d])
                           /\ consoleAt'[d] = (IF d = c THEN "off" ELSE consoleAt[d])
    BY <1>1, <2>1 DEF RegistryTypes
  <2>4. LearnedOnce(entries)' /\ NextIsSound'
    <3>1. NextIsSound'
      BY <1>1, <1>2, <2>3 DEF NextIsSound, LearnedOnce, AllGood
    <3>. QED BY <1>1, <2>1, <3>1 DEF LearnedOnce
  <2>5. ASSUME NothingSpoiled, consoleAt[c] # "writing" PROVE NothingSpoiled'
    <3>1. Lasting' = Lasting /\ AllGood(entries)' /\ Fits(entries)' /\ ~cutOff' /\ entries' = entries
      BY <2>1, <2>5 DEF NothingSpoiled, AllGood, Fits, Lasting
    <3>2. upToDate \subseteq Console /\ upToDate' \subseteq upToDate /\ c \notin upToDate'
      BY <1>1, <2>1 DEF RegistryTypes
    <3>3. ASSUME NEW d \in Console, consoleAt'[d] = "writing"
          PROVE  /\ upToDate' \subseteq {d} /\ Lasting' \subseteq ToSet(next'[d])
                 /\ \A e \in Console : consoleAt'[e] = "writing" => e = d
      BY <2>3, <2>5, <3>1, <3>2, <3>3 DEF NothingSpoiled
    <3>4. (\A d \in Console : consoleAt'[d] # "writing") => Lasting' \subseteq ToSet(entries')
      <4>1. (\A d \in Console : consoleAt'[d] # "writing") => \A d \in Console : consoleAt[d] # "writing"
        BY <2>3, <2>5
      <4>. QED BY <2>5, <3>1, <4>1 DEF NothingSpoiled
    <3>5. ASSUME NEW d \in upToDate', consoleAt'[d] = "registered" PROVE Lasting' \subseteq ToSet(next'[d])
      BY <2>3, <2>5, <3>1, <3>2, <3>5 DEF NothingSpoiled
    <3>. QED BY <3>1, <3>3, <3>4, <3>5 DEF NothingSpoiled
  <2>. QED BY <1>1, <2>1, <2>2, <2>4, <2>5 DEF RegistryInv
<1>9. ASSUME ~Torn, entries' \in Seq(Entry), LearnedOnce(entries'), kept' \subseteq Entry, upToDate' = {},
             UNCHANGED <<cutOff, programs, consoleAt, found, next>>,
             NothingSpoiled /\ ~spoiled' =>
               AllGood(entries') /\ Fits(entries') /\ Lasting' \subseteq ToSet(entries'),
             spoiled => spoiled'
      PROVE  RegistryInv'
  <2>1. RegistryTypes'
    BY <1>1, <1>9 DEF RegistryTypes
  <2>2. LearnedOnce(entries)' /\ NextIsSound'
    BY <1>1, <1>9 DEF LearnedOnce, NextIsSound, AllGood
  <2>3. ASSUME NothingSpoiled, ~spoiled' PROVE NothingSpoiled'
    <3>1. \A d \in Console : consoleAt'[d] # "writing"
      BY <1>9 DEF Torn
    <3>2. AllGood(entries)' /\ Fits(entries)'
      BY <1>9, <2>3 DEF AllGood, Fits
    <3>. QED BY <1>9, <2>3, <3>1, <3>2 DEF NothingSpoiled
  <2>. QED BY <1>1, <1>9, <2>1, <2>2, <2>3 DEF RegistryInv
<1>10. ASSUME NEW p \in Program, NEW kind \in {"good", "bad", "named"}, AddByHand(p, kind) PROVE RegistryInv'
  <2>. DEFINE e == [by |-> "hand", of |-> p, kind |-> kind]
              n == Len(entries)
  <2>1. /\ ~Torn /\ entries' = Append(entries, e) /\ kept' = kept \cup {e} /\ upToDate' = {}
        /\ spoiled' = (spoiled \/ kind # "good" \/ n >= AutoMax)
        /\ UNCHANGED <<cutOff, programs, consoleAt, found, next>>
    BY <1>10 DEF AddByHand
  <2>2. e \in Entry /\ e.by = "hand" /\ e.kind = kind
    BY DEF Entry
  <2>. HIDE DEF e
  <2>3. entries \in Seq(Entry) /\ kept \subseteq Entry /\ n \in Nat /\ DOMAIN entries = 1 .. n
    <3>1. entries \in Seq(Entry) /\ kept \subseteq Entry
      BY <1>1 DEF RegistryTypes
    <3>. QED BY <3>1, LenProperties
  <2>. HIDE DEF n
  <2>4. /\ entries' \in Seq(Entry) /\ Len(entries') = n + 1 /\ DOMAIN entries' = 1 .. n + 1
        /\ \A i \in 1 .. n : entries'[i] = entries[i]
        /\ entries'[n + 1] = e
    <3>1. /\ entries' \in Seq(Entry) /\ Len(entries') = n + 1
          /\ \A i \in 1 .. n : entries'[i] = entries[i]
          /\ entries'[n + 1] = e
      BY <2>1, <2>2, <2>3, AppendProperties DEF n
    <3>. QED BY <3>1, LenProperties
  <2>5. \A i \in 1 .. n + 1 : i \in 1 .. n \/ i = n + 1
    BY <2>3
  <2>6. LearnedOnce(entries')
    BY <1>1, <2>2, <2>3, <2>4, <2>5 DEF LearnedOnce
  <2>7. ASSUME NothingSpoiled, ~spoiled'
        PROVE  AllGood(entries') /\ Fits(entries') /\ Lasting' \subseteq ToSet(entries')
    <3>1. AllGood(entries) /\ kind = "good" /\ ~(n >= AutoMax)
      BY <2>1, <2>7 DEF NothingSpoiled
    <3>2. AllGood(entries')
      BY <2>2, <2>3, <2>4, <2>5, <3>1 DEF AllGood
    <3>3. Fits(entries')
      BY <2>3, <2>4, <3>1, EntryFacts DEF Fits
    <3>4. Lasting \subseteq ToSet(entries)
      BY <2>1, <2>7 DEF NothingSpoiled, Torn
    <3>5. ToSet(entries) \subseteq ToSet(entries') /\ e \in ToSet(entries')
      <4>1. \A i \in 1 .. n : i \in 1 .. n + 1
        BY <2>3
      <4>2. n + 1 \in 1 .. n + 1
        BY <2>3
      <4>. QED BY <2>3, <2>4, <4>1, <4>2 DEF ToSet
    <3>6. Lasting' \subseteq Lasting \cup {e}
      BY <2>1 DEF Lasting
    <3>. QED BY <3>2, <3>3, <3>4, <3>5, <3>6
  <2>. QED BY <1>9, <2>1, <2>2, <2>3, <2>4, <2>6, <2>7
<1>11. ASSUME NEW k \in DOMAIN entries, DeleteByHand(k) PROVE RegistryInv'
  <2>. DEFINE n == Len(entries)
  <2>1. /\ ~Torn /\ entries' = RemoveAt(entries, k) /\ kept' = kept \ {entries[k]} /\ upToDate' = {}
        /\ UNCHANGED <<cutOff, programs, consoleAt, found, next, spoiled>>
    BY <1>11 DEF DeleteByHand
  <2>2. entries \in Seq(Entry) /\ kept \subseteq Entry /\ n \in Nat /\ DOMAIN entries = 1 .. n
    <3>1. entries \in Seq(Entry) /\ kept \subseteq Entry
      BY <1>1 DEF RegistryTypes
    <3>. QED BY <3>1, LenProperties
  <2>3. /\ entries' \in Seq(Entry) /\ Len(entries') = n - 1 /\ DOMAIN entries' = 1 .. n - 1
        /\ \A i \in 1 .. n - 1 :
             /\ i \in 1 .. n /\ i + 1 \in 1 .. n
             /\ entries'[i] = IF i < k THEN entries[i] ELSE entries[i + 1]
    BY <2>1, <2>2, WithoutOne
  <2>. HIDE DEF n
  <2>. DEFINE places == [i \in 1 .. n - 1 |-> IF i < k THEN i ELSE i + 1]
  <2>4. \A i \in 1 .. n - 1 : places[i] \in 1 .. n /\ entries'[i] = entries[places[i]]
    BY <2>3
  <2>5. \A i, j \in 1 .. n - 1 : places[i] = places[j] => i = j
    BY <2>2
  <2>6. \A i \in 1 .. n : i # k => \E j \in 1 .. n - 1 : places[j] = i
    <3>. TAKE i \in 1 .. n
    <3>. SUFFICES ASSUME i # k PROVE \E j \in 1 .. n - 1 : places[j] = i
      OBVIOUS
    <3>0. k \in 1 .. n
      BY <2>2
    <3>1. CASE i < k
      <4>1. i \in 1 .. n - 1 /\ places[i] = i
        BY <2>2, <3>0, <3>1
      <4>. QED BY <4>1
    <3>2. CASE ~(i < k)
      <4>1. i - 1 \in 1 .. n - 1 /\ ~(i - 1 < k) /\ (i - 1) + 1 = i
        BY <2>2, <3>0, <3>2
      <4>2. places[i - 1] = i
        BY <4>1
      <4>. QED BY <4>1, <4>2
    <3>. QED BY <3>1, <3>2
  <2>. HIDE DEF places
  <2>7. LearnedOnce(entries')
    BY <1>1, <2>2, <2>3, <2>4, <2>5 DEF LearnedOnce
  <2>8. ASSUME NothingSpoiled
        PROVE  AllGood(entries') /\ Fits(entries') /\ Lasting' \subseteq ToSet(entries')
    <3>1. AllGood(entries')
      BY <2>2, <2>3, <2>4, <2>8 DEF AllGood, NothingSpoiled
    <3>2. Fits(entries')
      <4>1. CASE Len(entries) <= AutoMax
        BY <2>2, <2>3, <4>1, EntryFacts DEF Fits, n
      <4>2. CASE \A i \in DOMAIN entries : StaleAuto(entries[i])
        BY <2>2, <2>3, <2>4, <4>2 DEF Fits
      <4>. QED BY <2>8, <4>1, <4>2 DEF NothingSpoiled, Fits
    <3>3. Lasting \subseteq ToSet(entries)
      BY <2>1, <2>8 DEF NothingSpoiled, Torn
    <3>4. ASSUME NEW e \in Lasting' PROVE e \in ToSet(entries')
      <4>1. e \in Lasting /\ e # entries[k]
        BY <2>1, <3>4 DEF Lasting
      <4>2. PICK i \in 1 .. n : e = entries[i] /\ i # k
        BY <2>2, <3>3, <4>1 DEF ToSet
      <4>3. PICK j \in 1 .. n - 1 : places[j] = i
        BY <2>6, <4>2
      <4>. QED BY <2>3, <2>4, <4>2, <4>3 DEF ToSet
    <3>. QED BY <3>1, <3>2, <3>4
  <2>. QED BY <1>9, <2>1, <2>2, <2>3, <2>7, <2>8
<1>12. ASSUME NEW p \in Program, ProgramComesOrGoes(p) PROVE RegistryInv'
  BY <1>1, <1>3, <1>12 DEF ProgramComesOrGoes, RegistryTypes, seen
<1>13. ASSUME NEW p \in Program, StopAgent(p) PROVE RegistryInv'
  BY <1>1, <1>3, <1>13 DEF StopAgent, RegistryTypes, seen
<1>14. ASSUME NEW p \in Program, StartAgent(IdOf[p]) PROVE RegistryInv'
  <2>1. RegistryEntries \in Seq(Entry)
    BY <1>1, ReadFacts
  <2>2. ASSUME NEW i \in DOMAIN RegistryEntries PROVE RegistryEntries[i].of \in Program
    <3>1. i \in 1 .. Len(RegistryEntries)
      BY <2>1, LenProperties
    <3>2. RegistryEntries[i] \in Entry
      BY <2>1, <3>1, ElementOfSeq
    <3>. QED BY <3>2 DEF Entry
  <2>3. programs' \subseteq Program /\ UNCHANGED <<entries, cutOff, consoleAt, found, next, upToDate, kept, spoiled>>
    BY <1>1, <1>14, <2>2 DEF StartAgent, RegistryTypes, seen
  <2>. QED BY <1>1, <1>3, <2>3 DEF RegistryTypes
<1>15. CASE UNCHANGED registryVars
  BY <1>1, <1>3, <1>15 DEF registryVars, seen, RegistryTypes
<1>. QED BY <1>4, <1>5, <1>6, <1>7, <1>8, <1>10, <1>11, <1>12, <1>13, <1>14, <1>15 DEF RegistryNext

LEMMA RegistryInvHolds == RegistryInv => RegistryHolds
<1>. SUFFICES ASSUME RegistryInv PROVE RegistryHolds
  OBVIOUS
<1>1. OneEntryEach
  BY DEF RegistryInv, LearnedOnce, OneEntryEach
<1>2. KeptUnlessSpoiled
  BY DEF RegistryInv, NothingSpoiled, KeptUnlessSpoiled, Torn, Lasting
<1>. QED BY <1>1, <1>2 DEF RegistryHolds

(* The registry of agents keeps what it knows (agent-catalog.js:130, :230):*)
(* a program is adopted by one entry, and no console that comes up loses   *)
(* an entry, unless something the model names came in between.             *)
THEOREM RegistryAlwaysHolds == StoresSpec => []RegistryHolds
<1>1. StoresInit => RegistryInv
  BY RegistryInvInit DEF StoresInit
<1>2. RegistryInv /\ [StoresNext]_storeVars => RegistryInv'
  BY RegistrySteps, RegistryInvStep
<1>. QED BY <1>1, <1>2, RegistryInvHolds, PTL DEF StoresSpec
-----------------------------------------------------------------------------
(* Command lines *)

Stage == [op : Operators \cup {""}, word : Words \cup {""}]
ShellTypes ==
    /\ stages \in Seq(Stage) /\ at \in Nat \ {0} /\ ran \in Seq(Nat) /\ lastExit \in {0, 1}

(* What was executed so far, as the shell would say it                     *)
SoFar == [ran |-> ToSet(ran), exit |-> lastExit, stop |-> FALSE]
PipesAtTheEnd == \A i \in DOMAIN stages : GroupEnd(i) > i => GroupEnd(i) = Len(stages)

(* Between two groups the two have run the same stages.                    *)
AsTheShell ==
    /\ call = "running" =>
         /\ at <= Len(stages) => at = 1 \/ stages[at].op # "|"
         /\ ShellUpTo[IF at - 1 <= Len(stages) THEN at - 1 ELSE Len(stages)] = SoFar
    /\ call = "done" => Shell = SoFar
    /\ call = "error" /\ ran # <<>> => Shell.stop

ShellInv == ShellTypes /\ (PipesAtTheEnd => AsTheShell)

LEMMA TokenStays ==
  ASSUME NEW acc \in [out : Seq(Stage), cur : Stage], NEW token \in Words \cup Operators
  PROVE  Token(acc, token) \in [out : Seq(Stage), cur : Stage]
<1>1. acc.out \in Seq(Stage) /\ acc.cur \in Stage
  OBVIOUS
<1>2. CASE token \in Operators
  <2>. DEFINE new == [op |-> token, word |-> ""]
              out == Append(acc.out, acc.cur)
  <2>1. new \in Stage
    BY <1>2 DEF Stage
  <2>2. out \in Seq(Stage)
    BY <1>1, AppendProperties
  <2>3. Token(acc, token) = [out |-> out, cur |-> new]
    BY <1>2 DEF Token
  <2>. HIDE DEF Stage, new, out
  <2>. QED BY <2>1, <2>2, <2>3
<1>3. CASE token \notin Operators
  <2>1. token \in Words
    BY <1>3
  <2>. DEFINE cur == [acc.cur EXCEPT !.word = IF @ = "" THEN token ELSE @]
  <2>2. cur \in Stage
    BY <1>1, <2>1 DEF Stage
  <2>3. Token(acc, token) = [acc EXCEPT !.cur = cur]
    BY <1>3 DEF Token
  <2>. HIDE DEF Stage, cur
  <2>. QED BY <1>1, <2>2, <2>3
<1>. QED BY <1>2, <1>3

LEMMA ParsedStages ==
  ASSUME NEW words \in Seq(Words \cup Operators)
  PROVE  Parse(words) \in Seq(Stage)
<1>. DEFINE V == [out : Seq(Stage), cur : Stage]
            n == Len(words)
            b == [out |-> <<>>, cur |-> [op |-> "", word |-> ""]]
            turn == [v \in (1 .. n) \X V |-> Token(v[2], words[v[1]])]
            Body(f) == [i \in 0 .. n |-> IF i = 0 THEN b ELSE Token(f[i - 1], words[i])]
            scan == CHOOSE f : f = Body(f)
            all == Append(scan[n].out, scan[n].cur)
<1>1. n \in Nat /\ \A i \in 1 .. n : words[i] \in Words \cup Operators
  BY LenProperties, ElementOfSeq
<1>2. b \in V
  BY DEF Stage
<1>3. turn \in [(1 .. n) \X V -> V]
  BY <1>1, TokenStays
<1>. HIDE DEF V, b, n
<1>. HIDE DEF turn
<1>4. PICK g : Computes(g, V, n, b, turn)
  BY <1>1, <1>2, <1>3, StepByStep
<1>5. ASSUME NEW k \in 1 .. n PROVE g[k] = Token(g[k - 1], words[k])
  <2>1. k - 1 \in 0 .. n
    BY <1>1
  <2>2. <<k, g[k - 1]>> \in (1 .. n) \X V
    BY <1>4, <2>1 DEF Computes
  <2>. QED BY <1>4, <2>2 DEF Computes, turn
<1>6. g = Body(g)
  <2>1. ASSUME NEW k \in 0 .. n PROVE g[k] = IF k = 0 THEN b ELSE Token(g[k - 1], words[k])
    <3>1. k = 0 \/ k \in 1 .. n
      BY <1>1
    <3>. QED BY <1>4, <1>5, <3>1 DEF Computes
  <2>. QED BY <1>4, <2>1 DEF Computes
<1>7. scan = Body(scan)
  BY <1>6
<1>. HIDE DEF scan
<1>8. /\ scan = [k \in 0 .. n |-> scan[k]] /\ scan[0] = b
      /\ \A k \in 1 .. n : scan[k] = Token(scan[k - 1], words[k])
  <2>1. 0 \in 0 .. n /\ \A k \in 1 .. n : k \in 0 .. n /\ k # 0
    BY <1>1
  <2>. QED BY <1>7, <2>1
<1>9. scan \in [0 .. n -> V]
  <2>1. ASSUME NEW k \in 1 .. n, scan[k - 1] \in V PROVE scan[k] \in V
    BY <1>1, <1>8, <2>1, TokenStays DEF V
  <2>2. scan[0] \in V
    BY <1>2, <1>8
  <2>3. scan = [k \in 0 .. n |-> scan[k]]
    BY <1>8
  <2>. QED BY <1>1, <2>1, <2>2, <2>3, StepsStay
<1>10. all \in Seq(Stage)
  <2>1. n \in 0 .. n
    BY <1>1
  <2>2. scan[n].out \in Seq(Stage) /\ scan[n].cur \in Stage
    BY <1>9, <2>1 DEF V
  <2>. QED BY <2>2, AppendProperties
<1>11. Parse(words) = Picked(all, {i \in DOMAIN all : all[i].word # ""})
  BY DEF Parse, scan, b, n
<1>. HIDE DEF all
<1>. DEFINE K == {i \in DOMAIN all : all[i].word # ""}
<1>12. K \in SUBSET DOMAIN all
  OBVIOUS
<1>. HIDE DEF K
<1>13. Picked(all, K) \in Seq(Stage)
  BY <1>10, <1>12, PickedFacts
<1>. QED BY <1>11, <1>13 DEF K

LEMMA GroupEndFacts ==
  ASSUME ShellTypes, NEW i \in 1 .. Len(stages)
  PROVE  /\ GroupEnd(i) \in i .. Len(stages)
         /\ \A k \in i + 1 .. GroupEnd(i) : stages[k].op = "|"
         /\ GroupEnd(i) < Len(stages) => stages[GroupEnd(i) + 1].op # "|"
<1>. DEFINE n == Len(stages)
            T == {j \in i .. n : j = n \/ stages[j + 1].op # "|"}
<1>1. n \in Nat /\ i \in 1 .. n
  BY LenProperties DEF ShellTypes
<1>. HIDE DEF n
<1>2. T \in SUBSET Nat /\ n \in T
  BY <1>1
<1>3. PICK j \in T : \A k \in T : j <= k
  <2>. HIDE DEF T
  <2>. QED BY <1>2, SmallestOf
<1>4. ASSUME NEW k \in i + 1 .. j PROVE stages[k].op = "|"
  <2>1. k - 1 \in i .. n /\ ~(j <= k - 1) /\ k - 1 # n /\ (k - 1) + 1 = k
    BY <1>1, <1>3, <1>4
  <2>. QED BY <1>3, <2>1
<1>5. j \in i .. n /\ (j < n => stages[j + 1].op # "|")
  BY <1>3
<1>. QED BY <1>4, <1>5 DEF GroupEnd, n

(* What the shell does: one group after the other.                         *)
ShellStates == [ran : SUBSET Nat, exit : {0, 1}, stop : BOOLEAN]

LEMMA ShellGroupStays ==
  ASSUME ShellTypes, NEW acc \in ShellStates, NEW i \in 1 .. Len(stages)
  PROVE  ShellGroup(acc, i) \in ShellStates
<1>1. GroupEnd(i) \in i .. Len(stages) /\ Len(stages) \in Nat
  BY GroupEndFacts, LenProperties DEF ShellTypes
<1>2. i .. GroupEnd(i) \subseteq Nat
  BY <1>1
<1>. QED BY <1>2 DEF ShellGroup, ShellStates, Exit

LEMMA ShellFacts ==
  ASSUME ShellTypes
  PROVE  /\ Len(stages) \in Nat
         /\ ShellUpTo \in [0 .. Len(stages) -> ShellStates]
         /\ ShellUpTo[0] = [ran |-> {}, exit |-> 0, stop |-> FALSE]
         /\ \A i \in 1 .. Len(stages) :
              ShellUpTo[i] = IF i = 1 \/ stages[i].op # "|" THEN ShellGroup(ShellUpTo[i - 1], i)
                             ELSE ShellUpTo[i - 1]
<1>. DEFINE V == ShellStates
            n == Len(stages)
            b == [ran |-> {}, exit |-> 0, stop |-> FALSE]
            Then(acc, i) == IF i = 1 \/ stages[i].op # "|" THEN ShellGroup(acc, i) ELSE acc
            turn == [v \in (1 .. n) \X V |-> Then(v[2], v[1])]
            Body(f) == [i \in 0 .. n |-> IF i = 0 THEN b ELSE IF i = 1 \/ stages[i].op # "|" THEN ShellGroup(f[i - 1], i) ELSE f[i - 1]]
            scan == CHOOSE f : f = Body(f)
<1>1. n \in Nat
  BY LenProperties DEF ShellTypes
<1>2. b \in V
  BY DEF ShellStates
<1>3. turn \in [(1 .. n) \X V -> V]
  BY <1>1, ShellGroupStays
<1>. HIDE DEF V, b, n
<1>. HIDE DEF turn
<1>4. PICK g : Computes(g, V, n, b, turn)
  BY <1>1, <1>2, <1>3, StepByStep
<1>5. ASSUME NEW k \in 1 .. n PROVE g[k] = Then(g[k - 1], k)
  <2>1. k - 1 \in 0 .. n
    BY <1>1
  <2>2. <<k, g[k - 1]>> \in (1 .. n) \X V
    BY <1>4, <2>1 DEF Computes
  <2>. QED BY <1>4, <2>2 DEF Computes, turn
<1>6. g = Body(g)
  <2>1. ASSUME NEW k \in 0 .. n PROVE g[k] = IF k = 0 THEN b ELSE Then(g[k - 1], k)
    <3>1. k = 0 \/ k \in 1 .. n
      BY <1>1
    <3>. QED BY <1>4, <1>5, <3>1 DEF Computes
  <2>. QED BY <1>4, <2>1 DEF Computes
<1>7. scan = Body(scan)
  BY <1>6
<1>8. ShellUpTo = scan
  BY DEF ShellUpTo, scan, n, b
<1>. HIDE DEF scan
<1>9. /\ scan = [k \in 0 .. n |-> scan[k]] /\ scan[0] = b
      /\ \A k \in 1 .. n : scan[k] = Then(scan[k - 1], k)
  <2>1. 0 \in 0 .. n /\ \A k \in 1 .. n : k \in 0 .. n /\ k # 0
    BY <1>1
  <2>. QED BY <1>7, <2>1
<1>10. scan \in [0 .. n -> V]
  <2>1. ASSUME NEW k \in 1 .. n, scan[k - 1] \in V PROVE scan[k] \in V
    BY <1>1, <1>9, <2>1, ShellGroupStays DEF V, n
  <2>2. scan[0] \in V
    BY <1>2, <1>9
  <2>3. scan = [k \in 0 .. n |-> scan[k]]
    BY <1>9
  <2>. QED BY <1>1, <2>1, <2>2, <2>3, StepsStay
<1>. QED BY <1>1, <1>8, <1>9, <1>10 DEF V, n, b

(* A shell that stopped runs nothing more, and a pipe is one group.        *)
LEMMA StopsForGood ==
  ASSUME ShellTypes, NEW i \in 0 .. Len(stages), ShellUpTo[i].stop
  PROVE  Shell.stop
<1>. DEFINE n == Len(stages)
            S == {j \in 0 .. n : i <= j => ShellUpTo[j].stop}
<1>1. /\ n \in Nat
      /\ \A j \in 1 .. n : ShellUpTo[j] = IF j = 1 \/ stages[j].op # "|" THEN ShellGroup(ShellUpTo[j - 1], j)
                                          ELSE ShellUpTo[j - 1]
  BY ShellFacts
<1>. HIDE DEF n
<1>2. 0 \in S
  <2>1. i <= 0 => i = 0
    BY <1>1 DEF n
  <2>. QED BY <1>1, <2>1
<1>3. ASSUME NEW j \in 1 .. n, j - 1 \in S PROVE j \in S
  <2>1. i <= j => i = j \/ i <= j - 1
    BY <1>1 DEF n
  <2>2. ShellUpTo[j - 1].stop => ShellUpTo[j].stop
    BY <1>1 DEF ShellGroup
  <2>. QED BY <1>1, <1>3, <2>1, <2>2
<1>4. 0 .. n \subseteq S
  <2>. HIDE DEF S
  <2>. QED BY <1>1, <1>2, <1>3, UpTo
<1>5. n \in S /\ i <= n
  BY <1>1, <1>4 DEF n
<1>. QED BY <1>5 DEF Shell, n

LEMMA APipeIsOne ==
  ASSUME ShellTypes, NEW i \in 1 .. Len(stages), GroupEnd(i) = Len(stages)
  PROVE  Shell = ShellUpTo[i]
<1>. DEFINE n == Len(stages)
            S == {j \in 0 .. n : i <= j => ShellUpTo[j] = ShellUpTo[i]}
<1>1. /\ n \in Nat
      /\ \A j \in 1 .. n : ShellUpTo[j] = IF j = 1 \/ stages[j].op # "|" THEN ShellGroup(ShellUpTo[j - 1], j)
                                          ELSE ShellUpTo[j - 1]
  BY ShellFacts
<1>2. \A k \in i + 1 .. n : stages[k].op = "|"
  BY GroupEndFacts
<1>. HIDE DEF n
<1>3. 0 \in S
  <2>1. ~(i <= 0)
    BY <1>1 DEF n
  <2>. QED BY <1>1, <2>1
<1>4. ASSUME NEW j \in 1 .. n, j - 1 \in S PROVE j \in S
  <2>1. i <= j => i = j \/ (i <= j - 1 /\ j \in i + 1 .. n /\ j # 1)
    BY <1>1 DEF n
  <2>. QED BY <1>1, <1>2, <1>4, <2>1
<1>5. 0 .. n \subseteq S
  <2>. HIDE DEF S
  <2>. QED BY <1>1, <1>3, <1>4, UpTo
<1>6. n \in S /\ i <= n
  BY <1>1, <1>5 DEF n
<1>. QED BY <1>6 DEF Shell, n

LEMMA ShellInvInit == ShellInit \/ ShellIdle => ShellInv
<1>1. ASSUME ShellInit \/ ShellIdle PROVE ShellTypes
  <2>1. stages \in Seq(Stage)
    <3>1. CASE ShellInit
      <4>1. PICK words \in Lines : stages = Parse(words)
        BY <3>1 DEF ShellInit
      <4>2. words \in Seq(Words \cup Operators)
        BY <4>1, LinesAssumption
      <4>. QED BY <4>1, <4>2, ParsedStages
    <3>2. CASE ShellIdle
      BY <3>2 DEF ShellIdle
    <3>. QED BY <1>1, <3>1, <3>2
  <2>2. at = 1 /\ ran = <<>> /\ lastExit = 0
    BY <1>1 DEF ShellInit, ShellIdle
  <2>. QED BY <2>1, <2>2 DEF ShellTypes
<1>2. ASSUME ShellInit \/ ShellIdle PROVE AsTheShell
  <2>1. at = 1 /\ ran = <<>> /\ lastExit = 0 /\ call # "done"
    BY <1>2 DEF ShellInit, ShellIdle
  <2>2. Len(stages) \in Nat /\ ShellUpTo[0] = [ran |-> {}, exit |-> 0, stop |-> FALSE]
    BY <1>1, <1>2, ShellFacts
  <2>3. (IF at - 1 <= Len(stages) THEN at - 1 ELSE Len(stages)) = 0
    BY <2>1, <2>2
  <2>4. ToSet(ran) = {}
    BY <2>1 DEF ToSet
  <2>5. SoFar = [ran |-> {}, exit |-> 0, stop |-> FALSE]
    BY <2>1, <2>4 DEF SoFar
  <2>. QED BY <2>1, <2>2, <2>3, <2>5 DEF AsTheShell
<1>. QED BY <1>1, <1>2 DEF ShellInv

(* One round of the loop does what the shell does with that group.         *)
LEMMA RoundFacts ==
  ASSUME ShellTypes, RunGroup
  PROVE  /\ ShellTypes' /\ stages' = stages
         /\ PipesAtTheEnd /\ AsTheShell =>
              /\ call' \in {"running", "error"}
              /\ call' = "running" =>
                   /\ at' <= Len(stages) => stages[at'].op # "|"
                   /\ ShellUpTo[IF at' - 1 <= Len(stages) THEN at' - 1 ELSE Len(stages)] = SoFar'
              /\ call' = "error" => Shell.stop
<1>. DEFINE n == Len(stages)
            last == GroupEnd(at)
<1>1. call = "running" /\ at <= n /\ stages' = stages
  BY DEF RunGroup
<1>2. stages \in Seq(Stage) /\ at \in 1 .. n /\ n \in Nat /\ ran \in Seq(Nat) /\ at \in Nat /\ lastExit \in {0, 1}
  <2>1. stages \in Seq(Stage) /\ at \in Nat \ {0} /\ ran \in Seq(Nat) /\ lastExit \in {0, 1}
    BY DEF ShellTypes
  <2>2. n \in Nat
    BY <2>1, LenProperties
  <2>. QED BY <1>1, <2>1, <2>2
<1>3. /\ last \in at .. n
      /\ last < n => stages[last + 1].op # "|"
  BY <1>2, GroupEndFacts
<1>9. /\ at \in Int /\ last \in Int /\ n \in Int /\ at >= 1 /\ at <= last /\ last <= n
      /\ last = at \/ last > at
  <2>. HIDE DEF n, last
  <2>1. at \in Int /\ last \in Int /\ n \in Int
    BY <1>2, <1>3
  <2>2. at <= last /\ last <= n /\ at >= 1
    BY <1>2, <1>3, <2>1
  <2>. QED BY <2>1, <2>2
<1>4. /\ ShellUpTo \in [0 .. n -> ShellStates]
      /\ \A i \in 1 .. n : ShellUpTo[i] = IF i = 1 \/ stages[i].op # "|" THEN ShellGroup(ShellUpTo[i - 1], i)
                                          ELSE ShellUpTo[i - 1]
  BY ShellFacts
<1>5. ASSUME PipesAtTheEnd, AsTheShell
      PROVE  /\ ShellUpTo[at] = ShellGroup(SoFar, at)
             /\ last = at \/ (last = n /\ Shell = ShellUpTo[at])
             /\ ShellUpTo[at].stop => Shell.stop
  <2>1. (at = 1 \/ stages[at].op # "|") /\ ShellUpTo[at - 1] = SoFar
    <3>1. at - 1 <= n
      BY <1>1, <1>2
    <3>. QED BY <1>1, <1>5, <3>1 DEF AsTheShell
  <2>2. ShellUpTo[at] = ShellGroup(SoFar, at)
    BY <1>2, <1>4, <2>1
  <2>3. last = at \/ (last = n /\ Shell = ShellUpTo[at])
    <3>1. last = at \/ last > at
      BY <1>9
    <3>2. last > at => last = n
      <4>1. at \in DOMAIN stages
        BY <1>2, LenProperties
      <4>. QED BY <1>5, <4>1 DEF PipesAtTheEnd
    <3>. QED BY <1>2, <3>1, <3>2, APipeIsOne
  <2>4. at \in 0 .. Len(stages)
    BY <1>2
  <2>5. ShellUpTo[at].stop => Shell.stop
    BY <2>4, StopsForGood
  <2>. QED BY <2>2, <2>3, <2>5
<1>. HIDE DEF n, last
<1>6. CASE SkipGroup(at, last)
  <2>1. /\ ~Runs(stages[at].op, lastExit) /\ at' = last + 1 + (last - at)
        /\ UNCHANGED <<lastExit, ran, call>>
    BY <1>6 DEF SkipGroup, After
  <2>2. at' \in Nat \ {0} /\ at' >= last + 1
    BY <1>9, <2>1
  <2>3. ShellTypes'
    BY <1>1, <1>2, <2>1, <2>2 DEF ShellTypes
  <2>4. ASSUME PipesAtTheEnd, AsTheShell
        PROVE  /\ at' <= n => stages[at'].op # "|"
               /\ ShellUpTo[IF at' - 1 <= n THEN at' - 1 ELSE n] = SoFar'
    <3>1. SoFar' = SoFar
      BY <2>1 DEF SoFar
    <3>2. ShellUpTo[at] = SoFar
      <4>1. ShellGroup(SoFar, at) = SoFar
        BY <2>1 DEF ShellGroup, Runs, SoFar
      <4>. QED BY <1>5, <2>4, <4>1
    <3>3. CASE last = at
      <4>1. at' = at + 1 /\ at' - 1 = at /\ at <= n
        BY <1>9, <2>1, <3>3
      <4>2. at' <= n => last < n /\ at' = last + 1
        BY <1>9, <3>3, <4>1
      <4>3. at' <= n => stages[at'].op # "|"
        BY <1>3, <4>2
      <4>. QED BY <3>1, <3>2, <4>1, <4>3
    <3>4. CASE last = n /\ Shell = ShellUpTo[at]
      <4>1. ~(at' <= n) /\ (IF at' - 1 <= n THEN at' - 1 ELSE n) = n
        <5>1. at' \in Int /\ n \in Int /\ at' >= n + 1
          BY <1>9, <2>2, <3>4
        <5>2. ~(at' <= n)
          BY <5>1
        <5>3. at' - 1 <= n => at' - 1 = n
          <6>1. \A x, y \in Int : x >= y + 1 => (x - 1 <= y => x - 1 = y)
            OBVIOUS
          <6>. QED BY <5>1, <6>1
        <5>. QED BY <5>2, <5>3
      <4>. QED BY <3>1, <3>2, <3>4, <4>1 DEF Shell, n
    <3>. QED BY <1>5, <2>4, <3>3, <3>4
  <2>. QED BY <1>1, <2>1, <2>3, <2>4 DEF n
<1>7. CASE last = at /\ RunSingle(at)
  <2>1. /\ Runs(stages[at].op, lastExit) /\ lastExit' = Exit(stages[at]) /\ at' = at + 1
        /\ IF Resolves(stages[at]) THEN ran' = Append(ran, at) /\ UNCHANGED call
           ELSE UNCHANGED ran /\ call' = "error"
    BY <1>7 DEF RunSingle, Answer
  <2>2. ran' \in Seq(Nat) /\ (Resolves(stages[at]) => ToSet(ran') = ToSet(ran) \cup {at})
    <3>1. Append(ran, at) \in Seq(Nat) /\ ToSet(Append(ran, at)) = ToSet(ran) \cup {at}
      BY <1>2, AppendProperties, ToSetAppend
    <3>. QED BY <1>2, <2>1, <3>1
  <2>3. ShellTypes'
    BY <1>1, <1>2, <2>1, <2>2 DEF ShellTypes, Exit
  <2>4. \A k : k \in at .. at <=> k = at
    BY <1>2
  <2>5. at .. at = {at}
    BY <2>4
  <2>6. ASSUME PipesAtTheEnd, AsTheShell
        PROVE  /\ Resolves(stages[at]) =>
                   /\ at' <= n => stages[at'].op # "|"
                   /\ ShellUpTo[IF at' - 1 <= n THEN at' - 1 ELSE n] = SoFar'
               /\ ~Resolves(stages[at]) => Shell.stop
    <3>1. /\ SoFar.exit = lastExit /\ SoFar.stop = FALSE /\ SoFar.ran = ToSet(ran)
          /\ SoFar' = [ran |-> ToSet(ran'), exit |-> lastExit', stop |-> FALSE]
      BY DEF SoFar
    <3>2. /\ Resolves(stages[at]) => ShellGroup(SoFar, at) = [ran |-> ToSet(ran) \cup {at}, exit |-> Exit(stages[at]), stop |-> FALSE]
          /\ ~Resolves(stages[at]) => ShellGroup(SoFar, at).stop
      <4>1. GroupEnd(at) = at
        BY <1>7 DEF last
      <4>2. CASE Resolves(stages[at])
        BY <2>1, <2>5, <3>1, <4>1, <4>2 DEF ShellGroup, Runs
      <4>3. CASE ~Resolves(stages[at])
        <5>1. ShellGroup(SoFar, at) = [SoFar EXCEPT !.stop = TRUE]
          BY <2>1, <2>5, <3>1, <4>1, <4>3 DEF ShellGroup, Runs
        <5>2. [SoFar EXCEPT !.stop = TRUE].stop = TRUE
          BY DEF SoFar
        <5>. QED BY <4>3, <5>1, <5>2
      <4>. QED BY <4>2, <4>3
    <3>3. Resolves(stages[at]) => ShellUpTo[at] = SoFar'
      BY <1>5, <2>1, <2>2, <2>6, <3>1, <3>2
    <3>4. at' - 1 = at /\ at <= n /\ (at' <= n => last < n /\ at' = last + 1)
      BY <1>7, <1>9, <2>1
    <3>6. (at' <= n => stages[at'].op # "|") /\ (IF at' - 1 <= n THEN at' - 1 ELSE n) = at
      BY <1>3, <3>4
    <3>5. ~Resolves(stages[at]) => Shell.stop
      BY <1>5, <2>6, <3>2
    <3>. QED BY <3>3, <3>5, <3>6
  <2>. QED BY <1>1, <2>1, <2>3, <2>6 DEF n
<1>8. CASE last > at /\ RunPipe(at, last)
  <2>. DEFINE stuck == {k \in at .. last : ~Resolves(stages[k])}
              far == IF stuck = {} THEN last ELSE (CHOOSE k \in stuck : \A l \in stuck : k <= l) - 1
              reached == at .. far
              new == [k \in 1 .. Cardinality(reached) |-> at + k - 1]
  <2>1. /\ Runs(stages[at].op, lastExit) /\ ran' = ran \o new
        /\ IF stuck = {} THEN lastExit' = Exit(stages[last]) /\ at' = last + 1 + (last - at) /\ UNCHANGED call
           ELSE call' = "error" /\ UNCHANGED <<lastExit, at>>
    BY <1>8 DEF RunPipe, After
  <2>2. far \in Int
    <3>1. stuck \in SUBSET Nat
      BY <1>2
    <3>. DEFINE least == CHOOSE k \in stuck : \A l \in stuck : k <= l
    <3>2. far = IF stuck = {} THEN last ELSE least - 1
      OBVIOUS
    <3>. HIDE DEF stuck, far
    <3>3. ASSUME stuck # {} PROVE least \in Nat
      <4>1. PICK m \in stuck : \A l \in stuck : m <= l
        BY <3>1, <3>3, SmallestOf
      <4>2. least \in stuck
        BY <4>1
      <4>. QED BY <3>1, <4>2
    <3>. HIDE DEF least
    <3>. QED BY <1>9, <3>2, <3>3
  <2>. HIDE DEF far
  <2>3. Cardinality(reached) = IF at > far THEN 0 ELSE far - at + 1
    BY <1>2, <2>2, FS_Interval
  <2>4. new \in Seq(Nat) /\ ToSet(new) = reached
    <3>. DEFINE m == Cardinality(reached)
    <3>1. m \in Nat /\ \A k \in 1 .. m : at + k - 1 \in Nat /\ at + k - 1 \in reached
      BY <1>2, <2>2, <2>3
    <3>2. \A i \in reached : i - at + 1 \in 1 .. m /\ at + (i - at + 1) - 1 = i
      BY <1>2, <2>2, <2>3
    <3>3. new \in [1 .. m -> Nat] /\ \A k \in 1 .. m : new[k] = at + k - 1
      BY <3>1
    <3>. HIDE DEF new, m
    <3>4. new \in Seq(Nat) /\ DOMAIN new = 1 .. m
      BY <3>1, <3>3, MappedSeq
    <3>. HIDE DEF reached
    <3>5. ToSet(new) = {new[k] : k \in 1 .. m}
      BY <3>4 DEF ToSet
    <3>6. \A i \in reached : \E k \in 1 .. m : new[k] = i
      BY <3>2, <3>3
    <3>. QED BY <3>1, <3>3, <3>4, <3>5, <3>6
  <2>. HIDE DEF new
  <2>5. ran' \in Seq(Nat) /\ ToSet(ran') = ToSet(ran) \cup reached
    <3>1. ran \o new \in Seq(Nat) /\ ToSet(ran \o new) = ToSet(ran) \cup ToSet(new)
      BY <1>2, <2>4, ConcatProperties, ToSetConcat
    <3>. QED BY <2>1, <2>4, <3>1
  <2>6. at' \in Nat \ {0} /\ (stuck = {} => at' >= last + 1)
    BY <1>2, <1>9, <2>1
  <2>7. ShellTypes'
    BY <1>1, <1>2, <2>1, <2>5, <2>6 DEF ShellTypes, Exit
  <2>8. ASSUME PipesAtTheEnd, AsTheShell
        PROVE  /\ stuck = {} => ~(at' <= n) /\ ShellUpTo[IF at' - 1 <= n THEN at' - 1 ELSE n] = SoFar'
               /\ stuck # {} => Shell.stop
    <3>1. last = n /\ Shell = ShellUpTo[at] /\ ShellUpTo[at] = ShellGroup(SoFar, at)
      BY <1>2, <1>3, <1>5, <1>8, <2>8
    <3>2. /\ SoFar.exit = lastExit /\ SoFar.stop = FALSE /\ SoFar.ran = ToSet(ran)
          /\ SoFar' = [ran |-> ToSet(ran'), exit |-> lastExit', stop |-> FALSE]
      BY DEF SoFar
    <3>3. GroupEnd(at) = last
      BY DEF last
    <3>4. ASSUME stuck = {} PROVE ~(at' <= n) /\ ShellUpTo[IF at' - 1 <= n THEN at' - 1 ELSE n] = SoFar'
      <4>1. ~(\E k \in at .. last : ~Resolves(stages[k]))
        BY <3>4
      <4>2. ShellGroup(SoFar, at) = [ran |-> ToSet(ran) \cup (at .. last), exit |-> Exit(stages[last]), stop |-> FALSE]
        BY <2>1, <3>2, <3>3, <4>1 DEF ShellGroup, Runs
      <4>3. reached = at .. last
        BY <3>4 DEF far
      <4>4. ~(at' <= n) /\ (IF at' - 1 <= n THEN at' - 1 ELSE n) = n
        <5>1. at' \in Int /\ n \in Int /\ at' >= n + 1
          BY <1>9, <2>6, <3>1, <3>4
        <5>2. ~(at' <= n)
          BY <5>1
        <5>3. at' - 1 <= n => at' - 1 = n
          <6>1. \A x, y \in Int : x >= y + 1 => (x - 1 <= y => x - 1 = y)
            OBVIOUS
          <6>. QED BY <5>1, <6>1
        <5>. QED BY <5>2, <5>3
      <4>5. SoFar' = Shell
        BY <2>1, <2>5, <3>1, <3>2, <3>4, <4>2, <4>3
      <4>. QED BY <4>4, <4>5 DEF Shell, n
    <3>5. ASSUME stuck # {} PROVE Shell.stop
      <4>1. \E k \in at .. last : ~Resolves(stages[k])
        BY <3>5
      <4>2. ShellGroup(SoFar, at) = [SoFar EXCEPT !.stop = TRUE]
        BY <2>1, <3>2, <3>3, <4>1 DEF ShellGroup, Runs
      <4>3. [SoFar EXCEPT !.stop = TRUE].stop = TRUE
        BY DEF SoFar
      <4>. QED BY <3>1, <4>2, <4>3
    <3>. QED BY <3>4, <3>5
  <2>. HIDE DEF stuck
  <2>. QED BY <1>1, <2>1, <2>7, <2>8 DEF n
<1>. QED BY <1>6, <1>7, <1>8 DEF RunGroup, last

LEMMA ShellInvStep == ShellInv /\ [ShellNext]_shellVars => ShellInv'
<1>. SUFFICES ASSUME ShellInv, [ShellNext]_shellVars PROVE ShellInv'
  OBVIOUS
<1>1. ShellTypes /\ (PipesAtTheEnd => AsTheShell)
  BY DEF ShellInv
<1>2. stages' = stages
  BY DEF ShellNext, RunGroup, EndOfLine, StartInBackground, shellVars
<1>3. ShellUpTo' = ShellUpTo
  BY <1>2 DEF ShellUpTo, ShellGroup, GroupEnd
<1>4. Shell' = Shell /\ Len(stages)' = Len(stages) /\ PipesAtTheEnd' = PipesAtTheEnd
  <2>1. PipesAtTheEnd' = PipesAtTheEnd
    BY <1>2 DEF PipesAtTheEnd, GroupEnd
  <2>. QED BY <1>2, <1>3, <2>1 DEF Shell
<1>5. CASE RunGroup
  <2>1. /\ ShellTypes'
        /\ PipesAtTheEnd /\ AsTheShell =>
              /\ call' \in {"running", "error"}
              /\ call' = "running" =>
                   /\ at' <= Len(stages) => stages[at'].op # "|"
                   /\ ShellUpTo[IF at' - 1 <= Len(stages) THEN at' - 1 ELSE Len(stages)] = SoFar'
              /\ call' = "error" => Shell.stop
    BY <1>1, <1>5, RoundFacts
  <2>. QED BY <1>1, <1>2, <1>3, <1>4, <2>1 DEF ShellInv, AsTheShell
<1>6. CASE EndOfLine
  <2>1. call = "running" /\ at > Len(stages) /\ call' = "done" /\ UNCHANGED <<at, lastExit, ran>>
    BY <1>6 DEF EndOfLine, Answer
  <2>2. ShellTypes' /\ SoFar' = SoFar
    BY <1>1, <1>2, <2>1 DEF ShellTypes, SoFar
  <2>3. at \in Nat /\ Len(stages) \in Nat
    BY <1>1, ShellFacts DEF ShellTypes
  <2>4. (IF at - 1 <= Len(stages) THEN at - 1 ELSE Len(stages)) = Len(stages)
    BY <2>1, <2>3
  <2>5. PipesAtTheEnd => Shell = SoFar
    BY <1>1, <2>1, <2>4 DEF AsTheShell, Shell
  <2>. QED BY <1>2, <1>4, <2>1, <2>2, <2>5 DEF ShellInv, AsTheShell
<1>7. CASE StartInBackground
  <2>1. /\ ran = <<>> /\ UNCHANGED <<at, lastExit>>
        /\ (ran' = <<1>> /\ call' = "background") \/ (ran' = ran /\ call' = "error")
    BY <1>7 DEF StartInBackground
  <2>2. <<1>> \in Seq(Nat)
    OBVIOUS
  <2>3. ran' \in Seq(Nat)
    BY <1>1, <2>1, <2>2 DEF ShellTypes
  <2>4. ShellTypes'
    BY <1>1, <1>2, <2>1, <2>3 DEF ShellTypes
  <2>. QED BY <2>1, <2>4 DEF ShellInv, AsTheShell
<1>8. CASE UNCHANGED shellVars
  BY <1>1, <1>2, <1>3, <1>4, <1>8 DEF ShellInv, ShellTypes, AsTheShell, SoFar, shellVars
<1>. QED BY <1>5, <1>6, <1>7, <1>8 DEF ShellNext

LEMMA ShellInvHolds == ShellInv => ChainsAreAShells
<1>. SUFFICES ASSUME ShellInv, call \in {"done", "error"}, stages # <<>>, ran # <<>>, PipesAtTheEnd
     PROVE  /\ (call = "error") = Shell.stop
            /\ call = "done" => ToSet(ran) = Shell.ran /\ lastExit = Shell.exit
  BY DEF ChainsAreAShells, PipesAtTheEnd
<1>1. AsTheShell /\ ShellTypes
  BY DEF ShellInv
<1>2. SoFar.exit = lastExit /\ SoFar.stop = FALSE /\ SoFar.ran = ToSet(ran)
  BY DEF SoFar
<1>3. Shell.stop \in BOOLEAN
  BY <1>1, ShellFacts DEF Shell, ShellStates
<1>. QED BY <1>1, <1>2, <1>3 DEF AsTheShell

LEMMA ShellSteps == [StoresNext]_storeVars => [ShellNext]_shellVars
BY DEF StoresNext, InArea, storeVars

(* A chain of commands runs the stages a shell would run, ends as it would *)
(* and is answered with an error exactly when a stage that was reached     *)
(* cannot run (executeStages, shell.js:350), for every words whose pipes    *)
(* stand at its end.                                                       *)
THEOREM ChainsAreAlwaysAShells == StoresSpec => []ChainsAreAShells
<1>1. StoresInit => ShellInv
  BY ShellInvInit DEF StoresInit
<1>2. ShellInv /\ [StoresNext]_storeVars => ShellInv'
  BY ShellSteps, ShellInvStep
<1>. QED BY <1>1, <1>2, ShellInvHolds, PTL DEF StoresSpec
-----------------------------------------------------------------------------
(* Memories *)

AMemory == [text : Text, space : Spaces, day : Nat, hits : Nat, revoked : BOOLEAN]
AnOrigin == [text : Text, space : Spaces, day : Nat, revoked : BOOLEAN]
MemoryTypes == memories \in Seq(AMemory) /\ days \in Nat /\ origin \subseteq AnOrigin

(* The store holds one entry at most for a theme and a space.              *)
NoneTwice(s) ==
    \A i, j \in DOMAIN s : s[i].space = s[j].space /\ Theme[s[i].text] = Theme[s[j].text] => i = j

(* An entry and its origin say the same; only what is revoked, too old or  *)
(* more than there is room for has an origin and no entry.                 *)
OfOrigin(e, o) == e.text = o.text /\ e.space = o.space
EntriesHaveOrigins ==
    \A i \in DOMAIN memories :
        /\ \E o \in origin : OfOrigin(memories[i], o)
        /\ \A o \in origin : OfOrigin(memories[i], o) => memories[i].day = o.day /\ memories[i].revoked = o.revoked
OriginsHaveEntries ==
    ~full => \A o \in origin : ~o.revoked /\ days - o.day <= TtlDays =>
        \E i \in DOMAIN memories : OfOrigin(memories[i], o)

MemoryInv == MemoryTypes /\ NoneTwice(memories) /\ EntriesHaveOrigins /\ OriginsHaveEntries

LEMMA NoneTwiceOfPart ==
  ASSUME NEW r, NEW s, PartOf(r, s), NoneTwice(s)
  PROVE  NoneTwice(r)
BY DEF PartOf, NoneTwice

(* A prune keeps all that is good, but for one when there is no room.      *)
LEMMA PruneFacts ==
  ASSUME NEW s \in Seq(AMemory), days \in Nat
  PROVE  /\ PruneMemories(s) \in Seq(AMemory) /\ PartOf(PruneMemories(s), s)
         /\ Len(Good(s)) <= MaxMemories =>
              \A i \in DOMAIN s : ~s[i].revoked /\ ~Expired(s[i]) =>
                \E j \in DOMAIN PruneMemories(s) : PruneMemories(s)[j] = s[i]
<1>. DEFINE K == {i \in DOMAIN s : ~s[i].revoked /\ ~Expired(s[i])}
            good == Good(s)
<1>1. K \in SUBSET DOMAIN s /\ good = Picked(s, K)
  BY DEF Good
<1>2. \A i \in DOMAIN s : ~s[i].revoked /\ ~Expired(s[i]) => i \in K
  OBVIOUS
<1>. HIDE DEF K
<1>3. /\ good \in Seq(AMemory) /\ DOMAIN good = 1 .. Len(good) /\ Len(good) \in Nat
      /\ ToSet(good) = {s[k] : k \in K} /\ PartOf(good, s)
  BY <1>1, PickedFacts, PickedIsPart
<1>4. CASE Len(good) <= MaxMemories
  <2>1. PruneMemories(s) = good
    BY <1>4 DEF PruneMemories
  <2>2. \A i \in K : \E j \in DOMAIN good : good[j] = s[i]
    BY <1>3 DEF ToSet
  <2>. HIDE DEF good
  <2>. QED BY <1>2, <1>3, <2>1, <2>2
<1>5. CASE ~(Len(good) <= MaxMemories)
  <2>. DEFINE hits == {good[i].hits : i \in DOMAIN good}
              least == Min(hits)
              T == {i \in DOMAIN good : good[i].hits = least}
              k == Max(T)
  <2>1. Len(good) # 0
    <3>1. Len(good) \in Nat /\ MaxMemories \in Nat /\ ~(Len(good) <= MaxMemories)
      BY <1>5, <1>3, MemoriesAssumption
    <3>. HIDE DEF good
    <3>. QED BY <3>1
  <2>2. hits \in SUBSET Nat /\ hits # {}
    <3>. HIDE DEF good
    <3>1. \A i \in DOMAIN good : good[i] \in AMemory
      BY <1>3, ElementOfSeq
    <3>2. \A i \in DOMAIN good : good[i].hits \in Nat
      BY <3>1 DEF AMemory
    <3>3. 1 \in DOMAIN good
      BY <1>3, <2>1
    <3>. QED BY <3>2, <3>3
  <2>3. least \in hits
    <3>. HIDE DEF hits
    <3>. QED BY <2>2, MinIsSmallest
  <2>4. T # {} /\ T \in SUBSET (0 .. Len(good))
    <3>. HIDE DEF least, good
    <3>1. PICK i \in DOMAIN good : good[i].hits = least
      BY <2>3
    <3>2. T \in SUBSET (0 .. Len(good))
      BY <1>3
    <3>. QED BY <3>1, <3>2
  <2>5. k \in T
    <3>. HIDE DEF T, good
    <3>. QED BY <1>3, <2>4, MaxIsIn
  <2>6. k \in 1 .. Len(good)
    BY <1>3, <2>5
  <2>7. PruneMemories(s) = RemoveAt(good, k)
    BY <1>5 DEF PruneMemories
  <2>. HIDE DEF k, good
  <2>8. RemoveAt(good, k) \in Seq(AMemory) /\ PartOf(RemoveAt(good, k), good)
    BY <1>3, <2>6, WithoutOne, WithoutOneIsPart
  <2>9. PartOf(RemoveAt(good, k), s)
    BY <1>3, <2>8, PartOfPart
  <2>. QED BY <1>5, <2>7, <2>8, <2>9 DEF good
<1>. QED BY <1>4, <1>5

LEMMA MemoryInvInit == MemoryInit => MemoryInv
<1>. SUFFICES ASSUME MemoryInit PROVE MemoryInv
  OBVIOUS
<1>1. memories = <<>> /\ days = 0 /\ origin = {} /\ full = FALSE
  BY DEF MemoryInit
<1>. QED BY <1>1 DEF MemoryInv, MemoryTypes, NoneTwice, EntriesHaveOrigins, OriginsHaveEntries

LEMMA MemoryInvStep == MemoryInv /\ [MemoryNext]_memoryVars => MemoryInv'
<1>. SUFFICES ASSUME MemoryInv, [MemoryNext]_memoryVars PROVE MemoryInv'
  OBVIOUS
<1>1. /\ memories \in Seq(AMemory) /\ days \in Nat /\ origin \subseteq AnOrigin
      /\ NoneTwice(memories) /\ EntriesHaveOrigins /\ OriginsHaveEntries
  BY DEF MemoryInv, MemoryTypes
<1>2. /\ DOMAIN memories = 1 .. Len(memories) /\ Len(memories) \in Nat
      /\ \A i \in DOMAIN memories : memories[i] \in AMemory
  BY <1>1, LenProperties, ElementOfSeq
<1>3. MaxMemories \in Nat /\ TtlDays \in Nat
  BY MemoriesAssumption
<1>4. ASSUME NEW t \in Text, NEW w \in Spaces, Remember(t, w) PROVE MemoryInv'
  <2>. DEFINE one(n) == [text |-> t, space |-> w, day |-> days, hits |-> n, revoked |-> FALSE]
              same == Duplicates(t, w)
              longer == Append(memories, one(1))
              new == [text |-> t, space |-> w, day |-> days, revoked |-> FALSE]
              OfTheTheme(e) == e.space = w /\ Theme[e.text] = Theme[t]
  <2>1. /\ days' = days
        /\ memories' = IF same # {} THEN Append(RemoveAt(memories, Min(same)), one(2)) ELSE PruneMemories(longer)
        /\ full' = (full \/ (same = {} /\ Len(Good(longer)) > MaxMemories))
        /\ origin' = {o \in origin : o.space # w \/ Theme[o.text] # Theme[t]} \cup {new}
    BY <1>4 DEF Remember
  <2>2. /\ one(1) \in AMemory /\ one(2) \in AMemory /\ new \in AnOrigin
        /\ \A n \in {1, 2} : OfOrigin(one(n), new) /\ OfTheTheme(one(n)) /\ ~one(n).revoked /\ one(n).day = days
        /\ \A n \in {1, 2} : one(n).revoked = FALSE
        /\ new.revoked = FALSE
        /\ new.text = t /\ new.space = w /\ ~new.revoked /\ new.day = days
    BY <1>1 DEF AMemory, AnOrigin, OfOrigin
  <2>. HIDE DEF one, new
  <2>3. \A i \in DOMAIN memories : OfTheTheme(memories[i]) <=> i \in same
    BY DEF Duplicates
  <2>5. same \in SUBSET DOMAIN memories
    BY DEF Duplicates
  <2>. HIDE DEF same
  <2>4. ASSUME NEW i \in same, NEW j \in same PROVE i = j
    <3>1. i \in DOMAIN memories /\ j \in DOMAIN memories
      BY <2>5
    <3>2. OfTheTheme(memories[i]) /\ OfTheTheme(memories[j])
      BY <2>3, <3>1
    <3>. QED BY <1>1, <3>1, <3>2 DEF NoneTwice
  <2>6. /\ memories' \in Seq(AMemory) /\ NoneTwice(memories')
        /\ \A i \in DOMAIN memories' :
             \/ \E n \in {1, 2} : memories'[i] = one(n)
             \/ \E j \in DOMAIN memories : memories'[i] = memories[j] /\ ~OfTheTheme(memories[j])
        /\ ~full' =>
             /\ \E i \in DOMAIN memories', n \in {1, 2} : memories'[i] = one(n)
             /\ \A j \in DOMAIN memories : ~OfTheTheme(memories[j]) /\ ~memories[j].revoked /\ ~Expired(memories[j]) =>
                  \E i \in DOMAIN memories' : memories'[i] = memories[j]
    <3>1. CASE same # {}
      <4>. DEFINE k == Min(same)
                  rest == RemoveAt(memories, k)
      <4>1. k \in same
        <5>1. same \in SUBSET Nat
          BY <1>2, <2>5
        <5>. QED BY <3>1, <5>1, MinIsSmallest
      <4>. HIDE DEF k
      <4>2. /\ rest \in Seq(AMemory) /\ PartOf(rest, memories) /\ NoneTwice(rest)
            /\ \A j \in DOMAIN memories : j # k => \E i \in DOMAIN rest : rest[i] = memories[j]
            /\ \A i \in DOMAIN rest : \E j \in DOMAIN memories : j # k /\ rest[i] = memories[j]
        <5>1. k \in 1 .. Len(memories)
          BY <1>2, <2>5, <4>1
        <5>. QED BY <1>1, <5>1, WithoutOne, WithoutOneIsPart, NoneTwiceOfPart
      <4>3. \A j \in DOMAIN memories : j # k <=> ~OfTheTheme(memories[j])
        BY <2>3, <2>4, <4>1
      <4>4. memories' = Append(rest, one(2))
        BY <2>1, <3>1 DEF k
      <4>. HIDE DEF rest
      <4>5. /\ Append(rest, one(2)) \in Seq(AMemory) /\ Len(Append(rest, one(2))) = Len(rest) + 1
            /\ \A i \in 1 .. Len(rest) : Append(rest, one(2))[i] = rest[i]
            /\ Append(rest, one(2))[Len(rest) + 1] = one(2)
        BY <2>2, <4>2, AppendProperties
      <4>6. DOMAIN rest = 1 .. Len(rest) /\ Len(rest) \in Nat
        BY <4>2, LenProperties
      <4>7. DOMAIN memories' = 1 .. Len(rest) + 1
        BY <4>4, <4>5, LenProperties
      <4>8. /\ \A i \in DOMAIN memories' : i \in DOMAIN rest \/ i = Len(rest) + 1
            /\ \A i \in DOMAIN rest : i \in DOMAIN memories'
            /\ Len(rest) + 1 \in DOMAIN memories'
        BY <4>6, <4>7
      <4>9. NoneTwice(memories')
        <5>1. \A i \in DOMAIN rest : ~OfTheTheme(rest[i])
          BY <4>2, <4>3
        <5>2. /\ memories'[Len(rest) + 1] = one(2)
              /\ \A i \in DOMAIN rest : memories'[i] = rest[i]
          BY <4>4, <4>5, <4>6
        <5>. QED BY <2>2, <4>2, <4>8, <5>1, <5>2 DEF NoneTwice
      <4>. QED BY <4>2, <4>3, <4>4, <4>5, <4>6, <4>8, <4>9
    <3>2. CASE same = {}
      <4>1. \A j \in DOMAIN memories : ~OfTheTheme(memories[j])
        BY <2>3, <3>2
      <4>2. /\ longer \in Seq(AMemory) /\ Len(longer) = Len(memories) + 1
            /\ \A i \in 1 .. Len(memories) : longer[i] = memories[i]
            /\ longer[Len(memories) + 1] = one(1)
        BY <1>1, <2>2, AppendProperties
      <4>3. DOMAIN longer = 1 .. Len(memories) + 1
        BY <4>2, LenProperties
      <4>4. /\ \A i \in DOMAIN longer : i \in DOMAIN memories \/ i = Len(memories) + 1
            /\ \A i \in DOMAIN memories : i \in DOMAIN longer
            /\ Len(memories) + 1 \in DOMAIN longer
        BY <1>2, <4>3
      <4>5. NoneTwice(longer)
        BY <1>1, <1>2, <2>2, <4>1, <4>2, <4>4 DEF NoneTwice
      <4>6. memories' = PruneMemories(longer)
        BY <2>1, <3>2
      <4>. HIDE DEF longer
      <4>7. /\ memories' \in Seq(AMemory) /\ PartOf(memories', longer) /\ NoneTwice(memories')
            /\ ~full' => \A i \in DOMAIN longer : ~longer[i].revoked /\ ~Expired(longer[i]) =>
                \E j \in DOMAIN memories' : memories'[j] = longer[i]
        <5>1. /\ PruneMemories(longer) \in Seq(AMemory) /\ PartOf(PruneMemories(longer), longer)
              /\ Len(Good(longer)) <= MaxMemories =>
                   \A i \in DOMAIN longer : ~longer[i].revoked /\ ~Expired(longer[i]) =>
                     \E j \in DOMAIN PruneMemories(longer) : PruneMemories(longer)[j] = longer[i]
          BY <1>1, <4>2, PruneFacts
        <5>2. ~full' => Len(Good(longer)) <= MaxMemories
          <6>1. Len(Good(longer)) \in Nat
            <7>. DEFINE K == {i \in DOMAIN longer : ~longer[i].revoked /\ ~Expired(longer[i])}
            <7>1. K \in SUBSET DOMAIN longer /\ Good(longer) = Picked(longer, K)
              BY DEF Good
            <7>. HIDE DEF K
            <7>. QED BY <4>2, <7>1, PickedFacts
          <6>2. full' = (full \/ (same = {} /\ Len(Good(longer)) > MaxMemories))
            BY <2>1 DEF longer
          <6>. DEFINE size == Len(Good(longer))
          <6>3. size \in Nat /\ (~full' => ~(size > MaxMemories))
            BY <3>2, <6>1, <6>2
          <6>. HIDE DEF size
          <6>4. ~full' => size <= MaxMemories
            BY <1>3, <6>3
          <6>. QED BY <6>4 DEF size
        <5>3. NoneTwice(PruneMemories(longer))
          BY <4>5, <5>1, NoneTwiceOfPart
        <5>. QED BY <4>6, <5>1, <5>2, <5>3
      <4>8. \A i \in DOMAIN memories' : \E j \in DOMAIN longer : memories'[i] = longer[j]
        BY <4>7 DEF PartOf
      <4>9. ~Expired(one(1))
        BY <1>1, <1>3, <2>2 DEF Expired
      <4>10. ~full' => \E i \in DOMAIN memories', n \in {1, 2} : memories'[i] = one(n)
        BY <2>2, <4>2, <4>4, <4>7, <4>9
      <4>. QED BY <1>2, <4>1, <4>2, <4>4, <4>7, <4>8, <4>10
    <3>. QED BY <3>1, <3>2
  <2>7. origin' \subseteq AnOrigin
    BY <1>1, <2>1, <2>2
  <2>8. \A e \in AMemory, o \in AnOrigin : OfOrigin(e, o) => (OfTheTheme(e) <=> OfTheTheme(o))
    BY DEF OfOrigin
  <2>9. /\ \A o \in origin : ~OfTheTheme(o) => o \in origin'
        /\ new \in origin'
        /\ \A o \in origin' : o = new \/ (o \in origin /\ ~OfTheTheme(o))
    BY <2>1
  <2>10. OfTheTheme(new)
    BY <2>2
  <2>. HIDE DEF OfTheTheme
  <2>11. ASSUME NEW i \in DOMAIN memories'
         PROVE  /\ \E o \in origin' : OfOrigin(memories'[i], o)
                /\ \A o \in origin' : OfOrigin(memories'[i], o) =>
                     memories'[i].day = o.day /\ memories'[i].revoked = o.revoked
    <3>1. CASE \E n \in {1, 2} : memories'[i] = one(n)
      <4>1. PICK n \in {1, 2} : memories'[i] = one(n)
        BY <3>1
      <4>2. ASSUME NEW o \in origin', OfOrigin(one(n), o) PROVE o = new
        <5>1. OfTheTheme(o)
          BY <2>2, <2>7, <2>8, <4>2
        <5>. QED BY <2>9, <5>1
      <4>3. OfOrigin(one(n), new) /\ one(n).day = new.day /\ one(n).revoked = new.revoked
        BY <2>2, <4>1
      <4>4. \E o \in origin' : OfOrigin(memories'[i], o)
        BY <2>9, <4>1, <4>3
      <4>5. \A o \in origin' : OfOrigin(memories'[i], o) =>
                     memories'[i].day = o.day /\ memories'[i].revoked = o.revoked
        BY <4>1, <4>2, <4>3
      <4>. QED BY <4>4, <4>5
    <3>2. CASE \E j \in DOMAIN memories : memories'[i] = memories[j] /\ ~OfTheTheme(memories[j])
      <4>1. PICK j \in DOMAIN memories : memories'[i] = memories[j] /\ ~OfTheTheme(memories[j])
        BY <3>2
      <4>2. \A o \in AnOrigin : OfOrigin(memories[j], o) => ~OfTheTheme(o)
        BY <1>2, <2>8, <4>1
      <4>. QED BY <1>1, <2>2, <2>7, <2>9, <2>10, <4>1, <4>2 DEF EntriesHaveOrigins
    <3>. QED BY <2>6, <3>1, <3>2
  <2>12. ASSUME ~full', NEW o \in origin', ~o.revoked, days - o.day <= TtlDays
         PROVE  \E i \in DOMAIN memories' : OfOrigin(memories'[i], o)
    <3>1. CASE o = new
      BY <2>2, <2>6, <2>12, <3>1
    <3>2. CASE o \in origin /\ ~OfTheTheme(o)
      <4>1. ~full
        BY <2>1, <2>12
      <4>2. PICK j \in DOMAIN memories : OfOrigin(memories[j], o)
        BY <1>1, <2>12, <3>2, <4>1 DEF OriginsHaveEntries
      <4>3. memories[j].day = o.day /\ memories[j].revoked = o.revoked /\ ~OfTheTheme(memories[j])
        BY <1>1, <1>2, <2>8, <3>2, <4>2 DEF EntriesHaveOrigins
      <4>4. o.day \in Nat
        BY <1>1, <3>2 DEF AnOrigin
      <4>5. ~memories[j].revoked /\ ~Expired(memories[j])
        BY <1>1, <1>3, <2>12, <4>3, <4>4 DEF Expired
      <4>. QED BY <2>6, <2>12, <4>2, <4>3, <4>5
    <3>. QED BY <2>9, <3>1, <3>2
  <2>13. MemoryTypes'
    BY <1>1, <2>1, <2>6, <2>7 DEF MemoryTypes
  <2>14. EntriesHaveOrigins'
    BY <2>11 DEF EntriesHaveOrigins, OfOrigin
  <2>15. OriginsHaveEntries'
    BY <2>1, <2>12 DEF OriginsHaveEntries, OfOrigin
  <2>16. NoneTwice(memories)'
    BY <2>6 DEF NoneTwice
  <2>. QED BY <2>13, <2>14, <2>15, <2>16 DEF MemoryInv
<1>5. ASSUME NEW k \in DOMAIN memories, Revoke(k) PROVE MemoryInv'
  <2>. DEFINE m == memories[k]
              Mark(o) == IF OfOrigin(m, o) THEN [o EXCEPT !.revoked = TRUE] ELSE o
  <2>1. /\ memories' = [memories EXCEPT ![k].revoked = TRUE] /\ days' = days /\ full' = full
        /\ origin' = {Mark(o) : o \in origin}
    BY <1>5 DEF Revoke, OfOrigin
  <2>2. m \in AMemory /\ [m EXCEPT !.revoked = TRUE] \in AMemory
    BY <1>2 DEF AMemory
  <2>3. /\ DOMAIN memories' = DOMAIN memories
        /\ \A i \in DOMAIN memories : memories'[i] = IF i = k THEN [m EXCEPT !.revoked = TRUE] ELSE memories[i]
    BY <1>2, <2>1
  <2>4. \A o \in AnOrigin : /\ Mark(o) \in AnOrigin /\ Mark(o).text = o.text /\ Mark(o).space = o.space
                           /\ Mark(o).day = o.day /\ Mark(o).revoked = (OfOrigin(m, o) \/ o.revoked)
    BY DEF AnOrigin
  <2>5. \A i \in DOMAIN memories : /\ memories'[i].text = memories[i].text /\ memories'[i].space = memories[i].space
                                   /\ memories'[i].day = memories[i].day
                                   /\ memories'[i].revoked = (i = k \/ memories[i].revoked)
                                   /\ memories'[i] \in AMemory
    BY <1>2, <2>2, <2>3 DEF AMemory
  <2>. HIDE DEF Mark
  <2>6. memories' \in Seq(AMemory)
    <3>1. memories' = [i \in 1 .. Len(memories) |-> memories'[i]]
      BY <1>2, <2>1, <2>3
    <3>2. memories' \in [1 .. Len(memories) -> AMemory]
      BY <1>2, <2>5, <3>1
    <3>. QED BY <1>2, <3>2, MappedSeq
  <2>7. MemoryTypes'
    BY <1>1, <2>1, <2>4, <2>6 DEF MemoryTypes
  <2>8. NoneTwice(memories)'
    BY <1>1, <2>3, <2>5 DEF NoneTwice
  <2>9. EntriesHaveOrigins'
    <3>1. ASSUME NEW i \in DOMAIN memories, NEW o \in origin
          PROVE  /\ OfOrigin(memories'[i], Mark(o)) <=> OfOrigin(memories[i], o)
                 /\ OfOrigin(memories[i], o) =>
                      memories'[i].day = Mark(o).day /\ memories'[i].revoked = Mark(o).revoked
      <4>1. OfOrigin(memories'[i], Mark(o)) <=> OfOrigin(memories[i], o)
        BY <1>1, <2>4, <2>5 DEF OfOrigin
      <4>2. OfOrigin(memories[i], o) => (OfOrigin(m, o) <=> i = k)
        BY <1>1 DEF OfOrigin, NoneTwice
      <4>. QED BY <1>1, <2>4, <2>5, <4>1, <4>2 DEF EntriesHaveOrigins
    <3>2. ASSUME NEW i \in DOMAIN memories'
          PROVE  /\ \E o \in origin' : OfOrigin(memories'[i], o)
                 /\ \A o \in origin' : OfOrigin(memories'[i], o) =>
                      memories'[i].day = o.day /\ memories'[i].revoked = o.revoked
      <4>1. i \in DOMAIN memories
        BY <2>3
      <4>2. PICK p \in origin : OfOrigin(memories[i], p)
        BY <1>1, <4>1 DEF EntriesHaveOrigins
      <4>3. Mark(p) \in origin' /\ OfOrigin(memories'[i], Mark(p))
        BY <2>1, <3>1, <4>1, <4>2
      <4>4. ASSUME NEW o \in origin', OfOrigin(memories'[i], o)
            PROVE  memories'[i].day = o.day /\ memories'[i].revoked = o.revoked
        <5>1. PICK q \in origin : o = Mark(q)
          BY <2>1
        <5>. QED BY <3>1, <4>1, <4>4, <5>1
      <4>. QED BY <4>3, <4>4
    <3>. QED BY <3>2 DEF EntriesHaveOrigins, OfOrigin
  <2>10. OriginsHaveEntries'
    <3>1. ASSUME ~full, NEW o \in origin, ~Mark(o).revoked, days - Mark(o).day <= TtlDays
          PROVE  \E i \in DOMAIN memories' : OfOrigin(memories'[i], Mark(o))
      <4>1. ~o.revoked /\ days - o.day <= TtlDays
        BY <1>1, <2>4, <3>1
      <4>2. PICK i \in DOMAIN memories : OfOrigin(memories[i], o)
        BY <1>1, <3>1, <4>1 DEF OriginsHaveEntries
      <4>. QED BY <1>1, <2>3, <2>4, <2>5, <4>2 DEF OfOrigin
    <3>2. \A o \in origin' : \E p \in origin : o = Mark(p)
      BY <2>1
    <3>. QED BY <2>1, <3>1, <3>2 DEF OriginsHaveEntries, OfOrigin
  <2>. QED BY <2>7, <2>8, <2>9, <2>10 DEF MemoryInv
<1>6. ASSUME NEW k \in DOMAIN memories, Forgotten(k) PROVE MemoryInv'
  <2>1. /\ memories' = RemoveAt(memories, k) /\ days' = days /\ full' = full
        /\ origin' = {o \in origin : ~OfOrigin(memories[k], o)}
    BY <1>6 DEF Forgotten, OfOrigin
  <2>2. /\ memories' \in Seq(AMemory) /\ NoneTwice(memories')
        /\ \A j \in DOMAIN memories : j # k => \E i \in DOMAIN memories' : memories'[i] = memories[j]
        /\ \A i \in DOMAIN memories' : \E j \in DOMAIN memories : j # k /\ memories'[i] = memories[j]
    <3>1. k \in 1 .. Len(memories)
      BY <1>2
    <3>. QED BY <1>1, <2>1, <3>1, WithoutOne, WithoutOneIsPart, NoneTwiceOfPart
  <2>3. MemoryTypes' /\ NoneTwice(memories)'
    BY <1>1, <2>1, <2>2 DEF MemoryTypes, NoneTwice
  <2>4. \A j \in DOMAIN memories, o \in origin : j # k /\ OfOrigin(memories[j], o) => ~OfOrigin(memories[k], o)
    BY <1>1 DEF OfOrigin, NoneTwice
  <2>5. EntriesHaveOrigins'
    <3>1. ASSUME NEW i \in DOMAIN memories'
          PROVE  /\ \E o \in origin' : OfOrigin(memories'[i], o)
                 /\ \A o \in origin' : OfOrigin(memories'[i], o) =>
                      memories'[i].day = o.day /\ memories'[i].revoked = o.revoked
      BY <1>1, <2>1, <2>2, <2>4 DEF EntriesHaveOrigins
    <3>. QED BY <3>1 DEF EntriesHaveOrigins, OfOrigin
  <2>6. OriginsHaveEntries'
    <3>1. ASSUME ~full, NEW o \in origin', ~o.revoked, days - o.day <= TtlDays
          PROVE  \E i \in DOMAIN memories' : OfOrigin(memories'[i], o)
      <4>1. PICK j \in DOMAIN memories : OfOrigin(memories[j], o)
        BY <1>1, <2>1, <3>1 DEF OriginsHaveEntries
      <4>2. j # k
        BY <2>1, <4>1
      <4>. QED BY <2>2, <4>1, <4>2
    <3>2. ~full => \A o \in origin' : ~o.revoked /\ days - o.day <= TtlDays =>
                \E i \in DOMAIN memories' : memories'[i].text = o.text /\ memories'[i].space = o.space
      BY <3>1 DEF OfOrigin
    <3>3. days' = days /\ full' = full
      BY <2>1
    <3>4. ~full' => \A o \in origin' : ~o.revoked /\ days' - o.day <= TtlDays =>
                \E i \in DOMAIN memories' : memories'[i].text = o.text /\ memories'[i].space = o.space
      BY <3>2, <3>3
    <3>. QED BY <3>4 DEF OriginsHaveEntries, OfOrigin
  <2>. QED BY <2>3, <2>5, <2>6 DEF MemoryInv
<1>7. CASE DayPasses
  <2>1. days' = days + 1 /\ UNCHANGED <<memories, full, origin>>
    BY <1>7 DEF DayPasses
  <2>2. MemoryTypes' /\ NoneTwice(memories)' /\ EntriesHaveOrigins'
    BY <1>1, <2>1 DEF MemoryTypes, NoneTwice, EntriesHaveOrigins, OfOrigin
  <2>4. OriginsHaveEntries'
    <3>1. ~full' => \A o \in origin' : ~o.revoked /\ days' - o.day <= TtlDays =>
             \E i \in DOMAIN memories' : memories'[i].text = o.text /\ memories'[i].space = o.space
      <4>. DEFINE later == days + 1
      <4>1. days' = later /\ memories' = memories /\ full' = full /\ origin' = origin
        BY <2>1
      <4>2. ~full => \A o \in origin : ~o.revoked /\ days - o.day <= TtlDays =>
             \E i \in DOMAIN memories : memories[i].text = o.text /\ memories[i].space = o.space
        BY <1>1 DEF OriginsHaveEntries, OfOrigin
      <4>4. ASSUME NEW o \in origin, later - o.day <= TtlDays PROVE days - o.day <= TtlDays
        <5>1. days \in Int /\ o.day \in Int /\ TtlDays \in Int
          <6>1. o.day \in Nat
            BY <1>1 DEF AnOrigin
          <6>. QED BY <1>1, <1>3, <6>1
        <5>2. \A x, y, z \in Int : (x + 1) - y <= z => x - y <= z
          OBVIOUS
        <5>. QED BY <4>4, <5>1, <5>2
      <4>. HIDE DEF later
      <4>3. ~full => \A o \in origin : ~o.revoked /\ later - o.day <= TtlDays =>
             \E i \in DOMAIN memories : memories[i].text = o.text /\ memories[i].space = o.space
        <5>. SUFFICES ASSUME ~full, NEW o \in origin, ~o.revoked, later - o.day <= TtlDays
                      PROVE  \E i \in DOMAIN memories : memories[i].text = o.text /\ memories[i].space = o.space
          OBVIOUS
        <5>1. days - o.day <= TtlDays
          BY <4>4
        <5>. QED BY <4>2, <5>1
      <4>. QED BY <4>1, <4>3
    <3>. QED BY <3>1 DEF OriginsHaveEntries, OfOrigin
  <2>. QED BY <2>2, <2>4 DEF MemoryInv
<1>8. CASE UNCHANGED memoryVars
  BY <1>1, <1>8 DEF MemoryInv, MemoryTypes, NoneTwice, EntriesHaveOrigins, OriginsHaveEntries, OfOrigin, memoryVars
<1>. QED BY <1>4, <1>5, <1>6, <1>7, <1>8 DEF MemoryNext

LEMMA MemoryInvHolds == MemoryInv => EachSpaceHasItsOwn /\ RevokedStaysAway
<1>. SUFFICES ASSUME MemoryInv PROVE EachSpaceHasItsOwn /\ RevokedStaysAway
  OBVIOUS
<1>1. /\ memories \in Seq(AMemory) /\ days \in Nat /\ origin \subseteq AnOrigin
      /\ EntriesHaveOrigins /\ OriginsHaveEntries
  BY DEF MemoryInv, MemoryTypes
<1>2. TtlDays \in Nat
  BY MemoriesAssumption
<1>6. Global \notin Space
  BY MemoriesAssumption DEF Global
<1>3. ASSUME NEW w \in Space, NEW o \in origin, o.space = w, ~o.revoked, days - o.day <= TtlDays, ~full
      PROVE  \E e \in Recall(w) : e.text = o.text /\ e.space = w
  <2>1. PICK i \in DOMAIN memories : OfOrigin(memories[i], o)
    BY <1>1, <1>3 DEF OriginsHaveEntries
  <2>2. memories[i].day = o.day /\ memories[i].revoked = o.revoked
    BY <1>1, <2>1 DEF EntriesHaveOrigins
  <2>3. ~(days - o.day > TtlDays)
    <3>1. o.day \in Nat
      BY <1>1 DEF AnOrigin
    <3>2. days \in Int /\ o.day \in Int /\ TtlDays \in Int
      BY <1>1, <1>2, <3>1
    <3>3. \A x, y, z \in Int : x - y <= z => ~(x - y > z)
      OBVIOUS
    <3>. QED BY <1>3, <3>2, <3>3
  <2>4. memories[i] \in Recall(w)
    BY <1>3, <2>1, <2>2, <2>3 DEF Recall, Expired, OfOrigin
  <2>. QED BY <1>3, <2>1, <2>4 DEF OfOrigin
<1>4. ASSUME NEW w \in Space, NEW e \in Recall(w)
      PROVE  \E o \in origin : o.text = e.text /\ o.space \in {Global, w}
  <2>1. PICK i \in DOMAIN memories : e = memories[i] /\ e.space \in {Global, w}
    BY <1>6 DEF Recall
  <2>2. PICK o \in origin : OfOrigin(memories[i], o)
    BY <1>1 DEF EntriesHaveOrigins
  <2>. QED BY <2>1, <2>2 DEF OfOrigin
<1>5. ASSUME NEW w \in Spaces, NEW e \in Recall(w), NEW o \in origin, o.text = e.text, o.space = e.space
      PROVE  ~o.revoked /\ days - o.day <= TtlDays
  <2>1. PICK i \in DOMAIN memories : e = memories[i] /\ ~memories[i].revoked /\ ~Expired(memories[i])
    BY DEF Recall
  <2>2. memories[i].day = o.day /\ memories[i].revoked = o.revoked
    BY <1>1, <1>5, <2>1 DEF EntriesHaveOrigins, OfOrigin
  <2>3. o.day \in Nat
    BY <1>1 DEF AnOrigin
  <2>4. days \in Int /\ o.day \in Int /\ TtlDays \in Int
    BY <1>1, <1>2, <2>3
  <2>5. ~(days - o.day > TtlDays)
    BY <2>1, <2>2 DEF Expired
  <2>6. \A x, y, z \in Int : ~(x - y > z) => x - y <= z
    OBVIOUS
  <2>. QED BY <2>1, <2>2, <2>4, <2>5, <2>6
<1>. QED BY <1>3, <1>4, <1>5 DEF EachSpaceHasItsOwn, RevokedStaysAway

-----------------------------------------------------------------------------
(* The context of a task                                                   *)

AText == (Content \cup {System}) \X Nat
CortexInv == messages \in Seq(AText) /\ NothingIsLost

LEMMA MaxOfTwo ==
  ASSUME NEW a \in Int, NEW b \in Int
  PROVE  Max({a, b}) = IF a >= b THEN a ELSE b
<1>. DEFINE m == IF a >= b THEN a ELSE b
<1>1. m \in {a, b} /\ \A y \in {a, b} : m >= y
  OBVIOUS
<1>2. \A x \in {a, b} : (\A y \in {a, b} : x >= y) => x = m
  OBVIOUS
<1>. HIDE DEF m
<1>3. Max({a, b}) = m
  BY <1>1, <1>2 DEF Max
<1>. QED BY <1>3 DEF m

(* A compaction keeps each message, or its pointer; then it archives it.   *)
LEMMA CompactKeeps ==
  ASSUME NEW p \in Seq(AText)
  PROVE  /\ Compact(p) \in Seq(AText)
         /\ \A t \in Range(p) : t \in Range(Compact(p)) \/ (Pointer(t) \in Range(Compact(p)) /\ t \in Archived(p))
<1>1. CASE Total(p) <= MaxChars \/ Len(p) <= KeepHead
  <2>1. Compact(p) = p
    BY <1>1 DEF Compact
  <2>. QED BY <2>1
<1>2. CASE ~(Total(p) <= MaxChars \/ Len(p) <= KeepHead)
  <2>. DEFINE a == SubSeq(p, 1, KeepHead)
              b == Middle(p)
              q == [i \in DOMAIN b |-> Pointer(b[i])]
              z == SubSeq(p, TailFrom(p), Len(p))
              T == TailFrom(p)
  <2>1. KeepHead \in Nat /\ KeepTail \in Nat /\ Len(p) \in Nat /\ DOMAIN p = 1 .. Len(p)
    BY CortexAssumption, LenProperties
  <2>2. ~(Len(p) <= KeepHead)
    BY <1>2
  <2>3. T \in KeepHead + 1 .. Len(p) + 1
    <3>1. KeepHead \in Int /\ Len(p) - KeepTail \in Int
      BY <2>1
    <3>2. Max({KeepHead, Len(p) - KeepTail}) = IF KeepHead >= Len(p) - KeepTail THEN KeepHead ELSE Len(p) - KeepTail
      BY <3>1, MaxOfTwo
    <3>. QED BY <2>1, <2>2, <3>2 DEF TailFrom
  <2>. HIDE DEF T
  <2>4. a \in Seq(AText) /\ DOMAIN a = 1 .. KeepHead /\ \A i \in 1 .. KeepHead : a[i] = p[i]
    <3>1. KeepHead \in 0 .. Len(p)
      BY <2>1, <2>2
    <3>. QED BY <3>1, FirstPart
  <2>5. /\ b \in Seq(AText) /\ DOMAIN b = 1 .. T - 1 - (KeepHead + 1) + 1
        /\ Len(b) = T - 1 - (KeepHead + 1) + 1
        /\ \A i \in KeepHead + 1 .. T - 1 : i - (KeepHead + 1) + 1 \in DOMAIN b /\ b[i - (KeepHead + 1) + 1] = p[i]
    <3>1. KeepHead + 1 \in 1 .. Len(p) + 1 /\ T - 1 \in (KeepHead + 1) - 1 .. Len(p)
      BY <2>1, <2>2, <2>3
    <3>2. b = SubSeq(p, KeepHead + 1, T - 1)
      BY DEF Middle, T
    <3>. HIDE DEF b
    <3>. QED BY <3>1, <3>2, Between
  <2>6. z \in Seq(AText) /\ \A i \in T .. Len(p) : i - T + 1 \in DOMAIN z /\ z[i - T + 1] = p[i]
    <3>1. T \in 1 .. Len(p) + 1 /\ Len(p) \in T - 1 .. Len(p)
      BY <2>1, <2>3
    <3>2. z = SubSeq(p, T, Len(p))
      BY DEF T
    <3>. HIDE DEF z
    <3>. QED BY <3>1, <3>2, Between
  <2>. HIDE DEF b
  <2>7. q \in Seq(AText) /\ DOMAIN q = DOMAIN b /\ \A i \in DOMAIN b : q[i] = Pointer(b[i])
    <3>1. Len(b) \in Nat /\ DOMAIN b = 1 .. Len(b)
      BY <2>5, LenProperties
    <3>2. \A i \in 1 .. Len(b) : b[i] \in AText
      BY <2>5, ElementOfSeq
    <3>3. \A x \in AText : Pointer(x) \in AText
      BY DEF AText, Pointer
    <3>4. q \in [1 .. Len(b) -> AText]
      BY <3>1, <3>2, <3>3
    <3>5. q \in Seq(AText)
      <4>. HIDE DEF q
      <4>. QED BY <3>1, <3>4, MappedSeq
    <3>. QED BY <3>5
  <2>8. Compact(p) = (a \o q) \o z
    BY <1>2 DEF Compact, b
  <2>. HIDE DEF a, q, z
  <2>9. a \o q \in Seq(AText) /\ (a \o q) \o z \in Seq(AText)
    BY <2>4, <2>6, <2>7, ConcatProperties
  <2>10. Range(Compact(p)) = ToSet(a) \cup ToSet(q) \cup ToSet(z)
    <3>1. ToSet(a \o q) = ToSet(a) \cup ToSet(q)
      BY <2>4, <2>7, ToSetConcat
    <3>2. ToSet((a \o q) \o z) = ToSet(a \o q) \cup ToSet(z)
      BY <2>6, <2>9, ToSetConcat
    <3>3. Range(Compact(p)) = ToSet(Compact(p))
      BY DEF Range, ToSet
    <3>. QED BY <2>8, <3>1, <3>2, <3>3
  <2>11. ASSUME NEW t \in Range(p)
         PROVE  t \in Range(Compact(p)) \/ (Pointer(t) \in Range(Compact(p)) /\ t \in Archived(p))
    <3>1. PICK i \in 1 .. Len(p) : t = p[i]
      BY <2>1 DEF Range
    <3>2. i \in 1 .. KeepHead \/ i \in KeepHead + 1 .. T - 1 \/ i \in T .. Len(p)
      BY <2>1, <2>3, <3>1
    <3>3. ASSUME i \in 1 .. KeepHead PROVE t \in ToSet(a)
      BY <2>4, <3>1, <3>3 DEF ToSet
    <3>4. ASSUME i \in T .. Len(p) PROVE t \in ToSet(z)
      BY <2>6, <3>1, <3>4 DEF ToSet
    <3>5. ASSUME i \in KeepHead + 1 .. T - 1 PROVE Pointer(t) \in ToSet(q) /\ t \in Archived(p)
      <4>1. PICK j \in DOMAIN b : b[j] = t
        BY <2>5, <3>1, <3>5
      <4>2. Pointer(t) \in ToSet(q)
        BY <2>7, <4>1 DEF ToSet
      <4>3. t \in Archived(p)
        BY <4>1 DEF Archived, Range, b
      <4>. QED BY <4>2, <4>3
    <3>. QED BY <2>10, <3>2, <3>3, <3>4, <3>5
  <2>. QED BY <2>8, <2>9, <2>11
<1>. QED BY <1>1, <1>2

LEMMA CortexInvInit == CortexInit => CortexInv
BY DEF CortexInit, CortexInv, NothingIsLost

LEMMA CortexInvStep == CortexInv /\ [CortexNext]_cortexVars => CortexInv'
<1>. SUFFICES ASSUME CortexInv, [CortexNext]_cortexVars PROVE CortexInv'
  OBVIOUS
<1>1. messages \in Seq(AText) /\ \A c \in said : \E t \in Range(messages) : t[1] = c /\ Restores(t)
  BY DEF CortexInv, NothingIsLost
<1>2. \A c \in Content \cup {System} : <<c, 0>> \in AText /\ <<c, 0>>[1] = c /\ <<c, 0>>[2] = 0
  BY DEF AText
<1>3. \A t : t[2] = 0 => Restores(t)'
  <2>1. \A t : t[2] = 0 => 0 .. (t[2] - 1) = {}
    OBVIOUS
  <2>. QED BY <2>1 DEF Restores
<1>4. ASSUME NEW c \in Content, NewTask(c) PROVE CortexInv'
  <2>. DEFINE x == <<System, 0>>
              y == <<c, 0>>
  <2>1. messages' = <<x, y>> /\ said' = {System, c}
    BY <1>4 DEF NewTask
  <2>2. x \in AText /\ y \in AText /\ x[1] = System /\ y[1] = c /\ Restores(x)' /\ Restores(y)'
    BY <1>2, <1>3
  <2>. HIDE DEF x, y
  <2>3. <<x, y>> \in Seq(AText) /\ Range(<<x, y>>) = {x, y}
    <3>1. <<x, y>> \in Seq(AText) /\ DOMAIN <<x, y>> = {1, 2} /\ <<x, y>>[1] = x /\ <<x, y>>[2] = y
      BY <2>2
    <3>. QED BY <3>1 DEF Range
  <2>4. NothingIsLost'
    BY <2>1, <2>2, <2>3 DEF NothingIsLost
  <2>. QED BY <2>1, <2>3, <2>4 DEF CortexInv
<1>5. ASSUME NEW c \in Content, ResumeTask(c) PROVE CortexInv'
  <2>. DEFINE y == <<c, 0>>
  <2>1. messages' = Append(messages, y) /\ said' = {t[1] : t \in {u \in Range(messages) : u[2] = 0}} \cup {c}
    BY <1>5 DEF ResumeTask
  <2>2. y \in AText /\ y[1] = c /\ Restores(y)'
    BY <1>2, <1>3
  <2>. HIDE DEF y
  <2>3. messages' \in Seq(AText) /\ Range(messages') = Range(messages) \cup {y}
    <3>1. ToSet(Append(messages, y)) = ToSet(messages) \cup {y}
      BY <1>1, <2>2, ToSetAppend
    <3>2. Append(messages, y) \in Seq(AText)
      BY <1>1, <2>2, AppendProperties
    <3>. QED BY <2>1, <3>1, <3>2 DEF Range, ToSet
  <2>4. ASSUME NEW v \in said' PROVE \E t \in Range(messages') : t[1] = v /\ Restores(t)'
    <3>1. CASE v = c
      BY <2>2, <2>3, <3>1
    <3>2. CASE v # c
      <4>1. PICK t \in Range(messages) : t[1] = v /\ t[2] = 0
        BY <2>1, <3>2
      <4>. QED BY <1>3, <2>3, <4>1
    <3>. QED BY <3>1, <3>2
  <2>5. NothingIsLost'
    BY <2>4 DEF NothingIsLost, Restores, Range
  <2>. QED BY <2>3, <2>5 DEF CortexInv
<1>6. ASSUME NEW reply \in Content, NEW response \in Content, Turn(reply, response) PROVE CortexInv'
  <2>. DEFINE x == <<reply, 0>>
              y == <<response, 0>>
              p == Compact(messages)
  <2>1. /\ messages' = p \o <<x, y>> /\ said' = said \cup {reply, response}
        /\ archive' = IF p = messages THEN archive ELSE archive \cup Archived(messages)
    BY <1>6 DEF Turn
  <2>2. x \in AText /\ y \in AText /\ x[1] = reply /\ y[1] = response /\ Restores(x)' /\ Restores(y)'
    BY <1>2, <1>3
  <2>3. /\ p \in Seq(AText)
        /\ \A t \in Range(messages) : t \in Range(p) \/ (Pointer(t) \in Range(p) /\ t \in Archived(messages))
    BY <1>1, CompactKeeps
  <2>. HIDE DEF x, y, p
  <2>4. messages' \in Seq(AText) /\ Range(messages') = Range(p) \cup {x, y}
    <3>1. <<x, y>> \in Seq(AText) /\ DOMAIN <<x, y>> = {1, 2} /\ <<x, y>>[1] = x /\ <<x, y>>[2] = y
      BY <2>2
    <3>2. ToSet(<<x, y>>) = {x, y}
      BY <3>1 DEF ToSet
    <3>. DEFINE w == <<x, y>>
    <3>. HIDE DEF w
    <3>3. p \o w \in Seq(AText) /\ ToSet(p \o w) = ToSet(p) \cup ToSet(w)
      BY <2>3, <3>1, ToSetConcat, ConcatProperties DEF w
    <3>4. ToSet(w) = {x, y} /\ messages' = p \o w
      BY <2>1, <3>2 DEF w
    <3>. QED BY <3>3, <3>4 DEF Range, ToSet
  <2>5. ASSUME NEW t \in Range(messages), Restores(t)
        PROVE  \E u \in Range(messages') : u[1] = t[1] /\ Restores(u)'
    <3>1. t \in AText /\ t[2] \in Nat /\ t = <<t[1], t[2]>>
      <4>1. \A i \in 1 .. Len(messages) : messages[i] \in AText
        BY <1>1, ElementOfSeq
      <4>2. t \in AText
        BY <1>1, <4>1, LenProperties DEF Range
      <4>. QED BY <4>2 DEF AText
    <3>2. archive \subseteq archive'
      BY <2>1
    <3>3. Restores(t)'
      BY <2>5, <3>2 DEF Restores
    <3>4. CASE t \in Range(p)
      BY <2>4, <3>3, <3>4
    <3>5. CASE t \notin Range(p)
      <4>1. Pointer(t) \in Range(p) /\ t \in Archived(messages)
        BY <2>3, <3>5
      <4>2. p # messages
        BY <3>5
      <4>3. t \in archive'
        BY <2>1, <4>1, <4>2
      <4>4. Pointer(t)[1] = t[1] /\ Pointer(t)[2] = t[2] + 1
        BY DEF Pointer
      <4>5. \A n \in 0 .. (t[2] + 1) - 1 : n \in 0 .. t[2] - 1 \/ n = t[2]
        BY <3>1
      <4>6. Restores(Pointer(t))'
        BY <3>1, <3>3, <4>3, <4>4, <4>5 DEF Restores
      <4>. QED BY <2>4, <4>1, <4>4, <4>6
    <3>. QED BY <3>4, <3>5
  <2>6. ASSUME NEW v \in said' PROVE \E t \in Range(messages') : t[1] = v /\ Restores(t)'
    <3>1. CASE v \in said
      <4>1. PICK t \in Range(messages) : t[1] = v /\ Restores(t)
        BY <1>1, <3>1
      <4>. QED BY <2>5, <4>1
    <3>2. CASE v \in {reply, response}
      BY <2>2, <2>4, <3>2
    <3>. QED BY <2>1, <3>1, <3>2
  <2>7. NothingIsLost'
    BY <2>6 DEF NothingIsLost, Restores, Range
  <2>. QED BY <2>4, <2>7 DEF CortexInv
<1>7. CASE UNCHANGED cortexVars
  BY <1>7 DEF CortexInv, NothingIsLost, Restores, Range, cortexVars
<1>. QED BY <1>4, <1>5, <1>6, <1>7 DEF CortexNext

LEMMA MemorySteps == [StoresNext]_storeVars => [MemoryNext]_memoryVars
BY DEF StoresNext, InArea, storeVars

(* What a task is told of earlier ones is of its own workspace and was not *)
(* revoked (memory.js), and nothing it was told itself is lost to the      *)
(* compaction of its prompt (cortex.js).                                   *)
THEOREM MemoriesAlwaysHold == StoresSpec => []MemoryHolds
<1>1. StoresInit => MemoryInv /\ CortexInv
  BY MemoryInvInit, CortexInvInit DEF StoresInit
<1>2. MemoryInv /\ CortexInv /\ [StoresNext]_storeVars => MemoryInv' /\ CortexInv'
  BY MemorySteps, MemoryInvStep, CortexSteps, CortexInvStep
<1>3. MemoryInv /\ CortexInv => MemoryHolds
  BY MemoryInvHolds DEF CortexInv, MemoryHolds
<1>. QED BY <1>1, <1>2, <1>3, PTL DEF StoresSpec
-----------------------------------------------------------------------------
(* The index *)

Chunks == DOMAIN Topic
AShardEntry == [chunk : Chunks, file : File \cup {Note}, hits : {1, 2}]
AMeta == [mtime : Nat, text : {Gone} \cup Texts]
Walked == {"walk", "stat", "read"} \* where a run has read the metadata
RunStages == {"idle", "meta"} \cup Walked

(* What an entry, or the metadata, says of a file was true of it once; at  *)
(* the time of the file, it still is.                                      *)
ShardOk(s) == s \in Seq(AShardEntry) /\ \A i \in DOMAIN s : s[i].file \in File => s[i].chunk \in held[s[i].file]
MetaOk(m) ==
    /\ m \in [File -> AMeta]
    /\ \A f \in File :
        /\ m[f].mtime <= mtime[f]
        /\ m[f].mtime = mtime[f] => m[f].text = text[f]
        /\ m[f].text # Gone => m[f].text \subseteq held[f]
RunOk(x) ==
    /\ x.at \in RunStages /\ ShardOk(x.copy) /\ x.todo \in SUBSET File
    /\ x.at \in Walked => MetaOk(x.meta)
    /\ x.at = "read" => x.todo # {} /\ x.seen \in 1 .. mtime[Min(x.todo)]
FilesOk ==
    /\ text \in [File -> {Gone} \cup Texts] /\ mtime \in [File -> Nat \ {0}] /\ held \in [File -> SUBSET Chunks]
    /\ \A f \in File : text[f] # Gone => text[f] \subseteq held[f]
HistoryInv ==
    /\ FilesOk /\ ShardOk(shard) /\ MetaOk(meta) /\ calm \in BOOLEAN /\ steady \in BOOLEAN
    /\ DOMAIN ix = Run /\ \A r \in Run : RunOk(ix[r])

(* While all is calm, one run at most is under way and its copy is what is *)
(* on disk; the metadata that counts - the run's own, once it has read     *)
(* them - knows each file that has entries, and what it says was indexed   *)
(* can be found.                                                           *)
IsIn(s, topic) == \E i \in DOMAIN s : Topic[s[i].chunk] = topic
Apart(f) == \A g \in File \ {f} : TopicsOf(f) \cap TopicsOf(g) = {}
Covers(m, s) ==
    /\ \A i \in DOMAIN s : s[i].file \in File => m[s[i].file] # Unindexed
    /\ \A f \in File : Apart(f) /\ m[f].text # Gone => \A c \in m[f].text : IsIn(s, Topic[c])
OneAtATime ==
    /\ \A q, r \in Run : ix[q].at # "idle" /\ ix[r].at # "idle" => q = r
    /\ \A r \in Run : ix[r].at # "idle" => ix[r].copy = shard
MetaCovers ==
    /\ \A r \in Run : ix[r].at \in Walked => Covers(ix[r].meta, shard)
    /\ (\A r \in Run : ix[r].at \notin Walked) => Covers(meta, shard)
NotesAreIn == \A t \in noted : (\A f \in File : t \notin TopicsOf(f)) => IsIn(shard, t)

(* Since the walk of the last run, if no file has changed: each entry is   *)
(* of a file that is there, and each file the run is to look at is still   *)
(* to come or indexed as it is.                                            *)
AllThere(s) == \A i \in DOMAIN s : s[i].file \in File => text[s[i].file] # Gone
Due(f) == text[f] # Gone /\ AmongTheFirst(f)
Done(m, f) == text[f] = {} \/ m[f].text = text[f]
AllDone ==
    /\ \A r \in Run : ix[r].at \in {"stat", "read"} =>
          \A f \in File : Due(f) /\ f \notin ix[r].todo => Done(ix[r].meta, f)
    /\ ~Busy /\ left.runs < MaxRuns => \A f \in File : Due(f) => Done(meta, f)

CalmInv == calm => OneAtATime /\ MetaCovers /\ NotesAreIn /\ (steady => AllThere(shard) /\ AllDone)

-----------------------------------------------------------------------------
(* The entries of a shard are those it had, or chunks of the file that was *)
(* added.                                                                  *)
Grown(s, u, cs, f) ==
    /\ u \in Seq(AShardEntry)
    /\ \A i \in DOMAIN u : (\E j \in DOMAIN s : u[i] = s[j]) \/ (u[i].chunk \in cs /\ u[i].file = f)

LEMMA NoteIsNoFile == Note \notin File /\ File \in SUBSET Nat /\ MaxEntries \in Nat
<1>1. IsFiniteSet(File) /\ File = 1 .. Cardinality(File) /\ Cardinality(File) \in Nat /\ MaxEntries \in Nat
  BY IndexAssumption, FS_CardinalityType
<1>. QED BY <1>1 DEF Note

LEMMA PruneOfIndex ==
  ASSUME NEW s \in Seq(AShardEntry)
  PROVE  Prune(s) \in Seq(AShardEntry) /\ \A i \in DOMAIN Prune(s) : \E j \in DOMAIN s : Prune(s)[i] = s[j]
<1>1. CASE Len(s) <= MaxEntries
  BY <1>1 DEF Prune
<1>2. CASE ~(Len(s) <= MaxEntries)
  <2>. DEFINE hits == {s[i].hits : i \in DOMAIN s}
              least == Min(hits)
              T == {i \in DOMAIN s : s[i].hits = least}
              k == Max(T)
  <2>1. DOMAIN s = 1 .. Len(s) /\ Len(s) \in Nat
    BY LenProperties
  <2>2. 1 \in DOMAIN s
    <3>1. Len(s) \in Nat /\ MaxEntries \in Nat /\ ~(Len(s) <= MaxEntries)
      BY <1>2, <2>1, NoteIsNoFile
    <3>. QED BY <2>1, <3>1
  <2>3. hits \in SUBSET Nat /\ hits # {}
    <3>1. \A i \in DOMAIN s : s[i] \in AShardEntry
      BY <2>1, ElementOfSeq
    <3>2. \A i \in DOMAIN s : s[i].hits \in Nat
      BY <3>1 DEF AShardEntry
    <3>. QED BY <2>2, <3>2
  <2>4. least \in hits
    <3>. HIDE DEF hits
    <3>. QED BY <2>3, MinIsSmallest
  <2>5. T # {} /\ T \in SUBSET (0 .. Len(s))
    <3>. HIDE DEF least
    <3>1. PICK i \in DOMAIN s : s[i].hits = least
      BY <2>4
    <3>2. T \in SUBSET (0 .. Len(s))
      BY <2>1
    <3>. QED BY <3>1, <3>2
  <2>6. k \in T
    <3>. HIDE DEF T
    <3>. QED BY <2>1, <2>5, MaxIsIn
  <2>7. k \in 1 .. Len(s)
    BY <2>1, <2>6
  <2>8. Prune(s) = RemoveAt(s, k)
    BY <1>2 DEF Prune
  <2>. HIDE DEF k
  <2>. QED BY <2>7, <2>8, WithoutOne, WithoutOneIsPart
<1>. QED BY <1>1, <1>2

LEMMA AddGrows ==
  ASSUME NEW s \in Seq(AShardEntry), NEW c \in Chunks, NEW f \in File \cup {Note}
  PROVE  Grown(s, Add(s, c, f), {c}, f)
<1>. DEFINE same == {i \in DOMAIN s : Near(s[i].chunk, c)}
            e == [chunk |-> c, file |-> f, hits |-> 1]
            d == [chunk |-> c, file |-> f, hits |-> 2]
            k == Min(same)
<1>1. DOMAIN s = 1 .. Len(s) /\ Len(s) \in Nat
  BY LenProperties
<1>2. e \in AShardEntry /\ d \in AShardEntry /\ e.chunk = c /\ e.file = f /\ d.chunk = c /\ d.file = f
  BY DEF AShardEntry
<1>3. Add(s, c, f) = IF same = {} THEN Prune(Append(s, e)) ELSE Append(RemoveAt(s, k), d)
  BY DEF Add
<1>4. same \in SUBSET (1 .. Len(s))
  BY <1>1
<1>. HIDE DEF same, e, d
<1>5. ASSUME NEW q \in Seq(AShardEntry), NEW x \in AShardEntry
      PROVE  /\ Append(q, x) \in Seq(AShardEntry)
             /\ \A i \in DOMAIN Append(q, x) : (i \in DOMAIN q /\ Append(q, x)[i] = q[i]) \/ Append(q, x)[i] = x
  <2>1. /\ Append(q, x) \in Seq(AShardEntry) /\ Len(Append(q, x)) = Len(q) + 1
        /\ \A i \in 1 .. Len(q) : Append(q, x)[i] = q[i]
        /\ Append(q, x)[Len(q) + 1] = x
    BY AppendProperties
  <2>2. DOMAIN q = 1 .. Len(q) /\ Len(q) \in Nat /\ DOMAIN Append(q, x) = 1 .. Len(q) + 1
    BY <2>1, LenProperties
  <2>3. \A i \in 1 .. Len(q) + 1 : i \in 1 .. Len(q) \/ i = Len(q) + 1
    BY <2>2
  <2>. QED BY <2>1, <2>2, <2>3
<1>6. CASE same = {}
  <2>. DEFINE u == Append(s, e)
  <2>1. u \in Seq(AShardEntry) /\ \A i \in DOMAIN u : (i \in DOMAIN s /\ u[i] = s[i]) \/ u[i] = e
    BY <1>2, <1>5
  <2>2. Add(s, c, f) = Prune(u)
    BY <1>3, <1>6
  <2>. HIDE DEF u
  <2>3. Prune(u) \in Seq(AShardEntry) /\ \A i \in DOMAIN Prune(u) : \E j \in DOMAIN u : Prune(u)[i] = u[j]
    BY <2>1, PruneOfIndex
  <2>. QED BY <1>2, <2>1, <2>2, <2>3 DEF Grown
<1>7. CASE same # {}
  <2>1. k \in 1 .. Len(s)
    <3>1. same \in SUBSET Nat
      BY <1>4
    <3>. QED BY <1>4, <1>7, <3>1, MinIsSmallest
  <2>. HIDE DEF k
  <2>. DEFINE u == RemoveAt(s, k)
  <2>2. u \in Seq(AShardEntry) /\ \A i \in DOMAIN u : \E j \in DOMAIN s : u[i] = s[j]
    BY <2>1, WithoutOne, WithoutOneIsPart
  <2>3. Add(s, c, f) = Append(u, d)
    BY <1>3, <1>7
  <2>. HIDE DEF u
  <2>4. /\ Append(u, d) \in Seq(AShardEntry)
        /\ \A i \in DOMAIN Append(u, d) : (i \in DOMAIN u /\ Append(u, d)[i] = u[i]) \/ Append(u, d)[i] = d
    BY <1>2, <1>5, <2>2
  <2>. QED BY <1>2, <2>2, <2>3, <2>4 DEF Grown
<1>. QED BY <1>6, <1>7

LEMMA AddAllGrows ==
  ASSUME NEW s \in Seq(AShardEntry), NEW cs \in SUBSET Chunks, IsFiniteSet(cs), NEW f \in File \cup {Note}
  PROVE  Grown(s, AddAll(s, cs, f), cs, f)
<1>. DEFINE n == Cardinality(cs)
            V == {u \in Seq(AShardEntry) : Grown(s, u, cs, f)}
            turn == [v \in (1 .. n) \X V |-> Add(v[2], SetToSeq(cs)[v[1]], f)]
            Body(g) == [k \in 0 .. n |-> IF k = 0 THEN s ELSE Add(g[k - 1], SetToSeq(cs)[k], f)]
            scan == CHOOSE g : g = Body(g)
<1>1. n \in Nat /\ \A k \in 1 .. n : SetToSeq(cs)[k] \in cs /\ SetToSeq(cs)[k] \in Chunks
  <2>1. n \in Nat /\ SetToSeq(cs) \in [1 .. n -> cs]
    BY SetAsSeq
  <2>. QED BY <2>1
<1>2. s \in V
  BY DEF Grown
<1>3. ASSUME NEW u \in V, NEW k \in 1 .. n PROVE Add(u, SetToSeq(cs)[k], f) \in V
  <2>. DEFINE c == SetToSeq(cs)[k]
  <2>1. c \in cs /\ c \in Chunks
    BY <1>1
  <2>. HIDE DEF c
  <2>2. Grown(u, Add(u, c, f), {c}, f)
    BY <2>1, AddGrows
  <2>3. Grown(s, Add(u, c, f), cs, f)
    BY <2>1, <2>2 DEF Grown
  <2>. QED BY <2>2, <2>3 DEF Grown, c
<1>4. AddAll(s, cs, f) = scan[n]
  BY DEF AddAll
<1>. HIDE DEF V, n
<1>5. turn \in [(1 .. n) \X V -> V]
  BY <1>3
<1>. HIDE DEF turn
<1>6. PICK g : Computes(g, V, n, s, turn)
  BY <1>1, <1>2, <1>5, StepByStep
<1>7. ASSUME NEW k \in 1 .. n PROVE g[k] = Add(g[k - 1], SetToSeq(cs)[k], f)
  <2>1. k - 1 \in 0 .. n
    BY <1>1
  <2>2. <<k, g[k - 1]>> \in (1 .. n) \X V
    BY <1>6, <2>1 DEF Computes
  <2>. QED BY <1>6, <2>2 DEF Computes, turn
<1>8. g = Body(g)
  <2>1. ASSUME NEW k \in 0 .. n PROVE g[k] = IF k = 0 THEN s ELSE Add(g[k - 1], SetToSeq(cs)[k], f)
    <3>1. k = 0 \/ k \in 1 .. n
      BY <1>1
    <3>. QED BY <1>6, <1>7, <3>1 DEF Computes
  <2>. QED BY <1>6, <2>1 DEF Computes
<1>9. scan = Body(scan)
  BY <1>8
<1>. HIDE DEF scan
<1>10. /\ scan = [k \in 0 .. n |-> scan[k]] /\ scan[0] = s
       /\ \A k \in 1 .. n : scan[k] = Add(scan[k - 1], SetToSeq(cs)[k], f)
  <2>1. 0 \in 0 .. n /\ \A k \in 1 .. n : k \in 0 .. n /\ k # 0
    BY <1>1
  <2>. QED BY <1>9, <2>1
<1>11. scan \in [0 .. n -> V]
  <2>1. ASSUME NEW k \in 1 .. n, scan[k - 1] \in V PROVE scan[k] \in V
    BY <1>3, <1>10, <2>1
  <2>2. scan[0] \in V
    BY <1>2, <1>10
  <2>3. scan = [k \in 0 .. n |-> scan[k]]
    BY <1>10
  <2>. QED BY <1>1, <2>1, <2>2, <2>3, StepsStay
<1>12. scan[n] \in V
  BY <1>1, <1>11
<1>. QED BY <1>4, <1>12 DEF V

(* What a walk takes out are the entries of the files that are gone.       *)
LEMMA WithoutFilesFacts ==
  ASSUME NEW s \in Seq(AShardEntry), NEW gone
  PROVE  LET u == WithoutFiles(s, gone)
         IN  /\ u \in Seq(AShardEntry)
             /\ \A i \in DOMAIN u : u[i].file \notin gone /\ \E j \in DOMAIN s : u[i] = s[j]
             /\ \A j \in DOMAIN s : s[j].file \notin gone => \E i \in DOMAIN u : u[i] = s[j]
<1>. DEFINE K == {i \in DOMAIN s : s[i].file \notin gone}
            u == Picked(s, K)
<1>1. K \in SUBSET DOMAIN s /\ WithoutFiles(s, gone) = u
  BY DEF WithoutFiles
<1>2. \A i \in DOMAIN s : i \in K <=> s[i].file \notin gone
  OBVIOUS
<1>. HIDE DEF K
<1>3. u \in Seq(AShardEntry) /\ ToSet(u) = {s[i] : i \in K}
  BY <1>1, PickedFacts
<1>. HIDE DEF u
<1>4. \A i \in DOMAIN u : \E j \in K : u[i] = s[j]
  BY <1>3 DEF ToSet
<1>5. \A j \in K : \E i \in DOMAIN u : u[i] = s[j]
  BY <1>3 DEF ToSet
<1>. QED BY <1>1, <1>2, <1>3, <1>4, <1>5

-----------------------------------------------------------------------------
LEMMA GrownIsOk ==
  ASSUME NEW s, ShardOk(s), NEW u, NEW cs, NEW f, Grown(s, u, cs, f), f \in File => cs \subseteq held[f]
  PROVE  ShardOk(u)
BY DEF ShardOk, Grown

LEMMA ChunksOfText ==
  ASSUME FilesOk, NEW f \in File, text[f] # Gone
  PROVE  text[f] \in SUBSET Chunks /\ IsFiniteSet(text[f]) /\ text[f] \subseteq held[f]
<1>1. text[f] \in Texts /\ text[f] \subseteq held[f]
  BY DEF FilesOk
<1>. QED BY <1>1, IndexAssumption DEF FilesOk

LEMMA AddedText ==
  ASSUME FilesOk, NEW s, ShardOk(s), NEW f \in File, text[f] # Gone
  PROVE  ShardOk(AddAll(s, text[f], f)) /\ Grown(s, AddAll(s, text[f], f), text[f], f)
<1>1. text[f] \in SUBSET Chunks /\ IsFiniteSet(text[f]) /\ text[f] \subseteq held[f]
  BY ChunksOfText
<1>2. Grown(s, AddAll(s, text[f], f), text[f], f)
  BY <1>1, AddAllGrows DEF ShardOk
<1>. QED BY <1>1, <1>2, GrownIsOk

LEMMA AddedNote ==
  ASSUME NEW s, ShardOk(s), NEW c \in Chunks
  PROVE  ShardOk(Add(s, c, Note)) /\ Grown(s, Add(s, c, Note), {c}, Note)
<1>1. Grown(s, Add(s, c, Note), {c}, Note)
  BY AddGrows DEF ShardOk
<1>. QED BY <1>1, GrownIsOk, NoteIsNoFile

(* A step that leaves the files alone, with what it does to one run        *)
LEMMA QuietStep ==
  ASSUME HistoryInv, UNCHANGED <<text, mtime, held>>, calm' \in BOOLEAN, steady' \in BOOLEAN,
         ShardOk(shard'), MetaOk(meta'), NEW r \in Run, NEW x, RunOk(x), ix' = [ix EXCEPT ![r] = x]
  PROVE  HistoryInv'
<1>1. FilesOk' /\ ShardOk(shard)' /\ MetaOk(meta)'
  BY DEF HistoryInv, FilesOk, ShardOk, MetaOk
<1>2. DOMAIN ix' = Run /\ \A q \in Run : RunOk(ix'[q])
  BY DEF HistoryInv
<1>3. ASSUME NEW q \in Run PROVE RunOk(ix[q])'
  <2>1. RunOk(ix'[q])
    BY <1>2
  <2>. QED BY <2>1 DEF RunOk, ShardOk, MetaOk
<1>. QED BY <1>1, <1>2, <1>3 DEF HistoryInv

LEMMA QuietShardStep ==
  ASSUME HistoryInv, UNCHANGED <<text, mtime, held, ix, meta>>, calm' \in BOOLEAN, steady' \in BOOLEAN, ShardOk(shard')
  PROVE  HistoryInv'
<1>1. FilesOk' /\ ShardOk(shard)' /\ MetaOk(meta)'
  BY DEF HistoryInv, FilesOk, ShardOk, MetaOk
<1>2. ASSUME NEW q \in Run PROVE RunOk(ix[q])'
  <2>1. RunOk(ix[q])
    BY DEF HistoryInv
  <2>. QED BY <2>1 DEF RunOk, ShardOk, MetaOk
<1>. QED BY <1>1, <1>2 DEF HistoryInv

LEMMA HistoryInvInit == IndexInit => HistoryInv
<1>. SUFFICES ASSUME IndexInit PROVE HistoryInv
  OBVIOUS
<1>1. /\ text \in [File -> {Gone} \cup Texts] /\ mtime = [f \in File |-> 1] /\ shard = <<>>
      /\ meta = [f \in File |-> Unindexed] /\ ix = [r \in Run |-> IdleRun]
      /\ held = [f \in File |-> IF text[f] = Gone THEN {} ELSE text[f]] /\ calm = TRUE /\ steady = TRUE
  BY DEF IndexInit
<1>2. FilesOk
  <2>1. \A t \in Texts : t \in SUBSET Chunks
    BY IndexAssumption DEF Chunks
  <2>2. held \in [File -> SUBSET Chunks]
    BY <1>1, <2>1
  <2>. QED BY <1>1, <2>2 DEF FilesOk
<1>3. ShardOk(<<>>)
  BY DEF ShardOk
<1>4. MetaOk(meta)
  <2>1. Unindexed \in AMeta /\ Unindexed.mtime = 0 /\ Unindexed.text = Gone
    BY DEF Unindexed, AMeta
  <2>2. \A f \in File : meta[f] = Unindexed /\ mtime[f] = 1
    BY <1>1
  <2>3. meta \in [File -> AMeta]
    BY <1>1, <2>1
  <2>. QED BY <2>1, <2>2, <2>3 DEF MetaOk
<1>5. RunOk(IdleRun)
  BY <1>3 DEF RunOk, IdleRun, RunStages, Walked
<1>. QED BY <1>1, <1>2, <1>3, <1>4, <1>5 DEF HistoryInv

LEMMA HistoryInvStep == HistoryInv /\ [IndexNext]_indexVars => HistoryInv'
<1>. SUFFICES ASSUME HistoryInv, [IndexNext]_indexVars PROVE HistoryInv'
  OBVIOUS
<1>1. /\ FilesOk /\ ShardOk(shard) /\ MetaOk(meta) /\ calm \in BOOLEAN /\ steady \in BOOLEAN
      /\ DOMAIN ix = Run /\ \A r \in Run : RunOk(ix[r])
  BY DEF HistoryInv
<1>2. ShardOk(<<>>) /\ RunOk(IdleRun)
  BY DEF ShardOk, RunOk, IdleRun, RunStages, Walked
<1>3. Note \notin File /\ File \in SUBSET Nat
  BY NoteIsNoFile
<1>4. ASSUME NEW r \in Run, Open(r) PROVE HistoryInv'
  <2>. DEFINE x == [IdleRun EXCEPT !.at = "meta", !.copy = shard]
  <2>1. /\ ix' = [ix EXCEPT ![r] = x] /\ UNCHANGED <<text, mtime, held, shard, meta, steady>>
        /\ calm' = (calm /\ ~Busy)
    BY <1>4 DEF Open
  <2>2. RunOk(x)
    BY <1>1 DEF RunOk, IdleRun, RunStages, Walked
  <2>. HIDE DEF x
  <2>. QED BY <1>1, <2>1, <2>2, QuietStep
<1>5. ASSUME NEW r \in Run, ReadMeta(r) PROVE HistoryInv'
  <2>. DEFINE x == [ix[r] EXCEPT !.at = "walk", !.meta = meta]
  <2>1. ix' = [ix EXCEPT ![r] = x] /\ UNCHANGED <<text, mtime, held, shard, meta, steady, calm>>
    BY <1>1, <1>5 DEF ReadMeta
  <2>2. RunOk(x)
    BY <1>1 DEF RunOk, RunStages, Walked
  <2>. HIDE DEF x
  <2>. QED BY <1>1, <2>1, <2>2, QuietStep
<1>6. ASSUME NEW r \in Run, Walk(r) PROVE HistoryInv'
  <2>. DEFINE there == FilesOnDisk
              gone == {f \in File \ there : ix[r].meta[f] # Unindexed}
              rest == WithoutFiles(ix[r].copy, gone)
              m == [f \in File |-> IF f \in gone THEN Unindexed ELSE ix[r].meta[f]]
              due == {f \in there : Cardinality({g \in there : g <= f}) <= MaxFiles}
              x == [ix[r] EXCEPT !.at = "stat", !.copy = rest, !.meta = m, !.todo = due]
  <2>1. /\ ix' = [ix EXCEPT ![r] = x] /\ UNCHANGED <<text, mtime, held, meta, calm>> /\ steady' = TRUE
        /\ shard' = shard \/ shard' = rest
        /\ ix[r].at = "walk"
    <3>1. ix' = [ix EXCEPT ![r] = x]
      BY <1>6 DEF Walk
    <3>2. UNCHANGED <<text, mtime, held, meta, calm>> /\ steady' = TRUE /\ ix[r].at = "walk"
      BY <1>6 DEF Walk
    <3>3. shard' = IF rest = ix[r].copy THEN shard ELSE rest
      BY <1>6 DEF Walk, SaveShard
    <3>. QED BY <3>1, <3>2, <3>3
  <2>2. ShardOk(rest)
    <3>1. ShardOk(ix[r].copy)
      BY <1>1 DEF RunOk
    <3>2. /\ rest \in Seq(AShardEntry)
          /\ \A i \in DOMAIN rest : \E j \in DOMAIN ix[r].copy : rest[i] = ix[r].copy[j]
      <4>. HIDE DEF gone
      <4>. QED BY <3>1, WithoutFilesFacts DEF ShardOk
    <3>. HIDE DEF rest
    <3>. QED BY <3>1, <3>2 DEF ShardOk
  <2>3. MetaOk(m)
    <3>1. MetaOk(ix[r].meta)
      BY <1>1, <2>1 DEF RunOk, Walked
    <3>2. Unindexed \in AMeta /\ Unindexed.mtime = 0 /\ Unindexed.text = Gone
      BY DEF Unindexed, AMeta
    <3>3. m \in [File -> AMeta] /\ \A f \in File : m[f] = Unindexed \/ m[f] = ix[r].meta[f]
      BY <3>1, <3>2 DEF MetaOk
    <3>4. \A f \in File : mtime[f] \in Nat /\ mtime[f] # 0 /\ 0 <= mtime[f]
      BY <1>1 DEF FilesOk
    <3>. HIDE DEF m
    <3>. QED BY <3>1, <3>2, <3>3, <3>4 DEF MetaOk
  <2>4. due \in SUBSET File
    BY DEF FilesOnDisk
  <2>. HIDE DEF rest, m, due
  <2>5. RunOk(x)
    BY <1>1, <2>2, <2>3, <2>4 DEF RunOk, RunStages, Walked
  <2>6. ShardOk(shard')
    BY <1>1, <2>1, <2>2
  <2>. HIDE DEF x
  <2>. QED BY <1>1, <2>1, <2>5, <2>6, QuietStep
<1>7. ASSUME NEW r \in Run, StatFile(r) PROVE HistoryInv'
  <2>. DEFINE f == Min(ix[r].todo)
              x == IF text[f] = Gone \/ Untouched(r, f) THEN [ix[r] EXCEPT !.todo = @ \ {f}]
                   ELSE [ix[r] EXCEPT !.at = "read", !.seen = mtime[f]]
  <2>1. /\ ix' = [ix EXCEPT ![r] = x] /\ UNCHANGED <<text, mtime, held, shard, meta, steady, calm>>
        /\ ix[r].at = "stat" /\ ix[r].todo # {}
    <3>1. ix' = [ix EXCEPT ![r] = x]
      BY <1>7 DEF StatFile
    <3>. QED BY <1>7, <3>1 DEF StatFile
  <2>2. f \in File /\ mtime[f] \in 1 .. mtime[f]
    <3>1. ix[r].todo \in SUBSET File /\ ix[r].todo \in SUBSET Nat
      BY <1>1, <1>3 DEF RunOk
    <3>2. f \in ix[r].todo
      BY <2>1, <3>1, MinIsSmallest
    <3>3. mtime[f] \in Nat \ {0}
      BY <1>1, <3>1, <3>2 DEF FilesOk
    <3>. HIDE DEF f
    <3>4. mtime[f] \in 1 .. mtime[f]
      BY <3>3
    <3>. QED BY <3>1, <3>2, <3>4
  <2>3. RunOk(x)
    <3>1. RunOk(ix[r])
      BY <1>1
    <3>. QED BY <2>1, <2>2, <3>1 DEF RunOk, RunStages, Walked
  <2>. HIDE DEF x
  <2>. QED BY <1>1, <2>1, <2>3, QuietStep
<1>8. ASSUME NEW r \in Run, ReadFile(r) PROVE HistoryInv'
  <2>. DEFINE f == Min(ix[r].todo)
              unread == ~Indexable(text[f])
              same == ix[r].meta[f].text = text[f]
              added == AddAll(ix[r].copy, text[f], f)
              mine == IF unread \/ same THEN ix[r].copy ELSE added
              m == IF unread THEN ix[r].meta
                   ELSE [ix[r].meta EXCEPT ![f] = [mtime |-> ix[r].seen, text |-> text[f]]]
              x == [ix[r] EXCEPT !.at = "stat", !.todo = @ \ {f}, !.seen = 0, !.copy = mine, !.meta = m]
  <2>1. /\ ix' = [ix EXCEPT ![r] = x] /\ UNCHANGED <<text, mtime, held, meta, steady>>
        /\ calm' \in BOOLEAN /\ ix[r].at = "read"
        /\ shard' = shard \/ (~(unread \/ same) /\ shard' = added)
    <3>1. ix' = [ix EXCEPT ![r] = x]
      BY <1>8 DEF ReadFile
    <3>2. UNCHANGED <<text, mtime, held, meta, steady>> /\ ix[r].at = "read"
      BY <1>8 DEF ReadFile
    <3>3. /\ (unread \/ same) => shard' = shard /\ calm' = calm
          /\ ~(unread \/ same) => shard' = added /\ calm' \in BOOLEAN
      BY <1>8 DEF ReadFile, SaveShard
    <3>. QED BY <1>1, <3>1, <3>2, <3>3
  <2>2. /\ ix[r].todo \in SUBSET File /\ ShardOk(ix[r].copy) /\ MetaOk(ix[r].meta)
        /\ ix[r].todo # {} /\ ix[r].seen \in 1 .. mtime[f]
    BY <1>1, <2>1 DEF RunOk, Walked
  <2>3. f \in File
    <3>1. ix[r].todo \in SUBSET Nat
      BY <1>3, <2>2
    <3>2. f \in ix[r].todo
      BY <2>2, <3>1, MinIsSmallest
    <3>. QED BY <2>2, <3>2
  <2>. HIDE DEF f
  <2>4. ~unread => text[f] # Gone
    BY DEF Indexable
  <2>5. ~(unread \/ same) => ShardOk(added)
    BY <1>1, <2>2, <2>3, <2>4, AddedText
  <2>6. MetaOk(m)
    <3>1. CASE unread
      BY <2>2, <3>1
    <3>2. CASE ~unread
      <4>. DEFINE y == [mtime |-> ix[r].seen, text |-> text[f]]
      <4>1. text[f] \in {Gone} \cup Texts /\ mtime[f] \in Nat /\ text[f] \subseteq held[f]
        BY <1>1, <2>3, <2>4, <3>2 DEF FilesOk
      <4>2. ix[r].seen \in Nat /\ ix[r].seen <= mtime[f]
        BY <2>2, <4>1
      <4>3. y \in AMeta /\ y.mtime <= mtime[f] /\ y.text = text[f]
        BY <4>1, <4>2 DEF AMeta
      <4>4. m = [ix[r].meta EXCEPT ![f] = y]
        BY <3>2
      <4>. HIDE DEF y
      <4>5. /\ m \in [File -> AMeta] /\ m[f] = y
            /\ \A g \in File : g # f => m[g] = ix[r].meta[g]
        BY <2>2, <2>3, <4>3, <4>4 DEF MetaOk
      <4>. HIDE DEF m
      <4>6. ASSUME NEW g \in File
            PROVE  /\ m[g].mtime <= mtime[g]
                   /\ m[g].mtime = mtime[g] => m[g].text = text[g]
                   /\ m[g].text # Gone => m[g].text \subseteq held[g]
        <5>1. CASE g = f
          BY <4>1, <4>3, <4>5, <5>1
        <5>2. CASE g # f
          BY <2>2, <4>5, <5>2 DEF MetaOk
        <5>. QED BY <5>1, <5>2
      <4>. QED BY <4>5, <4>6 DEF MetaOk
    <3>. QED BY <3>1, <3>2
  <2>7. ShardOk(mine)
    BY <2>2, <2>5
  <2>. HIDE DEF m, mine
  <2>8. RunOk(x)
    BY <2>1, <2>2, <2>6, <2>7 DEF RunOk, RunStages, Walked
  <2>9. ShardOk(shard')
    BY <1>1, <2>1, <2>5
  <2>. HIDE DEF x
  <2>. QED BY <1>1, <2>1, <2>8, <2>9, QuietStep
<1>9. ASSUME NEW r \in Run, WriteMeta(r) PROVE HistoryInv'
  <2>1. /\ ix' = [ix EXCEPT ![r] = IdleRun] /\ meta' = ix[r].meta /\ ix[r].at = "stat"
        /\ UNCHANGED <<text, mtime, held, shard, steady, calm>>
    BY <1>9 DEF WriteMeta
  <2>2. MetaOk(meta')
    BY <1>1, <2>1 DEF RunOk, Walked
  <2>. QED BY <1>1, <1>2, <2>1, <2>2, QuietStep
<1>10. CASE IndexCut
  <2>1. /\ ix' = [r \in Run |-> IdleRun] /\ calm' = FALSE
        /\ UNCHANGED <<text, mtime, shard, meta, held, steady>>
    BY <1>10 DEF IndexCut
  <2>2. ASSUME NEW q \in Run PROVE RunOk(ix[q])'
    <3>1. ix'[q] = IdleRun
      BY <2>1
    <3>. QED BY <1>2, <2>1, <3>1 DEF RunOk, ShardOk, MetaOk
  <2>. QED BY <1>1, <2>1, <2>2 DEF HistoryInv, FilesOk, ShardOk, MetaOk
<1>11. ASSUME NEW c \in DOMAIN Topic, RememberNote(c) PROVE HistoryInv'
  <2>1. shard' = Add(shard, c, Note) /\ UNCHANGED <<text, mtime, held, ix, meta, steady>> /\ calm' \in BOOLEAN
    BY <1>1, <1>11 DEF RememberNote, SaveShard
  <2>2. ShardOk(shard')
    BY <1>1, <2>1, AddedNote DEF Chunks
  <2>. QED BY <1>1, <2>1, <2>2, QuietShardStep
<1>12. ASSUME NEW i \in DOMAIN shard, Forget(i) PROVE HistoryInv'
  <2>1. shard' = RemoveAt(shard, i) /\ UNCHANGED <<text, mtime, held, ix, meta, steady>> /\ calm' = FALSE
    BY <1>12 DEF Forget, SaveShard
  <2>2. i \in 1 .. Len(shard) /\ shard \in Seq(AShardEntry)
    BY <1>1, LenProperties DEF ShardOk
  <2>. DEFINE u == RemoveAt(shard, i)
  <2>3. u \in Seq(AShardEntry) /\ \A k \in DOMAIN u : \E j \in DOMAIN shard : u[k] = shard[j]
    BY <2>2, WithoutOne, WithoutOneIsPart
  <2>4. shard' = u
    BY <2>1
  <2>. HIDE DEF u
  <2>5. ShardOk(shard')
    BY <1>1, <2>3, <2>4 DEF ShardOk
  <2>. QED BY <1>1, <2>1, <2>5, QuietShardStep
<1>13. ASSUME NEW f \in File, IndexFile(f) PROVE HistoryInv'
  <2>1. /\ shard' = AddAll(shard, text[f], f) /\ UNCHANGED <<text, mtime, held, ix, meta, steady>>
        /\ calm' = FALSE /\ text[f] # Gone
    BY <1>13 DEF IndexFile, SaveShard, Indexable
  <2>2. ShardOk(shard')
    BY <1>1, <2>1, AddedText
  <2>. QED BY <1>1, <2>1, <2>2, QuietShardStep
<1>14. ASSUME NEW f \in File, NEW t \in Texts \cup {Gone}, EditFile(f, t) PROVE HistoryInv'
  <2>1. /\ text' = [text EXCEPT ![f] = t] /\ mtime' = [mtime EXCEPT ![f] = mtime[f] + 1]
        /\ held' = [held EXCEPT ![f] = IF t = Gone THEN held[f] ELSE held[f] \cup t]
        /\ steady' = FALSE /\ UNCHANGED <<shard, meta, ix, calm>>
    BY <1>1, <1>14 DEF EditFile
  <2>2. t # Gone => t \in SUBSET Chunks
    BY IndexAssumption DEF Chunks
  <2>3. \A g \in File : held[g] \in SUBSET Chunks /\ mtime[g] \in Nat \ {0}
    BY <1>1 DEF FilesOk
  <2>4. /\ held' \in [File -> SUBSET Chunks] /\ mtime' \in [File -> Nat \ {0}]
        /\ text' \in [File -> {Gone} \cup Texts]
        /\ \A g \in File : /\ held[g] \subseteq held'[g]
                           /\ g # f => text'[g] = text[g] /\ mtime'[g] = mtime[g]
        /\ text'[f] = t /\ mtime'[f] = mtime[f] + 1
        /\ t # Gone => t \subseteq held'[f]
    BY <1>1, <2>1, <2>2, <2>3 DEF FilesOk
  <2>5. FilesOk'
    BY <1>1, <2>4 DEF FilesOk
  <2>6. ASSUME NEW s, ShardOk(s) PROVE ShardOk(s)'
    BY <2>4, <2>6 DEF ShardOk
  <2>7. ASSUME NEW m, MetaOk(m) PROVE MetaOk(m)'
    <3>1. ASSUME NEW g \in File
          PROVE  /\ m[g].mtime <= mtime'[g]
                 /\ m[g].mtime = mtime'[g] => m[g].text = text'[g]
                 /\ m[g].text # Gone => m[g].text \subseteq held'[g]
      <4>1. /\ m[g].mtime \in Nat /\ m[g].mtime <= mtime[g] /\ mtime[g] \in Nat
            /\ m[g].mtime = mtime[g] => m[g].text = text[g]
            /\ m[g].text # Gone => m[g].text \subseteq held[g]
        BY <2>3, <2>7 DEF MetaOk, AMeta
      <4>2. CASE g = f
        <5>1. mtime'[g] = mtime[g] + 1
          BY <2>4, <4>2
        <5>2. m[g].mtime <= mtime[g] + 1 /\ m[g].mtime # mtime[g] + 1
          BY <4>1
        <5>. QED BY <2>4, <4>1, <5>1, <5>2
      <4>3. CASE g # f
        BY <2>4, <4>1, <4>3
      <4>. QED BY <4>2, <4>3
    <3>. QED BY <2>7, <3>1 DEF MetaOk
  <2>8. ASSUME NEW q \in Run PROVE RunOk(ix[q])'
    <3>1. RunOk(ix[q]) /\ ix'[q] = ix[q]
      BY <1>1, <2>1
    <3>. DEFINE x == ix[q]
    <3>2. RunOk(x) /\ ix'[q] = x
      BY <3>1
    <3>3. ShardOk(x.copy)' /\ (x.at \in Walked => MetaOk(x.meta)')
      BY <2>1, <2>6, <2>7, <3>2 DEF RunOk
    <3>4. x.at = "read" => x.seen \in 1 .. mtime'[Min(x.todo)]
      <4>. SUFFICES ASSUME x.at = "read" PROVE x.seen \in 1 .. mtime'[Min(x.todo)]
        OBVIOUS
      <4>. DEFINE g == Min(x.todo)
      <4>1. x.todo # {} /\ x.seen \in 1 .. mtime[g] /\ x.todo \in SUBSET File /\ x.todo \in SUBSET Nat
        BY <1>3, <3>2 DEF RunOk
      <4>2. g \in File
        BY <4>1, MinIsSmallest
      <4>. HIDE DEF g, x
      <4>3. mtime[g] \in Nat /\ (mtime'[g] = mtime[g] \/ mtime'[g] = mtime[g] + 1)
        BY <2>3, <2>4, <4>2
      <4>4. x.seen \in 1 .. mtime'[g]
        BY <4>1, <4>3
      <4>. QED BY <4>4 DEF g
    <3>. QED BY <2>1, <3>2, <3>3, <3>4 DEF RunOk
  <2>9. ShardOk(shard)' /\ MetaOk(meta)'
    BY <1>1, <2>1, <2>6, <2>7
  <2>. QED BY <1>1, <2>1, <2>5, <2>8, <2>9 DEF HistoryInv
<1>15. CASE UNCHANGED indexVars
  BY <1>1, <1>15, QuietShardStep DEF indexVars
<1>. QED BY <1>4, <1>5, <1>6, <1>7, <1>8, <1>9, <1>10, <1>11, <1>12, <1>13, <1>14, <1>15 DEF IndexNext

-----------------------------------------------------------------------------
(* What one run does while all is calm: the others are idle.               *)
LEMMA CalmRunStep ==
  ASSUME HistoryInv, CalmInv, calm', calm, UNCHANGED <<text, held>>,
         NEW r \in Run, NEW x, ix' = [ix EXCEPT ![r] = x],
         ix[r].at # "idle", x.at \in Walked, x.copy = shard', Covers(x.meta, shard'),
         NotesAreIn', steady' => AllThere(shard'),
         steady' /\ x.at \in {"stat", "read"} =>
            \A f \in File : Due(f) /\ f \notin x.todo => Done(x.meta, f)
  PROVE  CalmInv'
<1>1. DOMAIN ix = Run /\ OneAtATime
  BY DEF HistoryInv, CalmInv
<1>2. ix'[r] = x /\ x.at # "idle" /\ \A q \in Run : q # r => ix'[q] = ix[q] /\ ix[q].at = "idle"
  BY <1>1 DEF OneAtATime, Walked
<1>3. OneAtATime'
  BY <1>2 DEF OneAtATime
<1>4. MetaCovers'
  <2>1. \A q \in Run : ix'[q].at \in Walked => q = r
    BY <1>2 DEF Walked
  <2>2. Covers(ix'[r].meta, shard')
    BY <1>2
  <2>3. ASSUME NEW q \in Run, ix'[q].at \in Walked PROVE Covers(ix[q].meta, shard)'
    <3>1. Covers(ix'[q].meta, shard')
      BY <2>1, <2>2, <2>3
    <3>. QED BY <3>1 DEF Covers, TopicsOf, Apart, IsIn
  <2>. QED BY <1>2, <2>3 DEF MetaCovers
<1>5. Busy'
  BY <1>2 DEF Busy
<1>6. ASSUME steady', NEW q \in Run, ix'[q].at \in {"stat", "read"}, NEW f \in File, Due(f)', f \notin ix'[q].todo
      PROVE  Done(ix[q].meta, f)'
  <2>1. q = r /\ ix'[q] = x
    BY <1>2, <1>6
  <2>2. Due(f)
    BY <1>6 DEF Due, AmongTheFirst
  <2>3. Done(ix'[q].meta, f)
    BY <1>6, <2>1, <2>2
  <2>. QED BY <2>3 DEF Done
<1>7. steady' => AllDone'
  BY <1>5, <1>6 DEF AllDone
<1>8. steady' => AllThere(shard)'
  BY DEF AllThere
<1>. QED BY <1>3, <1>4, <1>7, <1>8 DEF CalmInv

(* What is found stays found when files only get more chunks.              *)
LEMMA MoreHeld ==
  ASSUME \A f \in File : held[f] \subseteq held'[f]
  PROVE  /\ \A f \in File : TopicsOf(f) \subseteq TopicsOf(f)'
         /\ \A f \in File : Apart(f)' => Apart(f)
<1>1. \A f \in File : TopicsOf(f) \subseteq TopicsOf(f)'
  BY DEF TopicsOf
<1>. QED BY <1>1 DEF Apart

LEMMA SameHeld ==
  ASSUME held' = held
  PROVE  /\ \A f \in File : TopicsOf(f)' = TopicsOf(f)
         /\ \A f \in File : Apart(f)' <=> Apart(f)
BY DEF TopicsOf, Apart

(* The topics that are in one shard are in another.                        *)
LEMMA CoversMore ==
  ASSUME NEW m, NEW s, Covers(m, s), NEW n, NEW u,
         \A i \in DOMAIN u : u[i].file \in File => n[u[i].file] # Unindexed,
         \A topic : IsIn(s, topic) => IsIn(u, topic),
         \A f \in File : n[f].text # Gone =>
            (n[f].text = m[f].text \/ \A c \in n[f].text : IsIn(u, Topic[c]))
  PROVE  Covers(n, u)
<1>2. ASSUME NEW f \in File, Apart(f), n[f].text # Gone, NEW c \in n[f].text PROVE IsIn(u, Topic[c])
  <2>1. CASE \A d \in n[f].text : IsIn(u, Topic[d])
    BY <2>1
  <2>2. CASE n[f].text = m[f].text
    <3>1. IsIn(s, Topic[c])
      BY <1>2, <2>2 DEF Covers
    <3>. QED BY <3>1
  <2>. QED BY <1>2, <2>1, <2>2
<1>. QED BY <1>2 DEF Covers, IsIn

LEMMA StaysIn ==
  ASSUME NEW s, NEW u, KeepsAll(s, u)
  PROVE  \A topic : IsIn(s, topic) => IsIn(u, topic)
BY DEF KeepsAll, IsIn, Near

LEMMA SearchFinds ==
  ASSUME NEW s, NEW topic, Search(s, topic) # {}
  PROVE  IsIn(s, topic)
BY DEF Search, IsIn

LEMMA NotesStayIn ==
  ASSUME NotesAreIn, noted' = noted, held' = held, \A topic : IsIn(shard, topic) => IsIn(shard', topic)
  PROVE  NotesAreIn'
<1>1. \A f \in File : TopicsOf(f)' = TopicsOf(f)
  BY SameHeld
<1>2. \A topic : IsIn(shard', topic) => IsIn(shard, topic)'
  BY DEF IsIn
<1>. QED BY <1>1, <1>2 DEF NotesAreIn

LEMMA CalmInvInit == IndexInit => CalmInv
<1>. SUFFICES ASSUME IndexInit PROVE CalmInv
  OBVIOUS
<1>1. /\ shard = <<>> /\ meta = [f \in File |-> Unindexed] /\ ix = [r \in Run |-> IdleRun] /\ noted = {}
      /\ left.runs = MaxRuns
  BY DEF IndexInit
<1>2. \A r \in Run : ix[r].at = "idle"
  BY <1>1 DEF IdleRun
<1>3. OneAtATime /\ NotesAreIn /\ AllThere(shard)
  BY <1>1, <1>2 DEF OneAtATime, NotesAreIn, AllThere
<1>4. MetaCovers
  <2>1. Covers(meta, shard)
    BY <1>1 DEF Covers, Unindexed
  <2>. QED BY <1>2, <2>1 DEF MetaCovers, Walked
<1>5. AllDone
  <2>1. MaxRuns \in Nat
    BY IndexAssumption
  <2>2. ~(left.runs < MaxRuns)
    BY <1>1, <2>1
  <2>. QED BY <1>2, <2>2 DEF AllDone
<1>. QED BY <1>3, <1>4, <1>5 DEF CalmInv

LEMMA CalmOpen ==
  ASSUME HistoryInv, CalmInv, calm', NEW r \in Run, Open(r)
  PROVE  CalmInv'
<1>. DEFINE x == [IdleRun EXCEPT !.at = "meta", !.copy = shard]
<1>1. /\ ix' = [ix EXCEPT ![r] = x] /\ UNCHANGED <<text, shard, meta, held, noted, steady>> /\ calm /\ ~Busy
  BY DEF Open
<1>2. OneAtATime /\ MetaCovers /\ NotesAreIn /\ (steady => AllThere(shard))
  BY <1>1 DEF CalmInv
<1>3. \A q \in Run : ix[q].at = "idle"
  BY <1>1 DEF Busy
<1>4. x.at = "meta" /\ x.copy = shard
  BY DEF IdleRun
<1>. HIDE DEF x
<1>5. ix'[r] = x /\ \A q \in Run : q # r => ix'[q].at = "idle"
  BY <1>1, <1>3 DEF HistoryInv
<1>6. OneAtATime'
  BY <1>1, <1>4, <1>5 DEF OneAtATime
<1>7. Covers(meta, shard)'
  <2>1. Covers(meta, shard)
    BY <1>2, <1>3 DEF MetaCovers, Walked
  <2>. QED BY <1>1, <2>1 DEF Covers, Apart, TopicsOf, IsIn
<1>8. \A q \in Run : ix'[q].at \notin Walked /\ ix'[q].at \notin {"stat", "read"}
  BY <1>4, <1>5 DEF Walked
<1>9. MetaCovers'
  BY <1>7, <1>8 DEF MetaCovers
<1>10. NotesAreIn' /\ (steady' => AllThere(shard)')
  BY <1>1, <1>2 DEF NotesAreIn, TopicsOf, IsIn, AllThere
<1>11. AllDone'
  <2>1. Busy'
    BY <1>4, <1>5 DEF Busy
  <2>. QED BY <1>8, <2>1 DEF AllDone
<1>. QED BY <1>6, <1>9, <1>10, <1>11 DEF CalmInv

LEMMA CalmReadMeta ==
  ASSUME HistoryInv, CalmInv, calm', NEW r \in Run, ReadMeta(r)
  PROVE  CalmInv'
<1>. DEFINE x == [ix[r] EXCEPT !.at = "walk", !.meta = meta]
<1>1. /\ ix' = [ix EXCEPT ![r] = x] /\ UNCHANGED <<text, shard, meta, held, noted, steady, calm>> /\ ix[r].at = "meta"
  BY DEF ReadMeta
<1>2. OneAtATime /\ MetaCovers /\ NotesAreIn /\ (steady => AllThere(shard)) /\ calm
  BY <1>1 DEF CalmInv
<1>3. RunOk(ix[r])
  BY DEF HistoryInv
<1>4. x.at = "walk" /\ x.meta = meta /\ x.copy = shard'
  BY <1>1, <1>2, <1>3 DEF OneAtATime, RunOk
<1>. HIDE DEF x
<1>5. Covers(meta, shard)
  <2>1. \A q \in Run : ix[q].at \notin Walked
    BY <1>1, <1>2 DEF OneAtATime, Walked
  <2>. QED BY <1>2, <2>1 DEF MetaCovers
<1>6. x.at \in Walked /\ x.at \notin {"stat", "read"} /\ ix[r].at # "idle" /\ Covers(x.meta, shard')
  BY <1>1, <1>4, <1>5 DEF Walked
<1>7. NotesAreIn' /\ (steady' => AllThere(shard'))
  BY <1>1, <1>2 DEF NotesAreIn, TopicsOf, IsIn
<1>. QED BY <1>1, <1>2, <1>4, <1>6, <1>7, CalmRunStep

LEMMA CalmStatFile ==
  ASSUME HistoryInv, CalmInv, calm', NEW r \in Run, StatFile(r)
  PROVE  CalmInv'
<1>. DEFINE f == Min(ix[r].todo)
            passed == text[f] = Gone \/ Untouched(r, f)
            x == IF passed THEN [ix[r] EXCEPT !.todo = @ \ {f}] ELSE [ix[r] EXCEPT !.at = "read", !.seen = mtime[f]]
<1>1. /\ ix' = [ix EXCEPT ![r] = x] /\ UNCHANGED <<text, shard, meta, held, noted, steady, calm>> /\ ix[r].at = "stat"
  <2>1. ix' = [ix EXCEPT ![r] = x]
    BY DEF StatFile
  <2>. QED BY <2>1 DEF StatFile
<1>2. OneAtATime /\ MetaCovers /\ NotesAreIn /\ (steady => AllThere(shard) /\ AllDone) /\ calm
  BY <1>1 DEF CalmInv
<1>3. RunOk(ix[r]) /\ MetaOk(ix[r].meta)
  BY <1>1 DEF HistoryInv, RunOk, Walked
<1>4. /\ x.at \in {"stat", "read"} /\ x.meta = ix[r].meta /\ x.copy = shard'
      /\ x.todo = IF passed THEN ix[r].todo \ {f} ELSE ix[r].todo
  BY <1>1, <1>2, <1>3 DEF OneAtATime, RunOk
<1>5. passed => text[f] = Gone \/ ix[r].meta[f].mtime = mtime[f]
  BY DEF Untouched
<1>. HIDE DEF x, passed, f
<1>6. Covers(x.meta, shard')
  BY <1>1, <1>2, <1>4 DEF MetaCovers, Walked
<1>7. NotesAreIn' /\ (steady' => AllThere(shard'))
  BY <1>1, <1>2 DEF NotesAreIn, TopicsOf, IsIn
<1>8. ASSUME steady', NEW g \in File, Due(g), g \notin x.todo PROVE Done(x.meta, g)
  <2>2. CASE g \notin ix[r].todo
    <3>1. Done(ix[r].meta, g)
      BY <1>1, <1>2, <1>8, <2>2 DEF AllDone
    <3>. QED BY <1>1, <1>4, <3>1 DEF Done
  <2>3. CASE g \in ix[r].todo
    <3>1. passed /\ g = f
      BY <1>4, <1>8, <2>3
    <3>2. ix[r].meta[g].mtime = mtime[g]
      BY <1>5, <1>8, <3>1 DEF Due
    <3>3. ix[r].meta[g].text = text[g]
      BY <1>3, <3>2 DEF MetaOk
    <3>. QED BY <1>1, <1>4, <3>3 DEF Done
  <2>. QED BY <2>2, <2>3
<1>9. ix[r].at # "idle" /\ x.at # "idle" /\ x.at \in Walked
  BY <1>1, <1>4 DEF Walked
<1>. QED BY <1>1, <1>2, <1>4, <1>6, <1>7, <1>8, <1>9, CalmRunStep

LEMMA CalmWriteMeta ==
  ASSUME HistoryInv, CalmInv, calm', NEW r \in Run, WriteMeta(r)
  PROVE  CalmInv'
<1>1. /\ ix' = [ix EXCEPT ![r] = IdleRun] /\ meta' = ix[r].meta /\ ix[r].at = "stat" /\ ix[r].todo = {}
      /\ UNCHANGED <<text, shard, held, noted, steady, calm>>
  BY DEF WriteMeta
<1>2. OneAtATime /\ MetaCovers /\ NotesAreIn /\ (steady => AllThere(shard) /\ AllDone) /\ calm
  BY <1>1 DEF CalmInv
<1>3. \A q \in Run : ix'[q].at = "idle"
  BY <1>1, <1>2 DEF OneAtATime, HistoryInv, IdleRun
<1>4. OneAtATime'
  BY <1>3 DEF OneAtATime
<1>5. MetaCovers'
  <2>1. Covers(ix[r].meta, shard)
    BY <1>1, <1>2 DEF MetaCovers, Walked
  <2>2. Covers(meta, shard)'
    BY <1>1, <2>1 DEF Covers, Apart, TopicsOf, IsIn
  <2>. QED BY <1>3, <2>2 DEF MetaCovers, Walked
<1>6. NotesAreIn' /\ (steady' => AllThere(shard)')
  BY <1>1, <1>2 DEF NotesAreIn, TopicsOf, IsIn, AllThere
<1>7. steady' => AllDone'
  <2>1. ASSUME steady', NEW f \in File, Due(f)' PROVE Done(meta, f)'
    <3>1. Due(f)
      BY <1>1, <2>1 DEF Due, AmongTheFirst
    <3>2. Done(ix[r].meta, f)
      BY <1>1, <1>2, <2>1, <3>1 DEF AllDone
    <3>. QED BY <1>1, <3>2 DEF Done
  <2>. QED BY <1>3, <2>1 DEF AllDone
<1>. QED BY <1>4, <1>5, <1>6, <1>7 DEF CalmInv

LEMMA CalmWalk ==
  ASSUME HistoryInv, CalmInv, calm', NEW r \in Run, Walk(r)
  PROVE  CalmInv'
<1>. DEFINE there == FilesOnDisk
            gone == {f \in File \ there : ix[r].meta[f] # Unindexed}
            rest == WithoutFiles(ix[r].copy, gone)
            m == [f \in File |-> IF f \in gone THEN Unindexed ELSE ix[r].meta[f]]
            due == {f \in there : Cardinality({g \in there : g <= f}) <= MaxFiles}
            x == [ix[r] EXCEPT !.at = "stat", !.copy = rest, !.meta = m, !.todo = due]
<1>1. /\ ix' = [ix EXCEPT ![r] = x] /\ UNCHANGED <<text, held, noted, calm>>
      /\ shard' = IF rest = ix[r].copy THEN shard ELSE rest
      /\ ix[r].at = "walk"
  <2>1. ix' = [ix EXCEPT ![r] = x]
    BY DEF Walk
  <2>2. UNCHANGED <<text, held, noted, calm>> /\ ix[r].at = "walk"
    BY DEF Walk
  <2>3. shard' = IF rest = ix[r].copy THEN shard ELSE rest
    BY DEF Walk, SaveShard
  <2>. QED BY <2>1, <2>2, <2>3
<1>2. OneAtATime /\ MetaCovers /\ NotesAreIn /\ calm
  BY <1>1 DEF CalmInv
<1>3. RunOk(ix[r]) /\ MetaOk(ix[r].meta) /\ ix[r].copy = shard /\ ShardOk(shard)
  BY <1>1, <1>2 DEF HistoryInv, RunOk, Walked, OneAtATime
<1>4. shard' = rest /\ rest = WithoutFiles(shard, gone)
  BY <1>1, <1>3
<1>5. x.at = "stat" /\ x.copy = rest /\ x.meta = m /\ x.todo = due
  BY <1>3 DEF RunOk
<1>6. /\ \A f \in File : m[f] = IF f \in gone THEN Unindexed ELSE ix[r].meta[f]
      /\ \A f \in File : f \notin gone => f \in there \/ ix[r].meta[f] = Unindexed
  OBVIOUS
<1>7. /\ \A f \in File : f \in there <=> text[f] # Gone
      /\ \A f \in File : Due(f) => f \in due
  <2>1. ASSUME NEW f \in File PROVE {g \in there : g <= f} = {g \in File : g <= f /\ text[g] # Gone}
    BY DEF FilesOnDisk
  <2>2. \A f \in File : f \in there <=> text[f] # Gone
    BY DEF FilesOnDisk
  <2>3. ASSUME NEW f \in File, Due(f) PROVE f \in due
    BY <2>1, <2>2, <2>3 DEF Due, AmongTheFirst
  <2>. QED BY <2>2, <2>3
<1>8. gone \in SUBSET File
  OBVIOUS
<1>. HIDE DEF rest, m, due, there, gone, x
<1>9. /\ \A i \in DOMAIN rest : rest[i].file \notin gone /\ \E j \in DOMAIN shard : rest[i] = shard[j]
      /\ \A j \in DOMAIN shard : shard[j].file \notin gone => \E i \in DOMAIN rest : rest[i] = shard[j]
  <2>1. shard \in Seq(AShardEntry)
    BY <1>3 DEF ShardOk
  <2>. QED BY <1>4, <2>1, WithoutFilesFacts
<1>10. Covers(ix[r].meta, shard)
  BY <1>1, <1>2 DEF MetaCovers, Walked
<1>11. ASSUME NEW topic, IsIn(shard, topic), \A g \in gone : topic \notin TopicsOf(g) PROVE IsIn(rest, topic)
  <2>1. PICK j \in DOMAIN shard : Topic[shard[j].chunk] = topic
    BY <1>11 DEF IsIn
  <2>2. shard[j].file \notin gone
    BY <1>3, <1>8, <1>11, <2>1 DEF ShardOk, TopicsOf
  <2>. QED BY <1>9, <2>1, <2>2 DEF IsIn
<1>12. Covers(m, rest)
  <2>1. ASSUME NEW i \in DOMAIN rest, rest[i].file \in File PROVE m[rest[i].file] # Unindexed
    <3>1. PICK j \in DOMAIN shard : rest[i] = shard[j]
      BY <1>9
    <3>2. ix[r].meta[rest[i].file] # Unindexed
      BY <1>10, <2>1, <3>1 DEF Covers
    <3>3. rest[i].file \notin gone
      BY <1>9
    <3>. QED BY <1>6, <2>1, <3>2, <3>3
  <2>2. ASSUME NEW f \in File, Apart(f), m[f].text # Gone, NEW c \in m[f].text PROVE IsIn(rest, Topic[c])
    <3>1. f \notin gone /\ m[f] = ix[r].meta[f]
      <4>1. Unindexed.text = Gone
        BY DEF Unindexed
      <4>2. f \in gone => m[f] = Unindexed
        BY <1>6
      <4>3. f \notin gone
        BY <2>2, <4>1, <4>2
      <4>. QED BY <1>6, <4>3
    <3>2. c \in held[f] /\ IsIn(shard, Topic[c])
      BY <1>3, <1>10, <2>2, <3>1 DEF MetaOk, Covers
    <3>3. \A g \in gone : Topic[c] \notin TopicsOf(g)
      <4>1. Topic[c] \in TopicsOf(f)
        BY <3>2 DEF TopicsOf
      <4>. QED BY <1>8, <2>2, <3>1, <4>1 DEF Apart
    <3>. QED BY <1>11, <3>2, <3>3
  <2>. QED BY <2>1, <2>2 DEF Covers
<1>13. NotesAreIn'
  <2>1. ASSUME NEW t \in noted, \A f \in File : t \notin TopicsOf(f) PROVE IsIn(rest, t)
    BY <1>2, <1>8, <1>11, <2>1 DEF NotesAreIn
  <2>2. \A t \in noted' : (\A f \in File : t \notin TopicsOf(f)) => IsIn(shard', t)
    BY <1>1, <1>4, <2>1
  <2>. QED BY <1>1, <2>2 DEF NotesAreIn, TopicsOf, IsIn
<1>14. AllThere(rest)
  <2>1. ASSUME NEW i \in DOMAIN rest, rest[i].file \in File PROVE text[rest[i].file] # Gone
    <3>1. PICK j \in DOMAIN shard : rest[i] = shard[j]
      BY <1>9
    <3>2. ix[r].meta[rest[i].file] # Unindexed
      BY <1>10, <2>1, <3>1 DEF Covers
    <3>3. rest[i].file \notin gone
      BY <1>9
    <3>. QED BY <1>6, <1>7, <2>1, <3>2, <3>3
  <2>. QED BY <2>1 DEF AllThere
<1>15. ix[r].at # "idle" /\ x.at \in Walked /\ x.copy = shard' /\ Covers(x.meta, shard') /\ AllThere(shard')
  BY <1>1, <1>4, <1>5, <1>12, <1>14 DEF Walked
<1>16. \A f \in File : Due(f) /\ f \notin x.todo => Done(x.meta, f)
  BY <1>5, <1>7
<1>. QED BY <1>1, <1>2, <1>13, <1>15, <1>16, CalmRunStep

LEMMA CalmReadFile ==
  ASSUME HistoryInv, CalmInv, calm', NEW r \in Run, ReadFile(r)
  PROVE  CalmInv'
<1>. DEFINE f == Min(ix[r].todo)
            unread == ~Indexable(text[f])
            same == ix[r].meta[f].text = text[f]
            added == AddAll(ix[r].copy, text[f], f)
            mine == IF unread \/ same THEN ix[r].copy ELSE added
            y == [mtime |-> ix[r].seen, text |-> text[f]]
            m == IF unread THEN ix[r].meta ELSE [ix[r].meta EXCEPT ![f] = y]
            x == [ix[r] EXCEPT !.at = "stat", !.todo = @ \ {f}, !.seen = 0, !.copy = mine, !.meta = m]
<1>1. /\ ix' = [ix EXCEPT ![r] = x] /\ UNCHANGED <<text, held, noted, steady>> /\ ix[r].at = "read"
      /\ (unread \/ same) => shard' = shard /\ calm' = calm
      /\ ~(unread \/ same) => /\ shard' = added
                              /\ calm' = (calm /\ KeepsAll(ix[r].copy, added)
                                            /\ \A c \in text[f] : Search(added, Topic[c]) # {})
  <2>1. ix' = [ix EXCEPT ![r] = x]
    BY DEF ReadFile
  <2>2. UNCHANGED <<text, held, noted, steady>> /\ ix[r].at = "read"
    BY DEF ReadFile
  <2>3. (unread \/ same) => shard' = shard /\ calm' = calm
    BY DEF ReadFile
  <2>4. ~(unread \/ same) => /\ shard' = added
                              /\ calm' = (calm /\ KeepsAll(ix[r].copy, added)
                                            /\ \A c \in text[f] : Search(added, Topic[c]) # {})
    BY DEF ReadFile, SaveShard
  <2>. QED BY <2>1, <2>2, <2>3, <2>4
<1>2. calm
  BY <1>1
<1>3. OneAtATime /\ MetaCovers /\ NotesAreIn /\ (steady => AllThere(shard) /\ AllDone)
  BY <1>2 DEF CalmInv
<1>4. RunOk(ix[r]) /\ MetaOk(ix[r].meta) /\ ix[r].copy = shard /\ ShardOk(shard) /\ FilesOk
  BY <1>1, <1>3 DEF HistoryInv, RunOk, Walked, OneAtATime
<1>5. f \in ix[r].todo /\ f \in File /\ ix[r].todo \in SUBSET File
  <2>1. ix[r].todo \in SUBSET File /\ ix[r].todo # {}
    BY <1>1, <1>4 DEF RunOk
  <2>2. ix[r].todo \in SUBSET Nat
    BY <2>1, NoteIsNoFile
  <2>. QED BY <2>1, <2>2, MinIsSmallest
<1>6. y # Unindexed /\ y.text = text[f]
  <2>1. ix[r].seen \in 1 .. mtime[f]
    BY <1>1, <1>4 DEF RunOk
  <2>2. mtime[f] \in Nat
    BY <1>4, <1>5 DEF FilesOk
  <2>3. ix[r].seen # 0
    BY <2>1, <2>2
  <2>. QED BY <2>3 DEF Unindexed
<1>7. /\ x.at = "stat" /\ x.todo = ix[r].todo \ {f} /\ x.copy = mine /\ x.meta = m
  BY <1>4 DEF RunOk
<1>8. unread <=> text[f] \in {Gone, {}}
  BY DEF Indexable
<1>. HIDE DEF unread, same, added, f, y, x
<1>9. /\ \A g \in File : g # f => m[g] = ix[r].meta[g]
      /\ m[f] = IF unread THEN ix[r].meta[f] ELSE y
  BY <1>4, <1>5 DEF MetaOk
<1>. HIDE DEF m
<1>10. mine = shard' /\ Covers(ix[r].meta, shard)
  BY <1>1, <1>3, <1>4 DEF MetaCovers, Walked
<1>. HIDE DEF mine
<1>11. \A topic : IsIn(shard, topic) => IsIn(shard', topic)
  <2>1. CASE unread \/ same
    BY <1>1, <2>1
  <2>2. CASE ~(unread \/ same)
    BY <1>1, <1>4, <2>2, StaysIn
  <2>. QED BY <2>1, <2>2
<1>12. \A i \in DOMAIN shard' : (\E j \in DOMAIN shard : shard'[i] = shard[j]) \/ (~unread /\ shard'[i].file = f)
  <2>1. CASE unread \/ same
    BY <1>1, <2>1
  <2>2. CASE ~(unread \/ same)
    <3>1. text[f] # Gone
      BY <1>8, <2>2
    <3>2. Grown(shard, shard', text[f], f)
      BY <1>1, <1>4, <1>5, <2>2, <3>1, AddedText DEF added
    <3>. QED BY <2>2, <3>2 DEF Grown
  <2>. QED BY <2>1, <2>2
<1>13. Covers(m, shard')
  <2>1. ASSUME NEW i \in DOMAIN shard', shard'[i].file \in File PROVE m[shard'[i].file] # Unindexed
    <3>1. CASE ~unread /\ shard'[i].file = f
      BY <1>6, <1>9, <3>1
    <3>2. CASE \E j \in DOMAIN shard : shard'[i] = shard[j]
      <4>1. ix[r].meta[shard'[i].file] # Unindexed
        BY <1>10, <2>1, <3>2 DEF Covers
      <4>. QED BY <1>6, <1>9, <2>1, <4>1
    <3>. QED BY <1>12, <3>1, <3>2
  <2>2. ASSUME NEW g \in File
        PROVE  m[g].text = ix[r].meta[g].text \/ \A c \in m[g].text : IsIn(shard', Topic[c])
    <3>1. CASE g # f \/ unread
      BY <1>9, <3>1
    <3>2. CASE g = f /\ ~unread /\ same
      BY <1>6, <1>9, <3>2 DEF same
    <3>3. CASE g = f /\ ~unread /\ ~same
      <4>1. \A c \in text[f] : IsIn(shard', Topic[c])
        BY <1>1, <3>3, SearchFinds
      <4>. QED BY <1>6, <1>9, <3>3, <4>1
    <3>. QED BY <3>1, <3>2, <3>3
  <2>. QED BY <1>10, <1>11, <2>1, <2>2, CoversMore
<1>14. NotesAreIn'
  BY <1>1, <1>3, <1>11, NotesStayIn
<1>15. steady => AllThere(shard')
  <2>1. ASSUME steady, NEW i \in DOMAIN shard', shard'[i].file \in File PROVE text[shard'[i].file] # Gone
    BY <1>3, <1>8, <1>12, <2>1 DEF AllThere
  <2>. QED BY <2>1 DEF AllThere
<1>16. ASSUME steady, NEW g \in File, Due(g), g \notin x.todo PROVE Done(x.meta, g)
  <2>1. CASE g = f
    <3>1. unread => text[f] = {}
      BY <1>8, <1>16, <2>1 DEF Due
    <3>. QED BY <1>6, <1>7, <1>9, <2>1, <3>1 DEF Done
  <2>2. CASE g # f
    <3>1. Done(ix[r].meta, g)
      BY <1>1, <1>3, <1>7, <1>16, <2>2 DEF AllDone
    <3>. QED BY <1>7, <1>9, <2>2, <3>1 DEF Done
  <2>. QED BY <2>1, <2>2
<1>17. ix[r].at # "idle" /\ x.at \in Walked /\ x.copy = shard' /\ Covers(x.meta, shard')
  BY <1>1, <1>7, <1>10, <1>13 DEF Walked
<1>. QED BY <1>1, <1>2, <1>14, <1>15, <1>16, <1>17, CalmRunStep

LEMMA CalmRememberNote ==
  ASSUME HistoryInv, CalmInv, calm', "runs" \in DOMAIN left, NEW c \in DOMAIN Topic, RememberNote(c)
  PROVE  CalmInv'
<1>1. /\ shard' = Add(shard, c, Note) /\ UNCHANGED <<text, meta, ix, held, steady>> /\ noted' = noted \cup {Topic[c]}
      /\ calm /\ ~Busy /\ KeepsAll(shard, shard') /\ Search(shard', Topic[c]) # {} /\ left'.runs = left.runs
  BY DEF RememberNote, SaveShard
<1>2. OneAtATime /\ MetaCovers /\ NotesAreIn /\ (steady => AllThere(shard) /\ AllDone)
  BY <1>1 DEF CalmInv
<1>3. \A q \in Run : ix[q].at = "idle"
  BY <1>1 DEF Busy
<1>4. Note \notin File
  BY NoteIsNoFile
<1>5. \A i \in DOMAIN shard' : (\E j \in DOMAIN shard : shard'[i] = shard[j]) \/ shard'[i].file \notin File
  <2>1. Grown(shard, shard', {c}, Note)
    BY <1>1, AddedNote DEF HistoryInv, Chunks
  <2>. QED BY <1>4, <2>1 DEF Grown
<1>6. \A topic : IsIn(shard, topic) => IsIn(shard', topic)
  BY <1>1, StaysIn
<1>7. OneAtATime'
  BY <1>1, <1>3 DEF OneAtATime
<1>8. MetaCovers'
  <2>1. Covers(meta, shard)
    BY <1>2, <1>3 DEF MetaCovers, Walked
  <2>2. \A i \in DOMAIN shard' : shard'[i].file \in File => meta[shard'[i].file] # Unindexed
    BY <1>5, <2>1 DEF Covers
  <2>3. Covers(meta, shard')
    BY <1>6, <2>1, <2>2, CoversMore
  <2>4. Covers(meta, shard)'
    BY <1>1, <2>3 DEF Covers, Apart, TopicsOf, IsIn
  <2>. QED BY <1>1, <1>3, <2>4 DEF MetaCovers, Walked
<1>9. NotesAreIn'
  <2>1. \A t \in noted' : (\A f \in File : t \notin TopicsOf(f)) => IsIn(shard', t)
    BY <1>1, <1>2, <1>6, SearchFinds DEF NotesAreIn
  <2>. QED BY <1>1, <2>1 DEF NotesAreIn, TopicsOf, IsIn
<1>10. steady' => AllThere(shard)'
  BY <1>1, <1>2, <1>5 DEF AllThere
<1>11. steady' => AllDone'
  BY <1>1, <1>2 DEF AllDone, Busy, Due, AmongTheFirst, Done
<1>. QED BY <1>7, <1>8, <1>9, <1>10, <1>11 DEF CalmInv

LEMMA CalmEditFile ==
  ASSUME HistoryInv, CalmInv, calm', NEW f \in File, NEW t \in Texts \cup {Gone}, EditFile(f, t)
  PROVE  CalmInv'
<1>1. /\ held' = [held EXCEPT ![f] = IF t = Gone THEN held[f] ELSE held[f] \cup t]
      /\ steady' = FALSE /\ UNCHANGED <<shard, meta, ix, noted, calm>>
  BY DEF EditFile
<1>2. OneAtATime /\ MetaCovers /\ NotesAreIn
  BY <1>1 DEF CalmInv
<1>3. \A g \in File : held[g] \subseteq held'[g]
  BY <1>1 DEF HistoryInv, FilesOk
<1>4. /\ \A g \in File : TopicsOf(g) \subseteq TopicsOf(g)'
      /\ \A g \in File : Apart(g)' => Apart(g)
  BY <1>3, MoreHeld
<1>5. ASSUME NEW m, NEW s, Covers(m, s) PROVE Covers(m, s)'
  BY <1>4, <1>5 DEF Covers, IsIn
<1>6. OneAtATime'
  BY <1>1, <1>2 DEF OneAtATime
<1>7. MetaCovers'
  <2>1. ASSUME NEW q \in Run, ix'[q].at \in Walked PROVE Covers(ix[q].meta, shard)'
    <3>. DEFINE m == ix[q].meta
                s == shard
    <3>1. Covers(m, s) /\ m = ix'[q].meta /\ s = shard'
      BY <1>1, <1>2, <2>1 DEF MetaCovers
    <3>. HIDE DEF m, s
    <3>2. \A g \in File : Apart(g)' => Apart(g)
      BY <1>4
    <3>3. /\ \A i \in DOMAIN s : s[i].file \in File => m[s[i].file] # Unindexed
          /\ \A g \in File : Apart(g)' /\ m[g].text # Gone => \A d \in m[g].text : IsIn(s, Topic[d])
      BY <3>1, <3>2 DEF Covers
    <3>. QED BY <3>1, <3>3 DEF Covers, IsIn
  <2>2. ASSUME \A q \in Run : ix'[q].at \notin Walked PROVE Covers(meta, shard)'
    <3>1. Covers(meta, shard)
      BY <1>1, <1>2, <2>2 DEF MetaCovers
    <3>. QED BY <1>1, <1>4, <3>1 DEF Covers, IsIn
  <2>. QED BY <2>1, <2>2 DEF MetaCovers
<1>8. NotesAreIn'
  BY <1>1, <1>2, <1>4 DEF NotesAreIn, IsIn
<1>. QED BY <1>1, <1>6, <1>7, <1>8 DEF CalmInv

-----------------------------------------------------------------------------
LeftHasRuns == "runs" \in DOMAIN left
IndexInv == HistoryInv /\ CalmInv /\ LeftHasRuns

LEMMA IndexInvInit == IndexInit => IndexInv
<1>1. IndexInit => LeftHasRuns
  BY DEF IndexInit, LeftHasRuns
<1>. QED BY <1>1, HistoryInvInit, CalmInvInit DEF IndexInv

LEMMA IndexInvStep == IndexInv /\ [IndexNext]_indexVars => IndexInv'
<1>. SUFFICES ASSUME HistoryInv, CalmInv, LeftHasRuns, [IndexNext]_indexVars PROVE IndexInv'
  BY DEF IndexInv
<1>1. HistoryInv'
  BY HistoryInvStep
<1>2. LeftHasRuns'
  <2>1. DOMAIN left' = DOMAIN left
    BY DEF IndexNext, indexVars, Open, ReadMeta, Walk, StatFile, ReadFile, WriteMeta, IndexCut, RememberNote,
           Forget, IndexFile, EditFile
  <2>. QED BY <2>1 DEF LeftHasRuns
<1>3. CalmInv'
  <2>. SUFFICES ASSUME calm' PROVE CalmInv'
    BY DEF CalmInv
  <2>1. ASSUME NEW r \in Run,
               Open(r) \/ ReadMeta(r) \/ Walk(r) \/ StatFile(r) \/ ReadFile(r) \/ WriteMeta(r)
        PROVE  CalmInv'
    BY <2>1, CalmOpen, CalmReadMeta, CalmWalk, CalmStatFile, CalmReadFile, CalmWriteMeta
  <2>2. ~IndexCut /\ (\A i \in DOMAIN shard : ~Forget(i)) /\ \A f \in File : ~IndexFile(f)
    BY DEF IndexCut, Forget, IndexFile
  <2>3. ASSUME NEW c \in DOMAIN Topic, RememberNote(c) PROVE CalmInv'
    BY <2>3, CalmRememberNote DEF LeftHasRuns
  <2>4. ASSUME NEW f \in File, NEW t \in Texts \cup {Gone}, EditFile(f, t) PROVE CalmInv'
    BY <2>4, CalmEditFile
  <2>5. CASE UNCHANGED indexVars
    <3>1. UNCHANGED <<text, shard, meta, ix, left, held, noted, calm, steady>>
      BY <2>5 DEF indexVars
    <3>2. OneAtATime /\ MetaCovers /\ NotesAreIn /\ (steady => AllThere(shard) /\ AllDone)
      BY <3>1 DEF CalmInv
    <3>3. OneAtATime' /\ NotesAreIn'
      BY <3>1, <3>2 DEF OneAtATime, NotesAreIn, TopicsOf, IsIn
    <3>4. MetaCovers'
      <4>1. ASSUME NEW q \in Run, ix'[q].at \in Walked PROVE Covers(ix[q].meta, shard)'
        <5>1. Covers(ix[q].meta, shard)
          BY <3>1, <3>2, <4>1 DEF MetaCovers
        <5>. QED BY <3>1, <5>1 DEF Covers, Apart, TopicsOf, IsIn
      <4>2. ASSUME \A q \in Run : ix'[q].at \notin Walked PROVE Covers(meta, shard)'
        <5>1. Covers(meta, shard)
          BY <3>1, <3>2, <4>2 DEF MetaCovers
        <5>. QED BY <3>1, <5>1 DEF Covers, Apart, TopicsOf, IsIn
      <4>. QED BY <4>1, <4>2 DEF MetaCovers
    <3>5. steady' => AllThere(shard)' /\ AllDone'
      BY <3>1, <3>2 DEF AllThere, AllDone, Due, AmongTheFirst, Done, Busy
    <3>. QED BY <3>3, <3>4, <3>5 DEF CalmInv
  <2>. QED BY <2>1, <2>2, <2>3, <2>4, <2>5 DEF IndexNext
<1>. QED BY <1>1, <1>2, <1>3 DEF IndexInv

LEMMA IndexInvHolds == IndexInv => IndexHolds
<1>. SUFFICES ASSUME HistoryInv, CalmInv PROVE IndexHolds
  BY DEF IndexInv
<1>1. EntriesComeFromTheirFile
  BY DEF HistoryInv, ShardOk, EntriesComeFromTheirFile
<1>2. ASSUME Rested
      PROVE  /\ MetaCovers /\ NotesAreIn /\ AllThere(shard) /\ AllDone /\ ~Busy /\ left.runs < MaxRuns
             /\ Covers(meta, shard)
  <2>1. MetaCovers /\ NotesAreIn /\ AllThere(shard) /\ AllDone /\ ~Busy /\ left.runs < MaxRuns
    BY <1>2 DEF Rested, CalmInv
  <2>2. \A r \in Run : ix[r].at \notin Walked
    BY <2>1 DEF Busy, Walked
  <2>. QED BY <2>1, <2>2 DEF MetaCovers
<1>3. DeletedIsForgotten
  BY <1>2 DEF DeletedIsForgotten, AllThere
<1>4. \A topic : IsIn(shard, topic) => Search(shard, topic) # {}
  BY DEF IsIn, Search
<1>5. ASSUME Rested, NEW f \in File, text[f] # Gone, AmongTheFirst(f),
             \A g \in File \ {f} : TopicsOf(f) \cap TopicsOf(g) = {}, NEW c \in text[f]
      PROVE  Search(shard, Topic[c]) # {}
  <2>1. Done(meta, f) /\ Covers(meta, shard)
    BY <1>2, <1>5 DEF AllDone, Due
  <2>2. meta[f].text = text[f]
    BY <1>5, <2>1 DEF Done
  <2>3. IsIn(shard, Topic[c])
    BY <1>5, <2>1, <2>2 DEF Covers, Apart
  <2>. QED BY <1>4, <2>3
<1>6. ASSUME Rested, NEW t \in noted, \A f \in File : t \notin TopicsOf(f) PROVE Search(shard, t) # {}
  BY <1>2, <1>4, <1>6 DEF NotesAreIn
<1>7. IndexedIsFound
  BY <1>5, <1>6 DEF IndexedIsFound
<1>. QED BY <1>1, <1>3, <1>7 DEF IndexHolds

LEMMA IndexSteps == [StoresNext]_storeVars => [IndexNext]_indexVars
BY DEF StoresNext, InArea, storeVars

(* The index follows the files: entries come from the file they name, a    *)
(* deleted file is forgotten, an indexed one is found (indexer.js,         *)
(* vector.js).                                                             *)
THEOREM IndexAlwaysHolds == StoresSpec => []IndexHolds
<1>1. StoresInit => IndexInv
  BY IndexInvInit DEF StoresInit
<1>2. IndexInv /\ [StoresNext]_storeVars => IndexInv'
  BY IndexSteps, IndexInvStep
<1>. QED BY <1>1, <1>2, IndexInvHolds, PTL DEF StoresSpec
=============================================================================
