\* a console leaves the entries alone that were written by hand
CONSTANTS
  Goal = {"g1"}
  MaxRounds = 2
  QueueRoom = 2
  MaxResumes = 1
  Lines <- SomeLines
  Caller = {"c1", "c2"}
  MaxSessions = 3
  LogRoom = 2
  MaxStops = 1
  Updater = {"daemon", "cli"}
  MaxVersion = 3
  MaxUpdates = 3
  MaxCuts = 1
  Key = {"temperature", "model"}
  Unknown = "other"
  MaxEdits = 2
  MaxKeys = 3
  Daemon = {"a", "b"}
  service = "unit"
  MaxStarts = 4
  Ws = {"w1", "w2"}
  NamedWs = {"w2"}
  Home <- HomeDir
  StateDir <- StateOfAgent
  ManagedBase <- WorkspaceBase
  Places <- SomePlaces
  Op = {"o1", "o2"}
  Path = {"p", "q"}
  Big = {"q"}
  MaxContents = 3
  MaxLost = 2
  Site = {"s1", "s2"}
  MaxServers = 3
  MaxDaemonCuts = 1
  File = {1, 2}
  Texts <- SomeTexts
  Topic <- Topics
  Run = {"r1", "r2"}
  MaxEntries = 2
  MaxFiles = 2
  MaxRewrites = 1
  MaxNotes = 1
  MaxRuns = 2
  Text = {"a", "b", "c"}
  Theme <- Themes
  Space = {"w1", "w2"}
  MaxMemories = 2
  TtlDays = 1
  MaxDays = 2
  MaxLearned = 3
  Content = {"a", "b", "c"}
  Long = {"a", "b"}
  System = "s"
  MaxChars = 6
  KeepHead = 2
  KeepTail = 2
  MaxTurns = 5
  Work = {"plain", "wide", "secure", "bound"}
  Profile <- Profiles
  Offerable = {"net", "files", "shell"}
  LockedTools = {"files"}
  Base = "base"
  Direct = {"d1", "d2"}
  Program = {"p", "q", "sig"}
  Signed = {"sig"}
  IdOf <- FileNames
  Console = {"fleet", "focus"}
  AutoMax = 2
  MaxHandEdits = 1
  Proc = {"cli", "console"}
  Bundled = {"brief"}
  SkillsOf <- SkillSets
SPECIFICATION StoresSpec
PROPERTY HandWrittenStays
CHECK_DEADLOCK FALSE
