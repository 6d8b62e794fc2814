\* a run with two sub-agents over two days: nested and pooled delegations, crashes, other programs;
\* and writers of the audit log that crash, wait too long or meet a full disk
CONSTANTS
  Main = main
  Subs = {s1, s2}
  MaxDepth = 2
  Workers = 1
  MaxSteps = 2
  SubSteps = 2
  MaxNudges = 1
  MaxCalls = 1
  MaxUse = 1
  Cap = 2
  Ttl = 1
  DayLength = 2
  MaxClock = 2
  MaxDisk = 2
  daemon = daemon
  cli = cli
  Procs = {daemon, cli}
  MaxTries = 2
  MaxRecords = 3
SPECIFICATION AreasSpec
INVARIANTS BooksAgree OwnWritesAreSeen ChainHolds LoopIsBounded LogIsSound
PROPERTIES DaemonGoesOn
\* the last record was written: no write begins any more
CHECK_DEADLOCK FALSE
