\* a task on the day after the budget was used up
CONSTANTS
  Main = main
  Subs = {s1, s2}
  MaxDepth = 2
  Workers = 1
  MaxSteps = 2
  SubSteps = 2
  MaxNudges = 1
  MaxCalls = 1
  MaxUse = 1
  Cap = 2
  Ttl = 1
  DayLength = 2
  MaxClock = 2
  MaxDisk = 2
SPECIFICATION Spec
INVARIANTS NewDayOpensTheGate
