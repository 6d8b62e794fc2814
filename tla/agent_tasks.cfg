\* one kind of trouble at a time: requests or replies that are lost, crashes, tasks that throw or are
\* listed again, verdicts that cannot be read, a budget that is exhausted
CONSTANTS
  Ids = {a, b, c}
  None = None
  MaxSize = 2
  Faulty = {}
  Window = 1
  MaxTries = 2
  MaxClock = 2
  Scenarios = {{"request", "crash"}, {"reply"}, {"garbled", "throw"}, {"relist"}, {"budget"}}
SPECIFICATION Spec
INVARIANTS IntakeIsSound 
 
