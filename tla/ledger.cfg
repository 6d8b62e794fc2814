\* one process: its effects under crashes and failed saves, its records under the caps
CONSTANTS
  p1 = p1
  r1 = r1
  charge = charge
  label = label
  mark1 = mark1
  mark2 = mark2
  Procs = {p1}
  Runs = {r1}
  Ops = {charge, label}
  NoOp = NoOp
  Calls <- ChargeOnly
  Bindings = {TRUE, FALSE}
  Marks = {mark1, mark2}
  NoMark = NoMark
  Expiries = {1}
  Saves = {TRUE, FALSE}
  MaxRuns = 1
  MaxAttempts = 2
  MaxPoints = 2
  MaxApprovals = 1
  MaxIssued = 3
  MaxClock = 1
SPECIFICATION ViewsSpec
INVARIANTS NoBlindReplay EffectIsDurable InterruptedEffectIsReviewed
PROPERTIES RecordsStand
