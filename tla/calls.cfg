\* everything that is asked for on the device, one area after the other
CONSTANTS
  Ids = {a, b, c, d, e}
  None = None
  MaxSize = 4
  Faulty = {}
  Job = {"j1"}
  Scripts <- SomeScripts
  WaitCap = 2
  MaxWaits = 1
  Builtin = {"shell", "net"}
  Shipped = {"net", "extra", "other"}
  OwnRules = {"extra"}
  Altering = {"shell", "extra"}
  Listening = {"net", "extra"}
  Call = {"c1", "c2"}
  MaxRuns = 3
  MaxNesting = 2
  MaxPool = 2
  Plans <- SomePlans
  Nested <- NestedPlans
  Streams <- SomeStreams
  MaxRetries = 3
  Host = {"h1", "h2", "lit", "meta"}
  BlockedHosts = {"meta"}
  Literal <- Literals
  Addr <- Addresses
  Width <- Bits
  Ranges <- BlockedRanges
  MaxRedirects = 2
  MaxBytes = 2
  Timeout = 2
  Transcripts <- SomeTranscripts
  BaseDelay = 1
  SwampedDelay = 5
  CacheFor = 2
  ChildTimeout = 2
  PerMinute = 2
SPECIFICATION AreasSpec
INVARIANTS QueueInv   AnswersHold
PROPERTIES CallsEnd  ConsoleHolds
\* an area may have nothing left to do: its calls are over, or its bounds are used up
CHECK_DEADLOCK FALSE
