\* a link that drops, replayed frames, polled commands, paused processes and policy decisions
CONSTANTS
  k1 = k1
  k2 = k2
  k3 = k3
  x = x
  y = y
  a1 = a1
  a2 = a2
  o = o
  Platforms = {"sngine", "docker"}
  MinBackoff = 1
  MaxBackoff = 3
  MaxFrames = 3
  MaxFaults = 3
  Keys = {k1, k2, k3}
  MaxAge = 2
  MaxFuture = 1
  MaxEntries = 2
  MaxNow = 6
  Command = {x, y}
  Policies <- SomePolicies
  RateMax = 2
  Window = 2
  MaxTime = 3
  MaxLosses = 1
  Pid = {a1, a2, o}
  Fleet = {a1, a2, o}
  Owner = {o}
  MaxRestarts = 1
  Bytes = 2
  Bits = 2
  Bare = Bare
  KnownTools = {"shell"}
SPECIFICATION AreasSpec
INVARIANTS  CommandsHold PolicyMeansWhatItSays
PROPERTIES ChannelIsSound WhatIsSentArrives 
\* the console has no more commands, or a behaviour reached the bounds
CHECK_DEADLOCK FALSE
