\* starts and stops of agents are limited in a minute
CONSTANTS
  BaseDelay = 1
  SwampedDelay = 5
  CacheFor = 2
  ChildTimeout = 2
  PerMinute = 2
SPECIFICATION ConsoleSpec
PROPERTY FleetIsRateLimited
