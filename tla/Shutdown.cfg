SPECIFICATION MCSpec
CONSTANTS
  m = m
  h = h
  Job = job
  NoStarter = none
  Calls <- MCCalls
  MaxCalls = 3
INVARIANTS LatestStateTold
PROPERTIES ImplementsFeed WaitsEnd
CHECK_DEADLOCK FALSE
