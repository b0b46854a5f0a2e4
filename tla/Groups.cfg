SPECIFICATION Spec
CONSTANTS
  People = {"a"}
  Fetchers = {"sync", "rest", "subject", "worker"}
  Skew = 1
  Long = 20
  Short = 2
  Chats = {"g1", "g2", "g3", "x", "d"}
  Excluded = {"x"}
  Left = {"d"}
  Limit = 1
  Interval = 8
  Retry = 1
  RetryAfter = 3
  GoneAfter = 12
  MaxFaults = 2
INVARIANTS RosterTrue
PROPERTIES RostersRefreshed
CHECK_DEADLOCK FALSE
