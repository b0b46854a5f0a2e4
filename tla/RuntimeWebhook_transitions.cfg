SPECIFICATION Spec
CONSTANTS
  URLs = {u1, u2}
  Selections <- ConnAlso
  Tests = {}
  MaxGen = 2
  MaxMsg = 0
  MaxConn = 2
  MaxWarn = 1
  QueueCap = 2
  Attempts = 1
  FailureLimit = 1
CHECK_DEADLOCK FALSE
INVARIANTS LatestTransitionKept
PROPERTIES TransitionsInOrder
