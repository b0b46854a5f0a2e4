SPECIFICATION FairSpec
CONSTANTS
  URLs = {u1}
  Selections <- MsgOnly
  Tests = {t1}
  MaxGen = 2
  MaxMsg = 2
  MaxConn = 0
  MaxWarn = 0
  QueueCap = 1
  Attempts = 2
  FailureLimit = 2
INVARIANTS ReceiverIsolation FailureBudget Conservation
PROPERTIES FailureCountOwner EventsResolved
CHECK_DEADLOCK FALSE
