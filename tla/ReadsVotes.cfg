SPECIFICATION Spec
CONSTANTS
  Ids = {1, 2, 3, 4, 5}
  Callers = {"k1", "k2"}
  Batch = 2
  MaxMessages = 3
  Votes = {"v1", "v2", "v3", "v4"}
  Payloads = {1, 2}
  Passes = 2
PROPERTIES ReadsHonest ChatGetsRead LatestVoteCounts
CHECK_DEADLOCK FALSE
