SPECIFICATION Spec
CONSTANTS
  Ids = {"a", "b", "c", "z"}
  Batch = 2
  Cutoff = 1
  Renewed = 10
  Scenes <- MCScenes
INVARIANTS LastTimeHonest SnapshotCoherent ImportAccounted
PROPERTIES RowsPreserved
CHECK_DEADLOCK FALSE
