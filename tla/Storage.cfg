SPECIFICATION Spec
CONSTANTS
  h1 = h1
  h2 = h2
  h3 = h3
  p1 = p1
  p2 = p2
  sweeper = sweeper
  r1 = r1
  r2 = r2
  r3 = r3
  k1 = k1
  k2 = k2
INVARIANTS ReferencesTrue StorageCharged
PROPERTIES OthersKept SweepReclaims
