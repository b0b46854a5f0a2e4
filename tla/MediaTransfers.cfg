SPECIFICATION Spec
CONSTANTS
  m = m
  r = r
  w = w
  h = h
  Job = job
  None = none
  Manual = {m}
  Readers = {r}
  Workers = {w}
  Hooks = {h}
  ReadCap = 1
  AutoCap = 2
  Scenes <- Sharing
INVARIANTS RefusalsExplained SentBytesKept QuietAfterWait
CHECK_DEADLOCK FALSE
