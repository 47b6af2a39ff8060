\* A retry that lands between the merge and the prune.
SPECIFICATION Spec
CONSTANTS
  r1 = r1
  r2 = r2
  r3 = r3
  r4 = r4
  a = a
  b = b
  NoRun = NoRun
  Runs <- RetryRuns
  Positions = {0, 1}
  Tracks = {a, b}
  LastDate = 2
  DateOf <- RetryDateOf
  Stamp <- RetryStamp
  SlotsOf <- RetrySlots
  LateLoads = TRUE
PROPERTIES PassedDaysCoherent
