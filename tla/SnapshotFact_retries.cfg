\* Retries of a day, LANDING still while a build runs.
SPECIFICATION Spec
CONSTANTS
  r1 = r1
  r2 = r2
  r3 = r3
  r4 = r4
  a = a
  b = b
  NoRun = NoRun
  Runs <- RetryRuns
  Positions = {0, 1}
  Tracks = {a, b}
  LastDate = 2
  DateOf <- RetryDateOf
  Stamp <- RetryStamp
  SlotsOf <- RetrySlots
  LateLoads = FALSE
INVARIANTS TypeOK CoherentDays
PROPERTIES EmptyIsObserved NeverOlder WindowIsTrue TrendsAddUp RetainedIsStreak
