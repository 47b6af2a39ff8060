\* A day that lands after its own build and before a build of other days.
SPECIFICATION Spec
CONSTANTS
  r1 = r1
  r2 = r2
  r3 = r3
  r4 = r4
  a = a
  b = b
  NoRun = NoRun
  Runs <- DayRuns
  Positions = {0, 1}
  Tracks = {a, b}
  LastDate = 3
  DateOf <- DayDateOf
  Stamp <- DayStamp
  SlotsOf <- DaySlots
  LateLoads = FALSE
PROPERTIES ExitsAreObserved
