SPECIFICATION FairSpec
CONSTANTS
  t1 = t1
  t2 = t2
  Task = {t1, t2}
  Manual = {m1, m2}
  None = None
  MaxRevision = 1
  MaxStops = 6
  Dependency <- SecondNeedsFirst
  Moves = {}
PROPERTIES PhasesRest
CHECK_DEADLOCK FALSE
