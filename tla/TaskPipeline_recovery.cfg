SPECIFICATION Spec
CONSTANTS
  t1 = t1
  t2 = t2
  Task = {t1}
  Manual = {m1, m2}
  None = None
  MaxRevision = 2
  MaxStops = 1
  Dependency <- Independent
  Moves = {"replace", "resume", "retry", "complete", "recover"}
SYMMETRY ManualSymmetry
INVARIANTS EvidenceIsCurrent AutomaticReviewWasTested
PROPERTIES LateEvidenceIsQuarantined
CHECK_DEADLOCK FALSE
