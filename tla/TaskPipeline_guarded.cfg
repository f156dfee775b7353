SPECIFICATION Spec
CONSTANTS
  t1 = t1
  t2 = t2
  Task = {t1}
  Manual = {m1, m2}
  None = None
  MaxRevision = 3
  MaxStops = 1
  Dependency <- Independent
  Moves = {"reset", "reopen", "decide"}
SYMMETRY ManualSymmetry
INVARIANTS TypeOK OnePhaseAtATime DoneHasEvidence
PROPERTIES RevisionsDescend OutcomeIsCurrent ImplementsAuthority
CHECK_DEADLOCK FALSE
