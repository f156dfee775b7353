\* Two projects with a released task each share one slot; the lease is lost once.
SPECIFICATION FairSpec
CONSTANTS
  p1 = p1
  p2 = p2
  Project = {p1, p2}
  Tasks = 2
  ProjectOf <- OneEach
  Dependency <- NoDependency
  ProjectCapacity = 1
  GlobalCapacity = 1
  Priority = {0}
  MaxCommands = 3
  MaxClock = 1
  MaxExpiries = 1
  Measured = {FALSE}
  Unborn = {}
  Standing = {1, 2}
  MaxInterventions = 0
INVARIANTS SchedulerWithinLimits
PROPERTIES ReadyIsDispatched
CHECK_DEADLOCK FALSE
