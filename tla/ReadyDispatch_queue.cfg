\* One project with two tasks: every operation on the queue, two of them besides releases.
SPECIFICATION Spec
CONSTANTS
  p1 = p1
  p2 = p2
  Project = {p1}
  Tasks = 2
  ProjectOf <- TwoProjects
  Dependency <- NoDependency
  ProjectCapacity = 2
  GlobalCapacity = 2
  Priority = {0, 1}
  MaxCommands = 2
  MaxClock = 2
  MaxExpiries = 0
  Measured = {FALSE}
  Unborn = {2}
  Standing = {}
  MaxInterventions = 2
INVARIANTS TypeOK RankOneIsNext
PROPERTIES PlacesAreKept
CHECK_DEADLOCK FALSE
