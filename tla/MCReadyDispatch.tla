--------------------------- MODULE MCReadyDispatch ---------------------------
(* The first project has two tasks, or each project has one.                 *)
EXTENDS ReadyDispatch

CONSTANTS p1, p2
TwoProjects == [t \in Task |-> IF t <= 2 THEN p1 ELSE p2]
OneEach == [t \in Task |-> IF t = 1 THEN p1 ELSE p2]
NoDependency == {}
=============================================================================
