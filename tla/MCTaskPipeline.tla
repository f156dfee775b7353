--------------------------- MODULE MCTaskPipeline ---------------------------
(* Instances of TaskPipeline for TLC. *)
EXTENDS TaskPipeline, TLC

CONSTANTS t1, t2
Independent == {}
SecondNeedsFirst == {<<t2, t1>>}

(* Commands that the owner queues are interchangeable. *)
ManualSymmetry == Permutations(Manual)
=============================================================================
