------------------------- MODULE MCCommandExecution -------------------------
(* Instances of CommandExecution for TLC. *)
EXTENDS CommandExecutionRefinement, TLC

(* Leases are interchangeable in the safety run. *)
LeaseSymmetry == Permutations(Lease)
=============================================================================
