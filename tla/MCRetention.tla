---------------------------- MODULE MCRetention ----------------------------
(* Instances of Retention for TLC. *)
EXTENDS Retention, TLC

(* Requests are interchangeable. *)
Interchangeable == Permutations(Handlers)
=============================================================================
