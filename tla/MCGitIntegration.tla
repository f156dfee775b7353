-------------------------- MODULE MCGitIntegration --------------------------
(* Instances of GitIntegration for TLC. *)
EXTENDS GitIntegration, TLC

(* Requests are interchangeable, and so are the rows they create. *)
Interchangeable == Permutations(Handlers) \cup Permutations(Integrations)
=============================================================================
