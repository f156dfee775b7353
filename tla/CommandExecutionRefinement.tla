---------------------- MODULE CommandExecutionRefinement ----------------------
(* CommandExecution implements ExecutionAuthority.                           *)
EXTENDS CommandExecution

(* The authority that the rows of a command in these states stand for.       *)
AuthorityWhen(state, row) ==
  CASE state = "absent" /\ row \in {"absent", "queued", "claimed"} -> "waiting"
    [] state = "absent" /\ row \notin {"absent", "queued", "claimed"} -> "withdrawn"
    [] state \in Active -> "granted"
    [] state = "stopping" -> "fenced"
    [] state = "reconciliation_required" -> "quarantined"
    [] state = "succeeded" -> "succeeded"
    [] state \in {"paused", "failed", "cancelled"} -> "closed"
AuthorityOf(c) == AuthorityWhen(execution[c], command[c])

Authority == INSTANCE ExecutionAuthority
               WITH authority <- [c \in Command |-> AuthorityOf(c)]

(* Every step of the control plane is a step of the authority contract: a    *)
(* command is granted authority once, loses it for good, records its outcome *)
(* only while it holds it and succeeds only with it.                         *)
ImplementsAuthority == Authority!Spec
=============================================================================
