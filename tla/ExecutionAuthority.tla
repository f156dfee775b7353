------------------------- MODULE ExecutionAuthority -------------------------
(* What command execution promises to the rest of the system: authority to   *)
(* mutate is granted to a command at most once, ends for good, an            *)
(* authoritative outcome is recorded only under it, and success needs that   *)
(* outcome.  Several commands may change in one step (a restart).            *)
CONSTANT Command

VARIABLES authority, outcome
vars == <<authority, outcome>>

Successor ==
  [waiting     |-> {"granted", "closed", "withdrawn"},
   withdrawn   |-> {},
   granted     |-> {"fenced", "closed", "quarantined"},
   fenced      |-> {"closed", "quarantined", "succeeded"},
   quarantined |-> {"closed"},
   closed      |-> {},
   succeeded   |-> {}]

Init ==
  /\ authority = [c \in Command |-> "waiting"]
  /\ outcome = [c \in Command |-> FALSE]

Advance(c) ==
  /\ authority'[c] = authority[c] \/ authority'[c] \in Successor[authority[c]]
  /\ outcome'[c] = outcome[c] \/ (authority[c] = "granted" /\ outcome'[c])
  /\ authority'[c] = "succeeded" => outcome'[c]

Next ==
  /\ authority' \in [Command -> DOMAIN Successor]
  /\ outcome' \in [Command -> BOOLEAN]
  /\ \A c \in Command : Advance(c)

Spec == Init /\ [][Next]_vars
=============================================================================
