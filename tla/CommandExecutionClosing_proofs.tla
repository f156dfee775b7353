--------------------- MODULE CommandExecutionClosing_proofs ---------------------
(* What is left behind when an execution settles: which effects may still be  *)
(* in doubt, which runs still use a credential slot, whose container is gone. *)
(*                                                                            *)
(* Inv speaks of the rows and the worker; this needs, besides, the effect     *)
(* journal, the sessions map, the credential slots and both callers of        *)
(* stopSession, at every await: ClosingInv.  Again a step touches one command *)
(* only, but for crash and restart.                                           *)
EXTENDS CommandExecution_proofs, FiniteSetTheorems

Quiet(c) == \A k \in ControlKinds : effect[c][k] \in {"none", "completed"}

(* A slot is in use by a start or a run; an owner's cancellation cannot close *)
(* an execution whose session is still managed, because its run is running.   *)
SlotRow(c) ==
  /\ c \in slot => \/ execution[c] \in NonTerminal
                   \/ execution[c] = "reconciliation_required" /\ managed[c]
  /\ c \in slot /\ binding[c] = "session" => managed[c]
  /\ managed[c] => binding[c] = "session" /\ run[c] = "running"

(* Before the workspace is there nothing was taken; until Pi answers there is *)
(* no session to stop; without a serving process nothing is held in memory.   *)
StartRow(c) ==
  /\ execution[c] = "absent" \/ worker[c] = "setup" => c \notin slot /\ run[c] = "none"
  /\ worker[c] \in {"credential", "container", "pi", "undo"} => binding[c] = "run"
  /\ ~Serving => c \notin slot /\ ~managed[c] /\ \A k \in Caller : stopper[c][k] = "idle"

(* What happened is in the journal: the start of the container before the     *)
(* container, the response before the prompt, the removal before the end of   *)
(* stopSession.                                                               *)
JournalRow(c) ==
  /\ worker[c] \in {"container", "pi"} => effect[c]["container_start"] # "none"
  /\ binding[c] = "session" => /\ effect[c]["container_start"] # "none"
                               /\ effect[c]["provider_response"] # "none"
  /\ \A k \in Caller : stopper[c][k] = "finishing" =>
       effect[c]["container_stop"] = "completed" /\ container[c] = "removed"

(* The owner's stopSession may outlive the settlement: then it finds the      *)
(* removal completed and changes nothing.                                     *)
OwnerRow(c) ==
  stopper[c]["owner"] # "idle" =>
    /\ binding[c] = "session" /\ run[c] \in {"running", "stopped"}
    /\ execution[c] \in {"paused", "succeeded"} => effect[c]["container_stop"] = "completed"

ClosedRow(c) ==
  /\ run[c] = "paused" => Quiet(c) /\ worker[c] = "none"
  /\ execution[c] \in {"paused", "succeeded"} => Quiet(c) /\ ~managed[c]
  /\ execution[c] = "succeeded" =>
       /\ outcome[c] /\ container[c] = "removed" /\ run[c] = "stopped"
       /\ \A k \in ControlKinds : effect[c][k] = "completed"

Closing(c) == SlotRow(c) /\ StartRow(c) /\ JournalRow(c) /\ OwnerRow(c) /\ ClosedRow(c)

SlotsInUse == IsFiniteSet(slot) /\ Cardinality(slot) <= CredentialLimit

ClosingInv == SlotsInUse /\ \A c \in Command : Closing(c)

-----------------------------------------------------------------------------
(* Frames *)

ClosingVars == <<execution, binding, run, effect, outcome, server, worker, managed, slot,
                 stopper, container>>

(* What Closing reads of d is what it was. *)
SameClosing(d) ==
  /\ execution'[d] = execution[d] /\ binding'[d] = binding[d] /\ run'[d] = run[d]
  /\ effect'[d] = effect[d] /\ outcome'[d] = outcome[d] /\ worker'[d] = worker[d]
  /\ managed'[d] = managed[d] /\ stopper'[d] = stopper[d] /\ container'[d] = container[d]
  /\ d \in slot' <=> d \in slot
OnlyClosing(c) == \A d \in Command \ {c} : SameClosing(d)

LEMMA ClosingFrameRow ==
  ASSUME NEW d, Closing(d), SameClosing(d), server' = server
  PROVE  Closing(d)'
<1>1. SlotRow(d)' /\ StartRow(d)'
  BY DEF Closing, SameClosing, SlotRow, StartRow, Serving
<1>2. JournalRow(d)' /\ OwnerRow(d)'
  BY DEF Closing, SameClosing, JournalRow, OwnerRow
<1>3. ClosedRow(d)'
  BY DEF Closing, SameClosing, ClosedRow, Quiet
<1>4. QED  BY <1>1, <1>2, <1>3 DEF Closing

LEMMA ClosingFrameOne ==
  ASSUME ClosingInv, NEW c \in Command, OnlyClosing(c), server' = server, Closing(c)', SlotsInUse'
  PROVE  ClosingInv'
  BY ClosingFrameRow DEF ClosingInv, OnlyClosing

LEMMA ClosingFrameAll ==
  ASSUME ClosingInv, UNCHANGED ClosingVars
  PROVE  ClosingInv'
<1>1. SlotsInUse'
  BY DEF ClosingInv, SlotsInUse, ClosingVars
<1>2. ASSUME NEW d \in Command  PROVE Closing(d)'
  <2>1. SameClosing(d) /\ server' = server
    BY DEF ClosingVars, SameClosing
  <2>2. QED  BY <2>1, ClosingFrameRow DEF ClosingInv
<1>3. QED  BY <1>1, <1>2 DEF ClosingInv

(* Slots are given back one at a time and never taken beyond the limit. *)
LEMMA SlotsKept ==
  ASSUME SlotsInUse, TypeOK, NEW c \in Command,
         \/ slot' = slot
         \/ slot' = slot \ {c}
         \/ slot' = slot \cup {c} /\ CredentialSlotFree
  PROVE  SlotsInUse' /\ \A d \in Command \ {c} : d \in slot' <=> d \in slot
<1>1. /\ IsFiniteSet(slot) /\ Cardinality(slot) \in Nat /\ Cardinality(slot) <= CredentialLimit
      /\ CredentialLimit \in Nat
  BY FS_CardinalityType, ConstantAssumption DEF SlotsInUse
<1>2. \A d \in Command \ {c} : d \in slot' <=> d \in slot
  OBVIOUS
<1>3. CASE slot' = slot
  BY <1>1, <1>3 DEF SlotsInUse
<1>4. CASE slot' = slot \ {c}
  <2>1. /\ IsFiniteSet(slot \ {c})
        /\ Cardinality(slot \ {c}) = IF c \in slot THEN Cardinality(slot) - 1 ELSE Cardinality(slot)
    BY <1>1, FS_RemoveElement
  <2>2. Cardinality(slot \ {c}) <= CredentialLimit
    BY <1>1, <2>1
  <2>3. QED  BY <1>4, <2>1, <2>2 DEF SlotsInUse
<1>5. CASE slot' = slot \cup {c} /\ CredentialSlotFree
  <2>1. /\ IsFiniteSet(slot \cup {c})
        /\ Cardinality(slot \cup {c}) = IF c \in slot THEN Cardinality(slot) ELSE Cardinality(slot) + 1
    BY <1>1, FS_AddElement
  <2>2. Cardinality(slot \cup {c}) <= CredentialLimit
    BY <1>1, <1>5, <2>1 DEF CredentialSlotFree
  <2>3. QED  BY <1>5, <2>1, <2>2 DEF SlotsInUse
<1>6. QED  BY <1>2, <1>3, <1>4, <1>5

(* The values of one row after a step that writes one journal entry. *)
Journals(c, k, v) == effect' = [effect EXCEPT ![c][k] = v]
LEMMA EffectRow ==
  ASSUME TypeOK, NEW c \in Command, NEW k \in Kind, NEW v, Journals(c, k, v)
  PROVE  /\ effect'[c][k] = v
         /\ \A j \in Kind \ {k} : effect'[c][j] = effect[c][j]
         /\ \A d \in Command \ {c} : effect'[d] = effect[d]
BY DEF TypeOK, Journals

(* And of one that moves one caller of stopSession. *)
MovesStop(c, k, v) == stopper' = [stopper EXCEPT ![c][k] = v]
LEMMA StopperRow ==
  ASSUME TypeOK, NEW c \in Command, NEW k \in Caller, NEW v, MovesStop(c, k, v)
  PROVE  /\ stopper'[c][k] = v
         /\ \A j \in Caller \ {k} : stopper'[c][j] = stopper[c][j]
         /\ \A d \in Command \ {c} : stopper'[d] = stopper[d]
BY DEF TypeOK, MovesStop

LEMMA BeginStopEarly ==
  ASSUME TypeOK, NEW c \in Command, NEW k \in Caller, BeginStop(c, k)
  PROVE  /\ stopper'[c][k] \in {"processes", "hung"}
         /\ \A j \in Caller \ {k} : stopper'[c][j] = stopper[c][j]
         /\ \A d \in Command \ {c} : stopper'[d] = stopper[d]
BY DEF TypeOK, BeginStop

-----------------------------------------------------------------------------
(* The end of executeTaskPhase *)

(* A settlement that is neither uncertain nor a failure has looked at every   *)
(* effect.                                                                    *)
LEMMA SettlementLooks ==
  ASSUME TypeOK, NEW c \in Command, NEW error \in Error, NEW effects,
         SettlementState(c, error, effects) \in {"paused", "succeeded"}
  PROVE  /\ \A k \in Kind : effects[k] \notin {"intent", "reconciliation_required"}
         /\ SettlementState(c, error, effects) = "succeeded" => error = "none"
<1>1. ~Unsettled(effects)
  BY DEF SettlementState
<1>2. \A k \in Kind : effects[k] \notin {"intent", "reconciliation_required"}
  BY <1>1 DEF Unsettled
<1>3. SettlementState(c, error, effects) = "succeeded" => error = "none"
  BY SettlementIsTerminal
<1>4. QED  BY <1>2, <1>3

(* What executeTaskPhase leaves alone on every way out. *)
Leaving(c) ==
  /\ Serving /\ UNCHANGED <<server, outcome, run, managed>>
  /\ worker[c] \notin {"none", "stopping"}
  /\ \A k \in Kind : effect[c][k] # "none" => effect'[c][k] # "none"
  /\ effect'[c]["container_stop"] = effect[c]["container_stop"]
  /\ container'[c] \in {container[c], "removed"}
  /\ \/ binding'[c] = binding[c]
     \/ binding[c] = "nothing" /\ binding'[c] = "run"
  /\ c \in slot' => c \in slot /\ binding[c] = "session"

(* Whatever the error, leaving executeTaskPhase closes what it settles: a     *)
(* bound session keeps its slot until it is stopped, everything else has none.*)
LEMMA ReturnsClosing ==
  ASSUME Inv, TypeOK', NEW c \in Command, Closing(c), Leaving(c), NEW error \in Error,
         NEW effects, effects = effect'[c], error = "none" => binding[c] = "session",
         ExecuteTaskPhaseReturns(c, error, effects)
  PROVE  Closing(c)'
<1>1. /\ TypeOK /\ Coherent(c) /\ execution[c] \in NonTerminal
      /\ stopper[c]["worker"] = "idle"
  BY DEF Inv, Coherent, Leaving
<1>2. /\ run'[c] = run[c] /\ outcome'[c] = outcome[c] /\ managed'[c] = managed[c]
      /\ server' = server
  BY DEF Leaving
<1>3. run[c] # "paused"
  BY DEF Closing, ClosedRow, Leaving
<1>4. CASE binding[c] = "session" /\ managed[c]
  <2>1. /\ execution' = [execution EXCEPT ![c] = "stopping"]
        /\ worker' = [worker EXCEPT ![c] = "stopping"]
        /\ BeginStop(c, "worker")
    BY <1>4 DEF ExecuteTaskPhaseReturns
  <2>2. execution'[c] = "stopping" /\ worker'[c] = "stopping"
    BY <1>1, <2>1 DEF TypeOK
  <2>3. /\ stopper'[c]["worker"] \in {"processes", "hung"}
        /\ stopper'[c]["owner"] = stopper[c]["owner"]
    BY <1>1, <2>1, BeginStopEarly DEF Caller
  <2>4. binding'[c] = "session"
    BY <1>4 DEF Leaving
  <2>5. SlotRow(c)'
    BY <1>2, <1>4, <2>2, <2>4 DEF Closing, SlotRow, NonTerminal
  <2>6. StartRow(c)'
    BY <1>2, <2>2, <2>4 DEF StartRow, Leaving, Serving
  <2>7. JournalRow(c)'
    <3>1. /\ effect[c]["container_start"] # "none" /\ effect[c]["provider_response"] # "none"
          /\ stopper[c]["owner"] = "finishing" =>
               effect[c]["container_stop"] = "completed" /\ container[c] = "removed"
      BY <1>4 DEF Closing, JournalRow, Caller
    <3>2. /\ effect'[c]["container_start"] # "none" /\ effect'[c]["provider_response"] # "none"
      BY <3>1 DEF Leaving, Kind
    <3>3. /\ effect'[c]["container_stop"] = effect[c]["container_stop"]
          /\ container'[c] \in {container[c], "removed"}
      BY DEF Leaving
    <3>4. QED  BY <2>2, <2>3, <3>1, <3>2, <3>3 DEF JournalRow, Caller
  <2>8. OwnerRow(c)'
    BY <1>2, <2>2, <2>3, <2>4 DEF Closing, OwnerRow
  <2>9. ClosedRow(c)'
    BY <1>2, <1>3, <2>2 DEF ClosedRow
  <2>10. QED  BY <2>5, <2>6, <2>7, <2>8, <2>9 DEF Closing
<1>5. CASE ~(binding[c] = "session" /\ managed[c])
  <2>1. PICK state \in Terminal :
          /\ SettleExecution(c, state) /\ stopper' = stopper
          /\ state \in {"paused", "succeeded"} =>
               /\ binding[c] # "session" /\ error # "none"
               /\ state = SettlementState(c, error, effects)
    <3>1. SettlementState(c, error, effects) \in Terminal
      BY <1>1, SettlementIsTerminal
    <3>2. "reconciliation_required" \in Terminal
      BY DEF Terminal
    <3>3. CASE binding[c] = "session"
      BY <1>5, <3>2, <3>3 DEF ExecuteTaskPhaseReturns
    <3>4. CASE binding[c] # "session"
      BY <3>1, <3>4 DEF ExecuteTaskPhaseReturns
    <3>5. QED  BY <3>3, <3>4
  <2>2. execution'[c] = state /\ worker'[c] = "none"
    BY <1>1, <2>1, SettleRow
  <2>3. c \notin slot'
    BY <1>5 DEF Leaving, Closing, SlotRow
  <2>4. binding'[c] = "session" <=> binding[c] = "session"
    BY DEF Leaving
  <2>5. state \in {"paused", "succeeded"} =>
          state = "paused" /\ Quiet(c)' /\ ~managed[c] /\ stopper[c]["owner"] = "idle"
    <3>1. HAVE state \in {"paused", "succeeded"}
    <3>2. /\ \A k \in Kind : effect'[c][k] \notin {"intent", "reconciliation_required"}
          /\ state # "succeeded"
      BY <1>1, <2>1, <3>1, SettlementLooks
    <3>3. \A k \in Kind : effect'[c][k] \in EffectState
      BY DEF TypeOK
    <3>4. Quiet(c)'
      BY <3>2, <3>3 DEF Quiet, ControlKinds, EffectState
    <3>5. ~managed[c] /\ stopper[c]["owner"] = "idle"
      BY <2>1, <3>1 DEF Closing, SlotRow, OwnerRow
    <3>6. QED  BY <3>1, <3>2, <3>4, <3>5
  <2>6. SlotRow(c)'
    BY <1>2, <2>3, <2>4 DEF Closing, SlotRow
  <2>7. StartRow(c)'
    BY <1>2, <2>1, <2>2, <2>3 DEF StartRow, Leaving, Serving, Terminal
  <2>8. JournalRow(c)'
    <3>1. /\ \A k \in Caller : stopper[c][k] = "finishing" =>
               effect[c]["container_stop"] = "completed" /\ container[c] = "removed"
          /\ binding[c] = "session" => /\ effect[c]["container_start"] # "none"
                                       /\ effect[c]["provider_response"] # "none"
      BY DEF Closing, JournalRow
    <3>2. /\ effect'[c]["container_stop"] = effect[c]["container_stop"]
          /\ container'[c] \in {container[c], "removed"}
          /\ effect[c]["container_start"] # "none" => effect'[c]["container_start"] # "none"
          /\ effect[c]["provider_response"] # "none" => effect'[c]["provider_response"] # "none"
      BY DEF Leaving, Kind
    <3>3. QED  BY <2>1, <2>2, <2>4, <3>1, <3>2 DEF JournalRow
  <2>9. OwnerRow(c)'
    BY <1>2, <2>1, <2>2, <2>4, <2>5 DEF Closing, OwnerRow
  <2>10. ClosedRow(c)'
    BY <1>2, <1>3, <2>2, <2>5 DEF ClosedRow
  <2>11. QED  BY <2>6, <2>7, <2>8, <2>9, <2>10 DEF Closing
<1>6. QED  BY <1>4, <1>5

-----------------------------------------------------------------------------
(* The steps of Next, by component *)

LEMMA AcceptanceCloses ==
  ASSUME Inv, ClosingInv, NEW l \in Lease, NEW c \in Command, AcceptCommandExecution(l, c)
  PROVE  ClosingInv'
<1>1. TypeOK /\ Coherent(c) /\ Closing(c)
  BY DEF Inv, ClosingInv
<1>2. Serving /\ UNCHANGED <<binding, run, effect, outcome, server, managed, slot, stopper, container>>
  BY DEF AcceptCommandExecution
<1>3. CASE ReplayAcceptance(c)
  <2>1. worker' = worker
    <3>1. ~(worker[c] = "none" /\ execution[c] \in Active)
      BY <1>1, <1>2 DEF Coherent, NonTerminal
    <3>2. QED  BY <1>1, <1>3, <3>1 DEF TypeOK, ReplayAcceptance
  <2>2. QED  BY <1>2, <1>3, <2>1, ClosingFrameAll DEF ReplayAcceptance, ClosingVars
<1>4. CASE FirstAcceptance(c)
  <2>1. /\ execution[c] = "absent" /\ c \notin slot /\ run[c] = "none"
        /\ binding[c] = "nothing" /\ ~managed[c]
        /\ worker[c] = "none" /\ stopper[c]["worker"] = "idle"
    BY <1>1, <1>2, <1>4
    DEF FirstAcceptance, Accepted, Closing, StartRow, SlotRow, Coherent, NonTerminal, Active
  <2>2. /\ execution'[c] \in {"starting", "failed"} /\ worker'[c] \in {"none", "setup"}
        /\ \A d \in Command \ {c} : execution'[d] = execution[d] /\ worker'[d] = worker[d]
    <3>1. CASE /\ execution' = [execution EXCEPT ![c] = "starting"]
               /\ worker' = [worker EXCEPT ![c] = "setup"]
      BY <1>1, <3>1 DEF TypeOK
    <3>2. CASE SettleExecution(c, "failed")
      BY <1>1, <3>2 DEF TypeOK, SettleExecution
    <3>3. QED  BY <1>4, <3>1, <3>2 DEF FirstAcceptance
  <2>3. OnlyClosing(c)
    BY <1>2, <2>2 DEF OnlyClosing, SameClosing
  <2>4. SlotRow(c)' /\ StartRow(c)'
    BY <1>2, <2>1, <2>2 DEF SlotRow, StartRow, Serving
  <2>5. JournalRow(c)' /\ OwnerRow(c)'
    BY <1>1, <1>2, <2>1, <2>2 DEF Closing, JournalRow, OwnerRow
  <2>6. ClosedRow(c)'
    BY <1>2, <2>1, <2>2 DEF ClosedRow
  <2>7. Closing(c)' /\ SlotsInUse'
    BY <1>2, <2>4, <2>5, <2>6 DEF Closing, ClosingInv, SlotsInUse
  <2>8. QED  BY <1>2, <2>3, <2>7, ClosingFrameOne
<1>5. QED  BY <1>3, <1>4 DEF AcceptCommandExecution

LEMMA QueueCloses ==
  ASSUME Inv, ClosingInv, QueueStep
  PROVE  ClosingInv'
<1>1. ASSUME NEW l \in Lease, NEW c \in Command, AcceptCommandExecution(l, c)
      PROVE  ClosingInv'
  BY <1>1, AcceptanceCloses
<1>2. CASE ~\E l \in Lease, c \in Command : AcceptCommandExecution(l, c)
  <2>1. UNCHANGED ClosingVars
    BY <1>2 DEF QueueStep, RegisterProjectOrchestrator, ExpireOrchestratorLease,
       ReleaseProjectOrchestrator, EnqueueOrchestratorCommand, ResetOrchestratorCommand,
       ClaimOrchestratorCommand, CompleteOrchestratorCommand, rest_of_queue, memory, ClosingVars
  <2>2. QED  BY <2>1, ClosingFrameAll
<1>3. QED  BY <1>1, <1>2

(* The starts: until the run has a session, leaving gives the slot back. *)
LEMMA WorkspaceCreatedCloses ==
  ASSUME Inv, Inv', ClosingInv, NEW c \in Command, WorkspaceCreated(c)
  PROVE  ClosingInv'
<1>1. TypeOK /\ TypeOK' /\ Coherent(c) /\ Closing(c)
  BY DEF Inv, ClosingInv
<1>2. /\ Serving /\ worker[c] = "setup" /\ binding' = [binding EXCEPT ![c] = "run"]
      /\ UNCHANGED <<server, outcome, managed, run, effect, container>>
  BY DEF WorkspaceCreated, untouched_by_start
<1>3. binding'[c] = "run" /\ \A d \in Command \ {c} : binding'[d] = binding[d]
  BY <1>1, <1>2 DEF TypeOK
<1>4. binding[c] = "nothing" /\ c \notin slot /\ run[c] = "none" /\ ~managed[c]
  BY <1>1, <1>2 DEF Coherent, Closing, StartRow, SlotRow
<1>5. SlotsInUse' /\ \A d \in Command \ {c} : d \in slot' <=> d \in slot
  <2>1. \/ slot' = slot
        \/ slot' = slot \cup {c} /\ CredentialSlotFree
    BY DEF WorkspaceCreated
  <2>2. QED  BY <1>1, <2>1, SlotsKept DEF ClosingInv
<1>6. CASE AssertExecutionGeneration(c) /\ CredentialSlotFree
  <2>1. /\ worker' = [worker EXCEPT ![c] = "credential"]
        /\ UNCHANGED <<execution, stopper>>
    BY <1>6 DEF WorkspaceCreated
  <2>2. worker'[c] = "credential" /\ \A d \in Command \ {c} : worker'[d] = worker[d]
    BY <1>1, <2>1 DEF TypeOK
  <2>3. OnlyClosing(c)
    BY <1>2, <1>3, <1>5, <2>1, <2>2 DEF OnlyClosing, SameClosing
  <2>4. execution[c] \in Active
    BY <1>6 DEF AssertExecutionGeneration
  <2>5. SlotRow(c)' /\ StartRow(c)'
    BY <1>2, <1>3, <1>4, <2>1, <2>2, <2>4 DEF SlotRow, StartRow, Serving, NonTerminal, Active
  <2>6. JournalRow(c)' /\ OwnerRow(c)'
    BY <1>1, <1>2, <1>3, <1>4, <2>1, <2>2 DEF Closing, JournalRow, OwnerRow
  <2>7. ClosedRow(c)'
    BY <1>2, <1>4, <2>1, <2>4 DEF ClosedRow, Active
  <2>8. Closing(c)'
    BY <2>5, <2>6, <2>7 DEF Closing
  <2>9. QED  BY <1>2, <1>5, <2>3, <2>8, ClosingFrameOne
<1>7. CASE ~(AssertExecutionGeneration(c) /\ CredentialSlotFree)
  <2>1. PICK error \in {"failed", "uncertain"} :
          ExecuteTaskPhaseReturns(c, error, effect[c]) /\ slot' = slot
    BY <1>7 DEF WorkspaceCreated
  <2>2. error \in Error /\ error # "none"
    BY DEF Error
  <2>3. OnlyRow(c)
    BY <1>1, <1>2, <1>3, <1>4, <2>1, <2>2, ReturnsRow
  <2>4. OnlyClosing(c)
    BY <1>2, <1>5, <2>3 DEF OnlyClosing, SameClosing, OnlyRow, SameRow
  <2>5. Leaving(c)
    BY <1>2, <1>3, <1>4, <2>1 DEF Leaving
  <2>6. Closing(c)'
    BY <1>1, <1>2, <2>1, <2>2, <2>5, ReturnsClosing
  <2>7. QED  BY <1>2, <1>5, <2>4, <2>6, ClosingFrameOne
<1>8. QED  BY <1>6, <1>7

(* The ways out that bind nothing: they differ in what they undo. *)
LEMMA LeavingCloses ==
  ASSUME Inv, Inv', ClosingInv, NEW c \in Command, Leaving(c), NEW error \in Error,
         ExecuteTaskPhaseReturns(c, error, effect'[c]),
         error = "none" => outcome[c] /\ binding[c] = "session",
         binding' = binding, UNCHANGED <<run, managed>>,
         slot' \in {slot, slot \ {c}},
         \A d \in Command \ {c} : effect'[d] = effect[d] /\ container'[d] = container[d]
  PROVE  ClosingInv'
<1>1. TypeOK /\ TypeOK' /\ Coherent(c) /\ Closing(c)
  BY DEF Inv, ClosingInv
<1>2. SlotsInUse' /\ \A d \in Command \ {c} : d \in slot' <=> d \in slot
  BY <1>1, SlotsKept DEF ClosingInv
<1>3. /\ Serving /\ UNCHANGED <<server, outcome>>
      /\ worker[c] # "none" /\ worker[c] # "stopping"
  BY DEF Leaving
<1>4. PICK effects : effects = effect'[c] /\ ExecuteTaskPhaseReturns(c, error, effects)
  OBVIOUS
<1>5. OnlyRow(c)
  BY <1>1, <1>3, <1>4, ReturnsRow
<1>6. OnlyClosing(c)
  BY <1>2, <1>5 DEF OnlyClosing, SameClosing, OnlyRow, SameRow
<1>7. Closing(c)'
  BY <1>1, <1>4, ReturnsClosing
<1>8. QED  BY <1>2, <1>3, <1>6, <1>7, ClosingFrameOne

(* A step of the start that only moves the worker on, and writes the journal. *)
LEMMA WorkerMovesCloses ==
  ASSUME Inv, ClosingInv, NEW c \in Command, Serving,
         worker[c] \notin {"none", "setup"}, worker'[c] \notin {"none", "setup"},
         UNCHANGED <<execution, binding, run, outcome, server, managed, slot, stopper, container>>,
         \A d \in Command \ {c} : worker'[d] = worker[d] /\ effect'[d] = effect[d],
         \A k \in Kind : effect[c][k] # "none" => effect'[c][k] # "none",
         effect'[c]["container_stop"] = effect[c]["container_stop"],
         worker'[c] \in {"container", "pi"} => effect'[c]["container_start"] # "none",
         worker'[c] \in {"credential", "container", "pi", "undo"} => binding[c] = "run"
  PROVE  ClosingInv'
<1>1. Coherent(c) /\ Closing(c)
  BY DEF Inv, ClosingInv
<1>2. OnlyClosing(c) /\ SlotsInUse'
  BY DEF OnlyClosing, SameClosing, ClosingInv, SlotsInUse
<1>3. /\ execution[c] \in NonTerminal /\ execution[c] # "absent"
      /\ execution[c] \notin {"paused", "succeeded"}
  BY <1>1 DEF Coherent, NonTerminal, Active
<1>4. SlotRow(c)' /\ StartRow(c)'
  BY <1>1, <1>3 DEF Closing, SlotRow, StartRow, Serving
<1>5. JournalRow(c)'
  <2>1. /\ effect[c]["container_start"] # "none" => effect'[c]["container_start"] # "none"
        /\ effect[c]["provider_response"] # "none" => effect'[c]["provider_response"] # "none"
    BY DEF Kind
  <2>2. QED  BY <1>1, <2>1 DEF Closing, JournalRow
<1>6. OwnerRow(c)' /\ ClosedRow(c)'
  BY <1>1, <1>3 DEF Closing, OwnerRow, ClosedRow
<1>7. QED  BY <1>2, <1>4, <1>5, <1>6, ClosingFrameOne DEF Closing

LEMMA PiReadyCloses ==
  ASSUME Inv, ClosingInv, NEW c \in Command, PiReady(c)
  PROVE  ClosingInv'
<1>1. TypeOK /\ Coherent(c) /\ Closing(c)
  BY DEF Inv, ClosingInv
<1>2. /\ Serving /\ worker[c] = "pi" /\ run' = [run EXCEPT ![c] = "running"]
      /\ UNCHANGED <<server, outcome, slot, stopper, container>>
  BY DEF PiReady
<1>3. run'[c] = "running" /\ \A d \in Command \ {c} : run'[d] = run[d]
  BY <1>1, <1>2 DEF TypeOK
<1>4. /\ binding[c] = "run" /\ effect[c]["container_start"] # "none"
      /\ execution[c] \in NonTerminal /\ ~managed[c]
      /\ stopper[c]["worker"] = "idle" /\ stopper[c]["owner"] = "idle"
  BY <1>1, <1>2 DEF Closing, StartRow, JournalRow, SlotRow, OwnerRow, Coherent
<1>5. SlotsInUse'
  BY <1>2 DEF ClosingInv, SlotsInUse
<1>6. CASE AssertExecutionGeneration(c)
  <2>1. /\ binding' = [binding EXCEPT ![c] = "session"]
        /\ execution' = [execution EXCEPT ![c] = "running"]
        /\ managed' = [managed EXCEPT ![c] = TRUE]
        /\ worker' = [worker EXCEPT ![c] = "prompt"]
        /\ Journals(c, "provider_response", "intent")
    BY <1>6 DEF PiReady, Journals
  <2>2. /\ binding'[c] = "session" /\ execution'[c] = "running" /\ managed'[c]
        /\ worker'[c] = "prompt"
        /\ \A d \in Command \ {c} : /\ binding'[d] = binding[d] /\ execution'[d] = execution[d]
                                    /\ managed'[d] = managed[d] /\ worker'[d] = worker[d]
    BY <1>1, <2>1 DEF TypeOK
  <2>3. /\ effect'[c]["provider_response"] = "intent"
        /\ effect'[c]["container_start"] = effect[c]["container_start"]
        /\ \A d \in Command \ {c} : effect'[d] = effect[d]
    BY <1>1, <2>1, EffectRow DEF Kind
  <2>4. OnlyClosing(c)
    BY <1>2, <1>3, <2>2, <2>3 DEF OnlyClosing, SameClosing
  <2>5. SlotRow(c)' /\ StartRow(c)'
    BY <1>2, <1>3, <2>2 DEF SlotRow, StartRow, Serving, NonTerminal, Active
  <2>6. JournalRow(c)' /\ OwnerRow(c)'
    BY <1>2, <1>4, <2>2, <2>3 DEF JournalRow, OwnerRow, Caller
  <2>7. ClosedRow(c)'
    BY <1>3, <2>2 DEF ClosedRow
  <2>8. QED  BY <1>2, <1>5, <2>4, <2>5, <2>6, <2>7, ClosingFrameOne DEF Closing
<1>7. CASE ~AssertExecutionGeneration(c)
  <2>1. /\ worker' = [worker EXCEPT ![c] = "undo"]
        /\ UNCHANGED <<binding, execution, managed, effect>>
    BY <1>7 DEF PiReady
  <2>2. worker'[c] = "undo" /\ \A d \in Command \ {c} : worker'[d] = worker[d]
    BY <1>1, <2>1 DEF TypeOK
  <2>3. OnlyClosing(c)
    BY <1>2, <1>3, <2>1, <2>2 DEF OnlyClosing, SameClosing
  <2>4. SlotRow(c)' /\ StartRow(c)'
    BY <1>1, <1>2, <1>3, <1>4, <2>1, <2>2
    DEF Closing, SlotRow, StartRow, Serving, NonTerminal, Active
  <2>5. JournalRow(c)' /\ OwnerRow(c)'
    BY <1>1, <1>2, <1>4, <2>1, <2>2 DEF Closing, JournalRow, OwnerRow
  <2>6. ClosedRow(c)'
    BY <1>3, <1>4, <2>1 DEF ClosedRow, NonTerminal, Active
  <2>7. QED  BY <1>2, <1>5, <2>3, <2>4, <2>5, <2>6, ClosingFrameOne DEF Closing
<1>8. QED  BY <1>6, <1>7

LEMMA UndoStartCloses ==
  ASSUME Inv, Inv', ClosingInv, NEW c \in Command, UndoStart(c)
  PROVE  ClosingInv'
<1>1. TypeOK /\ Closing(c)
  BY DEF Inv, ClosingInv
<1>2. /\ Serving /\ worker[c] = "undo" /\ slot' = slot \ {c}
      /\ ExecuteTaskPhaseReturns(c, "failed", effect[c])
      /\ UNCHANGED <<server, outcome, managed, binding, run, effect>>
  BY DEF UndoStart, untouched_by_start
<1>3. /\ container'[c] \in {container[c], "removed"}
      /\ \A d \in Command \ {c} : container'[d] = container[d]
  BY <1>1 DEF TypeOK, UndoStart
<1>4. Leaving(c)
  BY <1>2, <1>3 DEF Leaving
<1>5. "failed" \in Error /\ ExecuteTaskPhaseReturns(c, "failed", effect'[c])
  BY <1>2 DEF Error
<1>6. QED  BY <1>2, <1>3, <1>4, <1>5, LeavingCloses

LEMMA StartCloses ==
  ASSUME Inv, Inv', ClosingInv, NEW c \in Command, StartTask(c)
  PROVE  ClosingInv'
<1>1. TypeOK /\ Coherent(c) /\ Closing(c)
  BY DEF Inv, ClosingInv
<1>2. CASE WorkspaceFails(c)
  <2>1. /\ Serving /\ worker[c] = "setup" /\ ExecuteTaskPhaseReturns(c, "failed", effect[c])
        /\ UNCHANGED <<server, outcome, managed, binding, run, effect, slot, container>>
    BY <1>2 DEF WorkspaceFails, untouched_by_start
  <2>2. c \notin slot
    BY <1>1, <2>1 DEF Closing, StartRow
  <2>3. Leaving(c)
    BY <2>1, <2>2 DEF Leaving
  <2>4. "failed" \in Error /\ ExecuteTaskPhaseReturns(c, "failed", effect'[c])
    BY <2>1 DEF Error
  <2>5. QED  BY <2>1, <2>3, <2>4, LeavingCloses
<1>3. CASE CredentialRejected(c)
  <2>1. /\ Serving /\ worker[c] = "credential" /\ slot' = slot \ {c}
        /\ ExecuteTaskPhaseReturns(c, "failed", effect[c])
        /\ UNCHANGED <<server, outcome, managed, binding, run, effect, container>>
    BY <1>3 DEF CredentialRejected, untouched_by_start
  <2>2. Leaving(c)
    BY <2>1 DEF Leaving
  <2>3. "failed" \in Error /\ ExecuteTaskPhaseReturns(c, "failed", effect'[c])
    BY <2>1 DEF Error
  <2>4. QED  BY <2>1, <2>2, <2>3, LeavingCloses
<1>4. CASE CredentialMaterialized(c)
  <2>1. /\ Serving /\ worker[c] = "credential"
        /\ Journals(c, "container_start", "intent")
        /\ worker' = [worker EXCEPT ![c] = "container"]
        /\ UNCHANGED <<execution, binding, run, outcome, server, managed, slot, stopper, container>>
    BY <1>4 DEF CredentialMaterialized, untouched_by_start, Journals
  <2>2. worker'[c] = "container" /\ \A d \in Command \ {c} : worker'[d] = worker[d]
    BY <1>1, <2>1 DEF TypeOK
  <2>3. /\ effect'[c]["container_start"] = "intent"
        /\ \A k \in Kind \ {"container_start"} : effect'[c][k] = effect[c][k]
        /\ \A d \in Command \ {c} : effect'[d] = effect[d]
    BY <1>1, <2>1, EffectRow DEF Kind
  <2>4. binding[c] = "run"
    BY <1>1, <2>1 DEF Closing, StartRow
  <2>5. /\ \A k \in Kind : effect[c][k] # "none" => effect'[c][k] # "none"
        /\ effect'[c]["container_stop"] = effect[c]["container_stop"]
    BY <2>3 DEF Kind
  <2>6. QED  BY <2>1, <2>2, <2>3, <2>4, <2>5, WorkerMovesCloses
<1>5. CASE DockerCreates(c)
  <2>1. /\ worker[c] = "container" /\ container[c] = "none" /\ Serving
        /\ container' = [container EXCEPT ![c] = "exists"]
        /\ UNCHANGED <<execution, binding, run, effect, outcome, server, worker, managed, slot, stopper>>
    BY <1>5 DEF DockerCreates, store, memory
  <2>2. \A d \in Command \ {c} : container'[d] = container[d]
    BY <1>1, <2>1 DEF TypeOK
  <2>3. OnlyClosing(c) /\ SlotsInUse'
    BY <2>1, <2>2 DEF OnlyClosing, SameClosing, ClosingInv, SlotsInUse
  <2>4. execution[c] \in NonTerminal
    BY <1>1, <2>1 DEF Coherent
  <2>5. SlotRow(c)' /\ StartRow(c)' /\ OwnerRow(c)'
    BY <1>1, <2>1 DEF Closing, SlotRow, StartRow, OwnerRow, Serving
  <2>6. JournalRow(c)'
    BY <1>1, <2>1 DEF Closing, JournalRow
  <2>7. ClosedRow(c)'
    BY <1>1, <2>1, <2>4 DEF Closing, ClosedRow, Quiet, NonTerminal, Active
  <2>8. QED  BY <2>1, <2>3, <2>5, <2>6, <2>7, ClosingFrameOne DEF Closing
<1>6. CASE ContainerStarted(c)
  <2>1. /\ Serving /\ worker[c] = "container"
        /\ UNCHANGED <<execution, binding, run, outcome, server, managed, slot, stopper, container>>
        /\ \/ /\ Journals(c, "container_start", "completed")
              /\ worker' = [worker EXCEPT ![c] = "pi"]
           \/ effect' = effect /\ worker' = [worker EXCEPT ![c] = "undo"]
    BY <1>6 DEF ContainerStarted, untouched_by_start, Journals
  <2>2. binding[c] = "run"
    BY <1>1, <2>1 DEF Closing, StartRow
  <2>3. CASE /\ Journals(c, "container_start", "completed")
             /\ worker' = [worker EXCEPT ![c] = "pi"]
    <3>1. worker'[c] = "pi" /\ \A d \in Command \ {c} : worker'[d] = worker[d]
      BY <1>1, <2>3 DEF TypeOK
    <3>2. /\ effect'[c]["container_start"] = "completed"
          /\ \A k \in Kind \ {"container_start"} : effect'[c][k] = effect[c][k]
          /\ \A d \in Command \ {c} : effect'[d] = effect[d]
      BY <1>1, <2>3, EffectRow DEF Kind
    <3>3. /\ \A k \in Kind : effect[c][k] # "none" => effect'[c][k] # "none"
          /\ effect'[c]["container_stop"] = effect[c]["container_stop"]
      BY <3>2 DEF Kind
    <3>4. QED  BY <2>1, <2>2, <3>1, <3>2, <3>3, WorkerMovesCloses
  <2>4. CASE effect' = effect /\ worker' = [worker EXCEPT ![c] = "undo"]
    <3>1. worker'[c] = "undo" /\ \A d \in Command \ {c} : worker'[d] = worker[d]
      BY <1>1, <2>4 DEF TypeOK
    <3>2. QED  BY <2>1, <2>2, <2>4, <3>1, WorkerMovesCloses
  <2>5. QED  BY <2>1, <2>3, <2>4
<1>7. CASE StartFails(c)
  <2>1. /\ Serving /\ worker[c] \in {"container", "pi"}
        /\ worker' = [worker EXCEPT ![c] = "undo"]
        /\ UNCHANGED <<execution, binding, run, effect, outcome, server, managed, slot, stopper, container>>
    BY <1>7 DEF StartFails, store, outside
  <2>2. worker'[c] = "undo" /\ \A d \in Command \ {c} : worker'[d] = worker[d]
    BY <1>1, <2>1 DEF TypeOK
  <2>3. binding[c] = "run"
    BY <1>1, <2>1 DEF Closing, StartRow
  <2>4. QED  BY <2>1, <2>2, <2>3, WorkerMovesCloses
<1>8. QED
  BY <1>2, <1>3, <1>4, <1>5, <1>6, <1>7, WorkspaceCreatedCloses, PiReadyCloses, UndoStartCloses
  DEF StartTask

(* The agent's requests write the git entry of the journal, which no          *)
(* settlement relies on.                                                      *)
LEMMA AgentCloses ==
  ASSUME Inv, ClosingInv, NEW c \in Command, AgentStep(c)
  PROVE  ClosingInv'
<1>1. TypeOK /\ Closing(c)
  BY DEF Inv, ClosingInv
<1>2. CASE AuthorizeGitCheckpoint(c)
  BY <1>2, ClosingFrameAll DEF AuthorizeGitCheckpoint, store, outside, ClosingVars
<1>3. CASE RecordPhaseOutcome(c)
  <2>1. /\ outcome' = [outcome EXCEPT ![c] = TRUE]
        /\ UNCHANGED <<execution, binding, run, effect, server, worker, managed, slot, stopper, container>>
    BY <1>3 DEF RecordPhaseOutcome, memory, outside
  <2>2. outcome'[c] /\ \A d \in Command \ {c} : outcome'[d] = outcome[d]
    BY <1>1, <2>1 DEF TypeOK
  <2>3. OnlyClosing(c) /\ SlotsInUse'
    BY <2>1, <2>2 DEF OnlyClosing, SameClosing, ClosingInv, SlotsInUse
  <2>4. SlotRow(c)' /\ StartRow(c)'
    BY <1>1, <2>1 DEF Closing, SlotRow, StartRow, Serving
  <2>5. JournalRow(c)' /\ OwnerRow(c)'
    BY <1>1, <2>1 DEF Closing, JournalRow, OwnerRow
  <2>6. ClosedRow(c)'
    BY <1>1, <2>1, <2>2 DEF Closing, ClosedRow, Quiet
  <2>7. QED  BY <2>1, <2>3, <2>4, <2>5, <2>6, ClosingFrameOne DEF Closing
<1>4. CASE JournalGitCheckpoint(c) \/ FinishGitCheckpoint(c)
  <2>1. /\ UNCHANGED <<execution, binding, run, outcome, server, worker, managed, slot, stopper, container>>
        /\ \/ effect' = effect
           \/ \E v \in EffectState : Journals(c, "git", v)
    BY <1>4 DEF JournalGitCheckpoint, FinishGitCheckpoint, outside, Journals, EffectState
  <2>2. CASE effect' = effect
    BY <2>1, <2>2, ClosingFrameAll DEF ClosingVars
  <2>3. CASE \E v \in EffectState : Journals(c, "git", v)
    <3>1. PICK v \in EffectState : Journals(c, "git", v)
      BY <2>3
    <3>2. /\ \A k \in Kind \ {"git"} : effect'[c][k] = effect[c][k]
          /\ \A d \in Command \ {c} : effect'[d] = effect[d]
      BY <1>1, <3>1, EffectRow DEF Kind
    <3>3. OnlyClosing(c) /\ SlotsInUse'
      BY <2>1, <3>2 DEF OnlyClosing, SameClosing, ClosingInv, SlotsInUse
    <3>4. SlotRow(c)' /\ StartRow(c)'
      BY <1>1, <2>1 DEF Closing, SlotRow, StartRow, Serving
    <3>5. /\ effect'[c]["container_start"] = effect[c]["container_start"]
          /\ effect'[c]["provider_response"] = effect[c]["provider_response"]
          /\ effect'[c]["container_stop"] = effect[c]["container_stop"]
      BY <3>2 DEF Kind
    <3>6. JournalRow(c)' /\ OwnerRow(c)'
      BY <1>1, <2>1, <3>5 DEF Closing, JournalRow, OwnerRow
    <3>7. \A k \in ControlKinds : effect'[c][k] = effect[c][k]
      BY <3>2 DEF ControlKinds
    <3>8. ClosedRow(c)'
      BY <1>1, <2>1, <3>7 DEF Closing, ClosedRow, Quiet
    <3>9. QED  BY <2>1, <3>3, <3>4, <3>6, <3>8, ClosingFrameOne DEF Closing
  <2>4. QED  BY <2>1, <2>2, <2>3
<1>5. QED  BY <1>2, <1>3, <1>4 DEF AgentStep

LEMMA PromptCloses ==
  ASSUME Inv, Inv', ClosingInv, NEW c \in Command, PromptStep(c)
  PROVE  ClosingInv'
<1>1. TypeOK /\ Coherent(c) /\ Closing(c)
  BY DEF Inv, ClosingInv
<1>2. CASE PromptSettles(c)
  <2>1. /\ Serving /\ worker[c] = "prompt" /\ worker' = [worker EXCEPT ![c] = "wrapup"]
        /\ UNCHANGED <<execution, binding, run, effect, outcome, server, managed, slot, stopper, container>>
    BY <1>2 DEF PromptSettles, store, outside
  <2>2. worker'[c] = "wrapup" /\ \A d \in Command \ {c} : worker'[d] = worker[d]
    BY <1>1, <2>1 DEF TypeOK
  <2>3. QED  BY <2>1, <2>2, WorkerMovesCloses
<1>3. CASE PromptFails(c)
  <2>1. /\ Serving /\ worker[c] \in {"prompt", "wrapup"}
        /\ ExecuteTaskPhaseReturns(c, "failed", effect[c])
        /\ UNCHANGED <<server, outcome, managed, binding, run, effect, slot, container>>
    BY <1>3 DEF PromptFails, untouched_by_phase
  <2>2. binding[c] = "session"
    BY <1>1, <2>1 DEF Coherent
  <2>3. Leaving(c)
    BY <2>1, <2>2 DEF Leaving
  <2>4. "failed" \in Error /\ ExecuteTaskPhaseReturns(c, "failed", effect'[c])
    BY <2>1 DEF Error
  <2>5. QED  BY <2>1, <2>3, <2>4, LeavingCloses
<1>4. CASE PhaseEnds(c)
  <2>1. PICK error \in Error :
          /\ error = "none" => outcome[c]
          /\ ExecuteTaskPhaseReturns(c, error, [effect EXCEPT ![c]["provider_response"] = "completed"][c])
    BY <1>4 DEF PhaseEnds, PhaseOutcomeRecorded, Error
  <2>2. /\ Serving /\ worker[c] = "wrapup" /\ Journals(c, "provider_response", "completed")
        /\ UNCHANGED <<server, outcome, managed, binding, run, slot, container>>
    BY <1>4 DEF PhaseEnds, Journals, untouched_by_phase
  <2>3. ExecuteTaskPhaseReturns(c, error, effect'[c])
    BY <2>1, <2>2 DEF Journals
  <2>4. /\ effect'[c]["provider_response"] = "completed"
        /\ \A k \in Kind \ {"provider_response"} : effect'[c][k] = effect[c][k]
        /\ \A d \in Command \ {c} : effect'[d] = effect[d]
    BY <1>1, <2>2, EffectRow DEF Kind
  <2>5. binding[c] = "session"
    BY <1>1, <2>2 DEF Coherent
  <2>6. Leaving(c)
    BY <2>2, <2>4, <2>5 DEF Leaving, Kind
  <2>7. QED  BY <2>1, <2>2, <2>3, <2>4, <2>5, <2>6, LeavingCloses
<1>5. QED  BY <1>2, <1>3, <1>4 DEF PromptStep

(* While a caller is in stopSession: the worker waits for the settlement, and *)
(* what the owner's call may still find was closed before.                    *)
LEMMA InStopSession ==
  ASSUME Inv, ClosingInv, NEW c \in Command, NEW k \in Caller, stopper[c][k] # "idle"
  PROVE  /\ Serving /\ binding[c] = "session" /\ run[c] # "paused"
         /\ k = "worker" => worker[c] = "stopping" /\ execution[c] = "stopping"
         /\ execution[c] \in {"paused", "succeeded"} =>
              k = "owner" /\ effect[c]["container_stop"] = "completed"
<1>1. Coherent(c) /\ Closing(c) /\ k \in {"worker", "owner"}
  BY DEF Inv, ClosingInv, Caller
<1>2. Serving
  BY <1>1 DEF Closing, StartRow
<1>3. CASE k = "worker"
  <2>1. worker[c] = "stopping" /\ execution[c] = "stopping" /\ binding[c] = "session"
    BY <1>1, <1>3 DEF Coherent
  <2>2. run[c] # "paused"
    BY <1>1, <2>1 DEF Closing, ClosedRow
  <2>3. QED  BY <1>2, <1>3, <2>1, <2>2
<1>4. CASE k = "owner"
  BY <1>1, <1>2, <1>4 DEF Closing, OwnerRow
<1>5. QED  BY <1>1, <1>3, <1>4

LEMMA ProcessesExitCloses ==
  ASSUME Inv, ClosingInv, NEW c \in Command, NEW k \in Caller, ProcessesExit(c, k)
  PROVE  ClosingInv'
<1>1. TypeOK /\ Coherent(c) /\ Closing(c)
  BY DEF Inv, ClosingInv
<1>2. PICK v : /\ v = IF effect[c]["container_stop"] = "none" THEN "intent" ELSE effect[c]["container_stop"]
               /\ Journals(c, "container_stop", v)
  BY <1>1 DEF ProcessesExit, Journals, TypeOK, Kind
<1>3. /\ stopper[c][k] = "processes" /\ MovesStop(c, k, "removing")
      /\ UNCHANGED <<execution, binding, run, outcome, server, worker, managed, slot, container>>
  BY DEF ProcessesExit, MovesStop, outside
<1>4. /\ stopper'[c][k] = "removing"
      /\ \A j \in Caller \ {k} : stopper'[c][j] = stopper[c][j]
      /\ \A d \in Command \ {c} : stopper'[d] = stopper[d]
  BY <1>1, <1>3, StopperRow
<1>5. /\ effect'[c]["container_stop"] = v
      /\ \A j \in Kind \ {"container_stop"} : effect'[c][j] = effect[c][j]
      /\ \A d \in Command \ {c} : effect'[d] = effect[d]
  BY <1>1, <1>2, EffectRow DEF Kind
<1>6. /\ Serving /\ run[c] # "paused"
      /\ execution[c] \in {"paused", "succeeded"} => effect[c]["container_stop"] = "completed"
  BY <1>3, InStopSession
<1>7. OnlyClosing(c) /\ SlotsInUse'
  BY <1>3, <1>4, <1>5 DEF OnlyClosing, SameClosing, ClosingInv, SlotsInUse
<1>8. SlotRow(c)' /\ StartRow(c)'
  BY <1>1, <1>3, <1>6 DEF Closing, SlotRow, StartRow, Serving
<1>9. JournalRow(c)'
  <2>1. /\ effect'[c]["container_start"] = effect[c]["container_start"]
        /\ effect'[c]["provider_response"] = effect[c]["provider_response"]
    BY <1>5 DEF Kind
  <2>2. ASSUME NEW j \in Caller, stopper'[c][j] = "finishing"
        PROVE  effect'[c]["container_stop"] = "completed" /\ container'[c] = "removed"
    BY <1>1, <1>2, <1>3, <1>4, <1>5, <2>2 DEF Closing, JournalRow
  <2>3. QED  BY <1>1, <1>3, <2>1, <2>2 DEF Closing, JournalRow
<1>10. OwnerRow(c)'
  BY <1>1, <1>2, <1>3, <1>4, <1>5, <1>6 DEF Closing, OwnerRow, Caller
<1>11. ClosedRow(c)'
  <2>1. execution[c] \in {"paused", "succeeded"} => \A j \in Kind : effect'[c][j] = effect[c][j]
    BY <1>2, <1>5, <1>6
  <2>2. QED  BY <1>1, <1>3, <1>6, <2>1 DEF Closing, ClosedRow, Quiet, ControlKinds
<1>12. QED
  BY <1>3, <1>7, <1>8, <1>9, <1>10, <1>11, ClosingFrameOne DEF Closing

LEMMA ContainerRemovedCloses ==
  ASSUME Inv, ClosingInv, NEW c \in Command, NEW k \in Caller, ContainerRemoved(c, k)
  PROVE  ClosingInv'
<1>1. TypeOK /\ Coherent(c) /\ Closing(c)
  BY DEF Inv, ClosingInv
<1>2. /\ stopper[c][k] = "removing" /\ MovesStop(c, k, "finishing")
      /\ Journals(c, "container_stop", "completed")
      /\ container' = [container EXCEPT ![c] = "removed"]
      /\ UNCHANGED <<execution, binding, run, outcome, server, worker, managed, slot>>
  BY DEF ContainerRemoved, MovesStop, Journals
<1>3. /\ stopper'[c][k] = "finishing"
      /\ \A j \in Caller \ {k} : stopper'[c][j] = stopper[c][j]
      /\ \A d \in Command \ {c} : stopper'[d] = stopper[d]
  BY <1>1, <1>2, StopperRow
<1>4. /\ effect'[c]["container_stop"] = "completed"
      /\ \A j \in Kind \ {"container_stop"} : effect'[c][j] = effect[c][j]
      /\ \A d \in Command \ {c} : effect'[d] = effect[d]
  BY <1>1, <1>2, EffectRow DEF Kind
<1>5. container'[c] = "removed" /\ \A d \in Command \ {c} : container'[d] = container[d]
  BY <1>1, <1>2 DEF TypeOK
<1>6. Serving /\ run[c] # "paused"
  BY <1>2, InStopSession
<1>7. OnlyClosing(c) /\ SlotsInUse'
  BY <1>2, <1>3, <1>4, <1>5 DEF OnlyClosing, SameClosing, ClosingInv, SlotsInUse
<1>8. SlotRow(c)' /\ StartRow(c)'
  BY <1>1, <1>2, <1>6 DEF Closing, SlotRow, StartRow, Serving
<1>9. JournalRow(c)'
  <2>1. /\ effect'[c]["container_start"] = effect[c]["container_start"]
        /\ effect'[c]["provider_response"] = effect[c]["provider_response"]
    BY <1>4 DEF Kind
  <2>2. QED  BY <1>1, <1>2, <1>4, <1>5, <2>1 DEF Closing, JournalRow
<1>10. OwnerRow(c)'
  BY <1>1, <1>2, <1>3, <1>4 DEF Closing, OwnerRow, Caller
<1>11. ClosedRow(c)'
  BY <1>1, <1>2, <1>4, <1>5, <1>6 DEF Closing, ClosedRow, Quiet, ControlKinds
<1>12. QED
  BY <1>2, <1>7, <1>8, <1>9, <1>10, <1>11, ClosingFrameOne DEF Closing

LEMMA StopFailsCloses ==
  ASSUME Inv, ClosingInv, NEW c \in Command, NEW k \in Caller, StopFails(c, k)
  PROVE  ClosingInv'
<1>1. TypeOK /\ Coherent(c) /\ Closing(c)
  BY DEF Inv, ClosingInv
<1>2. /\ stopper[c][k] # "idle" /\ MovesStop(c, k, "idle")
      /\ UNCHANGED <<binding, run, effect, outcome, server, managed, slot, container>>
  BY DEF StopFails, MovesStop, untouched_by_stop
<1>3. /\ stopper'[c][k] = "idle"
      /\ \A j \in Caller \ {k} : stopper'[c][j] = stopper[c][j]
      /\ \A d \in Command \ {c} : stopper'[d] = stopper[d]
  BY <1>1, <1>2, StopperRow
<1>4. /\ Serving /\ binding[c] = "session" /\ run[c] # "paused"
      /\ k = "worker" => execution[c] = "stopping"
  BY <1>2, InStopSession
<1>5. /\ \A d \in Command \ {c} : execution'[d] = execution[d] /\ worker'[d] = worker[d]
      /\ \/ k = "worker" /\ execution'[c] = "reconciliation_required" /\ worker'[c] = "none"
         \/ k = "owner" /\ execution'[c] = execution[c] /\ worker'[c] = worker[c]
  <2>1. CASE k = "worker" /\ SettleExecution(c, "reconciliation_required")
    BY <1>1, <2>1, SettleRow DEF Terminal
  <2>2. CASE k = "owner" /\ UNCHANGED <<execution, worker>>
    BY <2>2
  <2>3. QED  BY <2>1, <2>2 DEF StopFails
<1>6. OnlyClosing(c) /\ SlotsInUse'
  BY <1>2, <1>3, <1>5 DEF OnlyClosing, SameClosing, ClosingInv, SlotsInUse
<1>7. SlotRow(c)' /\ StartRow(c)'
  BY <1>1, <1>2, <1>4, <1>5 DEF Closing, SlotRow, StartRow, Serving
<1>8. JournalRow(c)'
  BY <1>1, <1>2, <1>3, <1>5 DEF Closing, JournalRow
<1>9. OwnerRow(c)'
  BY <1>1, <1>2, <1>3, <1>5 DEF Closing, OwnerRow, Caller
<1>10. ClosedRow(c)'
  BY <1>1, <1>2, <1>4, <1>5 DEF Closing, ClosedRow, Quiet
<1>11. QED
  BY <1>2, <1>6, <1>7, <1>8, <1>9, <1>10, ClosingFrameOne DEF Closing

(* The end of stopSession: only the worker's call settles, and it succeeds    *)
(* only without an error, which needs the outcome, and without a doubt about  *)
(* start, response and removal, which are all in the journal by then.         *)
LEMMA FinishStopCloses ==
  ASSUME Inv, Inv', ClosingInv, NEW c \in Command, NEW k \in Caller, FinishStop(c, k)
  PROVE  ClosingInv'
<1>1. TypeOK /\ TypeOK' /\ Coherent(c) /\ Closing(c)
  BY DEF Inv, ClosingInv
<1>2. /\ stopper[c][k] = "finishing" /\ MovesStop(c, k, "idle") /\ slot' = slot \ {c}
      /\ run' = [run EXCEPT ![c] = "stopped"] /\ managed' = [managed EXCEPT ![c] = FALSE]
      /\ UNCHANGED <<binding, effect, outcome, server, container>>
  BY DEF FinishStop, MovesStop, untouched_by_stop
<1>3. /\ stopper'[c][k] = "idle"
      /\ \A j \in Caller \ {k} : stopper'[c][j] = stopper[c][j]
      /\ \A d \in Command \ {c} : stopper'[d] = stopper[d]
  BY <1>1, <1>2, StopperRow
<1>4. /\ run'[c] = "stopped" /\ ~managed'[c] /\ c \notin slot'
      /\ \A d \in Command \ {c} : run'[d] = run[d] /\ managed'[d] = managed[d]
  BY <1>1, <1>2 DEF TypeOK
<1>5. /\ Serving /\ binding[c] = "session"
      /\ k = "worker" => worker[c] = "stopping" /\ execution[c] = "stopping"
  BY <1>2, InStopSession
<1>6. effect[c]["container_stop"] = "completed" /\ container[c] = "removed"
  BY <1>1, <1>2 DEF Closing, JournalRow
<1>7. PICK state : /\ \A d \in Command \ {c} : execution'[d] = execution[d] /\ worker'[d] = worker[d]
                   /\ execution'[c] = state
                   /\ \/ /\ k = "worker" /\ worker'[c] = "none" /\ state \in Terminal
                         /\ state = SettlementState(c, caught[c], effect[c])
                      \/ k = "owner" /\ state = execution[c] /\ worker'[c] = worker[c]
  <2>1. CASE k = "worker" /\ SettleExecution(c, SettlementState(c, caught[c], effect[c]))
    <3>1. caught[c] \in Error
      BY <1>1 DEF TypeOK, Error
    <3>2. SettlementState(c, caught[c], effect[c]) \in Terminal
      BY <1>1, <3>1, SettlementIsTerminal
    <3>3. QED  BY <1>1, <2>1, <3>2, SettleRow
  <2>2. CASE k = "owner" /\ UNCHANGED <<execution, worker>>
    BY <2>2
  <2>3. QED  BY <2>1, <2>2 DEF FinishStop
<1>8. OnlyClosing(c) /\ SlotsInUse'
  <2>1. SlotsInUse' /\ \A d \in Command \ {c} : d \in slot' <=> d \in slot
    BY <1>1, <1>2, SlotsKept DEF ClosingInv
  <2>2. QED  BY <1>2, <1>3, <1>4, <1>7, <2>1 DEF OnlyClosing, SameClosing
<1>9. SlotRow(c)' /\ StartRow(c)'
  <2>1. execution[c] # "absent" /\ worker[c] # "setup"
    BY <1>1, <1>5 DEF Coherent
  <2>2. QED
    BY <1>1, <1>2, <1>4, <1>5, <1>7, <2>1 DEF Closing, SlotRow, StartRow, Serving, Terminal
<1>10. JournalRow(c)'
  BY <1>1, <1>2, <1>3, <1>5, <1>7 DEF Closing, JournalRow
<1>11. OwnerRow(c)'
  BY <1>2, <1>4, <1>5, <1>6 DEF OwnerRow
<1>12. ClosedRow(c)'
  <2>1. CASE k = "owner"
    BY <1>1, <1>2, <1>4, <1>7, <2>1 DEF Closing, ClosedRow, Quiet
  <2>2. CASE k = "worker" /\ state \notin {"paused", "succeeded"}
    BY <1>4, <1>7, <2>2 DEF ClosedRow
  <2>3. CASE k = "worker" /\ state \in {"paused", "succeeded"}
    <3>1. caught[c] \in Error /\ \A j \in Kind : effect[c][j] \in EffectState
      BY <1>1 DEF TypeOK, Error
    <3>2. /\ \A j \in Kind : effect[c][j] \notin {"intent", "reconciliation_required"}
          /\ state = "succeeded" => caught[c] = "none"
      BY <1>1, <1>7, <2>3, <3>1, SettlementLooks
    <3>3. \A j \in Kind : effect[c][j] \in {"none", "completed"}
      BY <3>1, <3>2 DEF EffectState
    <3>4. \A j \in ControlKinds : effect[c][j] = "completed"
      <4>1. effect[c]["container_start"] # "none" /\ effect[c]["provider_response"] # "none"
        BY <1>1, <1>5 DEF Closing, JournalRow
      <4>2. QED  BY <1>6, <3>3, <4>1 DEF ControlKinds, Kind
    <3>5. state = "succeeded" => outcome[c]
      BY <1>1, <1>5, <2>3, <3>2 DEF Coherent
    <3>6. QED  BY <1>2, <1>4, <1>6, <1>7, <3>4, <3>5 DEF ClosedRow, Quiet
  <2>4. QED  BY <1>7, <2>1, <2>2, <2>3
<1>13. QED
  BY <1>2, <1>8, <1>9, <1>10, <1>11, <1>12, ClosingFrameOne DEF Closing

LEMMA StopCloses ==
  ASSUME Inv, Inv', ClosingInv, NEW c \in Command, NEW k \in Caller, StopStepOf(c, k)
  PROVE  ClosingInv'
  BY ProcessesExitCloses, ContainerRemovedCloses, StopFailsCloses, FinishStopCloses
  DEF StopStepOf

LEMMA OwnerStepCloses ==
  ASSUME Inv, ClosingInv, NEW c \in Command, OwnerStep(c)
  PROVE  ClosingInv'
<1>1. TypeOK /\ Coherent(c) /\ Closing(c)
  BY DEF Inv, ClosingInv
<1>2. CASE StopSession(c)
  <2>1. /\ Serving /\ managed[c] /\ BeginStop(c, "owner")
        /\ UNCHANGED <<execution, binding, run, effect, outcome, server, worker, managed, slot, container>>
    BY <1>2 DEF StopSession, store, outside
  <2>2. /\ stopper'[c]["owner"] \in {"processes", "hung"}
        /\ stopper'[c]["worker"] = stopper[c]["worker"]
        /\ \A d \in Command \ {c} : stopper'[d] = stopper[d]
    BY <1>1, <2>1, BeginStopEarly DEF Caller
  <2>3. OnlyClosing(c) /\ SlotsInUse'
    BY <2>1, <2>2 DEF OnlyClosing, SameClosing, ClosingInv, SlotsInUse
  <2>4. SlotRow(c)' /\ StartRow(c)'
    BY <1>1, <2>1 DEF Closing, SlotRow, StartRow, Serving
  <2>5. JournalRow(c)'
    BY <1>1, <2>1, <2>2 DEF Closing, JournalRow, Caller
  <2>6. OwnerRow(c)'
    BY <1>1, <2>1 DEF Closing, OwnerRow, SlotRow, ClosedRow
  <2>7. ClosedRow(c)'
    BY <1>1, <2>1 DEF Closing, ClosedRow, Quiet
  <2>8. QED  BY <2>1, <2>3, <2>4, <2>5, <2>6, <2>7, ClosingFrameOne DEF Closing
<1>3. ASSUME NEW action, RecordExecutionAction(c, action) \/ CancelUncertainExecution(c)
      PROVE  ClosingInv'
  <2>1. /\ Serving
        /\ UNCHANGED <<binding, run, effect, outcome, server, worker, managed, slot, stopper, container>>
        /\ \/ execution[c] \in Active /\ execution' = [execution EXCEPT ![c] = "stopping"]
           \/ /\ execution[c] = "reconciliation_required" /\ run[c] # "running"
              /\ execution' = [execution EXCEPT ![c] = "cancelled"]
    BY <1>3 DEF RecordExecutionAction, CancelUncertainExecution, memory
  <2>2. /\ \/ execution[c] \in Active /\ execution'[c] = "stopping"
           \/ execution[c] = "reconciliation_required" /\ run[c] # "running" /\ execution'[c] = "cancelled"
        /\ \A d \in Command \ {c} : execution'[d] = execution[d]
    BY <1>1, <2>1 DEF TypeOK
  <2>3. OnlyClosing(c) /\ SlotsInUse'
    BY <2>1, <2>2 DEF OnlyClosing, SameClosing, ClosingInv, SlotsInUse
  <2>4. SlotRow(c)' /\ StartRow(c)'
    BY <1>1, <2>1, <2>2 DEF Closing, SlotRow, StartRow, Serving, NonTerminal, Active
  <2>5. JournalRow(c)' /\ OwnerRow(c)'
    BY <1>1, <2>1, <2>2 DEF Closing, JournalRow, OwnerRow
  <2>6. ClosedRow(c)'
    BY <1>1, <2>1, <2>2 DEF Closing, ClosedRow, Quiet
  <2>7. QED  BY <2>1, <2>3, <2>4, <2>5, <2>6, ClosingFrameOne DEF Closing
<1>4. QED  BY <1>2, <1>3 DEF OwnerStep

-----------------------------------------------------------------------------
(* Crash and restart *)

LEMMA ShellExitsCloses ==
  ASSUME ClosingInv, NEW c \in Command, ShellExits(c)
  PROVE  ClosingInv'
  BY ClosingFrameAll DEF ShellExits, store, memory, ClosingVars

(* What reconciliation writes over the journal of a run: nothing is undone,   *)
(* and what was completed or never begun stays so.                            *)
LEMMA ReconciledEffectsKeep ==
  ASSUME TypeOK, NEW c \in Command, NEW inspection, NEW gitProven,
         effect' = [effect EXCEPT ![c] = ReconciledEffects(c, inspection, gitProven)]
  PROVE  /\ \A k \in Kind : /\ effect'[c][k] \in {effect[c][k], "completed", "reconciliation_required"}
                            /\ effect'[c][k] # "intent"
                            /\ effect[c][k] # "intent" => effect'[c][k] = effect[c][k]
         /\ \A d \in Command \ {c} : effect'[d] = effect[d]
<1>1. effect'[c] = ReconciledEffects(c, inspection, gitProven)
      /\ \A d \in Command \ {c} : effect'[d] = effect[d]
  BY DEF TypeOK
<1>2. PICK after : after = ReconciledEffects(c, inspection, gitProven)
  OBVIOUS
<1>3. \A k \in Kind : /\ after[k] \in {effect[c][k], "completed", "reconciliation_required"}
                      /\ after[k] # "intent"
                      /\ effect[c][k] # "intent" => after[k] = effect[c][k]
  BY <1>2 DEF ReconciledEffects
<1>4. QED  BY <1>1, <1>2, <1>3

(* The effects of a closed execution survive reconciliation, whatever docker  *)
(* inspect says of its container.                                             *)
Reconciles(c) ==
  /\ \A k \in Kind : /\ effect'[c][k] \in {effect[c][k], "completed", "reconciliation_required"}
                     /\ effect[c][k] # "intent" => effect'[c][k] = effect[c][k]
  /\ run[c] = "running"
  /\ container'[c] \in {container[c], "removed"}
  /\ UNCHANGED <<execution, binding, outcome>>

LEMMA ReconciledRowCloses ==
  ASSUME Inv, NEW c \in Command, Closing(c), Reconciles(c),
         server' # "serving", ~managed'[c], c \notin slot', worker'[c] = "none",
         \A k \in Caller : stopper'[c][k] = "idle",
         run'[c] = "paused" => \A k \in Kind : effect'[c][k] \in {"none", "completed"}
  PROVE  Closing(c)'
<1>1. SlotRow(c)'
  BY DEF SlotRow
<1>2. StartRow(c)'
  <2>1. (execution'[c] = "absent" \/ worker'[c] = "setup") => run'[c] = "none"
    <3>1. execution[c] # "absent"
      BY DEF Closing, StartRow, Reconciles
    <3>2. QED  BY <3>1 DEF Reconciles
  <2>2. QED  BY <2>1 DEF StartRow
<1>3. JournalRow(c)'
  <2>1. \A k \in Kind : effect[c][k] # "none" => effect'[c][k] # "none"
    BY DEF Reconciles
  <2>2. binding[c] = "session" => /\ effect'[c]["container_start"] # "none"
                                  /\ effect'[c]["provider_response"] # "none"
    BY <2>1 DEF Closing, JournalRow, Kind
  <2>3. QED  BY <2>2 DEF JournalRow, Reconciles
<1>4. OwnerRow(c)'
  BY DEF OwnerRow, Caller
<1>5. ClosedRow(c)'
  <2>1. execution[c] # "succeeded"
    BY DEF Closing, ClosedRow, Reconciles
  <2>2. execution[c] = "paused" => Quiet(c)'
    <3>1. execution[c] = "paused" => Quiet(c)
      BY DEF Closing, ClosedRow
    <3>2. QED  BY <3>1 DEF Quiet, Reconciles, ControlKinds
  <2>3. run'[c] = "paused" => Quiet(c)'
    BY DEF Quiet, ControlKinds
  <2>4. QED  BY <2>1, <2>2, <2>3 DEF ClosedRow, Reconciles
<1>6. QED  BY <1>1, <1>2, <1>3, <1>4, <1>5 DEF Closing

LEMMA LosesSlots ==
  ASSUME slot' = {}
  PROVE  SlotsInUse'
<1>1. IsFiniteSet({}) /\ Cardinality({}) = 0 /\ CredentialLimit \in Nat
  BY FS_EmptySet, ConstantAssumption
<1>2. QED  BY <1>1 DEF SlotsInUse

(* The maps and slots of the process die with it; the rows stay. *)
LEMMA ForgottenRowCloses ==
  ASSUME Inv, ClosingInv, NEW c \in Command, LoseMemory,
         execution'[c] = execution[c], binding'[c] = binding[c], run'[c] = run[c],
         effect'[c] = effect[c], outcome'[c] = outcome[c], container'[c] = container[c]
  PROVE  Closing(c)'
<1>1. Closing(c)
  BY DEF ClosingInv
<1>2. /\ server' = "down" /\ worker'[c] = "none" /\ ~managed'[c] /\ c \notin slot'
      /\ \A k \in Caller : stopper'[c][k] = "idle"
  BY DEF LoseMemory
<1>3. SlotRow(c)' /\ StartRow(c)'
  BY <1>1, <1>2 DEF Closing, SlotRow, StartRow
<1>4. JournalRow(c)' /\ OwnerRow(c)'
  BY <1>1, <1>2 DEF Closing, JournalRow, OwnerRow, Caller
<1>5. ClosedRow(c)'
  BY <1>1, <1>2 DEF Closing, ClosedRow, Quiet
<1>6. QED  BY <1>3, <1>4, <1>5 DEF Closing

LEMMA CrashCloses ==
  ASSUME Inv, ClosingInv, Crash
  PROVE  ClosingInv'
<1>1. LoseMemory /\ UNCHANGED <<execution, binding, run, effect, outcome, container>>
  BY DEF Crash, store
<1>2. slot' = {}
  BY <1>1 DEF LoseMemory
<1>3. \A d \in Command : Closing(d)'
  BY <1>1, ForgottenRowCloses
<1>4. QED  BY <1>2, <1>3, LosesSlots DEF ClosingInv

LEMMA InterruptedCloses ==
  ASSUME Inv, ClosingInv, NEW c \in Command, ReconcileRunInterrupted(c)
  PROVE  ClosingInv'
<1>1. TypeOK /\ Closing(c)
  BY DEF Inv, ClosingInv
<1>2. PICK inspection, gitProven :
        /\ effect' = [effect EXCEPT ![c] = ReconciledEffects(c, inspection, gitProven)]
        /\ container' \in {container, [container EXCEPT ![c] =
                             IF inspection = "proven" THEN "removed" ELSE @]}
  BY DEF ReconcileRunInterrupted
<1>3. LoseMemory /\ run[c] = "running" /\ UNCHANGED <<execution, binding, run, outcome>>
  BY DEF ReconcileRunInterrupted
<1>4. /\ container'[c] \in {container[c], "removed"}
      /\ \A d \in Command \ {c} : container'[d] = container[d]
  BY <1>1, <1>2 DEF TypeOK
<1>5. Reconciles(c) /\ \A d \in Command \ {c} : effect'[d] = effect[d]
  BY <1>1, <1>2, <1>3, <1>4, ReconciledEffectsKeep DEF Reconciles
<1>6. Closing(c)'
  <2>1. /\ server' # "serving" /\ worker'[c] = "none" /\ ~managed'[c] /\ c \notin slot'
        /\ \A k \in Caller : stopper'[c][k] = "idle"
    BY <1>3 DEF LoseMemory
  <2>2. run'[c] # "paused"
    BY <1>3
  <2>3. QED  BY <1>1, <1>5, <2>1, <2>2, ReconciledRowCloses
<1>7. \A d \in Command \ {c} : Closing(d)'
  BY <1>3, <1>4, <1>5, ForgottenRowCloses
<1>8. slot' = {}
  BY <1>3 DEF LoseMemory
<1>9. QED  BY <1>6, <1>7, <1>8, LosesSlots DEF ClosingInv

LEMMA RestartCloses ==
  ASSUME Inv, ClosingInv, Restart
  PROVE  ClosingInv'
<1>1. /\ server = "down" /\ server' = "recovering"
      /\ UNCHANGED <<binding, run, effect, outcome, worker, managed, slot, stopper, container>>
  BY DEF Restart, outside
<1>2. ASSUME NEW c \in Command  PROVE Closing(c)'
  <2>1. Closing(c) /\ c \notin slot /\ ~managed[c]
    BY <1>1 DEF ClosingInv, Closing, StartRow, Serving
  <2>2. execution'[c] = IF execution[c] \in Active THEN "stopping" ELSE execution[c]
    BY DEF Restart
  <2>3. SlotRow(c)' /\ StartRow(c)'
    BY <1>1, <2>1, <2>2 DEF Closing, SlotRow, StartRow, Serving
  <2>4. JournalRow(c)' /\ OwnerRow(c)'
    BY <1>1, <2>1, <2>2 DEF Closing, JournalRow, OwnerRow
  <2>5. ClosedRow(c)'
    BY <1>1, <2>1, <2>2 DEF Closing, ClosedRow, Quiet
  <2>6. QED  BY <2>3, <2>4, <2>5 DEF Closing
<1>3. QED  BY <1>1, <1>2 DEF ClosingInv, SlotsInUse

(* A run is paused only when every effect of it is completed or never began. *)
LEMMA ReconcileRunCloses ==
  ASSUME Inv, ClosingInv, NEW c \in Command, ReconcileRun(c)
  PROVE  ClosingInv'
<1>1. TypeOK /\ Coherent(c) /\ Closing(c)
  BY DEF Inv, ClosingInv
<1>2. PICK inspection, gitProven :
        /\ effect' = [effect EXCEPT ![c] = ReconciledEffects(c, inspection, gitProven)]
        /\ container' = [container EXCEPT ![c] = IF inspection = "proven" THEN "removed" ELSE @]
        /\ run' = [run EXCEPT ![c] =
             IF Ambiguous(c, inspection, ReconciledEffects(c, inspection, gitProven))
             THEN "reconciliation_required" ELSE "paused"]
  BY DEF ReconcileRun
<1>3. /\ server = "recovering" /\ run[c] = "running"
      /\ UNCHANGED <<execution, binding, outcome, server, worker, managed, slot, stopper>>
  BY DEF ReconcileRun, memory
<1>4. /\ container'[c] \in {container[c], "removed"}
      /\ \A d \in Command \ {c} : container'[d] = container[d] /\ run'[d] = run[d]
  BY <1>1, <1>2 DEF TypeOK
<1>5. /\ \A k \in Kind : /\ effect'[c][k] \in {effect[c][k], "completed", "reconciliation_required"}
                         /\ effect'[c][k] # "intent"
                         /\ effect[c][k] # "intent" => effect'[c][k] = effect[c][k]
      /\ \A d \in Command \ {c} : effect'[d] = effect[d]
  BY <1>1, <1>2, ReconciledEffectsKeep
<1>6. Reconciles(c)
  BY <1>3, <1>4, <1>5 DEF Reconciles
<1>7. run'[c] = "paused" => \A k \in Kind : effect'[c][k] \in {"none", "completed"}
  <2>1. HAVE run'[c] = "paused"
  <2>2. ~Ambiguous(c, inspection, effect'[c])
    BY <1>1, <1>2, <2>1 DEF TypeOK
  <2>3. \A k \in Kind : effect'[c][k] # "reconciliation_required"
    BY <2>2 DEF Ambiguous
  <2>4. \A k \in Kind : effect[c][k] \in EffectState
    BY <1>1 DEF TypeOK
  <2>5. QED  BY <1>5, <2>3, <2>4 DEF EffectState
<1>8. /\ server' # "serving" /\ worker'[c] = "none" /\ ~managed'[c] /\ c \notin slot'
      /\ \A k \in Caller : stopper'[c][k] = "idle"
  BY <1>1, <1>3 DEF Coherent, Closing, StartRow, Serving
<1>9. Closing(c)'
  BY <1>1, <1>6, <1>7, <1>8, ReconciledRowCloses
<1>10. OnlyClosing(c) /\ SlotsInUse' /\ server' = server
  BY <1>3, <1>4, <1>5 DEF OnlyClosing, SameClosing, ClosingInv, SlotsInUse
<1>11. QED  BY <1>9, <1>10, ClosingFrameOne

LEMMA FinishRecoveryCloses ==
  ASSUME Inv, ClosingInv, FinishRecovery
  PROVE  ClosingInv'
<1>1. /\ server = "recovering" /\ server' = "serving"
      /\ UNCHANGED <<binding, run, effect, outcome, worker, managed, slot, stopper, container>>
  BY DEF FinishRecovery, outside
<1>2. ASSUME NEW c \in Command  PROVE Closing(c)'
  <2>1. /\ Closing(c) /\ c \notin slot /\ ~managed[c] /\ worker[c] = "none"
        /\ \A k \in Caller : stopper[c][k] = "idle"
    BY <1>1 DEF ClosingInv, Closing, StartRow, Serving, Inv, Coherent
  <2>2. execution'[c] = IF execution[c] \in NonTerminal THEN RestartState(c) ELSE execution[c]
    BY DEF FinishRecovery
  <2>3. \/ execution'[c] = execution[c]
        \/ /\ execution[c] # "absent" /\ execution'[c] \in {"failed", "paused", "reconciliation_required"}
           /\ execution'[c] = "paused" => run[c] = "paused"
    BY <2>2 DEF RestartState, NonTerminal, Active
  <2>4. SlotRow(c)' /\ StartRow(c)'
    BY <1>1, <2>1, <2>3 DEF Closing, SlotRow, StartRow, Serving
  <2>5. JournalRow(c)' /\ OwnerRow(c)'
    BY <1>1, <2>1 DEF Closing, JournalRow, OwnerRow, Caller
  <2>6. ClosedRow(c)'
    BY <1>1, <2>1, <2>3 DEF Closing, ClosedRow, Quiet
  <2>7. QED  BY <2>4, <2>5, <2>6 DEF Closing
<1>3. QED  BY <1>1, <1>2 DEF ClosingInv, SlotsInUse

-----------------------------------------------------------------------------
(* What follows *)

LEMMA InitCloses ==
  ASSUME Init
  PROVE  ClosingInv
<1>1. SlotsInUse
  <2>1. slot = {}
    BY DEF Init
  <2>2. IsFiniteSet({}) /\ Cardinality({}) = 0 /\ CredentialLimit \in Nat
    BY FS_EmptySet, ConstantAssumption
  <2>3. QED  BY <2>1, <2>2 DEF SlotsInUse
<1>2. ASSUME NEW c \in Command  PROVE Closing(c)
  BY DEF Init, Closing, SlotRow, StartRow, JournalRow, OwnerRow, ClosedRow, Caller
<1>3. QED  BY <1>1, <1>2 DEF ClosingInv

LEMMA NextCloses ==
  ASSUME Inv, Inv', ClosingInv, Next
  PROVE  ClosingInv'
<1>1. CASE QueueStep
  BY <1>1, QueueCloses
<1>2. ASSUME NEW c \in Command,
             StartTask(c) \/ AgentStep(c) \/ PromptStep(c) \/ OwnerStep(c) \/ ShellExits(c)
      PROVE  ClosingInv'
  BY <1>2, StartCloses, AgentCloses, PromptCloses, OwnerStepCloses, ShellExitsCloses
<1>3. ASSUME NEW c \in Command, NEW k \in Caller, StopStepOf(c, k)  PROVE ClosingInv'
  BY <1>3, StopCloses
<1>4. CASE Crash
  BY <1>4, CrashCloses
<1>5. ASSUME NEW c \in Command, ReconcileRunInterrupted(c)  PROVE ClosingInv'
  BY <1>5, InterruptedCloses
<1>6. CASE RecoveryStep
  BY <1>6, RestartCloses, ReconcileRunCloses, FinishRecoveryCloses DEF RecoveryStep
<1>7. QED  BY <1>1, <1>2, <1>3, <1>4, <1>5, <1>6 DEF Next

(* Journal, sessions map, credential slots and both callers of stopSession    *)
(* fit together at every await and after every crash.                         *)
THEOREM ClosingInvariance == Spec => []ClosingInv
<1>1. Init => ClosingInv
  BY InitCloses
<1>2. Inv /\ Inv' /\ ClosingInv /\ [Next]_vars => ClosingInv'
  <2>1. UNCHANGED vars => UNCHANGED ClosingVars
    BY DEF vars, store, memory, outside, ClosingVars
  <2>2. QED  BY <2>1, NextCloses, ClosingFrameAll
<1>3. QED  BY <1>1, <1>2, Invariance, PTL DEF Spec

(* A paused or succeeded execution has no start, response or stop in doubt    *)
(* and no credential slot; success means outcome, removed container, stopped  *)
(* run and a complete journal, however stop, owner, crash and restart race.   *)
THEOREM SettlementCloses == Spec => []SettledIsClosed
<1>1. ClosingInv => SettledIsClosed
  BY DEF ClosingInv, Closing, SlotRow, ClosedRow, Quiet, SettledIsClosed, NonTerminal, Active
<1>2. QED  BY <1>1, ClosingInvariance, PTL

(* The limit of the credential profile holds for any number of concurrent     *)
(* starts, and a slot is held only by an execution that is not settled or     *)
(* whose cleanup could not be proven.                                         *)
THEOREM SlotsReturned == Spec => []CredentialSlotsReturned
<1>1. Inv /\ ClosingInv => CredentialSlotsReturned
  BY DEF Inv, TypeOK, ClosingInv, SlotsInUse, Closing, SlotRow, CredentialSlotsReturned
<1>2. QED  BY <1>1, Invariance, ClosingInvariance, PTL
===============================================================================
