--------------------- MODULE CommandExecutionAuthority_proofs ---------------------
(* What one step may do to one command, for every size of the installation,   *)
(* and what follows: settlement is final, a stopped execution never succeeds, *)
(* a claim keeps its lease, and CommandExecution implements the authority     *)
(* contract of ExecutionAuthority.                                            *)
EXTENDS CommandExecution_proofs

Waiting == {"absent", "queued", "claimed"}

(* The transitions of the execution row: success only from a stop that began  *)
(* without a receipt and with the outcome recorded.                           *)
ExecutionStep(d) ==
  \/ execution'[d] = execution[d]
  \/ execution[d] = "absent" /\ command[d] = "claimed" /\ execution'[d] \in {"starting", "failed"}
  \/ execution[d] \in Active /\ execution'[d] \in {"running", "stopping"}
  \/ execution[d] \in NonTerminal /\ execution'[d] \in Terminal \ {"succeeded"}
  \/ /\ execution[d] = "stopping" /\ execution'[d] = "succeeded"
     /\ outcome[d] /\ receipt[d] = "none"
  \/ execution[d] = "reconciliation_required" /\ execution'[d] = "cancelled"

OutcomeStep(d) ==
  \/ outcome'[d] = outcome[d]
  \/ execution[d] \in Active /\ execution'[d] = execution[d] /\ outcome'[d] = TRUE

ReceiptStep(d) ==
  receipt'[d] = receipt[d] \/ execution'[d] \in {"stopping", "cancelled"}

WithdrawnStep(d) ==
  execution'[d] = "absent" /\ command[d] \notin Waiting => command'[d] \notin Waiting

ClaimStep(d) ==
  command'[d] = "claimed" =>
    \/ /\ command[d] = "claimed" /\ holder'[d] = holder[d]
       /\ \A l \in Lease : l = holder[d] => lease'[l] = lease[l]
    \/ \E l \in Lease : holder'[d] = l /\ lease'[l] = "active"

Step(d) ==
  ExecutionStep(d) /\ OutcomeStep(d) /\ ReceiptStep(d) /\ WithdrawnStep(d) /\ ClaimStep(d)

(* Nothing Step speaks of changes. *)
Still(d) ==
  /\ execution'[d] = execution[d] /\ command'[d] = command[d]
  /\ outcome'[d] = outcome[d] /\ receipt'[d] = receipt[d]
  /\ holder'[d] = holder[d] /\ lease' = lease

LEMMA StillSteps ==
  ASSUME NEW d \in Command, Still(d)
  PROVE  Step(d)
  BY DEF Still, Step, ExecutionStep, OutcomeStep, ReceiptStep, WithdrawnStep, ClaimStep

LEMMA NothingMoves ==
  ASSUME UNCHANGED <<execution, command, outcome, receipt, holder, lease>>
  PROVE  \A d \in Command : Step(d)
<1>1. ASSUME NEW d \in Command  PROVE Step(d)
  BY StillSteps DEF Still
<1>2. QED  BY <1>1

(* An execution that settles in another state than succeeded. *)
LEMMA SettleSteps ==
  ASSUME TypeOK, NEW c \in Command, Coherent(c), NEW state \in Terminal,
         SettleExecution(c, state),
         execution[c] \in NonTerminal,
         state = "succeeded" =>
           execution[c] = "stopping" /\ outcome[c] /\ receipt[c] = "none",
         UNCHANGED <<outcome, receipt, holder, lease>>
  PROVE  \A d \in Command : Step(d)
<1>1. /\ execution'[c] = state /\ command'[c] = state
      /\ \A d \in Command \ {c} : /\ execution'[d] = execution[d]
                                 /\ command'[d] = command[d]
  BY SettleRow
<1>2. ASSUME NEW d \in Command \ {c}  PROVE Step(d)
  BY <1>1, StillSteps DEF Still
<1>3. Step(c)
  <2>1. ExecutionStep(c)
    BY <1>1 DEF ExecutionStep
  <2>2. OutcomeStep(c) /\ ReceiptStep(c)
    BY DEF OutcomeStep, ReceiptStep
  <2>3. WithdrawnStep(c) /\ ClaimStep(c)
    BY <1>1 DEF WithdrawnStep, ClaimStep, Terminal
  <2>4. QED  BY <2>1, <2>2, <2>3 DEF Step
<1>4. QED  BY <1>2, <1>3

LEMMA ReturnsSteps ==
  ASSUME TypeOK, NEW c \in Command, Coherent(c), NEW error \in Error, NEW effects,
         ExecuteTaskPhaseReturns(c, error, effects),
         Serving, worker[c] \notin {"none", "stopping"},
         error = "none" => binding[c] = "session",
         UNCHANGED <<outcome, receipt, holder, lease>>
  PROVE  \A d \in Command : Step(d)
<1>1. execution[c] \in NonTerminal
  BY DEF Coherent
<1>2. CASE binding[c] = "session" /\ managed[c]
  <2>1. /\ execution' = [execution EXCEPT ![c] = "stopping"] /\ UNCHANGED command
    BY <1>2 DEF ExecuteTaskPhaseReturns
  <2>2. /\ execution'[c] = "stopping" /\ command'[c] = command[c]
        /\ \A d \in Command \ {c} : /\ execution'[d] = execution[d]
                                   /\ command'[d] = command[d]
    BY <2>1 DEF TypeOK
  <2>3. ASSUME NEW d \in Command \ {c}  PROVE Step(d)
    BY <2>2, StillSteps DEF Still
  <2>4. ExecutionStep(c)
    BY <1>1, <2>2 DEF ExecutionStep, NonTerminal
  <2>5. OutcomeStep(c) /\ ReceiptStep(c) /\ WithdrawnStep(c)
    BY <2>2 DEF OutcomeStep, ReceiptStep, WithdrawnStep
  <2>6. ClaimStep(c)
    BY <2>2 DEF ClaimStep
  <2>7. QED  BY <2>3, <2>4, <2>5, <2>6 DEF Step
<1>3. CASE binding[c] = "session" /\ ~managed[c]
  <2>1. SettleExecution(c, "reconciliation_required")
    BY <1>3 DEF ExecuteTaskPhaseReturns
  <2>2. QED  BY <1>1, <2>1, SettleSteps DEF Terminal
<1>4. CASE binding[c] # "session"
  <2>1. SettleExecution(c, SettlementState(c, error, effects))
    BY <1>4 DEF ExecuteTaskPhaseReturns
  <2>2. /\ SettlementState(c, error, effects) \in Terminal
        /\ SettlementState(c, error, effects) # "succeeded"
    BY <1>4, SettlementIsTerminal
  <2>3. QED  BY <1>1, <2>1, <2>2, SettleSteps
<1>5. QED  BY <1>2, <1>3, <1>4

-----------------------------------------------------------------------------
(* The steps of Next, by component *)

LEMMA QueueSteps ==
  ASSUME Inv, QueueStep
  PROVE  \A d \in Command : Step(d)
<1>1. TypeOK /\ \A c \in Command : Coherent(c)
  BY DEF Inv
<1>2. ASSUME NEW l \in Lease, RegisterProjectOrchestrator(l)
      PROVE  \A d \in Command : Step(d)
  <2>1. /\ lease' = [lease EXCEPT ![l] = "active"] /\ lease[l] = "none"
        /\ UNCHANGED <<execution, command, outcome, receipt, holder>>
    BY <1>2 DEF RegisterProjectOrchestrator, rest_of_queue
  <2>2. ASSUME NEW d \in Command  PROVE ClaimStep(d)
    BY <1>1, <2>1 DEF ClaimStep, TypeOK
  <2>3. ASSUME NEW d \in Command
        PROVE  ExecutionStep(d) /\ OutcomeStep(d) /\ ReceiptStep(d) /\ WithdrawnStep(d)
    BY <2>1 DEF ExecutionStep, OutcomeStep, ReceiptStep, WithdrawnStep
  <2>4. QED  BY <2>2, <2>3 DEF Step
<1>3. ASSUME NEW l \in Lease, ExpireOrchestratorLease(l)
      PROVE  \A d \in Command : Step(d)
  <2>1. /\ lease' = [lease EXCEPT ![l] = "expired"]
        /\ UNCHANGED <<execution, outcome, receipt, holder>>
        /\ \A d \in Command : command'[d] = IF command[d] = "claimed" /\ holder[d] = l
                                            THEN "reconciliation_required" ELSE command[d]
    BY <1>3 DEF ExpireOrchestratorLease, ReconcileClaimedCommands, rest_of_queue
  <2>2. ASSUME NEW d \in Command  PROVE ClaimStep(d)
    BY <1>1, <2>1 DEF ClaimStep, TypeOK
  <2>3. ASSUME NEW d \in Command
        PROVE  ExecutionStep(d) /\ OutcomeStep(d) /\ ReceiptStep(d) /\ WithdrawnStep(d)
    BY <2>1 DEF ExecutionStep, OutcomeStep, ReceiptStep, WithdrawnStep, Waiting
  <2>4. QED  BY <2>2, <2>3 DEF Step
<1>4. ASSUME NEW l \in Lease, ReleaseProjectOrchestrator(l)
      PROVE  \A d \in Command : Step(d)
  <2>1. /\ lease' = [lease EXCEPT ![l] = "released"]
        /\ UNCHANGED <<execution, outcome, receipt, holder>>
        /\ \A d \in Command : command'[d] = IF command[d] = "claimed" /\ holder[d] = l
                                            THEN "reconciliation_required" ELSE command[d]
    BY <1>4 DEF ReleaseProjectOrchestrator, ReconcileClaimedCommands, rest_of_queue
  <2>2. ASSUME NEW d \in Command  PROVE ClaimStep(d)
    BY <1>1, <2>1 DEF ClaimStep, TypeOK
  <2>3. ASSUME NEW d \in Command
        PROVE  ExecutionStep(d) /\ OutcomeStep(d) /\ ReceiptStep(d) /\ WithdrawnStep(d)
    BY <2>1 DEF ExecutionStep, OutcomeStep, ReceiptStep, WithdrawnStep, Waiting
  <2>4. QED  BY <2>2, <2>3 DEF Step
<1>5. ASSUME NEW c \in Command, EnqueueOrchestratorCommand(c)
      PROVE  \A d \in Command : Step(d)
  <2>1. /\ command' = [command EXCEPT ![c] = "queued"]
        /\ command[c] = "absent"
        /\ UNCHANGED <<execution, outcome, receipt, holder, lease>>
    BY <1>5 DEF EnqueueOrchestratorCommand, rest_of_queue, memory
  <2>2. /\ command'[c] = "queued"
        /\ \A d \in Command \ {c} : command'[d] = command[d]
    BY <1>1, <2>1 DEF TypeOK
  <2>3. ASSUME NEW d \in Command \ {c}  PROVE Step(d)
    BY <2>1, <2>2, StillSteps DEF Still
  <2>4. ExecutionStep(c) /\ OutcomeStep(c) /\ ReceiptStep(c)
    BY <1>1, <2>1, <2>2 DEF ExecutionStep, OutcomeStep, ReceiptStep
  <2>5. WithdrawnStep(c) /\ ClaimStep(c)
    BY <1>1, <2>1, <2>2 DEF WithdrawnStep, ClaimStep, Waiting
  <2>6. QED  BY <2>3, <2>4, <2>5 DEF Step
<1>6. ASSUME NEW c \in Command, ResetOrchestratorCommand(c)
      PROVE  \A d \in Command : Step(d)
  <2>1. /\ command' = [command EXCEPT ![c] = "cancelled"]
        /\ UNCHANGED <<execution, outcome, receipt, holder, lease>>
    BY <1>6 DEF ResetOrchestratorCommand, rest_of_queue, memory
  <2>2. /\ command'[c] = "cancelled"
        /\ \A d \in Command \ {c} : command'[d] = command[d]
    BY <1>1, <2>1 DEF TypeOK
  <2>3. ASSUME NEW d \in Command \ {c}  PROVE Step(d)
    BY <2>1, <2>2, StillSteps DEF Still
  <2>4. ExecutionStep(c) /\ OutcomeStep(c) /\ ReceiptStep(c)
    BY <1>1, <2>1, <2>2 DEF ExecutionStep, OutcomeStep, ReceiptStep
  <2>5. WithdrawnStep(c) /\ ClaimStep(c)
    BY <1>1, <2>1, <2>2 DEF WithdrawnStep, ClaimStep, Waiting
  <2>6. QED  BY <2>3, <2>4, <2>5 DEF Step
<1>7. ASSUME NEW l \in Lease, NEW c \in Command, ClaimOrchestratorCommand(l, c)
      PROVE  \A d \in Command : Step(d)
  <2>1. /\ command' = [command EXCEPT ![c] = "claimed"]
        /\ holder' = [holder EXCEPT ![c] = l]
        /\ command[c] = "queued" /\ lease[l] = "active"
        /\ UNCHANGED <<execution, outcome, receipt, lease>>
    BY <1>7 DEF ClaimOrchestratorCommand, rest_of_queue, memory
  <2>2. /\ command'[c] = "claimed" /\ holder'[c] = l
        /\ \A d \in Command \ {c} : command'[d] = command[d] /\ holder'[d] = holder[d]
    BY <1>1, <2>1 DEF TypeOK
  <2>3. ASSUME NEW d \in Command \ {c}  PROVE Step(d)
    BY <2>1, <2>2, StillSteps DEF Still
  <2>4. ExecutionStep(c) /\ OutcomeStep(c) /\ ReceiptStep(c)
    BY <1>1, <2>1, <2>2 DEF ExecutionStep, OutcomeStep, ReceiptStep
  <2>5. WithdrawnStep(c) /\ ClaimStep(c)
    BY <1>1, <2>1, <2>2 DEF WithdrawnStep, ClaimStep, Waiting
  <2>6. QED  BY <2>3, <2>4, <2>5 DEF Step
<1>8. ASSUME NEW l \in Lease, NEW c \in Command,
             NEW state \in {"succeeded", "failed"}, CompleteOrchestratorCommand(l, c, state)
      PROVE  \A d \in Command : Step(d)
  <2>1. /\ command' = [command EXCEPT ![c] = state]
        /\ UNCHANGED <<execution, outcome, receipt, holder, lease>>
    BY <1>8 DEF CompleteOrchestratorCommand, rest_of_queue, memory
  <2>2. /\ command'[c] = state
        /\ \A d \in Command \ {c} : command'[d] = command[d]
    BY <1>1, <2>1 DEF TypeOK
  <2>3. ASSUME NEW d \in Command \ {c}  PROVE Step(d)
    BY <2>1, <2>2, StillSteps DEF Still
  <2>4. ExecutionStep(c) /\ OutcomeStep(c) /\ ReceiptStep(c)
    BY <1>1, <2>1, <2>2 DEF ExecutionStep, OutcomeStep, ReceiptStep
  <2>5. WithdrawnStep(c) /\ ClaimStep(c)
    BY <1>1, <2>1, <2>2 DEF WithdrawnStep, ClaimStep, Waiting
  <2>6. QED  BY <2>3, <2>4, <2>5 DEF Step
<1>9. ASSUME NEW l \in Lease, NEW c \in Command, AcceptCommandExecution(l, c)
      PROVE  \A d \in Command : Step(d)
  <2>1. UNCHANGED <<outcome, receipt, holder, lease>>
    BY <1>9 DEF AcceptCommandExecution, queue
  <2>2. CASE ReplayAcceptance(c)
    BY <2>1, <2>2, NothingMoves DEF ReplayAcceptance
  <2>3. CASE FirstAcceptance(c)
    <3>1. PICK row \in {"running", "failed"}, state \in {"starting", "failed"} :
            /\ execution' = [execution EXCEPT ![c] = state]
            /\ command' = [command EXCEPT ![c] = row]
      BY <2>3 DEF FirstAcceptance, SettleExecution
    <3>2. /\ execution[c] = "absent" /\ command[c] = "claimed"
          /\ execution'[c] = state /\ command'[c] = row
          /\ \A d \in Command \ {c} : /\ execution'[d] = execution[d]
                                     /\ command'[d] = command[d]
      BY <1>1, <2>3, <3>1 DEF TypeOK, FirstAcceptance, Accepted
    <3>3. ASSUME NEW d \in Command \ {c}  PROVE Step(d)
      BY <2>1, <3>2, StillSteps DEF Still
    <3>4. Step(c)
      BY <2>1, <3>2 DEF Step, ExecutionStep, OutcomeStep, ReceiptStep, WithdrawnStep,
          ClaimStep, Waiting
    <3>5. QED  BY <3>3, <3>4
  <2>4. QED  BY <1>9, <2>2, <2>3 DEF AcceptCommandExecution
<1>10. QED
  BY <1>2, <1>3, <1>4, <1>5, <1>6, <1>7, <1>8, <1>9 DEF QueueStep

LEMMA StartSteps ==
  ASSUME Inv, NEW c \in Command, StartTask(c)
  PROVE  \A d \in Command : Step(d)
<1>1. TypeOK /\ Coherent(c)
  BY DEF Inv
<1>2. CASE WorkspaceCreated(c)
  <2>1. CASE AssertExecutionGeneration(c) /\ CredentialSlotFree
    BY <1>2, <2>1, NothingMoves DEF WorkspaceCreated, untouched_by_start, queue
  <2>2. CASE ~(AssertExecutionGeneration(c) /\ CredentialSlotFree)
    <3>1. PICK error \in {"failed", "uncertain"} : ExecuteTaskPhaseReturns(c, error, effect[c])
      BY <1>2, <2>2 DEF WorkspaceCreated
    <3>2. /\ Serving /\ worker[c] = "setup"
          /\ UNCHANGED <<outcome, receipt, holder, lease>>
      BY <1>2 DEF WorkspaceCreated, untouched_by_start, queue
    <3>3. QED  BY <1>1, <3>1, <3>2, ReturnsSteps DEF Error
  <2>3. QED  BY <2>1, <2>2
<1>3. CASE WorkspaceFails(c)
  <2>1. PICK error, effects : /\ error \in Error
                              /\ ExecuteTaskPhaseReturns(c, error, effects)
                              /\ error = "none" => worker[c] = "wrapup"
    BY <1>3 DEF WorkspaceFails, Error
  <2>2. /\ Serving /\ worker[c] \notin {"none", "stopping"}
        /\ UNCHANGED <<outcome, receipt, holder, lease>>
    BY <1>3 DEF WorkspaceFails, untouched_by_start, queue
  <2>3. error = "none" => binding[c] = "session"
    BY <1>1, <2>1 DEF Coherent
  <2>4. QED  BY <1>1, <2>1, <2>2, <2>3, ReturnsSteps
<1>4. CASE CredentialMaterialized(c)
  BY <1>4, NothingMoves DEF CredentialMaterialized, untouched_by_start, queue
<1>5. CASE CredentialRejected(c)
  <2>1. PICK error, effects : /\ error \in Error
                              /\ ExecuteTaskPhaseReturns(c, error, effects)
                              /\ error = "none" => worker[c] = "wrapup"
    BY <1>5 DEF CredentialRejected, Error
  <2>2. /\ Serving /\ worker[c] \notin {"none", "stopping"}
        /\ UNCHANGED <<outcome, receipt, holder, lease>>
    BY <1>5 DEF CredentialRejected, untouched_by_start, queue
  <2>3. error = "none" => binding[c] = "session"
    BY <1>1, <2>1 DEF Coherent
  <2>4. QED  BY <1>1, <2>1, <2>2, <2>3, ReturnsSteps
<1>6. CASE DockerCreates(c)
  BY <1>6, NothingMoves DEF DockerCreates, store
<1>7. CASE ContainerStarted(c)
  BY <1>7, NothingMoves DEF ContainerStarted, untouched_by_start, queue
<1>8. CASE StartFails(c)
  BY <1>8, NothingMoves DEF StartFails, store
<1>9. CASE PiReady(c)
  <2>1. UNCHANGED <<command, outcome, receipt, holder, lease>>
    BY <1>9 DEF PiReady, queue
  <2>2. CASE AssertExecutionGeneration(c)
    <3>1. execution[c] \in Active /\ execution' = [execution EXCEPT ![c] = "running"]
      BY <1>9, <2>2 DEF PiReady, AssertExecutionGeneration
    <3>2. /\ execution'[c] = "running"
          /\ \A d \in Command \ {c} : execution'[d] = execution[d]
      BY <1>1, <3>1 DEF TypeOK
    <3>3. ASSUME NEW d \in Command \ {c}  PROVE Step(d)
      BY <2>1, <3>2, StillSteps DEF Still
    <3>4. Step(c)
      BY <2>1, <3>1, <3>2 DEF Step, ExecutionStep, OutcomeStep, ReceiptStep,
          WithdrawnStep, ClaimStep
    <3>5. QED  BY <3>3, <3>4
  <2>3. CASE ~AssertExecutionGeneration(c)
    BY <1>9, <2>1, <2>3, NothingMoves DEF PiReady
  <2>4. QED  BY <2>2, <2>3
<1>10. CASE UndoStart(c)
  <2>1. PICK error, effects : /\ error \in Error
                              /\ ExecuteTaskPhaseReturns(c, error, effects)
                              /\ error = "none" => worker[c] = "wrapup"
    BY <1>10 DEF UndoStart, Error
  <2>2. /\ Serving /\ worker[c] \notin {"none", "stopping"}
        /\ UNCHANGED <<outcome, receipt, holder, lease>>
    BY <1>10 DEF UndoStart, untouched_by_start, queue
  <2>3. error = "none" => binding[c] = "session"
    BY <1>1, <2>1 DEF Coherent
  <2>4. QED  BY <1>1, <2>1, <2>2, <2>3, ReturnsSteps
<1>11. QED
  BY <1>2, <1>3, <1>4, <1>5, <1>6, <1>7, <1>8, <1>9, <1>10 DEF StartTask

LEMMA AgentSteps ==
  ASSUME Inv, NEW c \in Command, AgentStep(c)
  PROVE  \A d \in Command : Step(d)
<1>1. TypeOK /\ Coherent(c)
  BY DEF Inv
<1>2. CASE RecordPhaseOutcome(c)
  <2>1. /\ outcome' = [outcome EXCEPT ![c] = TRUE]
        /\ execution[c] \in Active
        /\ UNCHANGED <<command, execution, receipt, holder, lease>>
    BY <1>2 DEF RecordPhaseOutcome, AuthorizeCapability, AssertExecutionGeneration
  <2>2. /\ outcome'[c] = TRUE
        /\ \A d \in Command \ {c} : outcome'[d] = outcome[d]
    BY <1>1, <2>1 DEF TypeOK
  <2>3. ASSUME NEW d \in Command \ {c}  PROVE Step(d)
    BY <2>1, <2>2, StillSteps DEF Still
  <2>4. ExecutionStep(c) /\ OutcomeStep(c) /\ ReceiptStep(c)
    BY <1>1, <2>1, <2>2 DEF ExecutionStep, OutcomeStep, ReceiptStep
  <2>5. WithdrawnStep(c) /\ ClaimStep(c)
    BY <1>1, <2>1, <2>2 DEF WithdrawnStep, ClaimStep, Waiting
  <2>6. QED  BY <2>3, <2>4, <2>5 DEF Step
<1>3. CASE AuthorizeGitCheckpoint(c)
  BY <1>3, NothingMoves DEF AuthorizeGitCheckpoint, store
<1>4. CASE JournalGitCheckpoint(c)
  BY <1>4, NothingMoves DEF JournalGitCheckpoint
<1>5. CASE FinishGitCheckpoint(c)
  BY <1>5, NothingMoves DEF FinishGitCheckpoint
<1>6. QED
  BY <1>2, <1>3, <1>4, <1>5 DEF AgentStep

LEMMA PromptSteps ==
  ASSUME Inv, NEW c \in Command, PromptStep(c)
  PROVE  \A d \in Command : Step(d)
<1>1. TypeOK /\ Coherent(c)
  BY DEF Inv
<1>2. CASE PromptSettles(c)
  BY <1>2, NothingMoves DEF PromptSettles, store
<1>3. CASE PromptFails(c)
  <2>1. PICK error, effects : /\ error \in Error
                              /\ ExecuteTaskPhaseReturns(c, error, effects)
                              /\ error = "none" => worker[c] = "wrapup"
    BY <1>3 DEF PromptFails, Error
  <2>2. /\ Serving /\ worker[c] \notin {"none", "stopping"}
        /\ UNCHANGED <<outcome, receipt, holder, lease>>
    BY <1>3 DEF PromptFails, untouched_by_phase, queue
  <2>3. error = "none" => binding[c] = "session"
    BY <1>1, <2>1 DEF Coherent
  <2>4. QED  BY <1>1, <2>1, <2>2, <2>3, ReturnsSteps
<1>4. CASE PhaseEnds(c)
  <2>1. PICK error, effects : /\ error \in Error
                              /\ ExecuteTaskPhaseReturns(c, error, effects)
                              /\ error = "none" => worker[c] = "wrapup"
    BY <1>4 DEF PhaseEnds, Error
  <2>2. /\ Serving /\ worker[c] \notin {"none", "stopping"}
        /\ UNCHANGED <<outcome, receipt, holder, lease>>
    BY <1>4 DEF PhaseEnds, untouched_by_phase, queue
  <2>3. error = "none" => binding[c] = "session"
    BY <1>1, <2>1 DEF Coherent
  <2>4. QED  BY <1>1, <2>1, <2>2, <2>3, ReturnsSteps
<1>5. QED
  BY <1>2, <1>3, <1>4 DEF PromptStep

LEMMA StopSteps ==
  ASSUME Inv, NEW c \in Command, NEW k \in Caller, StopStepOf(c, k)
  PROVE  \A d \in Command : Step(d)
<1>1. TypeOK /\ Coherent(c)
  BY DEF Inv
<1>2. CASE ProcessesExit(c, k)
  BY <1>2, NothingMoves DEF ProcessesExit
<1>3. CASE ContainerRemoved(c, k)
  BY <1>3, NothingMoves DEF ContainerRemoved
<1>4. CASE StopFails(c, k)
  <2>1. /\ Serving /\ stopper[c][k] # "idle"
        /\ UNCHANGED <<outcome, receipt, holder, lease>>
    BY <1>4 DEF StopFails, untouched_by_stop, queue
  <2>2. CASE k = "worker"
    <3>1. /\ worker[c] = "stopping" /\ execution[c] = "stopping"
          /\ caught[c] = "none" => outcome[c]
      BY <1>1, <2>1, <2>2 DEF Coherent
    <3>2. SettleExecution(c, "reconciliation_required")
      BY <1>4, <2>2 DEF StopFails
    <3>3. QED  BY <1>1, <2>1, <3>1, <3>2, SettleSteps DEF Terminal, NonTerminal
  <2>3. CASE k = "owner"
    BY <1>4, <2>1, <2>3, NothingMoves DEF StopFails
  <2>4. QED  BY <2>2, <2>3 DEF Caller
<1>5. CASE FinishStop(c, k)
  <2>1. /\ Serving /\ stopper[c][k] # "idle"
        /\ UNCHANGED <<outcome, receipt, holder, lease>>
    BY <1>5 DEF FinishStop, untouched_by_stop, queue
  <2>2. CASE k = "worker"
    <3>1. /\ worker[c] = "stopping" /\ execution[c] = "stopping"
          /\ caught[c] = "none" => outcome[c]
      BY <1>1, <2>1, <2>2 DEF Coherent
    <3>2. SettleExecution(c, SettlementState(c, caught[c], effect[c]))
      BY <1>5, <2>2 DEF FinishStop
    <3>3. caught[c] \in Error
      BY <1>1 DEF TypeOK, Error
    <3>4. /\ SettlementState(c, caught[c], effect[c]) \in Terminal
          /\ SettlementState(c, caught[c], effect[c]) = "succeeded" =>
               outcome[c] /\ receipt[c] = "none"
      BY <1>1, <3>1, <3>3, SettlementIsTerminal
    <3>5. QED  BY <1>1, <2>1, <3>1, <3>2, <3>4, SettleSteps DEF NonTerminal
  <2>3. CASE k = "owner"
    BY <1>5, <2>1, <2>3, NothingMoves DEF FinishStop
  <2>4. QED  BY <2>2, <2>3 DEF Caller
<1>6. QED
  BY <1>2, <1>3, <1>4, <1>5 DEF StopStepOf

LEMMA OwnerSteps ==
  ASSUME Inv, NEW c \in Command, OwnerStep(c)
  PROVE  \A d \in Command : Step(d)
<1>1. TypeOK /\ Coherent(c)
  BY DEF Inv
<1>2. CASE StopSession(c)
  BY <1>2, NothingMoves DEF StopSession, store
<1>3. ASSUME NEW action \in OwnerActions, RecordExecutionAction(c, action)
      PROVE  \A d \in Command : Step(d)
  <2>1. /\ execution' = [execution EXCEPT ![c] = "stopping"]
        /\ receipt' = [receipt EXCEPT ![c] = action]
        /\ execution[c] \in Active
        /\ UNCHANGED <<command, outcome, holder, lease>>
    BY <1>3 DEF RecordExecutionAction, queue
  <2>2. /\ execution'[c] = "stopping"
        /\ \A d \in Command \ {c} : execution'[d] = execution[d] /\ receipt'[d] = receipt[d]
    BY <1>1, <2>1 DEF TypeOK
  <2>3. ASSUME NEW d \in Command \ {c}  PROVE Step(d)
    BY <2>1, <2>2, StillSteps DEF Still
  <2>4. ExecutionStep(c) /\ OutcomeStep(c) /\ ReceiptStep(c)
    BY <1>1, <2>1, <2>2 DEF ExecutionStep, OutcomeStep, ReceiptStep
  <2>5. WithdrawnStep(c) /\ ClaimStep(c)
    BY <1>1, <2>1, <2>2 DEF WithdrawnStep, ClaimStep, Waiting
  <2>6. QED  BY <2>3, <2>4, <2>5 DEF Step
<1>4. CASE CancelUncertainExecution(c)
  <2>1. /\ execution' = [execution EXCEPT ![c] = "cancelled"]
        /\ command' = [command EXCEPT ![c] = "cancelled"]
        /\ receipt' = [receipt EXCEPT ![c] = "cancel"]
        /\ execution[c] = "reconciliation_required"
        /\ UNCHANGED <<outcome, holder, lease>>
    BY <1>4 DEF CancelUncertainExecution, queue
  <2>2. /\ execution'[c] = "cancelled" /\ command'[c] = "cancelled"
        /\ \A d \in Command \ {c} : execution'[d] = execution[d] /\ receipt'[d] = receipt[d] /\ command'[d] = command[d]
    BY <1>1, <2>1 DEF TypeOK
  <2>3. ASSUME NEW d \in Command \ {c}  PROVE Step(d)
    BY <2>1, <2>2, StillSteps DEF Still
  <2>4. ExecutionStep(c) /\ OutcomeStep(c) /\ ReceiptStep(c)
    BY <1>1, <2>1, <2>2 DEF ExecutionStep, OutcomeStep, ReceiptStep
  <2>5. WithdrawnStep(c) /\ ClaimStep(c)
    BY <1>1, <2>1, <2>2 DEF WithdrawnStep, ClaimStep, Waiting
  <2>6. QED  BY <2>3, <2>4, <2>5 DEF Step
<1>5. QED
  BY <1>2, <1>3, <1>4 DEF OwnerStep

LEMMA RestartSteps ==
  ASSUME Inv, Restart
  PROVE  \A d \in Command : Step(d)
<1>1. UNCHANGED <<outcome, receipt, holder, lease>>
  BY DEF Restart
<1>2. ASSUME NEW d \in Command  PROVE Step(d)
  <2>1. /\ command'[d] = IF command[d] = "claimed"
                         THEN "reconciliation_required" ELSE command[d]
        /\ execution'[d] = IF execution[d] \in Active THEN "stopping" ELSE execution[d]
    BY DEF Restart
  <2>2. ExecutionStep(d) /\ OutcomeStep(d) /\ ReceiptStep(d)
    BY <1>1, <2>1 DEF ExecutionStep, OutcomeStep, ReceiptStep
  <2>3. WithdrawnStep(d) /\ ClaimStep(d)
    BY <1>1, <2>1 DEF WithdrawnStep, ClaimStep, Waiting
  <2>4. QED  BY <2>2, <2>3 DEF Step
<1>3. QED  BY <1>2

LEMMA FinishRecoverySteps ==
  ASSUME Inv, FinishRecovery
  PROVE  \A d \in Command : Step(d)
<1>1. UNCHANGED <<outcome, receipt, holder, lease>>
  BY DEF FinishRecovery
<1>2. ASSUME NEW d \in Command  PROVE Step(d)
  <2>1. RestartState(d) \in {"failed", "paused", "reconciliation_required"}
    BY DEF RestartState
  <2>2. /\ execution'[d] = IF execution[d] \in NonTerminal
                           THEN RestartState(d) ELSE execution[d]
        /\ command'[d] = IF execution[d] \in NonTerminal
                         THEN RestartState(d) ELSE command[d]
    BY DEF FinishRecovery
  <2>3. ExecutionStep(d) /\ OutcomeStep(d) /\ ReceiptStep(d)
    BY <1>1, <2>1, <2>2 DEF ExecutionStep, OutcomeStep, ReceiptStep, Terminal
  <2>4. WithdrawnStep(d) /\ ClaimStep(d)
    BY <1>1, <2>1, <2>2 DEF WithdrawnStep, ClaimStep, Waiting
  <2>5. QED  BY <2>3, <2>4 DEF Step
<1>3. QED  BY <1>2

LEMMA NextSteps ==
  ASSUME Inv, [Next]_vars
  PROVE  \A d \in Command : Step(d)
<1>1. CASE UNCHANGED vars
  BY <1>1, NothingMoves DEF vars, store
<1>2. CASE QueueStep
  BY <1>2, QueueSteps
<1>3. ASSUME NEW c \in Command,
             StartTask(c) \/ AgentStep(c) \/ PromptStep(c) \/ OwnerStep(c)
      PROVE  \A d \in Command : Step(d)
  BY <1>3, StartSteps, AgentSteps, PromptSteps, OwnerSteps
<1>4. ASSUME NEW c \in Command, ShellExits(c)
      PROVE  \A d \in Command : Step(d)
  BY <1>4, NothingMoves DEF ShellExits, store
<1>5. ASSUME NEW c \in Command, NEW k \in Caller, StopStepOf(c, k)
      PROVE  \A d \in Command : Step(d)
  BY <1>5, StopSteps
<1>6. CASE Crash
  BY <1>6, NothingMoves DEF Crash, store
<1>7. ASSUME NEW c \in Command, ReconcileRunInterrupted(c)
      PROVE  \A d \in Command : Step(d)
  BY <1>7, NothingMoves DEF ReconcileRunInterrupted
<1>8. ASSUME NEW c \in Command, ReconcileRun(c)
      PROVE  \A d \in Command : Step(d)
  BY <1>8, NothingMoves DEF ReconcileRun
<1>9. CASE RecoveryStep
  BY <1>8, <1>9, RestartSteps, FinishRecoverySteps DEF RecoveryStep
<1>10. QED
  BY <1>1, <1>2, <1>3, <1>4, <1>5, <1>6, <1>7, <1>9 DEF Next

-----------------------------------------------------------------------------
(* What follows from the steps *)

(* Settlement is final: a terminal execution never gets another state, except *)
(* that the owner may close one that needs reconciliation.                    *)
THEOREM FinalSettlement == Spec => SettlementIsFinal
<1>1. ASSUME Inv, [Next]_vars, NEW c \in Command, execution[c] \in Terminal
      PROVE  \/ execution'[c] = execution[c]
             \/ execution[c] = "reconciliation_required" /\ execution'[c] = "cancelled"
  BY <1>1, NextSteps DEF Step, ExecutionStep, Terminal, NonTerminal, Active
<1>2. Inv /\ [Next]_vars =>
        [\A c \in Command : execution[c] \in Terminal =>
           \/ execution'[c] = execution[c]
           \/ execution[c] = "reconciliation_required" /\ execution'[c] = "cancelled"
        ]_execution
  BY <1>1
<1>3. QED  BY <1>2, Invariance, PTL DEF Spec, SettlementIsFinal

(* What the transitions preserve of a settled or claimed command. *)
Honest(c) ==
  /\ execution[c] = "succeeded" => receipt[c] = "none" /\ outcome[c]
  /\ command[c] = "claimed" => holder[c] \in Lease /\ lease[holder[c]] = "active"

LEMMA HonestStep ==
  ASSUME Inv, [Next]_vars, NEW c \in Command, Honest(c)
  PROVE  Honest(c)'
<1>1. Step(c)
  BY NextSteps
<1>2. outcome[c] \in BOOLEAN
  BY DEF Inv, TypeOK
<1>3. ASSUME execution'[c] = "succeeded"  PROVE receipt'[c] = "none" /\ outcome'[c]
  BY <1>1, <1>2, <1>3 DEF Step, ExecutionStep, OutcomeStep, ReceiptStep, Honest, Terminal
<1>4. ASSUME command'[c] = "claimed"
      PROVE  holder'[c] \in Lease /\ lease'[holder'[c]] = "active"
  BY <1>1, <1>4 DEF Step, ClaimStep, Honest
<1>5. QED  BY <1>3, <1>4 DEF Honest

THEOREM HonestRows == Spec => [](\A c \in Command : Honest(c))
<1>1. Init => \A c \in Command : Honest(c)
  BY DEF Init, Honest
<1>2. Inv /\ (\A c \in Command : Honest(c)) /\ [Next]_vars
        => (\A c \in Command : Honest(c))'
  BY HonestStep
<1>3. QED  BY <1>1, <1>2, Invariance, PTL DEF Spec

(* A stop, pause or cancel the owner got a receipt for is never settled as    *)
(* success.                                                                   *)
THEOREM StopIsHonoured == Spec => []StoppedNeverSucceeds
<1>1. (\A c \in Command : Honest(c)) => StoppedNeverSucceeds
  BY DEF Honest, StoppedNeverSucceeds
<1>2. QED  BY <1>1, HonestRows, PTL

(* A claim never outlives the lease it was made under.                        *)
THEOREM ClaimNeedsLease == Spec => []ClaimedHasLiveLease
<1>1. (\A c \in Command : Honest(c)) => ClaimedHasLiveLease
  BY DEF Honest, ClaimedHasLiveLease
<1>2. QED  BY <1>1, HonestRows, PTL

-----------------------------------------------------------------------------
(* Refinement *)

LEMMA AuthorityValue ==
  ASSUME NEW state \in ExecutionState, NEW row
  PROVE  /\ state = "absent" /\ row \in Waiting => AuthorityWhen(state, row) = "waiting"
         /\ state = "absent" /\ row \notin Waiting => AuthorityWhen(state, row) = "withdrawn"
         /\ state \in Active => AuthorityWhen(state, row) = "granted"
         /\ state = "stopping" => AuthorityWhen(state, row) = "fenced"
         /\ state = "reconciliation_required" => AuthorityWhen(state, row) = "quarantined"
         /\ state = "succeeded" => AuthorityWhen(state, row) = "succeeded"
         /\ state \in {"paused", "failed", "cancelled"} => AuthorityWhen(state, row) = "closed"
<1>1. CASE state = "absent"
  BY <1>1 DEF AuthorityWhen, Waiting, Active
<1>2. CASE state \in Active
  BY <1>2 DEF AuthorityWhen, Active
<1>3. CASE state = "stopping"
  BY <1>3 DEF AuthorityWhen, Active
<1>4. CASE state = "reconciliation_required"
  BY <1>4 DEF AuthorityWhen, Active
<1>5. CASE state = "succeeded"
  BY <1>5 DEF AuthorityWhen, Active
<1>6. CASE state \in {"paused", "failed", "cancelled"}
  BY <1>6 DEF AuthorityWhen, Active
<1>7. QED
  BY <1>1, <1>2, <1>3, <1>4, <1>5, <1>6 DEF ExecutionState, NonTerminal, Terminal

Authorities == {"waiting", "withdrawn", "granted", "fenced", "quarantined", "closed", "succeeded"}

LEMMA AuthorityType ==
  ASSUME NEW state \in ExecutionState, NEW row
  PROVE  AuthorityWhen(state, row) \in Authorities
  BY AuthorityValue DEF Authorities, ExecutionState, NonTerminal, Terminal

LEMMA Successors ==
  /\ DOMAIN Authority!Successor = Authorities
  /\ Authority!Successor["waiting"] = {"granted", "closed", "withdrawn"}
  /\ Authority!Successor["granted"] = {"fenced", "closed", "quarantined"}
  /\ Authority!Successor["fenced"] = {"closed", "quarantined", "succeeded"}
  /\ Authority!Successor["quarantined"] = {"closed"}
  BY DEF Authority!Successor, Authorities

LEMMA AdvanceStep ==
  ASSUME Inv, Inv', NEW c \in Command, Step(c), Honest(c)'
  PROVE  Authority!Advance(c)
<1> DEFINE from == AuthorityWhen(execution[c], command[c])
           to == AuthorityWhen(execution'[c], command'[c])
<1>1. execution[c] \in ExecutionState /\ execution'[c] \in ExecutionState
  BY DEF Inv, TypeOK
<1>2. to = from \/ to \in Authority!Successor[from]
  <2>1. CASE execution'[c] = execution[c]
    <3>1. CASE execution[c] = "absent" /\ command[c] \in Waiting
      <4>1. from = "waiting" /\ to \in {"waiting", "withdrawn"}
        BY <1>1, <2>1, <3>1, AuthorityValue
      <4>2. QED  BY <4>1, Successors
    <3>2. CASE execution[c] = "absent" /\ command[c] \notin Waiting
      <4>1. command'[c] \notin Waiting
        BY <2>1, <3>2 DEF Step, WithdrawnStep
      <4>2. QED  BY <1>1, <2>1, <3>2, <4>1, AuthorityValue
    <3>3. CASE execution[c] # "absent"
      <4>1. execution[c] \in Active \cup {"stopping", "reconciliation_required", "succeeded"}
                              \cup {"paused", "failed", "cancelled"}
        BY <1>1, <3>3 DEF ExecutionState, NonTerminal, Terminal
      <4>2. QED  BY <1>1, <2>1, <4>1, AuthorityValue
    <3>4. QED  BY <3>1, <3>2, <3>3
  <2>2. CASE /\ execution[c] = "absent" /\ command[c] = "claimed"
             /\ execution'[c] \in {"starting", "failed"}
    <3>1. from = "waiting" /\ to \in {"granted", "closed"}
      BY <1>1, <2>2, AuthorityValue DEF Waiting, Active
    <3>2. QED  BY <3>1, Successors
  <2>3. CASE execution[c] \in Active /\ execution'[c] \in {"running", "stopping"}
    <3>1. from = "granted" /\ to \in {"granted", "fenced"}
      BY <1>1, <2>3, AuthorityValue DEF Active
    <3>2. QED  BY <3>1, Successors
  <2>4. CASE execution[c] \in NonTerminal /\ execution'[c] \in Terminal \ {"succeeded"}
    <3>1. from \in {"granted", "fenced"} /\ to \in {"closed", "quarantined"}
      BY <1>1, <2>4, AuthorityValue DEF NonTerminal, Terminal
    <3>2. QED  BY <3>1, Successors
  <2>5. CASE execution[c] = "stopping" /\ execution'[c] = "succeeded"
    <3>1. from = "fenced" /\ to = "succeeded"
      BY <1>1, <2>5, AuthorityValue
    <3>2. QED  BY <3>1, Successors
  <2>6. CASE execution[c] = "reconciliation_required" /\ execution'[c] = "cancelled"
    <3>1. from = "quarantined" /\ to = "closed"
      BY <1>1, <2>6, AuthorityValue
    <3>2. QED  BY <3>1, Successors
  <2>7. QED  BY <2>1, <2>2, <2>3, <2>4, <2>5, <2>6 DEF Step, ExecutionStep
<1>3. outcome'[c] = outcome[c] \/ (from = "granted" /\ outcome'[c])
  BY <1>1, AuthorityValue DEF Step, OutcomeStep
<1>4. to = "succeeded" => outcome'[c]
  <2>1. to = "succeeded" => execution'[c] = "succeeded"
    BY <1>1, AuthorityValue DEF ExecutionState, NonTerminal, Terminal, Active, Waiting
  <2>2. QED  BY <2>1 DEF Honest
<1>5. QED  BY <1>2, <1>3, <1>4 DEF Authority!Advance, AuthorityOf

(* The control plane implements the authority contract: authority is granted  *)
(* to a command once, is lost for good, outcomes are recorded only under it   *)
(* and success needs the outcome; across crashes, restarts and owner actions. *)
THEOREM AuthorityRefinement == Spec => ImplementsAuthority
<1>1. Init => Authority!Init
  <2>1. SUFFICES ASSUME Init  PROVE Authority!Init
    OBVIOUS
  <2>2. ASSUME NEW c \in Command  PROVE AuthorityOf(c) = "waiting"
    <3>1. execution[c] = "absent" /\ command[c] = "absent"
      BY <2>1 DEF Init
    <3>2. QED  BY <3>1, AuthorityValue DEF AuthorityOf, ExecutionState, Waiting
  <2>3. outcome = [c \in Command |-> FALSE]
    BY <2>1 DEF Init
  <2>4. QED  BY <2>2, <2>3 DEF Authority!Init
<1>2. Inv /\ Inv' /\ (\A c \in Command : Honest(c))' /\ [Next]_vars
        => [Authority!Next]_(Authority!vars)
  <2>1. SUFFICES ASSUME Inv, Inv', (\A c \in Command : Honest(c))', [Next]_vars
                 PROVE  Authority!Next
    OBVIOUS
  <2>2. ASSUME NEW c \in Command
        PROVE  Authority!Advance(c) /\ AuthorityOf(c)' \in Authorities
    <3>1. execution'[c] \in ExecutionState
      BY <2>1 DEF Inv, TypeOK
    <3>2. AuthorityOf(c)' \in Authorities
      BY <3>1, AuthorityType DEF AuthorityOf
    <3>3. QED  BY <2>1, <3>2, NextSteps, AdvanceStep
  <2>3. [c \in Command |-> AuthorityOf(c)]' \in [Command -> DOMAIN Authority!Successor]
    BY <2>2, Successors
  <2>4. outcome' \in [Command -> BOOLEAN]
    BY <2>1 DEF Inv, TypeOK
  <2>5. QED  BY <2>2, <2>3, <2>4 DEF Authority!Next
<1>3. QED
  BY <1>1, <1>2, Invariance, HonestRows, PTL DEF Spec, ImplementsAuthority, Authority!Spec
=============================================================================
