-------------------------- MODULE CommandExecution --------------------------
(* The life of a task-phase command in the control plane: queueing, the      *)
(* project lease, the claim by the project daemon, acceptance, the worker    *)
(* that starts Pi in a container, owner stop / pause / cancel, the mutation  *)
(* fence, settlement, and reconciliation after a restart.                    *)
(*                                                                           *)
(* Every Phase0Store method is one synchronous SQLite transaction in a       *)
(* single Node process, so a store call is atomic; a handler is cut into     *)
(* steps exactly where it awaits.  A command has at most one execution, and  *)
(* an execution at most one run, one session, one container and one          *)
(* capability, so all of them are indexed by the command.                    *)
EXTENDS Naturals, Sequences, FiniteSets

CONSTANTS
  Command,            \* command identities, one per row of orchestrator_commands
  Lease,              \* lease identities, one per row of project_orchestrators
  None,               \* no command, no lease
  CredentialLimit,    \* maxConcurrentRuns of the credential profile
  OwnerActions,       \* bound: which of stop, pause, cancel the owner may ask for
  OwnerCloses,        \* bound: may the owner DELETE the session meanwhile?
  Checkpoints,        \* bound: may the agent ask for a git checkpoint?
  MaxCrashes,         \* bound: how often the control plane process dies
  HostFaults,         \* may docker stop/rm/inspect and credential checks fail?
  SignalledShell      \* may the docker exec client of the shell die of the signal?

ASSUME ConstantAssumption ==
  /\ None \notin Command \cup Lease
  /\ CredentialLimit \in Nat
  /\ OwnerActions \subseteq {"stop", "pause", "cancel"}
  /\ OwnerCloses \in BOOLEAN
  /\ Checkpoints \in BOOLEAN
  /\ MaxCrashes \in Nat
  /\ HostFaults \in BOOLEAN
  /\ SignalledShell \in BOOLEAN

VARIABLES
  \* rows of the SQLite store
  command,      \* orchestrator_commands.state
  order,        \* commands by orchestrator_commands.sequence
  holder,       \* orchestrator_commands.orchestrator_id of a claimed command
  lease,        \* project_orchestrators.status
  execution,    \* command_executions.state
  generation,   \* command_executions.generation
  binding,      \* how much of run_id / session_id the execution row has
  receipt,      \* the latest execution_action_receipts.action
  run,          \* runs.state
  effect,       \* side_effects.state by kind
  capability,   \* capabilities of the run: none, live, revoked
  outcome,      \* has the run recorded its authoritative phase outcome?
  \* memory of the control plane process
  server,       \* down, recovering (reconcileAfterRestart) or serving
  worker,       \* where the promise of runCommandExecution waits
  caught,       \* the error runCommandExecution caught
  managed,      \* is the session in the sessions map?
  slot,         \* is the run in RunCredentialVault.activeRuns?
  stopper,      \* where each stopSession call of the session waits
  gitRequest,   \* where the agent's checkpoint request waits
  \* outside the process
  shell,        \* the workspace shell's docker exec client
  container,    \* the task container
  daemon,       \* the command the lease's daemon is trying to have accepted
  crashes

store == <<command, order, holder, lease, execution, generation, binding,
           receipt, run, effect, capability, outcome>>
memory == <<server, worker, caught, managed, slot, stopper, gitRequest>>
outside == <<shell, container, daemon, crashes>>
vars == <<store, memory, outside>>

-----------------------------------------------------------------------------
(* Vocabulary *)

CommandState == {"absent", "queued", "claimed", "running", "succeeded", "failed",
                 "paused", "cancelled", "reconciliation_required"}
Active == {"starting", "running"}          \* states with mutation authority
NonTerminal == Active \cup {"stopping"}
Terminal == {"paused", "failed", "reconciliation_required", "succeeded", "cancelled"}
ExecutionState == {"absent"} \cup NonTerminal \cup Terminal
Kind == {"container_start", "provider_response", "container_stop", "git"}
EffectState == {"none", "intent", "completed", "reconciliation_required"}
RunState == {"none", "running", "stopped", "paused", "reconciliation_required"}
StartStep == {"setup", "credential", "container", "pi", "undo"}
WorkerStep == {"none", "prompt", "wrapup", "stopping"} \cup StartStep
Caller == {"worker", "owner"}
StopStep == {"idle", "processes", "hung", "removing", "finishing"}

Serving == server = "serving"
Accepted(c) == execution[c] # "absent"
Unsettled(e) == \E k \in Kind : e[k] \in {"intent", "reconciliation_required"}

(* The worker keeps the generation it was launched with, which is 1, and     *)
(* passes it to every later check.                                           *)
LaunchGeneration == 1
ExecutionExists(c) == Accepted(c)                     \* mutant
AssertExecutionGeneration(c) ==
  generation[c] = LaunchGeneration /\ execution[c] \in Active

(* A capability that authorizeCapability accepts. *)
AuthorizeCapability(c) == capability[c] = "live" /\ AssertExecutionGeneration(c)

TypeOK ==
  /\ command \in [Command -> CommandState]
  /\ order \in Seq(Command)
  /\ holder \in [Command -> Lease \cup {None}]
  /\ lease \in [Lease -> {"none", "active", "expired", "released"}]
  /\ execution \in [Command -> ExecutionState]
  /\ generation \in [Command -> {0, LaunchGeneration, LaunchGeneration + 1}]
  /\ binding \in [Command -> {"nothing", "run", "session"}]
  /\ receipt \in [Command -> {"none", "stop", "pause", "cancel"}]
  /\ run \in [Command -> RunState]
  /\ effect \in [Command -> [Kind -> EffectState]]
  /\ capability \in [Command -> {"none", "live", "revoked"}]
  /\ outcome \in [Command -> BOOLEAN]
  /\ server \in {"down", "recovering", "serving"}
  /\ worker \in [Command -> WorkerStep]
  /\ caught \in [Command -> {"none", "failed", "uncertain"}]
  /\ managed \in [Command -> BOOLEAN]
  /\ slot \in SUBSET Command
  /\ stopper \in [Command -> [Caller -> StopStep]]
  /\ gitRequest \in [Command -> {"idle", "authorized", "journaled"}]
  /\ shell \in [Command -> {"none", "alive", "exited", "killed"}]
  /\ container \in [Command -> {"none", "exists", "removed"}]
  /\ daemon \in [Lease -> Command \cup {None}]
  /\ crashes \in 0..MaxCrashes

Init ==
  /\ command = [c \in Command |-> "absent"]
  /\ order = <<>>
  /\ holder = [c \in Command |-> None]
  /\ lease = [l \in Lease |-> "none"]
  /\ execution = [c \in Command |-> "absent"]
  /\ generation = [c \in Command |-> 0]
  /\ binding = [c \in Command |-> "nothing"]
  /\ receipt = [c \in Command |-> "none"]
  /\ run = [c \in Command |-> "none"]
  /\ effect = [c \in Command |-> [k \in Kind |-> "none"]]
  /\ capability = [c \in Command |-> "none"]
  /\ outcome = [c \in Command |-> FALSE]
  /\ server = "serving"
  /\ worker = [c \in Command |-> "none"]
  /\ caught = [c \in Command |-> "none"]
  /\ managed = [c \in Command |-> FALSE]
  /\ slot = {}
  /\ stopper = [c \in Command |-> [k \in Caller |-> "idle"]]
  /\ gitRequest = [c \in Command |-> "idle"]
  /\ shell = [c \in Command |-> "none"]
  /\ container = [c \in Command |-> "none"]
  /\ daemon = [l \in Lease |-> None]
  /\ crashes = 0

-----------------------------------------------------------------------------
(* Leases and the command queue *)

rest_of_queue == <<execution, generation, binding, receipt, run, effect, capability,
                   outcome, memory, shell, container, crashes>>

RegisterProjectOrchestrator(l) ==
  /\ Serving
  /\ lease[l] = "none"
  /\ \A m \in Lease : lease[m] # "active"
  /\ lease' = [lease EXCEPT ![l] = "active"]
  /\ UNCHANGED <<command, order, holder, daemon, rest_of_queue>>

(* A lease that ends takes its claimed commands to reconciliation.           *)
ReconcileClaimedCommands(l) ==
  command' = [c \in Command |-> IF command[c] = "claimed" /\ holder[c] = l
                                THEN "reconciliation_required" ELSE command[c]]

ExpireOrchestratorLease(l) ==
  /\ Serving
  /\ lease[l] = "active"
  /\ lease' = [lease EXCEPT ![l] = "expired"]
  /\ ReconcileClaimedCommands(l)
  /\ UNCHANGED <<order, holder, daemon, rest_of_queue>>

ReleaseProjectOrchestrator(l) ==
  /\ Serving
  /\ lease[l] = "active"
  /\ lease' = [lease EXCEPT ![l] = "released"]
  /\ ReconcileClaimedCommands(l)
  /\ UNCHANGED <<order, holder, daemon, rest_of_queue>>

EnqueueOrchestratorCommand(c) ==
  /\ Serving
  /\ command[c] = "absent"
  /\ \E l \in Lease : lease[l] = "active"
  /\ command' = [command EXCEPT ![c] = "queued"]
  /\ order' = Append(order, c)
  /\ UNCHANGED <<holder, lease, daemon, rest_of_queue>>

EnqueuedBefore(d, c) ==                               \* mutant
  \E i, j \in DOMAIN order : i < j /\ order[i] = d /\ order[j] = c

QueuedBefore(d, c) ==
  /\ command[d] = "queued"
  /\ \E i, j \in DOMAIN order : i < j /\ order[i] = d /\ order[j] = c

(* The claim commits before the reply leaves; the reply may be lost.         *)
ClaimOrchestratorCommand(l, c) ==
  /\ Serving
  /\ lease[l] = "active"
  /\ daemon[l] = None
  /\ command[c] = "queued"
  /\ \A d \in Command : ~QueuedBefore(d, c)
  /\ command' = [command EXCEPT ![c] = "claimed"]
  /\ holder' = [holder EXCEPT ![c] = l]
  /\ daemon' \in {daemon, [daemon EXCEPT ![l] = c]}
  /\ UNCHANGED <<order, lease, rest_of_queue>>

(* POST /complete, by a daemon that ran the command itself: refused for a    *)
(* command that has an execution.                                            *)
CompleteOrchestratorCommand(l, c, state) ==
  /\ Serving
  /\ lease[l] = "active"
  /\ daemon[l] = c
  /\ ~Accepted(c)
  /\ holder[c] = l
  /\ command[c] = "claimed"
  /\ command' = [command EXCEPT ![c] = state]
  /\ daemon' = [daemon EXCEPT ![l] = None]
  /\ UNCHANGED <<order, holder, lease, rest_of_queue>>

(* The owner resets a command that never got an execution, or one whose      *)
(* cancelled execution already settled it.  (A retry queues a new command.)  *)
ResetOrchestratorCommand(c) ==
  /\ Serving
  /\ \/ ~Accepted(c) /\ command[c] \in {"failed", "reconciliation_required"}
     \/ execution[c] = "cancelled" /\ command[c] = "cancelled"
  /\ command' = [command EXCEPT ![c] = "cancelled"]
  /\ UNCHANGED <<order, holder, lease, daemon, rest_of_queue>>

-----------------------------------------------------------------------------
(* The end of an execution: fence, stopSession, settle *)

queue == <<order, holder, lease, crashes>>

(* fenceExecution: nothing happens to an execution that is already fenced;   *)
(* capabilities are found, and revoked, through the run the execution has.   *)
NextGeneration(c) == [generation EXCEPT ![c] = @ + 1]  \* mutant
FencedGeneration(c) ==
  [generation EXCEPT ![c] = IF execution[c] \in Active THEN @ + 1 ELSE @]
KeepCapability(c) == capability                       \* mutant
RevokedCapability(c) ==
  [capability EXCEPT ![c] = IF @ = "live" /\ binding[c] # "nothing" THEN "revoked" ELSE @]
FenceExecution(c) ==
  /\ generation' = FencedGeneration(c)
  /\ capability' = RevokedCapability(c)

SettleExecutionRowOnly(c, state) ==                   \* mutant
  /\ execution' = [execution EXCEPT ![c] = state]
  /\ worker' = [worker EXCEPT ![c] = "none"]
  /\ UNCHANGED command

(* settleExecution writes the execution and its command together.            *)
SettleExecution(c, state) ==
  /\ execution' = [execution EXCEPT ![c] = state]
  /\ command' = [command EXCEPT ![c] = state]
  /\ worker' = [worker EXCEPT ![c] = "none"]

StateOfError(c, error) ==                             \* mutant
  CASE error = "none" -> "succeeded"
    [] error = "failed" -> "failed"
    [] error = "uncertain" -> "reconciliation_required"

(* The state runCommandExecution wants, before it looks at cleanup and       *)
(* journalled effects: an owner receipt outranks the error it caused.        *)
DesiredState(c, error) ==
  CASE error = "uncertain" -> "reconciliation_required"
    [] error # "uncertain" /\ receipt[c] = "pause" -> "paused"
    [] error # "uncertain" /\ receipt[c] = "cancel" -> "cancelled"
    [] error = "failed" /\ receipt[c] \in {"none", "stop"} -> "failed"
    [] error = "none" /\ receipt[c] = "stop" -> "failed"
    [] error = "none" /\ receipt[c] = "none" -> "succeeded"

SettlementIgnoresEffects(c, error, effects) == DesiredState(c, error)   \* mutant

SettlementState(c, error, effects) ==
  IF Unsettled(effects) THEN "reconciliation_required" ELSE DesiredState(c, error)

BeginStopOnce(c, k) ==                                \* mutant
  stopper' = [stopper EXCEPT ![c][k] = IF shell[c] # "alive" THEN "hung" ELSE "processes"]

(* rpc.terminate is bounded by its own SIGKILL timer; shell.terminate waits  *)
(* for an exit event, which a client already killed by the signal (exitCode  *)
(* null) never emits again.                                                  *)
BeginStop(c, k) ==
  stopper' = [stopper EXCEPT ![c][k] = IF shell[c] = "killed" THEN "hung" ELSE "processes"]

(* executeTaskPhase has returned or thrown: fence, then stop the bound       *)
(* session or settle at once when there is none.                             *)
ExecuteTaskPhaseReturns(c, error, effects) ==
  /\ FenceExecution(c)
  /\ \/ /\ binding[c] = "session" /\ managed[c]
        /\ execution' = [execution EXCEPT ![c] = "stopping"]
        /\ worker' = [worker EXCEPT ![c] = "stopping"]
        /\ caught' = [caught EXCEPT ![c] = error]
        /\ BeginStop(c, "worker")
        /\ UNCHANGED command
     \/ /\ binding[c] = "session" /\ ~managed[c]
        /\ SettleExecution(c, "reconciliation_required")
        /\ UNCHANGED <<caught, stopper>>
     \/ /\ binding[c] # "session"
        /\ SettleExecution(c, SettlementState(c, error, effects))
        /\ UNCHANGED <<caught, stopper>>

-----------------------------------------------------------------------------
(* Acceptance and the start of Pi *)

(* A repeated request launches runCommandExecution only when no promise of   *)
(* it is registered.                                                         *)
RefuseReplay(c) == FALSE /\ Accepted(c)               \* mutant
ReplayAcceptance(c) ==
  /\ Accepted(c)
  /\ worker' = [worker EXCEPT ![c] =
                  IF @ = "none" /\ execution[c] \in Active THEN "setup" ELSE @]
  /\ UNCHANGED <<command, execution, generation>>

(* A first acceptance inserts the execution and runs runCommandExecution up  *)
(* to its first await: startTask's guards may already reject.                *)
FirstAcceptance(c) ==
  /\ ~Accepted(c)
  /\ command[c] = "claimed"
  /\ \/ /\ command' = [command EXCEPT ![c] = "running"]
        /\ execution' = [execution EXCEPT ![c] = "starting"]
        /\ generation' = [generation EXCEPT ![c] = LaunchGeneration]
        /\ worker' = [worker EXCEPT ![c] = "setup"]
     \/ /\ SettleExecution(c, "failed")
        /\ generation' = [generation EXCEPT ![c] = LaunchGeneration + 1]

(* The daemon repeats the request until it gets a 2xx.                       *)
AcceptCommandExecution(l, c) ==
  /\ Serving
  /\ lease[l] = "active"
  /\ daemon[l] = c
  /\ holder[c] = l
  /\ daemon' \in {daemon, [daemon EXCEPT ![l] = None]}
  /\ ReplayAcceptance(c) \/ FirstAcceptance(c)
  /\ UNCHANGED <<queue, binding, receipt, run, effect, capability, outcome, server,
                 caught, managed, slot, stopper, gitRequest, shell, container>>

untouched_by_start == <<queue, receipt, outcome, server, managed, gitRequest, daemon>>

CredentialSlotOffByOne == Cardinality(slot) <= CredentialLimit   \* mutant
CredentialSlotFree == Cardinality(slot) < CredentialLimit

(* createWorkspace has finished.  A fenced execution keeps the evidence and  *)
(* reports an uncertain side effect; otherwise the run is bound and          *)
(* materialize takes a credential slot synchronously, or throws.             *)
WorkspaceCreated(c) ==
  /\ Serving
  /\ worker[c] = "setup"
  /\ binding' = [binding EXCEPT ![c] = "run"]
  /\ \/ /\ ~AssertExecutionGeneration(c)
        /\ ExecuteTaskPhaseReturns(c, "uncertain", effect[c])
        /\ UNCHANGED slot
     \/ /\ AssertExecutionGeneration(c)
        /\ ~CredentialSlotFree
        /\ ExecuteTaskPhaseReturns(c, "failed", effect[c])
        /\ UNCHANGED slot
     \/ /\ AssertExecutionGeneration(c)
        /\ CredentialSlotFree
        /\ slot' = slot \cup {c}
        /\ worker' = [worker EXCEPT ![c] = "credential"]
        /\ UNCHANGED <<command, execution, generation, capability, caught, stopper>>
  /\ UNCHANGED <<untouched_by_start, run, effect, shell, container>>

WorkspaceFails(c) ==
  /\ Serving
  /\ worker[c] = "setup"
  /\ ExecuteTaskPhaseReturns(c, "failed", effect[c])
  /\ UNCHANGED <<untouched_by_start, binding, run, effect, slot, shell, container>>

(* The credential copy is ready: issue the capability and journal the start  *)
(* of the container, or give the slot back.                                  *)
CredentialMaterialized(c) ==
  /\ Serving
  /\ worker[c] = "credential"
  /\ AssertExecutionGeneration(c)
  /\ capability' = [capability EXCEPT ![c] = "live"]
  /\ effect' = [effect EXCEPT ![c]["container_start"] = "intent"]
  /\ worker' = [worker EXCEPT ![c] = "container"]
  /\ UNCHANGED <<untouched_by_start, command, execution, generation, binding, run, caught,
                 slot, stopper, shell, container>>

CredentialRejected(c) ==   \* materialize throws, or the execution was fenced
  /\ Serving
  /\ worker[c] = "credential"
  /\ slot' = slot \ {c}
  /\ ExecuteTaskPhaseReturns(c, "failed", effect[c])
  /\ UNCHANGED <<untouched_by_start, binding, run, effect, shell, container>>

DockerCreates(c) ==
  /\ Serving
  /\ worker[c] = "container"
  /\ container[c] = "none"
  /\ container' = [container EXCEPT ![c] = "exists"]
  /\ UNCHANGED <<store, memory, shell, daemon, crashes>>

(* runtime.start resolves. *)
ContainerStarted(c) ==
  /\ Serving
  /\ worker[c] = "container"
  /\ container[c] = "exists"
  /\ \/ /\ AssertExecutionGeneration(c)
        /\ effect' = [effect EXCEPT ![c]["container_start"] = "completed"]
        /\ worker' = [worker EXCEPT ![c] = "pi"]
     \/ /\ ~AssertExecutionGeneration(c)
        /\ worker' = [worker EXCEPT ![c] = "undo"]
        /\ UNCHANGED effect
  /\ UNCHANGED <<untouched_by_start, command, execution, generation, binding, run,
                 capability, caught, slot, stopper, shell, container>>

(* docker create or start fails, the credential copy fails, Pi exits, or its *)
(* effective model route does not match: startTask's catch block begins.     *)
StartFails(c) ==
  /\ Serving
  /\ worker[c] \in {"container", "pi"}
  /\ worker' = [worker EXCEPT ![c] = "undo"]
  /\ UNCHANGED <<store, outside, server, caught, managed, slot, stopper, gitRequest>>

(* Pi answered get_state: session and run rows are inserted, and only then   *)
(* does the second binding find out whether the execution was fenced.        *)
PiReady(c) ==
  /\ Serving
  /\ worker[c] = "pi"
  /\ run' = [run EXCEPT ![c] = "running"]
  /\ shell' = [shell EXCEPT ![c] = "alive"]
  /\ \/ /\ AssertExecutionGeneration(c)
        /\ binding' = [binding EXCEPT ![c] = "session"]
        /\ execution' = [execution EXCEPT ![c] = "running"]
        /\ managed' = [managed EXCEPT ![c] = TRUE]
        /\ effect' = [effect EXCEPT ![c]["provider_response"] = "intent"]
        /\ worker' = [worker EXCEPT ![c] = "prompt"]
     \/ /\ ~AssertExecutionGeneration(c)
        /\ worker' = [worker EXCEPT ![c] = "undo"]
        /\ UNCHANGED <<binding, execution, managed, effect>>
  /\ UNCHANGED <<queue, receipt, outcome, server, gitRequest, daemon, command, generation,
                 capability, caught, slot, stopper, container>>

(* The catch block of startTask: a failing runtime.stop is swallowed.        *)
UndoStart(c) ==
  /\ Serving
  /\ worker[c] = "undo"
  /\ \/ container' = [container EXCEPT ![c] = IF @ = "exists" THEN "removed" ELSE @]
     \/ HostFaults /\ UNCHANGED container
  /\ slot' = slot \ {c}
  /\ ExecuteTaskPhaseReturns(c, "failed", effect[c])
  /\ UNCHANGED <<untouched_by_start, binding, run, effect, shell>>

-----------------------------------------------------------------------------
(* The prompt and the agent's requests *)

(* A task action of the agent (request_review, record_validation, review     *)
(* disposition) that is the authoritative outcome of the phase.              *)
RecordPhaseOutcome(c) ==
  /\ Serving
  /\ AuthorizeCapability(c)
  /\ run[c] = "running"
  /\ ~outcome[c]
  /\ outcome' = [outcome EXCEPT ![c] = TRUE]
  /\ UNCHANGED <<command, order, holder, lease, execution, generation, binding, receipt,
                 run, effect, capability, memory, outside>>

(* POST git/checkpoint: authorised once, then several awaits before the      *)
(* effect is journalled.  Bound: one checkpoint per run.                     *)
AuthorizeGitCheckpoint(c) ==
  /\ Serving
  /\ Checkpoints
  /\ AuthorizeCapability(c)
  /\ managed[c]
  /\ gitRequest[c] = "idle"
  /\ effect[c]["git"] = "none"
  /\ gitRequest' = [gitRequest EXCEPT ![c] = "authorized"]
  /\ UNCHANGED <<store, outside, server, worker, caught, managed, slot, stopper>>

JournalGitCheckpoint(c) ==
  /\ Serving
  /\ gitRequest[c] = "authorized"
  /\ \/ /\ gitRequest' = [gitRequest EXCEPT ![c] = "journaled"]
        /\ effect' = [effect EXCEPT ![c]["git"] = "intent"]
     \/ gitRequest' = [gitRequest EXCEPT ![c] = "idle"] /\ UNCHANGED effect
  /\ UNCHANGED <<command, order, holder, lease, execution, generation, binding, receipt,
                 run, capability, outcome, outside, server, worker, caught, managed, slot,
                 stopper>>

FinishGitCheckpoint(c) ==   \* git commit succeeds, or stage/commit throws
  /\ Serving
  /\ gitRequest[c] = "journaled"
  /\ gitRequest' = [gitRequest EXCEPT ![c] = "idle"]
  /\ \/ effect' = [effect EXCEPT ![c]["git"] = "completed"]
     \/ UNCHANGED effect
  /\ UNCHANGED <<command, order, holder, lease, execution, generation, binding, receipt,
                 run, capability, outcome, outside, server, worker, caught, managed, slot,
                 stopper>>

(* agent_settled arrived; snapshots, artifacts and context are ingested.     *)
PromptSettles(c) ==
  /\ Serving
  /\ worker[c] = "prompt"
  /\ worker' = [worker EXCEPT ![c] = "wrapup"]
  /\ UNCHANGED <<store, outside, server, caught, managed, slot, stopper, gitRequest>>

untouched_by_phase == <<queue, receipt, outcome, server, managed, gitRequest, daemon,
                        binding, run, slot, shell, container>>

(* Pi exits or is terminated, goes inactive, passes the hard deadline, sends *)
(* invalid JSON or rejects; or ingestion throws.  The effect stays intent.   *)
PromptFails(c) ==
  /\ Serving
  /\ worker[c] \in {"prompt", "wrapup"}
  /\ ExecuteTaskPhaseReturns(c, "failed", effect[c])
  /\ UNCHANGED <<untouched_by_phase, effect>>

(* Does the run leave what its phase must leave? *)
PhaseOutcomeRecorded(c) == outcome[c]

(* The response is completed; a phase without a recorded outcome is a        *)
(* protocol violation.                                                       *)
PhaseEnds(c) ==
  LET after == [effect EXCEPT ![c]["provider_response"] = "completed"] IN
  /\ Serving
  /\ worker[c] = "wrapup"
  /\ effect' = after
  /\ ExecuteTaskPhaseReturns(c, IF PhaseOutcomeRecorded(c) THEN "none" ELSE "failed", after[c])
  /\ UNCHANGED untouched_by_phase

-----------------------------------------------------------------------------
(* stopSession, called by the worker and by DELETE /api/sessions/:id *)

StopSession(c) ==    \* the owner's call; bound: one such call in progress
  /\ Serving
  /\ OwnerCloses
  /\ managed[c]
  /\ stopper[c]["owner"] = "idle"
  /\ BeginStop(c, "owner")
  /\ UNCHANGED <<store, outside, server, worker, caught, managed, slot, gitRequest>>

(* The shell's docker exec client ends after a SIGTERM from a stopSession    *)
(* call or from an owner action on a managed session.                        *)
ShellExits(c) ==
  /\ Serving
  /\ shell[c] = "alive" /\ managed[c]
  /\ receipt[c] # "none" \/ \E k \in Caller : stopper[c][k] = "processes"
  /\ \/ shell' = [shell EXCEPT ![c] = "exited"]
     \/ SignalledShell /\ shell' = [shell EXCEPT ![c] = "killed"]
  /\ UNCHANGED <<store, memory, container, daemon, crashes>>

(* Both processes are gone; the removal of the container is journalled       *)
(* (a second call replays the same effect).  Pi's exit rejects a pending     *)
(* prompt before any caller of terminate resumes.                            *)
ProcessesExit(c, k) ==
  /\ Serving
  /\ stopper[c][k] = "processes"
  /\ shell[c] # "alive"
  /\ worker[c] # "prompt"
  /\ stopper' = [stopper EXCEPT ![c][k] = "removing"]
  /\ effect' = [effect EXCEPT ![c]["container_stop"] = IF @ = "none" THEN "intent" ELSE @]
  /\ UNCHANGED <<command, order, holder, lease, execution, generation, binding, receipt,
                 run, capability, outcome, outside, server, worker, caught, managed, slot,
                 gitRequest>>

ContainerRemoved(c, k) ==
  /\ Serving
  /\ stopper[c][k] = "removing"
  /\ stopper' = [stopper EXCEPT ![c][k] = "finishing"]
  /\ container' = [container EXCEPT ![c] = "removed"]
  /\ effect' = [effect EXCEPT ![c]["container_stop"] = "completed"]
  /\ UNCHANGED <<command, order, holder, lease, execution, generation, binding, receipt,
                 run, capability, outcome, server, worker, caught, managed, slot, gitRequest,
                 shell, daemon, crashes>>

untouched_by_stop == <<queue, receipt, outcome, server, gitRequest, daemon, binding,
                       effect, shell, container, caught>>

(* runtime.stop or the credential check throws: the owner's request fails;   *)
(* the worker settles the execution as uncertain.                            *)
StopFails(c, k) ==
  /\ Serving
  /\ HostFaults
  /\ \/ stopper[c][k] = "removing" /\ container[c] = "exists"
     \/ stopper[c][k] = "finishing"
  /\ stopper' = [stopper EXCEPT ![c][k] = "idle"]
  /\ \/ k = "worker" /\ SettleExecution(c, "reconciliation_required")
     \/ k = "owner" /\ UNCHANGED <<execution, command, worker>>
  /\ UNCHANGED <<untouched_by_stop, generation, capability, run, managed, slot>>

(* The rest of stopSession, and for the worker the settlement it leads to.   *)
FinishStop(c, k) ==
  /\ Serving
  /\ stopper[c][k] = "finishing"
  /\ stopper' = [stopper EXCEPT ![c][k] = "idle"]
  /\ slot' = slot \ {c}
  /\ capability' = [capability EXCEPT ![c] = "revoked"]
  /\ run' = [run EXCEPT ![c] = "stopped"]
  /\ managed' = [managed EXCEPT ![c] = FALSE]
  /\ \/ k = "worker" /\ SettleExecution(c, SettlementState(c, caught[c], effect[c]))
     \/ k = "owner" /\ UNCHANGED <<execution, command, worker>>
  /\ UNCHANGED <<untouched_by_stop, generation>>

-----------------------------------------------------------------------------
(* Owner actions on an execution *)

RecordActionOnAny(c, action) ==                       \* mutant
  /\ Serving
  /\ Accepted(c)
  /\ execution' = [execution EXCEPT ![c] = "stopping"]
  /\ FenceExecution(c)
  /\ receipt' = [receipt EXCEPT ![c] = action]
  /\ UNCHANGED <<queue, command, binding, run, effect, outcome, memory, shell, container,
                 daemon>>

(* Stop, pause or cancel: the fence and its receipt are one transaction.     *)
RecordExecutionAction(c, action) ==
  /\ Serving
  /\ execution[c] \in Active
  /\ execution' = [execution EXCEPT ![c] = "stopping"]
  /\ FenceExecution(c)
  /\ receipt' = [receipt EXCEPT ![c] = action]
  /\ UNCHANGED <<queue, command, binding, run, effect, outcome, memory, shell, container,
                 daemon>>

(* Cancelling an uncertain execution needs a finished run and no live        *)
(* capability.                                                               *)
CancelUncertainExecution(c) ==
  /\ Serving
  /\ execution[c] = "reconciliation_required"
  /\ run[c] # "running"
  /\ capability[c] # "live"
  /\ execution' = [execution EXCEPT ![c] = "cancelled"]
  /\ command' = [command EXCEPT ![c] = "cancelled"]
  /\ receipt' = [receipt EXCEPT ![c] = "cancel"]
  /\ UNCHANGED <<queue, generation, binding, run, effect, capability, outcome, memory,
                 shell, container, daemon>>

-----------------------------------------------------------------------------
(* Crash and restart *)

(* The process dies; its promises, maps and credential slots go with it.     *)
LoseMemory ==
  /\ server' = "down"
  /\ crashes' = crashes + 1
  /\ worker' = [c \in Command |-> "none"]
  /\ caught' = [c \in Command |-> "none"]
  /\ managed' = [c \in Command |-> FALSE]
  /\ slot' = {}
  /\ stopper' = [c \in Command |-> [k \in Caller |-> "idle"]]
  /\ gitRequest' = [c \in Command |-> "idle"]
  /\ shell' = [c \in Command |-> "none"]

Crash ==
  /\ server # "down"
  /\ crashes < MaxCrashes
  /\ LoseMemory
  /\ UNCHANGED <<store, container, daemon>>

RestartWithoutFence ==                                \* mutant
  /\ server = "down"
  /\ server' = "recovering"
  /\ command' = [c \in Command |-> IF command[c] = "claimed"
                                   THEN "reconciliation_required" ELSE command[c]]
  /\ UNCHANGED <<order, holder, lease, execution, generation, capability, binding, receipt,
                 run, effect, outcome, worker, caught, managed, slot, stopper, gitRequest,
                 outside>>

(* reconcileAfterRestart up to its first await: claimed commands become      *)
(* uncertain and every execution that still has authority is fenced.         *)
Restart ==
  /\ server = "down"
  /\ server' = "recovering"
  /\ command' = [c \in Command |-> IF command[c] = "claimed"
                                   THEN "reconciliation_required" ELSE command[c]]
  /\ execution' = [c \in Command |-> IF execution[c] \in Active
                                     THEN "stopping" ELSE execution[c]]
  /\ generation' = [c \in Command |-> IF execution[c] \in Active
                                      THEN generation[c] + 1 ELSE generation[c]]
  /\ capability' = [c \in Command |-> IF execution[c] \in Active THEN RevokedCapability(c)[c]
                                                               ELSE capability[c]]
  /\ UNCHANGED <<order, holder, lease, binding, receipt, run, effect, outcome, worker,
                 caught, managed, slot, stopper, gitRequest, outside>>

(* What docker inspect may say of the run's container. *)
Inspection(c) ==
  (IF container[c] = "exists" THEN {"proven", "unproven"} ELSE {"absent"})
  \cup (IF HostFaults THEN {"error"} ELSE {})

(* The verdicts reconcileAfterRestart writes over the journalled effects.    *)
(* gitProven: reconcileSideEffect found the commit with its provenance.      *)
ReconciledEffects(c, inspection, gitProven) ==
  [k \in Kind |->
     CASE effect[c][k] # "intent" -> effect[c][k]
       [] effect[c][k] = "intent"
          /\ \/ k = "container_start" /\ inspection = "proven"
             \/ k = "container_stop" /\ inspection \in {"absent", "error"}
             \/ k = "git" /\ gitProven -> "completed"
       [] OTHER -> "reconciliation_required"]

Ambiguous(c, inspection, effects) ==
  \/ ~ \/ inspection = "proven"
       \/ inspection = "absent" /\ effect[c]["container_stop"] # "none"
  \/ \E k \in Kind : effects[k] = "reconciliation_required"

ReconcileRun(c) ==
  /\ server = "recovering"
  /\ run[c] = "running"
  /\ \E inspection \in Inspection(c), gitProven \in BOOLEAN :
       LET effects == ReconciledEffects(c, inspection, gitProven) IN
       /\ effect' = [effect EXCEPT ![c] = effects]
       /\ container' = [container EXCEPT ![c] =
                          IF inspection = "proven" THEN "removed" ELSE @]
       /\ run' = [run EXCEPT ![c] = IF Ambiguous(c, inspection, effects)
                                    THEN "reconciliation_required" ELSE "paused"]
  /\ UNCHANGED <<command, order, holder, lease, execution, generation, binding, receipt,
                 capability, outcome, memory, shell, daemon, crashes>>

(* The process dies, or runtime.stop throws, after the effects of the run    *)
(* were rewritten and before its row was.                                    *)
ReconcileRunInterrupted(c) ==
  /\ server = "recovering"
  /\ run[c] = "running"
  /\ crashes < MaxCrashes
  /\ \E inspection \in Inspection(c), gitProven \in BOOLEAN :
       /\ effect' = [effect EXCEPT ![c] = ReconciledEffects(c, inspection, gitProven)]
       /\ container' \in {container, [container EXCEPT ![c] =
                          IF inspection = "proven" THEN "removed" ELSE @]}
  /\ LoseMemory
  /\ UNCHANGED <<command, order, holder, lease, execution, generation, binding, receipt,
                 run, capability, outcome, daemon>>

(* How an interrupted execution settles: by its run row alone.               *)
RestartState(c) ==
  CASE run[c] = "none" -> "failed"
    [] run[c] = "paused" -> "paused"
    [] OTHER -> "reconciliation_required"

(* All runs are reconciled: settle every interrupted execution and listen.   *)
FinishRecovery ==
  /\ server = "recovering"
  /\ \A c \in Command : run[c] # "running"
  /\ server' = "serving"
  /\ execution' = [c \in Command |-> IF execution[c] \in NonTerminal
                                     THEN RestartState(c) ELSE execution[c]]
  /\ command' = [c \in Command |-> IF execution[c] \in NonTerminal
                                   THEN RestartState(c) ELSE command[c]]
  /\ UNCHANGED <<order, holder, lease, generation, binding, receipt, run, effect,
                 capability, outcome, worker, caught, managed, slot, stopper, gitRequest,
                 outside>>

-----------------------------------------------------------------------------
QueueStep ==
  \/ \E l \in Lease : \/ RegisterProjectOrchestrator(l)
                      \/ ExpireOrchestratorLease(l)
                      \/ ReleaseProjectOrchestrator(l)
  \/ \E c \in Command : EnqueueOrchestratorCommand(c) \/ ResetOrchestratorCommand(c)
  \/ \E l \in Lease, c \in Command :
       \/ ClaimOrchestratorCommand(l, c)
       \/ \E state \in {"succeeded", "failed"} : CompleteOrchestratorCommand(l, c, state)
       \/ AcceptCommandExecution(l, c)

StartTask(c) ==
  \/ WorkspaceCreated(c) \/ WorkspaceFails(c)
  \/ CredentialMaterialized(c) \/ CredentialRejected(c)
  \/ DockerCreates(c) \/ ContainerStarted(c) \/ StartFails(c)
  \/ PiReady(c) \/ UndoStart(c)

AgentStep(c) ==
  \/ RecordPhaseOutcome(c)
  \/ AuthorizeGitCheckpoint(c) \/ JournalGitCheckpoint(c) \/ FinishGitCheckpoint(c)

PromptStep(c) == PromptSettles(c) \/ PromptFails(c) \/ PhaseEnds(c)

StopStepOf(c, k) ==
  \/ ProcessesExit(c, k) \/ ContainerRemoved(c, k) \/ StopFails(c, k) \/ FinishStop(c, k)

OwnerStep(c) ==
  \/ StopSession(c)
  \/ \E action \in OwnerActions : RecordExecutionAction(c, action)
  \/ CancelUncertainExecution(c)

RecoveryStep ==
  \/ Restart
  \/ \E c \in Command : ReconcileRun(c)
  \/ FinishRecovery

Next ==
  \/ QueueStep
  \/ \E c \in Command :
       \/ StartTask(c) \/ AgentStep(c) \/ PromptStep(c) \/ OwnerStep(c) \/ ShellExits(c)
       \/ \E k \in Caller : StopStepOf(c, k)
  \/ Crash
  \/ \E c \in Command : ReconcileRunInterrupted(c)
  \/ RecoveryStep

Spec == Init /\ [][Next]_vars

(* Awaited host calls return, timers bound the prompt and Pi's termination,  *)
(* a dead process is restarted and the daemon keeps polling and retrying.    *)
(* Nothing is assumed of the owner, the agent, the lease or crashes.         *)
Fairness ==
  /\ \A c \in Command :
       /\ WF_vars(StartTask(c))
       /\ WF_vars(PromptStep(c))
       /\ WF_vars(ShellExits(c))
       /\ WF_vars(JournalGitCheckpoint(c) \/ FinishGitCheckpoint(c))
       /\ \A k \in Caller : WF_vars(StopStepOf(c, k))
  /\ WF_vars(RecoveryStep)
  /\ \A l \in Lease :
       /\ WF_vars(\E c \in Command : ClaimOrchestratorCommand(l, c))
       /\ WF_vars(\E c \in Command : AcceptCommandExecution(l, c))

FairSpec == Spec /\ Fairness

-----------------------------------------------------------------------------
(* Safety *)

(* A command and its execution never tell different stories: without an      *)
(* execution the command is waiting or was withdrawn, during the execution   *)
(* it is running, and after settlement both rows hold the same state, across *)
(* claims, lease loss, daemon completion, owner resets and restarts.         *)
CommandMirrorsExecution ==
  \A c \in Command :
    CASE execution[c] = "absent" -> command[c] \notin {"running", "paused"}
      [] execution[c] \in NonTerminal -> command[c] = "running"
      [] execution[c] \in Terminal -> command[c] = execution[c]

(* While the control plane serves, an execution has a worker exactly as long *)
(* as it is unsettled: none is orphaned, and a replayed acceptance never     *)
(* launches a second worker.  While it recovers nobody holds authority.      *)
SupervisedAuthority ==
  \A c \in Command :
    /\ Serving => (execution[c] \in NonTerminal <=> worker[c] # "none")
    /\ ~Serving => worker[c] = "none"
    /\ server = "recovering" => execution[c] \notin Active

(* A capability row that is not revoked belongs to an execution with         *)
(* authority of the generation the capability was issued for.                *)
LiveCapabilityIsCurrent ==
  \A c \in Command : capability[c] = "live" => AssertExecutionGeneration(c)

(* What the worker of an execution may rely on at each await: from the       *)
(* credential on its run is bound, so that a fence finds its capability;     *)
(* once prompting its session is bound, so that settlement stops it; it      *)
(* waits in stopSession exactly while the execution is stopping on its       *)
(* behalf, and then without an error only if the outcome was recorded.       *)
WorkerOwnsExecution ==
  \A c \in Command :
    /\ execution[c] \in Active => generation[c] = LaunchGeneration
    /\ execution[c] = "absent" \/ worker[c] = "setup" => binding[c] = "nothing"
    /\ capability[c] = "live" => binding[c] # "nothing"
    /\ worker[c] \in {"credential", "container", "pi", "undo"} => binding[c] # "nothing"
    /\ worker[c] \in {"prompt", "wrapup", "stopping"} => binding[c] = "session"
    /\ stopper[c]["worker"] # "idle" <=> worker[c] = "stopping"
    /\ worker[c] = "stopping" =>
         execution[c] = "stopping" /\ (caught[c] = "none" => outcome[c])

(* A paused or succeeded execution has no start, response or stop effect in  *)
(* doubt and gave its credential slot back; a succeeded one is what the      *)
(* pipeline relies on: the outcome was recorded by this run, its container   *)
(* is gone, its run row is stopped and these effects are all completed.      *)
ControlKinds == Kind \ {"git"}
SettledIsClosed ==
  \A c \in Command :
    /\ execution[c] \in {"paused", "succeeded"} =>
         /\ \A k \in ControlKinds : effect[c][k] \in {"none", "completed"}
         /\ c \notin slot
    /\ execution[c] = "succeeded" =>
         /\ outcome[c] /\ container[c] = "removed" /\ run[c] = "stopped"
         /\ \A k \in ControlKinds : effect[c][k] = "completed"

(* The profile's limit is kept by concurrent starts, and the slots in use    *)
(* are those of runs that may still need the credential copy: a failed or    *)
(* cancelled start gives its slot back, only an execution whose cleanup      *)
(* could not be proven keeps one.                                            *)
CredentialSlotsReturned ==
  /\ Cardinality(slot) <= CredentialLimit
  /\ \A c \in slot :
       \/ execution[c] \in NonTerminal
       \/ execution[c] = "reconciliation_required" /\ managed[c]

(* An accepted stop, pause or cancel is never settled as success, however    *)
(* the phase, the fence and a restart interleave.                            *)
StoppedNeverSucceeds ==
  \A c \in Command : receipt[c] # "none" => execution[c] # "succeeded"

(* A claimed command belongs to the active lease: lease loss and restart     *)
(* leave no claim behind that nobody may accept.                             *)
ClaimedHasLiveLease ==
  \A c \in Command : command[c] = "claimed" =>
    holder[c] \in Lease /\ lease[holder[c]] = "active"

(* Settlement is final, but for the owner closing an uncertain execution.    *)
SettlementIsFinal ==
  [][\A c \in Command : execution[c] \in Terminal =>
       \/ execution'[c] = execution[c]
       \/ execution[c] = "reconciliation_required" /\ execution'[c] = "cancelled"
    ]_execution

(* Liveness *)

(* Every accepted execution settles, whatever fails, stops or crashes.       *)
ExecutionsSettle ==
  \A c \in Command : execution[c] \in NonTerminal ~> execution[c] \in Terminal

(* A queued command is claimed unless the project loses its lease.           *)
QueuedIsClaimed ==
  \A c \in Command :
    command[c] = "queued" ~>
      command[c] # "queued" \/ \A l \in Lease : lease[l] # "active"

(* A daemon gets an answer for the command it holds and polls again, unless  *)
(* its lease ends.                                                           *)
DaemonKeepsPolling ==
  \A l \in Lease :
    daemon[l] # None ~> daemon[l] = None \/ lease[l] # "active"

=============================================================================
