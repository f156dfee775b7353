# A TLA+ model of the Pink Guy control plane

Pink Guy runs coding agents ("Pi") on behalf of one owner. A single Node process,
the *control plane*, owns a SQLite store; *project daemons* hold a lease on a project
and have queued work started; each task phase (implementation, test, review) runs in a
container with its own worktree, capability token and credential copy. This directory
holds TLA+ modules of that machinery, the TLC configurations that check them on small
instances, and proofs, checked by TLAPS, of the properties that matter most.

Paths below are relative to `src/` of the repository: `store` is
`src/server/store.mjs`, `control-plane` is `src/server/control-plane.mjs`.

## 1. Inventory

| component | state it keeps | operations | hard behaviour | what makes it correct |
|---|---|---|---|---|
| project lease and command queue (store) | `project_orchestrators.status`, `orchestrator_commands` (state, sequence, holder) | register, heartbeat, expire, release, enqueue, claim, complete, reset | leases end between claim and acceptance; replies are lost; FIFO | a claim has a live lease; each queued command is claimed; command and execution rows agree |
| execution lifecycle (store) | `command_executions` (state, generation, run, session), `execution_action_receipts` | accept, bind run, bind session, fence, settle, stop, pause, cancel | owner actions race the worker's awaits; repeated acceptance | one worker per unsettled execution; authority ends once and for good; a stopped execution never succeeds |
| phase worker (control-plane `startTask`, `prompt`, `executeTaskPhase`, `runCommandExecution`, `stopSession`) | the sessions map, the promise of each execution | materialise workspace and credential, start container, prompt, wrap up, stop, settle | about a dozen awaits, each of which may resume fenced; every step can fail; two callers of `stopSession` | settled state reflects cleanup and effects; credential slots come back |
| restart reconciliation (control-plane `reconcileAfterRestart`) | rows only | fence, inspect, judge effects, settle | a crash at any await, also during recovery itself | every interrupted execution settles, none with unproven effects as clean |
| side-effect ledger (store) | `side_effects.state` per kind | journal, complete, reconcile | effect done but not recorded, recorded but not done | no intent survives a clean settlement |
| credential vault (`src/server/credentials.mjs`) | `activeRuns` per profile | materialise, release | limit tested by concurrent starts, failing paths | never above the limit, slots not leaked |
| container runtime, Pi RPC, workspace shell (`runtime.mjs`, `rpc.mjs`) | containers, child processes, pending requests | start, inspect, stop, prompt, terminate | three timers of a prompt, signals, lost exit events | every wait is bounded |
| git service (`git-service.mjs`) | worktrees, refs | prepare, checkpoint, integrate, publish | authorised long before it acts; interrupted publication | a ref moves at most once per integration, evidence is not lost |
| project daemon (`scripts/project-orchestrator.mjs`) | the command it is having accepted | poll, claim, accept, complete, heartbeat | retries of requests whose reply was lost | it always returns to polling |
| task pipeline (store `actOnTask`, `queueExecutionReplacement`, ..., control-plane `reconcileAutomaticProject`) | tasks, reviews, validations, decisions, phase commands, recovery candidates | agent actions, automatic continuation, retry, resume, reset, adopt recovery | automatic and owner scheduling interleave with mutations | one active phase per task; done only with review, validation and decisions of the current revision |
| task policy (`src/policy/task-policy.mjs`) | none | transition tables, completion gates | two implementations of the same rules | policy and store agree |
| Ready scheduler (store `dispatchNextReadyTask`, control-plane `reconcileReadyProject`) | dispatch policy, priorities | project the queue, dispatch | capacity counted from rows that other paths also insert; the queue is shown with other limits than it is worked off with | both limits hold; the order shown is the order worked off, and who waits is told why; what is ready is dispatched |
| conversations (store 2945-4580) | turns, orchestration leases, conversation runs | submit, claim, start, mutate tasks, complete, reconcile, transfer, switch model, archive | separate requests of a daemon that may lose its lease, its Pi process or an answer between them; owner requests that await an export | turns are answered in order and at most once; a running turn has a holder; Pi runs on the recorded route |
| git integration (store 6309-6763) | integrations, gates | prepare, approve, execute, publish | refs, rows and worktrees move in separate steps | rows tell the truth about Git; one request executes an integration; no commit is lost |
| retention, cleanup, deletion | holds, workspace and session rows, receipts, manifests, files | hold, release, cleanup, delete session, delete project | requests of many steps, repeated after a crash or a partial failure while holds and evidence change | receipts match the disk; holds are honoured; files go only after a manifest lists them |
| continuity, context, memory, prompt profiles, routes, calibration, artifacts, extensions, clients, cockpit | files, configuration, views | | | see `PROJECT.json` |

How they interact: the daemon polls the control plane over HTTP; the acceptance of a
command starts an asynchronous worker inside the control plane and returns at once; the
agent in the container calls back over HTTP with its capability; the owner calls from a
client. They meet in the store, whose methods are synchronous SQLite transactions in one
process and therefore atomic, and in the control plane's in-memory maps, which a crash
clears. `PROJECT.json` lists the hazards of this arrangement with the lines where they bite.

## 2. Plan

Done, in this order:

1. `CommandExecution` - queue, lease, execution, worker, stop, ledger, vault, restart.
2. `ExecutionAuthority` - the abstract contract; `CommandExecutionRefinement` maps to it.
3. `CommandExecution_proofs`, `CommandExecutionAuthority_proofs`.

4. `TaskPipeline` - the phases of a task: scheduling, agent actions, automatic
   continuation, completion gates, commits, retry / resume / replacement / reset, recovery
   candidates. Of command execution it uses only what `ExecutionAuthority` promises.

5. `ReadyDispatch` - dispatch policy, priorities, the order shown and the order worked off,
   dependencies, and both pairs of limits, beside owner runs and continuations.
6. `TurnLedger` - what a conversation promises its owner; `ConversationTurns` - turns, leases,
   daemons, Pi processes, transfers - shown to implement it.
7. `GitIntegration` - the stepwise publication, its cancellation and its restart.
8. `Retention` - holds, cleanup and deletion of sessions.

9. `TaskPipeline_proofs`, `GitIntegration_proofs`, `Retention_proofs`, `ConversationTurns_proofs`,
   `ReadyDispatch_proofs` - an inductive invariant of each module and what follows from it.
10. `CommandExecutionClosing_proofs` - what a settled execution leaves behind.

Next, in this order:

11. Deletion of a project, with its restart in the middle.
12. The three timers of a prompt; `adoptTaskRecoveryRevision`.

## 3. Modules

### CommandExecution

A command has at most one execution, an execution at most one run, session, container and
capability, so all are functions on `Command`. Variables fall in three groups, and the
grouping is the model's main claim about the program: `store` survives a crash, `memory`
does not, `outside` (docker, child processes, the daemon) is not touched by a crash of
the control plane.

* *Queue.* `RegisterProjectOrchestrator`, `ExpireOrchestratorLease`,
  `ReleaseProjectOrchestrator`, `EnqueueOrchestratorCommand`, `ClaimOrchestratorCommand`,
  `CompleteOrchestratorCommand`, `ResetOrchestratorCommand` are the store methods of those
  names. A heartbeat only postpones expiry; expiry may happen at any time while the control
  plane serves. The replies of a claim and of an acceptance may be lost:
  `daemon' \in {daemon, ...}`.
* *Acceptance.* `AcceptCommandExecution` is a first acceptance or a replay. A replay
  launches the worker again exactly when the execution still has authority and no promise of it
  is registered.
* *Worker.* `worker[c]` is the await where `runCommandExecution` is suspended: `setup`
  (worktree), `credential`, `container` (docker), `pi` (get_state), `undo` (the catch block
  of `startTask`), `prompt`, `wrapup` (ingestion), `stopping`. Each action is the code from
  one await to the next; those that find the execution fenced branch there. All ends go
  through `ExecuteTaskPhaseReturns`: fence, then stop the bound session or settle at once.
* *Stop.* `stopSession` has two possible callers, the worker and the owner's DELETE,
  which run concurrently: `stopper[c][k]`.
* *Agent.* `RecordPhaseOutcome` stands for the task action that is the phase's
  authoritative outcome (`request_review`, `record_validation` or a review disposition,
  depending on the phase). The git checkpoint is cut in three steps because it is
  authorised once and journals its effect several awaits later.
* *Owner.* `RecordExecutionAction` (stop, pause, cancel), `CancelUncertainExecution`,
  `StopSession`.
* *Crash and restart.* `Crash` clears `memory`. `Restart`, `ReconcileRun`,
  `ReconcileRunInterrupted` and `FinishRecovery` are `reconcileAfterRestart`; the process may
  die inside it. A graceful `close()` stops every session and is covered by `StopSession`.

`docker inspect` and `docker rm` may fail when `HostFaults`; a docker exec client may die of
the signal it is sent when `SignalledShell`.

### ExecutionAuthority and CommandExecutionRefinement

The contract the rest of the system relies on: authority is granted to a command at most
once, ends for good, an outcome is recorded only under authority, and success needs an
outcome. `AuthorityOf` is the refinement mapping. Several commands may advance in one
abstract step because a restart fences them all together.

### MCCommandExecution

Adds only the symmetry set of leases.

### TaskPipeline

The rows of a task and its commands, at the grain of store calls. A command here is the
command row, its execution and its run together: `state` is the command's state until
acceptance, then "running" while the execution has authority, "ending" once it is fenced
with its outcome, "fenced" when it is fenced for another reason, then the settlement.
The awaits of the worker, which `CommandExecution` has in detail, appear as the order in
which these states may change.

* *Task row.* `task[t]` has the columns `status`, `assigned_worker`, `revision`,
  `requested_review_revision`, `validation_passed` and `merge_requested` (`merging`) that decide
  about phases or that completion writes and new evidence withdraws.
  `validation` and `review` are the latest rows per revision; the dispositions "request
  changes" and "blocked" are both "refused", as nothing tells them apart but the status they set.
* *Scheduling.* `ScheduleOwnerTaskRun` is also what a conversation and the Ready queue call.
  `Directive` is `automaticPipelineDirectives`, `ReconcileAutomaticProject` schedules what
  is due and models the throw of a refused directive, which leaves the tasks behind it
  without their phase and the poll without its claim. `Poll` is the claim endpoint (reconcile,
  then claim); `ReconcileAutomaticPipelines` a poll that claims nothing, because it threw or because it
  awaits the storage inventory. What happens between that await and its claim is not modelled.
  An automatic command is identified with its idempotency key, so a used key replays.
* *Agent.* One action per task action of the agent's capability. A `Commit` is authorised and
  made under authority; `RecordHostGitRevision` records it later, perhaps after the fence, and
  then quarantines it as a recovery candidate. A worktree starts at the base revision, so the
  parent of a commit is `base`.
* *End.* `EndPhase` is a phase with its outcome (`taskPhaseOutcome`), whose review may
  complete the task; `Fence` is every other end; `SettleSucceeded` continues the pipelines in
  the same stretch; `SettleStopped` may leave the run row behind; `Restart` is recovery.
* *Owner.* One action per endpoint. `Moves` says which of the interventions an instance
  explores, because some of them break properties that hold without them (section 6).
* *Bounds.* `MaxRevision` bounds the commits of a task, with one commit per run;
  `MaxStops` the commands that ended or are ending without success.

`ImplementsAuthority` maps its commands to the same abstract contract that
`CommandExecutionRefinement` proves of the detailed module, which is what composes the two.

### ReadyDispatch

The dispatch columns of the tasks (`dispatch_policy`, `priority`, `released_at`, and those that
decide whether a task may start) and the commands of the project, at the grain of store calls.

* *The queue.* `Ranked`, `Rank`, `Eligible` and `Blockers` are `readyDispatchCandidates`, which the cockpit
  and the terminal show; `NextReady` is the selection of `dispatchNextReadyTask`. The code has the conditions twice, in
  SQL and in a loop over rows, so the model has them twice and `RankOneIsNext` compares them. The limits
  differ: the scheduler is called with the configured ones (`ProjectCapacity`, `GlobalCapacity`; control-plane 285,
  `scripts/serve.mjs:55`), while `board()` (store 7876) and `taskDispatchProjection` (2132) name none, which makes them
  one (2066): `ShownCapacity`. So the order agrees, the eligibility does not (section 6).
* *The poll.* The claim endpoint continues the pipelines (`ReconcileAutomaticProject`), awaits the storage
  inventory, then dispatches and claims (`Poll`). `Continuations` are the outcomes of the first part: every
  task whose finished phase calls for the next one is scheduled, whatever the limits; `updated_at`, which
  orders them, is not modelled, so they come in any order. A task whose next phase `scheduleOwnerTaskRun`
  refuses (`RefusedTasks`) fails the request: those before it are scheduled, those behind it are not.
  `Measured` says which results the storage inventory may have; in the runs it never is above its limit.
* *Beside the queue.* `OwnerRun` (any phase, `PhaseAllowed`), `ResumeOwnerTaskRun`, `ResetCommand`,
  `ReplaceCommand` and continuations change commands without asking for the limits; `SplitTask`, `AddDependency` and `RequireDecision` are the changes a
  conversation makes; `UpdateOwnerTask` and `SetTaskArchived` are the owner's.
* *Phases.* What an execution does is one step, `SettleSucceeded` or `SettleStopped`; the details are in
  the two modules above. `evidence` says what is recorded of the task's current revision (review requested, validated,
  reviewed), from which `DuePhase` and `PhaseAllowed` follow; `continued` has the phases whose automatic command was
  already made for it, as that command's key is used once. A new revision empties both.
* *Left out.* Model routes; run rows and sessions apart from their command, so a resume is taken as possible
  whatever its command is doing; the owner's retry, completion and reopening of a task and the
  agent's own blocking of it (`TaskPipeline` has them); tasks in the backlog.
* *Bounds.* `MaxCommands`, `MaxClock` (distinct release times), `MaxExpiries`, `MaxInterventions` (changes
  besides releases).

### TurnLedger and ConversationTurns

`TurnLedger` is the owner's view: the messages of a conversation are taken up in order, one at a time, each
settled at most once, and nothing is taken up behind one whose fate is unknown. `Interrupt` concerns a set
of messages, since one lease claims the turns of all the conversations of its scope, and its end leaves all
of them in doubt in one transaction; a run with two conversations refutes an `Interrupt` of one at a time.

`ConversationTurns` has the rows, one daemon for the intake and one for the project, and the
Pi process a daemon keeps per conversation. `daemon[s].pc` is the await of `runOnce` and `execute`;
every request of the daemon is an action of its own, as is every event, change and exit of Pi. A lease is
represented by its scope, as at most one lease of a scope is active and its end reconciles its turns
in the same transaction. `request` holds an owner's transfer or model switch while it awaits the
custody export. `LeaseExpires` is a renewal that comes too late, `ClaimIsLost` and `CompletionIsLost`
are answers that never arrive. Repeated requests under one idempotency key return the first answer and are
stuttering steps; retiring the processes that are out of scope is part of the claim, and registering
the lease part of the first poll.
`MaxTurns`, `MaxVersion` and `MaxFaults` bound messages, transfers and switches, and what goes wrong.

### GitIntegration

One task, its integrations, the target branch here and on the remote as sets of commits, and the
requests (`handler`) that execute or cancel an integration. Each `pc` is an await on Git; rows are read
before it and written with a compare-and-set on `version` after it. `Prepare` is one
step: it only reads Git and inserts its row last. The check of the target and its update are merged, since
`git` compares the old value again. Gates and policy are looked at when an execution starts
and never again (`ExecuteStart`), as in the code. `policy.version` stands for the policy's contents;
integrations of other tasks are commits of the owner.
`CrashAndRestart` ends every request; `CrashWhileSettling` comes between the two updates of a settlement.
`ExportBegins` makes the database read-only under requests that are in progress.
`MaxRevision`, `MaxPolicyVersion`, `MaxRestarts`, `MaxExports` and the set of owner commits are its bounds.

### Retention

One Pi session, the runs that used it, each with directory, worktree, container and workspace row; the
holds, the evidence and the state of the integration that decide what may go; requests of
cleanup and of deletion with their receipts. A request reads its receipt and what is eligible when it begins
(`CleanupRequest`, `DeletionRequest`); a cleanup then awaits docker, whose answers may take runs away (`Inspections`), before it
writes the operation or finds that another request did so meanwhile (`BeginResourceCleanup`, `CleanupRefused`). Both work on one
resource after another and write the outcome last; any step may fail, and the owner repeats it under the same key. A repetition of a cleanup
looks at eligibility again, a repetition of a deletion goes by its receipt alone.
What may hinder a cleanup but not a deletion (an execution that is paused or uncertain, an effect that is not
completed) is one kind of evidence, a pending candidate the other. `MaxChanges` bounds how often a hold
is placed, a candidate is found or the revision moves; releases and decisions follow freely.

## 4. Runs

| run | instance | question | answer |
|---|---|---|---|
| `execution_safety` | 1 command, 2 leases, 2 crashes, failing hosts, signalled shells, checkpoints, every owner action | do rows, memory, capability and settlement stay consistent along every path? | yes, 0.68 million states |
| `execution_contention` | 2 commands, 1 lease, 1 credential slot | do concurrent starts keep the limit, do both commands implement the contract, are they claimed, does the daemon return to polling? | yes |
| `execution_settles` | 1 command, 1 crash, failing hosts | does every accepted execution settle? | yes |
| `pipeline_guarded` | 1 task, 2 owner commands, 3 revisions, 1 stop; reset, reopen, decisions | one phase at a time, each on top of the revision it saw, ended with an outcome of the current revision; is done backed by evidence; is the contract kept? | yes, 0.38 million states |
| `pipeline_recovery` | 1 task, 2 owner commands, 2 revisions, 1 stop; replace, resume, retry, complete, recover | does evidence stay with its revision, late evidence in quarantine, and does automation never skip a phase? | yes, 1.07 million states |
| `pipeline_rests` | 2 tasks, the second depends on the first; 2 owner commands, 1 revision | does the pipeline come to rest? | yes, 0.31 million states |
| `ready_queue` | 1 project, 2 tasks of which one does not exist yet, limits of 2, 2 commands, 2 interventions | does the scheduler work in the order that is shown, and does every task keep its place? | yes, 0.68 million states |
| `ready_progress` | 2 projects with a released task each, one slot, 3 commands, 1 lost lease | are the limits kept, and is what is ready dispatched? | yes, 68 thousand states |
| `conversation_turns` | 1 conversation, 3 messages, 1 transfer or switch, 1 fault | is the ledger's promise kept, is each running turn held, does Pi run on the recorded route, is every message taken up? | yes, 0.22 million states |
| `linked_changes` | the same | is every change linked to the turn in which it was made? | no |
| `git_integrations` | 2 integrations, 2 requests, 1 owner commit, 1 revision, 2 policies, 1 restart, 1 export | do rows and merge requests tell the truth, does one request execute an integration, is no commit lost? | yes, 1.5 million states |
| `retention_receipts` | 2 runs, 1 cleanup key, 1 deletion key, 2 requests at a time, 1 change | do receipts match the disk, are holds honoured, are files listed before they go? | yes, 2.7 million states |

*Why the bounds are enough.* Commands interact through the queue's order, the lease and the
credential slots only; one command with two leases shows every way a claim may be lost and a
new lease may follow, two commands on one slot show every contention for it. Two crashes
give a crash during the recovery from a crash; a third adds nothing, because recovery
starts from the rows alone. A run takes one checkpoint: a second has the same steps on another
row. `OwnerCloses` and `Checkpoints` are off where a run is about something else. The run over
two commands checks `CredentialSlotsReturned`, as one command alone cannot meet the limit. The proofs
remove these bounds for the properties they cover. `CHECK_DEADLOCK FALSE` everywhere:
when all commands are settled and no lease is left the system does stop, and a pipeline
stops when all phases ended and no intervention is left.

In the pipeline two owner commands are the least with which an implementation can follow
another, and with the automatic phases of up to three revisions a path has up to eight commands.
Three revisions are needed for `RevisionsDescend` (a late commit between two others); the
properties of the recovery run compare a revision with its predecessor and need two. One stop
suffices where its consequences are the question; in `pipeline_rests` every
command may stop (`MaxStops` is the number of commands). Owner commands are symmetric in the safety
runs: their action properties do not distinguish them. With one revision a task has one
automatic test and one review, whose order, ends and refusals are the matter of `PhasesRest`.

In `ready_queue` two tasks are the least that can change places; a second project adds nothing to
an order within one. With limits of two, a task is ranked and dispatched while another is at work. No
lease ends there: that `RankOneIsNext` does not depend on it follows from the theorem `OneOrder`.
In `ready_progress` two projects compete for one place; three commands let one task fail or be
released and be dispatched again while the other waits, and the lease of one project is lost once.
`ReadyIsDispatched` is discharged once the commands are used up, so it says nothing of a project that
waits through a longer series of commands of the other.
Nobody intervenes there: that `SchedulerWithinLimits` stands owner runs, resumes, replacements and lost leases in any number is the theorem
`LimitsHold` (and an instance with three commands, one intervention and one expiry, 1.4 million states, checked once). In `conversation_turns` one conversation suffices because the tables
and the daemon's process map are per conversation; three messages give one that is running, one that waits and
one that settled before. One fault at a time: the second would find a conversation that waits
for reconciliation. In `git_integrations` two integrations of one task and two requests give every race of
execution against execution, cancellation, preparation and the owner; with two revisions of the task (7.9
million states, checked once) nothing new was found. In `retention_receipts` two
requests under one key are the concurrent repetition, a request after a crash the late one; a
second run of the session is what a resumed session adds between request and repetition. The requests, the
owner commands and the leases are symmetric.

The symmetry of leases in `execution_safety` is used only there, where the one temporal formula is an
action property over `execution`, in which no lease occurs.

*Fairness* (`FairSpec`, only used for liveness). Weak fairness of each worker's steps, of
each `stopSession` call, of a checkpoint in progress and of the shell's exit: awaited host
calls return, and a prompt is bounded by its timers (`rpc.mjs`). Weak fairness of
recovery: a dead process is restarted by its supervisor, and the number of crashes is
bounded. Weak fairness of claiming and accepting: the daemon polls and retries in a loop.
Nothing is assumed of the owner, the agent, lease expiry or crashes. `RpcClient.terminate` is
bounded by its own SIGKILL timer; the shell's `terminate` is not (section 6), and the liveness runs
assume that its client exits with a code (`SignalledShell = FALSE`). In `TaskPipeline` the daemon's poll and acceptance, the
end of a prompt and the settlement are fair, per command; nothing is assumed of the agent, so a
phase may always end without its outcome. In `ReadyDispatch` the daemon polls, accepts and registers
again, and what runs ends; a poll is fair only while no continuation is refused, because a refused one fails
the claim request before it dispatches. In `ConversationTurns` each daemon goes on (`DaemonStep`), as its loop does, a
dead daemon's lease expires, and the wait for Pi ends by its timers; nothing is assumed of Pi itself, of the
owner or of the faults, and `TurnsAreServed` makes no claim once an answer was lost.
`GitIntegration` and `Retention` have no fairness: Git commands and docker have no time limit
(`git-service.mjs:10`), and both wait for the owner.

## 5. Proofs

Every safety invariant and every action property the passing runs check, and the three refinements, are
theorems of the specification for all values of the constants. The only assumptions are the ones the modules
name: `ConstantAssumption`, `PipelineAssumption`, `DispatchAssumption`, `BoundsAssumption`, `GitAssumption` and
`RetentionAssumption`. They give the bounds their types and keep names apart that are apart in the
program (`None` is no command, an automatic command is no manual one, a limit is at least 1); TLC evaluates
them in the runs. Sets of commands, leases, tasks, requests and commits are arbitrary and need not be
finite, unless a module numbers their members itself. Four theorems of the pipeline assume besides which interventions
the owner leaves out; they say so below.

All proofs have one shape: an inductive invariant, one step per action, under it the new value
of what the action writes and what that means for the one command, task or request it concerns, and a frame lemma for
the others. What differs is the invariant and why it is needed.

### Command execution

`CommandExecution_proofs` proves that `Inv == TypeOK /\ Coherent` is inductive. `Coherent`
is the pointwise (per command) conjunction of `CommandMirrorsExecution`,
`SupervisedAuthority`, `LiveCapabilityIsCurrent` and `WorkerOwnsExecution`, which need each
other:

* that a fence revokes the capability (`LiveCapabilityIsCurrent`) needs the run to be bound
  whenever a capability is live, since the fence finds capabilities through the run
  (`WorkerOwnsExecution`);
* that settlement by a `stopSession` call of the worker meets an execution that is still
  `stopping` needs the link between `stopper` and `worker`;
* that a replay never makes a second worker (`SupervisedAuthority`) needs that no command
  without execution has one;
* that command and execution rows agree needs that only an unsettled execution has a worker,
  since the worker writes both without looking.

The theorems are `TypeCorrect`, `RowsAgree`, `NoOrphanedExecution`, `FenceIsComplete` and
`WorkerInvariant`.

`CommandExecutionAuthority_proofs` first classifies every step, under `Inv`, by what it does
to one command's execution, row and outcome, and cites that classification in
`FinalSettlement` (settlement is final except for the owner closing uncertain work),
`HonestRows`/`StopIsHonoured` (an accepted stop, pause or cancel is never settled as success),
`ClaimNeedsLease`, and `AuthorityRefinement` (`Spec => ImplementsAuthority`: the initial states map
to initial states, and each step to a step of the contract or a stutter). `HonestRows` is
the extra invariant the last one needs: success is only ever settled by a worker
that has seen the outcome and no owner receipt.

`CommandExecutionClosing_proofs` proves what a settlement leaves behind: `SettlementCloses`
(`SettledIsClosed`) and `SlotsReturned` (`CredentialSlotsReturned`). Neither is inductive even with
`Inv`, because it holds only at the end of a `stopSession` that began several awaits earlier. `ClosingInv` adds, for each command,

* `SlotRow`: a slot belongs to an unsettled execution, or to an uncertain one whose session is still in the
  sessions map, so that the owner cannot close it while its run is running;
* `StartRow` and `JournalRow`: how far a start got, and that the journal has the row before the effect:
  without this a stop could find nothing to reconcile and settle as clean;
* `OwnerRow`: the owner's `stopSession` may still be under way when the worker's has settled the execution;
  then it finds the removal completed and must change nothing;
* `ClosedRow`: a paused run is quiet, and a paused or succeeded execution as well.

### Task pipeline

Several handlers are two steps in one stretch of the program: a command settles, a candidate is accepted, or a poll
arrives, and the pipelines are continued in between. `TaskPipeline_proofs` therefore states its invariant
as a predicate of rows, `Good(tk, cm, va, re, cd)`, and proves it of the state between the two steps, too. Its parts
say what each state of a command row implies (`CommandTrue`), that flags speak of the current revision (`FlagsTrue`),
and that an automatic review has a validation (`TestedTrue`). From them follow, whatever the owner does,
`EvidenceCurrent`, `ReviewTested`, `LateEvidence`, and `AuthorityRefinement`: the commands of the
pipeline keep the same contract as the detailed module, under every intervention.

Four properties hold only while the owner leaves some interventions out, and their theorems say which, as an assumption on
the constant `Moves` that the run satisfies:

| theorem | assumes that nobody | because otherwise |
|---|---|---|
| `OnePhase` | resumes, replaces, retries (`NoReplay`) | these do not ask for another phase of the task |
| `DoneEvidence` | does that, or completes a task himself (`NoCompletion`) | a test that is still running fails after the completion |
| `Descends`, `OutcomeCurrent` | does the former, or adopts late evidence (`NoRecovery`) | the adopted revision moves under a running phase |

Section 6 has the counterexamples. The invariant behind them: at most one unsettled command per task (`Single`); the base of a
running command is its task's revision until its own commit is, and what it recorded is about it (`RunTrue`);
a done task has its evidence, and no command that may still write into it (`DoneTrue`, `DoneRests`).

### Ready queue

`ReadyDispatch_proofs`: the `ORDER BY` of the selection is a strict total order (`BeforeIsStrict`,
`BeforeIsTransitive`), and a nonempty set of tasks therefore has exactly one first (`SomebodyLeads`: a least set of tasks without a first
would have a smaller one). This makes the two queries comparable: the task ranked 1 is the one
`First` chooses, whenever the scheduler's limits and the lease allow a dispatch (`QueriesAgree`, `OneOrder`). What is shown
as eligible is dispatched next because no limit is below the one it is shown with (`ShownIsFree`); the converse, which needs limits of
one, is not claimed (section 6, 7). The limits (`LimitsHold`) are inductive by themselves although most steps ask for no
limit: what those add is not the scheduler's, and no step makes a row of the scheduler active again. That no two tasks change
places (`PlacesStand`) needs `Queued`: what is in the queue has been released, and not later than the clock's last reading.

### Conversations

`ConversationTurns_proofs`: `RowsAgree` ties a turn to its conversation and to the lease that claimed it, in both directions;
`DaemonAgrees` says what a daemon between two requests may rely on, and only as long as its turn runs: the version it
claimed is still that of the conversation, since nobody transfers or switches a conversation under a running turn.
`Supervision` and `SessionRoute` follow; `TurnsAdvance` is the action property that no turn runs twice. `LedgerRefinement`
maps every step to a step of `TurnLedger` or a stutter: that a claim takes the oldest message of a conversation and none behind one
in doubt follows from `RowsAgree`.

### Git integration

`GitIntegration_proofs`: a row's version determines which states it can be in (`VersionsOf`) and only grows (`Grows`), so a request that finds the
version it saw before its await finds the row it saw (`HandlerTrue`). From the `pc` of an execution follows what it
has published so far (`Progress`), so that a row in a final state tells the truth (`RowTrue`, `MergeTrue`). That needs the execution to
be alone (`Alone`) and not abandoned (`Attended`, `Abandoned`), which is `OneRequest`. `NothingLost`
and `PlansStay` are the action properties.

### Retention

`Retention_proofs`: of a run that has ended, files, container and workspace only go, and what a request was written down to do stays
(`Monotone`). What a request knew when it was interrupted therefore still holds at its next step (`CleanupAt`, `DeletionAt`), whoever acted
in between, and receipts that are repeated or overlap stay true (`Selection`, `Declaration`). The theorems are `ReceiptsHold`, `HoldsHold`,
`ListedBeforeDeleted` and `OnlyGoes`.

### Only model-checked

The liveness properties `ExecutionsSettle`, `QueuedIsClaimed`, `DaemonKeepsPolling`, `PhasesRest`, `ReadyIsDispatched` and `TurnsAreServed`:
fairness and `ENABLED` are beyond the prover. No theorem depends on what the transitive closure in `DependsOn` computes (it stays unexpanded, and is
recursive): the proofs hold whichever dependencies the store accepts. `ChangesAreLinked` does not hold (section 6). `WorkerOwnsExecution` and `ClaimedHasLiveLease`
are proved and no longer part of a run.

## 6. What the runs found

The violation run `linked_changes` quotes a document of the repository and shows a behaviour of
the code that differs from it (`findings` in `PROJECT.json`): a task change names its
conversation and is linked to whatever turn of it is running, but Pi goes on working when its turn
has timed out, and its process is used again for the next one.

Seven more were met while modelling, each shown by a counterexample of an instance that is not kept as a run:

1. After a crash between the journalled `container_start` and `createRun` there is no
   run row, and recovery looks at run rows only: the execution settles as failed, although
   `docs/features/execution-recovery/PRODUCT.md:116` asks for reconciliation.
2. A checkpoint authorised before a pause journals its effect after the execution settled as
   paused (`PRODUCT.md:64` of the same: no unresolved side effect).
3. `WorkspaceShell.terminate` waits for an exit event with no bound, and a client
   that died of the signal has `exitCode` null for ever (`PRODUCT.md:144`: bounded termination).
   `execution_settles` with `SignalledShell = TRUE` fails.
4. After a restart between claim and acceptance every retry is answered 409 and the daemon's
   inner loop has no exit (`TECH.md:126`: continue polling). `DaemonKeepsPolling` with a crash fails.
5. `automaticPipelineDirectives` and `scheduleOwnerTaskRun` disagree on a tested task that is in
   progress; after the owner reopened it during its test, which was then stopped, every poll
   of the project throws before it claims. `PhasesRest` with `Moves = {"reopen"}` fails. The same
   holds of a review that is due for a task which a resumed or replaced implementation left in progress, and
   keeps the project from dispatching, too (`ReadyDispatch`, `RefusedTasks`).
6. Automatic continuation does not look at how the implementation ended; a paused or cancelled
   one that had requested its review is followed by its test (`PRODUCT.md:111`: never).
7. The Ready queue is shown with limits of one, whatever `--project-capacity` and `--global-capacity` the server was started
   with (`scripts/serve.mjs:55`): `board()` and `taskDispatchProjection` (store 7876, 2132) name no capacities. With limits of two
   and one command at work, the task of rank 1 has the blockers `project_capacity` and `global_capacity` and
   is not eligible, and the next poll dispatches it, although
   `docs/features/deterministic-ready-scheduler/PRODUCT.md:54` has cockpit and terminal show why an automatic
   task is waiting. The invariant `NextReady(task, command, p, pressure) = t => Eligible(t)` fails after one poll of two released tasks.

Smaller observations made while modelling, checked by no run: `container_stop` is reconciled
as completed when inspecting the container failed, too (control-plane 2061); a run with a recorded
outcome and proven effects settles as paused, not succeeded, after a restart (2112); a
fence during `get_state` leaves the run row `running` until the next restart, which keeps the
task busy: no cancel, no scheduling, no continuation (1376); the catch block of `startTask`
ignores a failing `docker rm`, and the execution settles as failed while its container exists
(1446); a claim whose reply is lost stays claimed as long as the lease is
renewed (store 4645); `resolveReconciliationExecution` (store 5291) has no caller.

Instances of `TaskPipeline` with other `Moves`, tried once and not kept as runs, show why the
properties are checked where they are. With `replace`, `OnePhaseAtATime` fails: retry, resume and
replacement do not ask whether the task has another phase, although
`docs/features/workspace-phase-flow/PRODUCT.md:85` allows only one. With `recover` and `reset`,
`RevisionsDescend` fails: a candidate is accepted while another implementation runs, whose
commit then supersedes it unseen. With `recover`, `replace` and `resume`, `OutcomeIsCurrent` fails
for the same reason. With `complete` and `decide`, `DoneHasEvidence` fails: the owner completes a
task while a second test of it still runs, which then records its failure. A candidate that was already
authoritative and tested gets no second test when it is accepted, as its automatic key was used:
its completion stays blocked. A review that approved and was then interrupted leaves its task
with nothing due and not done, until the owner completes it.

Of the Ready queue: `mutateConversationTask` splits a task whose phase is queued or running, without the
guard of an update (store 4210, 4068), and makes it an umbrella with an active command, against
`docs/features/task-lifecycle-artifacts/PRODUCT.md:88`; `queueExecutionReplacement` (5539) asks neither for the
kind of the task nor whether it is archived; continuations and owner runs pass the limits by; the queued
command of a project whose daemon never returns holds a slot of the installation; a task whose agent released
it and whose execution was then paused or cancelled is dispatched again; the reset of a cancelled
execution starts an automatic task again at once.

Of conversations: the event handler of `execute` chains `projectEvent` and nobody awaits the chain after a
timeout, so a late event of an ended turn is an unhandled rejection and ends the daemon (`conversation-runtime.mjs:233`); a
live daemon that lost its lease never registers again (71); `execute` returns its completing request without
awaiting it, so its failure is not caught and the turn stays running (255); a stale `agent_settled`
may complete the next turn with the old text; nothing leads out of `reconciliation_required`; a transfer sets
a conversation to idle whether or not it is archived; the custody snapshot misses turns completed between export
and transfer (control-plane 2877, `docs/features/conversation-custody/PRODUCT.md:32`); a restart of the control
plane does not look at turns.

Of Git integration: gates and policy are checked before the awaits of an execution and not again, although
`docs/features/governed-git-integration/PRODUCT.md` (point 5) says that a stale preparation can never
execute; cancellation deletes branch and worktree, also those of an execution that has just started
(point 14: it does not modify Git state); `remoteTargetRevision` is never set, so the check of the remote target never
takes place; two concurrent executions of one merge request open two pull requests; a task that
completes the same revision again sets its merge request back to requested; a crash between the two updates of a
settlement leaves it so, too; an execution that finishes during an export stays `integrating` until the next restart,
after which it can only be cancelled.

Of retention: the repetition of a session's deletion does not look at holds, runs or evidence that came since
(`docs/features/runtime-retention/PRODUCT.md`, point 11); a repetition after the removals and before the settlement
replaces the manifest by a shorter one and loses the checksums of what it had removed (point 12); a session may be deleted while a run that
resumes it is starting, as that has no row yet, and cannot be deleted again; the worktree of a start that failed before its run row is never
listed for cleanup; a slower request under the same key may overwrite a complete receipt with `cleanup_pending`.

Read but not modelled: a crash between the rename and the tombstone of a project's deletion leaves the
project active without its checkout until the same request is repeated, and recovery does not look at it.

## 7. Not modelled

In the pipeline: `adoptTaskRecoveryRevision`, the endpoint that starts a session without a command, optimistic version
checks (every action is atomic, a stale request is refused without effect), and a replayed
automatic key whose model route changed, which is a conflict that throws.

In the other modules: the deletion of a project and the storage inventory; the archive of an export, its
verification and its restore (sequential file work); full-text search and memory import; the
identity of a repository, history policies and the results stored in receipts of an
integration; attachments and the display of a conversation's events; lists and views.

Snapshot effects of a run, heartbeats (expiry may come at any time instead), the contents of
prompts, artifacts, events and audits, and everything listed as `not_modelled` in
`PROJECT.json`: parts without state that a property could be about (catalog parsing, calibration reports, redaction, clients, the
cockpit, container images).
