----------------------------- MODULE TaskPipeline -----------------------------
(* The phases of a task: who schedules implementation, test and review, what *)
(* the agents, the owner and the host write into the task, and how its       *)
(* evidence leads to the next phase or to completion.                        *)
(*                                                                           *)
(* Of the execution of a command only what ExecutionAuthority promises is    *)
(* kept: it is granted authority once, fenced, then settled.  Every action   *)
(* is one synchronous stretch of the control plane, as every store call is.  *)
EXTENDS Naturals, FiniteSets

CONSTANTS
  Task,          \* executable tasks of one project
  Manual,        \* commands queued by the owner, a conversation or the scheduler
  None,          \* no task, no worker
  MaxRevision,   \* bound: commits of a task, the project revision included
  MaxStops,      \* bound: commands that are stopped before their success
  Dependency,    \* task_dependencies, pairs <<task, depends on>>
  Moves          \* bound: which interventions of the owner are explored

Phase == {"implementation", "test", "review"}
Revision == 1..MaxRevision

(* A command of automatic continuation is known by its idempotency key       *)
(* automatic-phase:<task>:<revision>:<phase>.                                *)
Automatic == [task : Task, revision : Revision, phase : {"test", "review"}]
Command == Manual \cup Automatic

ASSUME PipelineAssumption ==
  /\ MaxRevision \in Nat \ {0} /\ MaxStops \in Nat
  /\ Dependency \subseteq Task \X Task
  /\ None \notin Task \cup Command
  /\ Manual \cap Automatic = {}
  /\ Moves \subseteq {"replace", "resume", "retry", "reset", "reopen",
                       "complete", "decide", "recover"}

VARIABLES
  task,        \* the columns of tasks that decide about phases
  validation,  \* validations.status by task and revision
  review,      \* latest review by task and revision; "refused" asks for changes
  decision,    \* is a decision gate of the task open?
  commits,     \* commits made so far in worktrees of the task
  command,     \* orchestrator_commands with their execution and run
  candidate    \* recovery_candidates, by execution

evidence == <<validation, review, decision>>
vars == <<task, evidence, commits, command, candidate>>

Status == {"backlog", "ready", "in_progress", "review", "blocked", "done"}
Unsettled == {"queued", "claimed", "running", "ending", "fenced"}
Settled == {"succeeded", "failed", "paused", "cancelled", "reconciliation_required"}

(* state "running" has mutation authority, "ending" is fenced because the    *)
(* phase ended with its outcome, "fenced" for any other reason.              *)
NoCommand ==
  [state |-> "absent", task |-> None, phase |-> "none",
   resumed |-> FALSE,    \* payload.source = local_owner_resume
   base |-> 0,           \* base_revision of the execution, 0 when it has none
   actor |-> None,       \* actor_id of the worker capability
   session |-> FALSE,    \* does the run row say running?
   outcome |-> 0,        \* revision the run recorded its outcome for
   head |-> 0,           \* commit the run made in its worktree
   report |-> "none"]    \* was the commit recorded with the task?
QueuedCommand(t, p) == [NoCommand EXCEPT !.state = "queued", !.task = t, !.phase = p]

TypeOK ==
  /\ task \in [Task -> [status : Status, worker : Command \cup {None},
                        revision : Revision, requested : 0..MaxRevision,
                        validated : BOOLEAN, merging : BOOLEAN]]
  /\ validation \in [Task -> [Revision -> {"none", "passed", "failed"}]]
  /\ review \in [Task -> [Revision -> {"none", "approved", "refused"}]]
  /\ decision \in [Task -> BOOLEAN]
  /\ commits \in [Task -> Revision]
  /\ command \in [Command -> [state : {"absent"} \cup Unsettled \cup Settled,
                              task : Task \cup {None}, phase : Phase \cup {"none"},
                              resumed : BOOLEAN, base : 0..MaxRevision,
                              actor : Command \cup {None}, session : BOOLEAN,
                              outcome : 0..MaxRevision, head : 0..MaxRevision,
                              report : {"none", "pending", "done"}]]
  /\ candidate \in [Command -> [state : {"none", "pending", "ineligible", "accepted",
                                         "rejected"}, base : 0..MaxRevision]]

Init ==
  /\ task = [t \in Task |-> [status |-> "ready", worker |-> None, revision |-> 1,
                             requested |-> 0, validated |-> FALSE, merging |-> FALSE]]
  /\ validation = [t \in Task |-> [r \in Revision |-> "none"]]
  /\ review = [t \in Task |-> [r \in Revision |-> "none"]]
  /\ decision = [t \in Task |-> FALSE]
  /\ commits = [t \in Task |-> 1]
  /\ command = [c \in Command |-> NoCommand]
  /\ candidate = [c \in Command |-> [state |-> "none", base |-> 0]]

-----------------------------------------------------------------------------
(* What scheduling looks at.  tk and cm are the tasks and commands as they   *)
(* are at that point of the handler.                                         *)

BusyRunning(tk, cm, t) == \E c \in Command : cm[c].task = t /\ cm[c].session   \* mutant
Busy(tk, cm, t) ==
  \E c \in Command : cm[c].task = t /\ (cm[c].state \in Unsettled \/ cm[c].session)

DependenciesDone(tk, t) == \A d \in Task : <<t, d>> \in Dependency => tk[d].status = "done"

ReviewRequested(tk, t) == tk[t].requested = tk[t].revision

PhaseFitsInReview(tk, t, p) ==                        \* mutant
  \/ p = "implementation" /\ tk[t].status \in {"ready", "backlog"} /\ tk[t].worker = None
  \/ p # "implementation" /\ ReviewRequested(tk, t) /\ tk[t].status \in {"ready", "review"}
PhaseFits(tk, t, p) ==
  \/ /\ p = "implementation"
     /\ tk[t].status \in {"ready", "backlog"} /\ tk[t].worker = None
  \/ p = "test" /\ ReviewRequested(tk, t) /\ tk[t].status \in {"ready", "in_progress", "review"}
  \/ p = "review" /\ ReviewRequested(tk, t) /\ tk[t].status \in {"ready", "review"}

Schedulable(tk, cm, t, p) ==
  /\ ~Busy(tk, cm, t)
  /\ DependenciesDone(tk, t)
  /\ ~decision[t]
  /\ PhaseFits(tk, t, p)

(* What scheduling a phase writes into the task. *)
ScheduledTaskByPhase(row, p, c) ==                    \* mutant
  IF p = "implementation" THEN [row EXCEPT !.status = "in_progress", !.worker = c]
                          ELSE [row EXCEPT !.status = p]
ScheduledTask(row, p, c) ==
  IF p = "implementation" THEN [row EXCEPT !.status = "in_progress", !.worker = c]
                          ELSE [row EXCEPT !.status = "review"]

(* automaticPipelineDirectives: the phase the evidence calls for, if any.    *)
InPipeline(tk, t) == tk[t].status \notin {"done", "blocked"} /\ ReviewRequested(tk, t)
ReviewUntested(tk, cm, t) ==                          \* mutant
  IF InPipeline(tk, t) /\ ~Busy(tk, cm, t) /\ review[t][tk[t].revision] = "none"
  THEN "review" ELSE "none"
Directive(tk, cm, t) ==
  LET passed == validation[t][tk[t].revision]
      reviewed == review[t][tk[t].revision]
      idle == /\ InPipeline(tk, t) /\ ~Busy(tk, cm, t)
              /\ ~decision[t] /\ DependenciesDone(tk, t)
  IN CASE idle /\ passed = "none" -> "test"
       [] idle /\ passed = "passed" /\ reviewed = "none" -> "review"
       [] OTHER -> "none"

Key(tk, t, p) == [task |-> t, revision |-> tk[t].revision, phase |-> p]

(* Due to be scheduled: a key that was used before only replays its receipt. *)
Due(tk, cm, t) ==
  Directive(tk, cm, t) # "none" /\ cm[Key(tk, t, Directive(tk, cm, t))].state = "absent"
DueTasks(tk, cm) == {t \in Task : Due(tk, cm, t)}
RefusedTasks(tk, cm) ==
  {t \in DueTasks(tk, cm) : ~PhaseFits(tk, t, Directive(tk, cm, t))}

(* reconcileAutomaticProject schedules what the tasks are due, in turn.  A   *)
(* refusal by scheduleOwnerTaskRun throws: the tasks behind it get nothing.  *)
Continuations(tk, cm) ==
  IF RefusedTasks(tk, cm) = {} THEN {DueTasks(tk, cm)}
                               ELSE SUBSET (DueTasks(tk, cm) \ RefusedTasks(tk, cm))
ContinuedTask(tk, S) == [t \in Task |-> IF t \in S THEN ScheduledTask(tk[t], "test", None)
                                                    ELSE tk[t]]
ContinuedCommand(tk, cm, S) ==
  LET queued == {Key(tk, t, Directive(tk, cm, t)) : t \in S}
  IN [c \in Command |-> IF c \in queued THEN QueuedCommand(c.task, c.phase) ELSE cm[c]]
ReconcileAutomaticProject(tk, cm) ==
  \E S \in Continuations(tk, cm) :
    /\ task' = ContinuedTask(tk, S)
    /\ command' = ContinuedCommand(tk, cm, S)

-----------------------------------------------------------------------------
(* The project daemon.                                                       *)

(* A poll continues the pipelines and, unless that threw, claims a command;  *)
(* with storage limits configured it awaits the inventory in between.        *)
Claimed(cm, c) == [cm EXCEPT ![c].state = "claimed"]
ReconcileAutomaticPipelines ==
  /\ DueTasks(task, command) # {}
  /\ ReconcileAutomaticProject(task, command)
  /\ UNCHANGED <<evidence, commits, candidate>>
Poll(c) ==
  /\ command[c].state = "queued" \/ (c \in Automatic /\ command[c].state = "absent")
  /\ RefusedTasks(task, command) = {}
  /\ \E S \in Continuations(task, command) :
       LET cm == ContinuedCommand(task, command, S) IN
       /\ cm[c].state = "queued"
       /\ task' = ContinuedTask(task, S)
       /\ command' = Claimed(cm, c)
  /\ UNCHANGED <<evidence, commits, candidate>>

(* Commands that ended without success or are about to. *)
Stopped ==
  {c \in Command : command[c].state \in {"fenced"} \cup (Settled \ {"succeeded"})}
MayStop(S) == Cardinality(Stopped \cup S) <= MaxStops     \* bound

(* The lease is lost between claim and acceptance. *)
LoseClaim(c) ==
  /\ command[c].state = "claimed" /\ MayStop({c})
  /\ command' = [command EXCEPT ![c].state = "reconciliation_required"]
  /\ UNCHANGED <<task, evidence, commits, candidate>>

(* What the task looks like once the execution is accepted: an owner's       *)
(* resume lifts a block.                                                     *)
Resumed(c) ==
  LET row == task[command[c].task] IN
  IF command[c].resumed /\ row.status = "blocked"
  THEN [row EXCEPT !.status = IF command[c].phase = "implementation"
                              THEN "in_progress" ELSE "review"]
  ELSE row

(* The guards of startTask. *)
TaskStateAllowsPhase(row, p) ==
  IF p = "implementation" THEN row.worker # None /\ row.status = "in_progress"
                          ELSE row.status \in {"in_progress", "review"}
Blocked(row) == IF row.status = "done" THEN row ELSE [row EXCEPT !.status = "blocked"]

(* Accept the execution; the worker runs up to its first await, which is     *)
(* past the guards of startTask.                                             *)
AcceptCommandExecution(c) ==
  LET t == command[c].task
      row == Resumed(c)
      starts == TaskStateAllowsPhase(row, command[c].phase)
  IN /\ command[c].state = "claimed"
     /\ task' = [task EXCEPT ![t] = IF starts THEN row ELSE Blocked(row)]
     /\ command' = [command EXCEPT ![c].state = IF starts THEN "running" ELSE "failed",
                                   ![c].base = row.revision, ![c].actor = row.worker]
     /\ UNCHANGED <<evidence, commits, candidate>>

(* Pi runs and has its run row. *)
PiReady(c) ==
  /\ command[c].state = "running" /\ ~command[c].session
  /\ command' = [command EXCEPT ![c].session = TRUE]
  /\ UNCHANGED <<task, evidence, commits, candidate>>

-----------------------------------------------------------------------------
(* The agent.  authorizeCapability asks for an execution that still has its  *)
(* authority; the agent acts on requests of its prompt, so it has a run row. *)
CanActAfterFence(c, p) == command[c].session /\ command[c].phase = p   \* mutant
CanAct(c, p) == command[c].state = "running" /\ command[c].session /\ command[c].phase = p
IsAssigned(c) == command[c].actor = task[command[c].task].worker
Worker(c) == CanAct(c, "implementation") /\ IsAssigned(c)

ClaimTask(c) ==
  LET t == command[c].task IN
  /\ CanAct(c, "implementation")
  /\ \/ task[t].status \in {"ready", "backlog"} /\ (task[t].worker = None \/ IsAssigned(c))
     \/ task[t].status = "in_progress" /\ IsAssigned(c)
  /\ task' = [task EXCEPT ![t].status = "in_progress", ![t].worker = command[c].actor]
  /\ UNCHANGED <<evidence, commits, command, candidate>>

ReleaseTask(c) ==
  /\ Worker(c)
  /\ task' = [task EXCEPT ![command[c].task].status = "ready", ![command[c].task].worker = None]
  /\ UNCHANGED <<evidence, commits, command, candidate>>

BlockTask(c) ==
  /\ Worker(c) \/ CanAct(c, "test")
  /\ task' = [task EXCEPT ![command[c].task].status = "blocked"]
  /\ UNCHANGED <<evidence, commits, command, candidate>>

RequestReview(c) ==
  LET t == command[c].task IN
  /\ Worker(c)
  /\ task' = [task EXCEPT ![t].status = "review", ![t].requested = task[t].revision]
  /\ command' = [command EXCEPT ![c].outcome = task[t].revision]
  /\ UNCHANGED <<evidence, commits, candidate>>

RecordValidation(c) ==
  LET t == command[c].task IN
  /\ CanAct(c, "test")
  /\ \E verdict \in {"passed", "failed"} :
       /\ validation' = [validation EXCEPT ![t][task[t].revision] = verdict]
       /\ task' = [task EXCEPT ![t].validated = (verdict = "passed")]
  /\ command' = [command EXCEPT ![c].outcome = task[t].revision]
  /\ UNCHANGED <<review, decision, commits, candidate>>

SubmitReview(c) ==
  LET t == command[c].task IN
     /\ CanAct(c, "review")
     /\ ReviewRequested(task, t)
     /\ \E status \in {"review", "in_progress", "blocked"} :  \* approve, request_changes, blocked
          /\ review' = [review EXCEPT ![t][task[t].revision] =
                           IF status = "review" THEN "approved" ELSE "refused"]
          /\ task' = [task EXCEPT ![t].status = status]
     /\ command' = [command EXCEPT ![c].outcome = task[t].revision]
     /\ UNCHANGED <<validation, decision, commits, candidate>>

(* The host commits in the worktree, which started at the base revision.     *)
(* The request was authorised before; the commit is recorded later.          *)
Commit(c) ==
  LET t == command[c].task IN
  /\ CanAct(c, "implementation")
  /\ command[c].head = 0                             \* bound: one commit per run
  /\ commits[t] < MaxRevision                        \* bound
  /\ commits' = [commits EXCEPT ![t] = @ + 1]
  /\ command' = [command EXCEPT ![c].head = commits[t] + 1, ![c].report = "pending"]
  /\ UNCHANGED <<task, evidence, candidate>>

(* One candidate per execution and revision; it is bound to the revision the *)
(* task has when it is discovered.                                           *)
WithCandidate(cd, c, eligible) ==
  IF cd[c].state # "none" THEN cd
  ELSE [cd EXCEPT ![c] = [state |-> IF eligible THEN "pending" ELSE "ineligible",
                          base |-> task[command[c].task].revision]]
IsDirectDescendant(c) == command[c].base = task[command[c].task].revision

AdvanceRevision(c) ==
  LET t == command[c].task IN
  /\ task' = [task EXCEPT ![t].revision = command[c].head, ![t].requested = 0,
                          ![t].validated = FALSE, ![t].merging = FALSE]
  /\ UNCHANGED candidate
QuarantineRevision(c) ==
  /\ candidate' = WithCandidate(candidate, c, IsDirectDescendant(c))
  /\ UNCHANGED task
TrustLateRevision(c) == command[c].state # "running" /\ AdvanceRevision(c)   \* mutant
RecordLateRevision(c) == command[c].state # "running" /\ QuarantineRevision(c)

RecordHostGitRevision(c) ==
  /\ command[c].report = "pending"
  /\ command' = [command EXCEPT ![c].report = "done"]
  /\ \/ command[c].state = "running" /\ AdvanceRevision(c)
     \/ RecordLateRevision(c)
  /\ UNCHANGED <<evidence, commits>>

-----------------------------------------------------------------------------
(* The end of a phase.                                                       *)

(* evaluateCompletion *)
CompletionReviewed(t) ==                              \* mutant
  review[t][task[t].revision] = "approved" /\ ~decision[t] /\ DependenciesDone(task, t)
CompletionAllowed(t) ==
  /\ review[t][task[t].revision] = "approved"
  /\ validation[t][task[t].revision] = "passed" /\ task[t].validated
  /\ ~decision[t]
  /\ DependenciesDone(task, t)
CompletedTask(t) == [task EXCEPT ![t].status = "done", ![t].merging = TRUE]

(* taskPhaseOutcome: what this run recorded, judged at the current revision. *)
PhaseOutcomeOfRun(c) == command[c].outcome # 0        \* mutant
PhaseOutcomeRecorded(c) ==
  LET t == command[c].task
      ran == command[c].outcome # 0
  IN CASE command[c].phase = "implementation" -> ran /\ ReviewRequested(task, t)
       [] command[c].phase = "test" -> ran /\ validation[t][task[t].revision] # "none"
       [] command[c].phase = "review" -> command[c].outcome = task[t].revision
       [] OTHER -> FALSE

(* executeTaskPhase returns: a review may complete the task, then the        *)
(* execution is fenced.                                                      *)
EndPhase(c) ==
  LET t == command[c].task
      completes == command[c].phase = "review" /\ CompletionAllowed(t)
  IN /\ command[c].state = "running" /\ command[c].session
     /\ PhaseOutcomeRecorded(c)
     /\ command' = [command EXCEPT ![c].state = "ending"]
     /\ task' = IF completes THEN CompletedTask(t) ELSE task
     /\ UNCHANGED <<evidence, commits, candidate>>

(* Any other end: an error, a timer, the owner's stop, pause or cancel. *)
Fence(c) ==
  /\ command[c].state = "running" /\ MayStop({c})
  /\ command' = [command EXCEPT ![c].state = "fenced"]
  /\ UNCHANGED <<task, evidence, commits, candidate>>

Attention(c, state) ==
  IF state \in {"failed", "reconciliation_required"}
  THEN [task EXCEPT ![command[c].task] = Blocked(@)] ELSE task

SettleSucceeded(c) ==
  /\ command[c].state = "ending"
  /\ ReconcileAutomaticProject(task, [command EXCEPT ![c].state = "succeeded",
                                                     ![c].session = FALSE])
  /\ UNCHANGED <<evidence, commits, candidate>>

(* After a timeout a checkpoint that was recorded becomes a candidate. *)
CheckpointRecovery(c) ==
  IF command[c].report = "done"
  THEN WithCandidate(candidate, c, \/ command[c].head = task[command[c].task].revision
                                   \/ IsDirectDescendant(c))
  ELSE candidate

(* The run row stays behind when its session could not be stopped, and when  *)
(* it was inserted after the fence, which nothing stops.                     *)
SettleStopped(c) ==
  /\ command[c].state \in {"ending", "fenced"}
  /\ \E state \in Settled \ {"succeeded"}, session \in BOOLEAN :
       /\ command[c].state = "ending" => state = "reconciliation_required" /\ MayStop({c})
       /\ command[c].session /\ session => state = "reconciliation_required"
       /\ command' = [command EXCEPT ![c].state = state, ![c].session = session]
       /\ task' = Attention(c, state)
  /\ candidate' \in {candidate, CheckpointRecovery(c)}
  /\ UNCHANGED <<evidence, commits>>

(* The control plane dies and recovers: no phase is replayed, run rows are   *)
(* closed, a commit that was not recorded is found or stays unproven.        *)
Interrupted == {c \in Command : command[c].state \in {"running", "ending", "fenced"}}
RestartEnds ==
  {end \in [Interrupted -> {"failed", "paused", "reconciliation_required"}] :
     \A c \in Interrupted :
       /\ command[c].session => end[c] # "failed"
       /\ command[c].state = "running" /\ ~command[c].session => end[c] = "failed"}
Restart ==
  /\ Interrupted # {} \/ \E c \in Command : command[c].session
  /\ MayStop(Interrupted)
  /\ \E end \in RestartEnds,
        found \in SUBSET {c \in Command : command[c].report = "pending" /\ command[c].session} :
       LET attention == {command[c].task : c \in {d \in Interrupted : end[d] # "paused"}}
       IN /\ command' = [c \in Command |->
               [command[c] EXCEPT !.state = IF c \in Interrupted THEN end[c] ELSE @,
                                  !.session = FALSE,
                                  !.report = IF @ = "pending" /\ c \notin found THEN "none"
                                             ELSE IF c \in found THEN "done" ELSE @]]
          /\ task' = [t \in Task |-> IF t \in attention THEN Blocked(task[t]) ELSE task[t]]
          /\ candidate' = [c \in Command |-> IF c \in found
               THEN WithCandidate(candidate, c, IsDirectDescendant(c))[c] ELSE candidate[c]]
  /\ UNCHANGED <<evidence, commits>>

-----------------------------------------------------------------------------
(* The owner.                                                                *)

(* Scheduled by the owner, by a conversation or from the Ready queue. *)
ScheduleOwnerTaskRun(t, p, c) ==
  /\ c \in Manual /\ command[c].state = "absent"
  /\ Schedulable(task, command, t, p)
  /\ task' = [task EXCEPT ![t] = ScheduledTask(@, p, c)]
  /\ command' = [command EXCEPT ![c] = QueuedCommand(t, p)]
  /\ UNCHANGED <<evidence, commits, candidate>>

(* Resume asks for a worker and no running session, not for an idle queue. *)
ResumeOwnerTaskRun(t, p, c) ==
  /\ "resume" \in Moves
  /\ c \in Manual /\ command[c].state = "absent"
  /\ task[t].worker # None /\ task[t].status \in {"in_progress", "blocked", "review"}
  /\ \A d \in Command : command[d].task = t => ~command[d].session
  /\ command' = [command EXCEPT ![c] = [QueuedCommand(t, p) EXCEPT !.resumed = TRUE]]
  /\ UNCHANGED <<task, evidence, commits, candidate>>

(* Retry or resume of the execution of d. *)
QueueExecutionReplacement(d, c) ==
  LET t == command[d].task
      p == command[d].phase
  IN /\ "replace" \in Moves
     /\ c \in Manual /\ command[c].state = "absent"
     /\ command[d].base # 0 /\ command[d].state \in {"paused", "failed"}
     /\ candidate[d].state # "pending"
     /\ task' = [task EXCEPT ![t] = ScheduledTask(@, p, c)]
     /\ command' = [command EXCEPT ![c] = QueuedCommand(t, p)]
     /\ UNCHANGED <<evidence, commits, candidate>>

(* reconcileOrchestratorCommand on a command without execution, which is one *)
(* whose claim was lost: a copy is queued.                                   *)
RetryCommand(d, c) ==
  /\ "retry" \in Moves
  /\ c \in Manual /\ command[c].state = "absent"
  /\ command[d].base = 0 /\ command[d].state = "reconciliation_required"
  /\ command' = [command EXCEPT ![c] = QueuedCommand(command[d].task, command[d].phase)]
  /\ UNCHANGED <<task, evidence, commits, candidate>>

(* ... or, also when its execution was cancelled, the task is made Ready. *)
ResetCommand(d) ==
  /\ "reset" \in Moves
  /\ \/ command[d].base = 0 /\ command[d].state = "reconciliation_required"
     \/ command[d].base # 0 /\ command[d].state = "cancelled"
  /\ command' = [command EXCEPT ![d].state = "cancelled"]
  /\ task' = [task EXCEPT ![command[d].task].status = "ready", ![command[d].task].worker = None]
  /\ UNCHANGED <<evidence, commits, candidate>>

CancelUncertainExecution(c) ==
  /\ command[c].state = "reconciliation_required" /\ command[c].base # 0
  /\ ~command[c].session
  /\ command' = [command EXCEPT ![c].state = "cancelled"]
  /\ UNCHANGED <<task, evidence, commits, candidate>>

CompleteTask(t) ==
  /\ "complete" \in Moves
  /\ CompletionAllowed(t)
  /\ task' = CompletedTask(t)
  /\ UNCHANGED <<evidence, commits, command, candidate>>

ReopenTask(t) ==
  /\ "reopen" \in Moves
  /\ task' = [task EXCEPT ![t].status = "in_progress", ![t].merging = FALSE]
  /\ UNCHANGED <<evidence, commits, command, candidate>>

AddDecision(t) ==
  /\ "decide" \in Moves
  /\ decision' = [decision EXCEPT ![t] = TRUE]
  /\ UNCHANGED <<task, validation, review, commits, command, candidate>>

ResolveDecision(t) ==
  /\ decision[t]
  /\ decision' = [decision EXCEPT ![t] = FALSE]
  /\ UNCHANGED <<task, validation, review, commits, command, candidate>>

(* Accepting late evidence makes it the revision to be tested and continues  *)
(* the pipelines in the same request.                                        *)
AcceptedKeepingEvidence(c) ==                         \* mutant
  [task EXCEPT ![command[c].task].revision = command[c].head,
               ![command[c].task].requested = command[c].head,
               ![command[c].task].status = "review"]
AcceptedRevision(c) ==
  [task EXCEPT ![command[c].task].revision = command[c].head,
               ![command[c].task].requested = command[c].head,
               ![command[c].task].validated = FALSE, ![command[c].task].merging = FALSE,
               ![command[c].task].status = "review"]
AcceptRecoveryCandidate(c) ==
  /\ "recover" \in Moves
  /\ candidate[c].state = "pending"
  /\ task[command[c].task].revision = candidate[c].base
  /\ command[c].state \in Settled
  /\ candidate' = [candidate EXCEPT ![c].state = "accepted"]
  /\ ReconcileAutomaticProject(AcceptedRevision(c), command)
  /\ UNCHANGED <<evidence, commits>>

RejectRecoveryCandidate(c) ==
  /\ "recover" \in Moves
  /\ candidate[c].state = "pending"
  /\ candidate' = [candidate EXCEPT ![c].state = "rejected"]
  /\ UNCHANGED <<task, evidence, commits, command>>

-----------------------------------------------------------------------------

Daemon(c) == Poll(c) \/ LoseClaim(c) \/ AcceptCommandExecution(c)
Agent(c) ==
  \/ ClaimTask(c) \/ ReleaseTask(c) \/ BlockTask(c)
  \/ RequestReview(c) \/ RecordValidation(c) \/ SubmitReview(c)
  \/ Commit(c)
HostWorker(c) ==
  \/ PiReady(c) \/ RecordHostGitRevision(c)
  \/ EndPhase(c) \/ Fence(c) \/ SettleSucceeded(c) \/ SettleStopped(c)
OwnerOfCommand(c) ==
  \/ \E t \in Task, p \in Phase : ScheduleOwnerTaskRun(t, p, c) \/ ResumeOwnerTaskRun(t, p, c)
  \/ \E d \in Command : QueueExecutionReplacement(d, c) \/ RetryCommand(d, c)
  \/ ResetCommand(c) \/ CancelUncertainExecution(c)
  \/ AcceptRecoveryCandidate(c) \/ RejectRecoveryCandidate(c)
OwnerOfTask(t) == CompleteTask(t) \/ ReopenTask(t) \/ AddDecision(t) \/ ResolveDecision(t)

Next ==
  \/ ReconcileAutomaticPipelines \/ Restart
  \/ \E c \in Command : Daemon(c) \/ Agent(c) \/ HostWorker(c) \/ OwnerOfCommand(c)
  \/ \E t \in Task : OwnerOfTask(t)

Spec == Init /\ [][Next]_vars
-----------------------------------------------------------------------------
(* The phases progress although agents may do nothing: the daemon polls and  *)
(* accepts in a loop (its lease is not lost for ever), a prompt is bounded   *)
(* by its timers, and awaited host calls return.  A command is in one of     *)
(* these stages at a time, so that one fairness condition serves them all.   *)
Progress(c) ==
  \/ Poll(c) \/ AcceptCommandExecution(c)
  \/ EndPhase(c) \/ Fence(c)
  \/ SettleSucceeded(c) \/ SettleStopped(c)
Fairness == \A c \in Command : WF_vars(Progress(c))
FairSpec == Spec /\ Fairness

-----------------------------------------------------------------------------
(* Safety.                                                                   *)

Present(c) == command[c].state # "absent"

(* The flags of a task speak of its current revision: a recorded validation  *)
(* of this very revision stands behind "validated", and a review request is  *)
(* for this revision or withdrawn, whatever was committed, adopted, reset or *)
(* reopened in between (recordHostGitRevision, resolveRecoveryCandidate).    *)
EvidenceIsCurrent ==
  \A t \in Task :
    /\ task[t].validated => validation[t][task[t].revision] = "passed"
    /\ task[t].requested \in {0, task[t].revision}

(* Automatic continuation reviews only what was tested: it never skips a     *)
(* phase, even when the owner moves the task between two polls               *)
(* (automaticPipelineDirectives).                                            *)
AutomaticReviewWasTested ==
  \A c \in Automatic : c.phase = "review" /\ Present(c) => validation[c.task][c.revision] # "none"

(* Late evidence changes nothing by itself: the revision of a task moves     *)
(* under the authority of a running execution of that task, or because the   *)
(* owner accepts a candidate (recordHostGitRevision).                        *)
LateEvidenceIsQuarantined ==
  [][\A t \in Task : task'[t].revision # task[t].revision =>
       \E c \in Command :
         /\ command[c].task = t /\ command[c].head = task'[t].revision
         /\ \/ command[c].state = "running"
            \/ candidate[c].state = "pending" /\ candidate'[c].state = "accepted"]_vars

(* At most one phase of a task is queued, claimed or under way, as long as   *)
(* the owner does not resume, replace or retry (scheduleOwnerTaskRun).       *)
OnePhaseAtATime ==
  \A c, d \in Command :
    /\ command[c].state \in Unsettled /\ command[d].state \in Unsettled
    /\ command[c].task = command[d].task
    => c = d

(* The authoritative revision of a task only moves to a commit made on top   *)
(* of it: no phase overwrites work it has not seen (recordHostGitRevision    *)
(* does not compare the parent; one phase at a time makes it unnecessary).   *)
RevisionsDescend ==
  [][\A t \in Task : task'[t].revision # task[t].revision =>
       \E c \in Command : /\ command[c].task = t /\ command[c].head = task'[t].revision
                          /\ command[c].base = task[t].revision]_vars

(* A phase that ends with its outcome recorded it for the revision the task  *)
(* then has (taskPhaseOutcome asks for an event of the run and for evidence  *)
(* of the current revision, not for an event about the current revision).    *)
OutcomeIsCurrent ==
  [][\A c \in Command : command[c].state = "running" /\ command'[c].state = "ending" =>
       command[c].outcome = task[command[c].task].revision]_vars

(* A done task has a passed validation, an approving review and a merge      *)
(* request of its current revision, and nothing takes them away while it is  *)
(* done, as long as no phase was left running when it was completed.         *)
DoneHasEvidence ==
  \A t \in Task : task[t].status = "done" =>
    /\ validation[t][task[t].revision] = "passed" /\ task[t].validated
    /\ review[t][task[t].revision] = "approved"
    /\ task[t].merging

-----------------------------------------------------------------------------
(* What the pipeline takes from command execution.                           *)
AuthorityWhen(state, base) ==
  CASE state \in {"absent", "queued", "claimed"} -> "waiting"
    [] state \in Settled /\ base = 0 -> "withdrawn"
    [] state = "running" -> "granted"
    [] state \in {"ending", "fenced"} -> "fenced"
    [] state = "succeeded" /\ base # 0 -> "succeeded"
    [] state = "reconciliation_required" /\ base # 0 -> "quarantined"
    [] state \in {"failed", "paused", "cancelled"} /\ base # 0 -> "closed"

Authority == INSTANCE ExecutionAuthority
               WITH authority <- [c \in Command |-> AuthorityWhen(command[c].state, command[c].base)],
                    outcome <- [c \in Command |-> command[c].outcome # 0]

(* The commands of the pipeline keep the contract that CommandExecution      *)
(* implements: authority is granted once, the agent records its outcome only *)
(* under it, and success needs that outcome (authorizeCapability).           *)
ImplementsAuthority == Authority!Spec

-----------------------------------------------------------------------------
(* Liveness.                                                                 *)

(* What a task is due is scheduled, and every phase comes to an end: the     *)
(* pipeline neither stalls nor loops.                                        *)
PhasesRest ==
  \A t \in Task :
    []<>(/\ ~Due(task, command, t)
         /\ \A c \in Command : command[c].task = t => command[c].state \notin Unsettled)
=============================================================================
