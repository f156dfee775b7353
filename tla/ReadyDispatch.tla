----------------------------- MODULE ReadyDispatch -----------------------------
(* The Ready queue: which tasks may start without the owner, in which order, *)
(* and within which limits, while the owner edits the queue and schedules    *)
(* work besides it.  A command is kept only as far as it occupies capacity:  *)
(* its row, without its execution.                                           *)
EXTENDS Integers, Sequences, FiniteSets, SequencesExt

Digraph == INSTANCE Graphs

CONSTANTS
  Project,          \* projects of the installation
  Tasks,            \* bound: tasks are 1..Tasks, in the order of their ids
  ProjectOf,        \* tasks.project_id
  Dependency,       \* task_dependencies at the start, pairs <<task, depends on>>
  ProjectCapacity,  \* schedulerProjectCapacity
  GlobalCapacity,   \* schedulerGlobalCapacity
  Priority,         \* priorities the owner sets, a subset of -100..100
  MaxCommands,      \* bound: commands queued in all
  MaxClock,         \* bound: readings of the clock that tell releases apart
  MaxExpiries,      \* bound: leases that end
  Measured,         \* results of the storage inventory: may it block?
  Standing,         \* tasks that are released at the start
  Unborn,           \* tasks that do not exist at the start
  MaxInterventions  \* bound: owner operations that are no release

Task == 1..Tasks
None == 0

ASSUME DispatchAssumption ==
  /\ Tasks \in Nat /\ MaxCommands \in Nat /\ MaxClock \in Nat \ {0} /\ MaxExpiries \in Nat
  /\ ProjectOf \in [Task -> Project]
  /\ Dependency \subseteq Task \X Task
  /\ ProjectCapacity \in Nat \ {0} /\ GlobalCapacity \in Nat \ {0}
  /\ Priority \subseteq Int /\ 0 \in Priority
  /\ Standing \subseteq Task /\ Unborn \subseteq Task \ Standing /\ Measured \subseteq BOOLEAN /\ FALSE \in Measured
  /\ MaxInterventions \in Nat

VARIABLES
  task,       \* the columns of tasks that decide about dispatch
  dependency, \* task_dependencies
  decision,   \* is a decision gate of the task open?
  command,    \* orchestrator_commands in the order of their sequence
  lease,      \* has the project an active orchestrator?
  expiries,   \* leases that ended so far
  interventions, \* owner operations so far, releases apart
  pressure,   \* runtime flag storage_pressure, hardBlocked
  clock       \* the last reading that was written into a row

vars == <<task, dependency, decision, command, lease, expiries, interventions, pressure, clock>>

Status == {"absent", "ready", "in_progress", "review", "blocked", "done"}
Policy == {"manual", "automatic", "paused"}
Phase == {"implementation", "test", "review"}
Active == {"queued", "claimed", "running"}
Ended == {"succeeded", "failed", "paused", "cancelled", "reconciliation_required"}
Source == {"ready_scheduler", "automatic_phase_continuation", "owner", "local_owner_resume"}
Evidence == {"requested", "passed", "failed", "reviewed"}

TaskRow ==
  [status : Status, policy : Policy, priority : Priority,
   released : 0..MaxClock,       \* released_at, 0 when NULL
   worker : BOOLEAN,             \* assigned_worker
   archived : BOOLEAN,
   criteria : BOOLEAN,           \* has it acceptance criteria?
   executable : BOOLEAN,         \* task_kind
   evidence : SUBSET Evidence,   \* recorded of the current revision
   continued : SUBSET Phase]     \* phases whose automatic command it had
CommandRow == [task : Task, phase : Phase, source : Source, state : Active \cup Ended]

TypeOK ==
  /\ task \in [Task -> TaskRow]
  /\ dependency \subseteq Task \X Task
  /\ decision \in [Task -> BOOLEAN]
  /\ command \in Seq(CommandRow)
  /\ Len(command) <= MaxCommands
  /\ lease \in [Project -> BOOLEAN]
  /\ expiries \in 0..MaxExpiries
  /\ interventions \in 0..MaxInterventions
  /\ pressure \in BOOLEAN
  /\ clock \in 0..MaxClock

(* A task is created Ready and manual. *)
CreatedTask ==
  [status |-> "ready", policy |-> "manual", priority |-> 0, released |-> 0,
   worker |-> FALSE, archived |-> FALSE, criteria |-> TRUE, executable |-> TRUE,
   evidence |-> {}, continued |-> {}]

Init ==
  /\ task = [t \in Task |-> IF t \in Standing
                            THEN [CreatedTask EXCEPT !.policy = "automatic", !.released = 1]
                            ELSE IF t \in Unborn THEN [CreatedTask EXCEPT !.status = "absent"]
                            ELSE CreatedTask]
  /\ dependency = Dependency
  /\ decision = [t \in Task |-> FALSE]
  /\ command = <<>>
  /\ lease = [p \in Project |-> TRUE]
  /\ expiries = 0
  /\ interventions = 0
  /\ pressure = FALSE
  /\ clock = IF Standing = {} THEN 0 ELSE 1

-----------------------------------------------------------------------------
(* What the queries look at.                                                 *)

ActiveOrPaused(cm) == {i \in DOMAIN cm : cm[i].state \in Active \cup {"paused"}}   \* mutant
ActiveCommands(cm) == {i \in DOMAIN cm : cm[i].state \in Active}
ProjectActive(cm, p) == {i \in ActiveCommands(cm) : ProjectOf[cm[i].task] = p}
Busy(cm, t) == \E i \in ActiveCommands(cm) : cm[i].task = t

DependenciesDone(tk, t) == \A d \in Task : <<t, d>> \in dependency => tk[d].status = "done"

(* ORDER BY priority DESC, released_at, id *)
Before(tk, t, u) ==
  \/ tk[t].priority > tk[u].priority
  \/ tk[t].priority = tk[u].priority /\ tk[t].released < tk[u].released
  \/ tk[t].priority = tk[u].priority /\ tk[t].released = tk[u].released /\ t < u
First(tk, S) == CHOOSE t \in S : \A u \in S \ {t} : Before(tk, t, u)

(* The WHERE clause of dispatchNextReadyTask. *)
SelectableWhileBusy(tk, cm, t) ==                     \* mutant
  /\ tk[t].status \in {"ready", "in_progress"} /\ tk[t].executable /\ ~tk[t].archived
  /\ tk[t].policy = "automatic" /\ tk[t].released # 0
  /\ tk[t].criteria /\ DependenciesDone(tk, t) /\ ~decision[t] /\ ~Busy(cm, t)
Selectable(tk, cm, t) ==
  /\ tk[t].status = "ready" /\ tk[t].executable /\ ~tk[t].archived
  /\ ~tk[t].worker
  /\ tk[t].policy = "automatic" /\ tk[t].released # 0
  /\ tk[t].criteria
  /\ DependenciesDone(tk, t)
  /\ ~decision[t]
  /\ ~Busy(cm, t)

(* The limits it counts, before it selects. *)
CapacityOfProject(cm, p) ==                           \* mutant
  Cardinality(ProjectActive(cm, p)) < ProjectCapacity
CapacityLeft(cm, p) ==
  /\ Cardinality(ProjectActive(cm, p)) < ProjectCapacity
  /\ Cardinality(ActiveCommands(cm)) < GlobalCapacity

(* The task dispatchNextReadyTask would schedule now, None when it declines. *)
NextReady(tk, cm, p, blocked) ==
  LET S == {t \in Task : ProjectOf[t] = p /\ Selectable(tk, cm, t)}
  IN IF blocked \/ ~lease[p] \/ ~CapacityLeft(cm, p) \/ S = {} \/ Len(cm) >= MaxCommands
     THEN None ELSE First(tk, S)

(* ... and what it writes. *)
Scheduled(t, p, s) == [task |-> t, phase |-> p, source |-> s, state |-> "queued"]
ScheduledRow(row, p) ==
  [row EXCEPT !.status = IF p = "implementation" THEN "in_progress" ELSE "review",
              !.worker = @ \/ p = "implementation"]
StartedTask(tk, t, p) == [tk EXCEPT ![t] = ScheduledRow(tk[t], p)]
DispatchedTask(tk, cm, p, blocked) ==
  LET t == NextReady(tk, cm, p, blocked) IN IF t = None THEN tk
                                                 ELSE StartedTask(tk, t, "implementation")
DispatchedCommand(tk, cm, p, blocked) ==
  LET t == NextReady(tk, cm, p, blocked)
  IN IF t = None THEN cm ELSE Append(cm, Scheduled(t, "implementation", "ready_scheduler"))

(* readyDispatchCandidates: the blockers shown for a queued task, and its    *)
(* rank among the structurally eligible ones.  Whoever shows the queue names *)
(* no limits: they are taken to be one, whatever the scheduler's are.        *)
ShownCapacity == 1
InQueue(tk, t) == tk[t].policy \in {"automatic", "paused"} /\ ~tk[t].archived /\ tk[t].executable
Blockers(t) ==
  {b \in {"paused", "storage_pressure", "not_ready", "assigned", "missing_acceptance_criteria",
          "unresolved_dependency", "human_decision_required", "phase_active"} :
     \/ b = "paused" /\ task[t].policy = "paused"
     \/ b = "storage_pressure" /\ pressure
     \/ b = "not_ready" /\ task[t].status # "ready"
     \/ b = "assigned" /\ task[t].worker
     \/ b = "missing_acceptance_criteria" /\ ~task[t].criteria
     \/ b = "unresolved_dependency" /\ ~DependenciesDone(task, t)
     \/ b = "human_decision_required" /\ decision[t]
     \/ b = "phase_active" /\ Busy(command, t)}
Ranked(t) == InQueue(task, t) /\ Blockers(t) = {}
StructurallyEligible(p) == {t \in Task : ProjectOf[t] = p /\ Ranked(t)}
Rank(t) ==
  1 + Cardinality({u \in StructurallyEligible(ProjectOf[t]) \ {t} : Before(task, u, t)})
Eligible(t) ==
  /\ Ranked(t)
  /\ lease[ProjectOf[t]]
  /\ Cardinality(ProjectActive(command, ProjectOf[t])) < ShownCapacity
  /\ Cardinality(ActiveCommands(command)) < ShownCapacity

-----------------------------------------------------------------------------
(* Owner and conversations: setTaskDispatch.  The dispatch that the request  *)
(* for a release asks for next is ReconcileReadyProject.                     *)

Intervention ==
  /\ interventions < MaxInterventions
  /\ interventions' = interventions + 1

DispatchMutable(t) ==
  /\ ~task[t].archived /\ task[t].executable
  /\ ~Busy(command, t)
  /\ task[t].status = "ready" /\ ~task[t].worker

ReleasedOperation(t, now) ==                          \* mutant
  [task EXCEPT ![t].policy = "release", ![t].released = now]
ReleasedAgain(t, now) ==                              \* mutant
  [task EXCEPT ![t].policy = "automatic", ![t].released = now]
ReleasedTask(t, now) ==
  [task EXCEPT ![t].policy = "automatic",
               ![t].released = IF task[t].policy = "paused" THEN @ ELSE now]
Release(t) ==
  /\ DispatchMutable(t)
  /\ task[t].policy \in {"manual", "paused"}
  /\ task[t].criteria /\ DependenciesDone(task, t) /\ ~decision[t]
  /\ \E now \in {clock, clock + 1} \ {0} :
       /\ now <= MaxClock
       /\ clock' = now
       /\ task' = ReleasedTask(t, now)
  /\ UNCHANGED <<dependency, decision, command, lease, expiries, pressure, interventions>>

PauseDispatch(t) ==
  /\ Intervention
  /\ DispatchMutable(t)
  /\ task[t].policy = "automatic"
  /\ task' = [task EXCEPT ![t].policy = "paused"]
  /\ UNCHANGED <<dependency, decision, command, lease, expiries, pressure, clock>>

ManualizeDispatch(t) ==
  /\ Intervention
  /\ DispatchMutable(t)
  /\ task[t].policy \in {"automatic", "paused"}
  /\ task' = [task EXCEPT ![t].policy = "manual"]
  /\ UNCHANGED <<dependency, decision, command, lease, expiries, pressure, clock>>

SetPriority(t) ==
  /\ Intervention
  /\ DispatchMutable(t)
  /\ \E n \in Priority : task' = [task EXCEPT ![t].priority = n]
  /\ UNCHANGED <<dependency, decision, command, lease, expiries, pressure, clock>>

-----------------------------------------------------------------------------
(* Owner: operations beside the queue.                                       *)

(* updateOwnerTask; a change of kind needs an idle task. *)
UpdateOwnerTask(t) ==
  /\ Intervention
  /\ task[t].status \notin {"absent", "done"}
  /\ \E c, e \in BOOLEAN :
       /\ e # task[t].executable =>
            ~Busy(command, t) /\ task[t].status \notin {"in_progress", "review"}
       /\ task' = [task EXCEPT ![t].criteria = c, ![t].executable = e]
  /\ UNCHANGED <<dependency, decision, command, lease, expiries, pressure, clock>>

SetTaskArchived(t) ==
  /\ Intervention
  /\ task[t].status # "absent"
  /\ ~task[t].archived => ~Busy(command, t) /\ task[t].status \notin {"in_progress", "review"}
  /\ task' = [task EXCEPT ![t].archived = ~@]
  /\ UNCHANGED <<dependency, decision, command, lease, expiries, pressure, clock>>

CreateOwnerTask(t) ==
  /\ task[t].status = "absent"
  /\ task' = [task EXCEPT ![t] = CreatedTask]
  /\ UNCHANGED <<dependency, decision, command, lease, expiries, pressure, clock, interventions>>

(* A conversation splits a task: the parent becomes an umbrella, whatever it *)
(* is doing, and the child is a task like any other.                         *)
SplitTask(t, child) ==
  /\ Intervention
  /\ task[t].status \notin {"absent", "done"} /\ task[child].status = "absent"
  /\ ProjectOf[t] = ProjectOf[child]
  /\ task' = [task EXCEPT ![t].executable = FALSE, ![child] = CreatedTask]
  /\ UNCHANGED <<dependency, decision, command, lease, expiries, pressure, clock>>

(* ... or makes it wait for another one, unless that one waits for it. *)
DependencyGraph == [node |-> Task, edge |-> dependency]
DependsOn(d, t) == Digraph!ConnectionsIn(DependencyGraph)[d, t]
AddDependency(t, d) ==
  /\ Intervention
  /\ task[t].status \notin {"absent", "done"} /\ task[d].status # "absent"
  /\ t # d /\ ProjectOf[t] = ProjectOf[d] /\ ~DependsOn(d, t)
  /\ <<t, d>> \notin dependency
  /\ dependency' = dependency \cup {<<t, d>>}
  /\ UNCHANGED <<task, decision, command, lease, expiries, pressure, clock>>

(* A conversation or an agent asks for a decision; the owner decides. *)
RequireDecision(t) ==
  /\ Intervention
  /\ task[t].status \notin {"absent", "done"}
  /\ decision' = [decision EXCEPT ![t] = TRUE]
  /\ UNCHANGED <<task, dependency, command, lease, expiries, pressure, clock>>

ResolveDecision(t) ==
  /\ Intervention
  /\ decision[t]
  /\ decision' = [decision EXCEPT ![t] = FALSE]
  /\ UNCHANGED <<task, dependency, command, lease, expiries, pressure, clock>>

(* The phase scheduleOwnerTaskRun finds the task ready for.  The store takes *)
(* a task in the backlog, too: agents create those, with a worker.           *)
PhaseAllowed(row, p) ==
  \/ p = "implementation" /\ row.status = "ready" /\ ~row.worker
  \/ /\ p = "test" /\ "requested" \in row.evidence
     /\ row.status \in {"ready", "in_progress", "review"}
  \/ /\ p = "review" /\ "requested" \in row.evidence
     /\ row.status \in {"ready", "review"}

(* scheduleOwnerTaskRun for a phase of the owner's choice. *)
OwnerRun(t, p) ==
  /\ Intervention
  /\ ~task[t].archived /\ task[t].executable
  /\ DependenciesDone(task, t) /\ ~decision[t]
  /\ lease[ProjectOf[t]] /\ ~Busy(command, t)
  /\ PhaseAllowed(task[t], p)
  /\ Len(command) < MaxCommands
  /\ task' = StartedTask(task, t, p)
  /\ command' = Append(command, Scheduled(t, p, "owner"))
  /\ UNCHANGED <<dependency, decision, lease, expiries, pressure, clock>>

(* resumeOwnerTaskRun asks for a worker and for no run row that is running.  *)
(* A queued or claimed command has none, and an accepted one none before Pi  *)
(* is there: it may or may not stop the request.                             *)
ResumeOwnerTaskRun(t, p) ==
  /\ Intervention
  /\ ~task[t].archived /\ task[t].executable
  /\ task[t].worker /\ task[t].status \in {"in_progress", "blocked", "review"}
  /\ lease[ProjectOf[t]]
  /\ Len(command) < MaxCommands
  /\ command' = Append(command, Scheduled(t, p, "local_owner_resume"))
  /\ UNCHANGED <<task, dependency, decision, lease, expiries, pressure, clock>>

(* Explicit recovery: reset makes the task Ready whatever it does now, and   *)
(* its policy is what it was; a replacement queues the phase again.          *)
ResetCommand(i) ==
  /\ Intervention
  /\ command[i].state \in {"cancelled", "reconciliation_required"}
  /\ command' = [command EXCEPT ![i].state = "cancelled"]
  /\ task' = [task EXCEPT ![command[i].task].status = "ready",
                          ![command[i].task].worker = FALSE]
  /\ UNCHANGED <<dependency, decision, lease, expiries, pressure, clock>>

ReplaceCommand(i) ==
  /\ Intervention
  /\ command[i].state \in {"failed", "paused"}
  /\ lease[ProjectOf[command[i].task]]
  /\ Len(command) < MaxCommands
  /\ command' = Append(command, Scheduled(command[i].task, command[i].phase, "owner"))
  /\ task' = StartedTask(task, command[i].task, command[i].phase)
  /\ UNCHANGED <<dependency, decision, lease, expiries, pressure, clock>>

-----------------------------------------------------------------------------
(* Project daemon.                                                           *)

(* automaticPipelineDirectives: the phase that the evidence calls for.  A    *)
(* command of the same key is not scheduled twice.                           *)
DuePhase(row) ==
  CASE "requested" \notin row.evidence -> "none"
    [] "requested" \in row.evidence /\ row.evidence \cap {"passed", "failed"} = {} -> "test"
    [] row.evidence = {"requested", "passed"} -> "review"
    [] OTHER -> "none"
Due(tk, cm, t) ==
  /\ DuePhase(tk[t]) # "none" /\ DuePhase(tk[t]) \notin tk[t].continued
  /\ tk[t].status \notin {"absent", "blocked", "done"}
  /\ tk[t].executable /\ ~tk[t].archived
  /\ ~Busy(cm, t) /\ DependenciesDone(tk, t) /\ ~decision[t]
DueTasks(tk, cm, p) == {t \in Task : ProjectOf[t] = p /\ Due(tk, cm, t)}

(* What scheduleOwnerTaskRun refuses for one of them fails the request: the  *)
(* tasks before it are scheduled, those after it are not looked at.          *)
PhaseFits(tk, t) == lease[ProjectOf[t]] /\ PhaseAllowed(tk[t], DuePhase(tk[t]))
RefusedTasks(tk, cm, p) == {t \in DueTasks(tk, cm, p) : ~PhaseFits(tk, t)}

(* reconcileAutomaticProject: every one of them is scheduled, whatever the   *)
(* limits, the one that changed least recently first.                        *)
Continuations(tk, cm, p) ==
  LET due == DueTasks(tk, cm, p)
      refused == RefusedTasks(tk, cm, p)
  IN UNION {SetToSeqs(S) : S \in IF refused = {} THEN {due} ELSE SUBSET (due \ refused)}
ContinuedCommand(tk, cm, q) ==
  cm \o [k \in DOMAIN q |-> Scheduled(q[k], DuePhase(tk[q[k]]), "automatic_phase_continuation")]
ContinuedRow(row) ==
  [ScheduledRow(row, DuePhase(row)) EXCEPT !.continued = @ \cup {DuePhase(row)}]
ContinuedTask(tk, q) ==
  [t \in Task |-> IF t \in Range(q) THEN ContinuedRow(tk[t]) ELSE tk[t]]

(* A claim request reconciles first, then awaits the storage inventory, ... *)
ReconcileAutomaticProject(p) ==
  /\ lease[p]
  /\ \E q \in Continuations(task, command, p) \ {<<>>} :
       /\ command' = ContinuedCommand(task, command, q)
       /\ task' = ContinuedTask(task, q)
  /\ Len(command') <= MaxCommands
  /\ UNCHANGED <<dependency, decision, lease, expiries, pressure, clock, interventions>>

(* ... then dispatches one task and claims the oldest queued command. *)
ClaimedCommand(cm, p) ==
  LET Q == {i \in DOMAIN cm : cm[i].state = "queued" /\ ProjectOf[cm[i].task] = p}
  IN IF Q = {} THEN cm ELSE [cm EXCEPT ![Min(Q)].state = "claimed"]
Poll(p) ==
  /\ lease[p]
  /\ \E blocked \in Measured :
       /\ pressure' = blocked
       /\ task' = DispatchedTask(task, command, p, blocked)
       /\ command' = ClaimedCommand(DispatchedCommand(task, command, p, blocked), p)
  /\ <<task, command, pressure>>' # <<task, command, pressure>>
  /\ UNCHANGED <<dependency, decision, lease, expiries, clock, interventions>>

(* What a release and the end of a phase ask for besides. *)
ReconcileReadyProject(p) ==
  /\ \E blocked \in Measured :
       /\ pressure' = blocked
       /\ task' = DispatchedTask(task, command, p, blocked)
       /\ command' = DispatchedCommand(task, command, p, blocked)
  /\ task' # task
  /\ UNCHANGED <<dependency, decision, lease, expiries, clock, interventions>>

(* The acceptance of a resumed phase unblocks its task. *)
ResumedRow(row, cm) ==
  IF cm.source = "local_owner_resume" /\ row.status = "blocked"
  THEN [row EXCEPT !.status = IF cm.phase = "implementation" THEN "in_progress" ELSE "review"]
  ELSE row
AcceptCommandExecution(i) ==
  /\ command[i].state = "claimed"
  /\ command' = [command EXCEPT ![i].state = "running"]
  /\ task' = [task EXCEPT ![command[i].task] = ResumedRow(@, command[i])]
  /\ UNCHANGED <<dependency, decision, lease, expiries, pressure, clock, interventions>>

(* The lease ends: claimed commands are lost, queued ones wait. *)
ExpireOrchestratorLease(p) ==
  /\ lease[p] /\ expiries < MaxExpiries
  /\ expiries' = expiries + 1
  /\ lease' = [lease EXCEPT ![p] = FALSE]
  /\ command' = [i \in DOMAIN command |->
                   IF command[i].state = "claimed" /\ ProjectOf[command[i].task] = p
                   THEN [command[i] EXCEPT !.state = "reconciliation_required"]
                   ELSE command[i]]
  /\ UNCHANGED <<task, dependency, decision, pressure, clock, interventions>>

RegisterProjectOrchestrator(p) ==
  /\ ~lease[p]
  /\ lease' = [lease EXCEPT ![p] = TRUE]
  /\ UNCHANGED <<task, dependency, decision, command, expiries, pressure, clock, interventions>>

-----------------------------------------------------------------------------
(* Agent and worker.                                                         *)

AgentRelease(i) ==
  /\ command[i].state = "running" /\ command[i].phase = "implementation"
  /\ task[command[i].task].worker
  /\ task' = [task EXCEPT ![command[i].task].status = "ready",
                          ![command[i].task].worker = FALSE]
  /\ UNCHANGED <<dependency, decision, command, lease, expiries, pressure, clock, interventions>>

(* What the agent of a phase may have recorded in the task when it ends: a   *)
(* request for review, of the revision at hand or of a new one; a validation *)
(* of either kind; a review that approves, asks for changes or blocks.       *)
NewRevision(row) == [row EXCEPT !.evidence = {}, !.continued = {}]
ReviewRequested(row) == [row EXCEPT !.status = "review", !.evidence = @ \cup {"requested"}]
Validated(row, verdict) ==
  [row EXCEPT !.evidence = (@ \ {"passed", "failed"}) \cup {verdict}]
Reviewed(row, status) == [row EXCEPT !.status = status, !.evidence = @ \cup {"reviewed"}]
Recorded(row, p) ==
  CASE p = "implementation" -> {ReviewRequested(row), ReviewRequested(NewRevision(row))}
    [] p = "test" -> {Validated(row, "passed"), Validated(row, "failed")}
    [] p = "review" -> IF "requested" \in row.evidence
                       THEN {Reviewed(row, s) : s \in {"review", "in_progress", "blocked"}}
                       ELSE {}

(* An approval completes the task if nothing else is missing. *)
Completed(t, p, row) ==
  IF /\ p = "review" /\ row.status = "review" /\ "passed" \in row.evidence
     /\ DependenciesDone(task, t) /\ ~decision[t]
  THEN [row EXCEPT !.status = "done"] ELSE row
Outcomes(i) ==
  {Completed(command[i].task, command[i].phase, row) :
     row \in Recorded(task[command[i].task], command[i].phase)}

(* A phase ends with its outcome, and the pipeline continues at once. *)
SettleSucceeded(i) ==
  /\ command[i].state = "running"
  /\ \E row \in Outcomes(i) :
       LET p == ProjectOf[command[i].task]
           tk == [task EXCEPT ![command[i].task] = row]
           cm == [command EXCEPT ![i].state = "succeeded"]
       IN \E q \in Continuations(tk, cm, p) :
            /\ command' = ContinuedCommand(tk, cm, q)
            /\ task' = ContinuedTask(tk, q)
  /\ Len(command') <= MaxCommands
  /\ UNCHANGED <<dependency, decision, lease, expiries, pressure, clock, interventions>>

(* It may be stopped before or after it recorded an outcome, a completed one *)
(* when the stop of its session fails; a failure blocks the task until the   *)
(* owner acts.                                                               *)
Unfinished(row, p) ==
  {row} \cup Recorded(row, p) \cup IF p = "implementation" THEN {NewRevision(row)} ELSE {}
Attended(row, s) ==
  IF s \in {"failed", "reconciliation_required"} /\ row.status # "done"
  THEN [row EXCEPT !.status = "blocked"]
  ELSE row
SettleStopped(i) ==
  LET t == command[i].task IN
  /\ command[i].state = "running"
  /\ \E s \in Ended \ {"succeeded"} :
       \E row \in Unfinished(task[t], command[i].phase)
                  \cup IF s = "reconciliation_required" THEN Outcomes(i) ELSE {} :
         /\ command' = [command EXCEPT ![i].state = s]
         /\ task' = [task EXCEPT ![t] = Attended(row, s)]
  /\ UNCHANGED <<dependency, decision, lease, expiries, pressure, clock, interventions>>

Owner ==
  \E t \in Task :
    \/ Release(t) \/ PauseDispatch(t) \/ ManualizeDispatch(t) \/ SetPriority(t)
    \/ UpdateOwnerTask(t) \/ SetTaskArchived(t) \/ CreateOwnerTask(t)
    \/ RequireDecision(t) \/ ResolveDecision(t)
    \/ \E p \in Phase : OwnerRun(t, p) \/ ResumeOwnerTaskRun(t, p)
    \/ \E u \in Task : SplitTask(t, u) \/ AddDependency(t, u)

Execution(i) ==
  \/ ResetCommand(i) \/ ReplaceCommand(i)
  \/ AcceptCommandExecution(i) \/ AgentRelease(i) \/ SettleSucceeded(i) \/ SettleStopped(i)

Daemon(p) ==
  \/ ReconcileAutomaticProject(p) \/ Poll(p) \/ ReconcileReadyProject(p)
  \/ ExpireOrchestratorLease(p) \/ RegisterProjectOrchestrator(p)

Next ==
  \/ Owner
  \/ \E i \in DOMAIN command : Execution(i)
  \/ \E p \in Project : Daemon(p)

Spec == Init /\ [][Next]_vars

(* Every project keeps a daemon that polls, and phases end (their prompts    *)
(* are bounded).  Storage pressure is measured anew on every poll.  A claim  *)
(* request that a refused continuation fails gets no further.                *)
Fairness ==
  /\ \A p \in Project :
       /\ WF_vars(RefusedTasks(task, command, p) = {} /\ Poll(p))
       /\ WF_vars(ReconcileAutomaticProject(p)) /\ WF_vars(RegisterProjectOrchestrator(p))
  /\ \A i \in 1..MaxCommands :
       WF_vars(i \in DOMAIN command
                 /\ (AcceptCommandExecution(i) \/ SettleStopped(i) \/ SettleSucceeded(i)))
FairSpec == Spec /\ Fairness

-----------------------------------------------------------------------------
(* Properties.                                                               *)

(* What the scheduler put to work never exceeds a limit, however its         *)
(* dispatches, continuations, owner commands and lost leases interleave.     *)
SchedulerWithinLimits ==
  LET mine == {i \in ActiveCommands(command) : command[i].source = "ready_scheduler"}
  IN /\ Cardinality(mine) <= GlobalCapacity
     /\ \A p \in Project :
          Cardinality({i \in mine : ProjectOf[command[i].task] = p}) <= ProjectCapacity

(* The order the cockpit shows is the order the scheduler works in: the task *)
(* with rank 1 is the one dispatched next as soon as the scheduler's limits  *)
(* and the lease allow it, and nothing is dispatched when no task has a      *)
(* rank.  Two queries, one order, but not the same limits: what is shown as  *)
(* eligible is dispatched next, but where a limit is above one the scheduler *)
(* also dispatches what is shown as waiting for capacity.                    *)
RankOneIsNext ==
  Len(command) < MaxCommands =>
    \A p \in Project :
      LET first == {t \in StructurallyEligible(p) : Rank(t) = 1}
          next == NextReady(task, command, p, pressure)
      IN /\ (IF lease[p] /\ CapacityLeft(command, p) THEN first ELSE {})
               = (IF next = None THEN {} ELSE {next})
         /\ \A t \in first : Eligible(t) => t = next

(* Two queued tasks change places only when somebody sets a priority: a      *)
(* pause, a resume, an archival or an attempt that came back do not move a   *)
(* task, and one that enters the queue stands behind those of its priority.  *)
PlacesAreKept ==
  [][\A t, u \in Task :
       (/\ task'[t].priority = task[t].priority /\ task'[u].priority = task[u].priority
        /\ task[u].policy # "manual" /\ task'[u].policy # "manual"
        /\ task'[t].policy # "manual") =>
         IF task[t].policy # "manual"
         THEN Before(task, t, u) <=> Before(task', t, u)
         ELSE task[t].priority = task[u].priority => task'[t].released >= task'[u].released]_vars

(* A task the queue shows as startable, apart from capacity and lease, is    *)
(* dispatched or stops being startable.                                      *)
ReadyIsDispatched ==
  \A t \in Task :
    Ranked(t) /\ Len(command) < MaxCommands ~> ~Ranked(t) \/ Len(command) >= MaxCommands
=============================================================================
