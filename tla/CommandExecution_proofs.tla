------------------------ MODULE CommandExecution_proofs ------------------------
(* Proofs about CommandExecution for every set of commands and leases, every  *)
(* credential limit and any number of crashes.                                *)
(*                                                                            *)
(* Inv is inductive.  It says of one command at a time what its rows and its  *)
(* worker have in common; every operation but lease loss, crash and restart   *)
(* touches the rows of one command only, so a step is proved by showing that  *)
(* the other rows stay (OnlyRow) and that the touched ones remain coherent.   *)
EXTENDS CommandExecutionRefinement, TLAPS

Error == {"none", "failed", "uncertain"}
Generation == {0, LaunchGeneration, LaunchGeneration + 1}
CapabilityState == {"none", "live", "revoked"}

Coherent(c) ==
  /\ execution[c] = "absent" => command[c] \notin {"running", "paused"}
  /\ execution[c] \in NonTerminal => command[c] = "running"
  /\ execution[c] \in Terminal => command[c] = execution[c]
  /\ Serving => (execution[c] \in NonTerminal <=> worker[c] # "none")
  /\ ~Serving => worker[c] = "none"
  /\ server = "recovering" => execution[c] \notin Active
  /\ capability[c] = "live" => AssertExecutionGeneration(c)
  /\ execution[c] \in Active => generation[c] = LaunchGeneration
  /\ execution[c] = "absent" \/ worker[c] = "setup" => binding[c] = "nothing"
  /\ capability[c] = "live" => binding[c] # "nothing"
  /\ worker[c] \in {"credential", "container", "pi", "undo"} => binding[c] # "nothing"
  /\ worker[c] \in {"prompt", "wrapup", "stopping"} => binding[c] = "session"
  /\ stopper[c]["worker"] # "idle" <=> worker[c] = "stopping"
  /\ worker[c] = "stopping" =>
       execution[c] = "stopping" /\ (caught[c] = "none" => outcome[c])

Inv == TypeOK /\ \A c \in Command : Coherent(c)

(* What Coherent reads of d is what it was. *)
SameRow(d) ==
  /\ command'[d] = command[d]
  /\ execution'[d] = execution[d]
  /\ generation'[d] = generation[d]
  /\ binding'[d] = binding[d]
  /\ capability'[d] = capability[d]
  /\ outcome'[d] = outcome[d]
  /\ worker'[d] = worker[d]
  /\ caught'[d] = caught[d]
  /\ stopper'[d] = stopper[d]
OnlyRow(c) == \A d \in Command \ {c} : SameRow(d)

LEMMA FrameRow ==
  ASSUME NEW d, Coherent(d), SameRow(d), server' = server
  PROVE  Coherent(d)'
  BY DEF Coherent, SameRow, Serving, AssertExecutionGeneration

LEMMA FrameOne ==
  ASSUME Inv, NEW c \in Command, TypeOK', OnlyRow(c), server' = server, Coherent(c)'
  PROVE  Inv'
  BY FrameRow DEF Inv, OnlyRow

LEMMA FrameAll ==
  ASSUME Inv, TypeOK', \A d \in Command : SameRow(d), server' = server
  PROVE  Inv'
  BY FrameRow DEF Inv

-----------------------------------------------------------------------------
(* Fence, settlement and the end of executeTaskPhase *)

LEMMA SettlementIsTerminal ==
  ASSUME TypeOK, NEW c \in Command, NEW error \in Error, NEW effects
  PROVE  /\ SettlementState(c, error, effects) \in Terminal
         /\ SettlementState(c, error, effects) = "succeeded" =>
              error = "none" /\ receipt[c] = "none"
<1>1. receipt[c] \in {"none", "stop", "pause", "cancel"}
  BY DEF TypeOK
<1>2. CASE error = "none"
  BY <1>1, <1>2 DEF SettlementState, DesiredState, Terminal
<1>3. CASE error = "failed"
  BY <1>1, <1>3 DEF SettlementState, DesiredState, Terminal
<1>4. CASE error = "uncertain"
  BY <1>4 DEF SettlementState, DesiredState, Terminal
<1>5. QED  BY <1>2, <1>3, <1>4 DEF Error

LEMMA SettleRow ==
  ASSUME TypeOK, NEW c \in Command, NEW state \in Terminal, SettleExecution(c, state)
  PROVE  /\ execution' \in [Command -> ExecutionState]
         /\ command' \in [Command -> CommandState]
         /\ worker' \in [Command -> WorkerStep]
         /\ execution'[c] = state /\ command'[c] = state /\ worker'[c] = "none"
         /\ \A d \in Command \ {c} : /\ execution'[d] = execution[d]
                                    /\ command'[d] = command[d]
                                    /\ worker'[d] = worker[d]
  BY DEF TypeOK, SettleExecution, Terminal, ExecutionState, CommandState, WorkerStep

LEMMA FenceRow ==
  ASSUME TypeOK, NEW c \in Command, Coherent(c), FenceExecution(c)
  PROVE  /\ generation' \in [Command -> Generation]
         /\ capability' \in [Command -> CapabilityState]
         /\ capability'[c] # "live"
         /\ \A d \in Command \ {c} : /\ generation'[d] = generation[d]
                                    /\ capability'[d] = capability[d]
<1>1. /\ generation \in [Command -> Generation]
      /\ capability \in [Command -> CapabilityState]
  BY DEF TypeOK, Generation, CapabilityState
<1>2. /\ execution[c] \in Active => generation[c] = LaunchGeneration
      /\ capability[c] = "live" => binding[c] # "nothing"
  BY DEF Coherent
<1>3. FencedGeneration(c) \in [Command -> Generation]
  BY <1>1, <1>2 DEF FencedGeneration, Generation, LaunchGeneration
<1>4. RevokedCapability(c) \in [Command -> CapabilityState]
  BY <1>1 DEF RevokedCapability, CapabilityState
<1>5. RevokedCapability(c)[c] # "live"
  BY <1>1, <1>2 DEF RevokedCapability
<1>6. \A d \in Command \ {c} : /\ FencedGeneration(c)[d] = generation[d]
                              /\ RevokedCapability(c)[d] = capability[d]
  BY <1>1 DEF FencedGeneration, RevokedCapability
<1>7. QED  BY <1>3, <1>4, <1>5, <1>6 DEF FenceExecution

LEMMA BeginStopRow ==
  ASSUME TypeOK, NEW c \in Command, NEW k \in Caller, BeginStop(c, k)
  PROVE  /\ stopper' \in [Command -> [Caller -> StopStep]]
         /\ stopper'[c][k] # "idle"
         /\ \A j \in Caller \ {k} : stopper'[c][j] = stopper[c][j]
         /\ \A d \in Command \ {c} : stopper'[d] = stopper[d]
  BY DEF TypeOK, BeginStop, StopStep

LEMMA DaemonMoves ==
  ASSUME TypeOK, NEW l \in Lease, NEW to \in Command \cup {None},
         daemon' \in {daemon, [daemon EXCEPT ![l] = to]}
  PROVE  daemon' \in [Lease -> Command \cup {None}]
<1>1. daemon \in [Lease -> Command \cup {None}]
  BY DEF TypeOK
<1>2. [daemon EXCEPT ![l] = to] \in [Lease -> Command \cup {None}]
  BY <1>1
<1>3. QED  BY <1>1, <1>2

(* The two ways the worker leaves executeTaskPhase. *)
StopsSession(c, error) ==
  /\ binding[c] = "session"
  /\ execution' = [execution EXCEPT ![c] = "stopping"]
  /\ worker' = [worker EXCEPT ![c] = "stopping"]
  /\ caught' = [caught EXCEPT ![c] = error]
  /\ BeginStop(c, "worker")
  /\ UNCHANGED command

SettlesAtOnce(c) ==
  /\ \E state \in Terminal : SettleExecution(c, state)
  /\ UNCHANGED <<caught, stopper>>

LEMMA ReturnsCases ==
  ASSUME TypeOK, NEW c \in Command, NEW error \in Error, NEW effects,
         ExecuteTaskPhaseReturns(c, error, effects)
  PROVE  FenceExecution(c) /\ (StopsSession(c, error) \/ SettlesAtOnce(c))
<1>1. FenceExecution(c)
  BY DEF ExecuteTaskPhaseReturns
<1>2. SettlementState(c, error, effects) \in Terminal
  BY SettlementIsTerminal
<1>3. "reconciliation_required" \in Terminal
  BY DEF Terminal
<1>4. CASE binding[c] = "session" /\ managed[c]
  BY <1>4 DEF ExecuteTaskPhaseReturns, StopsSession
<1>5. CASE binding[c] = "session" /\ ~managed[c]
  BY <1>3, <1>5 DEF ExecuteTaskPhaseReturns, SettlesAtOnce
<1>6. CASE binding[c] # "session"
  BY <1>2, <1>6 DEF ExecuteTaskPhaseReturns, SettlesAtOnce
<1>7. QED  BY <1>1, <1>4, <1>5, <1>6

ReturnTypes ==
  /\ execution' \in [Command -> ExecutionState]
  /\ command' \in [Command -> CommandState]
  /\ worker' \in [Command -> WorkerStep]
  /\ generation' \in [Command -> Generation]
  /\ capability' \in [Command -> CapabilityState]
  /\ caught' \in [Command -> Error]
  /\ stopper' \in [Command -> [Caller -> StopStep]]

(* Leaving executeTaskPhase keeps the row coherent, whatever the error, as    *)
(* long as "no error" means that the outcome is recorded.                     *)
LEMMA ReturnsRow ==
  ASSUME TypeOK, NEW c \in Command, Coherent(c), NEW error \in Error, NEW effects,
         ExecuteTaskPhaseReturns(c, error, effects),
         Serving, UNCHANGED <<server, outcome>>,
         worker[c] # "none", worker[c] # "stopping",
         error = "none" => outcome[c],
         \A d \in Command \ {c} : binding'[d] = binding[d],
         binding[c] = "session" => binding'[c] = "session"
  PROVE  ReturnTypes /\ OnlyRow(c) /\ Coherent(c)'
<1>1. FenceExecution(c) /\ (StopsSession(c, error) \/ SettlesAtOnce(c))
  BY ReturnsCases
<1>2. /\ generation' \in [Command -> Generation]
      /\ capability' \in [Command -> CapabilityState]
      /\ capability'[c] # "live"
      /\ \A d \in Command \ {c} : /\ generation'[d] = generation[d]
                                 /\ capability'[d] = capability[d]
  BY <1>1, FenceRow
<1>3. stopper[c]["worker"] = "idle"
  BY DEF Coherent
<1>4. CASE StopsSession(c, error)
  <2>1. /\ stopper' \in [Command -> [Caller -> StopStep]]
        /\ stopper'[c]["worker"] # "idle"
        /\ \A d \in Command \ {c} : stopper'[d] = stopper[d]
    BY <1>4, BeginStopRow DEF StopsSession, Caller
  <2>2. /\ execution' \in [Command -> ExecutionState]
        /\ worker' \in [Command -> WorkerStep]
        /\ caught' \in [Command -> Error]
        /\ command' \in [Command -> CommandState]
    BY <1>4 DEF TypeOK, StopsSession, ExecutionState, NonTerminal, WorkerStep, Error
  <2>3. /\ execution'[c] = "stopping" /\ worker'[c] = "stopping" /\ caught'[c] = error
        /\ command'[c] = command[c]
        /\ \A d \in Command \ {c} : /\ execution'[d] = execution[d]
                                   /\ worker'[d] = worker[d]
                                   /\ caught'[d] = caught[d]
                                   /\ command'[d] = command[d]
    BY <1>4 DEF TypeOK, StopsSession
  <2>4. OnlyRow(c)
    BY <1>2, <2>1, <2>3 DEF OnlyRow, SameRow
  <2>5. binding'[c] = "session"
    BY <1>4 DEF StopsSession
  <2>6. command[c] = "running"
    BY DEF Coherent
  <2>7. Coherent(c)'
    BY <1>2, <2>1, <2>3, <2>5, <2>6
    DEF Coherent, Serving, Active, NonTerminal, Terminal
  <2>8. QED  BY <1>2, <2>1, <2>2, <2>4, <2>7 DEF ReturnTypes
<1>5. CASE SettlesAtOnce(c)
  <2>1. PICK state \in Terminal : SettleExecution(c, state)
    BY <1>5 DEF SettlesAtOnce
  <2>2. /\ execution' \in [Command -> ExecutionState]
        /\ command' \in [Command -> CommandState]
        /\ worker' \in [Command -> WorkerStep]
        /\ execution'[c] = state /\ command'[c] = state /\ worker'[c] = "none"
        /\ \A d \in Command \ {c} : /\ execution'[d] = execution[d]
                                   /\ command'[d] = command[d]
                                   /\ worker'[d] = worker[d]
    BY <2>1, SettleRow
  <2>3. /\ caught' = caught /\ stopper' = stopper
        /\ caught \in [Command -> Error]
        /\ stopper \in [Command -> [Caller -> StopStep]]
    BY <1>5 DEF SettlesAtOnce, TypeOK, Error
  <2>4. OnlyRow(c)
    BY <1>2, <2>2, <2>3 DEF OnlyRow, SameRow
  <2>5. Coherent(c)'
    BY <1>2, <1>3, <2>2, <2>3 DEF Coherent, Serving, Active, NonTerminal, Terminal
  <2>6. QED  BY <1>2, <2>2, <2>3, <2>4, <2>5 DEF ReturnTypes
<1>6. QED  BY <1>1, <1>4, <1>5

-----------------------------------------------------------------------------
(* The steps of Next, by component *)

LEMMA QueuePreservesInv ==
  ASSUME Inv, QueueStep
  PROVE  Inv'
<1>1. TypeOK /\ \A c \in Command : Coherent(c)
  BY DEF Inv
<1>2. ASSUME NEW l \in Lease, RegisterProjectOrchestrator(l)
      PROVE  Inv'
  <2>1. lease' = [lease EXCEPT ![l] = "active"]
    BY <1>2 DEF RegisterProjectOrchestrator
  <2>2. lease' \in [Lease -> {"none", "active", "expired", "released"}]
    BY <1>1, <2>1 DEF TypeOK
  <2>3. TypeOK'
    BY <1>1, <1>2, <2>2 DEF TypeOK, RegisterProjectOrchestrator, rest_of_queue, memory
  <2>4. QED
    BY <1>2, <2>3, FrameAll DEF SameRow, RegisterProjectOrchestrator, rest_of_queue,
      memory
<1>3. ASSUME NEW l \in Lease, ExpireOrchestratorLease(l)
      PROVE  Inv'
  <2>1. /\ lease' = [lease EXCEPT ![l] = "expired"]
        /\ command' = [c \in Command |-> IF command[c] = "claimed" /\ holder[c] = l
                                         THEN "reconciliation_required" ELSE command[c]]
    BY <1>3 DEF ExpireOrchestratorLease, ReconcileClaimedCommands
  <2>2. lease' \in [Lease -> {"none", "active", "expired", "released"}] /\ command' \in [Command -> CommandState]
    BY <1>1, <2>1 DEF TypeOK, CommandState
  <2>3. TypeOK'
    BY <1>1, <1>3, <2>2 DEF TypeOK, ExpireOrchestratorLease, rest_of_queue, memory
  <2>4. ASSUME NEW c \in Command  PROVE Coherent(c)'
    <3>1. /\ Coherent(c)
          /\ \/ command'[c] = command[c]
             \/ command[c] = "claimed" /\ command'[c] = "reconciliation_required"
      BY <1>1, <2>1
    <3>2. command[c] = "claimed" => execution[c] = "absent"
      BY <1>1, <3>1 DEF Coherent, TypeOK, ExecutionState, Terminal, NonTerminal, Active
    <3>3. UNCHANGED <<execution, generation, binding, capability, outcome, worker, caught,
                      stopper, server>>
      BY <1>3 DEF ExpireOrchestratorLease, rest_of_queue, memory
    <3>4. QED  BY <3>1, <3>2, <3>3 DEF Coherent, Serving, AssertExecutionGeneration,
        NonTerminal, Terminal, Active
  <2>5. QED  BY <2>3, <2>4 DEF Inv
<1>4. ASSUME NEW l \in Lease, ReleaseProjectOrchestrator(l)
      PROVE  Inv'
  <2>1. /\ lease' = [lease EXCEPT ![l] = "released"]
        /\ command' = [c \in Command |-> IF command[c] = "claimed" /\ holder[c] = l
                                         THEN "reconciliation_required" ELSE command[c]]
    BY <1>4 DEF ReleaseProjectOrchestrator, ReconcileClaimedCommands
  <2>2. lease' \in [Lease -> {"none", "active", "expired", "released"}] /\ command' \in [Command -> CommandState]
    BY <1>1, <2>1 DEF TypeOK, CommandState
  <2>3. TypeOK'
    BY <1>1, <1>4, <2>2 DEF TypeOK, ReleaseProjectOrchestrator, rest_of_queue, memory
  <2>4. ASSUME NEW c \in Command  PROVE Coherent(c)'
    <3>1. /\ Coherent(c)
          /\ \/ command'[c] = command[c]
             \/ command[c] = "claimed" /\ command'[c] = "reconciliation_required"
      BY <1>1, <2>1
    <3>2. command[c] = "claimed" => execution[c] = "absent"
      BY <1>1, <3>1 DEF Coherent, TypeOK, ExecutionState, Terminal, NonTerminal, Active
    <3>3. UNCHANGED <<execution, generation, binding, capability, outcome, worker, caught,
                      stopper, server>>
      BY <1>4 DEF ReleaseProjectOrchestrator, rest_of_queue, memory
    <3>4. QED  BY <3>1, <3>2, <3>3 DEF Coherent, Serving, AssertExecutionGeneration,
        NonTerminal, Terminal, Active
  <2>5. QED  BY <2>3, <2>4 DEF Inv
<1>5. ASSUME NEW c \in Command, EnqueueOrchestratorCommand(c)
      PROVE  Inv'
  <2>1. /\ command' = [command EXCEPT ![c] = "queued"]
        /\ order' = Append(order, c)
        /\ command[c] = "absent"
    BY <1>5 DEF EnqueueOrchestratorCommand
  <2>2. /\ command' \in [Command -> CommandState]
        /\ order' \in Seq(Command)
    BY <1>1, <2>1 DEF TypeOK, CommandState
  <2>3. TypeOK'
    BY <1>1, <1>5, <2>2 DEF TypeOK, EnqueueOrchestratorCommand, rest_of_queue, memory
  <2>4. /\ command'[c] = "queued"
        /\ \A d \in Command \ {c} : command'[d] = command[d]
    BY <1>1, <2>1 DEF TypeOK
  <2>5. OnlyRow(c) /\ server' = server
    BY <1>5, <2>4 DEF OnlyRow, SameRow, EnqueueOrchestratorCommand, rest_of_queue,
      memory
  <2>6. Coherent(c)'
    BY <1>1, <1>5, <2>1, <2>4 DEF Coherent, Serving, Active, NonTerminal, Terminal,
      AssertExecutionGeneration, EnqueueOrchestratorCommand, rest_of_queue, memory
  <2>7. QED  BY <2>3, <2>5, <2>6, FrameOne
<1>6. ASSUME NEW c \in Command, ResetOrchestratorCommand(c)
      PROVE  Inv'
  <2>1. /\ command' = [command EXCEPT ![c] = "cancelled"]
        /\ execution[c] \in {"absent", "cancelled"}
    BY <1>6 DEF ResetOrchestratorCommand, Accepted
  <2>2. command' \in [Command -> CommandState]
    BY <1>1, <2>1 DEF TypeOK, CommandState
  <2>3. TypeOK'
    BY <1>1, <1>6, <2>2 DEF TypeOK, ResetOrchestratorCommand, Accepted, rest_of_queue,
      memory
  <2>4. /\ command'[c] = "cancelled"
        /\ \A d \in Command \ {c} : command'[d] = command[d]
    BY <1>1, <2>1 DEF TypeOK
  <2>5. OnlyRow(c) /\ server' = server
    BY <1>6, <2>4 DEF OnlyRow, SameRow, ResetOrchestratorCommand, Accepted,
      rest_of_queue, memory
  <2>6. Coherent(c)'
    BY <1>1, <1>6, <2>1, <2>4 DEF Coherent, Serving, Active, NonTerminal, Terminal,
      AssertExecutionGeneration, ResetOrchestratorCommand, Accepted, rest_of_queue,
      memory
  <2>7. QED  BY <2>3, <2>5, <2>6, FrameOne
<1>7. ASSUME NEW l \in Lease, NEW c \in Command, ClaimOrchestratorCommand(l, c)
      PROVE  Inv'
  <2>1. /\ command' = [command EXCEPT ![c] = "claimed"]
        /\ holder' = [holder EXCEPT ![c] = l]
        /\ command[c] = "queued"
        /\ daemon' \in {daemon, [daemon EXCEPT ![l] = c]}
    BY <1>7 DEF ClaimOrchestratorCommand
  <2>2. /\ command' \in [Command -> CommandState]
        /\ holder' \in [Command -> Lease \cup {None}]
        /\ daemon' \in [Lease -> Command \cup {None}]
    BY <1>1, <2>1, DaemonMoves DEF TypeOK, CommandState
  <2>3. TypeOK'
    BY <1>1, <1>7, <2>2 DEF TypeOK, ClaimOrchestratorCommand, rest_of_queue, memory
  <2>4. /\ command'[c] = "claimed"
        /\ \A d \in Command \ {c} : command'[d] = command[d]
    BY <1>1, <2>1 DEF TypeOK
  <2>5. OnlyRow(c) /\ server' = server
    BY <1>7, <2>4 DEF OnlyRow, SameRow, ClaimOrchestratorCommand, rest_of_queue,
      memory
  <2>6. Coherent(c)'
    BY <1>1, <1>7, <2>1, <2>4 DEF Coherent, Serving, Active, NonTerminal, Terminal,
      AssertExecutionGeneration, ClaimOrchestratorCommand, rest_of_queue, memory
  <2>7. QED  BY <2>3, <2>5, <2>6, FrameOne
<1>8. ASSUME NEW l \in Lease, NEW c \in Command,
             NEW state \in {"succeeded", "failed"}, CompleteOrchestratorCommand(l, c, state)
      PROVE  Inv'
  <2>1. /\ command' = [command EXCEPT ![c] = state]
        /\ daemon' = [daemon EXCEPT ![l] = None]
        /\ execution[c] = "absent"
    BY <1>8 DEF CompleteOrchestratorCommand, Accepted
  <2>2. /\ command' \in [Command -> CommandState]
        /\ daemon' \in [Lease -> Command \cup {None}]
    BY <1>1, <2>1 DEF TypeOK, CommandState
  <2>3. TypeOK'
    BY <1>1, <1>8, <2>2 DEF TypeOK, CompleteOrchestratorCommand, Accepted,
      rest_of_queue, memory
  <2>4. /\ command'[c] = state
        /\ \A d \in Command \ {c} : command'[d] = command[d]
    BY <1>1, <2>1 DEF TypeOK
  <2>5. OnlyRow(c) /\ server' = server
    BY <1>8, <2>4 DEF OnlyRow, SameRow, CompleteOrchestratorCommand, Accepted,
      rest_of_queue, memory
  <2>6. Coherent(c)'
    BY <1>1, <1>8, <2>1, <2>4 DEF Coherent, Serving, Active, NonTerminal, Terminal,
      AssertExecutionGeneration, CompleteOrchestratorCommand, Accepted, rest_of_queue,
      memory
  <2>7. QED  BY <2>3, <2>5, <2>6, FrameOne
<1>9. ASSUME NEW l \in Lease, NEW c \in Command, AcceptCommandExecution(l, c)
      PROVE  Inv'
  <2>1. /\ Serving
        /\ daemon' \in {daemon, [daemon EXCEPT ![l] = None]}
        /\ UNCHANGED <<binding, capability, outcome, server, caught, stopper>>
    BY <1>9 DEF AcceptCommandExecution
  <2>2. SUFFICES /\ worker' \in [Command -> WorkerStep] /\ command' \in [Command -> CommandState]
                 /\ execution' \in [Command -> ExecutionState]
                 /\ generation' \in [Command -> Generation]
                 /\ OnlyRow(c) /\ Coherent(c)'
    <3>1. daemon' \in [Lease -> Command \cup {None}]
      BY <1>1, <2>1, DaemonMoves
    <3>2. TypeOK'
      BY <1>1, <1>9, <2>1, <2>2, <3>1 DEF TypeOK, Generation, AcceptCommandExecution, queue
    <3>3. QED  BY <2>1, <2>2, <3>2, FrameOne
  <2>3. Coherent(c)
    BY <1>1
  <2>4. CASE ReplayAcceptance(c)
    <3>1. /\ worker' \in [Command -> WorkerStep]
          /\ worker'[c] = IF worker[c] = "none" /\ execution[c] \in Active
                          THEN "setup" ELSE worker[c]
          /\ \A d \in Command \ {c} : worker'[d] = worker[d]
          /\ UNCHANGED <<command, execution, generation>>
          /\ command' \in [Command -> CommandState]
          /\ execution' \in [Command -> ExecutionState]
          /\ generation' \in [Command -> Generation]
      BY <1>1, <2>4 DEF TypeOK, ReplayAcceptance, WorkerStep, StartStep, Generation
    <3>2. worker'[c] = worker[c]
      BY <2>1, <2>3, <3>1 DEF Coherent, NonTerminal
    <3>3. OnlyRow(c) /\ SameRow(c)
      BY <2>1, <3>1, <3>2 DEF OnlyRow, SameRow
    <3>4. Coherent(c)'
      BY <2>1, <2>3, <3>3, FrameRow
    <3>5. QED  BY <3>1, <3>3, <3>4
  <2>5. CASE FirstAcceptance(c)
    <3>1. execution[c] = "absent" /\ command[c] = "claimed"
      BY <2>5 DEF FirstAcceptance, Accepted
    <3>2. /\ worker[c] = "none" /\ stopper[c]["worker"] = "idle"
          /\ capability[c] # "live" /\ binding[c] = "nothing"
      BY <2>1, <2>3, <3>1 DEF Coherent, NonTerminal, Active, AssertExecutionGeneration
    <3>3. CASE /\ command' = [command EXCEPT ![c] = "running"]
               /\ execution' = [execution EXCEPT ![c] = "starting"]
               /\ generation' = [generation EXCEPT ![c] = LaunchGeneration]
               /\ worker' = [worker EXCEPT ![c] = "setup"]
      <4>1. /\ worker' \in [Command -> WorkerStep] /\ command' \in [Command -> CommandState]
            /\ execution' \in [Command -> ExecutionState]
            /\ generation' \in [Command -> Generation]
        BY <1>1, <3>3 DEF TypeOK, WorkerStep, StartStep, CommandState, ExecutionState,
            NonTerminal, Active, Generation
      <4>2. /\ worker'[c] = "setup" /\ command'[c] = "running" /\ execution'[c] = "starting"
            /\ generation'[c] = LaunchGeneration
            /\ \A d \in Command \ {c} : /\ worker'[d] = worker[d]
                                       /\ command'[d] = command[d]
                                       /\ execution'[d] = execution[d]
                                       /\ generation'[d] = generation[d]
        BY <1>1, <3>3 DEF TypeOK
      <4>3. OnlyRow(c)
        BY <2>1, <4>2 DEF OnlyRow, SameRow
      <4>4. Coherent(c)'
        BY <2>1, <3>2, <4>2 DEF Coherent, Serving, NonTerminal, Active, Terminal
      <4>5. QED  BY <4>1, <4>3, <4>4
    <3>4. CASE /\ SettleExecution(c, "failed")
               /\ generation' = [generation EXCEPT ![c] = LaunchGeneration + 1]
      <4>1. /\ worker' \in [Command -> WorkerStep] /\ command' \in [Command -> CommandState]
            /\ execution' \in [Command -> ExecutionState]
            /\ execution'[c] = "failed" /\ command'[c] = "failed" /\ worker'[c] = "none"
            /\ \A d \in Command \ {c} : /\ execution'[d] = execution[d]
                                       /\ command'[d] = command[d]
                                       /\ worker'[d] = worker[d]
        BY <1>1, <3>4, SettleRow DEF Terminal
      <4>2. /\ generation' \in [Command -> Generation]
            /\ \A d \in Command \ {c} : generation'[d] = generation[d]
        BY <1>1, <3>4 DEF TypeOK, Generation
      <4>3. OnlyRow(c)
        BY <2>1, <4>1, <4>2 DEF OnlyRow, SameRow
      <4>4. Coherent(c)'
        BY <2>1, <3>2, <4>1 DEF Coherent, Serving, NonTerminal, Active, Terminal
      <4>5. QED  BY <4>1, <4>2, <4>3, <4>4
    <3>5. QED  BY <2>5, <3>3, <3>4 DEF FirstAcceptance
  <2>6. QED  BY <1>9, <2>4, <2>5 DEF AcceptCommandExecution
<1>10. QED
  BY <1>2, <1>3, <1>4, <1>5, <1>6, <1>7, <1>8, <1>9 DEF QueueStep

LEMMA StartPreservesInv ==
  ASSUME Inv, NEW c \in Command, StartTask(c)
  PROVE  Inv'
<1>1. TypeOK /\ Coherent(c)
  BY DEF Inv
<1>2. CASE WorkspaceCreated(c)
  <2>1. /\ binding' = [binding EXCEPT ![c] = "run"]
        /\ Serving /\ worker[c] = "setup" /\ UNCHANGED <<server, outcome>>
    BY <1>2 DEF WorkspaceCreated, untouched_by_start
  <2>2. /\ binding' \in [Command -> {"nothing", "run", "session"}]
        /\ binding'[c] = "run"
        /\ \A d \in Command \ {c} : binding'[d] = binding[d]
    BY <1>1, <2>1 DEF TypeOK
  <2>3. CASE AssertExecutionGeneration(c) /\ CredentialSlotFree
    <3>1. /\ worker' = [worker EXCEPT ![c] = "credential"]
          /\ slot' = slot \cup {c}
          /\ UNCHANGED <<command, execution, generation, capability, caught, stopper>>
      BY <1>2, <2>3 DEF WorkspaceCreated
    <3>2. /\ worker' \in [Command -> WorkerStep]
          /\ worker'[c] = "credential"
          /\ \A d \in Command \ {c} : worker'[d] = worker[d]
          /\ slot' \in SUBSET Command
      BY <1>1, <3>1 DEF TypeOK, WorkerStep, StartStep
    <3>3. TypeOK'
      BY <1>1, <1>2, <2>2, <3>1, <3>2 DEF TypeOK, WorkspaceCreated, untouched_by_start,
          queue
    <3>4. OnlyRow(c)
      BY <2>1, <2>2, <3>1, <3>2 DEF OnlyRow, SameRow
    <3>5. Coherent(c)'
      BY <1>1, <2>1, <2>2, <3>1, <3>2 DEF Coherent, Serving, AssertExecutionGeneration
    <3>6. QED  BY <2>1, <3>3, <3>4, <3>5, FrameOne
  <2>4. CASE ~(AssertExecutionGeneration(c) /\ CredentialSlotFree)
    <3>1. PICK error \in {"failed", "uncertain"} : ExecuteTaskPhaseReturns(c, error, effect[c])
      BY <1>2, <2>4 DEF WorkspaceCreated
    <3>2. binding[c] # "session"
      BY <1>1, <2>1 DEF Coherent
    <3>3. ReturnTypes /\ OnlyRow(c) /\ Coherent(c)'
      BY <1>1, <2>1, <2>2, <3>1, <3>2, ReturnsRow DEF Error
    <3>4. TypeOK'
      BY <1>1, <1>2, <2>2, <2>4, <3>3
      DEF TypeOK, ReturnTypes, Generation, CapabilityState, Error, WorkspaceCreated, untouched_by_start, queue
    <3>5. QED  BY <2>1, <3>3, <3>4, FrameOne
  <2>5. QED  BY <2>3, <2>4
<1>3. CASE WorkspaceFails(c)
  <2>1. PICK error, effects : /\ error \in Error
                              /\ ExecuteTaskPhaseReturns(c, error, effects)
                              /\ error = "none" => outcome[c]
    BY <1>3 DEF WorkspaceFails, Error
  <2>2. /\ Serving
        /\ worker[c] = "setup"
        /\ UNCHANGED <<server, outcome, binding>>
    BY <1>3 DEF WorkspaceFails, untouched_by_start, queue
  <2>3. ReturnTypes /\ OnlyRow(c) /\ Coherent(c)'
    BY <1>1, <2>1, <2>2, ReturnsRow
  <2>5. TypeOK'
    BY <1>1, <1>3, <2>3 DEF TypeOK, ReturnTypes, Generation, CapabilityState, Error,
      WorkspaceFails, untouched_by_start, queue
  <2>6. QED  BY <2>2, <2>3, <2>5, FrameOne
<1>4. CASE CredentialMaterialized(c)
  <2>1. /\ capability' = [capability EXCEPT ![c] = "live"]
        /\ effect' = [effect EXCEPT ![c]["container_start"] = "intent"]
        /\ worker' = [worker EXCEPT ![c] = "container"]
        /\ worker[c] = "credential"
        /\ Serving
        /\ AssertExecutionGeneration(c)
    BY <1>4 DEF CredentialMaterialized
  <2>2. /\ capability' \in [Command -> CapabilityState]
        /\ effect' \in [Command -> [Kind -> EffectState]]
        /\ worker' \in [Command -> WorkerStep]
    BY <1>1, <2>1 DEF TypeOK, CapabilityState, Kind, EffectState, WorkerStep,
      StartStep
  <2>3. TypeOK'
    BY <1>1, <1>4, <2>2 DEF TypeOK, CapabilityState, CredentialMaterialized,
      untouched_by_start, queue
  <2>4. /\ capability'[c] = "live"
        /\ worker'[c] = "container"
        /\ \A d \in Command \ {c} : /\ capability'[d] = capability[d]
                                    /\ worker'[d] = worker[d]
    BY <1>1, <2>1 DEF TypeOK
  <2>5. OnlyRow(c) /\ server' = server
    BY <1>4, <2>4 DEF OnlyRow, SameRow, CredentialMaterialized, untouched_by_start,
      queue
  <2>6. Coherent(c)'
    BY <1>1, <1>4, <2>1, <2>4 DEF Coherent, Serving, Active, NonTerminal, Terminal,
      AssertExecutionGeneration, CredentialMaterialized, untouched_by_start, queue
  <2>7. QED  BY <2>3, <2>5, <2>6, FrameOne
<1>5. CASE CredentialRejected(c)
  <2>1. PICK error, effects : /\ error \in Error
                              /\ ExecuteTaskPhaseReturns(c, error, effects)
                              /\ error = "none" => outcome[c]
    BY <1>5 DEF CredentialRejected, Error
  <2>2. /\ Serving
        /\ worker[c] = "credential"
        /\ UNCHANGED <<server, outcome, binding>>
    BY <1>5 DEF CredentialRejected, untouched_by_start, queue
  <2>3. ReturnTypes /\ OnlyRow(c) /\ Coherent(c)'
    BY <1>1, <2>1, <2>2, ReturnsRow
  <2>4. slot' \in SUBSET Command
    BY <1>1, <1>5 DEF TypeOK, CredentialRejected
  <2>5. TypeOK'
    BY <1>1, <1>5, <2>3, <2>4 DEF TypeOK, ReturnTypes, Generation, CapabilityState,
      Error, CredentialRejected, untouched_by_start, queue
  <2>6. QED  BY <2>2, <2>3, <2>5, FrameOne
<1>6. CASE DockerCreates(c)
  <2>1. container' = [container EXCEPT ![c] = "exists"]
    BY <1>6 DEF DockerCreates
  <2>2. container' \in [Command -> {"none", "exists", "removed"}]
    BY <1>1, <2>1 DEF TypeOK
  <2>3. TypeOK'
    BY <1>1, <1>6, <2>2 DEF TypeOK, DockerCreates, store, memory
  <2>4. QED
    BY <1>6, <2>3, FrameAll DEF SameRow, DockerCreates, store, memory
<1>7. CASE ContainerStarted(c)
  <2>1. CASE AssertExecutionGeneration(c)
    <3>1. /\ effect' = [effect EXCEPT ![c]["container_start"] = "completed"]
          /\ worker' = [worker EXCEPT ![c] = "pi"]
          /\ worker[c] = "container"
          /\ Serving
      BY <1>7, <2>1 DEF ContainerStarted
    <3>2. /\ effect' \in [Command -> [Kind -> EffectState]]
          /\ worker' \in [Command -> WorkerStep]
      BY <1>1, <3>1 DEF TypeOK, Kind, EffectState, WorkerStep, StartStep
    <3>3. TypeOK'
      BY <1>1, <1>7, <2>1, <3>2 DEF TypeOK, ContainerStarted, untouched_by_start,
        queue
    <3>4. /\ worker'[c] = "pi"
          /\ \A d \in Command \ {c} : worker'[d] = worker[d]
      BY <1>1, <3>1 DEF TypeOK
    <3>5. OnlyRow(c) /\ server' = server
      BY <1>7, <2>1, <3>4 DEF OnlyRow, SameRow, ContainerStarted, untouched_by_start,
        queue
    <3>6. Coherent(c)'
      BY <1>1, <1>7, <2>1, <3>1, <3>4 DEF Coherent, Serving, Active, NonTerminal,
        Terminal, AssertExecutionGeneration, ContainerStarted, untouched_by_start,
        queue
    <3>7. QED  BY <3>3, <3>5, <3>6, FrameOne
  <2>2. CASE ~AssertExecutionGeneration(c)
    <3>1. /\ worker' = [worker EXCEPT ![c] = "undo"]
          /\ worker[c] = "container"
          /\ Serving
      BY <1>7, <2>2 DEF ContainerStarted
    <3>2. worker' \in [Command -> WorkerStep]
      BY <1>1, <3>1 DEF TypeOK, WorkerStep, StartStep
    <3>3. TypeOK'
      BY <1>1, <1>7, <2>2, <3>2 DEF TypeOK, ContainerStarted, untouched_by_start,
        queue
    <3>4. /\ worker'[c] = "undo"
          /\ \A d \in Command \ {c} : worker'[d] = worker[d]
      BY <1>1, <3>1 DEF TypeOK
    <3>5. OnlyRow(c) /\ server' = server
      BY <1>7, <2>2, <3>4 DEF OnlyRow, SameRow, ContainerStarted, untouched_by_start,
        queue
    <3>6. Coherent(c)'
      BY <1>1, <1>7, <2>2, <3>1, <3>4 DEF Coherent, Serving, Active, NonTerminal,
        Terminal, AssertExecutionGeneration, ContainerStarted, untouched_by_start,
        queue
    <3>7. QED  BY <3>3, <3>5, <3>6, FrameOne
  <2>3. QED
    BY <1>7, <2>1, <2>2
<1>8. CASE StartFails(c)
  <2>1. /\ worker' = [worker EXCEPT ![c] = "undo"]
        /\ worker[c] \in {"container", "pi"}
        /\ Serving
    BY <1>8 DEF StartFails
  <2>2. worker' \in [Command -> WorkerStep]
    BY <1>1, <2>1 DEF TypeOK, WorkerStep, StartStep
  <2>3. TypeOK'
    BY <1>1, <1>8, <2>2 DEF TypeOK, StartFails, store, outside
  <2>4. /\ worker'[c] = "undo"
        /\ \A d \in Command \ {c} : worker'[d] = worker[d]
    BY <1>1, <2>1 DEF TypeOK
  <2>5. OnlyRow(c) /\ server' = server
    BY <1>8, <2>4 DEF OnlyRow, SameRow, StartFails, store, outside
  <2>6. Coherent(c)'
    BY <1>1, <1>8, <2>1, <2>4 DEF Coherent, Serving, Active, NonTerminal, Terminal,
      AssertExecutionGeneration, StartFails, store, outside
  <2>7. QED  BY <2>3, <2>5, <2>6, FrameOne
<1>9. CASE PiReady(c)
  <2>1. CASE AssertExecutionGeneration(c)
    <3>1. /\ run' = [run EXCEPT ![c] = "running"]
          /\ shell' = [shell EXCEPT ![c] = "alive"]
          /\ binding' = [binding EXCEPT ![c] = "session"]
          /\ execution' = [execution EXCEPT ![c] = "running"]
          /\ managed' = [managed EXCEPT ![c] = TRUE]
          /\ effect' = [effect EXCEPT ![c]["provider_response"] = "intent"]
          /\ worker' = [worker EXCEPT ![c] = "prompt"]
          /\ worker[c] = "pi"
          /\ Serving
      BY <1>9, <2>1 DEF PiReady
    <3>2. /\ run' \in [Command -> RunState]
          /\ shell' \in [Command -> {"none", "alive", "exited", "killed"}]
          /\ binding' \in [Command -> {"nothing", "run", "session"}]
          /\ execution' \in [Command -> ExecutionState]
          /\ managed' \in [Command -> BOOLEAN]
          /\ effect' \in [Command -> [Kind -> EffectState]]
          /\ worker' \in [Command -> WorkerStep]
      BY <1>1, <3>1 DEF TypeOK, RunState, ExecutionState, NonTerminal, Active,
        Terminal, Kind, EffectState, WorkerStep, StartStep
    <3>3. TypeOK'
      BY <1>1, <1>9, <2>1, <3>2 DEF TypeOK, PiReady, queue
    <3>4. /\ binding'[c] = "session"
          /\ execution'[c] = "running"
          /\ worker'[c] = "prompt"
          /\ \A d \in Command \ {c} : /\ binding'[d] = binding[d]
                                      /\ execution'[d] = execution[d]
                                      /\ worker'[d] = worker[d]
      BY <1>1, <3>1 DEF TypeOK
    <3>5. OnlyRow(c) /\ server' = server
      BY <1>9, <2>1, <3>4 DEF OnlyRow, SameRow, PiReady, queue
    <3>6. Coherent(c)'
      BY <1>1, <1>9, <2>1, <3>1, <3>4 DEF Coherent, Serving, Active, NonTerminal,
        Terminal, AssertExecutionGeneration, PiReady, queue
    <3>7. QED  BY <3>3, <3>5, <3>6, FrameOne
  <2>2. CASE ~AssertExecutionGeneration(c)
    <3>1. /\ run' = [run EXCEPT ![c] = "running"]
          /\ shell' = [shell EXCEPT ![c] = "alive"]
          /\ worker' = [worker EXCEPT ![c] = "undo"]
          /\ worker[c] = "pi"
          /\ Serving
      BY <1>9, <2>2 DEF PiReady
    <3>2. /\ run' \in [Command -> RunState]
          /\ shell' \in [Command -> {"none", "alive", "exited", "killed"}]
          /\ worker' \in [Command -> WorkerStep]
      BY <1>1, <3>1 DEF TypeOK, RunState, WorkerStep, StartStep
    <3>3. TypeOK'
      BY <1>1, <1>9, <2>2, <3>2 DEF TypeOK, PiReady, queue
    <3>4. /\ worker'[c] = "undo"
          /\ \A d \in Command \ {c} : worker'[d] = worker[d]
      BY <1>1, <3>1 DEF TypeOK
    <3>5. OnlyRow(c) /\ server' = server
      BY <1>9, <2>2, <3>4 DEF OnlyRow, SameRow, PiReady, queue
    <3>6. Coherent(c)'
      BY <1>1, <1>9, <2>2, <3>1, <3>4 DEF Coherent, Serving, Active, NonTerminal,
        Terminal, AssertExecutionGeneration, PiReady, queue
    <3>7. QED  BY <3>3, <3>5, <3>6, FrameOne
  <2>3. QED
    BY <1>9, <2>1, <2>2
<1>10. CASE UndoStart(c)
  <2>1. PICK error, effects : /\ error \in Error
                              /\ ExecuteTaskPhaseReturns(c, error, effects)
                              /\ error = "none" => outcome[c]
    BY <1>10 DEF UndoStart, Error
  <2>2. /\ Serving
        /\ worker[c] = "undo"
        /\ UNCHANGED <<server, outcome, binding>>
    BY <1>10 DEF UndoStart, untouched_by_start, queue
  <2>3. ReturnTypes /\ OnlyRow(c) /\ Coherent(c)'
    BY <1>1, <2>1, <2>2, ReturnsRow
  <2>4. slot' \in SUBSET Command /\ container' \in [Command -> {"none", "exists", "removed"}]
    <3>1. CASE container' = [container EXCEPT ![c] = IF @ = "exists" THEN "removed" ELSE @]
      BY <1>1, <1>10, <3>1 DEF TypeOK, UndoStart
    <3>2. CASE UNCHANGED container
      BY <1>1, <1>10, <3>2 DEF TypeOK, UndoStart
    <3>3. QED  BY <1>10, <3>1, <3>2 DEF UndoStart
  <2>5. TypeOK'
    BY <1>1, <1>10, <2>3, <2>4 DEF TypeOK, ReturnTypes, Generation, CapabilityState,
      Error, UndoStart, untouched_by_start, queue
  <2>6. QED  BY <2>2, <2>3, <2>5, FrameOne
<1>11. QED
  BY <1>2, <1>3, <1>4, <1>5, <1>6, <1>7, <1>8, <1>9, <1>10 DEF StartTask

LEMMA AgentPreservesInv ==
  ASSUME Inv, NEW c \in Command, AgentStep(c)
  PROVE  Inv'
<1>1. TypeOK /\ Coherent(c)
  BY DEF Inv
<1>2. CASE RecordPhaseOutcome(c)
  <2>1. /\ outcome' = [outcome EXCEPT ![c] = TRUE]
        /\ Serving
    BY <1>2 DEF RecordPhaseOutcome
  <2>2. outcome' \in [Command -> BOOLEAN]
    BY <1>1, <2>1 DEF TypeOK
  <2>3. TypeOK'
    BY <1>1, <1>2, <2>2 DEF TypeOK, RecordPhaseOutcome, memory, outside
  <2>4. /\ outcome'[c] = TRUE
        /\ \A d \in Command \ {c} : outcome'[d] = outcome[d]
    BY <1>1, <2>1 DEF TypeOK
  <2>5. OnlyRow(c) /\ server' = server
    BY <1>2, <2>4 DEF OnlyRow, SameRow, RecordPhaseOutcome, memory, outside
  <2>6. Coherent(c)'
    BY <1>1, <1>2, <2>1, <2>4 DEF Coherent, Serving, Active, NonTerminal, Terminal,
      AssertExecutionGeneration, RecordPhaseOutcome, memory, outside
  <2>7. QED  BY <2>3, <2>5, <2>6, FrameOne
<1>3. CASE AuthorizeGitCheckpoint(c)
  <2>1. gitRequest' = [gitRequest EXCEPT ![c] = "authorized"]
    BY <1>3 DEF AuthorizeGitCheckpoint
  <2>2. gitRequest' \in [Command -> {"idle", "authorized", "journaled"}]
    BY <1>1, <2>1 DEF TypeOK
  <2>3. TypeOK'
    BY <1>1, <1>3, <2>2 DEF TypeOK, AuthorizeGitCheckpoint, store, outside
  <2>4. QED
    BY <1>3, <2>3, FrameAll DEF SameRow, AuthorizeGitCheckpoint, store, outside
<1>4. CASE JournalGitCheckpoint(c)
  <2>1. CASE /\ gitRequest' = [gitRequest EXCEPT ![c] = "journaled"]
             /\ effect' = [effect EXCEPT ![c]["git"] = "intent"]
    <3>1. /\ gitRequest' = [gitRequest EXCEPT ![c] = "journaled"]
          /\ effect' = [effect EXCEPT ![c]["git"] = "intent"]
      BY <1>4, <2>1 DEF JournalGitCheckpoint
    <3>2. /\ gitRequest' \in [Command -> {"idle", "authorized", "journaled"}]
          /\ effect' \in [Command -> [Kind -> EffectState]]
      BY <1>1, <3>1 DEF TypeOK, Kind, EffectState
    <3>3. TypeOK'
      BY <1>1, <1>4, <2>1, <3>2 DEF TypeOK, JournalGitCheckpoint, outside
    <3>4. QED
      BY <1>4, <2>1, <3>3, FrameAll DEF SameRow, JournalGitCheckpoint, outside
  <2>2. CASE gitRequest' = [gitRequest EXCEPT ![c] = "idle"] /\ UNCHANGED effect
    <3>1. /\ gitRequest' = [gitRequest EXCEPT ![c] = "idle"]
          /\ effect' = effect
      BY <1>4, <2>2 DEF JournalGitCheckpoint
    <3>2. /\ gitRequest' \in [Command -> {"idle", "authorized", "journaled"}]
          /\ effect' \in [Command -> [Kind -> EffectState]]
      BY <1>1, <3>1 DEF TypeOK, Kind, EffectState
    <3>3. TypeOK'
      BY <1>1, <1>4, <2>2, <3>2 DEF TypeOK, JournalGitCheckpoint, outside
    <3>4. QED
      BY <1>4, <2>2, <3>3, FrameAll DEF SameRow, JournalGitCheckpoint, outside
  <2>3. QED
    BY <1>4, <2>1, <2>2 DEF JournalGitCheckpoint
<1>5. CASE FinishGitCheckpoint(c)
  <2>1. CASE effect' = [effect EXCEPT ![c]["git"] = "completed"]
    <3>1. /\ gitRequest' = [gitRequest EXCEPT ![c] = "idle"]
          /\ effect' = [effect EXCEPT ![c]["git"] = "completed"]
      BY <1>5, <2>1 DEF FinishGitCheckpoint
    <3>2. /\ gitRequest' \in [Command -> {"idle", "authorized", "journaled"}]
          /\ effect' \in [Command -> [Kind -> EffectState]]
      BY <1>1, <3>1 DEF TypeOK, Kind, EffectState
    <3>3. TypeOK'
      BY <1>1, <1>5, <2>1, <3>2 DEF TypeOK, FinishGitCheckpoint, outside
    <3>4. QED
      BY <1>5, <2>1, <3>3, FrameAll DEF SameRow, FinishGitCheckpoint, outside
  <2>2. CASE UNCHANGED effect
    <3>1. /\ gitRequest' = [gitRequest EXCEPT ![c] = "idle"]
          /\ effect' = effect
      BY <1>5, <2>2 DEF FinishGitCheckpoint
    <3>2. /\ gitRequest' \in [Command -> {"idle", "authorized", "journaled"}]
          /\ effect' \in [Command -> [Kind -> EffectState]]
      BY <1>1, <3>1 DEF TypeOK, Kind, EffectState
    <3>3. TypeOK'
      BY <1>1, <1>5, <2>2, <3>2 DEF TypeOK, FinishGitCheckpoint, outside
    <3>4. QED
      BY <1>5, <2>2, <3>3, FrameAll DEF SameRow, FinishGitCheckpoint, outside
  <2>3. QED
    BY <1>5, <2>1, <2>2 DEF FinishGitCheckpoint
<1>6. QED
  BY <1>2, <1>3, <1>4, <1>5 DEF AgentStep

LEMMA PromptPreservesInv ==
  ASSUME Inv, NEW c \in Command, PromptStep(c)
  PROVE  Inv'
<1>1. TypeOK /\ Coherent(c)
  BY DEF Inv
<1>2. CASE PromptSettles(c)
  <2>1. /\ worker' = [worker EXCEPT ![c] = "wrapup"]
        /\ worker[c] = "prompt"
        /\ Serving
    BY <1>2 DEF PromptSettles
  <2>2. worker' \in [Command -> WorkerStep]
    BY <1>1, <2>1 DEF TypeOK, WorkerStep, StartStep
  <2>3. TypeOK'
    BY <1>1, <1>2, <2>2 DEF TypeOK, PromptSettles, store, outside
  <2>4. /\ worker'[c] = "wrapup"
        /\ \A d \in Command \ {c} : worker'[d] = worker[d]
    BY <1>1, <2>1 DEF TypeOK
  <2>5. OnlyRow(c) /\ server' = server
    BY <1>2, <2>4 DEF OnlyRow, SameRow, PromptSettles, store, outside
  <2>6. Coherent(c)'
    BY <1>1, <1>2, <2>1, <2>4 DEF Coherent, Serving, Active, NonTerminal, Terminal,
      AssertExecutionGeneration, PromptSettles, store, outside
  <2>7. QED  BY <2>3, <2>5, <2>6, FrameOne
<1>3. CASE PromptFails(c)
  <2>1. PICK error, effects : /\ error \in Error
                              /\ ExecuteTaskPhaseReturns(c, error, effects)
                              /\ error = "none" => outcome[c]
    BY <1>3 DEF PromptFails, Error
  <2>2. /\ Serving
        /\ worker[c] \in {"prompt", "wrapup"}
        /\ UNCHANGED <<server, outcome, binding>>
    BY <1>3 DEF PromptFails, untouched_by_phase, queue
  <2>3. ReturnTypes /\ OnlyRow(c) /\ Coherent(c)'
    BY <1>1, <2>1, <2>2, ReturnsRow
  <2>5. TypeOK'
    BY <1>1, <1>3, <2>3 DEF TypeOK, ReturnTypes, Generation, CapabilityState, Error,
      PromptFails, untouched_by_phase, queue
  <2>6. QED  BY <2>2, <2>3, <2>5, FrameOne
<1>4. CASE PhaseEnds(c)
  <2>1. PICK error, effects : /\ error \in Error
                              /\ ExecuteTaskPhaseReturns(c, error, effects)
                              /\ error = "none" => outcome[c]
    BY <1>4 DEF PhaseEnds, PhaseOutcomeRecorded, Error
  <2>2. /\ Serving
        /\ worker[c] = "wrapup"
        /\ UNCHANGED <<server, outcome, binding>>
    BY <1>4 DEF PhaseEnds, PhaseOutcomeRecorded, untouched_by_phase, queue
  <2>3. ReturnTypes /\ OnlyRow(c) /\ Coherent(c)'
    BY <1>1, <2>1, <2>2, ReturnsRow
  <2>4. effect' \in [Command -> [Kind -> EffectState]]
    BY <1>1, <1>4 DEF TypeOK, PhaseEnds, PhaseOutcomeRecorded, Kind, EffectState
  <2>5. TypeOK'
    BY <1>1, <1>4, <2>3, <2>4 DEF TypeOK, ReturnTypes, Generation, CapabilityState,
      Error, PhaseEnds, PhaseOutcomeRecorded, untouched_by_phase, queue
  <2>6. QED  BY <2>2, <2>3, <2>5, FrameOne
<1>5. QED
  BY <1>2, <1>3, <1>4 DEF PromptStep

LEMMA StopPreservesInv ==
  ASSUME Inv, NEW c \in Command, NEW k \in Caller, StopStepOf(c, k)
  PROVE  Inv'
<1>1. TypeOK /\ Coherent(c)
  BY DEF Inv
<1>2. CASE ProcessesExit(c, k)
  <2>1. /\ stopper' = [stopper EXCEPT ![c][k] = "removing"]
        /\ effect' = [effect EXCEPT ![c]["container_stop"] = IF @ = "none" THEN "intent" ELSE @]
        /\ stopper[c][k] = "processes"
    BY <1>2 DEF ProcessesExit
  <2>2. /\ stopper' \in [Command -> [Caller -> StopStep]]
        /\ effect' \in [Command -> [Kind -> EffectState]]
    BY <1>1, <2>1 DEF TypeOK, StopStep, Kind, EffectState
  <2>3. TypeOK'
    BY <1>1, <1>2, <2>2 DEF TypeOK, ProcessesExit, outside
  <2>4. /\ stopper'[c][k] = "removing"
        /\ \A j \in Caller \ {k} : stopper'[c][j] = stopper[c][j]
        /\ \A d \in Command \ {c} : stopper'[d] = stopper[d]
    BY <1>1, <2>1 DEF TypeOK, Caller
  <2>5. OnlyRow(c) /\ server' = server
    BY <1>2, <2>4 DEF OnlyRow, SameRow, ProcessesExit, outside
  <2>6. Coherent(c)'
    BY <1>1, <1>2, <2>1, <2>4 DEF Coherent, Serving, Active, NonTerminal, Terminal,
      AssertExecutionGeneration, ProcessesExit, outside
  <2>7. QED  BY <2>3, <2>5, <2>6, FrameOne
<1>3. CASE ContainerRemoved(c, k)
  <2>1. /\ stopper' = [stopper EXCEPT ![c][k] = "finishing"]
        /\ container' = [container EXCEPT ![c] = "removed"]
        /\ effect' = [effect EXCEPT ![c]["container_stop"] = "completed"]
        /\ stopper[c][k] = "removing"
    BY <1>3 DEF ContainerRemoved
  <2>2. /\ stopper' \in [Command -> [Caller -> StopStep]]
        /\ container' \in [Command -> {"none", "exists", "removed"}]
        /\ effect' \in [Command -> [Kind -> EffectState]]
    BY <1>1, <2>1 DEF TypeOK, StopStep, Kind, EffectState
  <2>3. TypeOK'
    BY <1>1, <1>3, <2>2 DEF TypeOK, ContainerRemoved
  <2>4. /\ stopper'[c][k] = "finishing"
        /\ \A j \in Caller \ {k} : stopper'[c][j] = stopper[c][j]
        /\ \A d \in Command \ {c} : stopper'[d] = stopper[d]
    BY <1>1, <2>1 DEF TypeOK, Caller
  <2>5. OnlyRow(c) /\ server' = server
    BY <1>3, <2>4 DEF OnlyRow, SameRow, ContainerRemoved
  <2>6. Coherent(c)'
    BY <1>1, <1>3, <2>1, <2>4 DEF Coherent, Serving, Active, NonTerminal, Terminal,
      AssertExecutionGeneration, ContainerRemoved
  <2>7. QED  BY <2>3, <2>5, <2>6, FrameOne
<1>4. CASE StopFails(c, k)
  <2>1. /\ stopper' = [stopper EXCEPT ![c][k] = "idle"]
        /\ Serving /\ stopper[c][k] # "idle"
        /\ UNCHANGED <<server, outcome, binding, generation, caught>>
    BY <1>4 DEF StopFails, untouched_by_stop
  <2>2. /\ stopper' \in [Command -> [Caller -> StopStep]]
        /\ stopper'[c][k] = "idle"
        /\ \A j \in Caller \ {k} : stopper'[c][j] = stopper[c][j]
        /\ \A d \in Command \ {c} : stopper'[d] = stopper[d]
    BY <1>1, <2>1 DEF TypeOK, StopStep
  <2>3. /\ capability' \in [Command -> CapabilityState]
        /\ \A d \in Command \ {c} : capability'[d] = capability[d]
        /\ capability'[c] = "live" => capability[c] = "live"
        /\ run' \in [Command -> RunState]
        /\ managed' \in [Command -> BOOLEAN]
        /\ slot' \in SUBSET Command
    BY <1>1, <1>4 DEF TypeOK, StopFails, CapabilityState, RunState
  <2>4. CASE k = "worker"
    <3>1. PICK state \in Terminal : SettleExecution(c, state)
      BY <1>4, <2>4 DEF StopFails, Terminal
    <3>2. /\ execution' \in [Command -> ExecutionState]
          /\ command' \in [Command -> CommandState]
          /\ worker' \in [Command -> WorkerStep]
          /\ execution'[c] = state /\ command'[c] = state /\ worker'[c] = "none"
          /\ \A d \in Command \ {c} : /\ execution'[d] = execution[d]
                                     /\ command'[d] = command[d]
                                     /\ worker'[d] = worker[d]
      BY <1>1, <3>1, SettleRow
    <3>3. TypeOK'
      BY <1>1, <1>4, <2>2, <2>3, <3>2
      DEF TypeOK, CapabilityState, StopFails, untouched_by_stop, queue
    <3>4. OnlyRow(c)
      BY <2>1, <2>2, <2>3, <3>2 DEF OnlyRow, SameRow
    <3>5. capability[c] # "live"
      BY <1>1, <2>1, <2>4 DEF Coherent, AssertExecutionGeneration, Active
    <3>6. Coherent(c)'
      BY <2>1, <2>2, <2>3, <2>4, <3>2, <3>5
      DEF Coherent, Serving, Active, NonTerminal, Terminal
    <3>7. QED  BY <2>1, <3>3, <3>4, <3>6, FrameOne
  <2>5. CASE k = "owner"
    <3>1. UNCHANGED <<execution, command, worker>>
      BY <1>4, <2>5 DEF StopFails
    <3>2. TypeOK'
      BY <1>1, <1>4, <2>2, <2>3, <3>1
      DEF TypeOK, CapabilityState, StopFails, untouched_by_stop, queue
    <3>3. OnlyRow(c)
      BY <2>1, <2>2, <2>3, <3>1 DEF OnlyRow, SameRow
    <3>4. stopper'[c]["worker"] = stopper[c]["worker"]
      BY <2>2, <2>5 DEF Caller
    <3>5. Coherent(c)'
      BY <1>1, <2>1, <2>3, <3>1, <3>4 DEF Coherent, Serving, AssertExecutionGeneration
    <3>6. QED  BY <2>1, <3>2, <3>3, <3>5, FrameOne
  <2>6. QED  BY <2>4, <2>5 DEF Caller
<1>5. CASE FinishStop(c, k)
  <2>1. /\ stopper' = [stopper EXCEPT ![c][k] = "idle"]
        /\ Serving /\ stopper[c][k] # "idle"
        /\ UNCHANGED <<server, outcome, binding, generation, caught>>
    BY <1>5 DEF FinishStop, untouched_by_stop
  <2>2. /\ stopper' \in [Command -> [Caller -> StopStep]]
        /\ stopper'[c][k] = "idle"
        /\ \A j \in Caller \ {k} : stopper'[c][j] = stopper[c][j]
        /\ \A d \in Command \ {c} : stopper'[d] = stopper[d]
    BY <1>1, <2>1 DEF TypeOK, StopStep
  <2>3. /\ capability' \in [Command -> CapabilityState]
        /\ \A d \in Command \ {c} : capability'[d] = capability[d]
        /\ capability'[c] = "live" => capability[c] = "live"
        /\ run' \in [Command -> RunState]
        /\ managed' \in [Command -> BOOLEAN]
        /\ slot' \in SUBSET Command
    BY <1>1, <1>5 DEF TypeOK, FinishStop, CapabilityState, RunState
  <2>4. CASE k = "worker"
    <3>1. PICK state \in Terminal : SettleExecution(c, state)
      <4>1. caught[c] \in Error
        BY <1>1 DEF TypeOK, Error
      <4>2. QED  BY <1>1, <1>5, <2>4, <4>1, SettlementIsTerminal DEF FinishStop
    <3>2. /\ execution' \in [Command -> ExecutionState]
          /\ command' \in [Command -> CommandState]
          /\ worker' \in [Command -> WorkerStep]
          /\ execution'[c] = state /\ command'[c] = state /\ worker'[c] = "none"
          /\ \A d \in Command \ {c} : /\ execution'[d] = execution[d]
                                     /\ command'[d] = command[d]
                                     /\ worker'[d] = worker[d]
      BY <1>1, <3>1, SettleRow
    <3>3. TypeOK'
      BY <1>1, <1>5, <2>2, <2>3, <3>2
      DEF TypeOK, CapabilityState, FinishStop, untouched_by_stop, queue
    <3>4. OnlyRow(c)
      BY <2>1, <2>2, <2>3, <3>2 DEF OnlyRow, SameRow
    <3>5. capability[c] # "live"
      BY <1>1, <2>1, <2>4 DEF Coherent, AssertExecutionGeneration, Active
    <3>6. Coherent(c)'
      BY <2>1, <2>2, <2>3, <2>4, <3>2, <3>5
      DEF Coherent, Serving, Active, NonTerminal, Terminal
    <3>7. QED  BY <2>1, <3>3, <3>4, <3>6, FrameOne
  <2>5. CASE k = "owner"
    <3>1. UNCHANGED <<execution, command, worker>>
      BY <1>5, <2>5 DEF FinishStop
    <3>2. TypeOK'
      BY <1>1, <1>5, <2>2, <2>3, <3>1
      DEF TypeOK, CapabilityState, FinishStop, untouched_by_stop, queue
    <3>3. OnlyRow(c)
      BY <2>1, <2>2, <2>3, <3>1 DEF OnlyRow, SameRow
    <3>4. stopper'[c]["worker"] = stopper[c]["worker"]
      BY <2>2, <2>5 DEF Caller
    <3>5. Coherent(c)'
      BY <1>1, <2>1, <2>3, <3>1, <3>4 DEF Coherent, Serving, AssertExecutionGeneration
    <3>6. QED  BY <2>1, <3>2, <3>3, <3>5, FrameOne
  <2>6. QED  BY <2>4, <2>5 DEF Caller
<1>6. QED
  BY <1>2, <1>3, <1>4, <1>5 DEF StopStepOf

LEMMA OwnerPreservesInv ==
  ASSUME Inv, NEW c \in Command, OwnerStep(c)
  PROVE  Inv'
<1>1. TypeOK /\ Coherent(c)
  BY DEF Inv
<1>2. CASE StopSession(c)
  <2>1. /\ BeginStop(c, "owner")
        /\ UNCHANGED <<server, command, execution, generation, binding, capability, outcome, worker, caught>>
    BY <1>2 DEF StopSession, store
  <2>2. /\ stopper' \in [Command -> [Caller -> StopStep]]
        /\ stopper'[c]["worker"] = stopper[c]["worker"]
        /\ \A d \in Command \ {c} : stopper'[d] = stopper[d]
    BY <1>1, <2>1, BeginStopRow DEF Caller
  <2>3. TypeOK'
    BY <1>1, <1>2, <2>2 DEF TypeOK, StopSession, store, outside
  <2>4. OnlyRow(c)
    BY <2>1, <2>2 DEF OnlyRow, SameRow
  <2>5. Coherent(c)'
    BY <1>1, <2>1, <2>2 DEF Coherent, Serving, AssertExecutionGeneration
  <2>6. QED  BY <2>1, <2>3, <2>4, <2>5, FrameOne
<1>3. ASSUME NEW action \in OwnerActions, RecordExecutionAction(c, action)
      PROVE  Inv'
  <2>1. /\ action \in {"stop", "pause", "cancel"}
        /\ FenceExecution(c) /\ execution[c] \in Active /\ Serving
        /\ execution' = [execution EXCEPT ![c] = "stopping"]
        /\ receipt' = [receipt EXCEPT ![c] = action]
    BY <1>3, ConstantAssumption DEF RecordExecutionAction
  <2>2. /\ generation' \in [Command -> Generation]
        /\ capability' \in [Command -> CapabilityState]
        /\ capability'[c] # "live"
        /\ \A d \in Command \ {c} : /\ generation'[d] = generation[d]
                                   /\ capability'[d] = capability[d]
    BY <1>1, <2>1, FenceRow
  <2>3. /\ execution' \in [Command -> ExecutionState]
        /\ receipt' \in [Command -> {"none", "stop", "pause", "cancel"}]
        /\ execution'[c] = "stopping"
        /\ \A d \in Command \ {c} : execution'[d] = execution[d]
    BY <1>1, <2>1 DEF TypeOK, ExecutionState, NonTerminal
  <2>4. TypeOK'
    BY <1>1, <1>3, <2>2, <2>3
    DEF TypeOK, Generation, CapabilityState, RecordExecutionAction, queue, memory
  <2>5. UNCHANGED <<server, command, binding, outcome, worker, caught, stopper>>
    BY <1>3 DEF RecordExecutionAction, memory
  <2>6. OnlyRow(c)
    BY <2>2, <2>3, <2>5 DEF OnlyRow, SameRow
  <2>7. Coherent(c)'
    BY <1>1, <2>1, <2>2, <2>3, <2>5
    DEF Coherent, Serving, Active, NonTerminal, Terminal, AssertExecutionGeneration
  <2>8. QED  BY <2>4, <2>5, <2>6, <2>7, FrameOne
<1>4. CASE CancelUncertainExecution(c)
  <2>1. /\ execution' = [execution EXCEPT ![c] = "cancelled"]
        /\ command' = [command EXCEPT ![c] = "cancelled"]
        /\ receipt' = [receipt EXCEPT ![c] = "cancel"]
        /\ execution[c] = "reconciliation_required"
        /\ Serving
    BY <1>4 DEF CancelUncertainExecution
  <2>2. /\ execution' \in [Command -> ExecutionState]
        /\ command' \in [Command -> CommandState]
        /\ receipt' \in [Command -> {"none", "stop", "pause", "cancel"}]
    BY <1>1, <2>1 DEF TypeOK, ExecutionState, NonTerminal, Active, Terminal,
      CommandState
  <2>3. TypeOK'
    BY <1>1, <1>4, <2>2 DEF TypeOK, CancelUncertainExecution, queue, memory
  <2>4. /\ execution'[c] = "cancelled"
        /\ command'[c] = "cancelled"
        /\ \A d \in Command \ {c} : /\ execution'[d] = execution[d]
                                    /\ command'[d] = command[d]
    BY <1>1, <2>1 DEF TypeOK
  <2>5. OnlyRow(c) /\ server' = server
    BY <1>4, <2>4 DEF OnlyRow, SameRow, CancelUncertainExecution, queue, memory
  <2>6. Coherent(c)'
    BY <1>1, <1>4, <2>1, <2>4 DEF Coherent, Serving, Active, NonTerminal, Terminal,
      AssertExecutionGeneration, CancelUncertainExecution, queue, memory
  <2>7. QED  BY <2>3, <2>5, <2>6, FrameOne
<1>5. QED
  BY <1>2, <1>3, <1>4 DEF OwnerStep

-----------------------------------------------------------------------------
(* Crash and restart touch every row at once *)

LEMMA ReconciledEffectsType ==
  ASSUME TypeOK, NEW c \in Command, NEW inspection, NEW gitProven
  PROVE  ReconciledEffects(c, inspection, gitProven) \in [Kind -> EffectState]
<1>1. \A k \in Kind : effect[c][k] \in EffectState
  BY DEF TypeOK
<1>2. ASSUME NEW k \in Kind
      PROVE  ReconciledEffects(c, inspection, gitProven)[k] \in EffectState
  <2>1. effect[c][k] \in EffectState
    BY <1>1
  <2>2. CASE effect[c][k] # "intent"
    BY <2>1, <2>2 DEF ReconciledEffects
  <2>3. CASE effect[c][k] = "intent"
    BY <2>3 DEF ReconciledEffects, EffectState
  <2>4. QED  BY <2>2, <2>3
<1>3. QED  BY <1>2 DEF ReconciledEffects

(* A dead process leaves rows that are coherent: nobody serves them.          *)
LEMMA LoseMemoryRows ==
  ASSUME TypeOK, \A c \in Command : Coherent(c), LoseMemory,
         UNCHANGED <<command, execution, generation, binding, capability, outcome>>
  PROVE  /\ \A c \in Command : Coherent(c)'
         /\ worker' \in [Command -> WorkerStep]
         /\ caught' \in [Command -> Error]
         /\ managed' \in [Command -> BOOLEAN]
         /\ slot' \in SUBSET Command
         /\ stopper' \in [Command -> [Caller -> StopStep]]
         /\ gitRequest' \in [Command -> {"idle", "authorized", "journaled"}]
         /\ shell' \in [Command -> {"none", "alive", "exited", "killed"}]
         /\ server' = "down"
<1>1. ASSUME NEW c \in Command  PROVE Coherent(c)'
  <2>1. /\ worker'[c] = "none" /\ caught'[c] = "none" /\ server' = "down"
        /\ stopper'[c]["worker"] = "idle"
    BY DEF LoseMemory, Caller
  <2>2. Coherent(c)
    OBVIOUS
  <2>3. QED  BY <2>1, <2>2 DEF Coherent, Serving, AssertExecutionGeneration
<1>2. /\ worker' \in [Command -> WorkerStep]
      /\ caught' \in [Command -> Error]
      /\ managed' \in [Command -> BOOLEAN]
      /\ slot' \in SUBSET Command
      /\ gitRequest' \in [Command -> {"idle", "authorized", "journaled"}]
      /\ shell' \in [Command -> {"none", "alive", "exited", "killed"}]
      /\ server' = "down"
  BY DEF LoseMemory, WorkerStep, Error
<1>3. stopper' \in [Command -> [Caller -> StopStep]]
  BY DEF LoseMemory, StopStep
<1>4. QED  BY <1>1, <1>2, <1>3

LEMMA CrashPreservesInv ==
  ASSUME Inv, Crash
  PROVE  Inv'
<1>1. TypeOK /\ \A c \in Command : Coherent(c)
  BY DEF Inv
<1>2. LoseMemory /\ UNCHANGED <<command, execution, generation, binding, capability, outcome>>
  BY DEF Crash, store
<1>3. crashes' \in 0..MaxCrashes
  BY <1>1, ConstantAssumption DEF TypeOK, Crash, LoseMemory
<1>4. TypeOK'
  BY <1>1, <1>2, <1>3, LoseMemoryRows DEF TypeOK, Crash, store, Error
<1>5. QED  BY <1>1, <1>2, <1>4, LoseMemoryRows DEF Inv

LEMMA InterruptedPreservesInv ==
  ASSUME Inv, NEW c \in Command, ReconcileRunInterrupted(c)
  PROVE  Inv'
<1>1. TypeOK /\ \A d \in Command : Coherent(d)
  BY DEF Inv
<1>2. LoseMemory /\ UNCHANGED <<command, execution, generation, binding, capability, outcome>>
  BY DEF ReconcileRunInterrupted
<1>3. crashes' \in 0..MaxCrashes
  BY <1>1, ConstantAssumption DEF TypeOK, ReconcileRunInterrupted, LoseMemory
<1>4. /\ effect' \in [Command -> [Kind -> EffectState]]
      /\ container' \in [Command -> {"none", "exists", "removed"}]
  <2>1. PICK inspection, gitProven :
          /\ effect' = [effect EXCEPT ![c] = ReconciledEffects(c, inspection, gitProven)]
          /\ container' \in {container, [container EXCEPT ![c] =
                               IF inspection = "proven" THEN "removed" ELSE @]}
    BY DEF ReconcileRunInterrupted
  <2>2. effect' \in [Command -> [Kind -> EffectState]]
    BY <1>1, <2>1, ReconciledEffectsType DEF TypeOK
  <2>3. container \in [Command -> {"none", "exists", "removed"}]
    BY <1>1 DEF TypeOK
  <2>4. [container EXCEPT ![c] = IF inspection = "proven" THEN "removed" ELSE @]
          \in [Command -> {"none", "exists", "removed"}]
    BY <2>3
  <2>5. QED  BY <2>1, <2>2, <2>3, <2>4
<1>5. TypeOK'
  BY <1>1, <1>2, <1>3, <1>4, LoseMemoryRows DEF TypeOK, ReconcileRunInterrupted, Error
<1>6. QED  BY <1>1, <1>2, <1>5, LoseMemoryRows DEF Inv

LEMMA RestartPreservesInv ==
  ASSUME Inv, Restart
  PROVE  Inv'
<1>1. TypeOK /\ \A c \in Command : Coherent(c)
  BY DEF Inv
<1>2. /\ server = "down" /\ server' = "recovering"
      /\ UNCHANGED <<binding, outcome, worker, caught, stopper>>
  BY DEF Restart
<1>3. ASSUME NEW c \in Command
      PROVE  /\ command'[c] = IF command[c] = "claimed"
                              THEN "reconciliation_required" ELSE command[c]
             /\ execution'[c] = IF execution[c] \in Active THEN "stopping" ELSE execution[c]
             /\ generation'[c] = IF execution[c] \in Active
                                 THEN LaunchGeneration + 1 ELSE generation[c]
             /\ capability'[c] = IF execution[c] \in Active
                                 THEN RevokedCapability(c)[c] ELSE capability[c]
             /\ command'[c] \in CommandState
             /\ execution'[c] \in ExecutionState
             /\ generation'[c] \in Generation
             /\ capability'[c] \in CapabilityState
             /\ capability'[c] # "live"
  <2>1. Coherent(c)
    BY <1>1
  <2>2. /\ command'[c] = IF command[c] = "claimed"
                         THEN "reconciliation_required" ELSE command[c]
        /\ execution'[c] = IF execution[c] \in Active THEN "stopping" ELSE execution[c]
        /\ generation'[c] = IF execution[c] \in Active
                            THEN generation[c] + 1 ELSE generation[c]
        /\ capability'[c] = IF execution[c] \in Active
                            THEN RevokedCapability(c)[c] ELSE capability[c]
    BY DEF Restart
  <2>3. execution[c] \in Active => generation[c] = LaunchGeneration
    BY <2>1 DEF Coherent
  <2>4. RevokedCapability(c)[c] \in {"none", "revoked"}
    BY <1>1, <2>1 DEF TypeOK, RevokedCapability, Coherent
  <2>5. capability[c] = "live" => execution[c] \in Active
    BY <2>1 DEF Coherent, AssertExecutionGeneration
  <2>6. capability'[c] # "live" /\ capability'[c] \in CapabilityState
    BY <1>1, <2>2, <2>4, <2>5 DEF TypeOK, CapabilityState
  <2>7. /\ command'[c] \in CommandState
        /\ execution'[c] \in ExecutionState
        /\ generation'[c] \in Generation
    BY <1>1, <2>2, <2>3
    DEF TypeOK, CommandState, ExecutionState, NonTerminal, Generation, LaunchGeneration
  <2>8. QED  BY <2>2, <2>3, <2>6, <2>7
<1>4. /\ command' \in [Command -> CommandState]
      /\ execution' \in [Command -> ExecutionState]
      /\ generation' \in [Command -> Generation]
      /\ capability' \in [Command -> CapabilityState]
  <2>1. /\ command' = [c \in Command |-> command'[c]]
        /\ execution' = [c \in Command |-> execution'[c]]
        /\ generation' = [c \in Command |-> generation'[c]]
        /\ capability' = [c \in Command |-> capability'[c]]
    BY DEF Restart
  <2>2. QED  BY <1>3, <2>1
<1>5. TypeOK'
  BY <1>1, <1>2, <1>4 DEF TypeOK, Restart, Generation, CapabilityState, outside
<1>6. ASSUME NEW c \in Command  PROVE Coherent(c)'
  <2>1. Coherent(c) /\ worker[c] = "none"
    BY <1>1, <1>2 DEF Coherent, Serving
  <2>2. execution'[c] \notin Active
    BY <1>3 DEF Active
  <2>3. command[c] = "claimed" => execution[c] = "absent"
    BY <1>1, <2>1 DEF TypeOK, Coherent, ExecutionState, NonTerminal, Terminal
  <2>4. QED  BY <1>2, <1>3, <2>1, <2>2, <2>3
             DEF Coherent, Serving, Active, NonTerminal, Terminal
<1>7. QED  BY <1>5, <1>6 DEF Inv

LEMMA ReconcileRunPreservesInv ==
  ASSUME Inv, NEW c \in Command, ReconcileRun(c)
  PROVE  Inv'
<1>1. TypeOK
  BY DEF Inv
<1>2. PICK inspection, gitProven :
        /\ effect' = [effect EXCEPT ![c] = ReconciledEffects(c, inspection, gitProven)]
        /\ container' = [container EXCEPT ![c] =
                           IF inspection = "proven" THEN "removed" ELSE @]
        /\ \E state \in {"reconciliation_required", "paused"} :
             run' = [run EXCEPT ![c] = state]
  BY DEF ReconcileRun
<1>3. /\ effect' \in [Command -> [Kind -> EffectState]]
      /\ container' \in [Command -> {"none", "exists", "removed"}]
      /\ run' \in [Command -> RunState]
  BY <1>1, <1>2, ReconciledEffectsType DEF TypeOK, RunState
<1>4. TypeOK'
  BY <1>1, <1>3 DEF TypeOK, ReconcileRun, memory
<1>5. QED  BY <1>4, FrameAll DEF SameRow, ReconcileRun, memory

LEMMA FinishRecoveryPreservesInv ==
  ASSUME Inv, FinishRecovery
  PROVE  Inv'
<1>1. TypeOK /\ \A c \in Command : Coherent(c)
  BY DEF Inv
<1>2. /\ server = "recovering" /\ server' = "serving"
      /\ UNCHANGED <<generation, binding, capability, outcome, worker, caught, stopper>>
  BY DEF FinishRecovery
<1>3. ASSUME NEW c \in Command
      PROVE  RestartState(c) \in {"failed", "paused", "reconciliation_required"}
  BY DEF RestartState
<1>4. ASSUME NEW c \in Command
      PROVE  /\ execution'[c] = IF execution[c] \in NonTerminal
                                THEN RestartState(c) ELSE execution[c]
             /\ command'[c] = IF execution[c] \in NonTerminal
                              THEN RestartState(c) ELSE command[c]
  BY DEF FinishRecovery
<1>5. /\ execution' \in [Command -> ExecutionState]
      /\ command' \in [Command -> CommandState]
  <2>1. ASSUME NEW c \in Command
        PROVE  execution'[c] \in ExecutionState /\ command'[c] \in CommandState
    BY ZenonT(40), <1>1, <1>3, <1>4 DEF TypeOK, ExecutionState, Terminal, CommandState
  <2>2. /\ execution' = [c \in Command |-> execution'[c]]
        /\ command' = [c \in Command |-> command'[c]]
    BY DEF FinishRecovery
  <2>3. QED  BY <2>1, <2>2
<1>6. TypeOK'
  BY <1>1, <1>2, <1>5 DEF TypeOK, FinishRecovery, outside
<1>7. ASSUME NEW c \in Command  PROVE Coherent(c)'
  <2>1. /\ Coherent(c) /\ worker[c] = "none" /\ execution[c] \notin Active
        /\ capability[c] # "live" /\ stopper[c]["worker"] = "idle"
    BY <1>1, <1>2 DEF Coherent, Serving, AssertExecutionGeneration
  <2>2. CASE execution[c] \in NonTerminal
    BY <1>2, <1>3, <1>4, <2>1, <2>2 DEF Coherent, Serving, Active, NonTerminal, Terminal
  <2>3. CASE execution[c] \notin NonTerminal
    BY <1>2, <1>4, <2>1, <2>3 DEF Coherent, Serving, AssertExecutionGeneration
  <2>4. QED  BY <2>2, <2>3
<1>8. QED  BY <1>6, <1>7 DEF Inv

LEMMA StutterPreservesInv ==
  ASSUME Inv, UNCHANGED vars
  PROVE  Inv'
<1>1. TypeOK'
  BY DEF Inv, TypeOK, vars, store, memory, outside
<1>2. QED  BY <1>1, FrameAll DEF SameRow, vars, store, memory

-----------------------------------------------------------------------------
(* The invariant holds, and with it what it is made of *)

LEMMA InitInv ==
  ASSUME Init
  PROVE  Inv
<1>1. TypeOK
  BY ConstantAssumption
  DEF Init, TypeOK, CommandState, ExecutionState, Kind, EffectState, RunState,
      WorkerStep, Caller, StopStep
<1>2. ASSUME NEW c \in Command  PROVE Coherent(c)
  BY DEF Init, Coherent, Serving, Active, NonTerminal, Terminal, Caller
<1>3. QED  BY <1>1, <1>2 DEF Inv

LEMMA NextPreservesInv ==
  ASSUME Inv, Next
  PROVE  Inv'
<1>1. CASE QueueStep
  BY <1>1, QueuePreservesInv
<1>2. ASSUME NEW c \in Command, StartTask(c)  PROVE Inv'
  BY <1>2, StartPreservesInv
<1>3. ASSUME NEW c \in Command, AgentStep(c)  PROVE Inv'
  BY <1>3, AgentPreservesInv
<1>4. ASSUME NEW c \in Command, PromptStep(c)  PROVE Inv'
  BY <1>4, PromptPreservesInv
<1>5. ASSUME NEW c \in Command, OwnerStep(c)  PROVE Inv'
  BY <1>5, OwnerPreservesInv
<1>6. ASSUME NEW c \in Command, ShellExits(c)  PROVE Inv'
  <2>1. TypeOK
    BY DEF Inv
  <2>2. \E state \in {"exited", "killed"} : shell' = [shell EXCEPT ![c] = state]
    BY <1>6 DEF ShellExits
  <2>3. shell' \in [Command -> {"none", "alive", "exited", "killed"}]
    BY <2>1, <2>2 DEF TypeOK
  <2>4. TypeOK'
    BY <1>6, <2>1, <2>3 DEF TypeOK, ShellExits, store, memory
  <2>5. QED  BY <1>6, <2>4, FrameAll DEF SameRow, ShellExits, store, memory
<1>7. ASSUME NEW c \in Command, NEW k \in Caller, StopStepOf(c, k)  PROVE Inv'
  BY <1>7, StopPreservesInv
<1>8. CASE Crash
  BY <1>8, CrashPreservesInv
<1>9. ASSUME NEW c \in Command, ReconcileRunInterrupted(c)  PROVE Inv'
  BY <1>9, InterruptedPreservesInv
<1>10. CASE RecoveryStep
  BY <1>10, RestartPreservesInv, ReconcileRunPreservesInv, FinishRecoveryPreservesInv
  DEF RecoveryStep
<1>11. QED
  BY <1>1, <1>2, <1>3, <1>4, <1>5, <1>6, <1>7, <1>8, <1>9, <1>10 DEF Next

(* Every reachable state satisfies the inductive invariant: rows, worker and  *)
(* capability of each command fit together at every await of every operation. *)
THEOREM Invariance == Spec => []Inv
<1>1. Init => Inv
  BY InitInv
<1>2. Inv /\ [Next]_vars => Inv'
  BY NextPreservesInv, StutterPreservesInv
<1>3. QED  BY <1>1, <1>2, PTL DEF Spec

(* Every variable keeps its type, whatever the size of the installation.      *)
THEOREM TypeCorrect == Spec => []TypeOK
<1>1. Inv => TypeOK
  BY DEF Inv
<1>2. QED  BY <1>1, Invariance, PTL

(* A command row and its execution row never tell different stories, across   *)
(* lease loss, daemon completion, owner resets, stops, crashes and restarts.  *)
THEOREM RowsAgree == Spec => []CommandMirrorsExecution
<1>1. Inv => CommandMirrorsExecution
  <2>1. SUFFICES ASSUME Inv, NEW c \in Command
                 PROVE  CASE execution[c] = "absent" -> command[c] \notin {"running", "paused"}
                          [] execution[c] \in NonTerminal -> command[c] = "running"
                          [] execution[c] \in Terminal -> command[c] = execution[c]
    BY DEF CommandMirrorsExecution
  <2>2. /\ execution[c] = "absent" => command[c] \notin {"running", "paused"}
        /\ execution[c] \in NonTerminal => command[c] = "running"
        /\ execution[c] \in Terminal => command[c] = execution[c]
    BY <2>1 DEF Inv, Coherent
  <2>3. execution[c] \in ExecutionState
    BY <2>1 DEF Inv, TypeOK
  <2>4. CASE execution[c] = "absent"
    BY <2>2, <2>4 DEF NonTerminal, Active, Terminal
  <2>5. CASE execution[c] \in NonTerminal
    BY <2>2, <2>5 DEF NonTerminal, Active, Terminal
  <2>6. CASE execution[c] \in Terminal
    BY <2>2, <2>6 DEF NonTerminal, Active, Terminal
  <2>7. QED  BY <2>3, <2>4, <2>5, <2>6 DEF ExecutionState
<1>2. QED  BY <1>1, Invariance, PTL

(* No execution is orphaned and none has two workers: while the control plane *)
(* serves, an execution is unsettled exactly as long as a worker drives it.   *)
THEOREM NoOrphanedExecution == Spec => []SupervisedAuthority
<1>1. Inv => SupervisedAuthority
  BY DEF Inv, Coherent, SupervisedAuthority
<1>2. QED  BY <1>1, Invariance, PTL

(* A capability the run API accepts belongs to an execution that has          *)
(* authority, at the generation it was issued for: every fence revokes it.    *)
THEOREM FenceIsComplete == Spec => []LiveCapabilityIsCurrent
<1>1. Inv => LiveCapabilityIsCurrent
  BY DEF Inv, Coherent, LiveCapabilityIsCurrent
<1>2. QED  BY <1>1, Invariance, PTL

(* At each await the worker finds its run, session and stop as it left them.  *)
THEOREM WorkerInvariant == Spec => []WorkerOwnsExecution
<1>1. Inv => WorkerOwnsExecution
  BY DEF Inv, Coherent, WorkerOwnsExecution
<1>2. QED  BY <1>1, Invariance, PTL
=============================================================================
