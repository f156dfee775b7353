-------------------------- MODULE ConversationTurns --------------------------
(***************************************************************************)
(* Conversations between the owner and an orchestrator.  The control plane  *)
(* keeps topics, conversations, turns and orchestration leases in SQLite    *)
(* (store.mjs); each scope, the system intake and a project, has a daemon   *)
(* (conversation-runtime.mjs) that polls for turns and answers each with a  *)
(* Pi process it keeps per conversation.  Claim, run, events, task changes  *)
(* and completion are separate requests of the daemon and of Pi.            *)
(*                                                                          *)
(* A lease is represented by its scope: at most one lease of a scope is     *)
(* active, and a turn whose lease ends is reconciled in the same            *)
(* transaction.  Requests replayed under their idempotency key return the   *)
(* first answer and change nothing; they are stuttering steps.              *)
(***************************************************************************)
EXTENDS Integers, Sequences, FiniteSets

CONSTANTS
    Conversation,
    MaxTurns,     \* owner messages
    MaxVersion,   \* scope transfers and model switches of a conversation
    MaxFaults     \* troubles and losses together

ASSUME BoundsAssumption ==
    /\ MaxTurns \in Nat /\ MaxVersion \in Nat \ {0}
    /\ MaxFaults \in Nat

VARIABLES
    conversation, \* topic and conversation rows
    turn,         \* conversation_turns (and the run of each) in order of creation
    lease,        \* scopes that have an active orchestration lease
    daemon,       \* ConversationOrchestratorRuntime of each scope
    pi,           \* its Pi process for each conversation
    request,      \* owner requests waiting for the custody export
    change,       \* task changes linked to another turn than the one Pi worked on
    troubles,     \* daemons stopped or killed, Pi processes that failed
    lost          \* answers that never arrived, renewals that came too late

rows == <<conversation, turn, lease>>
vars == <<conversation, turn, lease, daemon, pi, request, change, troubles, lost>>

Scope == {"system_intake", "project"}
ConversationStates ==
    {"absent", "idle", "queued", "running", "failed",
     "reconciliation_required", "archived"}
TurnStates == {"queued", "running", "completed", "failed", "reconciliation_required"}
Steps == {"idle", "claimed", "opened", "prompting", "prompted", "failing"}
Tokens == {"none", "live", "lost"}
Turns == 1..MaxTurns

NoRequest == [conversation |-> "none"]
Requests == {"bind", "switch"}
NoPi == [version |-> 0, work |-> 0, handler |-> 0]
NoDaemon == [token |-> "none", pc |-> "idle", turn |-> 0, version |-> 0, settled |-> FALSE]

Init ==
    /\ conversation = [c \in Conversation |->
          [state |-> "absent", scope |-> "system_intake", version |-> 1,
           current |-> 0, archived |-> FALSE]]
    /\ turn = << >>
    /\ lease = {}
    /\ daemon = [s \in Scope |-> NoDaemon]
    /\ pi = [s \in Scope |-> [c \in Conversation |-> NoPi]]
    /\ request = [k \in Requests |-> NoRequest]
    /\ change = {}
    /\ troubles = 0
    /\ lost = 0

-----------------------------------------------------------------------------
(* The rows. *)

RunningTurns(c) ==
    {t \in DOMAIN turn : turn[t].conversation = c /\ turn[t].state = "running"}
QueuedTurns(c) ==
    {t \in DOMAIN turn : turn[t].conversation = c /\ turn[t].state = "queued"}

\* The turn is running for the active lease whose token the caller holds, and
\* its conversation is still in the scope of that lease.
ActiveTurnForLease(s, t) ==
    /\ t # 0
    /\ daemon[s].token = "live"
    /\ turn[t].state = "running"
    /\ turn[t].claimed_by = s
    /\ conversation[turn[t].conversation].scope = s

KeepTurns(s) == turn

\* A lease that ends leaves its running turns, and their conversations, to be
\* reconciled: nothing is replayed.
ReconciledTurns(s) ==
    [t \in DOMAIN turn |->
        IF turn[t].state = "running" /\ turn[t].claimed_by = s
        THEN [turn[t] EXCEPT !.state = "reconciliation_required"]
        ELSE turn[t]]
ReconciledConversations(s) ==
    [c \in Conversation |->
        IF \E t \in RunningTurns(c) : turn[t].claimed_by = s
        THEN [conversation[c] EXCEPT
                 !.state = "reconciliation_required",
                 !.current = CHOOSE t \in RunningTurns(c) : turn[t].claimed_by = s]
        ELSE conversation[c]]

EndLease(s) ==
    /\ lease' = lease \ {s}
    /\ turn' = ReconciledTurns(s)
    /\ conversation' = ReconciledConversations(s)

OutcomeAfter(c, outcome) ==
    IF QueuedTurns(c) # {} THEN "queued" ELSE outcome

\* What completion makes of the conversation: idle or failed, and queued at
\* once when another message waits.
StateAfter(c, outcome) ==
    IF QueuedTurns(c) # {} THEN "queued"
    ELSE IF outcome = "failed" THEN "failed" ELSE "idle"

CompleteTurn(t, outcome) ==
    LET c == turn[t].conversation
    IN  /\ turn' = [turn EXCEPT ![t].state = outcome]
        /\ conversation' = [conversation EXCEPT
              ![c].state = StateAfter(c, outcome), ![c].current = 0]

-----------------------------------------------------------------------------
(* The owner. *)

\* createTopic
CreateTopic(c, s) ==
    /\ conversation[c].state = "absent"
    /\ conversation' = [conversation EXCEPT ![c].state = "idle", ![c].scope = s]
    /\ UNCHANGED <<turn, lease, daemon, pi, request, change, troubles, lost>>

\* submitConversationTurn
SubmitTurn(c) ==
    /\ Len(turn) < MaxTurns
    /\ conversation[c].state \notin {"absent", "archived", "reconciliation_required"}
    /\ ~conversation[c].archived
    /\ turn' = Append(turn, [conversation |-> c, state |-> "queued",
                             claimed_by |-> "none", route |-> 0])
    /\ conversation' = IF conversation[c].state \in {"running", "queued"}
                       THEN conversation
                       ELSE [conversation EXCEPT ![c].state = "queued"]
    /\ UNCHANGED <<lease, daemon, pi, request, change, troubles, lost>>

\* archiveTopic: the topic is archived in any state, the conversation only when
\* no turn is running and none waits for reconciliation.
ArchiveTopic(c) ==
    /\ conversation[c].state # "absent" /\ ~conversation[c].archived
    /\ conversation' = [conversation EXCEPT
          ![c].archived = TRUE,
          ![c].state = IF @ \in {"running", "reconciliation_required"}
                       THEN @ ELSE "archived"]
    /\ UNCHANGED <<turn, lease, daemon, pi, request, change, troubles, lost>>

\* A scope transfer or a model switch: the handler reads the conversation,
\* captures it and awaits the files of the custody export.  The snapshot
\* carries the version of that moment; the owner expects the version shown.
Snapshot(c) == [conversation |-> c, captured |-> conversation[c].version]

BeginExport(kind, c) ==
    /\ request[kind] = NoRequest
    /\ conversation[c].state # "absent"
    /\ conversation[c].version < MaxVersion
    /\ request' = [request EXCEPT ![kind] = Snapshot(c)]
    /\ UNCHANGED <<conversation, turn, lease, daemon, pi, change, troubles, lost>>

BindableWhileRunning(c, captured) ==
    /\ conversation[c].scope = "system_intake"
    /\ conversation[c].version = captured

\* bindTopicToProject, after the export
Bindable(c, captured) ==
    /\ conversation[c].scope = "system_intake"
    /\ conversation[c].version = captured
    /\ conversation[c].state \notin {"running", "reconciliation_required"}
    /\ conversation[c].current = 0

BoundConversation(row) ==
    [row EXCEPT !.scope = "project", !.version = @ + 1, !.state = "idle"]

BindTopicToProject ==
    LET c == request["bind"].conversation
    IN  /\ request["bind"] # NoRequest
        /\ conversation' =
              IF Bindable(c, request["bind"].captured)
              THEN [conversation EXCEPT ![c] = BoundConversation(@)]
              ELSE conversation
        /\ request' = [request EXCEPT !["bind"] = NoRequest]
        /\ UNCHANGED <<turn, lease, daemon, pi, change, troubles, lost>>

\* switchConversationModel, after the export
Switchable(c, captured) ==
    /\ conversation[c].state # "archived"
    /\ conversation[c].version = captured
    /\ RunningTurns(c) = {}

SwitchedConversation(row) ==
    [row EXCEPT !.version = @ + 1, !.state = IF @ = "failed" THEN "idle" ELSE @]

SwitchConversationModel ==
    LET c == request["switch"].conversation
    IN  /\ request["switch"] # NoRequest
        /\ conversation' =
              IF Switchable(c, request["switch"].captured)
              THEN [conversation EXCEPT ![c] = SwitchedConversation(@)]
              ELSE conversation
        /\ request' = [request EXCEPT !["switch"] = NoRequest]
        /\ UNCHANGED <<turn, lease, daemon, pi, change, troubles, lost>>

-----------------------------------------------------------------------------
(* Leases. *)

\* The daemon process registers before it polls (registerOrchestrationLease) and
\* ends when that is refused because a lease of the scope is active.  A runtime
\* that has a token never registers again, whatever became of its lease.
RegisterLease(s) ==
    /\ daemon[s].token = "none"
    /\ s \notin lease
    /\ lease' = lease \union {s}
    /\ daemon' = [daemon EXCEPT ![s].token = "live"]
    /\ UNCHANGED <<conversation, turn, pi, request, change, troubles, lost>>

\* expireOrchestrationLeases of a lease whose daemon died: nobody renews it.
OrphanedLeaseExpires(s) ==
    /\ s \in lease /\ daemon[s].token = "none"
    /\ EndLease(s)
    /\ UNCHANGED <<daemon, pi, request, change, troubles, lost>>

\* The same for a live daemon whose renewals did not arrive in time.
LeaseExpires(s) ==
    /\ s \in lease /\ daemon[s].token = "live"
    /\ troubles + lost < MaxFaults
    /\ EndLease(s)
    /\ daemon' = [daemon EXCEPT ![s].token = "lost"]
    /\ lost' = lost + 1
    /\ UNCHANGED <<pi, request, change, troubles>>

NoProcesses == [c \in Conversation |-> NoPi]

\* The process dies: its Pi children with it, its lease stays until it expires.
Dies(s) ==
    /\ daemon' = [daemon EXCEPT ![s] = NoDaemon]
    /\ pi' = [pi EXCEPT ![s] = NoProcesses]

KillDaemon(s) ==
    /\ daemon[s].token # "none" /\ troubles + lost < MaxFaults
    /\ Dies(s)
    /\ troubles' = troubles + 1
    /\ UNCHANGED <<rows, request, change, lost>>

\* close: Pi is terminated and the lease released.
StopDaemon(s) ==
    /\ daemon[s].token # "none" /\ troubles + lost < MaxFaults
    /\ Dies(s)
    /\ IF daemon[s].token = "live" THEN EndLease(s) ELSE UNCHANGED rows
    /\ troubles' = troubles + 1
    /\ UNCHANGED <<request, change, lost>>

-----------------------------------------------------------------------------
(* The daemon's loop: one turn at a time. *)

At(s, step) == daemon[s].token # "none" /\ daemon[s].pc = step
Rest(s) == [daemon[s] EXCEPT !.pc = "idle", !.turn = 0, !.version = 0, !.settled = FALSE]

ClaimableAfterReconciliation(s) ==
    {t \in DOMAIN turn :
        /\ turn[t].state = "queued"
        /\ conversation[turn[t].conversation].scope = s
        /\ conversation[turn[t].conversation].state \notin {"running", "archived"}}

ClaimableIfQueued(s) ==
    {t \in DOMAIN turn :
        /\ turn[t].state = "queued"
        /\ conversation[turn[t].conversation].scope = s
        /\ conversation[turn[t].conversation].state = "queued"}

\* The oldest queued turn of the scope whose conversation may proceed.
Claimable(s) ==
    {t \in DOMAIN turn :
        /\ turn[t].state = "queued"
        /\ conversation[turn[t].conversation].scope = s
        /\ conversation[turn[t].conversation].state
              \notin {"running", "reconciliation_required", "archived"}}

ClaimTurn(s, t) ==
    /\ t \in Claimable(s) /\ \A u \in Claimable(s) : t <= u
    /\ turn' = [turn EXCEPT ![t].state = "running", ![t].claimed_by = s]
    /\ conversation' = [conversation EXCEPT
          ![turn[t].conversation].state = "running",
          ![turn[t].conversation].current = t]

\* runOnce first ends the Pi processes of conversations its token cannot read.
ReadableProcesses(s) ==
    [c \in Conversation |->
        IF daemon[s].token = "lost" \/ conversation[c].scope # s THEN NoPi ELSE pi[s][c]]

\* claimConversationTurn: the answer carries the turn and the conversation as
\* it is; it is 204 when nothing waits, and an error for ever once the lease is
\* gone.
ClaimConversationTurn(s) ==
    /\ At(s, "idle")
    /\ pi' = [pi EXCEPT ![s] = ReadableProcesses(s)]
    /\ \/ \E t \in DOMAIN turn :
             /\ daemon[s].token = "live"
             /\ ClaimTurn(s, t)
             /\ daemon' = [daemon EXCEPT ![s] =
                   [@ EXCEPT !.pc = "claimed", !.turn = t,
                             !.version = conversation[turn[t].conversation].version]]
       \/ /\ Claimable(s) = {} \/ daemon[s].token = "lost"
          /\ UNCHANGED <<conversation, turn, daemon>>
    /\ UNCHANGED <<lease, request, change, troubles, lost>>

\* The turn is claimed, but the answer does not arrive.
ClaimIsLost(s) ==
    /\ At(s, "idle") /\ daemon[s].token = "live"
    /\ troubles + lost < MaxFaults
    /\ \E t \in DOMAIN turn : ClaimTurn(s, t)
    /\ pi' = [pi EXCEPT ![s] = ReadableProcesses(s)]
    /\ lost' = lost + 1
    /\ UNCHANGED <<lease, daemon, request, change, troubles>>

ReusableIfAlive(process, version) == process.version # 0

\* openSession keeps a living process of the same conversation version;
\* otherwise it terminates the process and starts one on the route it was given.
Reusable(process, version) == process.version = version

OpenSession(s) ==
    LET c == turn[daemon[s].turn].conversation
    IN  /\ At(s, "claimed")
        /\ pi' = IF Reusable(pi[s][c], daemon[s].version) THEN pi
                 ELSE [pi EXCEPT ![s][c] = [NoPi EXCEPT !.version = daemon[s].version]]
        /\ daemon' = [daemon EXCEPT ![s].pc = "opened"]
        /\ UNCHANGED <<rows, request, change, troubles, lost>>

\* Pi does not start, or starts on another route than it was asked for.
OpenSessionFails(s) ==
    LET c == turn[daemon[s].turn].conversation
    IN  /\ At(s, "claimed") /\ troubles + lost < MaxFaults
        /\ ~Reusable(pi[s][c], daemon[s].version)
        /\ pi' = [pi EXCEPT ![s][c] = NoPi]
        /\ daemon' = [daemon EXCEPT ![s].pc = "failing"]
        /\ troubles' = troubles + 1
        /\ UNCHANGED <<rows, request, change, lost>>

\* startConversationRun, then the event handler is set and the prompt written.
\* The run records the route the conversation has now.
StartConversationRun(s) ==
    LET t == daemon[s].turn
        c == turn[t].conversation
    IN  /\ At(s, "opened")
        /\ IF ActiveTurnForLease(s, t)
           THEN /\ turn' = [turn EXCEPT ![t].route = conversation[c].version]
                /\ pi' = [pi EXCEPT ![s][c].handler = IF pi[s][c] = NoPi THEN 0 ELSE t]
                /\ daemon' = [daemon EXCEPT ![s].pc = "prompting"]
           ELSE /\ daemon' = [daemon EXCEPT ![s].pc = "failing"]
                /\ UNCHANGED <<turn, pi>>
        /\ UNCHANGED <<conversation, lease, request, change, troubles, lost>>

\* The response to the prompt command: Pi refuses it while it works on another.
PromptAnswered(s) ==
    LET c == turn[daemon[s].turn].conversation
    IN  /\ At(s, "prompting") /\ pi[s][c] # NoPi
        /\ IF pi[s][c].work = 0
           THEN /\ pi' = [pi EXCEPT ![s][c].work = daemon[s].turn]
                /\ daemon' = [daemon EXCEPT ![s].pc = "prompted"]
           ELSE /\ daemon' = [daemon EXCEPT ![s].pc = "failing"]
                /\ UNCHANGED pi
        /\ UNCHANGED <<rows, request, change, troubles, lost>>

\* The hard deadline or the inactivity timeout, and the exit of Pi: the turn
\* fails; a living Pi is not told and works on.
WaitFails(s) ==
    LET c == turn[daemon[s].turn].conversation
    IN  /\ \/ At(s, "prompted") /\ ~daemon[s].settled
           \/ At(s, "prompting") /\ pi[s][c] = NoPi
        /\ daemon' = [daemon EXCEPT ![s].pc = "failing"]
        /\ UNCHANGED <<rows, pi, request, change, troubles, lost>>

\* execute posts the answer.  A refusal is not caught: the claim is given up.
PostAnswer(s) ==
    /\ At(s, "prompted") /\ daemon[s].settled
    /\ IF ActiveTurnForLease(s, daemon[s].turn)
       THEN CompleteTurn(daemon[s].turn, "completed")
       ELSE UNCHANGED <<conversation, turn>>
    /\ daemon' = [daemon EXCEPT ![s] = Rest(s)]
    /\ UNCHANGED <<lease, pi, request, change, troubles, lost>>

\* execute's catch posts the failure and ignores a refusal.
PostFailure(s) ==
    /\ At(s, "failing")
    /\ IF ActiveTurnForLease(s, daemon[s].turn)
       THEN CompleteTurn(daemon[s].turn, "failed")
       ELSE UNCHANGED <<conversation, turn>>
    /\ daemon' = [daemon EXCEPT ![s] = Rest(s)]
    /\ UNCHANGED <<lease, pi, request, change, troubles, lost>>

\* The request that would complete the turn does not arrive: nobody repeats it.
CompletionIsLost(s) ==
    /\ At(s, "failing") \/ (At(s, "prompted") /\ daemon[s].settled)
    /\ troubles + lost < MaxFaults
    /\ daemon' = [daemon EXCEPT ![s] = Rest(s)]
    /\ lost' = lost + 1
    /\ UNCHANGED <<rows, pi, request, change, troubles>>

-----------------------------------------------------------------------------
(* Pi. *)

\* Every event Pi reports is posted for the turn whose handler is set.
EventAccepted(s, c) == ActiveTurnForLease(s, pi[s][c].handler)

\* agent_settled: the daemon waits for the next such event after it wrote the
\* prompt, whichever prompt it ends.
PiSettles(s, c) ==
    /\ pi[s][c].work # 0
    /\ EventAccepted(s, c)
    /\ pi' = [pi EXCEPT ![s][c].work = 0]
    /\ daemon' = IF /\ daemon[s].pc \in {"prompting", "prompted"}
                    /\ daemon[s].turn = pi[s][c].handler
                 THEN [daemon EXCEPT ![s].settled = TRUE]
                 ELSE daemon
    /\ UNCHANGED <<rows, request, change, troubles, lost>>

\* An event of a turn that is over is refused, and the rejected promise of the
\* event chain, which nobody awaits any more, ends the daemon's process.
PiEventRefused(s, c) ==
    /\ pi[s][c].work # 0
    /\ ~EventAccepted(s, c)
    /\ ~(At(s, "prompted") /\ daemon[s].settled /\ daemon[s].turn = pi[s][c].handler)
    /\ Dies(s)
    /\ UNCHANGED <<rows, request, change, troubles, lost>>

\* A task tool of Pi: the change is linked to the turn of the conversation that
\* the lease runs at that moment.  Only a bound conversation can change tasks.
\* A change linked to the turn it was made in leaves no trace here.
PiChangesTask(s, c) ==
    /\ pi[s][c].work # 0
    /\ s = "project"
    /\ \E t \in RunningTurns(c) :
          /\ ActiveTurnForLease(s, t)
          /\ change' = change \union ({<<pi[s][c].work, t>>} \ {<<t, t>>})
    /\ UNCHANGED <<rows, daemon, pi, request, troubles, lost>>

PiDies(s, c) ==
    /\ pi[s][c] # NoPi /\ troubles + lost < MaxFaults
    /\ pi' = [pi EXCEPT ![s][c] = NoPi]
    /\ daemon' = IF At(s, "prompted") /\ turn[daemon[s].turn].conversation = c
                 THEN [daemon EXCEPT ![s].pc = "failing"] ELSE daemon
    /\ troubles' = troubles + 1
    /\ UNCHANGED <<rows, request, change, lost>>

-----------------------------------------------------------------------------
OwnerStep ==
    \/ \E c \in Conversation :
          \/ \E s \in Scope : CreateTopic(c, s)
          \/ SubmitTurn(c)
          \/ ArchiveTopic(c)
          \/ \E k \in Requests : BeginExport(k, c)
    \/ BindTopicToProject
    \/ SwitchConversationModel

DaemonStep(s) ==
    \/ RegisterLease(s)
    \/ ClaimConversationTurn(s)
    \/ OpenSession(s)
    \/ StartConversationRun(s)
    \/ PromptAnswered(s)
    \/ WaitFails(s)
    \/ PostAnswer(s)
    \/ PostFailure(s)

Trouble(s) ==
    \/ LeaseExpires(s)
    \/ KillDaemon(s)
    \/ StopDaemon(s)
    \/ ClaimIsLost(s)
    \/ OpenSessionFails(s)
    \/ CompletionIsLost(s)
    \/ \E c \in Conversation : PiDies(s, c)

Next ==
    \/ OwnerStep
    \/ \E s \in Scope :
          \/ DaemonStep(s)
          \/ OrphanedLeaseExpires(s)
          \/ \E c \in Conversation :
                PiSettles(s, c) \/ PiEventRefused(s, c) \/ PiChangesTask(s, c)
          \/ Trouble(s)

\* A daemon that is down is started again, once its old lease, which nobody
\* renews, has expired; while it is up it polls, and every wait ends by a timeout.
\* Nothing makes Pi settle, an export end, or the owner act.
Fairness == \A s \in Scope : WF_vars(DaemonStep(s) \/ OrphanedLeaseExpires(s))

Spec == Init /\ [][Next]_vars /\ Fairness

-----------------------------------------------------------------------------
(* Properties. *)

\* The rows, the daemons and the Pi processes keep their types.
TypeOK ==
    /\ conversation \in [Conversation ->
          [state : ConversationStates, scope : Scope, version : 1..MaxVersion,
           current : 0..MaxTurns, archived : BOOLEAN]]
    /\ turn \in Seq([conversation : Conversation, state : TurnStates,
                     claimed_by : Scope \union {"none"}, route : 0..MaxVersion])
    /\ Len(turn) <= MaxTurns
    /\ lease \subseteq Scope
    /\ daemon \in [Scope ->
          [token : Tokens, pc : Steps, turn : 0..MaxTurns,
           version : 0..MaxVersion, settled : BOOLEAN]]
    /\ pi \in [Scope -> [Conversation ->
          [version : 0..MaxVersion, work : 0..MaxTurns, handler : 0..MaxTurns]]]
    /\ request \in [Requests ->
          {NoRequest} \union [conversation : Conversation, captured : 1..MaxVersion]]
    /\ change \subseteq Turns \X Turns
    /\ troubles \in Nat /\ lost \in Nat /\ troubles + lost <= MaxFaults

\* A conversation says that it is running exactly while one turn of it is, that
\* turn is its current turn, and the lease of its own scope, active now, has
\* claimed it: neither the end of a lease nor a transfer nor an archive leaves a
\* running turn nobody may complete (store.mjs: claim, complete, reconcile).
RunningTurnIsSupervised ==
    /\ \A t \in DOMAIN turn : turn[t].state = "running" =>
          LET row == conversation[turn[t].conversation]
          IN  /\ row.state = "running" /\ row.current = t
              /\ turn[t].claimed_by = row.scope
              /\ row.scope \in lease
    /\ \A c \in Conversation : conversation[c].state = "running" =>
          RunningTurns(c) # {}

\* While a prompt is out, Pi runs on the route the run has recorded, and that is
\* still the route of the conversation: a transfer or switch that waited for its
\* export never slips in, and no process of an older version is kept.
RunMatchesSession ==
    \A s \in Scope :
        LET t == daemon[s].turn
        IN  (daemon[s].pc \in {"prompting", "prompted"} /\ ActiveTurnForLease(s, t)) =>
               LET c == turn[t].conversation
               IN  /\ turn[t].route = conversation[c].version
                   /\ pi[s][c] # NoPi => pi[s][c].version = turn[t].route

LedgerState(state) ==
    CASE state \in {"queued", "running"} -> state
      [] state \in {"completed", "failed"} -> "settled"
      [] OTHER -> "unknown"

Ledger == INSTANCE TurnLedger WITH
    ledger <- [t \in DOMAIN turn |->
                  [conversation |-> turn[t].conversation,
                   state |-> LedgerState(turn[t].state)]]

\* The tables implement the promise made to the owner: in order, one at a time,
\* at most once, and nothing after a turn whose fate is unknown.
ImplementsLedger == Ledger!Spec

Waiting(t) == t \in DOMAIN turn /\ turn[t].state = "queued"
Blocked(t) ==
    /\ t \in DOMAIN turn
    /\ conversation[turn[t].conversation].state \in {"archived", "reconciliation_required"}

\* While no answer is lost and no renewal comes too late, every message is taken
\* up, whatever process fails and whenever the owner transfers the conversation
\* or switches its model; unless the conversation is archived or an interrupted
\* turn keeps it for reconciliation.
TurnsAreServed ==
    \A t \in Turns : Waiting(t) ~> (~Waiting(t) \/ Blocked(t) \/ lost > 0)

\* Every change of a task is linked to the turn in which Pi made it.
ChangesAreLinked == change = {}
=============================================================================
