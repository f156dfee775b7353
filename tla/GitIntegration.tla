--------------------------- MODULE GitIntegration ---------------------------
(***************************************************************************)
(* The governed integration of a finished task: the owner has a plan       *)
(* prepared, executes or cancels it, and the control plane moves Git refs, *)
(* pushes, opens pull requests and records what it did.  Every request is  *)
(* an asynchronous handler: between two of its steps any other request,    *)
(* an owner's own commit, a continuity export or a crash may come.         *)
(*                                                                         *)
(* Git history is a set of commits: commits of the owner and, for an       *)
(* integration that landed, its result commit, named by the integration.   *)
(* One task is modelled; another task's integration is, for this one, one  *)
(* more commit that moves the target.                                      *)
(***************************************************************************)
EXTENDS Naturals, FiniteSets

CONSTANTS
    Integrations,      \* rows of git_integrations that may be created
    Handlers,          \* requests the server may be working on at a time
    OwnerCommits,      \* commits made outside Pink Guy
    NoIntegration,
    OwnerModes,        \* modes the owner chooses among
    MaxRevision,       \* bound: revisions the task reaches
    MaxPolicyVersion,  \* bound: versions of the project's Git policy
    MaxRestarts,       \* bound: restarts of the control plane
    MaxExports         \* bound: continuity exports

ASSUME GitAssumption ==
    /\ NoIntegration \notin Integrations
    /\ Integrations \cap OwnerCommits = {}
    /\ OwnerModes \subseteq {"prepare_only", "local_integrate", "local_push", "pull_request"}
    /\ MaxRevision \in Nat \ {0}
    /\ MaxPolicyVersion \in Nat \ {0}

VARIABLES
    task,          \* the task: its revision, and whether it is done
    merge,         \* merge_requests: the status of each revision's request
    policy,        \* project_git_policies: version and mode
    row,           \* git_integrations
    target,        \* commits of the local target branch
    remote,        \* commits of the remote's target branch
    branches,      \* integrations whose branch and worktree exist
    pushed,        \* integrations whose branch exists on the remote
    pullRequests,  \* integrations a pull request was opened for
    handler,       \* the requests in progress
    exporting,     \* a continuity export holds the database read-only
    orphaned,      \* rows left integrating because the export refused a write
    restarts,
    exports

git == <<target, remote, branches, pushed, pullRequests>>
owner == <<task, policy>>
bounds == <<restarts, exports>>
vars == <<owner, merge, row, git, handler, exporting, orphaned, bounds>>

\* "local_push" is local_integrate with allow_push.
Modes == {"prepare_only", "local_integrate", "local_push", "pull_request"}

Revisions == 1..MaxRevision

Commits == Integrations \cup OwnerCommits

NoRow == [state |-> "none", version |-> 0, mode |-> "prepare_only",
          policyVersion |-> 0, base |-> {}, source |-> 1]

Idle == [pc |-> "idle", integration |-> NoIntegration, version |-> 0]

Init ==
    /\ task = [revision |-> 1, done |-> FALSE]
    /\ merge = [r \in Revisions |-> "none"]
    /\ policy = [version |-> 1, mode |-> "prepare_only"]
    /\ row = [i \in Integrations |-> NoRow]
    /\ target = {}
    /\ remote = {}
    /\ branches = {}
    /\ pushed = {}
    /\ pullRequests = {}
    /\ handler = [h \in Handlers |-> Idle]
    /\ exporting = FALSE
    /\ orphaned = {}
    /\ restarts = 0
    /\ exports = 0

-----------------------------------------------------------------------------
(* The task, the policy and the repository move on their own.  A request   *)
(* that changes the database is refused while an export runs.              *)

\* The integration gates: done, and the merge request of the current
\* revision is pending.  Reopening stands for every other gate that opens.
Gates == task.done /\ merge[task.revision] = "requested"

\* Completing requests the merge of the current revision, again when that
\* revision was requested or merged before.
TaskCompletes(r) ==
    /\ ~exporting /\ ~task.done
    /\ r \in {task.revision, task.revision + 1} \cap Revisions
    /\ task' = [revision |-> r, done |-> TRUE]
    /\ merge' = [merge EXCEPT ![r] = "requested"]
    /\ UNCHANGED <<policy, row, git, handler, exporting, orphaned, bounds>>

TaskReopens ==
    /\ ~exporting /\ task.done
    /\ task' = [task EXCEPT !.done = FALSE]
    /\ UNCHANGED <<policy, merge, row, git, handler, exporting, orphaned, bounds>>

UpdatePolicy(mode) ==
    /\ ~exporting /\ policy.version < MaxPolicyVersion
    /\ policy' = [version |-> policy.version + 1, mode |-> mode]
    /\ UNCHANGED <<task, merge, row, git, handler, exporting, orphaned, bounds>>

OwnerCommitsLocally(c) ==
    /\ c \notin target
    /\ target' = target \cup {c}
    /\ UNCHANGED <<owner, merge, row, remote, branches, pushed, pullRequests,
                   handler, exporting, orphaned, bounds>>

OwnerPushes(c) ==
    /\ c \notin remote
    /\ remote' = remote \cup {c}
    /\ UNCHANGED <<owner, merge, row, target, branches, pushed, pullRequests,
                   handler, exporting, orphaned, bounds>>

-----------------------------------------------------------------------------
(* Steps of a request.                                                     *)

At(h, pc) == handler[h].pc = pc

Of(h) == handler[h].integration

Goto(h, pc) == handler' = [handler EXCEPT ![h].pc = pc]

Leaves(h) == handler' = [handler EXCEPT ![h] = Idle]

\* mutant: The row's version is not compared.
WritableAtAnyVersion(h) == ~exporting

\* transitionGitIntegration: the version the request last saw must be the
\* row's, and the database must accept writes.
Writable(h) == ~exporting /\ row[Of(h)].version = handler[h].version

Moved(i, state) ==
    [row EXCEPT ![i].state = state, ![i].version = @ + 1]

\* The catch clause of an execution: the row takes the state of the error;
\* when that write is refused too, nobody is left to move the row.
Fails(h, state) ==
    /\ Leaves(h)
    /\ \/ /\ Writable(h)
          /\ row' = Moved(Of(h), state)
          /\ UNCHANGED orphaned
       \/ /\ ~Writable(h)
          /\ orphaned' = orphaned \cup {Of(h)}
          /\ UNCHANGED row
    /\ UNCHANGED <<owner, merge, exporting, bounds>>

\* The history with these commits holds the work of revision r.
Carries(commits, r) ==
    \E i \in commits \cap Integrations : row[i].source >= r

\* The commits of the result built on the plan's target revision: merging
\* what the target already holds adds nothing.
Result(i) ==
    row[i].base \cup IF Carries(row[i].base, row[i].source) THEN {} ELSE {i}

-----------------------------------------------------------------------------
(* Preparation.                                                            *)

\* The simulated merge is clean or not.
Previews == {"prepared", "conflict"}

\* The request reads gates, revision and target, has Git simulate the merge,
\* and records the plan only if, then, the gates are open and the revision is
\* still the task's: what it read before has no effect of its own, so the
\* request is this one step.  The policy recorded is that of the moment.
Prepare(i, state) ==
    /\ ~exporting /\ Gates
    /\ row[i].state = "none"
    /\ row' = [row EXCEPT ![i] =
                  [state |-> state, version |-> 1, mode |-> policy.mode,
                   policyVersion |-> policy.version, base |-> target,
                   source |-> task.revision]]
    /\ UNCHANGED <<owner, merge, git, handler, exporting, orphaned, bounds>>

-----------------------------------------------------------------------------
(* Execution.                                                              *)

\* Gates and policy are compared with the plan once, when the request comes.
ExecuteStart(h, i) ==
    /\ ~exporting /\ At(h, "idle")
    /\ row[i].state = "prepared"
    /\ Gates
    /\ policy.version = row[i].policyVersion /\ policy.mode = row[i].mode
    /\ policy.mode # "prepare_only"
    /\ task.revision = row[i].source
    /\ handler' = [handler EXCEPT ![h] =
                      [Idle EXCEPT !.pc = "begin", !.integration = i,
                                   !.version = row[i].version]]
    /\ UNCHANGED <<owner, merge, row, git, exporting, orphaned, bounds>>

\* After Git told the repository's identity and the target's revision, the
\* action is recorded and the row starts integrating in one synchronous step.
ExecuteBegins(h) ==
    /\ At(h, "begin")
    /\ Writable(h) /\ target = row[Of(h)].base
    /\ row' = Moved(Of(h), "integrating")
    /\ handler' = [handler EXCEPT ![h].pc = "create", ![h].version = @ + 1]
    /\ UNCHANGED <<owner, merge, git, exporting, orphaned, bounds>>

ExecuteRefused(h) ==
    /\ At(h, "begin")
    /\ ~Writable(h) \/ target # row[Of(h)].base
    /\ Leaves(h)
    /\ UNCHANGED <<owner, merge, row, git, exporting, orphaned, bounds>>

\* The result is built in a worktree and branch of its own, made anew.
CreateResult(h) ==
    /\ At(h, "create") /\ target = row[Of(h)].base
    /\ branches' = branches \cup {Of(h)}
    /\ \/ /\ Goto(h, IF row[Of(h)].mode = "pull_request" THEN "pushBranch" ELSE "publish")
          /\ UNCHANGED <<owner, merge, row, exporting, orphaned, bounds>>
       \/ Fails(h, "conflict")
    /\ UNCHANGED <<target, remote, pushed, pullRequests>>

\* mutant: update-ref without the revision it replaces.
PublishUnchecked(h) ==
    /\ At(h, "publish")
    /\ target' = Result(Of(h))
    /\ Goto(h, IF row[Of(h)].mode = "local_push" THEN "push" ELSE "clean")
    /\ UNCHANGED <<owner, merge, row, remote, branches, pushed, pullRequests,
                   exporting, orphaned, bounds>>

\* publishLocalIntegration: fast-forward of a clean checked-out target, or
\* update-ref from the revision the plan was made for.
PublishLocally(h) ==
    /\ At(h, "publish") /\ target = row[Of(h)].base
    /\ target' = Result(Of(h))
    /\ Goto(h, IF row[Of(h)].mode = "local_push" THEN "push" ELSE "clean")
    /\ UNCHANGED <<owner, merge, row, remote, branches, pushed, pullRequests,
                   exporting, orphaned, bounds>>

\* The target is not the plan's (seen before building, or before publishing),
\* or the checked-out target has modifications of the owner.
StaleOrDirty(h) ==
    /\ \/ At(h, "create") /\ target # row[Of(h)].base
       \/ At(h, "publish")
    /\ Fails(h, "failed")
    /\ UNCHANGED git

\* A normal push of the local target: the remote refuses all but a
\* fast-forward.
PushTarget(h) ==
    /\ At(h, "push") /\ remote \subseteq target
    /\ remote' = target
    /\ \/ /\ Goto(h, "clean")
          /\ UNCHANGED <<owner, merge, row, exporting, orphaned, bounds>>
       \/ Fails(h, "reconciliation_required")
    /\ UNCHANGED <<target, branches, pushed, pullRequests>>

PushBranch(h) ==
    /\ At(h, "pushBranch") /\ Of(h) \in branches
    /\ pushed' = pushed \cup {Of(h)}
    /\ \/ /\ Goto(h, "openPullRequest")
          /\ UNCHANGED <<owner, merge, row, exporting, orphaned, bounds>>
       \/ Fails(h, "reconciliation_required")
    /\ UNCHANGED <<target, remote, branches, pullRequests>>

\* gh may report a failure of a pull request that was opened.
OpenPullRequest(h) ==
    /\ At(h, "openPullRequest")
    /\ pullRequests' = pullRequests \cup {Of(h)}
    /\ \/ /\ Goto(h, "clean")
          /\ UNCHANGED <<owner, merge, row, exporting, orphaned, bounds>>
       \/ Fails(h, "reconciliation_required")
    /\ UNCHANGED <<target, remote, branches, pushed>>

CleanIntegration(h) ==
    /\ At(h, "clean")
    /\ branches' = branches \ {Of(h)}
    /\ Goto(h, "settle")
    /\ UNCHANGED <<owner, merge, row, target, remote, pushed, pullRequests,
                   exporting, orphaned, bounds>>

\* mutant: A failed command is an ordinary failure of the integration.
GitFailureIsFinal(h) ==
    /\ handler[h].pc \in {"create", "publish", "push", "pushBranch", "openPullRequest", "clean"}
    /\ Fails(h, "failed")
    /\ UNCHANGED git

\* Any Git command may fail without effect.
GitFails(h) ==
    /\ handler[h].pc \in {"create", "publish", "push", "pushBranch", "openPullRequest", "clean"}
    /\ Fails(h, "reconciliation_required")
    /\ UNCHANGED git

\* mutant: The final states were renamed for one of the two tables.
FinalStateRenamed(i) == "merged"

FinalState(i) ==
    IF row[i].mode = "local_integrate" THEN "integrated" ELSE "published"

\* The row, then the merge request of its revision, take the final state.
Settle(h) ==
    /\ At(h, "settle") /\ Writable(h)
    /\ row' = Moved(Of(h), FinalState(Of(h)))
    /\ merge' = [merge EXCEPT ![row[Of(h)].source] = FinalState(Of(h))]
    /\ Leaves(h)
    /\ UNCHANGED <<owner, git, exporting, orphaned, bounds>>

SettleRefused(h) ==
    /\ At(h, "settle") /\ ~Writable(h)
    /\ Fails(h, "reconciliation_required")
    /\ UNCHANGED git

-----------------------------------------------------------------------------
(* Cancellation.                                                           *)

Cancellable == {"prepared", "conflict", "failed", "reconciliation_required"}

CancelStart(h, i) ==
    /\ ~exporting /\ At(h, "idle")
    /\ row[i].state \in Cancellable
    /\ handler' = [handler EXCEPT ![h] =
                      [Idle EXCEPT !.pc = "cleanup", !.integration = i,
                                   !.version = row[i].version]]
    /\ UNCHANGED <<owner, merge, row, git, exporting, orphaned, bounds>>

\* The worktree and the branch are removed whatever the row has become
\* meanwhile; if Git fails here, the request ends and the row stays.
CancelCleans(h) ==
    /\ At(h, "cleanup")
    /\ \/ branches' = branches \ {Of(h)} /\ Goto(h, "cancel")
       \/ Leaves(h) /\ UNCHANGED branches
    /\ UNCHANGED <<owner, merge, row, target, remote, pushed, pullRequests,
                   exporting, orphaned, bounds>>

CancelSettles(h) ==
    /\ At(h, "cancel") /\ Writable(h)
    /\ row' = Moved(Of(h), "cancelled")
    /\ Leaves(h)
    /\ UNCHANGED <<owner, merge, git, exporting, orphaned, bounds>>

CancelRefused(h) ==
    /\ At(h, "cancel") /\ ~Writable(h)
    /\ Leaves(h)
    /\ UNCHANGED <<owner, merge, row, git, exporting, orphaned, bounds>>

-----------------------------------------------------------------------------
(* Export, crash and restart.                                              *)

\* An integration in progress is not among the blockers of an export.
ExportBegins ==
    /\ ~exporting /\ exports < MaxExports
    /\ exporting' = TRUE
    /\ exports' = exports + 1
    /\ UNCHANGED <<owner, merge, row, git, handler, orphaned, restarts>>

ExportEnds ==
    /\ exporting
    /\ exporting' = FALSE
    /\ UNCHANGED <<owner, merge, row, git, handler, orphaned, bounds>>

\* What the next start makes of the rows: an integration that was interrupted
\* is never replayed.
Reconciled(rows) ==
    [i \in Integrations |->
        IF rows[i].state = "integrating"
        THEN [rows[i] EXCEPT !.state = "reconciliation_required", !.version = @ + 1]
        ELSE rows[i]]

ProcessDies ==
    /\ restarts < MaxRestarts
    /\ restarts' = restarts + 1
    /\ handler' = [h \in Handlers |-> Idle]
    /\ exporting' = FALSE
    /\ orphaned' = {}

CrashAndRestart ==
    /\ ProcessDies
    /\ row' = Reconciled(row)
    /\ UNCHANGED <<owner, merge, git, exports>>

\* The row and the merge request are two statements without a transaction:
\* the process may die between them.
CrashWhileSettling(h) ==
    /\ At(h, "settle") /\ Writable(h)
    /\ ProcessDies
    /\ row' = Reconciled(Moved(Of(h), FinalState(Of(h))))
    /\ UNCHANGED <<owner, merge, git, exports>>

-----------------------------------------------------------------------------

Step(h) ==
    \/ ExecuteBegins(h) \/ ExecuteRefused(h)
    \/ CreateResult(h) \/ PublishLocally(h) \/ StaleOrDirty(h)
    \/ PushTarget(h) \/ PushBranch(h) \/ OpenPullRequest(h)
    \/ GitFails(h) \/ CleanIntegration(h)
    \/ Settle(h) \/ SettleRefused(h) \/ CrashWhileSettling(h)
    \/ CancelCleans(h) \/ CancelSettles(h) \/ CancelRefused(h)

Next ==
    \/ \E r \in Revisions : TaskCompletes(r)
    \/ TaskReopens
    \/ \E mode \in OwnerModes : UpdatePolicy(mode)
    \/ \E c \in OwnerCommits : OwnerCommitsLocally(c) \/ OwnerPushes(c)
    \/ \E i \in Integrations, state \in Previews : Prepare(i, state)
    \/ \E h \in Handlers :
          Step(h) \/ \E i \in Integrations : ExecuteStart(h, i) \/ CancelStart(h, i)
    \/ ExportBegins \/ ExportEnds
    \/ CrashAndRestart

Spec == Init /\ [][Next]_vars

-----------------------------------------------------------------------------
(* Properties.                                                             *)

RowStates ==
    {"none", "prepared", "conflict", "integrating", "integrated", "published",
     "failed", "reconciliation_required", "cancelled"}

\* Where a request is: it compares plan and target, moves Git, or takes back.
Starting == {"begin"}
ExecutionSteps ==
    {"create", "publish", "push", "pushBranch", "openPullRequest", "clean", "settle"}
Cancelling == {"cleanup", "cancel"}

\* Every variable holds a value of its kind.
TypeOK ==
    /\ task \in [revision : Revisions, done : BOOLEAN]
    /\ merge \in [Revisions -> {"none", "requested", "integrated", "published"}]
    /\ policy \in [version : 1..MaxPolicyVersion, mode : Modes]
    /\ row \in [Integrations ->
          [state : RowStates, version : 0..4, mode : Modes,
           policyVersion : 0..MaxPolicyVersion, base : SUBSET Commits,
           source : Revisions]]
    /\ target \subseteq Commits /\ remote \subseteq Commits
    /\ branches \subseteq Integrations /\ pushed \subseteq Integrations
    /\ pullRequests \subseteq Integrations
    /\ handler \in [Handlers ->
          [pc : {"idle"} \cup Starting \cup ExecutionSteps \cup Cancelling,
           integration : Integrations \cup {NoIntegration}, version : 0..4]]
    /\ exporting \in BOOLEAN
    /\ orphaned \subseteq Integrations

\* No step of Pink Guy drops a commit from the target branch, here or on the
\* remote, whoever committed while an integration was under way: publication
\* and push only ever move the branch forward.
NothingIsLost == [][target \subseteq target' /\ remote \subseteq remote']_vars

\* The rows tell the truth about Git.  One that reads prepared, conflict or
\* failed has published nothing: the owner may prepare anew without looking at
\* the repositories first.  One that reads integrated or published has, as has
\* a merge request: the revision is on the target, on the remote, or in a pull
\* request, according to the policy it was executed under.
RowsAreTrue ==
    /\ \A i \in Integrations :
          /\ row[i].state \in {"none", "prepared", "conflict", "failed"} =>
                i \notin target \cup remote \cup pushed \cup pullRequests
          /\ row[i].state \in {"integrated", "published"} =>
                CASE row[i].mode = "local_integrate" -> Carries(target, row[i].source)
                  [] row[i].mode = "local_push" -> Carries(remote, row[i].source)
                  [] OTHER -> i \in pullRequests
    /\ \A r \in Revisions :
          /\ merge[r] = "integrated" => Carries(target, r)
          /\ merge[r] = "published" => Carries(remote \cup pullRequests, r)

\* One of the requests is executing integration i.
Executing(h, i) ==
    /\ Of(h) = i
    /\ handler[h].pc \in ExecutionSteps

\* A request executes an integration exactly while its row reads integrating,
\* and it is one request: a row at rest is not being published behind the
\* owner's back, although a plan may be cancelled while it starts to execute,
\* and a row in progress is never left without anybody to end it, unless a
\* continuity export refused the write that would have ended it.
ExecutionHasOneRequest ==
    \A i \in Integrations :
        LET executing == {h \in Handlers : Executing(h, i)} IN
            IF row[i].state = "integrating" /\ i \notin orphaned
            THEN Cardinality(executing) = 1
            ELSE executing = {}

=============================================================================
