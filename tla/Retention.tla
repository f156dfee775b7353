----------------------------- MODULE Retention -----------------------------
(***************************************************************************)
(* What the owner removes, and what must stay: the cleanup of a task's     *)
(* containers and worktrees, the deletion of a session's retained files,   *)
(* and the holds and unresolved evidence that forbid them.  Both are       *)
(* requests of many steps with a durable receipt, repeated under the same  *)
(* idempotency key when they were interrupted or only partly succeeded.    *)
(*                                                                         *)
(* One Pi session is modelled with its runs: a run that resumes the        *)
(* session copies its file into a directory of its own and adds a run row  *)
(* to the same session.                                                    *)
(***************************************************************************)
EXTENDS Naturals, FiniteSets

CONSTANTS
    Runs,            \* runs of the session
    First,           \* the run that has already ended
    Implementation,  \* runs of the implementation phase
    Scopes,          \* what a hold may be placed on: "task" or a run
    Cleanups,        \* idempotency keys of cleanup requests
    Deletions,       \* idempotency keys of session deletions
    Handlers,        \* requests in progress at a time
    None,
    MaxChanges       \* bound: holds placed, evidence found, revisions moved

ASSUME RetentionAssumption ==
    /\ First \in Runs
    /\ Implementation \subseteq Runs
    /\ Scopes \subseteq Runs \cup {"task"}
    /\ None \notin Runs \cup Cleanups \cup Deletions
    /\ Cleanups \cap Deletions = {}
    /\ MaxChanges \in Nat

VARIABLES
    run,         \* state of each run; a row exists for running and ended ones
    container,   \* state of its container
    tree,        \* runs whose worktree and branch exist
    workspace,   \* state of its workspace row
    dir,         \* runs whose directory (session file, artifacts) exists
    native,      \* the run whose directory holds the session's current file
    deleted,     \* the session's deleted_at is set
    hold,        \* active retention holds
    unresolved,  \* what is unresolved about a run, see Evidence
    integrated,  \* the task's current revision is integrated or published
    cleanup,     \* resource_cleanup_operations
    deletion,    \* session_deletion_receipts
    manifest,    \* the manifest file of each receipt: the runs it lists
    handler,
    changes

files == <<tree, dir, manifest>>
receipts == <<cleanup, deletion>>
world == <<run, container, native, hold, unresolved, integrated, changes>>
vars == <<world, files, workspace, deleted, receipts, handler>>

Idle == [pc |-> "idle", key |-> None, todo |-> {}, at |-> None,
         clean |-> TRUE, eligible |-> {}, held |-> {}]

\* A recovery candidate that is pending, or an execution that is paused or
\* uncertain or has a side effect that is not completed.
Evidence == {"candidate", "execution"}

NoOperation == [state |-> "none", selected |-> {}]

NoReceipt == [state |-> "none", declared |-> {}, recorded |-> FALSE]

\* The first run has ended and the task's revision is integrated.
Init ==
    /\ run = [r \in Runs |-> IF r = First THEN "ended" ELSE "none"]
    /\ container = [r \in Runs |-> IF r = First THEN "stopped" ELSE "absent"]
    /\ tree = {First}
    /\ workspace = [r \in Runs |-> IF r = First THEN "active" ELSE "none"]
    /\ dir = {First}
    /\ native = First
    /\ deleted = FALSE
    /\ hold = {}
    /\ unresolved = {}
    /\ integrated = TRUE
    /\ cleanup = [k \in Cleanups |-> NoOperation]
    /\ deletion = [d \in Deletions |-> NoReceipt]
    /\ manifest = [d \in Deletions |-> {}]
    /\ handler = [h \in Handlers |-> Idle]
    /\ changes = 0

-----------------------------------------------------------------------------
(* The rest of the system.                                                 *)

\* A run resumes the session: directory, copy of the session's file,
\* worktree and container come first, the run row last.
StartRun(r) ==
    /\ run[r] = "none" /\ \A q \in Runs : run[q] \notin {"starting", "running"}
    /\ native \in dir
    /\ run' = [run EXCEPT ![r] = "starting"]
    /\ dir' = dir \cup {r}
    /\ tree' = tree \cup {r}
    /\ workspace' = [workspace EXCEPT ![r] = "active"]
    /\ container' = [container EXCEPT ![r] = "running"]
    /\ UNCHANGED <<native, hold, unresolved, integrated, changes, manifest, deleted,
                   receipts, handler>>

RunBegins(r) ==
    /\ run[r] = "starting"
    /\ run' = [run EXCEPT ![r] = "running"]
    /\ native' = r
    /\ UNCHANGED <<container, hold, unresolved, integrated, changes, files, workspace,
                   deleted, receipts, handler>>

\* The undo path removes the container; were docker to fail, no row would name
\* it, and nothing below would look at it.
StartFails(r) ==
    /\ run[r] = "starting"
    /\ run' = [run EXCEPT ![r] = "failed"]
    /\ container' = [container EXCEPT ![r] = "absent"]
    /\ UNCHANGED <<native, hold, unresolved, integrated, changes, files, workspace,
                   deleted, receipts, handler>>

\* Its execution may have been paused, or need reconciliation.
RunEnds(r) ==
    /\ run[r] = "running"
    /\ run' = [run EXCEPT ![r] = "ended"]
    /\ container' = [container EXCEPT ![r] = "absent"]
    /\ unresolved' \in {unresolved, unresolved \cup {<<"execution", r>>}}
    /\ UNCHANGED <<native, hold, integrated, changes, files, workspace,
                   deleted, receipts, handler>>

Changes == changes < MaxChanges /\ changes' = changes + 1

\* A checkpoint of a settled execution is found.
EvidenceArrivesLate(r) ==
    /\ run[r] = "ended" /\ r \in tree
    /\ unresolved' = unresolved \cup {<<"candidate", r>>}
    /\ Changes
    /\ UNCHANGED <<run, container, native, hold, integrated, files, workspace,
                   deleted, receipts, handler>>

\* The owner decides on the candidate, or resumes or cancels the execution.
EvidenceIsResolved(r) ==
    /\ \E kind \in Evidence :
          /\ <<kind, r>> \in unresolved
          /\ unresolved' = unresolved \ {<<kind, r>>}
    /\ UNCHANGED <<run, container, native, hold, integrated, changes, files, workspace,
                   deleted, receipts, handler>>

\* The task's revision is integrated, or becomes a new one that is not.
RevisionChanges ==
    /\ integrated' = ~integrated
    /\ Changes
    /\ UNCHANGED <<run, container, native, hold, unresolved, files, workspace,
                   deleted, receipts, handler>>

CreateHold(s) ==
    /\ s \notin hold
    /\ hold' = hold \cup {s}
    /\ Changes
    /\ UNCHANGED <<run, container, native, unresolved, integrated, files,
                   workspace, deleted, receipts, handler>>

ReleaseHold(s) ==
    /\ s \in hold
    /\ hold' = hold \ {s}
    /\ UNCHANGED <<run, container, native, unresolved, integrated, changes, files,
                   workspace, deleted, receipts, handler>>

-----------------------------------------------------------------------------
(* Eligibility.                                                            *)

\* Runs with a row; a start that failed before has none and is listed nowhere.
Listed == {r \in Runs : run[r] \in {"running", "ended"}}

Held == {r \in Runs : hold \cap {"task", r} # {}}

\* resourceCleanupProjection: what the store knows of no reason to keep.
Projected ==
    {r \in Listed \ Held :
        /\ \A kind \in Evidence : <<kind, r>> \notin unresolved
        /\ workspace[r] = "active"
        /\ run[r] = "ended"
        /\ r \in Implementation => integrated}

\* Of these, the runs whose container is inspected and does not run; an
\* inspection that fails makes its run ineligible.
Inspections(S) == SUBSET {r \in S : container[r] # "running"}

\* sessionDeletionProjection, which asks for neither executions nor effects.
SessionEligible ==
    /\ ~deleted
    /\ \A r \in Listed : run[r] = "ended"
    /\ Listed \cap Held = {}
    /\ \A r \in Listed : <<"candidate", r>> \notin unresolved
    /\ Listed \cap Implementation # {} => integrated

-----------------------------------------------------------------------------
(* Steps of a request.                                                     *)

At(h, pc) == handler[h].pc = pc

Leaves(h) == handler' = [handler EXCEPT ![h] = Idle]

\* The database refuses a write: the request ends with an error.
Refused(h) ==
    /\ Leaves(h)
    /\ UNCHANGED <<world, files, workspace, deleted, receipts>>

\* One resource is done with: the request goes on with the others.
Done(h, r, ok, pc) ==
    handler' = [handler EXCEPT ![h].pc = pc, ![h].at = None,
                               ![h].todo = @ \ {r}, ![h].clean = @ /\ ok,
                               ![h].eligible = @ \ {r}, ![h].held = @ \ {r}]

-----------------------------------------------------------------------------
(* Cleanup.                                                                *)

\* mutant: a repetition trusts the selection of the first request.
RepetitionTrusted(h, k) ==
    /\ At(h, "idle") /\ cleanup[k].state # "complete"
    /\ LET S == IF cleanup[k].state = "none" THEN Projected ELSE cleanup[k].selected
       IN handler' = [handler EXCEPT ![h] =
             [Idle EXCEPT !.pc = IF cleanup[k].state = "none" THEN "selecting" ELSE "repeating",
                          !.key = k, !.todo = S, !.eligible = S, !.held = Held \cap S]]
    /\ UNCHANGED <<world, files, workspace, deleted, receipts>>

\* executeTaskCleanup reads an earlier receipt and the projection.  A first
\* request may select what is eligible; a repetition has its selection from
\* the receipt, and looks anew at what is eligible.
CleanupRequest(h, k) ==
    /\ At(h, "idle") /\ cleanup[k].state # "complete"
    /\ LET S == IF cleanup[k].state = "none" THEN Projected ELSE cleanup[k].selected
       IN handler' = [handler EXCEPT ![h] =
             [Idle EXCEPT !.pc = IF cleanup[k].state = "none" THEN "selecting" ELSE "repeating",
                          !.key = k, !.todo = S, !.eligible = S \cap Projected,
                          !.held = Held \cap S]]
    /\ UNCHANGED <<world, files, workspace, deleted, receipts>>

\* The preview is not the one the owner saw, or another request has written
\* another selection under this key meanwhile.
CleanupRefused(h) ==
    /\ handler[h].pc \in {"selecting", "repeating"}
    /\ Refused(h)

\* docker has answered.  The operation is written, unless it is there with the
\* same selection; nothing is left to do when it was completed meanwhile.
BeginResourceCleanup(h) ==
    LET k == handler[h].key IN
    /\ handler[h].pc \in {"selecting", "repeating"}
    /\ \E eligible \in Inspections(handler[h].eligible) :
          LET selected == IF At(h, "selecting") THEN eligible ELSE handler[h].todo IN
          /\ \/ /\ cleanup[k].state = "none"
                /\ cleanup' = [cleanup EXCEPT ![k] = [state |-> "prepared", selected |-> selected]]
             \/ /\ cleanup[k].state # "none" /\ cleanup[k].selected = selected
                /\ UNCHANGED cleanup
          /\ IF cleanup[k].state = "complete" THEN Leaves(h)
             ELSE handler' = [handler EXCEPT ![h].pc = "cleaning", ![h].todo = selected,
                                             ![h].eligible = eligible]
    /\ UNCHANGED <<world, files, workspace, deleted, deletion>>

\* A cleanup takes the resources in the order their workspaces were created.
Comes(h, r) ==
    /\ r \in handler[h].todo
    /\ First \in handler[h].todo => r = First

\* Retired before, or not eligible any more.
CleanupSkips(h, r) ==
    /\ At(h, "cleaning") /\ Comes(h, r)
    /\ workspace[r] = "retired" \/ r \notin handler[h].eligible
    /\ Done(h, r, workspace[r] = "retired", "cleaning")
    /\ UNCHANGED <<world, files, workspace, deleted, receipts>>

RemoveContainer(h, r) ==
    /\ At(h, "cleaning") /\ Comes(h, r)
    /\ workspace[r] # "retired" /\ r \in handler[h].eligible
    /\ container' = [container EXCEPT ![r] = "absent"]
    /\ handler' = [handler EXCEPT ![h].pc = "retiring", ![h].at = r]
    /\ UNCHANGED <<run, native, hold, unresolved, integrated, changes, files,
                   workspace, deleted, receipts>>

RetireWorkspace(h) ==
    /\ At(h, "retiring")
    /\ tree' = tree \ {handler[h].at}
    /\ handler' = [handler EXCEPT ![h].pc = "marking"]
    /\ UNCHANGED <<world, dir, manifest, workspace, deleted, receipts>>

MarkWorkspaceRetired(h) ==
    /\ At(h, "marking")
    /\ workspace' = [workspace EXCEPT ![handler[h].at] = "retired"]
    /\ Done(h, handler[h].at, TRUE, "cleaning")
    /\ UNCHANGED <<world, files, deleted, receipts>>

\* docker, git or the store fails; the error becomes the resource's result.
ResourceFails(h) ==
    /\ \/ /\ At(h, "cleaning")
          /\ \E r \in handler[h].eligible :
                /\ Comes(h, r) /\ workspace[r] # "retired"
                /\ Done(h, r, FALSE, "cleaning")
       \/ /\ handler[h].pc \in {"retiring", "marking"}
          /\ Done(h, handler[h].at, FALSE, "cleaning")
    /\ UNCHANGED <<world, files, workspace, deleted, receipts>>

\* mutant: failures of single resources are not looked at.
OutcomeOfLoop(h) == "complete"

\* mutant: a state the table does not know.
OutcomeCounted(h) == IF handler[h].clean THEN "complete" ELSE "partial"

Outcome(h) == IF handler[h].clean THEN "complete" ELSE "cleanup_pending"

CompleteResourceCleanup(h) ==
    /\ At(h, "cleaning") /\ handler[h].todo = {}
    /\ \/ /\ cleanup' = [cleanup EXCEPT ![handler[h].key].state = Outcome(h)]
          /\ Leaves(h)
          /\ UNCHANGED <<world, files, workspace, deleted, deletion>>
       \/ Refused(h)

-----------------------------------------------------------------------------
(* Deletion of a session's files.                                          *)

\* mutant: a receipt is taken as proof that its manifest was written.
ManifestAssumed(h, d) ==
    /\ At(h, "idle") /\ deletion[d].state # "complete"
    /\ \/ /\ deletion[d].state = "none" /\ SessionEligible
          /\ deletion' = [deletion EXCEPT ![d] =
                [state |-> "prepared", declared |-> Listed, recorded |-> FALSE]]
       \/ deletion[d].state # "none" /\ UNCHANGED deletion
    /\ handler' = [handler EXCEPT ![h] =
          [Idle EXCEPT !.pc = IF deletion[d].state # "none" THEN "deleting" ELSE "manifest",
                       !.key = d, !.todo = deletion'[d].declared]]
    /\ UNCHANGED <<world, files, workspace, deleted, cleanup>>

\* The first request checks eligibility and declares the directories of the
\* session's runs; a repetition goes by the receipt alone.
DeletionRequest(h, d) ==
    /\ At(h, "idle") /\ deletion[d].state # "complete"
    /\ \/ /\ deletion[d].state = "none" /\ SessionEligible
          /\ deletion' = [deletion EXCEPT ![d] =
                [state |-> "prepared", declared |-> Listed, recorded |-> FALSE]]
       \/ deletion[d].state # "none" /\ UNCHANGED deletion
    /\ handler' = [handler EXCEPT ![h] =
          [Idle EXCEPT !.pc = IF deletion'[d].recorded THEN "deleting" ELSE "manifest",
                       !.key = d, !.todo = deletion'[d].declared]]
    /\ UNCHANGED <<world, files, workspace, deleted, cleanup>>

\* The manifest lists the files that are there now, in place of an earlier one.
WriteSessionDeletionManifest(h) ==
    /\ At(h, "manifest")
    /\ manifest' = [manifest EXCEPT ![handler[h].key] =
                       deletion[handler[h].key].declared \cap dir]
    /\ handler' = [handler EXCEPT ![h].pc = "deleting"]
    /\ UNCHANGED <<world, tree, dir, workspace, deleted, receipts>>

ManifestFails(h) == At(h, "manifest") /\ Refused(h)

DeleteDeclaredPath(h, r) ==
    /\ At(h, "deleting") /\ r \in handler[h].todo
    /\ \/ dir' = dir \ {r} /\ Done(h, r, TRUE, "deleting")
       \/ r \in dir /\ UNCHANGED dir /\ Done(h, r, FALSE, "deleting")
    /\ UNCHANGED <<world, tree, manifest, workspace, deleted, receipts>>

SettleSessionDeletion(h) ==
    /\ At(h, "deleting") /\ handler[h].todo = {}
    /\ \/ /\ deletion' = [deletion EXCEPT ![handler[h].key].state = Outcome(h),
                                          ![handler[h].key].recorded = TRUE]
          /\ deleted' = (deleted \/ Outcome(h) = "complete")
          /\ Leaves(h)
          /\ UNCHANGED <<world, files, workspace, cleanup>>
       \/ Refused(h)

-----------------------------------------------------------------------------

\* The control plane dies and recovers: requests are gone, and a run has ended
\* with a paused or uncertain execution.  Its container is removed when docker
\* proves its identity; a start in progress leaves what it had made.
CrashAndRestart ==
    /\ handler' = [h \in Handlers |-> Idle]
    /\ run' = [r \in Runs |-> CASE run[r] = "starting" -> "failed"
                                [] run[r] = "running" -> "ended"
                                [] OTHER -> run[r]]
    /\ \E state \in {"absent", "running"} :
          container' = [r \in Runs |->
                           IF run[r] = "running" THEN state ELSE container[r]]
    /\ unresolved' = unresolved \cup ({"execution"} \X {r \in Runs : run[r] = "running"})
    /\ UNCHANGED <<native, hold, integrated, changes, files, workspace, deleted,
                   receipts>>

Next ==
    \/ \E r \in Runs :
          \/ StartRun(r) \/ RunBegins(r) \/ StartFails(r) \/ RunEnds(r)
          \/ EvidenceArrivesLate(r) \/ EvidenceIsResolved(r)
    \/ RevisionChanges
    \/ \E s \in Scopes : CreateHold(s) \/ ReleaseHold(s)
    \/ \E h \in Handlers :
          \/ \E k \in Cleanups : CleanupRequest(h, k)
          \/ CleanupRefused(h) \/ BeginResourceCleanup(h)
          \/ \E r \in Runs : CleanupSkips(h, r) \/ RemoveContainer(h, r)
          \/ RetireWorkspace(h) \/ MarkWorkspaceRetired(h)
          \/ ResourceFails(h) \/ CompleteResourceCleanup(h)
          \/ \E d \in Deletions : DeletionRequest(h, d)
          \/ WriteSessionDeletionManifest(h) \/ ManifestFails(h)
          \/ \E r \in Runs : DeleteDeclaredPath(h, r)
          \/ SettleSessionDeletion(h)
    \/ CrashAndRestart

Spec == Init /\ [][Next]_vars

-----------------------------------------------------------------------------
(* Properties.                                                             *)

\* Every variable holds a value of its kind.
TypeOK ==
    /\ run \in [Runs -> {"none", "starting", "running", "ended", "failed"}]
    /\ container \in [Runs -> {"absent", "running", "stopped"}]
    /\ workspace \in [Runs -> {"none", "active", "retired"}]
    /\ tree \subseteq Runs /\ dir \subseteq Runs /\ native \in Runs
    /\ deleted \in BOOLEAN /\ integrated \in BOOLEAN
    /\ hold \subseteq Scopes /\ unresolved \subseteq Evidence \X Runs
    /\ cleanup \in [Cleanups ->
          [state : {"none", "prepared", "cleanup_pending", "complete"},
           selected : SUBSET Runs]]
    /\ deletion \in [Deletions ->
          [state : {"none", "prepared", "cleanup_pending", "complete"},
           declared : SUBSET Runs, recorded : BOOLEAN]]
    /\ manifest \in [Deletions -> SUBSET Runs]
    /\ handler \in [Handlers ->
          [pc : {"idle", "selecting", "repeating", "cleaning", "retiring", "marking", "manifest",
                "deleting"},
           key : Cleanups \cup Deletions \cup {None}, at : Runs \cup {None},
           todo : SUBSET Runs, clean : BOOLEAN,
           eligible : SUBSET Runs, held : SUBSET Runs]]
    /\ changes \in 0..MaxChanges

\* A receipt is never better than the disk: what a complete receipt lists is
\* gone, a retired workspace has neither worktree nor container, whatever
\* failed, crashed or ran twice on the way; and a run at work keeps its
\* worktree and its container.
ReceiptsAreTrue ==
    /\ \A r \in Runs : workspace[r] = "retired" => r \notin tree /\ container[r] = "absent"
    /\ \A k \in Cleanups : cleanup[k].state = "complete" =>
          \A r \in cleanup[k].selected : workspace[r] = "retired"
    /\ \A d \in Deletions : deletion[d].state = "complete" =>
          deleted /\ deletion[d].declared \cap dir = {}
    /\ \A r \in Runs : run[r] = "running" =>
          r \in tree /\ container[r] = "running" /\ r \in dir

\* A hold stops every cleanup that is requested after it was placed, also the
\* repetition of one that had selected the workspace before; only a request
\* that was already at work may still finish.
HoldsAreHonoured ==
    \A h \in Handlers : handler[h].at # None => handler[h].at \notin handler[h].held

\* Files of a session go only after a manifest on disk lists them.
DeletedAfterListed ==
    [][\A r \in dir \ dir' : \E d \in Deletions : r \in manifest[d]]_vars

=============================================================================
