--------------------------- MODULE Retention_proofs ---------------------------
(***************************************************************************)
(* Proofs about Retention for every set of runs, holds, idempotency keys   *)
(* and requests in progress, and any number of crashes.                    *)
(*                                                                         *)
(* What a request has selected or declared only ever concerns runs that    *)
(* have ended, and of an ended run the files, the container and the        *)
(* workspace only ever go (Monotone).  So what a request knew when it was  *)
(* interrupted between two steps is still true at the next one, whoever    *)
(* acted in between, and a step is proved by looking at its own request.   *)
(***************************************************************************)
EXTENDS Retention, TLAPS

Ended == {r \in Runs : run[r] = "ended"}
Retired == {r \in Runs : workspace[r] = "retired"}

Coherent(r) ==
    /\ run[r] \in {"starting", "running"} =>
          r \in tree /\ r \in dir /\ container[r] = "running"
    /\ workspace[r] = "retired" =>
          run[r] = "ended" /\ r \notin tree /\ container[r] = "absent"

Selection(k) ==
    /\ cleanup[k].selected \subseteq Ended
    /\ cleanup[k].state = "complete" => cleanup[k].selected \subseteq Retired

\* The files of a receipt that are still there.
Left(d) == deletion[d].declared \cap dir

Declaration(d) ==
    /\ deletion[d].declared \subseteq Ended
    /\ deletion[d].state = "complete" => deleted /\ Left(d) = {}
    /\ deletion[d].recorded => Left(d) \subseteq manifest[d]

CleanupAt(h) ==
    LET k == handler[h].key
        r == handler[h].at
        asked == handler[h].pc \in {"selecting", "repeating"}
        atWork == handler[h].pc \in {"retiring", "marking"}
        begun == atWork \/ handler[h].pc = "cleaning"
    IN  /\ asked \/ begun =>
              /\ k \in Cleanups
              /\ handler[h].eligible \subseteq Ended
              /\ handler[h].eligible \cap handler[h].held = {}
        /\ asked => handler[h].todo \subseteq Ended
        /\ begun =>
              /\ cleanup[k].state # "none"
              /\ handler[h].clean => cleanup[k].selected \ handler[h].todo \subseteq Retired
        /\ atWork => r \in handler[h].eligible /\ container[r] = "absent"
        /\ handler[h].pc = "marking" => r \notin tree
        /\ ~atWork => r = None

DeletionAt(h) ==
    LET d == handler[h].key
    IN  /\ handler[h].pc \in {"manifest", "deleting"} =>
              /\ d \in Deletions /\ deletion[d].state # "none"
              /\ handler[h].todo \subseteq deletion[d].declared
              /\ handler[h].clean => Left(d) \subseteq handler[h].todo
        /\ handler[h].pc = "deleting" => Left(d) \subseteq manifest[d]

Inv ==
    /\ TypeOK
    /\ \A r \in Runs : Coherent(r)
    /\ \A k \in Cleanups : Selection(k)
    /\ \A d \in Deletions : Declaration(d)
    /\ \A h \in Handlers : CleanupAt(h) /\ DeletionAt(h)

\* What no step does: revive an ended run or what it had, or change what a
\* request was written down to do.
Monotone ==
    /\ Ended \subseteq Ended' /\ Retired \subseteq Retired'
    /\ \A r \in Ended : container[r] = "absent" => container'[r] = "absent"
    /\ tree' \cap Ended \subseteq tree
    /\ dir' \cap Ended \subseteq dir
    /\ \A k \in Cleanups : cleanup[k].state # "none" =>
          cleanup'[k].state # "none" /\ cleanup'[k].selected = cleanup[k].selected
    /\ \A d \in Deletions :
          /\ deletion[d].state # "none" =>
                deletion'[d].state # "none" /\ deletion'[d].declared = deletion[d].declared
          /\ manifest'[d] = manifest[d] \/ Left(d) \subseteq manifest'[d]

-----------------------------------------------------------------------------
(* What a step leaves alone.                                               *)

LEMMA RequestWaits ==
    ASSUME Inv, NEW h \in Handlers, Monotone, handler'[h] = handler[h]
    PROVE  CleanupAt(h)' /\ DeletionAt(h)'
<1>1. CleanupAt(h)'
  BY DEF Inv, CleanupAt, Monotone, Selection
<1>2. DeletionAt(h)'
  <2>1. ASSUME handler[h].pc \in {"manifest", "deleting"}
        PROVE  /\ handler[h].key \in Deletions
               /\ Left(handler[h].key)' \subseteq Left(handler[h].key)
    BY <2>1 DEF Inv, DeletionAt, Declaration, Left, Monotone
  <2>2. QED  BY <2>1 DEF Inv, DeletionAt, Monotone
<1>3. QED  BY <1>1, <1>2

LEMMA ReceiptsStay ==
    ASSUME Inv, Monotone, UNCHANGED receipts, deleted => deleted'
    PROVE  /\ \A k \in Cleanups : Selection(k)'
           /\ \A d \in Deletions : Declaration(d)'
<1>1. \A k \in Cleanups : Selection(k)'
  BY DEF Inv, Selection, Monotone, receipts
<1>2. ASSUME NEW d \in Deletions
      PROVE  Declaration(d)'
  <2>1. Left(d)' \subseteq Left(d)
    BY DEF Inv, Declaration, Left, Monotone, receipts
  <2>2. QED  BY <2>1 DEF Inv, Declaration, Monotone, receipts
<1>3. QED  BY <1>1, <1>2

LEMMA RequestsGone ==
    ASSUME NEW h \in Handlers, handler'[h] = Idle
    PROVE  CleanupAt(h)' /\ DeletionAt(h)'
BY DEF Idle, CleanupAt, DeletionAt


-----------------------------------------------------------------------------
(* Types.                                                                  *)

SessionType ==
    /\ run \in [Runs -> {"none", "starting", "running", "ended", "failed"}]
    /\ container \in [Runs -> {"absent", "running", "stopped"}]
    /\ workspace \in [Runs -> {"none", "active", "retired"}]
    /\ tree \subseteq Runs /\ dir \subseteq Runs /\ native \in Runs
    /\ deleted \in BOOLEAN

OwnerType ==
    /\ integrated \in BOOLEAN /\ changes \in 0..MaxChanges
    /\ hold \subseteq Scopes /\ unresolved \subseteq Evidence \X Runs

ReceiptType ==
    /\ cleanup \in [Cleanups ->
          [state : {"none", "prepared", "cleanup_pending", "complete"},
           selected : SUBSET Runs]]
    /\ deletion \in [Deletions ->
          [state : {"none", "prepared", "cleanup_pending", "complete"},
           declared : SUBSET Runs, recorded : BOOLEAN]]
    /\ manifest \in [Deletions -> SUBSET Runs]

Requests ==
    [pc : {"idle", "selecting", "repeating", "cleaning", "retiring", "marking", "manifest",
           "deleting"},
     key : Cleanups \cup Deletions \cup {None}, at : Runs \cup {None},
     todo : SUBSET Runs, clean : BOOLEAN,
     eligible : SUBSET Runs, held : SUBSET Runs]

LEMMA TypeParts ==
    TypeOK <=> /\ SessionType /\ OwnerType /\ ReceiptType
               /\ handler \in [Handlers -> Requests]
BY DEF TypeOK, SessionType, OwnerType, ReceiptType, Requests

LEMMA IdleType == Idle \in Requests
BY DEF Idle, Requests

LEMMA LeavesType ==
    ASSUME handler \in [Handlers -> Requests], NEW h \in Handlers, Leaves(h)
    PROVE  handler' \in [Handlers -> Requests]
BY IdleType DEF Leaves

LEMMA DoneType ==
    ASSUME handler \in [Handlers -> Requests], NEW h \in Handlers, NEW r,
           NEW ok \in BOOLEAN, Done(h, r, ok, "cleaning") \/ Done(h, r, ok, "deleting")
    PROVE  handler' \in [Handlers -> Requests]
<1>1. handler[h] \in Requests
  OBVIOUS
<1>2. ASSUME NEW pc \in {"cleaning", "deleting"}
      PROVE  [handler[h] EXCEPT !.pc = pc, !.at = None, !.todo = @ \ {r}, !.clean = @ /\ ok,
                                !.eligible = @ \ {r}, !.held = @ \ {r}] \in Requests
  BY <1>1 DEF Requests
<1>3. \E pc \in {"cleaning", "deleting"} :
        handler' = [handler EXCEPT ![h] =
          [handler[h] EXCEPT !.pc = pc, !.at = None, !.todo = @ \ {r}, !.clean = @ /\ ok,
                             !.eligible = @ \ {r}, !.held = @ \ {r}]]
  BY DEF Done
<1>4. QED  BY <1>2, <1>3

LEMMA MovesType ==
    ASSUME handler \in [Handlers -> Requests], NEW h \in Handlers, NEW r \in Runs,
           NEW pc \in {"retiring", "marking", "deleting"},
           handler' = [handler EXCEPT ![h].pc = pc]
             \/ handler' = [handler EXCEPT ![h].pc = pc, ![h].at = r]
    PROVE  handler' \in [Handlers -> Requests]
BY DEF Requests

LEMMA OutcomeType ==
    ASSUME NEW h \in Handlers
    PROVE  Outcome(h) \in {"complete", "cleanup_pending"}
BY DEF Outcome

LEMMA CleanupSettles ==
    ASSUME ReceiptType, NEW k, NEW state \in {"complete", "cleanup_pending"}
    PROVE  [cleanup EXCEPT ![k].state = state] \in
             [Cleanups -> [state : {"none", "prepared", "cleanup_pending", "complete"},
                           selected : SUBSET Runs]]
BY DEF ReceiptType

LEMMA DeletionSettles ==
    ASSUME ReceiptType, NEW d, NEW state \in {"complete", "cleanup_pending"}
    PROVE  [deletion EXCEPT ![d].state = state, ![d].recorded = TRUE] \in
             [Deletions -> [state : {"none", "prepared", "cleanup_pending", "complete"},
                            declared : SUBSET Runs, recorded : BOOLEAN]]
BY DEF ReceiptType

LEMMA RunTypeStep ==
    ASSUME TypeOK, NEW r \in Runs,
           \/ StartRun(r) \/ RunBegins(r) \/ StartFails(r) \/ RunEnds(r)
           \/ EvidenceArrivesLate(r) \/ EvidenceIsResolved(r)
    PROVE  TypeOK'
<1> USE RetentionAssumption DEF TypeOK, files, receipts
<1>1. CASE StartRun(r)
  BY <1>1 DEF StartRun
<1>2. CASE RunBegins(r)
  BY <1>2 DEF RunBegins
<1>3. CASE StartFails(r)
  BY <1>3 DEF StartFails
<1>4. CASE RunEnds(r)
  BY <1>4 DEF RunEnds, Evidence
<1>5. CASE EvidenceArrivesLate(r)
  BY <1>5 DEF EvidenceArrivesLate, Changes, Evidence
<1>6. CASE EvidenceIsResolved(r)
  BY <1>6 DEF EvidenceIsResolved
<1>7. QED  BY <1>1, <1>2, <1>3, <1>4, <1>5, <1>6

LEMMA OwnerTypeStep ==
    ASSUME TypeOK, RevisionChanges \/ \E s \in Scopes : CreateHold(s) \/ ReleaseHold(s)
    PROVE  TypeOK'
<1> USE RetentionAssumption DEF TypeOK, files, receipts
<1>1. CASE RevisionChanges
  BY <1>1 DEF RevisionChanges, Changes
<1>2. ASSUME NEW s \in Scopes, CreateHold(s)  PROVE TypeOK'
  BY <1>2 DEF CreateHold, Changes
<1>3. ASSUME NEW s \in Scopes, ReleaseHold(s)  PROVE TypeOK'
  BY <1>3 DEF ReleaseHold
<1>4. QED  BY <1>1, <1>2, <1>3

LEMMA CleanupTypeStep ==
    ASSUME TypeOK, NEW h \in Handlers,
           \/ \E k \in Cleanups : CleanupRequest(h, k)
           \/ CleanupRefused(h) \/ BeginResourceCleanup(h)
           \/ \E r \in Runs : CleanupSkips(h, r) \/ RemoveContainer(h, r)
           \/ RetireWorkspace(h) \/ MarkWorkspaceRetired(h)
           \/ ResourceFails(h) \/ CompleteResourceCleanup(h)
    PROVE  TypeOK'
<1> USE DEF world, files, receipts
<1>0. handler[h] \in Requests
  BY TypeParts
<1>1. ASSUME NEW k \in Cleanups, CleanupRequest(h, k)  PROVE TypeOK'
  <2>. DEFINE S == IF cleanup[k].state = "none" THEN Projected ELSE cleanup[k].selected
              pc == IF cleanup[k].state = "none" THEN "selecting" ELSE "repeating"
  <2>1. S \subseteq Runs /\ S \cap Projected \subseteq Runs /\ Held \cap S \subseteq Runs
    BY DEF Projected, Held, Listed, TypeOK
  <2>2. [Idle EXCEPT !.pc = pc, !.key = k, !.todo = S, !.eligible = S \cap Projected,
                     !.held = Held \cap S] \in Requests
    <3>. HIDE DEF S
    <3>. QED  BY <2>1 DEF Idle, Requests
  <2>3. handler' = [handler EXCEPT ![h] =
           [Idle EXCEPT !.pc = pc, !.key = k, !.todo = S, !.eligible = S \cap Projected,
                        !.held = Held \cap S]]
    BY <1>1 DEF CleanupRequest
  <2>4. handler' \in [Handlers -> Requests]
    <3>. HIDE DEF S, pc
    <3>. QED  BY <2>2, <2>3, TypeParts
  <2>5. QED  BY <1>1, <2>4 DEF CleanupRequest, TypeOK, Requests
<1>8. CASE CleanupRefused(h)
  <2>1. handler' \in [Handlers -> Requests]
    BY <1>8, TypeParts, LeavesType DEF CleanupRefused, Refused
  <2>2. QED  BY <1>8, <2>1 DEF CleanupRefused, Refused, TypeOK, Requests
<1>9. CASE BeginResourceCleanup(h)
  <2>1. PICK eligible, selected :
          /\ eligible \subseteq handler[h].eligible
          /\ selected \in {eligible, handler[h].todo}
          /\ \/ cleanup' = cleanup
             \/ cleanup' = [cleanup EXCEPT ![handler[h].key] =
                               [state |-> "prepared", selected |-> selected]]
          /\ \/ Leaves(h)
             \/ handler' = [handler EXCEPT ![h].pc = "cleaning", ![h].todo = selected,
                                           ![h].eligible = eligible]
    BY <1>9 DEF BeginResourceCleanup, Inspections
  <2>2. eligible \subseteq Runs /\ selected \subseteq Runs
    BY <1>0, <2>1 DEF Requests
  <2>3. handler' \in [Handlers -> Requests]
    <3>1. CASE Leaves(h)
      BY <3>1, TypeParts, LeavesType
    <3>2. CASE handler' = [handler EXCEPT ![h].pc = "cleaning", ![h].todo = selected,
                                          ![h].eligible = eligible]
      <4>1. [handler[h] EXCEPT !.pc = "cleaning", !.todo = selected, !.eligible = eligible]
              \in Requests
        BY <1>0, <2>2 DEF Requests
      <4>2. handler' = [handler EXCEPT ![h] =
               [handler[h] EXCEPT !.pc = "cleaning", !.todo = selected, !.eligible = eligible]]
        BY <3>2
      <4>3. QED  BY <4>1, <4>2, TypeParts
    <3>3. QED  BY <2>1, <3>1, <3>2
  <2>4. cleanup' \in [Cleanups ->
              [state : {"none", "prepared", "cleanup_pending", "complete"},
               selected : SUBSET Runs]]
    <3>1. [state |-> "prepared", selected |-> selected]
            \in [state : {"none", "prepared", "cleanup_pending", "complete"},
                 selected : SUBSET Runs]
      BY <2>2
    <3>2. QED  BY <2>1, <3>1 DEF TypeOK
  <2>5. QED  BY <1>9, <2>3, <2>4 DEF BeginResourceCleanup, TypeOK, Requests
<1>2. ASSUME NEW r \in Runs, CleanupSkips(h, r)  PROVE TypeOK'
  <2>1. (workspace[r] = "retired") \in BOOLEAN
    OBVIOUS
  <2>2. handler' \in [Handlers -> Requests]
    BY <1>2, <2>1, TypeParts, DoneType DEF CleanupSkips
  <2>3. QED  BY <1>2, <2>2 DEF CleanupSkips, TypeOK, Requests
<1>3. ASSUME NEW r \in Runs, RemoveContainer(h, r)  PROVE TypeOK'
  <2>1. handler' \in [Handlers -> Requests]
    BY <1>3, TypeParts, MovesType DEF RemoveContainer
  <2>2. QED  BY <1>3, <2>1 DEF RemoveContainer, TypeOK, Requests
<1>4. CASE RetireWorkspace(h)
  <2>1. handler' \in [Handlers -> Requests]
    BY <1>4, TypeParts, MovesType, RetentionAssumption DEF RetireWorkspace
  <2>2. QED  BY <1>4, <2>1 DEF RetireWorkspace, TypeOK, Requests
<1>5. CASE MarkWorkspaceRetired(h)
  <2>1. handler' \in [Handlers -> Requests]
    BY <1>5, TypeParts, DoneType DEF MarkWorkspaceRetired
  <2>2. QED  BY <1>5, <2>1 DEF MarkWorkspaceRetired, TypeOK, Requests
<1>6. CASE ResourceFails(h)
  <2>1. \E r : Done(h, r, FALSE, "cleaning")
    BY <1>6 DEF ResourceFails
  <2>2. handler' \in [Handlers -> Requests]
    BY <2>1, TypeParts, DoneType
  <2>3. QED  BY <1>6, <2>2 DEF ResourceFails, TypeOK, Requests
<1>7. CASE CompleteResourceCleanup(h)
  <2>1. Leaves(h)
    BY <1>7 DEF CompleteResourceCleanup, Refused
  <2>2. handler' \in [Handlers -> Requests]
    BY <2>1, TypeParts, LeavesType
  <2>3. cleanup' \in [Cleanups ->
              [state : {"none", "prepared", "cleanup_pending", "complete"},
               selected : SUBSET Runs]]
    <3>1. CASE cleanup' = [cleanup EXCEPT ![handler[h].key].state = Outcome(h)]
      BY <3>1, OutcomeType, TypeParts, CleanupSettles
    <3>2. CASE UNCHANGED cleanup
      BY <3>2 DEF TypeOK
    <3>3. QED  BY <1>7, <3>1, <3>2 DEF CompleteResourceCleanup, Refused
  <2>4. QED
    BY <1>7, <2>2, <2>3 DEF CompleteResourceCleanup, Refused, TypeOK, Requests
<1>10. QED  BY <1>1, <1>2, <1>3, <1>4, <1>5, <1>6, <1>7, <1>8, <1>9

LEMMA DeletionTypeStep ==
    ASSUME TypeOK, NEW h \in Handlers,
           \/ \E d \in Deletions : DeletionRequest(h, d)
           \/ WriteSessionDeletionManifest(h) \/ ManifestFails(h)
           \/ \E r \in Runs : DeleteDeclaredPath(h, r)
           \/ SettleSessionDeletion(h)
    PROVE  TypeOK'
<1> USE DEF world, files, receipts
<1>0. handler[h] \in Requests
  BY TypeParts
<1>1. ASSUME NEW d \in Deletions, DeletionRequest(h, d)  PROVE TypeOK'
  <2>1. Listed \subseteq Runs
    BY DEF Listed
  <2>2. /\ deletion' \in [Deletions ->
              [state : {"none", "prepared", "cleanup_pending", "complete"},
               declared : SUBSET Runs, recorded : BOOLEAN]]
        /\ deletion'[d].declared \subseteq Runs
    <3>1. [state |-> "prepared", declared |-> Listed, recorded |-> FALSE]
            \in [state : {"none", "prepared", "cleanup_pending", "complete"},
                 declared : SUBSET Runs, recorded : BOOLEAN]
      BY <2>1
    <3>2. deletion \in [Deletions ->
              [state : {"none", "prepared", "cleanup_pending", "complete"},
               declared : SUBSET Runs, recorded : BOOLEAN]]
      BY DEF TypeOK
    <3>3. QED  BY <1>1, <3>1, <3>2 DEF DeletionRequest
  <2>3. handler' \in [Handlers -> Requests]
    BY <1>1, <2>1, <2>2, TypeParts DEF DeletionRequest, Idle, Requests
  <2>4. QED  BY <1>1, <2>2, <2>3 DEF DeletionRequest, TypeOK, Requests
<1>2. CASE WriteSessionDeletionManifest(h)
  <2>1. handler' \in [Handlers -> Requests]
    BY <1>2, TypeParts, MovesType, RetentionAssumption DEF WriteSessionDeletionManifest
  <2>2. manifest' \in [Deletions -> SUBSET Runs]
    BY <1>2 DEF WriteSessionDeletionManifest, TypeOK
  <2>3. QED  BY <1>2, <2>1, <2>2 DEF WriteSessionDeletionManifest, TypeOK, Requests
<1>3. CASE ManifestFails(h)
  <2>1. handler' \in [Handlers -> Requests]
    BY <1>3, TypeParts, LeavesType DEF ManifestFails, Refused
  <2>2. QED  BY <1>3, <2>1 DEF ManifestFails, Refused, TypeOK, Requests
<1>4. ASSUME NEW r \in Runs, DeleteDeclaredPath(h, r)  PROVE TypeOK'
  <2>1. handler' \in [Handlers -> Requests]
    BY <1>4, TypeParts, DoneType DEF DeleteDeclaredPath
  <2>2. QED  BY <1>4, <2>1 DEF DeleteDeclaredPath, TypeOK, Requests
<1>5. CASE SettleSessionDeletion(h)
  <2>1. handler' \in [Handlers -> Requests]
    BY <1>5, TypeParts, LeavesType DEF SettleSessionDeletion, Refused
  <2>2. /\ deletion' \in [Deletions ->
              [state : {"none", "prepared", "cleanup_pending", "complete"},
               declared : SUBSET Runs, recorded : BOOLEAN]]
        /\ deleted' \in BOOLEAN
    <3>1. CASE SettleSessionDeletion(h) /\ UNCHANGED <<deletion, deleted>>
      BY <3>1 DEF TypeOK
    <3>2. CASE /\ deletion' = [deletion EXCEPT ![handler[h].key].state = Outcome(h),
                                              ![handler[h].key].recorded = TRUE]
               /\ deleted' = (deleted \/ Outcome(h) = "complete")
      <4>1. (deleted \/ Outcome(h) = "complete") \in BOOLEAN
        OBVIOUS
      <4>2. QED  BY <3>2, <4>1, OutcomeType, TypeParts, DeletionSettles
    <3>3. QED  BY <1>5, <3>1, <3>2 DEF SettleSessionDeletion, Refused
  <2>3. QED
    BY <1>5, <2>1, <2>2 DEF SettleSessionDeletion, Refused, TypeOK, Requests
<1>6. QED  BY <1>1, <1>2, <1>3, <1>4, <1>5

LEMMA CrashTypeStep ==
    ASSUME TypeOK, CrashAndRestart
    PROVE  TypeOK'
<1>1. handler' \in [Handlers -> Requests]
  BY IdleType DEF CrashAndRestart
<1>2. run' \in [Runs -> {"none", "starting", "running", "ended", "failed"}]
  BY DEF CrashAndRestart, TypeOK
<1>3. container' \in [Runs -> {"absent", "running", "stopped"}]
  BY DEF CrashAndRestart, TypeOK
<1>4. QED
  BY <1>1, <1>2, <1>3 DEF CrashAndRestart, TypeOK, Requests, Evidence, files, receipts

-----------------------------------------------------------------------------
(* The rest of the system.                                                 *)

\* Runs of the session, evidence, revisions and holds disturb no request: what
\* they touch belongs to runs that have not ended, or is not part of Inv.
LEMMA WorldStep ==
    ASSUME Inv, TypeOK', UNCHANGED <<receipts, manifest, deleted, handler>>,
           \A r \in Runs :
             /\ Coherent(r)'
             /\ run[r] = "ended" => run'[r] = "ended"
             /\ workspace[r] = "retired" => workspace'[r] = "retired"
             /\ run[r] = "ended" => /\ container'[r] = container[r]
                                    /\ r \in tree' => r \in tree
                                    /\ r \in dir' => r \in dir
    PROVE  Inv' /\ Monotone
<1>1. Monotone
  BY DEF Monotone, Ended, Retired, receipts
<1>2. /\ \A k \in Cleanups : Selection(k)'
      /\ \A d \in Deletions : Declaration(d)'
  BY <1>1, ReceiptsStay
<1>3. \A h \in Handlers : CleanupAt(h)' /\ DeletionAt(h)'
  BY <1>1, RequestWaits
<1>4. QED  BY <1>1, <1>2, <1>3 DEF Inv

LEMMA RunStep ==
    ASSUME Inv, NEW r \in Runs,
           \/ StartRun(r) \/ RunBegins(r) \/ StartFails(r) \/ RunEnds(r)
           \/ EvidenceArrivesLate(r) \/ EvidenceIsResolved(r)
    PROVE  Inv' /\ Monotone
<1> USE DEF Inv, TypeOK, Coherent, files, receipts
<1>0. TypeOK'
  BY RunTypeStep
<1>1. CASE StartRun(r)
  BY <1>0, <1>1, WorldStep DEF StartRun
<1>2. CASE RunBegins(r)
  BY <1>0, <1>2, WorldStep DEF RunBegins
<1>3. CASE StartFails(r)
  BY <1>0, <1>3, WorldStep DEF StartFails
<1>4. CASE RunEnds(r)
  BY <1>0, <1>4, WorldStep DEF RunEnds
<1>5. CASE EvidenceArrivesLate(r)
  BY <1>0, <1>5, WorldStep DEF EvidenceArrivesLate
<1>6. CASE EvidenceIsResolved(r)
  BY <1>0, <1>6, WorldStep DEF EvidenceIsResolved
<1>7. QED  BY <1>1, <1>2, <1>3, <1>4, <1>5, <1>6

LEMMA OwnerStep ==
    ASSUME Inv, RevisionChanges \/ \E s \in Scopes : CreateHold(s) \/ ReleaseHold(s)
    PROVE  Inv' /\ Monotone
<1> USE DEF Inv, Coherent, files, receipts
<1>0. TypeOK'
  BY OwnerTypeStep
<1>1. CASE RevisionChanges
  BY <1>0, <1>1, WorldStep DEF RevisionChanges
<1>2. ASSUME NEW s \in Scopes, CreateHold(s) \/ ReleaseHold(s)  PROVE Inv' /\ Monotone
  BY <1>0, <1>2, WorldStep DEF CreateHold, ReleaseHold
<1>3. QED  BY <1>1, <1>2

\* A restart ends the runs at work and forgets every request.
LEMMA CrashStep ==
    ASSUME Inv, CrashAndRestart
    PROVE  Inv' /\ Monotone
<1>1. TypeOK'
  BY CrashTypeStep DEF Inv
<1>2. \A r \in Runs : Coherent(r)'
  BY DEF CrashAndRestart, Inv, TypeOK, Coherent, files
<1>3. Monotone
  BY DEF CrashAndRestart, Monotone, Inv, TypeOK, Ended, Retired, files, receipts
<1>4. /\ \A k \in Cleanups : Selection(k)'
      /\ \A d \in Deletions : Declaration(d)'
  BY <1>3, ReceiptsStay DEF CrashAndRestart
<1>5. \A h \in Handlers : CleanupAt(h)' /\ DeletionAt(h)'
  BY RequestsGone DEF CrashAndRestart
<1>6. QED  BY <1>1, <1>2, <1>3, <1>4, <1>5 DEF Inv

-----------------------------------------------------------------------------
(* Cleanup.                                                                *)

\* A step of one request: the others wait.
LEMMA RequestStep ==
    ASSUME Inv, TypeOK', Monotone, NEW h \in Handlers,
           \A g \in Handlers \ {h} : handler'[g] = handler[g],
           \A r \in Runs : Coherent(r)',
           \A k \in Cleanups : Selection(k)',
           \A d \in Deletions : Declaration(d)',
           CleanupAt(h)', DeletionAt(h)'
    PROVE  Inv' /\ Monotone
<1>1. \A g \in Handlers : CleanupAt(g)' /\ DeletionAt(g)'
  BY RequestWaits
<1>2. QED  BY <1>1 DEF Inv

\* What a request finds eligible has ended and is not held.
LEMMA ProjectedEnded ==
    Projected \subseteq Ended /\ Projected \cap Held = {}
BY DEF Projected, Ended, Listed

\* What is left of a request when it is done with one resource, and at its end.
LEMMA DoneRow ==
    ASSUME TypeOK, NEW h \in Handlers, NEW r \in Runs, NEW ok \in BOOLEAN,
           NEW pc, Done(h, r, ok, pc)
    PROVE  /\ handler'[h].pc = pc /\ handler'[h].key = handler[h].key
           /\ handler'[h].at = None /\ handler'[h].todo = handler[h].todo \ {r}
           /\ handler'[h].clean => handler[h].clean /\ ok
           /\ handler'[h].eligible = handler[h].eligible \ {r}
           /\ handler'[h].held = handler[h].held \ {r}
           /\ \A g \in Handlers \ {h} : handler'[g] = handler[g]
BY DEF Done, TypeOK

LEMMA LeavesRow ==
    ASSUME TypeOK, NEW h \in Handlers, Leaves(h)
    PROVE  /\ CleanupAt(h)' /\ DeletionAt(h)'
           /\ \A g \in Handlers \ {h} : handler'[g] = handler[g]
<1>1. handler'[h] = Idle /\ \A g \in Handlers \ {h} : handler'[g] = handler[g]
  BY DEF Leaves, TypeOK
<1>2. QED  BY <1>1, RequestsGone

LEMMA RefusedStep ==
    ASSUME Inv, TypeOK', NEW h \in Handlers, Refused(h)
    PROVE  Inv' /\ Monotone
<1>1. Monotone
  BY DEF Refused, Monotone, Ended, Retired, world, files, receipts
<1>2. \A r \in Runs : Coherent(r)'
  BY DEF Inv, Refused, Coherent, world, files
<1>3. /\ \A k \in Cleanups : Selection(k)'
      /\ \A d \in Deletions : Declaration(d)'
  BY <1>1, ReceiptsStay DEF Refused
<1>4. QED  BY <1>1, <1>2, <1>3, LeavesRow, RequestStep DEF Refused, Inv

LEMMA CleanupRequestStep ==
    ASSUME Inv, NEW h \in Handlers, NEW k \in Cleanups, CleanupRequest(h, k)
    PROVE  Inv' /\ Monotone
<1> USE DEF world, files, receipts
<1> DEFINE S == IF cleanup[k].state = "none" THEN Projected ELSE cleanup[k].selected
<1>0. TypeOK' /\ TypeOK
  BY CleanupTypeStep DEF Inv
<1>1. S \subseteq Ended
  BY ProjectedEnded DEF Inv, Selection
<1>2. Monotone
  BY DEF CleanupRequest, Monotone, Ended, Retired
<1>3. \A r \in Runs : Coherent(r)'
  BY DEF CleanupRequest, Inv, Coherent
<1>4. /\ \A j \in Cleanups : Selection(j)'
      /\ \A d \in Deletions : Declaration(d)'
  BY <1>2, ReceiptsStay DEF CleanupRequest
<1>5. /\ handler'[h].pc \in {"selecting", "repeating"}
      /\ handler'[h].key = k /\ handler'[h].at = None
      /\ handler'[h].todo = S /\ handler'[h].eligible = S \cap Projected
      /\ handler'[h].held = Held \cap S
      /\ \A g \in Handlers \ {h} : handler'[g] = handler[g]
  BY <1>0 DEF CleanupRequest, TypeOK, Idle
<1>6. Ended' = Ended
  BY DEF CleanupRequest, Ended
<1>7. CleanupAt(h)'
  <2>. HIDE DEF S
  <2>. QED  BY <1>1, <1>5, <1>6, ProjectedEnded DEF CleanupAt
<1>8. DeletionAt(h)'
  BY <1>5 DEF DeletionAt
<1>9. QED
  BY <1>0, <1>2, <1>3, <1>4, <1>5, <1>7, <1>8, RequestStep

\* Whatever docker answered, the operation written is about runs that ended
\* and that no hold was on, for what it knew had ended stays ended.
LEMMA BeginResourceCleanupStep ==
    ASSUME Inv, NEW h \in Handlers, BeginResourceCleanup(h)
    PROVE  Inv' /\ Monotone
<1> USE DEF world, files, receipts
<1> DEFINE k == handler[h].key
<1>0. TypeOK' /\ TypeOK
  BY CleanupTypeStep DEF Inv
<1>1. /\ k \in Cleanups /\ handler[h].todo \subseteq Ended
      /\ handler[h].eligible \subseteq Ended
      /\ handler[h].eligible \cap handler[h].held = {}
      /\ handler[h].at = None
  BY DEF BeginResourceCleanup, Inv, CleanupAt
<1>2. PICK eligible, selected :
        /\ eligible \subseteq handler[h].eligible
        /\ selected \in {eligible, handler[h].todo}
        /\ \/ /\ cleanup[k].state = "none"
              /\ cleanup' = [cleanup EXCEPT ![k] = [state |-> "prepared", selected |-> selected]]
           \/ /\ cleanup[k].state # "none" /\ cleanup[k].selected = selected
              /\ UNCHANGED cleanup
        /\ \/ Leaves(h)
           \/ handler' = [handler EXCEPT ![h].pc = "cleaning", ![h].todo = selected,
                                         ![h].eligible = eligible]
  BY DEF BeginResourceCleanup, Inspections
<1>3. selected \subseteq Ended
  BY <1>1, <1>2
<1>4. /\ cleanup'[k].state # "none" /\ cleanup'[k].selected = selected
      /\ cleanup[k].state # "none" => cleanup'[k] = cleanup[k]
      /\ cleanup[k].state = "none" => cleanup'[k].state # "complete"
      /\ \A j \in Cleanups \ {k} : cleanup'[j] = cleanup[j]
  BY <1>0, <1>1, <1>2 DEF TypeOK
<1>5. Ended' = Ended /\ Retired' = Retired
  BY DEF BeginResourceCleanup, Ended, Retired
<1>6. Monotone
  BY <1>4, <1>5 DEF BeginResourceCleanup, Monotone
<1>7. \A r \in Runs : Coherent(r)'
  BY DEF BeginResourceCleanup, Inv, Coherent
<1>8. \A j \in Cleanups : Selection(j)'
  BY <1>3, <1>4, <1>5 DEF Inv, Selection
<1>9. \A d \in Deletions : Declaration(d)'
  BY DEF BeginResourceCleanup, Inv, Declaration, Left, Ended
<1>10. CASE Leaves(h)
  BY <1>0, <1>6, <1>7, <1>8, <1>9, <1>10, LeavesRow, RequestStep
<1>11. CASE handler' = [handler EXCEPT ![h].pc = "cleaning", ![h].todo = selected,
                                       ![h].eligible = eligible]
  <2>1. /\ handler'[h].pc = "cleaning" /\ handler'[h].key = k /\ handler'[h].at = None
        /\ handler'[h].todo = selected /\ handler'[h].eligible = eligible
        /\ handler'[h].held = handler[h].held
        /\ \A g \in Handlers \ {h} : handler'[g] = handler[g]
    BY <1>0, <1>1, <1>11 DEF TypeOK
  <2>2. CleanupAt(h)'
    <3>. HIDE DEF k
    <3>. QED  BY <1>1, <1>2, <1>4, <1>5, <2>1 DEF CleanupAt
  <2>3. DeletionAt(h)'
    BY <2>1 DEF DeletionAt
  <2>4. QED  BY <1>0, <1>6, <1>7, <1>8, <1>9, <2>1, <2>2, <2>3, RequestStep
<1>12. QED  BY <1>2, <1>10, <1>11

\* A resource is skipped or failed: the rest of the request goes on.
LEMMA GivesUpStep ==
    ASSUME Inv, TypeOK', NEW h \in Handlers, NEW r \in Runs, NEW ok \in BOOLEAN,
           handler[h].pc \in {"cleaning", "retiring", "marking"},
           ok => workspace[r] = "retired",
           Done(h, r, ok, "cleaning"),
           UNCHANGED <<world, files, workspace, deleted, receipts>>
    PROVE  Inv' /\ Monotone
<1>0. TypeOK
  BY DEF Inv
<1>1. Monotone
  BY DEF Monotone, Ended, Retired, world, files, receipts
<1>2. \A q \in Runs : Coherent(q)'
  BY DEF Inv, Coherent, world, files
<1>3. /\ \A k \in Cleanups : Selection(k)'
      /\ \A d \in Deletions : Declaration(d)'
  BY <1>1, ReceiptsStay
<1>4. CleanupAt(h)'
  BY <1>0, DoneRow DEF Inv, CleanupAt, Ended, Retired, world, files, receipts
<1>5. DeletionAt(h)'
  BY <1>0, DoneRow DEF DeletionAt
<1>6. QED  BY <1>0, <1>1, <1>2, <1>3, <1>4, <1>5, DoneRow, RequestStep

LEMMA CleanupSkipsStep ==
    ASSUME Inv, NEW h \in Handlers, NEW r \in Runs, CleanupSkips(h, r)
    PROVE  Inv' /\ Monotone
<1>1. TypeOK'
  BY CleanupTypeStep DEF Inv
<1>2. (workspace[r] = "retired") \in BOOLEAN
  OBVIOUS
<1>3. QED  BY <1>1, <1>2, GivesUpStep DEF CleanupSkips, At

LEMMA RemoveContainerStep ==
    ASSUME Inv, NEW h \in Handlers, NEW r \in Runs, RemoveContainer(h, r)
    PROVE  Inv' /\ Monotone
<1> USE DEF files, receipts
<1>0. TypeOK' /\ TypeOK
  BY CleanupTypeStep DEF Inv
<1>1. r \in Ended /\ CleanupAt(h) /\ DeletionAt(h)
  BY DEF RemoveContainer, At, Inv, CleanupAt
<1>2. /\ container'[r] = "absent"
      /\ \A q \in Runs \ {r} : container'[q] = container[q]
  BY <1>0 DEF RemoveContainer, TypeOK
<1>3. Monotone
  BY <1>2 DEF RemoveContainer, Monotone, Ended, Retired
<1>4. \A q \in Runs : Coherent(q)'
  BY <1>1, <1>2 DEF RemoveContainer, Inv, Coherent, Ended
<1>5. /\ \A k \in Cleanups : Selection(k)'
      /\ \A d \in Deletions : Declaration(d)'
  BY <1>3, ReceiptsStay DEF RemoveContainer
<1>6. /\ handler'[h] = [handler[h] EXCEPT !.pc = "retiring", !.at = r]
      /\ \A g \in Handlers \ {h} : handler'[g] = handler[g]
  BY <1>0 DEF RemoveContainer, TypeOK
<1>7. /\ handler'[h].pc = "retiring" /\ handler'[h].at = r
      /\ handler'[h].key = handler[h].key /\ handler'[h].todo = handler[h].todo
      /\ handler'[h].clean = handler[h].clean /\ handler'[h].held = handler[h].held
      /\ handler'[h].eligible = handler[h].eligible
  BY <1>0, <1>6 DEF TypeOK
<1>8. CleanupAt(h)'
  BY <1>1, <1>2, <1>7 DEF RemoveContainer, At, CleanupAt, Ended, Retired
<1>9. DeletionAt(h)'
  BY <1>7 DEF DeletionAt
<1>10. QED  BY <1>0, <1>3, <1>4, <1>5, <1>6, <1>8, <1>9, RequestStep

LEMMA RetireWorkspaceStep ==
    ASSUME Inv, NEW h \in Handlers, RetireWorkspace(h)
    PROVE  Inv' /\ Monotone
<1> USE DEF world, files, receipts
<1>0. TypeOK' /\ TypeOK
  BY CleanupTypeStep DEF Inv
<1>1. handler[h].at \in Ended /\ CleanupAt(h)
  BY DEF RetireWorkspace, At, Inv, CleanupAt
<1>2. Monotone
  BY DEF RetireWorkspace, Monotone, Ended, Retired
<1>3. \A q \in Runs : Coherent(q)'
  BY <1>1 DEF RetireWorkspace, Inv, Coherent, Ended
<1>4. /\ \A k \in Cleanups : Selection(k)'
      /\ \A d \in Deletions : Declaration(d)'
  BY <1>2, ReceiptsStay DEF RetireWorkspace
<1>5. /\ handler'[h] = [handler[h] EXCEPT !.pc = "marking"]
      /\ \A g \in Handlers \ {h} : handler'[g] = handler[g]
  BY <1>0 DEF RetireWorkspace, TypeOK
<1>6. /\ handler'[h].pc = "marking" /\ handler'[h].at = handler[h].at
      /\ handler'[h].key = handler[h].key /\ handler'[h].todo = handler[h].todo
      /\ handler'[h].clean = handler[h].clean /\ handler'[h].held = handler[h].held
      /\ handler'[h].eligible = handler[h].eligible
  BY <1>0, <1>5 DEF TypeOK
<1>7. CleanupAt(h)'
  BY <1>1, <1>6 DEF RetireWorkspace, At, CleanupAt, Ended, Retired
<1>8. DeletionAt(h)'
  BY <1>6 DEF DeletionAt
<1>9. QED  BY <1>0, <1>2, <1>3, <1>4, <1>5, <1>7, <1>8, RequestStep

LEMMA MarkWorkspaceRetiredStep ==
    ASSUME Inv, NEW h \in Handlers, MarkWorkspaceRetired(h)
    PROVE  Inv' /\ Monotone
<1> DEFINE r == handler[h].at
<1> USE DEF world, files, receipts
<1>0. TypeOK' /\ TypeOK
  BY CleanupTypeStep DEF Inv
<1>1. /\ r \in Ended /\ r \in Runs /\ r \notin tree /\ container[r] = "absent"
      /\ CleanupAt(h)
  BY DEF MarkWorkspaceRetired, At, Inv, CleanupAt, Ended
<1>2. Retired' = Retired \cup {r}
  BY <1>0, <1>1 DEF MarkWorkspaceRetired, TypeOK, Retired
<1>3. Monotone
  BY <1>2 DEF MarkWorkspaceRetired, Monotone, Ended
<1>4. \A q \in Runs : Coherent(q)'
  BY <1>0, <1>1 DEF MarkWorkspaceRetired, Inv, TypeOK, Coherent, Ended
<1>5. /\ \A k \in Cleanups : Selection(k)'
      /\ \A d \in Deletions : Declaration(d)'
  BY <1>3, ReceiptsStay DEF MarkWorkspaceRetired
<1>6. /\ handler'[h].pc = "cleaning" /\ handler'[h].key = handler[h].key
      /\ handler'[h].at = None /\ handler'[h].todo = handler[h].todo \ {r}
      /\ handler'[h].clean => handler[h].clean
      /\ handler'[h].eligible = handler[h].eligible \ {r}
      /\ handler'[h].held = handler[h].held \ {r}
      /\ \A g \in Handlers \ {h} : handler'[g] = handler[g]
  <2>1. PICK ok \in BOOLEAN : Done(h, r, ok, "cleaning")
    BY DEF MarkWorkspaceRetired
  <2>2. QED  BY <1>0, <1>1, <2>1, DoneRow
<1>7. CleanupAt(h)'
  BY <1>1, <1>2, <1>6 DEF MarkWorkspaceRetired, At, CleanupAt, Ended
<1>8. DeletionAt(h)'
  BY <1>6 DEF DeletionAt
<1>9. QED  BY <1>0, <1>3, <1>4, <1>5, <1>6, <1>7, <1>8, RequestStep

LEMMA ResourceFailsStep ==
    ASSUME Inv, NEW h \in Handlers, ResourceFails(h)
    PROVE  Inv' /\ Monotone
<1>1. TypeOK'
  BY CleanupTypeStep DEF Inv
<1>2. PICK r \in Runs : Done(h, r, FALSE, "cleaning")
  <2>1. CASE handler[h].pc \in {"retiring", "marking"}
    <3>1. handler[h].at \in Runs
      BY <2>1 DEF Inv, CleanupAt, Ended
    <3>2. QED  BY <2>1, <3>1 DEF ResourceFails, At
  <2>2. CASE At(h, "cleaning")
    <3>1. handler[h].todo \subseteq Runs
      BY DEF Inv, TypeOK
    <3>2. QED  BY <2>2, <3>1 DEF ResourceFails, Comes, At
  <2>3. QED  BY <2>1, <2>2 DEF ResourceFails
<1>3. QED  BY <1>1, <1>2, GivesUpStep DEF ResourceFails, At

\* Every selected resource was looked at; when none failed, all are retired.
LEMMA CompleteResourceCleanupStep ==
    ASSUME Inv, NEW h \in Handlers, CompleteResourceCleanup(h)
    PROVE  Inv' /\ Monotone
<1> DEFINE k == handler[h].key
<1> USE DEF world, files, receipts
<1>0. TypeOK' /\ TypeOK
  BY CleanupTypeStep DEF Inv
<1>1. CASE Refused(h)
  BY <1>0, <1>1, RefusedStep
<1>2. CASE /\ cleanup' = [cleanup EXCEPT ![k].state = Outcome(h)]
           /\ Leaves(h)
           /\ UNCHANGED <<world, files, workspace, deleted, deletion>>
  <2>1. /\ k \in Cleanups /\ cleanup[k].state # "none"
        /\ handler[h].clean => cleanup[k].selected \subseteq Retired
    BY DEF CompleteResourceCleanup, At, Inv, CleanupAt
  <2>2. /\ cleanup'[k].state = Outcome(h) /\ cleanup'[k].selected = cleanup[k].selected
        /\ \A j \in Cleanups \ {k} : cleanup'[j] = cleanup[j]
    BY <1>0, <1>2, <2>1 DEF TypeOK
  <2>3. Outcome(h) # "none" /\ (Outcome(h) = "complete" => handler[h].clean)
    BY DEF Outcome
  <2>4. Monotone
    BY <1>2, <2>2, <2>3 DEF Monotone, Ended, Retired
  <2>5. \A q \in Runs : Coherent(q)'
    BY <1>2 DEF Inv, Coherent
  <2>6. \A j \in Cleanups : Selection(j)'
    BY <1>2, <2>1, <2>2, <2>3 DEF Inv, Selection, Ended, Retired
  <2>7. \A d \in Deletions : Declaration(d)'
    BY <1>2 DEF Inv, Declaration, Left, Ended
  <2>8. QED  BY <1>0, <1>2, <2>4, <2>5, <2>6, <2>7, LeavesRow, RequestStep
<1>3. QED  BY <1>1, <1>2 DEF CompleteResourceCleanup

-----------------------------------------------------------------------------
(* Deletion of a session's files.                                          *)

\* A session is deleted when all its runs have ended, and only these runs'
\* directories are declared.
LEMMA ListedEnded ==
    SessionEligible => Listed = Ended
BY DEF SessionEligible, Listed, Ended

LEMMA DeletionRequestStep ==
    ASSUME Inv, NEW h \in Handlers, NEW d \in Deletions, DeletionRequest(h, d)
    PROVE  Inv' /\ Monotone
<1> USE DEF world, files, receipts
<1>0. TypeOK' /\ TypeOK
  BY DeletionTypeStep DEF Inv
<1>1. /\ deletion'[d].state # "none" /\ deletion'[d].state # "complete"
      /\ deletion'[d].declared \subseteq Ended
      /\ deletion'[d].recorded => deletion'[d] = deletion[d]
      /\ deletion[d].state # "none" => deletion'[d] = deletion[d]
      /\ \A e \in Deletions \ {d} : deletion'[e] = deletion[e]
  BY <1>0, ListedEnded DEF DeletionRequest, TypeOK, Inv, Declaration
<1>2. Monotone
  BY <1>1 DEF DeletionRequest, Monotone, Ended, Retired
<1>3. \A q \in Runs : Coherent(q)'
  BY DEF DeletionRequest, Inv, Coherent
<1>4. \A k \in Cleanups : Selection(k)'
  BY DEF DeletionRequest, Inv, Selection, Ended, Retired
<1>5. \A e \in Deletions : Declaration(e)'
  BY <1>1 DEF DeletionRequest, Inv, Declaration, Left, Ended
<1>6. /\ handler'[h] = [Idle EXCEPT
            !.pc = IF deletion'[d].recorded THEN "deleting" ELSE "manifest",
            !.key = d, !.todo = deletion'[d].declared]
      /\ \A g \in Handlers \ {h} : handler'[g] = handler[g]
  BY <1>0 DEF DeletionRequest, TypeOK
<1>7. /\ handler'[h].pc = IF deletion'[d].recorded THEN "deleting" ELSE "manifest"
      /\ handler'[h].key = d /\ handler'[h].todo = deletion'[d].declared
      /\ handler'[h].at = None
  BY <1>6 DEF Idle
<1>8. CleanupAt(h)'
  BY <1>7 DEF CleanupAt
<1>9. DeletionAt(h)'
  BY <1>1, <1>5, <1>7 DEF DeletionAt, Declaration, Left
<1>10. QED
  BY <1>0, <1>2, <1>3, <1>4, <1>5, <1>6, <1>8, <1>9, RequestStep

\* The new manifest lists all that is left, for this request and for others
\* that work on the same receipt.
LEMMA WriteSessionDeletionManifestStep ==
    ASSUME Inv, NEW h \in Handlers, WriteSessionDeletionManifest(h)
    PROVE  Inv' /\ Monotone
<1> DEFINE d == handler[h].key
<1> USE DEF world, files, receipts
<1>0. TypeOK' /\ TypeOK
  BY DeletionTypeStep DEF Inv
<1>1. d \in Deletions /\ DeletionAt(h)
  BY DEF WriteSessionDeletionManifest, At, Inv, DeletionAt
<1>2. /\ manifest'[d] = Left(d)
      /\ \A e \in Deletions \ {d} : manifest'[e] = manifest[e]
  BY <1>0, <1>1 DEF WriteSessionDeletionManifest, TypeOK, Left
<1>3. Monotone
  BY <1>2 DEF WriteSessionDeletionManifest, Monotone, Ended, Retired
<1>4. \A q \in Runs : Coherent(q)'
  BY DEF WriteSessionDeletionManifest, Inv, Coherent
<1>5. /\ \A k \in Cleanups : Selection(k)'
      /\ \A e \in Deletions : Declaration(e)'
  BY <1>3, ReceiptsStay DEF WriteSessionDeletionManifest
<1>6. /\ handler'[h] = [handler[h] EXCEPT !.pc = "deleting"]
      /\ \A g \in Handlers \ {h} : handler'[g] = handler[g]
  BY <1>0 DEF WriteSessionDeletionManifest, TypeOK
<1>7. /\ handler'[h].pc = "deleting" /\ handler'[h].at = handler[h].at
      /\ handler'[h].key = d /\ handler'[h].todo = handler[h].todo
      /\ handler'[h].clean = handler[h].clean
  BY <1>0, <1>6 DEF TypeOK
<1>8. CleanupAt(h)'
  BY <1>7 DEF WriteSessionDeletionManifest, At, Inv, CleanupAt
<1>9. DeletionAt(h)'
  BY <1>1, <1>2, <1>7 DEF WriteSessionDeletionManifest, At, DeletionAt, Left
<1>10. QED
  BY <1>0, <1>3, <1>4, <1>5, <1>6, <1>8, <1>9, RequestStep

LEMMA DeleteDeclaredPathStep ==
    ASSUME Inv, NEW h \in Handlers, NEW r \in Runs, DeleteDeclaredPath(h, r)
    PROVE  Inv' /\ Monotone
<1> DEFINE d == handler[h].key
<1> USE DEF world, files, receipts
<1>0. TypeOK' /\ TypeOK
  BY DeletionTypeStep DEF Inv
<1>1. d \in Deletions /\ r \in Ended /\ DeletionAt(h)
  BY DEF DeleteDeclaredPath, At, Inv, DeletionAt, Declaration
<1>2. dir' = dir \ {r} \/ dir' = dir
  BY DEF DeleteDeclaredPath
<1>3. Monotone
  BY <1>2 DEF DeleteDeclaredPath, Monotone, Ended, Retired
<1>4. \A q \in Runs : Coherent(q)'
  BY <1>1, <1>2 DEF DeleteDeclaredPath, Inv, Coherent, Ended
<1>5. /\ \A k \in Cleanups : Selection(k)'
      /\ \A e \in Deletions : Declaration(e)'
  BY <1>3, ReceiptsStay DEF DeleteDeclaredPath
<1>6. PICK ok \in BOOLEAN : Done(h, r, ok, "deleting") /\ (ok => dir' = dir \ {r})
  BY DEF DeleteDeclaredPath
<1>7. /\ handler'[h].pc = "deleting" /\ handler'[h].key = d
      /\ handler'[h].at = None /\ handler'[h].todo = handler[h].todo \ {r}
      /\ handler'[h].clean => handler[h].clean /\ ok
      /\ \A g \in Handlers \ {h} : handler'[g] = handler[g]
  BY <1>0, <1>6, DoneRow
<1>8. CleanupAt(h)'
  BY <1>7 DEF CleanupAt
<1>9. DeletionAt(h)'
  BY <1>1, <1>2, <1>6, <1>7 DEF DeleteDeclaredPath, At, DeletionAt, Left
<1>10. QED
  BY <1>0, <1>3, <1>4, <1>5, <1>7, <1>8, <1>9, RequestStep

\* Nothing is left to do: the manifest is recorded with the outcome.
LEMMA SettleSessionDeletionStep ==
    ASSUME Inv, NEW h \in Handlers, SettleSessionDeletion(h)
    PROVE  Inv' /\ Monotone
<1> DEFINE d == handler[h].key
<1> USE DEF world, files, receipts
<1>0. TypeOK' /\ TypeOK
  BY DeletionTypeStep DEF Inv
<1>1. CASE Refused(h)
  BY <1>0, <1>1, RefusedStep
<1>2. CASE /\ deletion' = [deletion EXCEPT ![d].state = Outcome(h), ![d].recorded = TRUE]
           /\ deleted' = (deleted \/ Outcome(h) = "complete")
           /\ Leaves(h)
           /\ UNCHANGED <<world, files, workspace, cleanup>>
  <2>1. /\ d \in Deletions /\ deletion[d].state # "none"
        /\ handler[h].clean => Left(d) = {}
        /\ Left(d) \subseteq manifest[d]
    BY DEF SettleSessionDeletion, At, Inv, DeletionAt
  <2>2. /\ deletion'[d].state = Outcome(h) /\ deletion'[d].declared = deletion[d].declared
        /\ \A e \in Deletions \ {d} : deletion'[e] = deletion[e]
    BY <1>0, <1>2, <2>1 DEF TypeOK
  <2>3. Outcome(h) # "none" /\ (Outcome(h) = "complete" => handler[h].clean)
    BY DEF Outcome
  <2>4. Monotone
    BY <1>2, <2>2, <2>3 DEF Monotone, Ended, Retired
  <2>5. \A q \in Runs : Coherent(q)'
    BY <1>2 DEF Inv, Coherent
  <2>6. \A k \in Cleanups : Selection(k)'
    BY <1>2 DEF Inv, Selection, Ended, Retired
  <2>7. /\ \A e \in Deletions : Left(e)' = Left(e)
        /\ deleted => deleted'
        /\ Outcome(h) = "complete" => deleted'
    BY <1>2, <2>2 DEF Left
  <2>8. \A e \in Deletions : Declaration(e)'
    BY ZenonT(40), <1>2, <2>1, <2>2, <2>3, <2>7 DEF Inv, Declaration, Ended
  <2>9. QED  BY <1>0, <1>2, <2>4, <2>5, <2>6, <2>8, LeavesRow, RequestStep
<1>3. QED  BY <1>1, <1>2 DEF SettleSessionDeletion

-----------------------------------------------------------------------------
(* Theorems.                                                               *)

LEMMA InitInv == Init => Inv
<1> SUFFICES ASSUME Init PROVE Inv
  OBVIOUS
<1>1. TypeOK
  <2>1. handler \in [Handlers -> Requests]
    BY IdleType DEF Init
  <2>2. ReceiptType
    BY DEF Init, ReceiptType, NoOperation, NoReceipt
  <2>3. SessionType
    BY RetentionAssumption DEF Init, SessionType
  <2>4. OwnerType
    BY RetentionAssumption DEF Init, OwnerType
  <2>5. QED  BY <2>1, <2>2, <2>3, <2>4, TypeParts
<1>2. \A r \in Runs : Coherent(r)
  BY DEF Init, Coherent
<1>3. \A k \in Cleanups : Selection(k)
  BY DEF Init, Selection, NoOperation
<1>4. \A d \in Deletions : Declaration(d)
  BY DEF Init, Declaration, Left, NoReceipt
<1>5. \A h \in Handlers : CleanupAt(h) /\ DeletionAt(h)
  BY DEF Init, Idle, CleanupAt, DeletionAt
<1>6. QED  BY <1>1, <1>2, <1>3, <1>4, <1>5 DEF Inv

LEMMA NextStep ==
    ASSUME Inv, Next
    PROVE  Inv' /\ Monotone
<1>1. ASSUME NEW h \in Handlers, ManifestFails(h)  PROVE Inv' /\ Monotone
  BY <1>1, DeletionTypeStep, RefusedStep DEF ManifestFails, Inv
<1>2. ASSUME NEW h \in Handlers, CleanupRefused(h)  PROVE Inv' /\ Monotone
  BY <1>2, CleanupTypeStep, RefusedStep DEF CleanupRefused, Inv
<1>3. QED
  BY <1>1, <1>2, RunStep, OwnerStep, CrashStep, CleanupRequestStep,
     BeginResourceCleanupStep, CleanupSkipsStep,
     RemoveContainerStep, RetireWorkspaceStep, MarkWorkspaceRetiredStep,
     ResourceFailsStep, CompleteResourceCleanupStep, DeletionRequestStep,
     WriteSessionDeletionManifestStep, DeleteDeclaredPathStep,
     SettleSessionDeletionStep
  DEF Next

LEMMA StutterStep ==
    ASSUME Inv, UNCHANGED vars
    PROVE  Inv' /\ Monotone
<1>1. Monotone
  BY DEF vars, world, files, receipts, Monotone, Ended, Retired
<1>2. TypeOK'
  BY DEF Inv, TypeOK, vars, world, files, receipts
<1>3. \A r \in Runs : Coherent(r)'
  BY DEF Inv, Coherent, vars, world, files
<1>4. /\ \A k \in Cleanups : Selection(k)'
      /\ \A d \in Deletions : Declaration(d)'
  BY <1>1, ReceiptsStay DEF vars
<1>5. \A h \in Handlers : CleanupAt(h)' /\ DeletionAt(h)'
  BY <1>1, RequestWaits DEF vars
<1>6. QED  BY <1>1, <1>2, <1>3, <1>4, <1>5 DEF Inv

\* At every step of every request, what it still has to do, has done and has
\* recorded agrees with the rows and the disk.
THEOREM Invariance == Spec => []Inv
<1>1. Init => Inv
  BY InitInv
<1>2. Inv /\ [Next]_vars => Inv'
  BY NextStep, StutterStep
<1>3. QED  BY <1>1, <1>2, PTL DEF Spec

\* Every variable keeps its type, whatever requests overlap or crash.
THEOREM TypeCorrect == Spec => []TypeOK
<1>1. Inv => TypeOK
  BY DEF Inv
<1>2. QED  BY <1>1, Invariance, PTL

\* A complete receipt of a cleanup or a deletion is true on disk: whatever
\* failed, was repeated, overlapped or crashed, what it lists is gone; and a
\* run at work never loses its worktree, container or directory.
THEOREM ReceiptsHold == Spec => []ReceiptsAreTrue
<1>1. Inv => ReceiptsAreTrue
  BY DEF Inv, ReceiptsAreTrue, Coherent, Selection, Declaration, Left, Retired
<1>2. QED  BY <1>1, Invariance, PTL

\* No request works on a run that was held when the request came, be it the
\* repetition of one that selected the run before the hold.
THEOREM HoldsHold == Spec => []HoldsAreHonoured
<1>1. Inv => HoldsAreHonoured
  BY DEF Inv, HoldsAreHonoured, CleanupAt
<1>2. QED  BY <1>1, Invariance, PTL

LEMMA DirectoriesGo ==
    ASSUME Inv, Next, NEW r \in dir, r \notin dir'
    PROVE  \E d \in Deletions : r \in manifest[d]
<1>1. PICK h \in Handlers : DeleteDeclaredPath(h, r)
  <2>1. \A q \in Runs : /\ StartRun(q) => dir \subseteq dir'
                        /\ RunBegins(q) \/ StartFails(q) \/ RunEnds(q) => dir' = dir
                        /\ EvidenceArrivesLate(q) \/ EvidenceIsResolved(q) => dir' = dir
    BY DEF StartRun, RunBegins, StartFails, RunEnds, EvidenceArrivesLate,
           EvidenceIsResolved, files
  <2>2. /\ RevisionChanges \/ CrashAndRestart => dir' = dir
        /\ \A s \in Scopes : CreateHold(s) \/ ReleaseHold(s) => dir' = dir
    BY DEF RevisionChanges, CrashAndRestart, CreateHold, ReleaseHold, files
  <2>3. \A h \in Handlers :
          /\ \A k \in Cleanups : CleanupRequest(h, k) => dir' = dir
          /\ CleanupRefused(h) \/ BeginResourceCleanup(h) => dir' = dir
          /\ \A q \in Runs : CleanupSkips(h, q) \/ RemoveContainer(h, q) => dir' = dir
          /\ RetireWorkspace(h) \/ MarkWorkspaceRetired(h) => dir' = dir
          /\ ResourceFails(h) \/ CompleteResourceCleanup(h) => dir' = dir
    BY DEF CleanupRequest, CleanupRefused, BeginResourceCleanup, CleanupSkips,
           RemoveContainer, RetireWorkspace,
           MarkWorkspaceRetired, ResourceFails, CompleteResourceCleanup, Refused, files
  <2>4. \A h \in Handlers :
          /\ \A d \in Deletions : DeletionRequest(h, d) => dir' = dir
          /\ WriteSessionDeletionManifest(h) \/ ManifestFails(h) => dir' = dir
          /\ SettleSessionDeletion(h) => dir' = dir
          /\ \A q \in Runs : DeleteDeclaredPath(h, q) => dir \ {q} \subseteq dir'
    BY DEF DeletionRequest, WriteSessionDeletionManifest, ManifestFails,
           SettleSessionDeletion, DeleteDeclaredPath, Refused, files
  <2>5. QED  BY <2>1, <2>2, <2>3, <2>4 DEF Next
<1>2. /\ handler[h].key \in Deletions
      /\ r \in Left(handler[h].key) /\ Left(handler[h].key) \subseteq manifest[handler[h].key]
  BY <1>1 DEF Inv, DeleteDeclaredPath, At, DeletionAt, Left
<1>3. QED  BY <1>2

\* Files of a session go only after a manifest on disk lists them, also when
\* the request is repeated after a crash or two of them work on one receipt.
THEOREM ListedBeforeDeleted == Spec => DeletedAfterListed
<1>1. Inv /\ [Next]_vars =>
        [\A r \in dir \ dir' : \E d \in Deletions : r \in manifest[d]]_vars
  BY DirectoriesGo
<1>2. QED  BY <1>1, Invariance, PTL DEF Spec, DeletedAfterListed

\* No step revives what an ended run had, or rewrites what a request was
\* written down to do: the reason why requests may overlap and be repeated.
THEOREM OnlyGoes == Spec => [][Monotone]_vars
<1>1. Inv /\ [Next]_vars => [Monotone]_vars
  BY NextStep
<1>2. QED  BY <1>1, Invariance, PTL DEF Spec
===============================================================================
