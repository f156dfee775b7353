-------------------------- MODULE GitIntegration_proofs --------------------------
(***************************************************************************)
(* Proofs about GitIntegration for any sets of integrations, of requests   *)
(* and of commits, and for any number of restarts and exports.             *)
(*                                                                         *)
(* A row's version tells its state (VersionsOf) and only grows (Grows), so *)
(* a request that finds the version it saw finds the row it saw            *)
(* (HandlerTrue).  A request that executes an integration is alone with    *)
(* it, and what it has published so far follows from where it is           *)
(* (Progress); a row can therefore be told from its state what became of   *)
(* the integration (RowTrue).                                              *)
(***************************************************************************)
EXTENDS GitIntegration, FiniteSetTheorems, TLAPS

VersionsOf(state) ==
    CASE state = "none" -> {0}
      [] state = "prepared" -> {1}
      [] state = "conflict" -> {1, 3}
      [] state = "integrating" -> {2}
      [] state = "cancelled" -> {2, 4}
      [] OTHER -> {3}

\* What the world can see of integrations.
Published == target \cup remote \cup pushed \cup pullRequests

\* The result is where the policy of the plan wanted it.
Landed(i) ==
    CASE row[i].mode = "local_integrate" -> Carries(target, row[i].source)
      [] row[i].mode = "local_push" -> Carries(remote, row[i].source)
      [] OTHER -> i \in pullRequests

Quiet == {"none", "prepared", "conflict", "failed"}

RowTrue(i) ==
    /\ row[i].version \in VersionsOf(row[i].state)
    /\ row[i].state \in Quiet => i \notin Published
    /\ row[i].state \in {"integrated", "published"} => Landed(i)
    /\ row[i].state = "integrating" => row[i].mode # "prepare_only"

MergeTrue(r) ==
    /\ merge[r] = "integrated" => Carries(target, r)
    /\ merge[r] = "published" => Carries(remote \cup pullRequests, r)

\* What an execution has done when it is about to take a step.
Progress(i, pc) ==
    /\ pc \in {"create", "publish", "pushBranch"} => i \notin Published
    /\ pc = "publish" => row[i].mode \in {"local_integrate", "local_push"}
    /\ pc = "push" => row[i].mode = "local_push" /\ Carries(target, row[i].source)
    /\ pc \in {"pushBranch", "openPullRequest"} => row[i].mode = "pull_request"
    /\ pc \in {"clean", "settle"} => Landed(i)

HandlerTrue(h) ==
    LET i == Of(h)
        pc == handler[h].pc
    IN  pc # "idle" =>
          /\ i \in Integrations
          /\ handler[h].version \in 1..row[i].version
          /\ pc = "begin" /\ handler[h].version = row[i].version =>
                row[i].state = "prepared" /\ row[i].mode # "prepare_only"
          /\ pc \in Cancelling /\ handler[h].version = row[i].version =>
                row[i].state \in Cancellable
          /\ pc \in ExecutionSteps =>
                /\ row[i].state = "integrating"
                /\ handler[h].version = row[i].version
                /\ i \notin orphaned
                /\ Progress(i, pc)

\* An integration in progress has somebody to end it, and one request only.
Attended(i) ==
    row[i].state = "integrating" /\ i \notin orphaned => \E h \in Handlers : Executing(h, i)

Alone(i) == \A g, h \in Handlers : Executing(g, i) /\ Executing(h, i) => g = h

Abandoned(i) == i \in orphaned => row[i].state = "integrating"

Inv ==
    /\ TypeOK
    /\ \A i \in Integrations : RowTrue(i)
    /\ \A r \in Revisions : MergeTrue(r)
    /\ \A h \in Handlers : HandlerTrue(h)
    /\ \A i \in Integrations : Attended(i) /\ Alone(i) /\ Abandoned(i)

\* Git only grows; a row moves on to a higher version; and a plan, once made,
\* keeps the revision, the mode and the target it was made for.
Grows ==
    /\ target \subseteq target' /\ remote \subseteq remote'
    /\ pushed \subseteq pushed' /\ pullRequests \subseteq pullRequests'
    /\ \A i \in Integrations :
          /\ row'[i] = row[i] \/ row'[i].version > row[i].version
          /\ row[i].state # "none" =>
                /\ row'[i].state # "none" /\ row'[i].source = row[i].source
                /\ row'[i].mode = row[i].mode /\ row'[i].base = row[i].base

RowsGrow == [][Grows]_vars

-----------------------------------------------------------------------------
(* Types.                                                                  *)

RowRecord ==
    [state : RowStates, version : 0..4, mode : Modes,
     policyVersion : 0..MaxPolicyVersion, base : SUBSET Commits, source : Revisions]

Pcs == {"idle"} \cup Starting \cup ExecutionSteps \cup Cancelling

HandlerRecord == [pc : Pcs, integration : Integrations \cup {NoIntegration}, version : 0..4]

OwnType ==
    /\ task \in [revision : Revisions, done : BOOLEAN]
    /\ merge \in [Revisions -> {"none", "requested", "integrated", "published"}]
    /\ policy \in [version : 1..MaxPolicyVersion, mode : Modes]

GitType ==
    /\ target \subseteq Commits /\ remote \subseteq Commits
    /\ branches \subseteq Integrations /\ pushed \subseteq Integrations
    /\ pullRequests \subseteq Integrations

ServerType ==
    /\ row \in [Integrations -> RowRecord]
    /\ handler \in [Handlers -> HandlerRecord]
    /\ exporting \in BOOLEAN /\ orphaned \subseteq Integrations

LEMMA TypeParts == TypeOK <=> OwnType /\ GitType /\ ServerType
BY DEF TypeOK, OwnType, GitType, ServerType, RowRecord, HandlerRecord, Pcs

LEMMA TypeNext ==
    ASSUME OwnType', GitType', ServerType'
    PROVE  TypeOK'
BY DEF TypeOK, OwnType, GitType, ServerType, RowRecord, HandlerRecord, Pcs

\* A row as it may be looked at.
LEMMA RowFacts ==
    ASSUME Inv, NEW i \in Integrations
    PROVE  /\ row[i] \in RowRecord /\ row[i].version \in 0..4
           /\ row[i].source \in Revisions /\ row[i].state \in RowStates
           /\ row[i].base \subseteq Commits
           /\ RowTrue(i) /\ Attended(i) /\ Alone(i) /\ Abandoned(i)
           /\ row[i].version \in VersionsOf(row[i].state)
BY TypeParts DEF Inv, ServerType, RowRecord, RowTrue

LEMMA HandlerFacts ==
    ASSUME Inv, NEW h \in Handlers
    PROVE  /\ handler[h] \in HandlerRecord /\ handler[h].version \in 0..4
           /\ HandlerTrue(h)
BY TypeParts DEF Inv, ServerType, HandlerRecord

\* A row that moves.
LEMMA MovedRow ==
    ASSUME Inv, NEW i \in Integrations, NEW state \in RowStates, row[i].version < 4
    PROVE  /\ Moved(i, state) \in [Integrations -> RowRecord]
           /\ Moved(i, state)[i].state = state
           /\ Moved(i, state)[i].version = row[i].version + 1
           /\ Moved(i, state)[i].source = row[i].source
           /\ Moved(i, state)[i].mode = row[i].mode
           /\ Moved(i, state)[i].base = row[i].base
           /\ \A j \in Integrations \ {i} : Moved(i, state)[j] = row[j]
<1> DEFINE x == [row[i] EXCEPT !.state = state, !.version = row[i].version + 1]
<1>1. row \in [Integrations -> RowRecord] /\ row[i] \in RowRecord /\ row[i].version \in 0..4
  BY TypeParts, RowFacts DEF Inv, ServerType
<1>2. /\ x \in RowRecord /\ x.state = state /\ x.version = row[i].version + 1
      /\ x.source = row[i].source /\ x.mode = row[i].mode /\ x.base = row[i].base
  <2>1. row[i].version + 1 \in 0..4
    BY <1>1
  <2>2. PICK r, v, y : r = row[i] /\ v = row[i].version + 1 /\ y = x
    OBVIOUS
  <2>3. y = [r EXCEPT !.state = state, !.version = v]
    BY <2>2
  <2>4. r \in RowRecord /\ v \in 0..4
    BY <1>1, <2>1, <2>2
  <2>5. /\ y \in RowRecord /\ y.state = state /\ y.version = v
        /\ y.source = r.source /\ y.mode = r.mode /\ y.base = r.base
    BY <2>3, <2>4 DEF RowRecord
  <2>6. QED  BY <2>2, <2>5
<1>3. Moved(i, state) = [row EXCEPT ![i] = x]
  <2> DEFINE y == [row[i] EXCEPT !.state = state]
             rows == [row EXCEPT ![i] = y]
  <2>1. y.version = row[i].version /\ x = [y EXCEPT !.version = y.version + 1]
    BY <1>1 DEF RowRecord
  <2>2. Moved(i, state) = [rows EXCEPT ![i].version = rows[i].version + 1]
    BY <1>1 DEF Moved
  <2>3. rows[i] = y /\ [rows EXCEPT ![i] = x] = [row EXCEPT ![i] = x]
    BY <1>1
  <2>4. [rows EXCEPT ![i].version = rows[i].version + 1] =
           [rows EXCEPT ![i] = [rows[i] EXCEPT !.version = rows[i].version + 1]]
    OBVIOUS
  <2>5. QED  BY <2>1, <2>2, <2>3, <2>4
<1> HIDE DEF x
<1>4. QED  BY <1>1, <1>2, <1>3

\* The request takes another step, or leaves.
LEMMA GotoType ==
    ASSUME Inv, NEW h \in Handlers, NEW pc \in Pcs, Goto(h, pc)
    PROVE  /\ handler' \in [Handlers -> HandlerRecord]
           /\ handler'[h].pc = pc /\ handler'[h].integration = Of(h)
           /\ handler'[h].version = handler[h].version
           /\ \A g \in Handlers \ {h} : handler'[g] = handler[g]
<1> DEFINE x == [handler[h] EXCEPT !.pc = pc]
<1>1. handler \in [Handlers -> HandlerRecord] /\ handler[h] \in HandlerRecord
  BY TypeParts, HandlerFacts DEF Inv, ServerType
<1>2. /\ x \in HandlerRecord /\ x.pc = pc /\ x.integration = handler[h].integration
      /\ x.version = handler[h].version
  BY <1>1 DEF HandlerRecord
<1>3. handler' = [handler EXCEPT ![h] = x]
  BY <1>1 DEF Goto
<1> HIDE DEF x
<1>4. handler' \in [Handlers -> HandlerRecord] /\ handler'[h] = x
      /\ \A g \in Handlers \ {h} : handler'[g] = handler[g]
  BY <1>1, <1>2, <1>3
<1>5. QED  BY <1>2, <1>4 DEF Of

LEMMA IdleType == Idle \in HandlerRecord /\ Idle.pc = "idle"
BY DEF Idle, HandlerRecord, Pcs

LEMMA LeavesType ==
    ASSUME Inv, NEW h \in Handlers, Leaves(h)
    PROVE  /\ handler' \in [Handlers -> HandlerRecord] /\ handler'[h].pc = "idle"
           /\ \A g \in Handlers \ {h} : handler'[g] = handler[g]
<1>1. handler \in [Handlers -> HandlerRecord]
  BY TypeParts DEF Inv, ServerType
<1>2. QED  BY <1>1, IdleType DEF Leaves

LEMMA StepsDiffer ==
    /\ ExecutionSteps \subseteq Pcs /\ Cancelling \subseteq Pcs /\ Starting \subseteq Pcs
    /\ {"idle", "begin", "cleanup", "cancel"} \cap ExecutionSteps = {}
    /\ "idle" \notin Cancelling /\ "begin" \notin Cancelling /\ "begin" \in Pcs
    /\ ExecutionSteps \cap Cancelling = {} /\ "idle" \in Pcs
BY DEF Pcs, ExecutionSteps, Cancelling, Starting

-----------------------------------------------------------------------------
(* What a step leaves alone.                                               *)

\* Work a branch carries, it keeps.
LEMMA CarriesStays ==
    ASSUME Inv, Grows, NEW C, NEW D, C \subseteq Published, C \subseteq D, NEW r, Carries(C, r)
    PROVE  \E i \in D \cap Integrations : row'[i].source >= r
<1>1. PICK i \in C \cap Integrations : row[i].source >= r
  BY DEF Carries
<1>2. row[i].state # "none"
  BY <1>1 DEF Inv, RowTrue, Quiet
<1>3. row'[i].source = row[i].source
  BY <1>1, <1>2 DEF Grows
<1>4. QED  BY <1>1, <1>3

LEMMA LandedStays ==
    ASSUME Inv, Grows, NEW i \in Integrations, Landed(i), row[i].state # "none"
    PROVE  Landed(i)'
<1>1. /\ row'[i].mode = row[i].mode /\ row'[i].source = row[i].source
      /\ target \subseteq target' /\ remote \subseteq remote'
      /\ pullRequests \subseteq pullRequests'
  BY DEF Grows
<1>2. target \subseteq Published /\ remote \subseteq Published
  BY DEF Published
<1>3. Carries(target, row[i].source) =>
         \E j \in target' \cap Integrations : row'[j].source >= row[i].source
  BY <1>1, <1>2, CarriesStays
<1>4. Carries(remote, row[i].source) =>
         \E j \in remote' \cap Integrations : row'[j].source >= row[i].source
  BY <1>1, <1>2, CarriesStays
<1>5. Carries(target, row[i].source) => Carries(target, row[i].source)'
  BY <1>1, <1>3 DEF Carries
<1>6. Carries(remote, row[i].source) => Carries(remote, row[i].source)'
  BY <1>1, <1>4 DEF Carries
<1>7. QED  BY <1>1, <1>5, <1>6 DEF Landed

LEMMA RowWaits ==
    ASSUME Inv, Grows, NEW i \in Integrations, row'[i] = row[i],
           row[i].state \in Quiet => i \notin Published'
    PROVE  RowTrue(i)'
<1>1. RowTrue(i)
  BY DEF Inv
<1>2. row[i].state \in {"integrated", "published"} => Landed(i)'
  BY <1>1, LandedStays DEF RowTrue
<1>3. QED  BY <1>1, <1>2 DEF RowTrue

LEMMA MergeWaits ==
    ASSUME Inv, Grows, NEW r \in Revisions, merge'[r] \in {merge[r], "requested"}
    PROVE  MergeTrue(r)'
<1>1. MergeTrue(r)
  BY DEF Inv
<1>2. target \subseteq Published /\ remote \cup pullRequests \subseteq Published
  BY DEF Published
<1>3. target \subseteq target' /\ remote \cup pullRequests \subseteq (remote \cup pullRequests)'
  BY DEF Grows
<1>4. Carries(target, r) => Carries(target, r)'
  BY <1>2, <1>3, CarriesStays DEF Carries
<1>5. Carries(remote \cup pullRequests, r) => Carries(remote \cup pullRequests, r)'
  BY <1>2, <1>3, CarriesStays DEF Carries
<1>6. QED  BY <1>1, <1>4, <1>5 DEF MergeTrue

LEMMA ProgressStays ==
    ASSUME Inv, Grows, NEW i \in Integrations, NEW pc \in ExecutionSteps, Progress(i, pc),
           row'[i] = row[i], row[i].state = "integrating",
           i \notin Published => i \notin Published'
    PROVE  Progress(i, pc)'
<1>1. Landed(i) => Landed(i)'
  BY LandedStays
<1>2. target \subseteq Published /\ target \subseteq target'
  BY DEF Published, Grows
<1>3. Carries(target, row[i].source) => Carries(target, row[i].source)'
  BY <1>2, CarriesStays DEF Carries
<1>4. QED  BY <1>1, <1>3 DEF Progress

LEMMA HandlerWaits ==
    ASSUME Inv, Grows, ServerType', NEW h \in Handlers, handler'[h] = handler[h],
           handler[h].pc \in ExecutionSteps =>
              /\ row'[Of(h)] = row[Of(h)] /\ Of(h) \notin orphaned'
              /\ Of(h) \notin Published => Of(h) \notin Published'
    PROVE  HandlerTrue(h)'
<1>1. CASE handler[h].pc = "idle"
  BY <1>1 DEF HandlerTrue
<1>2. CASE handler[h].pc # "idle"
  <2>1. PICK i, pc : i = Of(h) /\ pc = handler[h].pc
    OBVIOUS
  <2>2. /\ i \in Integrations /\ handler[h].version \in 1..row[i].version
        /\ HandlerTrue(h) /\ row[i].version \in 0..4 /\ row'[i].version \in 0..4
    BY <1>2, <2>1, HandlerFacts, RowFacts DEF HandlerTrue, ServerType, RowRecord
  <2>3. row'[i] = row[i] \/ row'[i].version > row[i].version
    BY <2>2 DEF Grows
  <2>4. Of(h)' = i /\ handler'[h].pc = pc /\ handler'[h].version = handler[h].version
    BY <2>1 DEF Of
  <2>5. CASE row'[i] = row[i]
    <3>1. pc \in ExecutionSteps => Progress(i, pc)'
      BY <1>2, <2>1, <2>2, <2>5, ProgressStays DEF HandlerTrue
    <3>2. QED  BY <1>2, <2>1, <2>2, <2>4, <2>5, <3>1 DEF HandlerTrue
  <2>6. CASE row'[i] # row[i]
    <3>1. row'[i].version > row[i].version /\ pc \notin ExecutionSteps
      BY <2>1, <2>3, <2>6
    <3>2. /\ handler[h].version \in 1..row'[i].version
          /\ handler[h].version # row'[i].version
      BY <2>2, <3>1
    <3>3. QED  BY <2>2, <2>4, <3>1, <3>2 DEF HandlerTrue
  <2>7. QED  BY <2>5, <2>6
<1>3. QED  BY <1>1, <1>2

-----------------------------------------------------------------------------
(* The task, the policy, the repository and the export.                    *)

LEMMA WorldMoves ==
    ASSUME Inv, OwnType', GitType', exporting' \in BOOLEAN,
           UNCHANGED <<row, handler, orphaned>>,
           \A r \in Revisions : merge'[r] \in {merge[r], "requested"},
           target \subseteq target', remote \subseteq remote',
           pushed \subseteq pushed', pullRequests \subseteq pullRequests',
           Published' \cap Integrations \subseteq Published
    PROVE  Inv' /\ Grows
<1>1. ServerType /\ ServerType'
  BY TypeParts DEF Inv, ServerType
<1>2. Grows
  BY DEF Grows
<1>3. ASSUME NEW i \in Integrations
      PROVE  RowTrue(i)' /\ Attended(i)' /\ Alone(i)' /\ Abandoned(i)'
  <2>1. RowTrue(i) /\ Attended(i) /\ Alone(i) /\ Abandoned(i)
    BY RowFacts
  <2>2. RowTrue(i)'
    BY <1>2, <2>1, RowWaits DEF RowTrue
  <2>3. \A h \in Handlers : Executing(h, i)' = Executing(h, i)
    BY DEF Executing, Of
  <2>4. QED  BY <2>1, <2>2, <2>3 DEF Attended, Alone, Abandoned
<1>4. \A r \in Revisions : MergeTrue(r)'
  BY <1>2, MergeWaits
<1>5. ASSUME NEW h \in Handlers
      PROVE  HandlerTrue(h)'
  <2>1. handler[h].pc \in ExecutionSteps => Of(h) \in Integrations /\ Of(h) \notin orphaned
    BY HandlerFacts, StepsDiffer DEF HandlerTrue
  <2>2. QED  BY <1>1, <1>2, <2>1, HandlerWaits
<1>6. QED  BY <1>1, <1>2, <1>3, <1>4, <1>5, TypeNext DEF Inv

LEMMA TaskCompletesStep ==
    ASSUME Inv, NEW r \in Revisions, TaskCompletes(r)
    PROVE  Inv' /\ Grows
<1>1. OwnType /\ GitType /\ exporting \in BOOLEAN
  BY TypeParts DEF Inv, ServerType
<1>2. merge' = [merge EXCEPT ![r] = "requested"]
  BY DEF TaskCompletes
<1>3. /\ OwnType'
      /\ \A q \in Revisions : merge'[q] \in {merge[q], "requested"}
  BY <1>1, <1>2 DEF OwnType, TaskCompletes
<1>4. GitType' /\ UNCHANGED Published /\ exporting' \in BOOLEAN
  BY <1>1 DEF GitType, TaskCompletes, git, Published
<1>5. UNCHANGED <<row, handler, orphaned, target, remote, pushed, pullRequests>>
  BY DEF TaskCompletes, git
<1>6. QED  BY <1>3, <1>4, <1>5, WorldMoves

LEMMA TaskReopensStep ==
    ASSUME Inv, TaskReopens
    PROVE  Inv' /\ Grows
<1>1. OwnType /\ GitType /\ exporting \in BOOLEAN
  BY TypeParts DEF Inv, ServerType
<1>2. OwnType' /\ UNCHANGED merge
  BY <1>1 DEF OwnType, TaskReopens
<1>3. GitType' /\ UNCHANGED Published /\ exporting' \in BOOLEAN
  BY <1>1 DEF GitType, TaskReopens, git, Published
<1>4. UNCHANGED <<row, handler, orphaned, target, remote, pushed, pullRequests>>
  BY DEF TaskReopens, git
<1>5. QED  BY <1>2, <1>3, <1>4, WorldMoves

LEMMA UpdatePolicyStep ==
    ASSUME Inv, NEW mode \in OwnerModes, UpdatePolicy(mode)
    PROVE  Inv' /\ Grows
<1>1. OwnType /\ GitType /\ exporting \in BOOLEAN
  BY TypeParts DEF Inv, ServerType
<1>2. mode \in Modes
  BY GitAssumption DEF Modes
<1>3. policy.version + 1 \in 1..MaxPolicyVersion
  BY <1>1, GitAssumption DEF OwnType, UpdatePolicy
<1>4. OwnType' /\ UNCHANGED merge
  BY <1>1, <1>2, <1>3 DEF OwnType, UpdatePolicy
<1>5. GitType' /\ UNCHANGED Published /\ exporting' \in BOOLEAN
  BY <1>1 DEF GitType, UpdatePolicy, git, Published
<1>6. UNCHANGED <<row, handler, orphaned, target, remote, pushed, pullRequests>>
  BY DEF UpdatePolicy, git
<1>7. QED  BY <1>4, <1>5, <1>6, WorldMoves

LEMMA OwnerCommitsLocallyStep ==
    ASSUME Inv, NEW c \in OwnerCommits, OwnerCommitsLocally(c)
    PROVE  Inv' /\ Grows
<1>1. OwnType /\ GitType /\ exporting \in BOOLEAN
  BY TypeParts DEF Inv, ServerType
<1>2. OwnType' /\ UNCHANGED <<merge, row, handler, orphaned, remote, pushed, pullRequests>>
  BY <1>1 DEF OwnType, OwnerCommitsLocally, owner
<1>3. GitType' /\ target' = target \cup {c} /\ exporting' \in BOOLEAN
  BY <1>1 DEF GitType, OwnerCommitsLocally, Commits
<1>4. Published' \cap Integrations \subseteq Published
  BY <1>2, <1>3, GitAssumption DEF Published
<1>5. QED  BY <1>2, <1>3, <1>4, WorldMoves

LEMMA OwnerPushesStep ==
    ASSUME Inv, NEW c \in OwnerCommits, OwnerPushes(c)
    PROVE  Inv' /\ Grows
<1>1. OwnType /\ GitType /\ exporting \in BOOLEAN
  BY TypeParts DEF Inv, ServerType
<1>2. OwnType' /\ UNCHANGED <<merge, row, handler, orphaned, target, pushed, pullRequests>>
  BY <1>1 DEF OwnType, OwnerPushes, owner
<1>3. GitType' /\ remote' = remote \cup {c} /\ exporting' \in BOOLEAN
  BY <1>1 DEF GitType, OwnerPushes, Commits
<1>4. Published' \cap Integrations \subseteq Published
  BY <1>2, <1>3, GitAssumption DEF Published
<1>5. QED  BY <1>2, <1>3, <1>4, WorldMoves

\* A step that only the export or the counters notice.
LEMMA OnlyExportMoves ==
    ASSUME Inv, UNCHANGED <<owner, merge, row, git, handler, orphaned>>,
           exporting' \in BOOLEAN
    PROVE  Inv' /\ Grows
<1>1. OwnType /\ GitType
  BY TypeParts DEF Inv
<1>2. OwnType' /\ GitType' /\ UNCHANGED merge /\ UNCHANGED Published
  BY <1>1 DEF OwnType, GitType, owner, git, Published
<1>3. UNCHANGED <<row, handler, orphaned, target, remote, pushed, pullRequests>>
  BY DEF git
<1>4. QED  BY <1>2, <1>3, WorldMoves

-----------------------------------------------------------------------------
(* The steps of a request.                                                 *)

\* A request that works on integration i: the other requests, the other rows
\* and the merge requests wait, unless the step says otherwise.
LEMMA RequestStep ==
    ASSUME Inv, TypeOK', Grows, NEW h \in Handlers, NEW i \in Integrations,
           \A g \in Handlers \ {h} : handler'[g] = handler[g],
           \A j \in Integrations \ {i} : row'[j] = row[j],
           Published' \subseteq Published \cup {i},
           orphaned \subseteq orphaned', orphaned' \subseteq orphaned \cup {i},
           \A j \in Integrations \ {i} : ~Executing(h, j) /\ ~Executing(h, j)',
           \A g \in Handlers \ {h} : Executing(g, i) =>
              /\ row'[i] = row[i] /\ orphaned' = orphaned
              /\ i \notin Published => i \notin Published',
           RowTrue(i)', Attended(i)', Alone(i)', Abandoned(i)', HandlerTrue(h)',
           \A r \in Revisions : MergeTrue(r)'
    PROVE  Inv'
<1>1. ServerType /\ ServerType'
  <2>1. ServerType
    BY TypeParts DEF Inv
  <2>2. ServerType'
    BY DEF TypeOK, ServerType, RowRecord, HandlerRecord, Pcs
  <2>3. QED  BY <2>1, <2>2
<1>2. ASSUME NEW j \in Integrations \ {i}
      PROVE  RowTrue(j)' /\ Attended(j)' /\ Alone(j)' /\ Abandoned(j)'
  <2>1. RowTrue(j) /\ Attended(j) /\ Alone(j) /\ Abandoned(j)
    BY RowFacts
  <2>2. RowTrue(j)'
    <3>1. row'[j] = row[j] /\ (row[j].state \in Quiet => j \notin Published')
      BY <2>1 DEF RowTrue
    <3>2. QED  BY <3>1, RowWaits
  <2>3. \A g \in Handlers : Executing(g, j)' <=> Executing(g, j)
    BY DEF Executing, Of
  <2>4. row'[j] = row[j] /\ (j \in orphaned' <=> j \in orphaned)
    OBVIOUS
  <2>5. QED  BY <2>1, <2>2, <2>3, <2>4 DEF Attended, Alone, Abandoned
<1>3. \A j \in Integrations : RowTrue(j)' /\ Attended(j)' /\ Alone(j)' /\ Abandoned(j)'
  BY <1>2
<1>4. ASSUME NEW g \in Handlers \ {h}
      PROVE  HandlerTrue(g)'
  <2>1. handler[g].pc \in ExecutionSteps =>
           /\ Of(g) \in Integrations /\ Of(g) \notin orphaned
           /\ Executing(g, Of(g))
    BY HandlerFacts, StepsDiffer DEF HandlerTrue, Executing
  <2>2. handler[g].pc \in ExecutionSteps =>
           /\ row'[Of(g)] = row[Of(g)] /\ Of(g) \notin orphaned'
           /\ Of(g) \notin Published => Of(g) \notin Published'
    BY <2>1
  <2>3. QED  BY <1>1, <2>2, HandlerWaits
<1>5. \A g \in Handlers : HandlerTrue(g)'
  BY <1>4
<1>6. QED  BY <1>3, <1>5 DEF Inv

\* A request that does not execute an integration takes a step of its own.
LEMMA OnlyRequestMoves ==
    ASSUME Inv, NEW h \in Handlers,
           UNCHANGED <<owner, merge, row, target, remote, pushed, pullRequests,
                       exporting, orphaned>>,
           branches' \subseteq branches,
           handler' \in [Handlers -> HandlerRecord],
           \A g \in Handlers \ {h} : handler'[g] = handler[g],
           handler[h].pc \notin ExecutionSteps, handler'[h].pc \notin ExecutionSteps,
           NEW i \in Integrations, HandlerTrue(h)'
    PROVE  Inv' /\ Grows
<1>1. OwnType /\ GitType /\ ServerType
  BY TypeParts DEF Inv
<1>2. TypeOK'
  <2>1. OwnType'
    BY <1>1 DEF OwnType, owner
  <2>2. GitType'
    BY <1>1 DEF GitType
  <2>3. ServerType'
    BY <1>1 DEF ServerType
  <2>4. QED  BY <2>1, <2>2, <2>3, TypeNext
<1>3. Grows
  BY DEF Grows
<1>4. UNCHANGED Published /\ UNCHANGED orphaned /\ UNCHANGED row
  BY DEF Published
<1>5. \A j : ~Executing(h, j) /\ ~Executing(h, j)'
  BY DEF Executing
<1>6. \A g \in Handlers, j \in Integrations : Executing(g, j)' <=> Executing(g, j)
  BY <1>5 DEF Executing, Of
<1>7. RowTrue(i) /\ Attended(i) /\ Alone(i) /\ Abandoned(i)
  BY RowFacts
<1>8. RowTrue(i)'
  BY <1>3, <1>4, <1>7, RowWaits DEF RowTrue
<1>9. Attended(i)' /\ Alone(i)' /\ Abandoned(i)'
  BY <1>4, <1>6, <1>7 DEF Attended, Alone, Abandoned
<1>10. \A r \in Revisions : MergeTrue(r)'
  BY <1>3, MergeWaits
<1>11. \A g \in Handlers \ {h} : handler'[g] = handler[g]
  OBVIOUS
<1>12. /\ \A j \in Integrations \ {i} : row'[j] = row[j]
       /\ Published' \subseteq Published \cup {i}
       /\ orphaned \subseteq orphaned' /\ orphaned' \subseteq orphaned \cup {i}
       /\ row'[i] = row[i] /\ orphaned' = orphaned
       /\ i \notin Published => i \notin Published'
  BY <1>4
<1>13. Inv'
  BY <1>2, <1>3, <1>5, <1>8, <1>9, <1>10, <1>11, <1>12, RequestStep
<1>14. QED  BY <1>3, <1>13

LEMMA StartType ==
    ASSUME Inv, NEW h \in Handlers, NEW i \in Integrations, NEW pc \in Pcs,
           handler' = [handler EXCEPT ![h] =
              [Idle EXCEPT !.pc = pc, !.integration = i, !.version = row[i].version]]
    PROVE  /\ handler' \in [Handlers -> HandlerRecord]
           /\ handler'[h].pc = pc /\ handler'[h].integration = i
           /\ handler'[h].version = row[i].version
           /\ \A g \in Handlers \ {h} : handler'[g] = handler[g]
<1>1. handler \in [Handlers -> HandlerRecord] /\ row[i].version \in 0..4
  BY TypeParts, RowFacts DEF Inv, ServerType
<1>2. PICK v, x : /\ v = row[i].version
                  /\ x = [Idle EXCEPT !.pc = pc, !.integration = i, !.version = v]
  OBVIOUS
<1>3. x \in HandlerRecord /\ x.pc = pc /\ x.integration = i /\ x.version = v
  BY <1>1, <1>2 DEF HandlerRecord, Idle
<1>4. handler' = [handler EXCEPT ![h] = x]
  BY <1>2
<1>5. QED  BY <1>1, <1>2, <1>3, <1>4

LEMMA ExecuteStartStep ==
    ASSUME Inv, NEW h \in Handlers, NEW i \in Integrations, ExecuteStart(h, i)
    PROVE  Inv' /\ Grows
<1>1. /\ handler' \in [Handlers -> HandlerRecord]
      /\ handler'[h].pc = "begin" /\ handler'[h].integration = i
      /\ handler'[h].version = row[i].version
      /\ \A g \in Handlers \ {h} : handler'[g] = handler[g]
  BY StartType, StepsDiffer DEF ExecuteStart
<1>2. /\ row[i].state = "prepared" /\ row[i].mode # "prepare_only"
      /\ row[i].version \in 0..4 /\ row[i].version \in VersionsOf(row[i].state)
      /\ handler[h].pc = "idle"
  BY RowFacts DEF ExecuteStart, At
<1>3. UNCHANGED <<owner, merge, row, target, remote, pushed, pullRequests,
                  exporting, orphaned>> /\ branches' \subseteq branches
  BY DEF ExecuteStart, git
<1>4. row[i].version = 1
  BY <1>2 DEF VersionsOf
<1>5. HandlerTrue(h)'
  BY <1>1, <1>2, <1>3, <1>4, StepsDiffer DEF HandlerTrue, Of
<1>6. handler[h].pc \notin ExecutionSteps /\ handler'[h].pc \notin ExecutionSteps
  BY <1>1, <1>2, StepsDiffer
<1>7. QED  BY <1>1, <1>3, <1>5, <1>6, OnlyRequestMoves

LEMMA CancelStartStep ==
    ASSUME Inv, NEW h \in Handlers, NEW i \in Integrations, CancelStart(h, i)
    PROVE  Inv' /\ Grows
<1>1. /\ handler' \in [Handlers -> HandlerRecord]
      /\ handler'[h].pc = "cleanup" /\ handler'[h].integration = i
      /\ handler'[h].version = row[i].version
      /\ \A g \in Handlers \ {h} : handler'[g] = handler[g]
  BY StartType, StepsDiffer DEF CancelStart, Cancelling
<1>2. /\ row[i].state \in Cancellable /\ handler[h].pc = "idle"
      /\ row[i].version \in 0..4 /\ row[i].version \in VersionsOf(row[i].state)
  BY RowFacts DEF CancelStart, At
<1>3. UNCHANGED <<owner, merge, row, target, remote, pushed, pullRequests,
                  exporting, orphaned>> /\ branches' \subseteq branches
  BY DEF CancelStart, git
<1>4. row[i].version \in 1..row[i].version
  BY <1>2 DEF VersionsOf, Cancellable
<1>5. HandlerTrue(h)'
  BY <1>1, <1>2, <1>3, <1>4, StepsDiffer DEF HandlerTrue, Of
<1>6. handler[h].pc \notin ExecutionSteps /\ handler'[h].pc \notin ExecutionSteps
  BY <1>1, <1>2, StepsDiffer
<1>7. QED  BY <1>1, <1>3, <1>5, <1>6, OnlyRequestMoves

\* A request that leaves without having touched a row.
LEMMA RequestLeaves ==
    ASSUME Inv, NEW h \in Handlers, Leaves(h),
           handler[h].pc \notin ExecutionSteps, handler[h].pc # "idle",
           UNCHANGED <<owner, merge, row, git, exporting, orphaned>>
    PROVE  Inv' /\ Grows
<1>1. /\ handler' \in [Handlers -> HandlerRecord] /\ handler'[h].pc = "idle"
      /\ \A g \in Handlers \ {h} : handler'[g] = handler[g]
  BY LeavesType
<1>2. HandlerTrue(h)' /\ Of(h) \in Integrations
  BY <1>1, HandlerFacts DEF HandlerTrue
<1>3. UNCHANGED <<owner, merge, row, target, remote, pushed, pullRequests,
                  exporting, orphaned>> /\ branches' \subseteq branches
  BY DEF git
<1>4. QED  BY <1>1, <1>2, <1>3, StepsDiffer, OnlyRequestMoves

LEMMA ExecuteRefusedStep ==
    ASSUME Inv, NEW h \in Handlers, ExecuteRefused(h)
    PROVE  Inv' /\ Grows
BY RequestLeaves, StepsDiffer DEF ExecuteRefused, At

LEMMA CancelRefusedStep ==
    ASSUME Inv, NEW h \in Handlers, CancelRefused(h)
    PROVE  Inv' /\ Grows
BY RequestLeaves, StepsDiffer DEF CancelRefused, At

LEMMA CancelCleansStep ==
    ASSUME Inv, NEW h \in Handlers, CancelCleans(h)
    PROVE  Inv' /\ Grows
<1>1. handler[h].pc = "cleanup" /\ HandlerTrue(h)
  BY HandlerFacts DEF CancelCleans, At
<1>2. Of(h) \in Integrations
  BY <1>1 DEF HandlerTrue
<1>3. UNCHANGED <<owner, merge, row, target, remote, pushed, pullRequests,
                  exporting, orphaned>> /\ branches' \subseteq branches
  BY DEF CancelCleans
<1>4. /\ handler' \in [Handlers -> HandlerRecord]
      /\ \A g \in Handlers \ {h} : handler'[g] = handler[g]
      /\ \/ handler'[h].pc = "idle"
         \/ /\ handler'[h].pc = "cancel" /\ handler'[h].integration = Of(h)
            /\ handler'[h].version = handler[h].version
  <2>1. CASE Goto(h, "cancel")
    BY <2>1, GotoType, StepsDiffer DEF Cancelling
  <2>2. CASE Leaves(h)
    BY <2>2, LeavesType
  <2>3. QED  BY <2>1, <2>2 DEF CancelCleans
<1>5. HandlerTrue(h)'
  BY <1>1, <1>3, <1>4, StepsDiffer DEF HandlerTrue, Of, Cancelling
<1>6. handler[h].pc \notin ExecutionSteps /\ handler'[h].pc \notin ExecutionSteps
  BY <1>1, <1>4, StepsDiffer
<1>7. QED  BY <1>2, <1>3, <1>4, <1>5, <1>6, OnlyRequestMoves

\* A row that moves, and Git with it.
LEMMA MovesGrow ==
    ASSUME Inv, NEW i \in Integrations, NEW state \in RowStates \ {"none"},
           row[i].version < 4, row[i].state # "none", row' = Moved(i, state),
           target \subseteq target', remote \subseteq remote',
           pushed \subseteq pushed', pullRequests \subseteq pullRequests'
    PROVE  /\ Grows /\ row' \in [Integrations -> RowRecord]
           /\ row'[i].state = state /\ row'[i].version = row[i].version + 1
           /\ row'[i].source = row[i].source /\ row'[i].mode = row[i].mode
           /\ row'[i].base = row[i].base
           /\ \A j \in Integrations \ {i} : row'[j] = row[j]
<1>1. /\ row' \in [Integrations -> RowRecord]
      /\ row'[i].state = state /\ row'[i].version = row[i].version + 1
      /\ row'[i].source = row[i].source /\ row'[i].mode = row[i].mode
      /\ row'[i].base = row[i].base
      /\ \A j \in Integrations \ {i} : row'[j] = row[j]
  BY MovedRow
<1>2. row[i].version \in 0..4
  BY RowFacts
<1>3. row'[i].version > row[i].version
  BY <1>1, <1>2
<1>4. Grows
  BY <1>1, <1>3 DEF Grows
<1>5. QED  BY <1>1, <1>4

LEMMA ExecuteBeginsStep ==
    ASSUME Inv, NEW h \in Handlers, ExecuteBegins(h)
    PROVE  Inv' /\ Grows
<1>1. PICK i : i = Of(h)
  OBVIOUS
<1>2. /\ handler[h].pc = "begin" /\ i \in Integrations
      /\ row[i].state = "prepared" /\ row[i].mode # "prepare_only"
      /\ handler[h].version = row[i].version
  BY <1>1, HandlerFacts DEF HandlerTrue, ExecuteBegins, At, Writable
<1>3. row[i].version = 1 /\ i \notin Published /\ i \notin orphaned
  BY <1>2, RowFacts DEF VersionsOf, RowTrue, Quiet, Abandoned
<1>4. /\ UNCHANGED <<target, remote, pushed, pullRequests, branches, orphaned>>
      /\ UNCHANGED Published /\ UNCHANGED merge
  BY DEF ExecuteBegins, git, Published
<1>5. /\ Grows /\ row' \in [Integrations -> RowRecord]
      /\ row'[i].state = "integrating" /\ row'[i].version = 2
      /\ row'[i].mode = row[i].mode
      /\ \A j \in Integrations \ {i} : row'[j] = row[j]
  <2>1. "integrating" \in RowStates \ {"none"} /\ row' = Moved(i, "integrating")
    BY <1>1 DEF RowStates, ExecuteBegins
  <2>2. QED  BY <1>2, <1>3, <1>4, <2>1, MovesGrow
<1>6. /\ handler' \in [Handlers -> HandlerRecord]
      /\ handler'[h].pc = "create" /\ handler'[h].integration = i /\ handler'[h].version = 2
      /\ \A g \in Handlers \ {h} : handler'[g] = handler[g]
  <2>1. handler \in [Handlers -> HandlerRecord]
    BY TypeParts DEF Inv, ServerType
  <2>2. PICK r : r = handler[h]
    OBVIOUS
  <2>3. r \in HandlerRecord /\ r.version = 1 /\ r.integration = i
    BY <1>1, <1>2, <1>3, <2>1, <2>2 DEF Of
  <2>4. PICK y : y = [r EXCEPT !.pc = "create"]
    OBVIOUS
  <2>5. "create" \in Pcs
    BY DEF Pcs, ExecutionSteps
  <2>6. y \in HandlerRecord /\ y.pc = "create" /\ y.integration = i /\ y.version = 1
    BY <2>3, <2>4, <2>5 DEF HandlerRecord
  <2>7. PICK x : x \in HandlerRecord /\ x.pc = "create" /\ x.integration = i
                 /\ x.version = 2 /\ x = [y EXCEPT !.version = y.version + 1]
    <3>1. PICK x : x = [y EXCEPT !.version = y.version + 1]
      OBVIOUS
    <3>2. y.version + 1 = 2
      BY <2>6
    <3>3. x \in HandlerRecord /\ x.pc = "create" /\ x.integration = i /\ x.version = 2
      BY <2>6, <3>1, <3>2 DEF HandlerRecord
    <3>4. QED  BY <3>1, <3>3
  <2>8. PICK handlers : handlers = [handler EXCEPT ![h] = y]
    OBVIOUS
  <2>9. handler' = [handlers EXCEPT ![h].version = handlers[h].version + 1]
    BY <2>1, <2>2, <2>4, <2>8 DEF ExecuteBegins
  <2>10. handlers[h] = y /\ [handlers EXCEPT ![h] = x] = [handler EXCEPT ![h] = x]
    BY <2>1, <2>8
  <2>11. handler' = [handler EXCEPT ![h] = x]
    BY <2>7, <2>9, <2>10
  <2>12. QED  BY <2>1, <2>7, <2>11
<1>7. TypeOK'
  <2>1. OwnType /\ GitType /\ ServerType
    BY TypeParts DEF Inv
  <2>2. OwnType' /\ GitType'
    BY <2>1 DEF OwnType, GitType, ExecuteBegins, owner, git
  <2>3. ServerType'
    BY <1>5, <1>6, <2>1 DEF ServerType, ExecuteBegins
  <2>4. QED  BY <2>2, <2>3, TypeNext
<1>8. RowTrue(i)'
  BY <1>2, <1>5 DEF RowTrue, VersionsOf, Quiet
<1>9. \A g \in Handlers : ~Executing(g, i)
  BY <1>1, <1>2, HandlerFacts, StepsDiffer DEF HandlerTrue, Executing
<1>10. "create" \in ExecutionSteps
  BY DEF ExecutionSteps
<1>11. Attended(i)' /\ Alone(i)' /\ Abandoned(i)'
  <2>1. Executing(h, i)' /\ \A g \in Handlers \ {h} : ~Executing(g, i)'
    BY <1>6, <1>9, <1>10 DEF Executing, Of
  <2>2. QED  BY <1>5, <2>1 DEF Attended, Alone, Abandoned
<1>12. HandlerTrue(h)'
  <2>1. Progress(i, "create")'
    BY <1>3, <1>4 DEF Progress
  <2>2. QED
    BY <1>2, <1>3, <1>4, <1>5, <1>6, <1>10, <2>1, StepsDiffer DEF HandlerTrue, Of
<1>13. \A r \in Revisions : MergeTrue(r)'
  BY <1>4, <1>5, MergeWaits
<1>14. /\ Published' \subseteq Published \cup {i}
       /\ orphaned \subseteq orphaned' /\ orphaned' \subseteq orphaned \cup {i}
       /\ \A j \in Integrations \ {i} : ~Executing(h, j) /\ ~Executing(h, j)'
  BY <1>1, <1>4, <1>6 DEF Executing, Of
<1>15. Inv'
  BY <1>2, <1>5, <1>6, <1>7, <1>8, <1>9, <1>11, <1>12, <1>13, <1>14, RequestStep
<1>16. QED  BY <1>5, <1>15

\* What a request that executes an integration knows.
LEMMA ExecutionFacts ==
    ASSUME Inv, NEW h \in Handlers, handler[h].pc \in ExecutionSteps
    PROVE  /\ Of(h) \in Integrations /\ row[Of(h)].state = "integrating"
           /\ row[Of(h)].version = 2 /\ handler[h].version = 2
           /\ Of(h) \notin orphaned /\ Progress(Of(h), handler[h].pc)
           /\ row[Of(h)].mode # "prepare_only" /\ row[Of(h)].mode \in Modes
           /\ row[Of(h)].base \subseteq Commits /\ row[Of(h)].source \in Revisions
           /\ \A g \in Handlers : Executing(g, Of(h)) <=> g = h
<1>1. /\ Of(h) \in Integrations /\ row[Of(h)].state = "integrating"
      /\ handler[h].version = row[Of(h)].version
      /\ Of(h) \notin orphaned /\ Progress(Of(h), handler[h].pc)
  BY HandlerFacts, StepsDiffer DEF HandlerTrue
<1>2. PICK i \in Integrations : i = Of(h)
  BY <1>1
<1>3. /\ row[i].version = 2 /\ row[i].mode # "prepare_only" /\ row[i].mode \in Modes
      /\ row[i].base \subseteq Commits /\ row[i].source \in Revisions
      /\ Alone(i)
  BY <1>1, <1>2, RowFacts DEF RowTrue, VersionsOf, RowRecord
<1>4. \A g \in Handlers : Executing(g, i) <=> g = h
  BY <1>2, <1>3 DEF Alone, Executing
<1>5. QED  BY <1>1, <1>2, <1>3, <1>4

LEMMA ExecutionGoesOn ==
    ASSUME Inv, NEW h \in Handlers, handler[h].pc \in ExecutionSteps,
           NEW pc \in ExecutionSteps, Goto(h, pc), NEW i, i = Of(h),
           UNCHANGED <<owner, merge, row, exporting, orphaned>>,
           GitType', target \subseteq target', remote \subseteq remote',
           pushed \subseteq pushed', pullRequests \subseteq pullRequests',
           Published' \subseteq Published \cup {i}, Progress(i, pc)'
    PROVE  Inv' /\ Grows
<1>1. /\ i \in Integrations /\ row[i].state = "integrating" /\ row[i].version = 2
      /\ handler[h].version = 2 /\ i \notin orphaned
      /\ \A g \in Handlers : Executing(g, i) <=> g = h
  BY ExecutionFacts
<1>2. /\ handler' \in [Handlers -> HandlerRecord]
      /\ handler'[h].pc = pc /\ handler'[h].integration = i /\ handler'[h].version = 2
      /\ \A g \in Handlers \ {h} : handler'[g] = handler[g]
  BY <1>1, GotoType, StepsDiffer
<1>3. Grows
  BY DEF Grows
<1>4. TypeOK'
  <2>1. OwnType /\ ServerType
    BY TypeParts DEF Inv
  <2>2. OwnType' /\ ServerType'
    BY <1>2, <2>1 DEF OwnType, ServerType, owner
  <2>3. QED  BY <2>2, TypeNext
<1>5. RowTrue(i)'
  BY <1>1, <1>3, RowWaits DEF Quiet
<1>6. \A g \in Handlers : Executing(g, i)' <=> g = h
  BY <1>1, <1>2 DEF Executing, Of
<1>7. Attended(i)' /\ Alone(i)' /\ Abandoned(i)'
  BY <1>1, <1>6 DEF Attended, Alone, Abandoned
<1>8. HandlerTrue(h)'
  BY <1>1, <1>2, StepsDiffer DEF HandlerTrue, Of
<1>9. \A r \in Revisions : MergeTrue(r)'
  BY <1>3, MergeWaits
<1>10. /\ orphaned \subseteq orphaned' /\ orphaned' \subseteq orphaned \cup {i}
       /\ \A j \in Integrations \ {i} : ~Executing(h, j) /\ ~Executing(h, j)'
       /\ \A g \in Handlers \ {h} : ~Executing(g, i)
       /\ \A j \in Integrations \ {i} : row'[j] = row[j]
  BY <1>1, <1>2 DEF Executing, Of
<1>11. Inv'
  BY <1>1, <1>2, <1>3, <1>4, <1>5, <1>7, <1>8, <1>9, <1>10, RequestStep
<1>12. QED  BY <1>3, <1>11

LEMMA ExecutionFails ==
    ASSUME Inv, NEW h \in Handlers, handler[h].pc \in ExecutionSteps,
           NEW state \in {"conflict", "failed", "reconciliation_required"}, Fails(h, state),
           NEW i, i = Of(h),
           GitType', target \subseteq target', remote \subseteq remote',
           pushed \subseteq pushed', pullRequests \subseteq pullRequests',
           Published' \subseteq Published \cup {i},
           state # "reconciliation_required" => i \notin Published'
    PROVE  Inv' /\ Grows
<1>1. /\ i \in Integrations /\ row[i].state = "integrating" /\ row[i].version = 2
      /\ handler[h].version = 2 /\ i \notin orphaned
      /\ \A g \in Handlers : Executing(g, i) <=> g = h
  BY ExecutionFacts
<1>2. /\ handler' \in [Handlers -> HandlerRecord] /\ handler'[h].pc = "idle"
      /\ \A g \in Handlers \ {h} : handler'[g] = handler[g]
  BY LeavesType DEF Fails
<1>3. \A g \in Handlers : ~Executing(g, i)'
  BY <1>1, <1>2, StepsDiffer DEF Executing, Of
<1>4. HandlerTrue(h)'
  BY <1>2 DEF HandlerTrue
<1>5. UNCHANGED <<owner, merge, exporting>>
  BY DEF Fails
<1>6. /\ \A j \in Integrations \ {i} : ~Executing(h, j) /\ ~Executing(h, j)'
      /\ \A g \in Handlers \ {h} : ~Executing(g, i)
  BY <1>1, <1>2, StepsDiffer DEF Executing, Of
<1>7. OwnType /\ ServerType /\ OwnType'
  BY <1>5, TypeParts DEF Inv, OwnType, owner
<1>8. CASE row' = Moved(i, state) /\ UNCHANGED orphaned
  <2>1. state \in RowStates \ {"none"}
    BY DEF RowStates
  <2>2. /\ Grows /\ row' \in [Integrations -> RowRecord]
        /\ row'[i].state = state /\ row'[i].version = 3
        /\ \A j \in Integrations \ {i} : row'[j] = row[j]
    BY <1>1, <1>8, <2>1, MovesGrow
  <2>3. TypeOK'
    BY <1>2, <1>5, <1>7, <1>8, <2>2, TypeNext DEF ServerType
  <2>4. RowTrue(i)'
    BY <2>2 DEF RowTrue, VersionsOf, Quiet
  <2>5. Attended(i)' /\ Alone(i)' /\ Abandoned(i)'
    BY <1>1, <1>3, <1>8, <2>2 DEF Attended, Alone, Abandoned
  <2>6. \A r \in Revisions : MergeTrue(r)'
    BY <1>5, <2>2, MergeWaits
  <2>7. Inv'
    BY <1>1, <1>2, <1>4, <1>6, <1>8, <2>2, <2>3, <2>4, <2>5, <2>6, RequestStep
  <2>8. QED  BY <2>2, <2>7
<1>9. CASE orphaned' = orphaned \cup {i} /\ UNCHANGED row
  <2>1. Grows
    BY <1>9 DEF Grows
  <2>2. TypeOK'
    BY <1>1, <1>2, <1>5, <1>7, <1>9, TypeNext DEF ServerType
  <2>3. RowTrue(i)'
    BY <1>1, <1>9, <2>1, RowWaits DEF Quiet
  <2>4. Attended(i)' /\ Alone(i)' /\ Abandoned(i)'
    BY <1>1, <1>3, <1>9 DEF Attended, Alone, Abandoned
  <2>5. \A r \in Revisions : MergeTrue(r)'
    BY <1>5, <2>1, MergeWaits
  <2>6. orphaned \subseteq orphaned' /\ orphaned' \subseteq orphaned \cup {i}
        /\ \A j \in Integrations \ {i} : row'[j] = row[j]
    BY <1>9
  <2>7. Inv'
    BY <1>1, <1>2, <1>4, <1>6, <2>1, <2>2, <2>3, <2>4, <2>5, <2>6, RequestStep
  <2>8. QED  BY <2>1, <2>7
<1>10. QED  BY <1>8, <1>9 DEF Fails

-----------------------------------------------------------------------------
(* Execution.                                                              *)

LEMMA CreateResultStep ==
    ASSUME Inv, NEW h \in Handlers, CreateResult(h)
    PROVE  Inv' /\ Grows
<1>1. PICK i : i = Of(h)
  OBVIOUS
<1>2. handler[h].pc = "create" /\ "create" \in ExecutionSteps
  BY DEF CreateResult, At, ExecutionSteps
<1>3. /\ i \in Integrations /\ Progress(i, "create") /\ row[i].mode \in Modes
      /\ row[i].mode # "prepare_only"
  BY <1>1, <1>2, ExecutionFacts
<1>4. /\ UNCHANGED <<target, remote, pushed, pullRequests>> /\ UNCHANGED Published
      /\ branches' = branches \cup {i}
  BY <1>1 DEF CreateResult, Published
<1>5. GitType'
  BY <1>3, <1>4, TypeParts DEF Inv, GitType
<1>6. i \notin Published
  BY <1>3 DEF Progress
<1>7. CASE Fails(h, "conflict")
  BY <1>1, <1>2, <1>4, <1>5, <1>6, <1>7, ExecutionFails
<1>8. CASE /\ Goto(h, IF row[Of(h)].mode = "pull_request" THEN "pushBranch" ELSE "publish")
           /\ UNCHANGED <<owner, merge, row, exporting, orphaned>>
  <2>1. PICK pc \in {"pushBranch", "publish"} :
           pc = IF row[i].mode = "pull_request" THEN "pushBranch" ELSE "publish"
    OBVIOUS
  <2>2. pc \in ExecutionSteps
    BY DEF ExecutionSteps
  <2>3. Progress(i, pc)'
    BY <1>3, <1>4, <1>6, <1>8, <2>1 DEF Progress, Modes
  <2>4. Goto(h, pc)
    BY <1>1, <1>8, <2>1
  <2>5. QED  BY <1>1, <1>2, <1>4, <1>5, <1>8, <2>2, <2>3, <2>4, ExecutionGoesOn
<1>9. QED  BY <1>7, <1>8 DEF CreateResult

\* What is published is the target with the result on top of it.
LEMMA ResultCarries ==
    ASSUME Inv, NEW i \in Integrations
    PROVE  /\ row[i].base \subseteq Result(i) /\ Result(i) \subseteq row[i].base \cup {i}
           /\ Carries(Result(i), row[i].source)
<1>1. row[i].source >= row[i].source
  BY RowFacts, GitAssumption DEF Revisions
<1>2. QED  BY <1>1 DEF Result, Carries

LEMMA PublishLocallyStep ==
    ASSUME Inv, NEW h \in Handlers, PublishLocally(h)
    PROVE  Inv' /\ Grows
<1>1. PICK i : i = Of(h)
  OBVIOUS
<1>2. handler[h].pc = "publish" /\ "publish" \in ExecutionSteps
  BY DEF PublishLocally, At, ExecutionSteps
<1>3. /\ i \in Integrations /\ Progress(i, "publish")
      /\ row[i].mode \in {"local_integrate", "local_push"} /\ row[i].base \subseteq Commits
  BY <1>1, <1>2, ExecutionFacts DEF Progress
<1>4. /\ UNCHANGED <<remote, pushed, pullRequests, branches>>
      /\ UNCHANGED <<owner, merge, row, exporting, orphaned>>
      /\ target' = Result(i) /\ target = row[i].base
  BY <1>1 DEF PublishLocally
<1>5. /\ target \subseteq target' /\ target' \subseteq target \cup {i}
      /\ Carries(target, row[i].source)'
  BY <1>3, <1>4, ResultCarries DEF Carries
<1>6. GitType' /\ Published' \subseteq Published \cup {i}
  BY <1>3, <1>4, <1>5, TypeParts DEF Inv, GitType, Published, Commits
<1>7. PICK pc \in {"push", "clean"} : pc = IF row[i].mode = "local_push" THEN "push" ELSE "clean"
  OBVIOUS
<1>8. pc \in ExecutionSteps /\ Goto(h, pc)
  BY <1>1, <1>7 DEF ExecutionSteps, PublishLocally
<1>9. Progress(i, pc)'
  BY <1>3, <1>4, <1>5, <1>7 DEF Progress, Landed
<1>10. remote \subseteq remote' /\ pushed \subseteq pushed' /\ pullRequests \subseteq pullRequests'
  BY <1>4
<1>11. QED  BY <1>1, <1>2, <1>4, <1>5, <1>6, <1>8, <1>9, <1>10, ExecutionGoesOn

LEMMA NothingMovesFails ==
    ASSUME Inv, NEW h \in Handlers, handler[h].pc \in ExecutionSteps, UNCHANGED git,
           NEW state \in {"conflict", "failed", "reconciliation_required"}, Fails(h, state),
           state # "reconciliation_required" => handler[h].pc \in {"create", "publish"}
    PROVE  Inv' /\ Grows
<1>1. PICK i : i = Of(h)
  OBVIOUS
<1>2. UNCHANGED <<target, remote, pushed, pullRequests, branches>> /\ UNCHANGED Published
  BY DEF git, Published
<1>3. GitType'
  BY <1>2, TypeParts DEF Inv, GitType
<1>4. Progress(i, handler[h].pc)
  BY <1>1, ExecutionFacts
<1>5. state # "reconciliation_required" => i \notin Published'
  BY <1>2, <1>4 DEF Progress
<1>6. QED  BY <1>1, <1>2, <1>3, <1>5, ExecutionFails

LEMMA StaleOrDirtyStep ==
    ASSUME Inv, NEW h \in Handlers, StaleOrDirty(h)
    PROVE  Inv' /\ Grows
<1>1. handler[h].pc \in {"create", "publish"} /\ handler[h].pc \in ExecutionSteps
  BY DEF StaleOrDirty, At, ExecutionSteps
<1>2. QED  BY <1>1, NothingMovesFails DEF StaleOrDirty

LEMMA GitFailsStep ==
    ASSUME Inv, NEW h \in Handlers, GitFails(h)
    PROVE  Inv' /\ Grows
<1>1. handler[h].pc \in ExecutionSteps
  BY DEF GitFails, ExecutionSteps
<1>2. QED  BY <1>1, NothingMovesFails DEF GitFails

LEMMA SettleRefusedStep ==
    ASSUME Inv, NEW h \in Handlers, SettleRefused(h)
    PROVE  Inv' /\ Grows
<1>1. handler[h].pc \in ExecutionSteps
  BY DEF SettleRefused, At, ExecutionSteps
<1>2. QED  BY <1>1, NothingMovesFails DEF SettleRefused

LEMMA PushTargetStep ==
    ASSUME Inv, NEW h \in Handlers, PushTarget(h)
    PROVE  Inv' /\ Grows
<1>1. PICK i : i = Of(h)
  OBVIOUS
<1>2. handler[h].pc = "push" /\ {"push", "clean"} \subseteq ExecutionSteps
  BY DEF PushTarget, At, ExecutionSteps
<1>3. /\ i \in Integrations
      /\ row[i].mode = "local_push" /\ Carries(target, row[i].source)
  BY <1>1, <1>2, ExecutionFacts DEF Progress
<1>4. /\ UNCHANGED <<target, pushed, pullRequests, branches>>
      /\ remote \subseteq target /\ remote' = target
  BY DEF PushTarget
<1>5. GitType' /\ Published' \subseteq Published \cup {i} /\ remote \subseteq remote'
  BY <1>4, TypeParts DEF Inv, GitType, Published
<1>6. CASE Fails(h, "reconciliation_required")
  BY <1>1, <1>2, <1>4, <1>5, <1>6, ExecutionFails
<1>7. CASE Goto(h, "clean") /\ UNCHANGED <<owner, merge, row, exporting, orphaned>>
  <2>1. Progress(i, "clean")'
    BY <1>3, <1>4, <1>7 DEF Progress, Landed, Carries
  <2>2. QED  BY <1>1, <1>2, <1>4, <1>5, <1>7, <2>1, ExecutionGoesOn
<1>8. QED  BY <1>6, <1>7 DEF PushTarget

LEMMA PushBranchStep ==
    ASSUME Inv, NEW h \in Handlers, PushBranch(h)
    PROVE  Inv' /\ Grows
<1>1. PICK i : i = Of(h)
  OBVIOUS
<1>2. handler[h].pc = "pushBranch" /\ {"pushBranch", "openPullRequest"} \subseteq ExecutionSteps
  BY DEF PushBranch, At, ExecutionSteps
<1>3. i \in Integrations /\ row[i].mode = "pull_request"
  BY <1>1, <1>2, ExecutionFacts DEF Progress
<1>4. UNCHANGED <<target, remote, pullRequests, branches>> /\ pushed' = pushed \cup {i}
  BY <1>1 DEF PushBranch
<1>5. GitType' /\ Published' \subseteq Published \cup {i} /\ pushed \subseteq pushed'
  BY <1>3, <1>4, TypeParts DEF Inv, GitType, Published
<1>6. CASE Fails(h, "reconciliation_required")
  BY <1>1, <1>2, <1>4, <1>5, <1>6, ExecutionFails
<1>7. CASE Goto(h, "openPullRequest") /\ UNCHANGED <<owner, merge, row, exporting, orphaned>>
  <2>1. Progress(i, "openPullRequest")'
    BY <1>3, <1>7 DEF Progress
  <2>2. QED  BY <1>1, <1>2, <1>4, <1>5, <1>7, <2>1, ExecutionGoesOn
<1>8. QED  BY <1>6, <1>7 DEF PushBranch

LEMMA OpenPullRequestStep ==
    ASSUME Inv, NEW h \in Handlers, OpenPullRequest(h)
    PROVE  Inv' /\ Grows
<1>1. PICK i : i = Of(h)
  OBVIOUS
<1>2. handler[h].pc = "openPullRequest" /\ {"openPullRequest", "clean"} \subseteq ExecutionSteps
  BY DEF OpenPullRequest, At, ExecutionSteps
<1>3. i \in Integrations /\ row[i].mode = "pull_request"
  BY <1>1, <1>2, ExecutionFacts DEF Progress
<1>4. UNCHANGED <<target, remote, pushed, branches>> /\ pullRequests' = pullRequests \cup {i}
  BY <1>1 DEF OpenPullRequest
<1>5. GitType' /\ Published' \subseteq Published \cup {i} /\ pullRequests \subseteq pullRequests'
  BY <1>3, <1>4, TypeParts DEF Inv, GitType, Published
<1>6. CASE Fails(h, "reconciliation_required")
  BY <1>1, <1>2, <1>4, <1>5, <1>6, ExecutionFails
<1>7. CASE Goto(h, "clean") /\ UNCHANGED <<owner, merge, row, exporting, orphaned>>
  <2>1. Progress(i, "clean")'
    BY <1>3, <1>4, <1>7 DEF Progress, Landed
  <2>2. QED  BY <1>1, <1>2, <1>4, <1>5, <1>7, <2>1, ExecutionGoesOn
<1>8. QED  BY <1>6, <1>7 DEF OpenPullRequest

LEMMA CleanIntegrationStep ==
    ASSUME Inv, NEW h \in Handlers, CleanIntegration(h)
    PROVE  Inv' /\ Grows
<1>1. PICK i : i = Of(h)
  OBVIOUS
<1>2. handler[h].pc = "clean" /\ {"clean", "settle"} \subseteq ExecutionSteps
  BY DEF CleanIntegration, At, ExecutionSteps
<1>3. i \in Integrations /\ Landed(i)
  BY <1>1, <1>2, ExecutionFacts DEF Progress
<1>4. /\ UNCHANGED <<target, remote, pushed, pullRequests>>
      /\ UNCHANGED <<owner, merge, row, exporting, orphaned>>
      /\ branches' \subseteq branches /\ UNCHANGED Published /\ Goto(h, "settle")
  BY DEF CleanIntegration, Published
<1>5. GitType'
  BY <1>4, TypeParts DEF Inv, GitType
<1>6. Progress(i, "settle")'
  BY <1>3, <1>4 DEF Progress, Landed, Carries
<1>7. QED  BY <1>1, <1>2, <1>4, <1>5, <1>6, ExecutionGoesOn

\* The final state of a row that is about to settle is true of Git.
LEMMA SettlesTruly ==
    ASSUME Inv, NEW h \in Handlers, handler[h].pc = "settle", NEW i, i = Of(h)
    PROVE  /\ i \in Integrations /\ row[i].state = "integrating" /\ row[i].version = 2
           /\ FinalState(i) \in {"integrated", "published"} /\ Landed(i)
           /\ FinalState(i) = "integrated" => Carries(target, row[i].source)
           /\ FinalState(i) = "published" => Carries(remote \cup pullRequests, row[i].source)
<1>1. "settle" \in ExecutionSteps
  BY DEF ExecutionSteps
<1>2. /\ i \in Integrations /\ row[i].state = "integrating" /\ row[i].version = 2
      /\ Landed(i) /\ row[i].source \in Revisions
  BY <1>1, ExecutionFacts DEF Progress
<1>3. FinalState(i) \in {"integrated", "published"}
  BY DEF FinalState
<1>4. FinalState(i) = "integrated" => Carries(target, row[i].source)
  BY <1>2 DEF FinalState, Landed
<1>5. FinalState(i) = "published" => Carries(remote \cup pullRequests, row[i].source)
  <2>1. row[i].source >= row[i].source
    BY <1>2, GitAssumption DEF Revisions
  <2>2. QED  BY <1>2, <2>1 DEF FinalState, Landed, Carries
<1>6. QED  BY <1>2, <1>3, <1>4, <1>5

LEMMA SettleStep ==
    ASSUME Inv, NEW h \in Handlers, Settle(h)
    PROVE  Inv' /\ Grows
<1>1. PICK i, state : i = Of(h) /\ state = FinalState(i)
  OBVIOUS
<1>2. handler[h].pc = "settle" /\ "settle" \in ExecutionSteps
  BY DEF Settle, At, ExecutionSteps
<1>3. /\ i \in Integrations /\ row[i].state = "integrating" /\ row[i].version = 2
      /\ state \in {"integrated", "published"} /\ Landed(i)
      /\ state = "integrated" => Carries(target, row[i].source)
      /\ state = "published" => Carries(remote \cup pullRequests, row[i].source)
  BY <1>1, <1>2, SettlesTruly
<1>4. /\ UNCHANGED <<owner, target, remote, pushed, pullRequests, branches, exporting, orphaned>>
      /\ row' = Moved(i, state) /\ merge' = [merge EXCEPT ![row[i].source] = state]
      /\ Leaves(h) /\ UNCHANGED Published
  BY <1>1 DEF Settle, git, Published
<1>5. /\ Grows /\ row' \in [Integrations -> RowRecord]
      /\ row'[i].state = state /\ row'[i].version = 3
      /\ \A j \in Integrations \ {i} : row'[j] = row[j]
  <2>1. state \in RowStates \ {"none"}
    BY <1>3 DEF RowStates
  <2>2. QED  BY <1>3, <1>4, <2>1, MovesGrow
<1>6. /\ handler' \in [Handlers -> HandlerRecord] /\ handler'[h].pc = "idle"
      /\ \A g \in Handlers \ {h} : handler'[g] = handler[g]
  BY <1>4, LeavesType
<1>7. i \notin orphaned /\ row[i].source \in Revisions
      /\ \A g \in Handlers : Executing(g, i) <=> g = h
  BY <1>1, <1>2, ExecutionFacts
<1>8. /\ OwnType' /\ \A r \in Revisions \ {row[i].source} : merge'[r] = merge[r]
      /\ merge'[row[i].source] = state
  BY <1>3, <1>4, <1>7, TypeParts DEF Inv, OwnType, owner
<1>9. TypeOK'
  <2>1. GitType /\ ServerType
    BY TypeParts DEF Inv
  <2>2. GitType' /\ ServerType'
    BY <1>4, <1>5, <1>6, <2>1 DEF GitType, ServerType
  <2>3. QED  BY <1>8, <2>2, TypeNext
<1>10. RowTrue(i)'
  <2>1. Landed(i)'
    BY <1>3, <1>5, LandedStays
  <2>2. QED  BY <1>3, <1>5, <2>1 DEF RowTrue, VersionsOf, Quiet
<1>11. \A g \in Handlers : ~Executing(g, i)'
  BY <1>6, <1>7, StepsDiffer DEF Executing, Of
<1>12. Attended(i)' /\ Alone(i)' /\ Abandoned(i)'
  BY <1>3, <1>4, <1>5, <1>7, <1>11 DEF Attended, Alone, Abandoned
<1>13. HandlerTrue(h)'
  BY <1>6 DEF HandlerTrue
<1>14. ASSUME NEW r \in Revisions
       PROVE  MergeTrue(r)'
  <2>1. CASE r # row[i].source
    BY <1>5, <1>8, <2>1, MergeWaits
  <2>2. CASE r = row[i].source
    <3>1. target \subseteq Published /\ remote \cup pullRequests \subseteq Published
      BY DEF Published
    <3>2. target \subseteq target' /\ remote \cup pullRequests \subseteq (remote \cup pullRequests)'
      BY <1>4
    <3>3. state = "integrated" => Carries(target, r)'
      BY <1>3, <1>5, <2>2, <3>1, <3>2, CarriesStays DEF Carries
    <3>4. ASSUME state = "published"
          PROVE  Carries(remote \cup pullRequests, r)'
      <4>1. PICK C, D : C = remote \cup pullRequests /\ D = (remote \cup pullRequests)'
        OBVIOUS
      <4>2. Carries(C, r)
        BY <1>3, <2>2, <3>4, <4>1
      <4>3. \E j \in D \cap Integrations : row'[j].source >= r
        BY ZenonT(40), <1>5, <3>1, <3>2, <4>1, <4>2, CarriesStays
      <4>4. QED  BY <4>1, <4>3 DEF Carries
    <3>5. merge'[r] = state
      BY <1>8, <2>2
    <3>6. QED  BY <3>3, <3>4, <3>5 DEF MergeTrue
  <2>3. QED  BY <2>1, <2>2
<1>15. /\ Published' \subseteq Published \cup {i}
       /\ orphaned \subseteq orphaned' /\ orphaned' \subseteq orphaned \cup {i}
       /\ \A j \in Integrations \ {i} : ~Executing(h, j) /\ ~Executing(h, j)'
       /\ \A g \in Handlers \ {h} : ~Executing(g, i)
  BY <1>1, <1>4, <1>6, <1>7, StepsDiffer DEF Executing, Of
<1>16. Inv'
  BY <1>3, <1>5, <1>6, <1>9, <1>10, <1>12, <1>13, <1>14, <1>15, RequestStep
<1>17. QED  BY <1>5, <1>16

LEMMA CancelSettlesStep ==
    ASSUME Inv, NEW h \in Handlers, CancelSettles(h)
    PROVE  Inv' /\ Grows
<1>1. PICK i : i = Of(h)
  OBVIOUS
<1>2. /\ handler[h].pc = "cancel" /\ "cancel" \in Cancelling
      /\ handler[h].version = row[i].version
  BY <1>1 DEF CancelSettles, At, Cancelling, Writable
<1>3. i \in Integrations /\ row[i].state \in Cancellable
  BY <1>1, <1>2, HandlerFacts DEF HandlerTrue
<1>4. /\ UNCHANGED <<owner, merge, target, remote, pushed, pullRequests, branches,
                     exporting, orphaned>>
      /\ row' = Moved(i, "cancelled") /\ Leaves(h) /\ UNCHANGED Published
  BY <1>1 DEF CancelSettles, git, Published
<1>5. row[i].version \in {1, 3} /\ row[i].state # "integrating" /\ row[i].state # "none"
  BY <1>3, RowFacts DEF VersionsOf, Cancellable
<1>6. /\ Grows /\ row' \in [Integrations -> RowRecord]
      /\ row'[i].state = "cancelled" /\ row'[i].version \in {2, 4}
      /\ \A j \in Integrations \ {i} : row'[j] = row[j]
  <2>1. "cancelled" \in RowStates \ {"none"} /\ row[i].version < 4
    BY <1>5 DEF RowStates
  <2>2. QED  BY <1>3, <1>4, <1>5, <2>1, MovesGrow
<1>7. /\ handler' \in [Handlers -> HandlerRecord] /\ handler'[h].pc = "idle"
      /\ \A g \in Handlers \ {h} : handler'[g] = handler[g]
  BY <1>4, LeavesType
<1>8. \A g \in Handlers : ~Executing(g, i)
  BY <1>5, HandlerFacts, StepsDiffer DEF HandlerTrue, Executing
<1>9. TypeOK'
  <2>1. OwnType /\ GitType /\ ServerType
    BY TypeParts DEF Inv
  <2>2. OwnType' /\ GitType' /\ ServerType'
    BY <1>4, <1>6, <1>7, <2>1 DEF OwnType, GitType, ServerType, owner
  <2>3. QED  BY <2>2, TypeNext
<1>10. RowTrue(i)'
  BY <1>6 DEF RowTrue, VersionsOf, Quiet
<1>11. \A g \in Handlers : ~Executing(g, i)'
  BY <1>7, <1>8, StepsDiffer DEF Executing, Of
<1>12. Attended(i)' /\ Alone(i)' /\ Abandoned(i)'
  <2>1. i \notin orphaned
    BY <1>3, <1>5, RowFacts DEF Abandoned
  <2>2. QED  BY <1>4, <1>6, <1>11, <2>1 DEF Attended, Alone, Abandoned
<1>13. HandlerTrue(h)'
  BY <1>7 DEF HandlerTrue
<1>14. \A r \in Revisions : MergeTrue(r)'
  BY <1>4, <1>6, MergeWaits
<1>15. /\ Published' \subseteq Published \cup {i}
       /\ orphaned \subseteq orphaned' /\ orphaned' \subseteq orphaned \cup {i}
       /\ \A j \in Integrations \ {i} : ~Executing(h, j) /\ ~Executing(h, j)'
  BY <1>2, <1>4, <1>7, StepsDiffer DEF Executing, Of
<1>16. Inv'
  BY <1>3, <1>6, <1>7, <1>8, <1>9, <1>10, <1>12, <1>13, <1>14, <1>15, RequestStep
<1>17. QED  BY <1>6, <1>16

-----------------------------------------------------------------------------
(* Preparation and restart.                                                *)

LEMMA PrepareStep ==
    ASSUME Inv, NEW i \in Integrations, NEW state \in Previews, Prepare(i, state)
    PROVE  Inv' /\ Grows
<1>1. PICK x : x = [state |-> state, version |-> 1, mode |-> policy.mode,
                   policyVersion |-> policy.version, base |-> target,
                   source |-> task.revision]
  OBVIOUS
<1>2. OwnType /\ GitType /\ ServerType
  BY TypeParts DEF Inv
<1>3. x \in RowRecord /\ x.state = state /\ x.version = 1
  <2>1. /\ state \in RowStates /\ policy.mode \in Modes
        /\ policy.version \in 0..MaxPolicyVersion
        /\ target \in SUBSET Commits /\ task.revision \in Revisions
    BY <1>2, GitAssumption DEF OwnType, GitType, Previews, RowStates
  <2>2. QED  BY <1>1, <2>1 DEF RowRecord
<1>4. row' = [row EXCEPT ![i] = x] /\ row[i].state = "none"
  BY <1>1 DEF Prepare
<1>5. /\ row' \in [Integrations -> RowRecord] /\ row'[i] = x
      /\ \A j \in Integrations \ {i} : row'[j] = row[j]
  BY <1>2, <1>3, <1>4 DEF ServerType
<1>6. row[i].version = 0 /\ i \notin Published /\ i \notin orphaned
  BY <1>4, RowFacts DEF VersionsOf, RowTrue, Quiet, Abandoned
<1>7. UNCHANGED <<owner, merge, target, remote, pushed, pullRequests, branches,
                  handler, exporting, orphaned>> /\ UNCHANGED Published
  BY DEF Prepare, git, Published
<1>8. Grows
  BY <1>3, <1>4, <1>5, <1>6, <1>7 DEF Grows
<1>9. OwnType' /\ GitType' /\ ServerType'
  BY <1>2, <1>5, <1>7 DEF OwnType, GitType, ServerType, owner
<1>10. \A g \in Handlers : handler[g].pc # "idle" => Of(g) # i
  BY <1>6, HandlerFacts DEF HandlerTrue
<1>11. ASSUME NEW g \in Handlers
       PROVE  HandlerTrue(g)'
  <2>1. handler[g].pc \in ExecutionSteps =>
           Of(g) \in Integrations \ {i} /\ Of(g) \notin orphaned
    BY <1>10, HandlerFacts, StepsDiffer DEF HandlerTrue
  <2>2. handler'[g] = handler[g]
    BY <1>7
  <2>3. QED  BY <1>5, <1>7, <1>8, <1>9, <2>1, <2>2, HandlerWaits
<1>12. ASSUME NEW j \in Integrations
       PROVE  RowTrue(j)' /\ Attended(j)' /\ Alone(j)' /\ Abandoned(j)'
  <2>1. RowTrue(j) /\ Attended(j) /\ Alone(j) /\ Abandoned(j)
    BY RowFacts
  <2>2. CASE j = i
    <3>1. RowTrue(i)'
      BY <1>3, <1>5, <1>6, <1>7 DEF RowTrue, VersionsOf, Previews, Quiet
    <3>2. \A g \in Handlers : ~Executing(g, i)'
      BY <1>7, <1>10, StepsDiffer DEF Executing, Of
    <3>3. row'[i].state # "integrating"
      BY <1>3, <1>5 DEF Previews
    <3>4. QED  BY <1>6, <1>7, <2>2, <3>1, <3>2, <3>3 DEF Attended, Alone, Abandoned
  <2>3. CASE j # i
    <3>1. row'[j] = row[j]
      BY <1>5, <2>3
    <3>2. RowTrue(j)'
      BY <1>7, <1>8, <2>1, <3>1, RowWaits DEF RowTrue
    <3>3. \A g \in Handlers : Executing(g, j)' <=> Executing(g, j)
      BY <1>7 DEF Executing, Of
    <3>4. QED  BY <1>7, <2>1, <3>1, <3>2, <3>3 DEF Attended, Alone, Abandoned
  <2>4. QED  BY <2>2, <2>3
<1>13. \A r \in Revisions : MergeTrue(r)'
  BY <1>7, <1>8, MergeWaits
<1>14. QED  BY <1>8, <1>9, <1>11, <1>12, <1>13, TypeNext DEF Inv

\* The process dies: nobody is at work any more, no row reads integrating.
LEMMA RestartStep ==
    ASSUME Inv, ProcessDies, UNCHANGED <<owner, git>>, Grows,
           row' \in [Integrations -> RowRecord], OwnType',
           \A i \in Integrations : RowTrue(i)' /\ row'[i].state # "integrating",
           \A r \in Revisions : MergeTrue(r)'
    PROVE  Inv'
<1>1. /\ handler' = [h \in Handlers |-> Idle] /\ exporting' = FALSE /\ orphaned' = {}
  BY DEF ProcessDies
<1>2. GitType /\ GitType'
  BY TypeParts DEF Inv, GitType, git
<1>3. handler' \in [Handlers -> HandlerRecord] /\ \A h \in Handlers : handler'[h].pc = "idle"
  BY <1>1, IdleType
<1>4. TypeOK'
  <2>1. ServerType'
    BY <1>1, <1>3 DEF ServerType
  <2>2. QED  BY <1>2, <2>1, TypeNext
<1>5. \A h \in Handlers : HandlerTrue(h)'
  BY <1>3 DEF HandlerTrue
<1>6. \A i \in Integrations, h \in Handlers : ~Executing(h, i)'
  BY <1>3, StepsDiffer DEF Executing
<1>7. \A i \in Integrations : Attended(i)' /\ Alone(i)' /\ Abandoned(i)'
  BY <1>1, <1>6 DEF Attended, Alone, Abandoned
<1>8. QED  BY <1>4, <1>5, <1>7 DEF Inv

\* Reconciliation moves the rows in progress on, and no other.
LEMMA ReconciledRow ==
    ASSUME NEW rows \in [Integrations -> RowRecord], NEW i \in Integrations,
           rows[i].state = "integrating" => rows[i].version = 2
    PROVE  /\ Reconciled(rows)[i] \in RowRecord
           /\ rows[i].state # "integrating" => Reconciled(rows)[i] = rows[i]
           /\ rows[i].state = "integrating" =>
                 /\ Reconciled(rows)[i].state = "reconciliation_required"
                 /\ Reconciled(rows)[i].version = 3
                 /\ Reconciled(rows)[i].source = rows[i].source
                 /\ Reconciled(rows)[i].mode = rows[i].mode
                 /\ Reconciled(rows)[i].base = rows[i].base
<1>1. PICK r : r = rows[i] /\ r \in RowRecord
  OBVIOUS
<1>2. PICK x : x = [r EXCEPT !.state = "reconciliation_required", !.version = r.version + 1]
  OBVIOUS
<1>3. Reconciled(rows)[i] = IF r.state = "integrating" THEN x ELSE r
  BY <1>1, <1>2 DEF Reconciled
<1>4. ASSUME r.state = "integrating"
      PROVE  /\ x \in RowRecord /\ x.state = "reconciliation_required" /\ x.version = 3
             /\ x.source = r.source /\ x.mode = r.mode /\ x.base = r.base
  <2>1. r.version = 2 /\ r.version + 1 = 3
    BY <1>1, <1>4
  <2>2. "reconciliation_required" \in RowStates /\ 3 \in 0..4
    BY DEF RowStates
  <2>3. QED  BY <1>1, <1>2, <2>1, <2>2 DEF RowRecord
<1>5. QED  BY <1>1, <1>3, <1>4

LEMMA ReconciledRows ==
    ASSUME NEW rows \in [Integrations -> RowRecord],
           \A i \in Integrations : rows[i].state = "integrating" => rows[i].version = 2
    PROVE  Reconciled(rows) \in [Integrations -> RowRecord]
<1>1. \A i \in Integrations : Reconciled(rows)[i] \in RowRecord
  BY ReconciledRow
<1>2. PICK f : f = [i \in Integrations |-> Reconciled(rows)[i]]
  OBVIOUS
<1>3. Reconciled(rows) = f
  BY <1>2 DEF Reconciled
<1>4. f \in [Integrations -> RowRecord]
  BY <1>1, <1>2
<1>5. QED  BY <1>3, <1>4

\* What the restart makes of a row that was not at rest, or was.
LEMMA ReconcilesTruly ==
    ASSUME Inv, UNCHANGED git, Grows, NEW i \in Integrations,
           \/ row[i].state # "integrating" /\ row'[i] = row[i]
           \/ row'[i].state = "reconciliation_required" /\ row'[i].version = 3
    PROVE  RowTrue(i)' /\ row'[i].state # "integrating"
<1>1. RowTrue(i) /\ UNCHANGED Published
  BY RowFacts DEF git, Published
<1>2. CASE row[i].state # "integrating" /\ row'[i] = row[i]
  BY <1>1, <1>2, RowWaits DEF RowTrue
<1>3. CASE row'[i].state = "reconciliation_required" /\ row'[i].version = 3
  BY <1>3 DEF RowTrue, VersionsOf, Quiet
<1>4. QED  BY <1>2, <1>3

LEMMA CrashAndRestartStep ==
    ASSUME Inv, CrashAndRestart
    PROVE  Inv' /\ Grows
<1>1. /\ ProcessDies /\ row' = Reconciled(row) /\ UNCHANGED <<owner, merge, git>>
  BY DEF CrashAndRestart
<1>2. OwnType /\ row \in [Integrations -> RowRecord] /\ OwnType'
  BY <1>1, TypeParts DEF Inv, ServerType, OwnType, owner
<1>3. \A i \in Integrations : row[i].state = "integrating" => row[i].version = 2
  BY RowFacts DEF VersionsOf
<1>4. row' \in [Integrations -> RowRecord]
  BY <1>1, <1>2, <1>3, ReconciledRows
<1>5. ASSUME NEW i \in Integrations
      PROVE  /\ row[i].state # "integrating" => row'[i] = row[i]
             /\ row[i].state = "integrating" =>
                   /\ row'[i].state = "reconciliation_required" /\ row'[i].version = 3
                   /\ row[i].version = 2 /\ row'[i].source = row[i].source
                   /\ row'[i].mode = row[i].mode /\ row'[i].base = row[i].base
  BY <1>1, <1>2, <1>3, ReconciledRow
<1>6. Grows
  BY <1>1, <1>5 DEF Grows, git
<1>7. \A i \in Integrations : RowTrue(i)' /\ row'[i].state # "integrating"
  BY <1>1, <1>5, <1>6, ReconcilesTruly
<1>8. \A r \in Revisions : MergeTrue(r)'
  BY <1>1, <1>6, MergeWaits
<1>9. QED  BY <1>1, <1>2, <1>4, <1>6, <1>7, <1>8, RestartStep

LEMMA CrashWhileSettlingStep ==
    ASSUME Inv, NEW h \in Handlers, CrashWhileSettling(h)
    PROVE  Inv' /\ Grows
<1>1. PICK i, state, rows : i = Of(h) /\ state = FinalState(i) /\ rows = Moved(i, state)
  OBVIOUS
<1>2. /\ handler[h].pc = "settle" /\ ProcessDies /\ row' = Reconciled(rows)
      /\ UNCHANGED <<owner, merge, git>> /\ UNCHANGED Published
  BY <1>1 DEF CrashWhileSettling, At, git, Published
<1>3. /\ i \in Integrations /\ row[i].state = "integrating" /\ row[i].version = 2
      /\ state \in {"integrated", "published"} /\ Landed(i)
  BY <1>1, <1>2, SettlesTruly
<1>4. /\ rows \in [Integrations -> RowRecord]
      /\ rows[i].state = state /\ rows[i].version = 3
      /\ rows[i].source = row[i].source /\ rows[i].mode = row[i].mode
      /\ rows[i].base = row[i].base
      /\ \A j \in Integrations \ {i} : rows[j] = row[j]
  <2>1. state \in RowStates /\ row[i].version < 4 /\ row[i].version + 1 = 3
    BY <1>3 DEF RowStates
  <2>2. QED  BY <1>1, <1>3, <2>1, MovedRow
<1>5. OwnType'
  BY <1>2, TypeParts DEF Inv, OwnType, owner
<1>6. ASSUME NEW j \in Integrations
      PROVE  rows[j].state = "integrating" => j # i /\ rows[j].version = 2
  BY <1>3, <1>4, RowFacts DEF VersionsOf
<1>7. row' \in [Integrations -> RowRecord]
  BY <1>2, <1>4, <1>6, ReconciledRows
<1>8. row'[i] = rows[i]
  BY <1>2, <1>3, <1>4, <1>6, ReconciledRow
<1>9. ASSUME NEW j \in Integrations \ {i}
      PROVE  /\ row[j].state # "integrating" => row'[j] = row[j]
             /\ row[j].state = "integrating" =>
                   /\ row'[j].state = "reconciliation_required" /\ row'[j].version = 3
                   /\ row[j].version = 2 /\ row'[j].source = row[j].source
                   /\ row'[j].mode = row[j].mode /\ row'[j].base = row[j].base
  BY <1>2, <1>4, <1>6, ReconciledRow
<1>10. Grows
  <2>1. /\ row'[i].version > row[i].version /\ row'[i].state # "none"
        /\ row'[i].source = row[i].source /\ row'[i].mode = row[i].mode
        /\ row'[i].base = row[i].base
    BY <1>3, <1>4, <1>8
  <2>2. QED  BY <1>2, <1>9, <2>1 DEF Grows, git
<1>11. ASSUME NEW j \in Integrations
       PROVE  RowTrue(j)' /\ row'[j].state # "integrating"
  <2>1. CASE j = i
    <3>1. Landed(i)'
      BY <1>3, <1>10, LandedStays
    <3>2. QED  BY <1>3, <1>4, <1>8, <2>1, <3>1 DEF RowTrue, VersionsOf, Quiet
  <2>2. CASE j # i
    BY <1>2, <1>9, <1>10, <2>2, ReconcilesTruly
  <2>3. QED  BY <2>1, <2>2
<1>12. \A r \in Revisions : MergeTrue(r)'
  BY <1>2, <1>10, MergeWaits
<1>13. QED  BY <1>2, <1>5, <1>7, <1>10, <1>11, <1>12, RestartStep

-----------------------------------------------------------------------------
(* The theorems.                                                           *)

LEMMA InitInv == Init => Inv
<1> SUFFICES ASSUME Init
             PROVE  Inv
  OBVIOUS
<1>1. /\ task = [revision |-> 1, done |-> FALSE]
      /\ merge = [r \in Revisions |-> "none"]
      /\ policy = [version |-> 1, mode |-> "prepare_only"]
      /\ row = [i \in Integrations |-> NoRow]
      /\ target = {} /\ remote = {} /\ branches = {} /\ pushed = {} /\ pullRequests = {}
      /\ handler = [h \in Handlers |-> Idle]
      /\ exporting = FALSE /\ orphaned = {}
  BY DEF Init
<1>2. NoRow \in RowRecord /\ NoRow.state = "none" /\ NoRow.version = 0
  BY GitAssumption DEF NoRow, RowRecord, RowStates, Modes, Revisions
<1>3. OwnType /\ GitType
  BY <1>1, GitAssumption DEF OwnType, GitType, Revisions, Modes
<1>4. ServerType /\ \A h \in Handlers : handler[h].pc = "idle"
  BY <1>1, <1>2, IdleType DEF ServerType
<1>5. \A i \in Integrations : row[i].state = "none" /\ row[i].version = 0
  BY <1>1, <1>2
<1>6. \A i \in Integrations : RowTrue(i)
  BY <1>1, <1>5 DEF RowTrue, VersionsOf, Published
<1>7. \A r \in Revisions : MergeTrue(r)
  BY <1>1 DEF MergeTrue
<1>8. \A h \in Handlers : HandlerTrue(h)
  BY <1>4 DEF HandlerTrue
<1>9. \A i \in Integrations, h \in Handlers : ~Executing(h, i)
  BY <1>4, StepsDiffer DEF Executing
<1>10. \A i \in Integrations : Attended(i) /\ Alone(i) /\ Abandoned(i)
  BY <1>1, <1>5, <1>9 DEF Attended, Alone, Abandoned
<1>11. QED  BY <1>3, <1>4, <1>6, <1>7, <1>8, <1>10, TypeParts DEF Inv

LEMMA RequestsStep ==
    ASSUME Inv, NEW h \in Handlers, Step(h)
    PROVE  Inv' /\ Grows
BY ExecuteBeginsStep, ExecuteRefusedStep, CreateResultStep, PublishLocallyStep,
   StaleOrDirtyStep, PushTargetStep, PushBranchStep, OpenPullRequestStep, GitFailsStep,
   CleanIntegrationStep, SettleStep, SettleRefusedStep, CrashWhileSettlingStep,
   CancelCleansStep, CancelSettlesStep, CancelRefusedStep
DEF Step

LEMMA ExportStep ==
    ASSUME Inv, ExportBegins \/ ExportEnds
    PROVE  Inv' /\ Grows
<1>1. UNCHANGED <<owner, merge, row, git, handler, orphaned>> /\ exporting' \in BOOLEAN
  BY DEF ExportBegins, ExportEnds
<1>2. QED  BY <1>1, OnlyExportMoves

LEMMA NextStep ==
    ASSUME Inv, Next
    PROVE  Inv' /\ Grows
<1>1. CASE \E r \in Revisions : TaskCompletes(r)
  BY <1>1, TaskCompletesStep
<1>2. CASE TaskReopens
  BY <1>2, TaskReopensStep
<1>3. CASE \E mode \in OwnerModes : UpdatePolicy(mode)
  BY <1>3, UpdatePolicyStep
<1>4. CASE \E c \in OwnerCommits : OwnerCommitsLocally(c) \/ OwnerPushes(c)
  BY <1>4, OwnerCommitsLocallyStep, OwnerPushesStep
<1>5. CASE \E i \in Integrations, state \in Previews : Prepare(i, state)
  BY <1>5, PrepareStep
<1>6. CASE \E h \in Handlers :
             Step(h) \/ \E i \in Integrations : ExecuteStart(h, i) \/ CancelStart(h, i)
  BY <1>6, RequestsStep, ExecuteStartStep, CancelStartStep
<1>7. CASE ExportBegins \/ ExportEnds
  BY <1>7, ExportStep
<1>8. CASE CrashAndRestart
  BY <1>8, CrashAndRestartStep
<1>9. QED  BY <1>1, <1>2, <1>3, <1>4, <1>5, <1>6, <1>7, <1>8 DEF Next

LEMMA StutterStep ==
    ASSUME Inv, UNCHANGED vars
    PROVE  Inv' /\ Grows
<1>1. UNCHANGED <<owner, merge, row, git, handler, orphaned>> /\ UNCHANGED exporting
  BY DEF vars
<1>2. exporting' \in BOOLEAN
  BY <1>1, TypeParts DEF Inv, ServerType
<1>3. QED  BY <1>1, <1>2, OnlyExportMoves

\* The invariant the other theorems rest on, in every reachable state.
THEOREM Invariance == Spec => []Inv
<1>1. Init => Inv
  BY InitInv
<1>2. Inv /\ [Next]_vars => Inv'
  BY NextStep, StutterStep
<1>3. QED  BY <1>1, <1>2, PTL DEF Spec

\* Every variable holds a value of its kind.
THEOREM TypeCorrect == Spec => []TypeOK
<1>1. Inv => TypeOK
  BY DEF Inv
<1>2. QED  BY <1>1, Invariance, PTL

\* The rows and the merge requests tell the truth about Git: a row that reads
\* prepared, conflict or failed has published nothing, one that reads
\* integrated or published has.
THEOREM RowsTrue == Spec => []RowsAreTrue
<1>1. Inv => RowsAreTrue
  BY DEF Inv, RowTrue, MergeTrue, Landed, Quiet, Published, RowsAreTrue
<1>2. QED  BY <1>1, Invariance, PTL

\* An integration is executed by one request exactly while its row reads
\* integrating, unless an export refused the write that would have ended it.
THEOREM OneRequest == Spec => []ExecutionHasOneRequest
<1>1. ASSUME Inv, NEW i \in Integrations
      PROVE  IF row[i].state = "integrating" /\ i \notin orphaned
             THEN Cardinality({h \in Handlers : Executing(h, i)}) = 1
             ELSE {h \in Handlers : Executing(h, i)} = {}
  <2>1. Attended(i) /\ Alone(i)
    BY <1>1, RowFacts
  <2>2. CASE row[i].state = "integrating" /\ i \notin orphaned
    <3>1. PICK h \in Handlers : Executing(h, i)
      BY <2>1, <2>2 DEF Attended
    <3>2. {g \in Handlers : Executing(g, i)} = {h}
      BY <2>1, <3>1 DEF Alone
    <3>3. QED  BY <2>2, <3>2, FS_Singleton
  <2>3. CASE ~(row[i].state = "integrating" /\ i \notin orphaned)
    <3>1. \A h \in Handlers : ~Executing(h, i)
      BY <1>1, <2>3, HandlerFacts, StepsDiffer DEF HandlerTrue, Executing
    <3>2. QED  BY <2>3, <3>1
  <2>4. QED  BY <2>2, <2>3
<1>2. Inv => ExecutionHasOneRequest
  BY <1>1 DEF ExecutionHasOneRequest
<1>3. QED  BY <1>2, Invariance, PTL

\* No step drops a commit from the target branch, here or on the remote.
THEOREM NothingLost == Spec => NothingIsLost
<1>1. Inv /\ [Next]_vars => [target \subseteq target' /\ remote \subseteq remote']_vars
  BY NextStep DEF Grows
<1>2. QED  BY <1>1, Invariance, PTL DEF Spec, NothingIsLost

\* A row only moves on to a higher version, and a plan keeps the revision, the
\* mode and the target it was made for.
THEOREM PlansStay == Spec => RowsGrow
<1>1. Inv /\ [Next]_vars => [Grows]_vars
  BY NextStep
<1>2. QED  BY <1>1, Invariance, PTL DEF Spec, RowsGrow
===============================================================================
