-------------------------- MODULE TaskPipeline_proofs --------------------------
(* Proofs about TaskPipeline for any tasks, dependencies, commands and       *)
(* revisions, and for any number of stopped commands.                        *)
(*                                                                           *)
(* Several handlers are two steps in one stretch of the control plane: a     *)
(* command settles or a candidate is accepted and the pipelines are          *)
(* continued, or they are continued and a command is claimed.  The invariant *)
(* is therefore a predicate of tasks tk, commands cm, validations va,        *)
(* reviews re and candidates cd (Good), so that it can be shown of the state *)
(* between those two steps.                                                  *)
EXTENDS TaskPipeline, TLAPS

TaskRecord ==
  [status : Status, worker : Command \cup {None}, revision : Revision,
   requested : 0..MaxRevision, validated : BOOLEAN, merging : BOOLEAN]
CommandRecord ==
  [state : {"absent"} \cup Unsettled \cup Settled,
   task : Task \cup {None}, phase : Phase \cup {"none"},
   resumed : BOOLEAN, base : 0..MaxRevision,
   actor : Command \cup {None}, session : BOOLEAN,
   outcome : 0..MaxRevision, head : 0..MaxRevision,
   report : {"none", "pending", "done"}]
CandidateRecord ==
  [state : {"none", "pending", "ineligible", "accepted", "rejected"}, base : 0..MaxRevision]
Validations == [Task -> [Revision -> {"none", "passed", "failed"}]]
Reviews == [Task -> [Revision -> {"none", "approved", "refused"}]]

(* A command x with its candidate: it is about a task, it has a base from    *)
(* its acceptance on, an outcome when its phase ended, and a commit when one *)
(* is to be recorded or to be adopted.                                       *)
CommandTrue(x, cand) ==
  /\ x.state = "absent" => x = NoCommand
  /\ x.state # "absent" => x.task \in Task /\ x.phase \in Phase
  /\ x.state \in {"queued", "claimed"} =>
       x.base = 0 /\ x.outcome = 0 /\ x.head = 0 /\ x.report = "none"
  /\ x.state \in {"running", "ending", "fenced"} => x.base # 0
  /\ x.state \in {"ending", "succeeded"} => x.outcome # 0
  /\ x.report # "none" => x.head # 0 /\ x.phase = "implementation"
  /\ cand.state = "pending" => x.head # 0

(* The flags of a task y, whose validations are v. *)
FlagsTrue(y, v) ==
  /\ y.validated => v[y.revision] = "passed"
  /\ y.requested \in {0, y.revision}

TestedTrue(cm, va, c) ==
  c \in Automatic /\ c.phase = "review" /\ cm[c].state # "absent" =>
    va[c.task][c.revision] # "none"

(* The owner neither resumes nor replaces nor retries; does not complete a   *)
(* task himself; adopts no late evidence.                                    *)
NoReplay == Moves \cap {"replace", "resume", "retry"} = {}
NoCompletion == NoReplay /\ "complete" \notin Moves
NoRecovery == NoReplay /\ "recover" \notin Moves

Single(cm) ==
  \A c, d \in Command :
    /\ cm[c].state \in Unsettled /\ cm[d].state \in Unsettled
    /\ cm[c].task = cm[d].task
    => c = d

(* A run x of task y works on the revision of the task until its own commit  *)
(* is that revision, and what it recorded is about that revision.            *)
RunTrue(x, y) ==
  x.state = "running" =>
    /\ x.report # "done" => x.base = y.revision
    /\ x.outcome # 0 /\ (x.phase = "implementation" => y.requested = y.revision) =>
         x.outcome = y.revision

(* Commands that may yet write into their task. *)
Live == {"queued", "claimed", "running"}

DoneTrue(y, v, r) ==
  y.status = "done" =>
    /\ v[y.revision] = "passed" /\ y.validated
    /\ r[y.revision] = "approved" /\ y.merging
DoneRests(y, cm, t) ==
  y.status = "done" => \A c \in Command : cm[c].task = t => cm[c].state \notin Live

Typed(tk, cm, va, re, cd) ==
  /\ tk \in [Task -> TaskRecord]
  /\ cm \in [Command -> CommandRecord]
  /\ va \in Validations /\ re \in Reviews
  /\ cd \in [Command -> CandidateRecord]

Good(tk, cm, va, re, cd) ==
  /\ Typed(tk, cm, va, re, cd)
  /\ \A c \in Command : CommandTrue(cm[c], cd[c]) /\ TestedTrue(cm, va, c)
  /\ \A t \in Task : FlagsTrue(tk[t], va[t])
  /\ NoReplay => Single(cm)
  /\ NoRecovery => \A c \in Command : RunTrue(cm[c], tk[cm[c].task])
  /\ NoCompletion => \A t \in Task : DoneTrue(tk[t], va[t], re[t]) /\ DoneRests(tk[t], cm, t)

Inv ==
  /\ Good(task, command, validation, review, candidate)
  /\ decision \in [Task -> BOOLEAN]
  /\ commits \in [Task -> Revision]

-----------------------------------------------------------------------------
(* The kinds of states.                                                      *)

LEMMA Kinds ==
  /\ Live \subseteq Unsettled /\ Unsettled \cap Settled = {}
  /\ "absent" \notin Unsettled \cup Settled
  /\ {"queued", "claimed", "running", "ending", "fenced"} = Unsettled
  /\ {"succeeded", "failed", "paused", "cancelled", "reconciliation_required"} = Settled
  /\ {"ending", "fenced"} \cap Live = {} /\ {"queued", "claimed", "running"} = Live
BY DEF Live, Unsettled, Settled

LEMMA TypedIsTypeOK ==
  TypeOK <=> /\ Typed(task, command, validation, review, candidate)
             /\ decision \in [Task -> BOOLEAN] /\ commits \in [Task -> Revision]
BY DEF TypeOK, Typed, TaskRecord, CommandRecord, CandidateRecord, Validations, Reviews

LEMMA CommandFacts ==
  ASSUME NEW tk, NEW cm, NEW va, NEW re, NEW cd, Good(tk, cm, va, re, cd), NEW c \in Command
  PROVE  /\ cm[c] \in CommandRecord /\ cd[c] \in CandidateRecord
         /\ CommandTrue(cm[c], cd[c])
         /\ cm[c].state # "absent" => cm[c].task \in Task /\ cm[c].phase \in Phase
         /\ cm[c].state = "absent" => cm[c] = NoCommand /\ cm[c].task = None
BY DEF Good, Typed, CommandTrue, NoCommand

LEMMA TaskFacts ==
  ASSUME NEW tk, NEW cm, NEW va, NEW re, NEW cd, Good(tk, cm, va, re, cd), NEW t \in Task
  PROVE  /\ tk[t] \in TaskRecord /\ FlagsTrue(tk[t], va[t])
         /\ tk[t].revision \in Revision
BY DEF Good, Typed, TaskRecord

(* Nobody else is at work on the task of a command that is. *)
LEMMA NobodyElse ==
  ASSUME NEW cm, Single(cm), NEW c \in Command, cm[c].state \in Unsettled
  PROVE  \A d \in Command \ {c} : cm[d].task = cm[c].task => cm[d].state \notin Unsettled
BY DEF Single

-----------------------------------------------------------------------------
(* One command c takes a step, on its task t.                                *)

(* Whoever was at work on the task, c is now the only one. *)
StaysSingle(cm, c, x) ==
  x.state \in Unsettled =>
    \/ cm[c].state \in Unsettled /\ cm[c].task = x.task
    \/ \A d \in Command : cm[d].task = x.task => cm[d].state \notin Unsettled

(* A task that is done after the step was not touched, or was completed.     *)
StaysDone(tk, cm, va, re, va2, re2, c, t, x, y) ==
  y.status = "done" =>
    \/ y = tk[t] /\ va2 = va /\ re2 = re /\ x.state \notin Live
    \/ /\ DoneTrue(y, va2[t], re2[t])
       /\ cm[c].state = "running" /\ cm[c].task = t /\ x.state \notin Live
    \/ tk[t].status = "done" /\ cm[c].state \in Live /\ cm[c].task = t

(* Command c becomes x and its task t becomes y; the evidence of t may grow. *)
CommandStep(tk, cm, va, re, cd, c, t, x, y, tk2, cm2, va2, re2, cd2) ==
  /\ Good(tk, cm, va, re, cd)
  /\ c \in Command /\ t \in Task
  /\ x \in CommandRecord /\ y \in TaskRecord
  /\ Typed(tk2, cm2, va2, re2, cd2)
  /\ tk2[t] = y /\ \A u \in Task \ {t} : tk2[u] = tk[u] /\ va2[u] = va[u] /\ re2[u] = re[u]
  /\ cm2[c] = x /\ \A d \in Command \ {c} : cm2[d] = cm[d] /\ cd2[d] = cd[d]
  /\ \A r \in Revision : va[t][r] # "none" => va2[t][r] # "none"
  /\ x.task = t /\ x.state # "absent" /\ (cm[c].state # "absent" \/ c \notin Automatic)
  /\ CommandTrue(x, cd2[c]) /\ FlagsTrue(y, va2[t])
  /\ NoReplay => StaysSingle(cm, c, x)
  /\ NoRecovery => RunTrue(x, y)
  /\ NoRecovery => \/ y.revision = tk[t].revision /\ y.requested = tk[t].requested
                   \/ cm[c].state = "running" /\ cm[c].task = t
  /\ NoCompletion => StaysDone(tk, cm, va, re, va2, re2, c, t, x, y)

LEMMA CommandMoves ==
  ASSUME NEW tk, NEW cm, NEW va, NEW re, NEW cd, NEW c, NEW t, NEW x, NEW y,
         NEW tk2, NEW cm2, NEW va2, NEW re2, NEW cd2,
         CommandStep(tk, cm, va, re, cd, c, t, x, y, tk2, cm2, va2, re2, cd2)
  PROVE  Good(tk2, cm2, va2, re2, cd2)
<1> USE DEF CommandStep
<1>1. tk \in [Task -> TaskRecord] /\ cm \in [Command -> CommandRecord]
  BY DEF Good, Typed
<1>2. /\ tk2 \in [Task -> TaskRecord] /\ tk2[t] = y /\ \A u \in Task \ {t} : tk2[u] = tk[u]
      /\ cm2 \in [Command -> CommandRecord] /\ cm2[c] = x
      /\ \A d \in Command \ {c} : cm2[d] = cm[d]
  BY <1>1 DEF Typed
<1>3. Typed(tk2, cm2, va2, re2, cd2)
  OBVIOUS
<1>4. \A d \in Command : CommandTrue(cm2[d], cd2[d])
  BY <1>2, CommandFacts
<1>5. ASSUME NEW d \in Command
      PROVE  TestedTrue(cm2, va2, d)
  <2>1. TestedTrue(cm, va, d)
    BY DEF Good
  <2>2. d \in Automatic => d.revision \in Revision /\ d.task \in Task
    BY DEF Automatic
  <2>3. cm2[d].state # "absent" /\ d \in Automatic => cm[d].state # "absent"
    BY <1>2
  <2>4. QED  BY <2>1, <2>2, <2>3 DEF TestedTrue
<1>6. \A u \in Task : FlagsTrue(tk2[u], va2[u])
  BY <1>2, TaskFacts
<1>7. ASSUME NoReplay
      PROVE  Single(cm2)
  <2>1. Single(cm) /\ StaysSingle(cm, c, x)
    BY <1>7 DEF Good
  <2>2. ASSUME NEW d \in Command \ {c}, x.state \in Unsettled, cm[d].task = t
        PROVE  cm[d].state \notin Unsettled
    BY <2>1, <2>2 DEF StaysSingle, Single
  <2>3. QED  BY <1>2, <2>1, <2>2 DEF Single
<1>8. ASSUME NoRecovery, NEW d \in Command
      PROVE  RunTrue(cm2[d], tk2[cm2[d].task])
  <2>1. CASE d = c
    BY <1>2, <1>8, <2>1
  <2>2. CASE d # c /\ cm[d].state = "running"
    <3>1. RunTrue(cm[d], tk[cm[d].task]) /\ Single(cm)
      BY <1>8 DEF Good, NoRecovery
    <3>2. cm[d].task \in Task /\ cm2[d] = cm[d]
      BY <1>2, <2>2, CommandFacts
    <3>3. CASE cm[d].task # t
      BY <1>2, <3>1, <3>2, <3>3
    <3>4. CASE cm[d].task = t
      <4>1. ~(cm[c].state = "running" /\ cm[c].task = t)
        BY <2>2, <3>1, <3>4, Kinds DEF Single
      <4>2. y.revision = tk[t].revision /\ y.requested = tk[t].requested
        BY <1>8, <4>1
      <4>3. QED  BY <1>2, <3>1, <3>2, <3>4, <4>2 DEF RunTrue
    <3>5. QED  BY <3>3, <3>4
  <2>3. CASE d # c /\ cm[d].state # "running"
    BY <1>2, <2>3 DEF RunTrue
  <2>4. QED  BY <2>1, <2>2, <2>3
<1>9. ASSUME NoCompletion, NEW u \in Task
      PROVE  DoneTrue(tk2[u], va2[u], re2[u]) /\ DoneRests(tk2[u], cm2, u)
  <2>1. /\ DoneTrue(tk[u], va[u], re[u]) /\ DoneRests(tk[u], cm, u)
        /\ Single(cm) /\ StaysDone(tk, cm, va, re, va2, re2, c, t, x, y)
    BY <1>9 DEF Good, NoCompletion
  <2>2. CASE u # t
    <3>1. tk2[u] = tk[u] /\ va2[u] = va[u] /\ re2[u] = re[u]
      BY <1>2, <2>2
    <3>2. \A d \in Command : cm2[d].task = u => cm2[d] = cm[d]
      BY <1>2, <2>2
    <3>3. QED  BY <2>1, <3>1, <3>2 DEF DoneRests
  <2>3. CASE u = t /\ y.status = "done"
    <3>1. ~(tk[t].status = "done" /\ cm[c].state \in Live /\ cm[c].task = t)
      BY <2>1, <2>3 DEF DoneRests
    <3>2. CASE y = tk[t] /\ va2 = va /\ re2 = re /\ x.state \notin Live
      <4>1. tk2[u] = tk[u] /\ va2[u] = va[u] /\ re2[u] = re[u]
        BY <1>2, <2>3, <3>2
      <4>2. \A d \in Command : cm2[d].task = u => cm2[d] = cm[d] \/ cm2[d].state \notin Live
        BY <1>2, <3>2
      <4>3. QED  BY <2>1, <4>1, <4>2 DEF DoneRests
    <3>3. CASE /\ DoneTrue(y, va2[t], re2[t])
               /\ cm[c].state = "running" /\ cm[c].task = t /\ x.state \notin Live
      <4>1. \A d \in Command \ {c} : cm[d].task = t => cm[d].state \notin Live
        BY <2>1, <3>3, NobodyElse, Kinds
      <4>2. \A d \in Command : cm2[d].task = t => cm2[d].state \notin Live
        BY <1>2, <3>3, <4>1
      <4>3. QED  BY <1>2, <2>3, <3>3, <4>2 DEF DoneRests
    <3>4. QED  BY <2>1, <2>3, <3>1, <3>2, <3>3 DEF StaysDone
  <2>4. CASE u = t /\ y.status # "done"
    BY <1>2, <2>4 DEF DoneTrue, DoneRests
  <2>5. QED  BY <2>2, <2>3, <2>4
<1>10. QED  BY <1>3, <1>4, <1>5, <1>6, <1>7, <1>8, <1>9 DEF Good

-----------------------------------------------------------------------------
(* What a step may do.                                                       *)

(* The course of a command. *)
Passes(x0, x) ==
  \/ /\ x.state = x0.state /\ x.base = x0.base
     /\ x.outcome = x0.outcome \/ (x0.state = "running" /\ x.outcome # 0)
  \/ /\ x.outcome = x0.outcome
     /\ \/ {x0.state, x.state} \subseteq {"absent", "queued", "claimed"} /\ x.base = x0.base
        \/ x0.state = "claimed" /\ x.state \in {"running", "failed"} /\ x.base # 0
        \/ /\ x.base = x0.base
           /\ \/ x0.state = "claimed" /\ x.state = "reconciliation_required"
              \/ x0.state = "running" /\ x.state \in {"ending", "fenced"}
              \/ x0.state \in {"running", "ending", "fenced"} /\ x.state \in Settled \ {"succeeded"}
              \/ x0.state = "ending" /\ x.state = "succeeded"
              \/ x0.state = "reconciliation_required" /\ x.state = "cancelled"

(* A revision comes from the commit of a running phase, or of a candidate.   *)
RevisionFrom(c, t, revision) ==
  /\ command[c].task = t /\ command[c].head = revision
  /\ \/ command[c].state = "running" /\ command[c].report = "pending"
     \/ /\ candidate[c].state = "pending" /\ candidate'[c].state = "accepted"
        /\ "recover" \in Moves

StepTrue ==
  /\ \A c \in Command :
       /\ Passes(command[c], command'[c])
       /\ command[c].state = "running" /\ command'[c].state = "ending" =>
            PhaseOutcomeRecorded(c) /\ task'[command[c].task].revision = task[command[c].task].revision
  /\ \A t \in Task : task'[t].revision # task[t].revision =>
       \E c \in Command : RevisionFrom(c, t, task'[t].revision)

(* One command c acts on its task t in one step of the control plane. *)
LEMMA CommandActs ==
  ASSUME Inv, NEW c \in Command, NEW t \in Task, NEW x \in CommandRecord, NEW y \in TaskRecord,
         command' = [command EXCEPT ![c] = x], task' = [task EXCEPT ![t] = y],
         validation' \in Validations, review' \in Reviews,
         candidate' \in [Command -> CandidateRecord],
         decision' \in [Task -> BOOLEAN], commits' \in [Task -> Revision],
         \A d \in Command \ {c} : candidate'[d] = candidate[d],
         \A u \in Task \ {t} : validation'[u] = validation[u] /\ review'[u] = review[u],
         \A r \in Revision : validation[t][r] # "none" => validation'[t][r] # "none",
         x.task = t, x.state # "absent", command[c].state # "absent" \/ c \notin Automatic,
         CommandTrue(x, candidate'[c]), FlagsTrue(y, validation'[t]),
         NoReplay => StaysSingle(command, c, x),
         NoRecovery => RunTrue(x, y),
         \/ y.revision = task[t].revision /\ y.requested = task[t].requested
         \/ command[c].state = "running" /\ command[c].task = t,
         NoCompletion =>
           StaysDone(task, command, validation, review, validation', review', c, t, x, y),
         Passes(command[c], x),
         command[c].state = "running" /\ x.state = "ending" =>
           PhaseOutcomeRecorded(c) /\ y.revision = task[t].revision,
         y.revision # task[t].revision => RevisionFrom(c, t, y.revision)
  PROVE  Inv' /\ StepTrue
<1>1. /\ Good(task, command, validation, review, candidate)
      /\ task \in [Task -> TaskRecord] /\ command \in [Command -> CommandRecord]
  BY DEF Inv, Good, Typed
<1>2. /\ task'[t] = y /\ \A u \in Task \ {t} : task'[u] = task[u]
      /\ command'[c] = x /\ \A d \in Command \ {c} : command'[d] = command[d]
  BY <1>1
<1>3. Inv'
  <2>1. PICK tk2, cm2, va2, re2, cd2 :
           /\ tk2 = task' /\ cm2 = command'
           /\ va2 = validation' /\ re2 = review' /\ cd2 = candidate'
    OBVIOUS
  <2>2. /\ tk2 \in [Task -> TaskRecord] /\ cm2 \in [Command -> CommandRecord]
        /\ tk2[t] = y /\ \A u \in Task \ {t} : tk2[u] = task[u]
        /\ cm2[c] = x /\ \A d \in Command \ {c} : cm2[d] = command[d]
    BY <1>1, <2>1
  <2>3. Good(tk2, cm2, va2, re2, cd2)
    <3>1. /\ va2 \in Validations /\ re2 \in Reviews /\ cd2 \in [Command -> CandidateRecord]
          /\ \A d \in Command \ {c} : cd2[d] = candidate[d]
          /\ \A u \in Task \ {t} : va2[u] = validation[u] /\ re2[u] = review[u]
          /\ \A r \in Revision : validation[t][r] # "none" => va2[t][r] # "none"
          /\ CommandTrue(x, cd2[c]) /\ FlagsTrue(y, va2[t])
          /\ NoCompletion => StaysDone(task, command, validation, review, va2, re2, c, t, x, y)
      BY <2>1
    <3>2. CommandStep(task, command, validation, review, candidate, c, t, x, y,
                      tk2, cm2, va2, re2, cd2)
      BY <1>1, <2>2, <3>1 DEF CommandStep, Typed
    <3>3. QED  BY <3>2, CommandMoves
  <2>4. Good(task, command, validation, review, candidate)'
    BY <2>1, <2>3
  <2>5. QED  BY <2>4 DEF Inv
<1>4. ASSUME NEW d \in Command
      PROVE  /\ Passes(command[d], command'[d])
             /\ command[d].state = "running" /\ command'[d].state = "ending" =>
                  /\ PhaseOutcomeRecorded(d)
                  /\ task'[command[d].task].revision = task[command[d].task].revision
  <2>1. CASE d = c
    <3>1. command[c].state = "running" /\ x.state = "ending" =>
             command[c].task \in Task
      BY <1>1, CommandFacts
    <3>2. QED  BY <1>2, <2>1, <3>1
  <2>2. CASE d # c
    BY <1>2, <2>2 DEF Passes
  <2>3. QED  BY <2>1, <2>2
<1>5. \A u \in Task : task'[u].revision # task[u].revision =>
         \E d \in Command : RevisionFrom(d, u, task'[u].revision)
  BY <1>2
<1>6. QED  BY <1>3, <1>4, <1>5 DEF StepTrue

(* A step that only moves the command on: the task, the evidence and the     *)
(* candidates are left alone. *)
LEMMA OnlyCommandMoves ==
  ASSUME Inv, NEW c \in Command, NEW x \in CommandRecord,
         command' = [command EXCEPT ![c] = x],
         UNCHANGED <<task, evidence, candidate>>, commits' \in [Task -> Revision],
         command[c].state # "absent", x.state # "absent", x.task = command[c].task,
         CommandTrue(x, candidate[c]),
         x.state \in Unsettled => command[c].state \in Unsettled,
         x.state \in Live => command[c].state \in Live,
         NoRecovery => RunTrue(x, task[x.task]),
         Passes(command[c], x),
         ~(command[c].state = "running" /\ x.state = "ending")
  PROVE  Inv' /\ StepTrue
<1>1. Good(task, command, validation, review, candidate)
  BY DEF Inv
<1>2. PICK t \in Task : t = command[c].task
  BY <1>1, CommandFacts
<1>3. PICK y \in TaskRecord : y = task[t]
  BY <1>1, TaskFacts
<1>4. /\ validation \in Validations /\ review \in Reviews
      /\ candidate \in [Command -> CandidateRecord] /\ task \in [Task -> TaskRecord]
      /\ decision \in [Task -> BOOLEAN]
  BY DEF Inv, Good, Typed
<1>5. /\ task' = [task EXCEPT ![t] = y]
      /\ validation' = validation /\ review' = review /\ decision' = decision
      /\ candidate' = candidate
  BY <1>3, <1>4 DEF evidence
<1>6. FlagsTrue(y, validation[t])
  BY <1>1, <1>3, TaskFacts
<1>7. NoReplay => StaysSingle(command, c, x)
  BY DEF StaysSingle
<1>8. StaysDone(task, command, validation, review, validation', review', c, t, x, y)
  BY <1>2, <1>3, <1>5 DEF StaysDone
<1>9. NoRecovery => RunTrue(x, y)
  BY <1>2, <1>3
<1>10. QED
  BY <1>1, <1>2, <1>3, <1>4, <1>5, <1>6, <1>7, <1>8, <1>9, CommandActs

LEMMA Facts ==
  ASSUME Inv
  PROVE  /\ Good(task, command, validation, review, candidate)
         /\ task \in [Task -> TaskRecord] /\ command \in [Command -> CommandRecord]
         /\ validation \in Validations /\ review \in Reviews
         /\ candidate \in [Command -> CandidateRecord]
         /\ decision \in [Task -> BOOLEAN] /\ commits \in [Task -> Revision]
         /\ NoReplay => Single(command)
BY DEF Inv, Good, Typed

(* A command as it may be looked at. *)
LEMMA OneCommand ==
  ASSUME Inv, NEW c \in Command
  PROVE  /\ command[c] \in CommandRecord /\ CommandTrue(command[c], candidate[c])
         /\ command[c].state # "absent" =>
              /\ command[c].task \in Task /\ command[c].phase \in Phase
              /\ task[command[c].task] \in TaskRecord
              /\ task[command[c].task].revision \in Revision
              /\ FlagsTrue(task[command[c].task], validation[command[c].task])
         /\ NoRecovery => RunTrue(command[c], task[command[c].task])
BY CommandFacts, TaskFacts DEF Inv, Good

-----------------------------------------------------------------------------
(* The daemon.                                                               *)

LEMMA LoseClaimStep ==
  ASSUME Inv, NEW c \in Command, LoseClaim(c)
  PROVE  Inv' /\ StepTrue
<1>1. /\ command[c] \in CommandRecord /\ CommandTrue(command[c], candidate[c])
      /\ command \in [Command -> CommandRecord] /\ commits \in [Task -> Revision]
  BY OneCommand, Facts
<1>2. PICK x : x = [command[c] EXCEPT !.state = "reconciliation_required"]
  OBVIOUS
<1>3. /\ command' = [command EXCEPT ![c] = x] /\ command[c].state = "claimed"
      /\ UNCHANGED <<task, evidence, commits, candidate>>
  BY <1>1, <1>2 DEF LoseClaim
<1>4. /\ x \in CommandRecord /\ x.state = "reconciliation_required"
      /\ x.task = command[c].task /\ x.phase = command[c].phase /\ x.base = command[c].base
      /\ x.outcome = command[c].outcome /\ x.head = command[c].head
      /\ x.report = command[c].report
  BY <1>1, <1>2 DEF CommandRecord, Settled
<1>5. CommandTrue(x, candidate[c])
  BY <1>1, <1>3, <1>4 DEF CommandTrue
<1>6. RunTrue(x, task[x.task]) /\ Passes(command[c], x)
  BY <1>3, <1>4 DEF RunTrue, Passes
<1>7. QED  BY <1>1, <1>3, <1>4, <1>5, <1>6, Kinds, OnlyCommandMoves

LEMMA PiReadyStep ==
  ASSUME Inv, NEW c \in Command, PiReady(c)
  PROVE  Inv' /\ StepTrue
<1>1. /\ command[c] \in CommandRecord /\ CommandTrue(command[c], candidate[c])
      /\ command \in [Command -> CommandRecord] /\ commits \in [Task -> Revision]
      /\ NoRecovery => RunTrue(command[c], task[command[c].task])
  BY OneCommand, Facts
<1>2. PICK x : x = [command[c] EXCEPT !.session = TRUE]
  OBVIOUS
<1>3. /\ command' = [command EXCEPT ![c] = x] /\ command[c].state = "running"
      /\ UNCHANGED <<task, evidence, commits, candidate>>
  BY <1>1, <1>2 DEF PiReady
<1>4. /\ x \in CommandRecord /\ x.state = "running"
      /\ x.task = command[c].task /\ x.phase = command[c].phase /\ x.base = command[c].base
      /\ x.outcome = command[c].outcome /\ x.head = command[c].head
      /\ x.report = command[c].report
  BY <1>1, <1>2, <1>3 DEF CommandRecord
<1>5. CommandTrue(x, candidate[c])
  BY <1>1, <1>3, <1>4 DEF CommandTrue
<1>6. Passes(command[c], x)
  BY <1>3, <1>4 DEF Passes
<1>7. NoRecovery => RunTrue(x, task[x.task])
  BY <1>1, <1>3, <1>4 DEF RunTrue
<1>8. QED  BY <1>1, <1>3, <1>4, <1>5, <1>6, <1>7, OnlyCommandMoves

-----------------------------------------------------------------------------
(* The agent.                                                                *)

(* A running phase c writes status and worker of its task. *)
LEMMA AgentWrites ==
  ASSUME Inv, NEW c \in Command, NEW y \in TaskRecord, command[c].state = "running",
         task' = [task EXCEPT ![command[c].task] = y],
         UNCHANGED <<evidence, commits, command, candidate>>, y.status # "done",
         y.revision = task[command[c].task].revision,
         y.requested = task[command[c].task].requested,
         y.validated = task[command[c].task].validated
  PROVE  Inv' /\ StepTrue
<1>1. PICK t \in Task, x \in CommandRecord : t = command[c].task /\ x = command[c]
  BY OneCommand
<1>2. command' = [command EXCEPT ![c] = x] /\ task' = [task EXCEPT ![t] = y]
  BY <1>1, Facts
<1>3. /\ CommandTrue(x, candidate[c]) /\ FlagsTrue(y, validation[t])
      /\ NoRecovery => RunTrue(x, y)
  BY <1>1, OneCommand DEF FlagsTrue, RunTrue
<1>4. /\ validation' = validation /\ review' = review /\ decision' = decision
      /\ candidate' = candidate /\ commits' = commits
  BY DEF evidence
<1>5. /\ StaysSingle(command, c, x) /\ Passes(command[c], x)
      /\ StaysDone(task, command, validation, review, validation', review', c, t, x, y)
  BY <1>1 DEF StaysSingle, Passes, StaysDone
<1>6. QED  BY <1>1, <1>2, <1>3, <1>4, <1>5, Facts, CommandActs

LEMMA ClaimReleaseBlockStep ==
  ASSUME Inv, NEW c \in Command, ClaimTask(c) \/ ReleaseTask(c) \/ BlockTask(c)
  PROVE  Inv' /\ StepTrue
<1>1. command[c].state = "running"
  BY DEF ClaimTask, ReleaseTask, BlockTask, Worker, CanAct
<1>2. PICK t \in Task, z \in TaskRecord : t = command[c].task /\ z = task[t]
  BY <1>1, OneCommand
<1>3. PICK status, worker, y :
         /\ y = [z EXCEPT !.status = status, !.worker = worker]
         /\ status \in {"ready", "in_progress", "blocked"}
         /\ worker \in Command \cup {None}
         /\ task' = [task EXCEPT ![t] = y]
  <2>1. task \in [Task -> TaskRecord] /\ command[c].actor \in Command \cup {None}
        /\ z.worker \in Command \cup {None}
    BY <1>2, OneCommand, Facts DEF CommandRecord, TaskRecord
  <2>2. CASE ClaimTask(c)
    <3>1. PICK y : y = [z EXCEPT !.status = "in_progress", !.worker = command[c].actor]
      OBVIOUS
    <3>2. task' = [task EXCEPT ![t] = y]
      BY <1>2, <2>1, <2>2, <3>1 DEF ClaimTask
    <3>3. QED  BY <2>1, <3>1, <3>2
  <2>3. CASE ReleaseTask(c)
    <3>1. PICK y : y = [z EXCEPT !.status = "ready", !.worker = None]
      OBVIOUS
    <3>2. task' = [task EXCEPT ![t] = y]
      BY <1>2, <2>1, <2>3, <3>1 DEF ReleaseTask
    <3>3. QED  BY <2>1, <3>1, <3>2
  <2>4. CASE BlockTask(c)
    <3>1. PICK y : y = [z EXCEPT !.status = "blocked", !.worker = z.worker]
      OBVIOUS
    <3>2. y = [z EXCEPT !.status = "blocked"]
      BY <1>2, <3>1 DEF TaskRecord
    <3>3. task' = [task EXCEPT ![t] = y]
      BY <1>2, <2>1, <2>4, <3>2 DEF BlockTask
    <3>4. QED  BY <2>1, <3>1, <3>3
  <2>5. QED  BY <2>2, <2>3, <2>4
<1>4. /\ y \in TaskRecord /\ y.status # "done" /\ y.revision = z.revision
      /\ y.requested = z.requested /\ y.validated = z.validated
  BY <1>2, <1>3 DEF TaskRecord, Status
<1>5. UNCHANGED <<evidence, commits, command, candidate>>
  BY DEF ClaimTask, ReleaseTask, BlockTask
<1>6. QED  BY <1>1, <1>2, <1>3, <1>4, <1>5, AgentWrites

LEMMA CommitStep ==
  ASSUME Inv, NEW c \in Command, Commit(c)
  PROVE  Inv' /\ StepTrue
<1>1. /\ command[c].state = "running" /\ command[c].phase = "implementation"
      /\ command[c].head = 0
  BY DEF Commit, CanAct
<1>2. PICK t, h, x :
         /\ t \in Task
         /\ t = command[c].task /\ h = commits[t] + 1
         /\ x = [command[c] EXCEPT !.head = h, !.report = "pending"]
  BY <1>1, OneCommand
<1>3. h \in Revision /\ commits' \in [Task -> Revision]
  <2>1. commits[t] \in Revision /\ commits[t] < MaxRevision
    BY <1>2, Facts DEF Commit
  <2>2. h \in Revision
    BY <1>2, <2>1, PipelineAssumption DEF Revision
  <2>3. commits' = [commits EXCEPT ![t] = h]
    BY <1>2 DEF Commit
  <2>4. QED  BY <2>2, <2>3, Facts
<1>4. h # 0 /\ h \in 0..MaxRevision
  BY <1>3, PipelineAssumption DEF Revision
<1>5. /\ command' = [command EXCEPT ![c] = x]
      /\ UNCHANGED <<task, evidence, candidate>>
  BY <1>2, Facts DEF Commit
<1>6. /\ x \in CommandRecord /\ x.state = "running"
      /\ x.task = command[c].task /\ x.phase = "implementation" /\ x.base = command[c].base
      /\ x.outcome = command[c].outcome /\ x.head = h /\ x.report = "pending"
  BY ZenonT(40), <1>1, <1>2, <1>4, OneCommand DEF CommandRecord
<1>7. CommandTrue(x, candidate[c]) /\ Passes(command[c], x)
  BY <1>1, <1>4, <1>6, OneCommand DEF CommandTrue, Passes
<1>8. NoRecovery => RunTrue(x, task[x.task])
  <2>1. command[c].report = "none"
    BY <1>1, OneCommand DEF CommandTrue
  <2>2. QED  BY <1>1, <1>6, <2>1, OneCommand DEF RunTrue
<1>9. QED  BY <1>1, <1>3, <1>5, <1>6, <1>7, <1>8, OnlyCommandMoves

LEMMA RequestReviewStep ==
  ASSUME Inv, NEW c \in Command, RequestReview(c)
  PROVE  Inv' /\ StepTrue
<1>1. command[c].state = "running" /\ command[c].phase = "implementation"
  BY DEF RequestReview, Worker, CanAct
<1>2. PICK t, r, z, x, y :
         /\ t \in Task /\ r \in Revision /\ z \in TaskRecord
         /\ t = command[c].task /\ r = task[t].revision /\ z = task[t]
         /\ x = [command[c] EXCEPT !.outcome = r]
         /\ y = [z EXCEPT !.status = "review", !.requested = r]
  BY <1>1, OneCommand
<1>3. r # 0 /\ r \in 0..MaxRevision
  BY <1>2, PipelineAssumption DEF Revision
<1>4. command' = [command EXCEPT ![c] = x] /\ task' = [task EXCEPT ![t] = y]
  BY <1>2, Facts DEF RequestReview
<1>5. /\ x \in CommandRecord /\ x.state = "running" /\ x.task = t
      /\ x.phase = "implementation" /\ x.base = command[c].base /\ x.outcome = r
      /\ x.head = command[c].head /\ x.report = command[c].report
  BY <1>1, <1>2, <1>3, OneCommand DEF CommandRecord
<1>6. /\ y \in TaskRecord /\ y.status = "review" /\ y.revision = r /\ y.requested = r
      /\ y.validated = z.validated
  BY <1>2, <1>3 DEF TaskRecord, Status
<1>7. CommandTrue(x, candidate[c]) /\ Passes(command[c], x)
  BY <1>2, <1>1, <1>3, <1>5, OneCommand DEF CommandTrue, Passes
<1>8. FlagsTrue(y, validation[t]) /\ (NoRecovery => RunTrue(x, y))
  <2>1. FlagsTrue(z, validation[t])
    BY <1>1, <1>2, OneCommand
  <2>2. NoRecovery => RunTrue(command[c], z)
    BY <1>2, OneCommand
  <2>3. FlagsTrue(y, validation[t])
    BY <1>2, <1>6, <2>1 DEF FlagsTrue
  <2>4. RunTrue(command[c], z) => RunTrue(x, y)
    BY <1>1, <1>2, <1>5, <1>6 DEF RunTrue
  <2>5. QED  BY <2>2, <2>3, <2>4
<1>9. /\ validation' = validation /\ review' = review /\ decision' = decision
      /\ candidate' = candidate /\ commits' = commits
  BY DEF RequestReview, evidence
<1>10. /\ StaysSingle(command, c, x)
       /\ StaysDone(task, command, validation, review, validation', review', c, t, x, y)
  BY <1>1, <1>2, <1>5, <1>6, Kinds DEF StaysSingle, StaysDone
<1>11. QED
  BY <1>1, <1>2, <1>4, <1>5, <1>6, <1>7, <1>8, <1>9, <1>10, Facts, CommandActs

LEMMA RecordValidationStep ==
  ASSUME Inv, NEW c \in Command, RecordValidation(c)
  PROVE  Inv' /\ StepTrue
<1>1. command[c].state = "running" /\ command[c].phase = "test"
  BY DEF RecordValidation, CanAct
<1>2. PICK t \in Task, r \in Revision, z \in TaskRecord :
         t = command[c].task /\ r = task[t].revision /\ z = task[t]
  BY <1>1, OneCommand
<1>3. PICK verdict \in {"passed", "failed"} :
         /\ validation' = [validation EXCEPT ![t][r] = verdict]
         /\ task' = [task EXCEPT ![t].validated = (verdict = "passed")]
  BY <1>2 DEF RecordValidation
<1>4. PICK passed, x, y, v :
         /\ passed \in BOOLEAN /\ (passed <=> verdict = "passed")
         /\ passed = (verdict = "passed")
         /\ x = [command[c] EXCEPT !.outcome = r] /\ y = [z EXCEPT !.validated = passed]
         /\ v = [validation[t] EXCEPT ![r] = verdict]
  OBVIOUS
<1>5. r # 0 /\ r \in 0..MaxRevision
  BY PipelineAssumption DEF Revision
<1>6. command' = [command EXCEPT ![c] = x] /\ task' = [task EXCEPT ![t] = y]
  BY <1>2, <1>3, <1>4, Facts DEF RecordValidation
<1>7. /\ x \in CommandRecord /\ x.state = "running" /\ x.task = t
      /\ x.phase = "test" /\ x.base = command[c].base /\ x.outcome = r
      /\ x.head = command[c].head /\ x.report = command[c].report
  BY <1>1, <1>2, <1>4, <1>5, OneCommand DEF CommandRecord
<1>8. /\ y \in TaskRecord /\ y.status = z.status /\ y.revision = r
      /\ y.requested = z.requested /\ y.validated = passed
  BY <1>2, <1>4 DEF TaskRecord
<1>9. /\ v \in [Revision -> {"none", "passed", "failed"}] /\ v[r] = verdict
      /\ \A s \in Revision \ {r} : v[s] = validation[t][s]
  <2>1. validation[t] \in [Revision -> {"none", "passed", "failed"}]
    BY Facts DEF Validations
  <2>2. QED  BY <1>4, <2>1
<1>10. /\ validation' \in Validations /\ validation'[t] = v
       /\ \A u \in Task \ {t} : validation'[u] = validation[u]
  <2>1. validation \in [Task -> [Revision -> {"none", "passed", "failed"}]]
    BY Facts DEF Validations
  <2>2. validation' = [validation EXCEPT ![t] = v]
    BY <1>3, <1>4, <2>1
  <2>3. QED  BY <1>9, <2>1, <2>2 DEF Validations
<1>11. CommandTrue(x, candidate[c]) /\ Passes(command[c], x)
  BY <1>1, <1>5, <1>7, OneCommand DEF CommandTrue, Passes
<1>12. FlagsTrue(y, v) /\ (NoRecovery => RunTrue(x, y))
  <2>1. FlagsTrue(z, validation[t])
    BY <1>1, <1>2, OneCommand
  <2>2. NoRecovery => RunTrue(command[c], z)
    BY <1>2, OneCommand
  <2>3. FlagsTrue(y, v)
    BY <1>2, <1>4, <1>8, <1>9, <2>1 DEF FlagsTrue
  <2>4. RunTrue(command[c], z) => RunTrue(x, y)
    BY <1>1, <1>2, <1>7, <1>8 DEF RunTrue
  <2>5. QED  BY <2>2, <2>3, <2>4
<1>13. /\ review' = review /\ decision' = decision
       /\ candidate' = candidate /\ commits' = commits
  BY DEF RecordValidation
<1>14. /\ StaysSingle(command, c, x)
       /\ StaysDone(task, command, validation, review, validation', review', c, t, x, y)
  BY <1>1, <1>2, <1>7, <1>8, Kinds DEF StaysSingle, StaysDone
<1>15. \A s \in Revision : validation[t][s] # "none" => validation'[t][s] # "none"
  BY <1>9, <1>10
<1>16. QED
  BY <1>1, <1>2, <1>6, <1>7, <1>8, <1>10, <1>11, <1>12, <1>13, <1>14, <1>15, Facts, CommandActs

LEMMA SubmitReviewStep ==
  ASSUME Inv, NEW c \in Command, SubmitReview(c)
  PROVE  Inv' /\ StepTrue
<1>1. command[c].state = "running" /\ command[c].phase = "review"
  BY DEF SubmitReview, CanAct
<1>2. PICK t \in Task, r \in Revision, z \in TaskRecord :
         t = command[c].task /\ r = task[t].revision /\ z = task[t]
  BY <1>1, OneCommand
<1>3. PICK status \in {"review", "in_progress", "blocked"}, verdict \in {"approved", "refused"} :
         /\ review' = [review EXCEPT ![t][r] = verdict]
         /\ task' = [task EXCEPT ![t].status = status]
  BY <1>2 DEF SubmitReview
<1>4. PICK x, y, v :
         /\ x = [command[c] EXCEPT !.outcome = r] /\ y = [z EXCEPT !.status = status]
         /\ v = [review[t] EXCEPT ![r] = verdict]
  OBVIOUS
<1>5. r # 0 /\ r \in 0..MaxRevision
  BY PipelineAssumption DEF Revision
<1>6. command' = [command EXCEPT ![c] = x] /\ task' = [task EXCEPT ![t] = y]
  BY <1>2, <1>3, <1>4, Facts DEF SubmitReview
<1>7. /\ x \in CommandRecord /\ x.state = "running" /\ x.task = t
      /\ x.phase = "review" /\ x.base = command[c].base /\ x.outcome = r
      /\ x.head = command[c].head /\ x.report = command[c].report
  BY <1>1, <1>2, <1>4, <1>5, OneCommand DEF CommandRecord
<1>8. /\ y \in TaskRecord /\ y.status # "done" /\ y.revision = r
      /\ y.requested = z.requested /\ y.validated = z.validated
  BY <1>2, <1>3, <1>4 DEF TaskRecord, Status
<1>9. /\ review' \in Reviews /\ \A u \in Task \ {t} : review'[u] = review[u]
  <2>1. review \in [Task -> [Revision -> {"none", "approved", "refused"}]]
    BY Facts DEF Reviews
  <2>2. v \in [Revision -> {"none", "approved", "refused"}]
    BY <1>4, <2>1
  <2>3. review' = [review EXCEPT ![t] = v]
    BY <1>3, <1>4, <2>1
  <2>4. QED  BY <2>1, <2>2, <2>3 DEF Reviews
<1>10. CommandTrue(x, candidate[c]) /\ Passes(command[c], x)
  BY <1>1, <1>5, <1>7, OneCommand DEF CommandTrue, Passes
<1>11. FlagsTrue(y, validation[t]) /\ (NoRecovery => RunTrue(x, y))
  <2>1. FlagsTrue(z, validation[t])
    BY <1>1, <1>2, OneCommand
  <2>2. NoRecovery => RunTrue(command[c], z)
    BY <1>2, OneCommand
  <2>3. FlagsTrue(y, validation[t])
    BY <1>2, <1>8, <2>1 DEF FlagsTrue
  <2>4. RunTrue(command[c], z) => RunTrue(x, y)
    BY <1>1, <1>2, <1>7, <1>8 DEF RunTrue
  <2>5. QED  BY <2>2, <2>3, <2>4
<1>12. /\ validation' = validation /\ decision' = decision
       /\ candidate' = candidate /\ commits' = commits
  BY DEF SubmitReview
<1>13. /\ StaysSingle(command, c, x)
       /\ StaysDone(task, command, validation, review, validation', review', c, t, x, y)
  BY <1>1, <1>2, <1>7, <1>8, Kinds DEF StaysSingle, StaysDone
<1>14. QED
  BY <1>1, <1>2, <1>6, <1>7, <1>8, <1>9, <1>10, <1>11, <1>12, <1>13, Facts, CommandActs

-----------------------------------------------------------------------------
(* The host worker.                                                          *)

LEMMA FenceStep ==
  ASSUME Inv, NEW c \in Command, Fence(c)
  PROVE  Inv' /\ StepTrue
<1>1. command[c].state = "running" /\ commits \in [Task -> Revision]
  BY Facts DEF Fence
<1>2. PICK x : x = [command[c] EXCEPT !.state = "fenced"]
  OBVIOUS
<1>3. /\ command' = [command EXCEPT ![c] = x]
      /\ UNCHANGED <<task, evidence, commits, candidate>>
  BY <1>2, Facts DEF Fence
<1>4. /\ x \in CommandRecord /\ x.state = "fenced"
      /\ x.task = command[c].task /\ x.phase = command[c].phase /\ x.base = command[c].base
      /\ x.outcome = command[c].outcome /\ x.head = command[c].head
      /\ x.report = command[c].report
  BY <1>2, OneCommand DEF CommandRecord, Unsettled
<1>5. CommandTrue(x, candidate[c]) /\ Passes(command[c], x) /\ RunTrue(x, task[x.task])
  BY <1>1, <1>4, OneCommand DEF CommandTrue, Passes, RunTrue
<1>6. QED  BY <1>1, <1>3, <1>4, <1>5, Kinds, OnlyCommandMoves

LEMMA CancelUncertainExecutionStep ==
  ASSUME Inv, NEW c \in Command, CancelUncertainExecution(c)
  PROVE  Inv' /\ StepTrue
<1>1. command[c].state = "reconciliation_required" /\ commits \in [Task -> Revision]
  BY Facts DEF CancelUncertainExecution
<1>2. PICK x : x = [command[c] EXCEPT !.state = "cancelled"]
  OBVIOUS
<1>3. /\ command' = [command EXCEPT ![c] = x]
      /\ UNCHANGED <<task, evidence, commits, candidate>>
  BY <1>2, Facts DEF CancelUncertainExecution
<1>4. /\ x \in CommandRecord /\ x.state = "cancelled"
      /\ x.task = command[c].task /\ x.phase = command[c].phase /\ x.base = command[c].base
      /\ x.outcome = command[c].outcome /\ x.head = command[c].head
      /\ x.report = command[c].report
  BY <1>2, OneCommand DEF CommandRecord, Settled
<1>5. CommandTrue(x, candidate[c]) /\ Passes(command[c], x) /\ RunTrue(x, task[x.task])
  BY <1>1, <1>4, OneCommand DEF CommandTrue, Passes, RunTrue
<1>6. QED  BY <1>1, <1>3, <1>4, <1>5, Kinds, OnlyCommandMoves

(* The run recorded its outcome for the revision it works on. *)
LEMMA OutcomeRecorded ==
  ASSUME Inv, NEW c \in Command, command[c].state = "running", PhaseOutcomeRecorded(c)
  PROVE  /\ command[c].outcome # 0
         /\ NoRecovery => command[c].outcome = task[command[c].task].revision
<1>1. command[c].task \in Task /\ task[command[c].task].revision \in Revision
  BY OneCommand
<1>2. task[command[c].task].revision # 0
  BY <1>1, PipelineAssumption DEF Revision
<1>3. command[c].outcome # 0
  BY <1>2 DEF PhaseOutcomeRecorded
<1>4. NoRecovery => command[c].outcome = task[command[c].task].revision
  BY <1>3, OneCommand DEF PhaseOutcomeRecorded, RunTrue, ReviewRequested
<1>5. QED  BY <1>3, <1>4

LEMMA EndPhaseStep ==
  ASSUME Inv, NEW c \in Command, EndPhase(c)
  PROVE  Inv' /\ StepTrue
<1>1. command[c].state = "running" /\ PhaseOutcomeRecorded(c) /\ command[c].outcome # 0
  BY OutcomeRecorded DEF EndPhase
<1>2. PICK t, z, x :
         /\ t \in Task /\ z \in TaskRecord
         /\ t = command[c].task /\ z = task[t]
         /\ x = [command[c] EXCEPT !.state = "ending"]
  BY <1>1, OneCommand
<1>3. command' = [command EXCEPT ![c] = x]
  BY <1>2, Facts DEF EndPhase
<1>4. /\ x \in CommandRecord /\ x.state = "ending" /\ x.task = t
      /\ x.phase = command[c].phase /\ x.base = command[c].base
      /\ x.outcome = command[c].outcome /\ x.head = command[c].head
      /\ x.report = command[c].report
  BY <1>2, OneCommand DEF CommandRecord, Unsettled
<1>5. PICK y \in TaskRecord :
         /\ task' = [task EXCEPT ![t] = y]
         /\ y.revision = z.revision /\ y.requested = z.requested /\ y.validated = z.validated
         /\ y = z \/ (CompletionAllowed(t) /\ y.merging)
  <2>1. CASE command[c].phase = "review" /\ CompletionAllowed(t)
    <3>1. PICK y : y = [z EXCEPT !.status = "done", !.merging = TRUE]
      OBVIOUS
    <3>2. task' = [task EXCEPT ![t] = y]
      BY <1>2, <2>1, <3>1, Facts DEF EndPhase, CompletedTask
    <3>3. /\ y \in TaskRecord /\ y.merging /\ y.revision = z.revision
          /\ y.requested = z.requested /\ y.validated = z.validated
      BY <1>2, <3>1 DEF TaskRecord, Status
    <3>4. QED  BY <2>1, <3>2, <3>3
  <2>2. CASE ~(command[c].phase = "review" /\ CompletionAllowed(t))
    <3>1. task' = [task EXCEPT ![t] = z]
      BY <1>2, <2>2, Facts DEF EndPhase
    <3>2. QED  BY <1>2, <3>1
  <2>3. QED  BY <2>1, <2>2
<1>6. CommandTrue(x, candidate[c]) /\ Passes(command[c], x) /\ RunTrue(x, y)
  BY <1>2, <1>1, <1>4, OneCommand DEF CommandTrue, Passes, RunTrue
<1>7. FlagsTrue(y, validation[t])
  BY <1>1, <1>2, <1>5, OneCommand DEF FlagsTrue
<1>8. /\ validation' = validation /\ review' = review /\ decision' = decision
      /\ candidate' = candidate /\ commits' = commits
  BY DEF EndPhase, evidence
<1>9. StaysSingle(command, c, x)
  BY <1>1, <1>2, <1>4, Kinds DEF StaysSingle
<1>10. StaysDone(task, command, validation, review, validation', review', c, t, x, y)
  <2>1. x.state \notin Live
    BY <1>4, Kinds
  <2>2. CompletionAllowed(t) /\ y.merging => DoneTrue(y, validation[t], review[t])
    BY <1>2, <1>5 DEF CompletionAllowed, DoneTrue
  <2>3. QED  BY <1>1, <1>2, <1>5, <1>8, <2>1, <2>2 DEF StaysDone
<1>11. QED
  BY <1>1, <1>2, <1>3, <1>4, <1>5, <1>6, <1>7, <1>8, <1>9, <1>10, Facts, CommandActs

(* A commit that may be adopted is recorded once. *)
LEMMA CandidateAdded ==
  ASSUME Inv, NEW c \in Command, command[c].state # "absent", NEW e \in BOOLEAN
  PROVE  /\ WithCandidate(candidate, c, e) \in [Command -> CandidateRecord]
         /\ \A d \in Command \ {c} : WithCandidate(candidate, c, e)[d] = candidate[d]
<1>1. PICK x : x = [state |-> IF e THEN "pending" ELSE "ineligible",
                    base |-> task[command[c].task].revision]
  OBVIOUS
<1>2. task[command[c].task].revision \in 0..MaxRevision
  BY OneCommand, PipelineAssumption DEF Revision
<1>3. x \in CandidateRecord
  BY <1>1, <1>2 DEF CandidateRecord
<1>4. candidate \in [Command -> CandidateRecord]
  BY Facts
<1>5. WithCandidate(candidate, c, e) \in {candidate, [candidate EXCEPT ![c] = x]}
  BY <1>1 DEF WithCandidate
<1>6. QED  BY <1>3, <1>4, <1>5

LEMMA RecordHostGitRevisionStep ==
  ASSUME Inv, NEW c \in Command, RecordHostGitRevision(c)
  PROVE  Inv' /\ StepTrue
<1>1. command[c].report = "pending"
  BY DEF RecordHostGitRevision
<1>2. /\ command[c].state \notin {"absent", "queued", "claimed"}
      /\ command[c].head # 0 /\ command[c].phase = "implementation"
  BY <1>1, OneCommand DEF CommandTrue, NoCommand
<1>3. PICK t, z, x, h :
         /\ t \in Task /\ z \in TaskRecord
         /\ t = command[c].task /\ z = task[t] /\ h = command[c].head
         /\ x = [command[c] EXCEPT !.report = "done"]
  BY <1>2, OneCommand
<1>4. command' = [command EXCEPT ![c] = x]
  BY <1>3, Facts DEF RecordHostGitRevision
<1>5. /\ x \in CommandRecord /\ x.state = command[c].state /\ x.task = t
      /\ x.phase = command[c].phase /\ x.base = command[c].base
      /\ x.outcome = command[c].outcome /\ x.head = h /\ x.report = "done"
  BY <1>3, OneCommand DEF CommandRecord
<1>6. h \in Revision /\ h # 0
  <2>1. h \in 0..MaxRevision
    BY <1>3, OneCommand DEF CommandRecord
  <2>2. QED  BY <1>2, <1>3, <2>1, PipelineAssumption DEF Revision
<1>7. \A cand : CommandTrue(x, cand)
  BY <1>3, <1>2, <1>5, <1>6, OneCommand DEF CommandTrue
<1>8. Passes(command[c], x) /\ StaysSingle(command, c, x)
  BY <1>3, <1>5 DEF Passes, StaysSingle
<1>9. /\ validation' = validation /\ review' = review /\ decision' = decision
      /\ commits' = commits
  BY DEF RecordHostGitRevision, evidence
<1>10. CASE command[c].state = "running" /\ AdvanceRevision(c)
  <2>1. PICK y : y = [z EXCEPT !.revision = h, !.requested = 0,
                               !.validated = FALSE, !.merging = FALSE]
    OBVIOUS
  <2>2. task' = [task EXCEPT ![t] = y] /\ candidate' = candidate
    BY <1>3, <1>10, <2>1, Facts DEF AdvanceRevision
  <2>3. /\ y \in TaskRecord /\ y.revision = h /\ y.requested = 0 /\ y.validated = FALSE
        /\ y.status = z.status
    <3>1. 0 \in 0..MaxRevision
      BY PipelineAssumption
    <3>2. QED  BY <1>3, <1>6, <2>1, <3>1 DEF TaskRecord
  <2>4. FlagsTrue(y, validation[t]) /\ RunTrue(x, y)
    BY <1>2, <1>5, <1>6, <2>3 DEF FlagsTrue, RunTrue
  <2>5. StaysDone(task, command, validation, review, validation', review', c, t, x, y)
    BY <1>3, <1>10, <2>3, Kinds DEF StaysDone
  <2>6. y.revision # task[t].revision => RevisionFrom(c, t, y.revision)
    BY <1>1, <1>3, <1>10, <2>3 DEF RevisionFrom
  <2>7. QED
    BY <1>2, <1>3, <1>4, <1>5, <1>7, <1>8, <1>9, <1>10, <2>2, <2>3, <2>4, <2>5, <2>6,
       Facts, CommandActs
<1>11. CASE command[c].state # "running" /\ QuarantineRevision(c)
  <2>1. PICK e \in BOOLEAN : candidate' = WithCandidate(candidate, c, e)
    BY <1>11 DEF QuarantineRevision, IsDirectDescendant
  <2>2. /\ candidate' \in [Command -> CandidateRecord]
        /\ \A d \in Command \ {c} : candidate'[d] = candidate[d]
    BY <1>2, <2>1, CandidateAdded
  <2>3. task' = [task EXCEPT ![t] = z]
    BY <1>3, <1>11, Facts DEF QuarantineRevision
  <2>4. FlagsTrue(z, validation[t]) /\ RunTrue(x, z) /\ x.state \notin Live
    BY <1>2, <1>3, <1>5, <1>11, OneCommand, Kinds DEF RunTrue
  <2>5. StaysDone(task, command, validation, review, validation', review', c, t, x, z)
    BY <1>3, <1>9, <2>4 DEF StaysDone
  <2>6. QED
    BY <1>2, <1>3, <1>4, <1>5, <1>7, <1>8, <1>9, <1>11, <2>2, <2>3, <2>4, <2>5,
       Facts, CommandActs
<1>12. QED  BY <1>10, <1>11 DEF RecordHostGitRevision, RecordLateRevision

(* A failure blocks the task, unless it is done. *)
LEMMA AttentionTask ==
  ASSUME Inv, NEW t \in Task, NEW y, y \in {task[t], Blocked(task[t])}
  PROVE  /\ y \in TaskRecord /\ y.revision = task[t].revision
         /\ y.requested = task[t].requested /\ y.validated = task[t].validated
         /\ y.status = "done" => y = task[t]
BY Facts DEF Blocked, TaskRecord, Status

LEMMA SettleStoppedStep ==
  ASSUME Inv, NEW c \in Command, SettleStopped(c)
  PROVE  Inv' /\ StepTrue
<1>1. command[c].state \in {"ending", "fenced"}
  BY DEF SettleStopped
<1>2. PICK state, session, x :
         /\ state \in Settled \ {"succeeded"} /\ session \in BOOLEAN
         /\ x = [command[c] EXCEPT !.state = state, !.session = session]
         /\ command' = [command EXCEPT ![c] = x]
         /\ task' = Attention(c, state)
  <2>1. PICK state \in Settled \ {"succeeded"}, session \in BOOLEAN :
           /\ command' = [command EXCEPT ![c].state = state, ![c].session = session]
           /\ task' = Attention(c, state)
    BY DEF SettleStopped
  <2>2. PICK x : x = [command[c] EXCEPT !.state = state, !.session = session]
    OBVIOUS
  <2>3. command' = [command EXCEPT ![c] = x]
    BY <2>1, <2>2, Facts
  <2>4. QED  BY <2>1, <2>2, <2>3
<1>3. PICK t, y :
         /\ t \in Task
         /\ t = command[c].task /\ task' = [task EXCEPT ![t] = y]
         /\ y \in {task[t], Blocked(task[t])}
  <2>1. PICK t \in Task : t = command[c].task
    BY <1>1, OneCommand
  <2>2. task' = [task EXCEPT ![t] = Blocked(task[t])] \/ task' = [task EXCEPT ![t] = task[t]]
    BY <1>2, <2>1, Facts DEF Attention
  <2>3. QED  BY <2>1, <2>2
<1>4. /\ x \in CommandRecord /\ x.state = state /\ x.task = t
      /\ x.phase = command[c].phase /\ x.base = command[c].base
      /\ x.outcome = command[c].outcome /\ x.head = command[c].head
      /\ x.report = command[c].report
  BY ZenonT(40), <1>2, <1>3, OneCommand DEF CommandRecord
<1>5. /\ y \in TaskRecord /\ y.revision = task[t].revision
      /\ y.requested = task[t].requested /\ y.validated = task[t].validated
      /\ y.status = "done" => y = task[t]
  BY <1>3, AttentionTask
<1>6. /\ validation' = validation /\ review' = review /\ decision' = decision
      /\ commits' = commits
  BY DEF SettleStopped, evidence
<1>7. /\ candidate' \in [Command -> CandidateRecord]
      /\ \A d \in Command \ {c} : candidate'[d] = candidate[d]
      /\ candidate'[c] = candidate[c] \/ command[c].report = "done"
  <2>1. candidate' = candidate \/ candidate' = CheckpointRecovery(c)
    BY DEF SettleStopped
  <2>2. \/ candidate' = candidate
        \/ /\ command[c].report = "done"
           /\ \E e \in BOOLEAN : candidate' = WithCandidate(candidate, c, e)
    BY <2>1 DEF CheckpointRecovery, IsDirectDescendant
  <2>3. QED  BY <1>1, <2>2, CandidateAdded, Facts
<1>8. /\ state \notin Unsettled /\ state \notin Live /\ state # "absent"
      /\ state \notin {"queued", "claimed", "running", "ending", "fenced", "succeeded"}
  BY <1>2, Kinds
<1>9. CommandTrue(x, candidate'[c])
  BY <1>2, <1>1, <1>4, <1>7, <1>8, OneCommand DEF CommandTrue
<1>10. Passes(command[c], x)
  BY <1>1, <1>2, <1>4 DEF Passes
<1>11. /\ StaysSingle(command, c, x) /\ RunTrue(x, y)
       /\ StaysDone(task, command, validation, review, validation', review', c, t, x, y)
  BY <1>4, <1>5, <1>6, <1>8 DEF StaysSingle, RunTrue, StaysDone
<1>12. FlagsTrue(y, validation[t])
  BY <1>1, <1>3, <1>5, OneCommand DEF FlagsTrue
<1>13. QED
  BY <1>1, <1>2, <1>3, <1>4, <1>5, <1>6, <1>7, <1>8, <1>9, <1>10, <1>11, <1>12,
     Facts, CommandActs

(* Acceptance starts the phase or blocks the task. *)
LEMMA AcceptCommandExecutionStep ==
  ASSUME Inv, NEW c \in Command, AcceptCommandExecution(c)
  PROVE  Inv' /\ StepTrue
<1>1. command[c].state = "claimed"
  BY DEF AcceptCommandExecution
<1>2. PICK t \in Task, z \in TaskRecord, r \in Revision :
         t = command[c].task /\ z = task[t] /\ r = z.revision
  BY <1>1, OneCommand
<1>3. PICK row : row = Resumed(c)
  OBVIOUS
<1>4. /\ row \in TaskRecord /\ row.revision = r /\ row.requested = z.requested
      /\ row.validated = z.validated
      /\ row.status = "done" => z.status = "done"
  BY <1>2, <1>3 DEF Resumed, TaskRecord, Status
<1> DEFINE starts == TaskStateAllowsPhase(row, command[c].phase)
<1>a. PICK y, state : /\ y = (IF starts THEN row ELSE Blocked(row))
                      /\ state = (IF starts THEN "running" ELSE "failed")
  OBVIOUS
<1>b. PICK x : x = [command[c] EXCEPT !.state = state, !.base = r, !.actor = row.worker]
  OBVIOUS
<1>5. /\ state \in {"running", "failed"} /\ y \in {row, Blocked(row)}
      /\ task' = [task EXCEPT ![t] = y] /\ command' = [command EXCEPT ![c] = x]
  <2>1. /\ task' = [task EXCEPT ![t] = y]
        /\ command' = [command EXCEPT ![c].state = state, ![c].base = r, ![c].actor = row.worker]
    BY <1>2, <1>3, <1>4, <1>a DEF AcceptCommandExecution
  <2>2. command' = [command EXCEPT ![c] = x]
    BY <1>b, <2>1, Facts
  <2>3. QED  BY <1>a, <2>1, <2>2
<1> HIDE DEF starts
<1>6. /\ y \in TaskRecord /\ y.revision = r /\ y.requested = z.requested
      /\ y.validated = z.validated
      /\ y.status = "done" => z.status = "done"
  BY <1>4, <1>5 DEF Blocked, TaskRecord, Status
<1>7. r # 0 /\ r \in 0..MaxRevision
  BY PipelineAssumption DEF Revision
<1>8. /\ x \in CommandRecord /\ x.state = state /\ x.task = t /\ x.base = r
      /\ x.phase = command[c].phase /\ x.outcome = command[c].outcome
      /\ x.head = command[c].head /\ x.report = command[c].report
  <2>1. /\ command[c] \in CommandRecord /\ row.worker \in Command \cup {None}
        /\ state \in {"absent"} \cup Unsettled \cup Settled
    BY <1>4, <1>5, OneCommand, Kinds DEF TaskRecord
  <2>2. QED  BY <1>2, <1>7, <1>b, <2>1 DEF CommandRecord
<1>9. CommandTrue(x, candidate[c]) /\ RunTrue(x, y) /\ Passes(command[c], x)
  BY <1>1, <1>5, <1>6, <1>7, <1>8, OneCommand DEF CommandTrue, RunTrue, Passes
<1>10. FlagsTrue(y, validation[t])
  BY <1>1, <1>2, <1>6, OneCommand DEF FlagsTrue
<1>11. /\ validation' = validation /\ review' = review /\ decision' = decision
       /\ candidate' = candidate /\ commits' = commits
  BY DEF AcceptCommandExecution, evidence
<1>12. /\ StaysSingle(command, c, x)
       /\ StaysDone(task, command, validation, review, validation', review', c, t, x, y)
  BY <1>1, <1>2, <1>6, <1>8, Kinds DEF StaysSingle, StaysDone
<1>13. QED
  BY <1>1, <1>2, <1>5, <1>6, <1>8, <1>9, <1>10, <1>11, <1>12, Facts, CommandActs

-----------------------------------------------------------------------------
(* The owner.                                                                *)

(* A command that is queued, whatever for. *)
QueuedCommands(t, p) ==
  {QueuedCommand(t, p), [QueuedCommand(t, p) EXCEPT !.resumed = TRUE]}

LEMMA QueuedTrue ==
  ASSUME NEW t \in Task, NEW p \in Phase,
         NEW x \in QueuedCommands(t, p)
  PROVE  /\ x \in CommandRecord /\ x.state = "queued" /\ x.task = t /\ x.phase = p
         /\ x.base = 0 /\ x.outcome = 0 /\ x.head = 0 /\ x.report = "none"
<1>1. 0 \in 0..MaxRevision /\ "queued" \in Unsettled
  BY PipelineAssumption DEF Unsettled
<1>2. QED  BY ZenonT(40), <1>1 DEF QueuedCommands, QueuedCommand, NoCommand, CommandRecord

(* A manual command c is queued for phase p of task t. *)
LEMMA OwnerQueues ==
  ASSUME Inv, NEW c \in Manual, command[c].state = "absent", NEW t \in Task, NEW p \in Phase,
         NEW x \in QueuedCommands(t, p),
         command' = [command EXCEPT ![c] = x],
         NEW y \in {task[t], ScheduledTask(task[t], p, c)}, task' = [task EXCEPT ![t] = y],
         UNCHANGED <<evidence, commits, candidate>>,
         NoReplay => ~Busy(task, command, t) /\ y = ScheduledTask(task[t], p, c)
  PROVE  Inv' /\ StepTrue
<1>1. c \in Command /\ c \notin Automatic /\ command[c] = NoCommand
  BY OneCommand, PipelineAssumption DEF Command, CommandTrue
<1>2. /\ x \in CommandRecord /\ x.state = "queued" /\ x.task = t /\ x.phase = p
      /\ x.base = 0 /\ x.outcome = 0 /\ x.head = 0 /\ x.report = "none"
  BY QueuedTrue
<1>3. PICK z \in TaskRecord : z = task[t]
  BY Facts
<1>4. /\ y \in TaskRecord /\ y.revision = z.revision /\ y.requested = z.requested
      /\ y.validated = z.validated
      /\ NoReplay => y.status # "done"
  BY ZenonT(40), <1>1, <1>3 DEF ScheduledTask, TaskRecord, Status
<1>5. FlagsTrue(y, validation[t])
  BY <1>3, <1>4, Facts, TaskFacts DEF FlagsTrue
<1>6. CommandTrue(x, candidate[c])
  <2>1. command[c].head = 0
    BY <1>1 DEF NoCommand
  <2>2. candidate[c].state # "pending"
    BY <1>1, <2>1, OneCommand DEF CommandTrue
  <2>3. QED  BY <1>2, <2>2 DEF CommandTrue
<1>7. RunTrue(x, y) /\ Passes(command[c], x)
  BY <1>1, <1>2 DEF RunTrue, Passes, NoCommand
<1>8. NoReplay => StaysSingle(command, c, x)
  BY <1>2 DEF StaysSingle, Busy
<1>9. /\ validation' = validation /\ review' = review /\ decision' = decision
      /\ candidate' = candidate /\ commits' = commits
  BY DEF evidence
<1>10. NoCompletion =>
         StaysDone(task, command, validation, review, validation', review', c, t, x, y)
  BY <1>4 DEF StaysDone, NoCompletion
<1>11. QED
  BY <1>1, <1>2, <1>3, <1>4, <1>5, <1>6, <1>7, <1>8, <1>9, <1>10, Facts, CommandActs

LEMMA ScheduleOwnerTaskRunStep ==
  ASSUME Inv, NEW c \in Command, NEW t \in Task, NEW p \in Phase, ScheduleOwnerTaskRun(t, p, c)
  PROVE  Inv' /\ StepTrue
<1>1. /\ c \in Manual /\ command[c].state = "absent" /\ ~Busy(task, command, t)
      /\ UNCHANGED <<evidence, commits, candidate>>
  BY DEF ScheduleOwnerTaskRun, Schedulable
<1>2. PICK x, y : /\ x = QueuedCommand(t, p) /\ y = ScheduledTask(task[t], p, c)
  OBVIOUS
<1>3. task' = [task EXCEPT ![t] = y] /\ command' = [command EXCEPT ![c] = x]
  BY <1>2, Facts DEF ScheduleOwnerTaskRun
<1>4. QED  BY <1>1, <1>2, <1>3, OwnerQueues DEF QueuedCommands

LEMMA ResumeOwnerTaskRunStep ==
  ASSUME Inv, NEW c \in Command, NEW t \in Task, NEW p \in Phase, ResumeOwnerTaskRun(t, p, c)
  PROVE  Inv' /\ StepTrue
<1>1. /\ c \in Manual /\ command[c].state = "absent" /\ ~NoReplay
      /\ UNCHANGED <<task, evidence, commits, candidate>>
  BY DEF ResumeOwnerTaskRun, NoReplay
<1>2. PICK x, y : /\ x = [QueuedCommand(t, p) EXCEPT !.resumed = TRUE] /\ y = task[t]
  OBVIOUS
<1>3. command' = [command EXCEPT ![c] = x]
  BY <1>2 DEF ResumeOwnerTaskRun
<1>4. task' = [task EXCEPT ![t] = y]
  BY <1>1, <1>2, Facts
<1>5. QED  BY <1>1, <1>2, <1>3, <1>4, OwnerQueues DEF QueuedCommands

LEMMA QueueExecutionReplacementStep ==
  ASSUME Inv, NEW c \in Command, NEW d \in Command, QueueExecutionReplacement(d, c)
  PROVE  Inv' /\ StepTrue
<1>1. /\ c \in Manual /\ command[c].state = "absent" /\ ~NoReplay
      /\ UNCHANGED <<evidence, commits, candidate>> /\ command[d].state # "absent"
  BY DEF QueueExecutionReplacement, NoReplay
<1>2. PICK t, p, x, y :
         /\ t \in Task /\ p \in Phase
         /\ t = command[d].task /\ p = command[d].phase
         /\ x = QueuedCommand(t, p) /\ y = ScheduledTask(task[t], p, c)
  BY <1>1, OneCommand
<1>3. task' = [task EXCEPT ![t] = y] /\ command' = [command EXCEPT ![c] = x]
  BY <1>2, Facts DEF QueueExecutionReplacement
<1>4. QED  BY <1>1, <1>2, <1>3, OwnerQueues DEF QueuedCommands

LEMMA RetryCommandStep ==
  ASSUME Inv, NEW c \in Command, NEW d \in Command, RetryCommand(d, c)
  PROVE  Inv' /\ StepTrue
<1>1. /\ c \in Manual /\ command[c].state = "absent" /\ ~NoReplay
      /\ UNCHANGED <<task, evidence, commits, candidate>> /\ command[d].state # "absent"
  BY DEF RetryCommand, NoReplay
<1>2. PICK t, p, x, y :
         /\ t \in Task /\ p \in Phase
         /\ t = command[d].task /\ p = command[d].phase
         /\ x = QueuedCommand(t, p) /\ y = task[t]
  BY <1>1, OneCommand
<1>3. task' = [task EXCEPT ![t] = y] /\ command' = [command EXCEPT ![c] = x]
  BY <1>1, <1>2, Facts DEF RetryCommand
<1>4. QED  BY <1>1, <1>2, <1>3, OwnerQueues DEF QueuedCommands

LEMMA ResetCommandStep ==
  ASSUME Inv, NEW c \in Command, ResetCommand(c)
  PROVE  Inv' /\ StepTrue
<1>1. command[c].state \in {"reconciliation_required", "cancelled"}
  BY DEF ResetCommand
<1>2. PICK t, z, x, y :
         /\ t \in Task /\ z \in TaskRecord
         /\ t = command[c].task /\ z = task[t]
         /\ x = [command[c] EXCEPT !.state = "cancelled"]
         /\ y = [z EXCEPT !.status = "ready", !.worker = None]
  BY <1>1, OneCommand
<1>3. command' = [command EXCEPT ![c] = x] /\ task' = [task EXCEPT ![t] = y]
  BY <1>2, Facts DEF ResetCommand
<1>4. /\ x \in CommandRecord /\ x.state = "cancelled"
      /\ x.task = t /\ x.phase = command[c].phase /\ x.base = command[c].base
      /\ x.outcome = command[c].outcome /\ x.head = command[c].head
      /\ x.report = command[c].report
  BY <1>2, OneCommand DEF CommandRecord, Settled
<1>5. /\ y \in TaskRecord /\ y.status = "ready" /\ y.revision = z.revision
      /\ y.requested = z.requested /\ y.validated = z.validated
  BY <1>2 DEF TaskRecord, Status
<1>6. CommandTrue(x, candidate[c]) /\ Passes(command[c], x) /\ RunTrue(x, y)
  BY <1>2, <1>1, <1>4, OneCommand DEF CommandTrue, Passes, RunTrue
<1>7. FlagsTrue(y, validation[t])
  BY <1>1, <1>2, <1>5, OneCommand DEF FlagsTrue
<1>8. /\ validation' = validation /\ review' = review /\ decision' = decision
      /\ candidate' = candidate /\ commits' = commits
  BY DEF ResetCommand, evidence
<1>9. /\ StaysSingle(command, c, x)
      /\ StaysDone(task, command, validation, review, validation', review', c, t, x, y)
  BY <1>4, <1>5, Kinds DEF StaysSingle, StaysDone
<1>10. QED
  BY <1>1, <1>2, <1>3, <1>4, <1>5, <1>6, <1>7, <1>8, <1>9, Facts, CommandActs

LEMMA RejectRecoveryCandidateStep ==
  ASSUME Inv, NEW c \in Command, RejectRecoveryCandidate(c)
  PROVE  Inv' /\ StepTrue
<1>1. command[c].state # "absent"
  BY OneCommand DEF RejectRecoveryCandidate, CommandTrue, NoCommand
<1>2. PICK t \in Task, x \in CommandRecord, y \in TaskRecord :
         t = command[c].task /\ x = command[c] /\ y = task[t]
  BY <1>1, OneCommand
<1>3. command' = [command EXCEPT ![c] = x] /\ task' = [task EXCEPT ![t] = y]
  BY <1>2, Facts DEF RejectRecoveryCandidate
<1>4. PICK e : e = [candidate[c] EXCEPT !.state = "rejected"]
  OBVIOUS
<1>5. e \in CandidateRecord /\ e.state = "rejected" /\ candidate' = [candidate EXCEPT ![c] = e]
  BY <1>4, Facts DEF RejectRecoveryCandidate, CandidateRecord
<1>6. /\ candidate' \in [Command -> CandidateRecord] /\ candidate'[c] = e
      /\ \A d \in Command \ {c} : candidate'[d] = candidate[d]
  BY <1>5, Facts
<1>7. CommandTrue(x, candidate'[c]) /\ (NoRecovery => RunTrue(x, y)) /\ FlagsTrue(y, validation[t])
  BY <1>1, <1>2, <1>5, <1>6, OneCommand DEF CommandTrue
<1>8. /\ validation' = validation /\ review' = review /\ decision' = decision
      /\ commits' = commits
  BY DEF RejectRecoveryCandidate, evidence
<1>9. /\ StaysSingle(command, c, x) /\ Passes(command[c], x)
      /\ StaysDone(task, command, validation, review, validation', review', c, t, x, y)
  BY <1>2, <1>8 DEF StaysSingle, Passes, StaysDone
<1>10. QED
  BY <1>1, <1>2, <1>3, <1>6, <1>7, <1>8, <1>9, Facts, CommandActs

(* The owner writes status and merge request of a task. *)
LEMMA OwnerWrites ==
  ASSUME Inv, NEW t \in Task, NEW y \in TaskRecord, task' = [task EXCEPT ![t] = y],
         UNCHANGED <<validation, review, commits, command, candidate>>,
         decision' \in [Task -> BOOLEAN],
         y.revision = task[t].revision, y.requested = task[t].requested,
         y.validated = task[t].validated,
         NoCompletion => y = task[t] \/ y.status # "done"
  PROVE  Inv' /\ StepTrue
<1>1. /\ task' \in [Task -> TaskRecord] /\ task'[t] = y
      /\ \A u \in Task \ {t} : task'[u] = task[u]
  BY Facts
<1>2. ASSUME NEW u \in Task
      PROVE  /\ task'[u].revision = task[u].revision
             /\ task'[u].requested = task[u].requested
             /\ task'[u].validated = task[u].validated
             /\ NoCompletion => task'[u] = task[u] \/ task'[u].status # "done"
  BY <1>1
<1>3. PICK tk : tk = task'
  OBVIOUS
<1>4. Typed(tk, command, validation, review, candidate)
  BY <1>1, <1>3, Facts DEF Typed
<1>5. \A u \in Task : FlagsTrue(tk[u], validation[u])
  BY <1>2, <1>3, Facts, TaskFacts DEF FlagsTrue
<1>6. ASSUME NoRecovery, NEW c \in Command
      PROVE  RunTrue(command[c], tk[command[c].task])
  <2>1. command[c].state = "running" => command[c].task \in Task
    BY OneCommand
  <2>2. QED  BY <1>2, <1>3, <1>6, <2>1, OneCommand DEF RunTrue
<1>7. ASSUME NoCompletion, NEW u \in Task
      PROVE  DoneTrue(tk[u], validation[u], review[u]) /\ DoneRests(tk[u], command, u)
  <2>1. DoneTrue(task[u], validation[u], review[u]) /\ DoneRests(task[u], command, u)
    BY <1>7, Facts DEF Good
  <2>2. QED  BY <1>2, <1>3, <1>7, <2>1 DEF DoneTrue, DoneRests
<1>8. Good(tk, command, validation, review, candidate)
  BY <1>4, <1>5, <1>6, <1>7, Facts DEF Good
<1>9. Inv'
  BY <1>3, <1>8, Facts DEF Inv
<1>10. StepTrue
  BY <1>2, OneCommand DEF StepTrue, Passes
<1>11. QED  BY <1>9, <1>10

LEMMA OwnerOfTaskStep ==
  ASSUME Inv, NEW t \in Task, OwnerOfTask(t)
  PROVE  Inv' /\ StepTrue
<1>1. PICK z \in TaskRecord : z = task[t] /\ task \in [Task -> TaskRecord]
  BY Facts
<1>2. CASE CompleteTask(t)
  <2>1. PICK y : y = [z EXCEPT !.status = "done", !.merging = TRUE]
    OBVIOUS
  <2>2. task' = [task EXCEPT ![t] = y]
    BY <1>1, <1>2, <2>1 DEF CompleteTask, CompletedTask
  <2>3. /\ y \in TaskRecord /\ y.revision = z.revision /\ y.requested = z.requested
        /\ y.validated = z.validated
    BY <1>1, <2>1 DEF TaskRecord, Status
  <2>4. ~NoCompletion /\ UNCHANGED <<validation, review, decision, commits, command, candidate>>
    BY <1>2 DEF CompleteTask, NoCompletion, evidence
  <2>5. QED  BY <1>1, <2>2, <2>3, <2>4, Facts, OwnerWrites
<1>3. CASE ReopenTask(t)
  <2>1. PICK y : y = [z EXCEPT !.status = "in_progress", !.merging = FALSE]
    OBVIOUS
  <2>2. task' = [task EXCEPT ![t] = y]
    BY <1>1, <1>3, <2>1 DEF ReopenTask
  <2>3. /\ y \in TaskRecord /\ y.status # "done" /\ y.revision = z.revision
        /\ y.requested = z.requested /\ y.validated = z.validated
    BY <1>1, <2>1 DEF TaskRecord, Status
  <2>4. UNCHANGED <<validation, review, decision, commits, command, candidate>>
    BY <1>3 DEF ReopenTask, evidence
  <2>5. QED  BY <1>1, <2>2, <2>3, <2>4, Facts, OwnerWrites
<1>4. CASE AddDecision(t) \/ ResolveDecision(t)
  <2>1. task' = [task EXCEPT ![t] = z]
    BY <1>1, <1>4 DEF AddDecision, ResolveDecision
  <2>2. decision' \in [Task -> BOOLEAN]
    BY <1>4, Facts DEF AddDecision, ResolveDecision
  <2>3. UNCHANGED <<validation, review, commits, command, candidate>>
    BY <1>4 DEF AddDecision, ResolveDecision
  <2>4. QED  BY <1>1, <2>1, <2>2, <2>3, OwnerWrites
<1>5. QED  BY <1>2, <1>3, <1>4 DEF OwnerOfTask

-----------------------------------------------------------------------------
(* Automatic continuation.                                                   *)

(* What a task is due: a new command for its current revision, on a task     *)
(* nobody is at work on; a review only after a test. *)
LEMMA DueFacts ==
  ASSUME NEW tk \in [Task -> TaskRecord], NEW cm, NEW t \in DueTasks(tk, cm)
  PROVE  /\ t \in Task /\ ~Busy(tk, cm, t)
         /\ tk[t].status \notin {"done", "blocked"}
         /\ Directive(tk, cm, t) \in {"test", "review"}
         /\ Directive(tk, cm, t) = "review" => validation[t][tk[t].revision] = "passed"
         /\ Key(tk, t, Directive(tk, cm, t)) \in Automatic
         /\ Key(tk, t, Directive(tk, cm, t)).task = t
         /\ Key(tk, t, Directive(tk, cm, t)).revision = tk[t].revision
         /\ Key(tk, t, Directive(tk, cm, t)).phase = Directive(tk, cm, t)
         /\ cm[Key(tk, t, Directive(tk, cm, t))].state = "absent"
<1>1. PICK p : p = Directive(tk, cm, t)
  OBVIOUS
<1>2. t \in Task /\ p # "none" /\ cm[Key(tk, t, p)].state = "absent"
  BY <1>1 DEF DueTasks, Due
<1>3. /\ p \in {"test", "review"} /\ ~Busy(tk, cm, t)
      /\ tk[t].status \notin {"done", "blocked"}
      /\ p = "review" => validation[t][tk[t].revision] = "passed"
  BY <1>1, <1>2 DEF Directive, InPipeline
<1>4. tk[t].revision \in Revision
  BY <1>2 DEF TaskRecord
<1>5. /\ Key(tk, t, p) \in Automatic /\ Key(tk, t, p).task = t
      /\ Key(tk, t, p).revision = tk[t].revision /\ Key(tk, t, p).phase = p
  BY <1>2, <1>3, <1>4 DEF Key, Automatic
<1>6. QED  BY <1>1, <1>2, <1>3, <1>5

(* The commands that continuation queues for the tasks of S. *)
Queued(tk, cm, S) == {Key(tk, t, Directive(tk, cm, t)) : t \in S}

LEMMA ContinuedTasks ==
  ASSUME NEW tk \in [Task -> TaskRecord], NEW S \in SUBSET Task
  PROVE  /\ ContinuedTask(tk, S) \in [Task -> TaskRecord]
         /\ \A t \in Task :
              /\ ContinuedTask(tk, S)[t].revision = tk[t].revision
              /\ ContinuedTask(tk, S)[t].requested = tk[t].requested
              /\ ContinuedTask(tk, S)[t].validated = tk[t].validated
              /\ ContinuedTask(tk, S)[t] = tk[t] \/ ContinuedTask(tk, S)[t].status = "review"
<1>1. ASSUME NEW t \in Task
      PROVE  /\ ContinuedTask(tk, S)[t] \in TaskRecord
             /\ ContinuedTask(tk, S)[t].revision = tk[t].revision
             /\ ContinuedTask(tk, S)[t].requested = tk[t].requested
             /\ ContinuedTask(tk, S)[t].validated = tk[t].validated
             /\ ContinuedTask(tk, S)[t] = tk[t] \/ ContinuedTask(tk, S)[t].status = "review"
  <2>1. PICK z, y :
           /\ z \in TaskRecord
           /\ z = tk[t] /\ y = [z EXCEPT !.status = "review"]
    OBVIOUS
  <2>2. /\ y \in TaskRecord /\ y.status = "review" /\ y.revision = z.revision
        /\ y.requested = z.requested /\ y.validated = z.validated
    BY <2>1 DEF TaskRecord, Status
  <2>3. ContinuedTask(tk, S)[t] = IF t \in S THEN y ELSE z
    BY <2>1 DEF ContinuedTask, ScheduledTask
  <2>4. QED  BY <2>1, <2>2, <2>3
<1>2. PICK f : f = [t \in Task |-> ContinuedTask(tk, S)[t]]
  OBVIOUS
<1>3. ContinuedTask(tk, S) = f
  BY <1>2 DEF ContinuedTask
<1>4. QED  BY <1>1, <1>2, <1>3

LEMMA ContinuedCommands ==
  ASSUME NEW tk, NEW cm \in [Command -> CommandRecord], NEW S,
         Queued(tk, cm, S) \subseteq Automatic
  PROVE  /\ ContinuedCommand(tk, cm, S) \in [Command -> CommandRecord]
         /\ \A c \in Command \ Queued(tk, cm, S) : ContinuedCommand(tk, cm, S)[c] = cm[c]
         /\ \A c \in Queued(tk, cm, S) :
              LET x == ContinuedCommand(tk, cm, S)[c] IN
              /\ x.state = "queued" /\ x.task = c.task /\ x.task \in Task /\ x.phase \in Phase
              /\ x.base = 0 /\ x.outcome = 0 /\ x.head = 0 /\ x.report = "none"
<1>1. PICK Q, f : Q = Queued(tk, cm, S) /\ f = ContinuedCommand(tk, cm, S)
  OBVIOUS
<1>2. f = [c \in Command |-> IF c \in Q THEN QueuedCommand(c.task, c.phase) ELSE cm[c]]
  BY <1>1 DEF ContinuedCommand, Queued
<1>3. ASSUME NEW c \in Q
      PROVE  /\ c \in Command /\ f[c] \in CommandRecord
             /\ f[c].state = "queued" /\ f[c].task = c.task /\ c.task \in Task
             /\ f[c].phase \in Phase
             /\ f[c].base = 0 /\ f[c].outcome = 0 /\ f[c].head = 0 /\ f[c].report = "none"
  <2>1. c \in Automatic /\ c \in Command
    BY <1>1 DEF Command
  <2>2. PICK t, p : t = c.task /\ p = c.phase
    OBVIOUS
  <2>3. t \in Task /\ p \in Phase
    BY <2>1, <2>2 DEF Automatic, Phase
  <2>4. f[c] = QueuedCommand(t, p) /\ f[c] \in QueuedCommands(t, p)
    BY <1>2, <2>1, <2>2 DEF QueuedCommands
  <2>5. QED  BY <2>1, <2>2, <2>3, <2>4, QueuedTrue
<1>4. \A c \in Command \ Q : f[c] = cm[c]
  BY <1>2
<1>5. \A c \in Command : f[c] \in CommandRecord
  BY <1>3, <1>4
<1>6. f \in [Command -> CommandRecord]
  BY <1>2, <1>5
<1>7. QED  BY <1>1, <1>3, <1>4, <1>6

(* Continuation queues commands for tasks nobody is at work on. *)
Continued(tk, cm, tk2, cm2) ==
  /\ \A t \in Task : tk2[t].revision = tk[t].revision
  /\ \A c \in Command :
       \/ cm2[c] = cm[c]
       \/ /\ cm[c].state = "absent" /\ cm2[c].state = "queued"
          /\ cm2[c].base = 0 /\ cm2[c].outcome = 0

LEMMA Continuation ==
  ASSUME NEW tk, NEW cm, NEW cd, Good(tk, cm, validation, review, cd),
         NEW S \in Continuations(tk, cm), NEW tk2, tk2 = ContinuedTask(tk, S),
         NEW cm2, cm2 = ContinuedCommand(tk, cm, S)
  PROVE  Good(tk2, cm2, validation, review, cd) /\ Continued(tk, cm, tk2, cm2)
<1>1. /\ tk \in [Task -> TaskRecord] /\ cm \in [Command -> CommandRecord]
      /\ Typed(tk, cm, validation, review, cd)
  BY DEF Good, Typed
<1>2. S \subseteq DueTasks(tk, cm) /\ S \in SUBSET Task
  BY DEF Continuations, DueTasks
<1>3. PICK Q : Q = Queued(tk, cm, S)
  OBVIOUS
<1>4. ASSUME NEW c \in Q
      PROVE  /\ c \in Automatic /\ c \in Command /\ c.task \in S /\ ~Busy(tk, cm, c.task)
             /\ cm[c].state = "absent"
             /\ c.phase = "review" => validation[c.task][c.revision] = "passed"
             /\ c = Key(tk, c.task, Directive(tk, cm, c.task))
  <2>1. PICK t \in S : c = Key(tk, t, Directive(tk, cm, t))
    BY <1>3 DEF Queued
  <2>2. t \in DueTasks(tk, cm)
    BY <1>2
  <2>3. /\ c \in Automatic /\ c.task = t /\ ~Busy(tk, cm, t) /\ cm[c].state = "absent"
        /\ c.phase = Directive(tk, cm, t) /\ c.revision = tk[t].revision
        /\ c.phase = "review" => validation[t][tk[t].revision] = "passed"
    BY <1>1, <2>1, <2>2, DueFacts
  <2>4. QED  BY <2>1, <2>3 DEF Command
<1>5. /\ tk2 \in [Task -> TaskRecord]
      /\ \A t \in Task :
           /\ tk2[t].revision = tk[t].revision /\ tk2[t].requested = tk[t].requested
           /\ tk2[t].validated = tk[t].validated
           /\ tk2[t] = tk[t] \/ tk2[t].status = "review"
  BY <1>1, <1>2, ContinuedTasks
<1>6. Queued(tk, cm, S) \subseteq Automatic
  BY <1>3, <1>4
<1>7. /\ cm2 \in [Command -> CommandRecord]
      /\ \A c \in Command \ Q : cm2[c] = cm[c]
      /\ \A c \in Q :
           /\ cm2[c].state = "queued" /\ cm2[c].task = c.task
           /\ cm2[c].task \in Task /\ cm2[c].phase \in Phase
           /\ cm2[c].base = 0 /\ cm2[c].outcome = 0 /\ cm2[c].head = 0 /\ cm2[c].report = "none"
  BY <1>1, <1>3, <1>6, ContinuedCommands
<1>8. Typed(tk2, cm2, validation, review, cd)
  BY <1>1, <1>5, <1>7 DEF Typed
<1>9. ASSUME NEW c \in Command
      PROVE  CommandTrue(cm2[c], cd[c]) /\ TestedTrue(cm2, validation, c)
  <2>1. CommandTrue(cm[c], cd[c]) /\ TestedTrue(cm, validation, c)
    BY DEF Good
  <2>2. CASE c \in Q
    <3>1. cd[c].state # "pending"
      BY <1>4, <2>1, <2>2 DEF CommandTrue, NoCommand
    <3>2. CommandTrue(cm2[c], cd[c])
      BY <1>7, <2>2, <3>1 DEF CommandTrue
    <3>3. TestedTrue(cm2, validation, c)
      BY <1>4, <2>2 DEF TestedTrue
    <3>4. QED  BY <3>2, <3>3
  <2>3. CASE c \notin Q
    BY <1>7, <2>1, <2>3 DEF TestedTrue
  <2>4. QED  BY <2>2, <2>3
<1>10. \A t \in Task : FlagsTrue(tk2[t], validation[t])
  BY <1>5, TaskFacts DEF FlagsTrue
<1>11. ASSUME NoReplay
       PROVE  Single(cm2)
  <2>1. Single(cm)
    BY <1>11 DEF Good
  <2>2. ASSUME NEW c \in Command, NEW d \in Command, cm2[c].state \in Unsettled,
               cm2[d].state \in Unsettled, cm2[c].task = cm2[d].task
        PROVE  c = d
    <3>1. CASE c \in Q /\ d \in Q
      BY <1>4, <1>7, <2>2, <3>1
    <3>2. CASE c \in Q /\ d \notin Q
      BY <1>4, <1>7, <2>2, <3>2 DEF Busy
    <3>3. CASE c \notin Q /\ d \in Q
      BY <1>4, <1>7, <2>2, <3>3 DEF Busy
    <3>4. CASE c \notin Q /\ d \notin Q
      BY <1>7, <2>1, <2>2, <3>4 DEF Single
    <3>5. QED  BY <3>1, <3>2, <3>3, <3>4
  <2>3. QED  BY <2>2 DEF Single
<1>12. ASSUME NoRecovery, NEW c \in Command
       PROVE  RunTrue(cm2[c], tk2[cm2[c].task])
  <2>1. CASE cm2[c].state # "running"
    BY <2>1 DEF RunTrue
  <2>2. CASE cm2[c].state = "running"
    <3>1. cm2[c] = cm[c] /\ RunTrue(cm[c], tk[cm[c].task])
      BY <1>7, <1>12, <2>2 DEF Good
    <3>2. cm[c].task \in Task
      BY <2>2, <3>1, CommandFacts
    <3>3. QED  BY <1>5, <3>1, <3>2 DEF RunTrue
  <2>3. QED  BY <2>1, <2>2
<1>13. ASSUME NoCompletion, NEW t \in Task
       PROVE  DoneTrue(tk2[t], validation[t], review[t]) /\ DoneRests(tk2[t], cm2, t)
  <2>1. DoneTrue(tk[t], validation[t], review[t]) /\ DoneRests(tk[t], cm, t)
    BY <1>13 DEF Good
  <2>2. CASE tk2[t].status # "done"
    BY <2>2 DEF DoneTrue, DoneRests
  <2>3. CASE tk2[t].status = "done"
    <3>1. tk2[t] = tk[t] /\ tk[t].status = "done"
      BY <1>5, <2>3
    <3>2. \A c \in Q : c.task # t
      BY <1>1, <1>2, <1>4, <3>1, DueFacts
    <3>3. \A c \in Command : cm2[c].task = t => cm2[c] = cm[c]
      BY <1>7, <3>2
    <3>4. QED  BY <2>1, <3>1, <3>3 DEF DoneRests
  <2>4. QED  BY <2>2, <2>3
<1>14. Good(tk2, cm2, validation, review, cd)
  BY <1>8, <1>9, <1>10, <1>11, <1>12, <1>13 DEF Good
<1>15. Continued(tk, cm, tk2, cm2)
  BY <1>4, <1>5, <1>7 DEF Continued
<1>16. QED  BY <1>14, <1>15

LEMMA ReconcileAutomaticPipelinesStep ==
  ASSUME Inv, ReconcileAutomaticPipelines
  PROVE  Inv' /\ StepTrue
<1>1. PICK S \in Continuations(task, command) :
         task' = ContinuedTask(task, S) /\ command' = ContinuedCommand(task, command, S)
  BY DEF ReconcileAutomaticPipelines, ReconcileAutomaticProject
<1>2. UNCHANGED <<evidence, commits, candidate>>
  BY DEF ReconcileAutomaticPipelines
<1>3. PICK tk, cm : tk = task' /\ cm = command'
  OBVIOUS
<1>4. Good(tk, cm, validation, review, candidate) /\ Continued(task, command, tk, cm)
  BY <1>1, <1>3, Facts, Continuation
<1>5. Inv'
  BY <1>2, <1>3, <1>4, Facts DEF Inv, evidence
<1>6. ASSUME NEW c \in Command
      PROVE  /\ Passes(command[c], cm[c])
             /\ ~(command[c].state = "running" /\ cm[c].state = "ending")
  <2>1. command[c].state = "absent" => command[c].base = 0 /\ command[c].outcome = 0
    BY OneCommand DEF CommandTrue, NoCommand
  <2>2. QED  BY <1>4, <2>1 DEF Continued, Passes
<1>7. StepTrue
  BY <1>3, <1>4, <1>6 DEF StepTrue, Continued
<1>8. QED  BY <1>5, <1>7

LEMMA PollStep ==
  ASSUME Inv, NEW c \in Command, Poll(c)
  PROVE  Inv' /\ StepTrue
<1>1. PICK S, tk, cm :
         /\ S \in Continuations(task, command)
         /\ tk = ContinuedTask(task, S) /\ cm = ContinuedCommand(task, command, S)
         /\ cm[c].state = "queued" /\ task' = tk /\ command' = Claimed(cm, c)
  BY DEF Poll
<1>2. UNCHANGED <<evidence, commits, candidate>>
  BY DEF Poll
<1>3. Good(tk, cm, validation, review, candidate) /\ Continued(task, command, tk, cm)
  BY <1>1, Facts, Continuation
<1>4. /\ tk \in [Task -> TaskRecord] /\ cm \in [Command -> CommandRecord]
      /\ cm[c] \in CommandRecord /\ CommandTrue(cm[c], candidate[c])
      /\ cm[c].task \in Task
      /\ NoRecovery => RunTrue(cm[c], tk[cm[c].task])
  BY <1>1, <1>3, CommandFacts DEF Good, Typed
<1>5. PICK t, y, x :
         /\ t \in Task /\ y \in TaskRecord
         /\ t = cm[c].task /\ y = tk[t] /\ x = [cm[c] EXCEPT !.state = "claimed"]
  BY <1>4
<1>6. PICK cm2 : cm2 = command' /\ cm2 = [cm EXCEPT ![c] = x]
  BY <1>1, <1>4, <1>5 DEF Claimed
<1>7. /\ x \in CommandRecord /\ x.state = "claimed" /\ x.task = t
      /\ x.phase = cm[c].phase /\ x.base = cm[c].base
      /\ x.outcome = cm[c].outcome /\ x.head = cm[c].head /\ x.report = cm[c].report
  BY <1>4, <1>5 DEF CommandRecord, Unsettled
<1>8. /\ cm2 \in [Command -> CommandRecord] /\ cm2[c] = x
      /\ \A d \in Command \ {c} : cm2[d] = cm[d]
  BY <1>4, <1>6, <1>7
<1>9. Good(tk, cm2, validation, review, candidate)
  <2>1. CommandTrue(x, candidate[c]) /\ FlagsTrue(y, validation[t]) /\ RunTrue(x, y)
    BY <1>1, <1>3, <1>4, <1>5, <1>7, TaskFacts DEF CommandTrue, RunTrue
  <2>2. /\ StaysSingle(cm, c, x)
        /\ NoCompletion => StaysDone(tk, cm, validation, review, validation, review, c, t, x, y)
    BY <1>1, <1>5, <1>7, Kinds DEF StaysSingle, StaysDone
  <2>3. Typed(tk, cm2, validation, review, candidate)
    BY <1>4, <1>8, Facts DEF Typed
  <2>4. CommandStep(tk, cm, validation, review, candidate, c, t, x, y,
                    tk, cm2, validation, review, candidate)
    BY <1>1, <1>3, <1>5, <1>7, <1>8, <2>1, <2>2, <2>3 DEF CommandStep
  <2>5. QED  BY <2>4, CommandMoves
<1>10. Inv'
  BY <1>1, <1>2, <1>6, <1>9, Facts DEF Inv, evidence
<1>11. ASSUME NEW d \in Command
       PROVE  /\ Passes(command[d], cm2[d])
              /\ ~(command[d].state = "running" /\ cm2[d].state = "ending")
  <2>1. command[d].state \in {"absent", "queued"} => command[d].base = 0 /\ command[d].outcome = 0
    BY OneCommand DEF CommandTrue, NoCommand
  <2>2. cm[d] = command[d] \/ (command[d].state = "absent" /\ cm[d].state = "queued"
                               /\ cm[d].base = 0 /\ cm[d].outcome = 0)
    BY <1>3 DEF Continued
  <2>3. d = c => command[d].state \in {"absent", "queued"}
    BY <1>1, <2>2
  <2>4. CASE d = c
    BY <1>1, <1>7, <1>8, <2>1, <2>2, <2>3, <2>4 DEF Passes
  <2>5. CASE d # c
    BY <1>8, <2>1, <2>2, <2>5 DEF Passes
  <2>6. QED  BY <2>4, <2>5
<1>12. StepTrue
  BY <1>1, <1>3, <1>6, <1>11 DEF StepTrue, Continued
<1>13. QED  BY <1>10, <1>12

LEMMA SettleSucceededStep ==
  ASSUME Inv, NEW c \in Command, SettleSucceeded(c)
  PROVE  Inv' /\ StepTrue
<1>1. command[c].state = "ending" /\ UNCHANGED <<evidence, commits, candidate>>
  BY DEF SettleSucceeded
<1>2. PICK t, y, x, cm :
         /\ t \in Task /\ y \in TaskRecord
         /\ t = command[c].task /\ y = task[t]
         /\ x = [command[c] EXCEPT !.state = "succeeded", !.session = FALSE]
         /\ cm = [command EXCEPT ![c] = x]
  BY <1>1, OneCommand
<1>3. /\ x \in CommandRecord /\ x.state = "succeeded" /\ x.task = t
      /\ x.phase = command[c].phase /\ x.base = command[c].base
      /\ x.outcome = command[c].outcome /\ x.head = command[c].head
      /\ x.report = command[c].report
  BY <1>2, OneCommand DEF CommandRecord, Settled
<1>4. /\ cm \in [Command -> CommandRecord] /\ cm[c] = x
      /\ \A d \in Command \ {c} : cm[d] = command[d]
  BY <1>2, <1>3, Facts
<1>5. Good(task, cm, validation, review, candidate)
  <2>1. CommandTrue(x, candidate[c]) /\ FlagsTrue(y, validation[t]) /\ RunTrue(x, y)
    BY <1>1, <1>2, <1>3, OneCommand DEF CommandTrue, RunTrue
  <2>2. /\ StaysSingle(command, c, x)
        /\ StaysDone(task, command, validation, review, validation, review, c, t, x, y)
    BY <1>2, <1>3, Kinds DEF StaysSingle, StaysDone
  <2>3. Typed(task, cm, validation, review, candidate)
    BY <1>4, Facts DEF Typed
  <2>4. CommandStep(task, command, validation, review, candidate, c, t, x, y,
                    task, cm, validation, review, candidate)
    BY <1>1, <1>2, <1>3, <1>4, <2>1, <2>2, <2>3, Facts DEF CommandStep
  <2>5. QED  BY <2>4, CommandMoves
<1>6. cm = [command EXCEPT ![c].state = "succeeded", ![c].session = FALSE]
  BY <1>2, Facts
<1>7. PICK S \in Continuations(task, cm) :
         task' = ContinuedTask(task, S) /\ command' = ContinuedCommand(task, cm, S)
  BY <1>6 DEF SettleSucceeded, ReconcileAutomaticProject
<1>8. PICK tk2, cm2 : tk2 = task' /\ cm2 = command'
  OBVIOUS
<1>9. Good(tk2, cm2, validation, review, candidate) /\ Continued(task, cm, tk2, cm2)
  BY <1>5, <1>7, <1>8, Continuation
<1>10. Inv'
  BY <1>1, <1>8, <1>9, Facts DEF Inv, evidence
<1>11. ASSUME NEW d \in Command
       PROVE  /\ Passes(command[d], cm2[d])
              /\ ~(command[d].state = "running" /\ cm2[d].state = "ending")
  <2>1. cm2[d] = cm[d] \/ (cm[d].state = "absent" /\ cm2[d].state = "queued"
                           /\ cm2[d].base = 0 /\ cm2[d].outcome = 0)
    BY <1>9 DEF Continued
  <2>2. CASE d = c
    <3>1. cm2[d] = x
      BY <1>3, <1>4, <2>1, <2>2
    <3>2. QED  BY <1>1, <1>3, <2>2, <3>1 DEF Passes
  <2>3. CASE d # c
    <3>1. command[d].state = "absent" => command[d].base = 0 /\ command[d].outcome = 0
      BY OneCommand DEF CommandTrue, NoCommand
    <3>2. QED  BY <1>4, <2>1, <2>3, <3>1 DEF Passes
  <2>4. QED  BY <2>2, <2>3
<1>12. StepTrue
  BY <1>8, <1>9, <1>11 DEF StepTrue, Continued
<1>13. QED  BY <1>10, <1>12

LEMMA AcceptRecoveryCandidateStep ==
  ASSUME Inv, NEW c \in Command, AcceptRecoveryCandidate(c)
  PROVE  Inv' /\ StepTrue
<1>1. /\ "recover" \in Moves /\ candidate[c].state = "pending"
      /\ command[c].state \in Settled /\ UNCHANGED <<evidence, commits>>
  BY DEF AcceptRecoveryCandidate
<1>2. command[c].state # "absent" /\ command[c].head # 0 /\ ~NoRecovery
  BY <1>1, OneCommand, Kinds DEF CommandTrue, NoRecovery
<1>3. PICK t, z, x, h :
         /\ t \in Task /\ z \in TaskRecord /\ x \in CommandRecord
         /\ t = command[c].task /\ z = task[t] /\ x = command[c] /\ h = command[c].head
  BY <1>2, OneCommand
<1>4. PICK y, e :
         /\ y = [z EXCEPT !.revision = h, !.requested = h, !.validated = FALSE,
                          !.merging = FALSE, !.status = "review"]
         /\ e = [candidate[c] EXCEPT !.state = "accepted"]
  OBVIOUS
<1>5. PICK tk, cd : tk = [task EXCEPT ![t] = y] /\ cd = candidate'
  OBVIOUS
<1>6. h \in Revision /\ h \in 0..MaxRevision
  <2>1. h \in 0..MaxRevision
    BY <1>3 DEF CommandRecord
  <2>2. QED  BY <1>2, <1>3, <2>1, PipelineAssumption DEF Revision
<1>7. /\ y \in TaskRecord /\ y.revision = h /\ y.requested = h /\ y.validated = FALSE
      /\ y.status = "review"
  BY <1>3, <1>4, <1>6 DEF TaskRecord, Status
<1>8. /\ cd \in [Command -> CandidateRecord] /\ cd[c].state = "accepted"
      /\ \A d \in Command \ {c} : cd[d] = candidate[d]
  <2>1. e \in CandidateRecord /\ e.state = "accepted"
    BY <1>4, Facts DEF CandidateRecord
  <2>2. cd = [candidate EXCEPT ![c] = e]
    BY <1>4, <1>5, Facts DEF AcceptRecoveryCandidate
  <2>3. QED  BY <2>1, <2>2, Facts
<1>9. /\ tk \in [Task -> TaskRecord] /\ tk[t] = y
      /\ \A u \in Task \ {t} : tk[u] = task[u]
  BY <1>3, <1>5, <1>7, Facts
<1>10. AcceptedRevision(c) = tk
  BY <1>3, <1>4, <1>5, Facts DEF AcceptedRevision
<1>11. Good(tk, command, validation, review, cd)
  <2>1. CommandTrue(x, cd[c]) /\ FlagsTrue(y, validation[t])
    BY <1>3, <1>7, <1>8, OneCommand DEF CommandTrue, FlagsTrue
  <2>2. /\ StaysSingle(command, c, x)
        /\ StaysDone(task, command, validation, review, validation, review, c, t, x, y)
    BY <1>1, <1>3, <1>7, Kinds DEF StaysSingle, StaysDone
  <2>3. Typed(tk, command, validation, review, cd)
    BY <1>8, <1>9, Facts DEF Typed
  <2>4. CommandStep(task, command, validation, review, candidate, c, t, x, y,
                    tk, command, validation, review, cd)
    BY <1>2, <1>3, <1>7, <1>8, <1>9, <2>1, <2>2, <2>3, Facts DEF CommandStep
  <2>5. QED  BY <2>4, CommandMoves
<1>12. PICK S \in Continuations(tk, command) :
          task' = ContinuedTask(tk, S) /\ command' = ContinuedCommand(tk, command, S)
  BY <1>10 DEF AcceptRecoveryCandidate, ReconcileAutomaticProject
<1>13. PICK tk2, cm2 : tk2 = task' /\ cm2 = command'
  OBVIOUS
<1>14. Good(tk2, cm2, validation, review, cd) /\ Continued(tk, command, tk2, cm2)
  BY <1>11, <1>12, <1>13, Continuation
<1>15. Inv'
  BY <1>1, <1>5, <1>13, <1>14, Facts DEF Inv, evidence
<1>16. ASSUME NEW d \in Command
       PROVE  /\ Passes(command[d], cm2[d])
              /\ ~(command[d].state = "running" /\ cm2[d].state = "ending")
  <2>1. command[d].state = "absent" => command[d].base = 0 /\ command[d].outcome = 0
    BY OneCommand DEF CommandTrue, NoCommand
  <2>2. QED  BY <1>14, <2>1 DEF Continued, Passes
<1>17. ASSUME NEW u \in Task, tk2[u].revision # task[u].revision
       PROVE  RevisionFrom(c, u, tk2[u].revision)
  <2>1. tk2[u].revision = tk[u].revision
    BY <1>14 DEF Continued
  <2>2. u = t /\ tk2[u].revision = h
    BY <1>7, <1>9, <1>17, <2>1
  <2>3. QED  BY <1>1, <1>3, <1>5, <1>8, <2>2 DEF RevisionFrom
<1>18. StepTrue
  BY <1>13, <1>16, <1>17 DEF StepTrue
<1>19. QED  BY <1>15, <1>18

-----------------------------------------------------------------------------
(* Restart.                                                                  *)

(* What the restart leaves of a command: its end, if it was interrupted. *)
RestartLeaves(c, x, state, report) ==
  /\ x = [command[c] EXCEPT !.state = state, !.session = FALSE, !.report = report]
  /\ report \in {"none", "done"}
  /\ report # "none" => command[c].report # "none"
  /\ IF c \in Interrupted
     THEN state \in {"failed", "paused", "reconciliation_required"}
     ELSE state = command[c].state

LEMMA RestartedCommand ==
  ASSUME Inv, NEW c \in Command, NEW x, NEW state, NEW report,
         RestartLeaves(c, x, state, report)
  PROVE  /\ x \in CommandRecord /\ Passes(command[c], x)
         /\ x.state \notin {"running", "ending"} /\ x.task = command[c].task
         /\ x.state \in Unsettled => command[c].state \in Unsettled
         /\ x.state \in Live => command[c].state \in Live
         /\ x.state = "absent" <=> command[c].state = "absent"
         /\ \A cand : (cand.state = "pending" => command[c].head # 0) => CommandTrue(x, cand)
<1>1. PICK r \in CommandRecord : r = command[c]
  BY OneCommand
<1> USE DEF RestartLeaves
<1>2. /\ state \in {"absent"} \cup Unsettled \cup Settled
      /\ report \in {"none", "pending", "done"}
  BY <1>1, Kinds DEF CommandRecord
<1>3. /\ x \in CommandRecord /\ x.state = state /\ x.task = r.task /\ x.phase = r.phase
      /\ x.base = r.base /\ x.outcome = r.outcome /\ x.head = r.head /\ x.report = report
  BY <1>1, <1>2 DEF CommandRecord
<1>4. CASE c \in Interrupted
  <2>1. /\ r.state \in {"running", "ending", "fenced"}
        /\ state \in {"failed", "paused", "reconciliation_required"}
    BY <1>1, <1>4 DEF Interrupted
  <2>2. state \notin Unsettled /\ state \notin Live /\ state \in Settled \ {"succeeded"}
    BY <2>1, Kinds
  <2>3. Passes(r, x)
    BY <1>3, <2>1, <2>2 DEF Passes
  <2>4. \A cand : (cand.state = "pending" => r.head # 0) => CommandTrue(x, cand)
    BY <1>1, <1>3, <2>1, OneCommand DEF CommandTrue
  <2>5. QED  BY <1>1, <1>3, <2>1, <2>2, <2>3, <2>4
<1>5. CASE c \notin Interrupted
  <2>1. r.state \notin {"running", "ending", "fenced"} /\ state = r.state
    BY <1>1, <1>5 DEF Interrupted
  <2>2. r.state = "absent" => x = NoCommand
    <3>1. ASSUME r.state = "absent"
          PROVE  x = r
      <4>1. r = NoCommand
        BY <1>1, <3>1, OneCommand DEF CommandTrue
      <4>2. r.session = FALSE /\ r.report = "none"
        BY <4>1 DEF NoCommand
      <4>3. report = r.report
        BY <1>1, <4>2
      <4>4. x = [r EXCEPT !.state = r.state, !.session = r.session, !.report = r.report]
        BY <1>1, <2>1, <4>2, <4>3
      <4>5. QED  BY <1>1, <4>4 DEF CommandRecord
    <3>2. QED  BY <1>1, <3>1, OneCommand DEF CommandTrue
  <2>3. Passes(r, x)
    BY <1>3, <2>1 DEF Passes
  <2>4. \A cand : (cand.state = "pending" => r.head # 0) => CommandTrue(x, cand)
    BY <1>1, <1>3, <2>1, <2>2, OneCommand DEF CommandTrue
  <2>5. QED  BY <1>1, <1>3, <2>1, <2>3, <2>4
<1>6. QED  BY <1>4, <1>5

LEMMA RestartStep ==
  ASSUME Inv, Restart
  PROVE  Inv' /\ StepTrue
<1>1. PICK end \in RestartEnds,
           found \in SUBSET {c \in Command : command[c].report = "pending" /\ command[c].session} :
       LET attention == {command[c].task : c \in {d \in Interrupted : end[d] # "paused"}}
       IN /\ command' = [c \in Command |->
               [command[c] EXCEPT !.state = IF c \in Interrupted THEN end[c] ELSE @,
                                  !.session = FALSE,
                                  !.report = IF @ = "pending" /\ c \notin found THEN "none"
                                             ELSE IF c \in found THEN "done" ELSE @]]
          /\ task' = [t \in Task |-> IF t \in attention THEN Blocked(task[t]) ELSE task[t]]
          /\ candidate' = [c \in Command |-> IF c \in found
               THEN WithCandidate(candidate, c, IsDirectDescendant(c))[c] ELSE candidate[c]]
  BY DEF Restart
<1>a. /\ \A c \in found : c \in Command /\ command[c].report = "pending"
      /\ \A c \in Interrupted : end[c] \in {"failed", "paused", "reconciliation_required"}
  BY <1>1 DEF RestartEnds
<1>2. UNCHANGED <<evidence, commits>>
  BY DEF Restart
<1>3. PICK tk, cm, cd : tk = task' /\ cm = command' /\ cd = candidate'
  OBVIOUS
<1>4. ASSUME NEW c \in Command
      PROVE  /\ cm[c] \in CommandRecord /\ Passes(command[c], cm[c])
             /\ cm[c].state \notin {"running", "ending"} /\ cm[c].task = command[c].task
             /\ cm[c].state \in Unsettled => command[c].state \in Unsettled
             /\ cm[c].state \in Live => command[c].state \in Live
             /\ cm[c].state = "absent" <=> command[c].state = "absent"
             /\ \A cand : (cand.state = "pending" => command[c].head # 0) =>
                             CommandTrue(cm[c], cand)
  <2>1. PICK r, state, report :
           /\ r \in CommandRecord
           /\ r = command[c]
           /\ state = (IF c \in Interrupted THEN end[c] ELSE r.state)
           /\ report = (IF r.report = "pending" /\ c \notin found THEN "none"
                        ELSE IF c \in found THEN "done" ELSE r.report)
    BY OneCommand
  <2>2. cm[c] = [r EXCEPT !.state = state, !.session = FALSE, !.report = report]
    BY <1>1, <1>3, <2>1
  <2>3. IF c \in Interrupted
        THEN state \in {"failed", "paused", "reconciliation_required"}
        ELSE state = r.state
    BY <1>a, <2>1
  <2>4. report \in {"none", "done"} /\ (report # "none" => r.report # "none")
    BY <1>a, <2>1 DEF CommandRecord
  <2>5. RestartLeaves(c, cm[c], state, report)
    BY <2>1, <2>2, <2>3, <2>4 DEF RestartLeaves
  <2>6. QED  BY <2>5, RestartedCommand
<1>5. ASSUME NEW c \in Command
      PROVE  /\ cd[c] \in CandidateRecord
             /\ cd[c].state = "pending" => command[c].head # 0
  <2>1. candidate[c] \in CandidateRecord /\ CommandTrue(command[c], candidate[c])
    BY OneCommand, Facts
  <2>2. CASE c \in found
    <3>1. command[c].report = "pending" /\ command[c].head # 0 /\ command[c].state # "absent"
      BY <1>a, <2>1, <2>2 DEF CommandTrue, NoCommand
    <3>2. PICK e \in BOOLEAN : e = IsDirectDescendant(c)
      BY DEF IsDirectDescendant
    <3>3. cd[c] = WithCandidate(candidate, c, e)[c]
      BY <1>1, <1>3, <2>2, <3>2
    <3>4. WithCandidate(candidate, c, e) \in [Command -> CandidateRecord]
      BY <3>1, CandidateAdded
    <3>5. QED  BY <3>1, <3>3, <3>4
  <2>3. CASE c \notin found
    BY <1>1, <1>3, <2>1, <2>3 DEF CommandTrue
  <2>4. QED  BY <2>2, <2>3
<1>6. ASSUME NEW t \in Task
      PROVE  /\ tk[t] \in TaskRecord /\ tk[t].revision = task[t].revision
             /\ tk[t].requested = task[t].requested /\ tk[t].validated = task[t].validated
             /\ tk[t].status = "done" => tk[t] = task[t]
  <2>1. tk[t] \in {task[t], Blocked(task[t])}
    BY <1>1, <1>3
  <2>2. QED  BY <2>1, AttentionTask
<1>7. Typed(tk, cm, validation, review, cd)
  <2>1. /\ tk = [t \in Task |-> tk[t]] /\ cm = [c \in Command |-> cm[c]]
        /\ cd = [c \in Command |-> cd[c]]
    BY <1>1, <1>3
  <2>2. /\ tk \in [Task -> TaskRecord] /\ cm \in [Command -> CommandRecord]
        /\ cd \in [Command -> CandidateRecord]
    BY <1>4, <1>5, <1>6, <2>1
  <2>3. QED  BY <2>2, Facts DEF Typed
<1>8. \A c \in Command : CommandTrue(cm[c], cd[c]) /\ TestedTrue(cm, validation, c)
  BY <1>4, <1>5, Facts DEF Good, TestedTrue
<1>9. \A t \in Task : FlagsTrue(tk[t], validation[t])
  BY <1>6, Facts, TaskFacts DEF FlagsTrue
<1>10. NoReplay => Single(cm)
  BY <1>4, Facts DEF Single
<1>11. \A c \in Command : RunTrue(cm[c], tk[cm[c].task])
  BY <1>4 DEF RunTrue
<1>12. ASSUME NoCompletion, NEW t \in Task
       PROVE  DoneTrue(tk[t], validation[t], review[t]) /\ DoneRests(tk[t], cm, t)
  <2>1. DoneTrue(task[t], validation[t], review[t]) /\ DoneRests(task[t], command, t)
    BY <1>12, Facts DEF Good
  <2>2. QED  BY <1>4, <1>6, <2>1 DEF DoneTrue, DoneRests
<1>13. Good(tk, cm, validation, review, cd)
  BY <1>7, <1>8, <1>9, <1>10, <1>11, <1>12 DEF Good
<1>14. Inv'
  BY <1>2, <1>3, <1>13, Facts DEF Inv, evidence
<1>15. StepTrue
  BY <1>3, <1>4, <1>6 DEF StepTrue
<1>16. QED  BY <1>14, <1>15

-----------------------------------------------------------------------------
(* The theorems.                                                             *)

LEMMA InitInv == Init => Inv
<1> SUFFICES ASSUME Init
             PROVE  Inv
  OBVIOUS
<1>1. PICK z, e : /\ z = [status |-> "ready", worker |-> None, revision |-> 1,
                          requested |-> 0, validated |-> FALSE, merging |-> FALSE]
                  /\ e = [state |-> "none", base |-> 0]
  OBVIOUS
<1>2. /\ task = [t \in Task |-> z] /\ command = [c \in Command |-> NoCommand]
      /\ candidate = [c \in Command |-> e]
      /\ validation = [t \in Task |-> [r \in Revision |-> "none"]]
      /\ review = [t \in Task |-> [r \in Revision |-> "none"]]
      /\ decision = [t \in Task |-> FALSE] /\ commits = [t \in Task |-> 1]
  BY <1>1 DEF Init
<1>3. 1 \in Revision /\ 0 \in 0..MaxRevision
  BY PipelineAssumption DEF Revision
<1>4. /\ z \in TaskRecord /\ z.status = "ready" /\ z.validated = FALSE /\ z.requested = 0
      /\ e \in CandidateRecord /\ e.state = "none"
  BY <1>1, <1>3 DEF TaskRecord, CandidateRecord, Status
<1>5. NoCommand \in CommandRecord /\ NoCommand.state = "absent" /\ NoCommand.report = "none"
  BY <1>3 DEF NoCommand, CommandRecord
<1>6. Typed(task, command, validation, review, candidate)
  BY <1>2, <1>4, <1>5 DEF Typed, Validations, Reviews
<1>7. CommandTrue(NoCommand, e)
  BY <1>4, <1>5 DEF CommandTrue
<1>8. \A c \in Command : CommandTrue(command[c], candidate[c]) /\ TestedTrue(command, validation, c)
  BY <1>2, <1>5, <1>7 DEF TestedTrue
<1>9. \A t \in Task : FlagsTrue(task[t], validation[t])
  BY <1>2, <1>4 DEF FlagsTrue
<1>10. Single(command)
  BY <1>2, <1>5, Kinds DEF Single
<1>11. \A c \in Command : RunTrue(command[c], task[command[c].task])
  BY <1>2, <1>5 DEF RunTrue
<1>12. \A t \in Task : /\ DoneTrue(task[t], validation[t], review[t])
                        /\ DoneRests(task[t], command, t)
  BY <1>2, <1>4 DEF DoneTrue, DoneRests
<1>13. Good(task, command, validation, review, candidate)
  BY <1>6, <1>8, <1>9, <1>10, <1>11, <1>12 DEF Good
<1>14. QED  BY <1>2, <1>3, <1>13 DEF Inv

LEMMA NextStep ==
  ASSUME Inv, Next
  PROVE  Inv' /\ StepTrue
<1>1. CASE ReconcileAutomaticPipelines \/ Restart
  BY <1>1, ReconcileAutomaticPipelinesStep, RestartStep
<1>2. ASSUME NEW c \in Command, Daemon(c)
      PROVE  Inv' /\ StepTrue
  BY <1>2, PollStep, LoseClaimStep, AcceptCommandExecutionStep DEF Daemon
<1>3. ASSUME NEW c \in Command, Agent(c)
      PROVE  Inv' /\ StepTrue
  BY <1>3, ClaimReleaseBlockStep, RequestReviewStep, RecordValidationStep, SubmitReviewStep,
     CommitStep DEF Agent
<1>4. ASSUME NEW c \in Command, HostWorker(c)
      PROVE  Inv' /\ StepTrue
  BY <1>4, PiReadyStep, RecordHostGitRevisionStep, EndPhaseStep, FenceStep,
     SettleSucceededStep, SettleStoppedStep DEF HostWorker
<1>5. ASSUME NEW c \in Command, OwnerOfCommand(c)
      PROVE  Inv' /\ StepTrue
  BY <1>5, ScheduleOwnerTaskRunStep, ResumeOwnerTaskRunStep, QueueExecutionReplacementStep,
     RetryCommandStep, ResetCommandStep, CancelUncertainExecutionStep,
     AcceptRecoveryCandidateStep, RejectRecoveryCandidateStep DEF OwnerOfCommand
<1>6. ASSUME NEW t \in Task, OwnerOfTask(t)
      PROVE  Inv' /\ StepTrue
  BY <1>6, OwnerOfTaskStep
<1>7. QED  BY <1>1, <1>2, <1>3, <1>4, <1>5, <1>6 DEF Next

LEMMA StutterStep ==
  ASSUME Inv, UNCHANGED vars
  PROVE  Inv' /\ StepTrue
<1>1. /\ task' = task /\ command' = command /\ validation' = validation /\ review' = review
      /\ decision' = decision /\ commits' = commits /\ candidate' = candidate
  BY DEF vars, evidence
<1>2. Inv'
  BY <1>1 DEF Inv
<1>3. StepTrue
  BY <1>1 DEF StepTrue, Passes
<1>4. QED  BY <1>2, <1>3

(* The invariant the other theorems rest on, in every reachable state. *)
THEOREM Invariance == Spec => []Inv
<1>1. Inv /\ [Next]_vars => Inv'
  BY NextStep, StutterStep
<1>2. QED  BY InitInv, <1>1, PTL DEF Spec

(* Every step changes commands and revisions as StepTrue allows. *)
LEMMA EveryStep == Spec => [][StepTrue]_vars
<1>1. Inv /\ [Next]_vars => [StepTrue]_vars
  BY NextStep
<1>2. QED  BY <1>1, Invariance, PTL DEF Spec

(* Every row of the tables keeps its type: tasks, evidence, commands and     *)
(* recovery candidates (the schema of store.mjs).                            *)
THEOREM TypeCorrect == Spec => []TypeOK
<1>1. Inv => TypeOK
  BY Facts, TypedIsTypeOK DEF Inv, Good
<1>2. QED  BY <1>1, Invariance, PTL

(* The flags of a task speak of its current revision, whatever the owner     *)
(* does (recordHostGitRevision, resolveRecoveryCandidate).                   *)
THEOREM EvidenceCurrent == Spec => []EvidenceIsCurrent
<1>1. Inv => EvidenceIsCurrent
  BY DEF Inv, Good, FlagsTrue, EvidenceIsCurrent
<1>2. QED  BY <1>1, Invariance, PTL

(* Automatic continuation never reviews a revision that has no validation,   *)
(* whatever the owner does (automaticPipelineDirectives).                    *)
THEOREM ReviewTested == Spec => []AutomaticReviewWasTested
<1>1. Inv => AutomaticReviewWasTested
  <2>1. \A c \in Automatic : c \in Command
    BY DEF Command
  <2>2. QED  BY <2>1 DEF Inv, Good, TestedTrue, AutomaticReviewWasTested, Present
<1>2. QED  BY <1>1, Invariance, PTL

(* The revision of a task only moves to a commit of a running execution of   *)
(* that task or of a candidate the owner accepts (recordHostGitRevision).    *)
THEOREM LateEvidence == Spec => LateEvidenceIsQuarantined
<1> DEFINE Quarantined == \A t \in Task : task'[t].revision # task[t].revision =>
       \E c \in Command :
         /\ command[c].task = t /\ command[c].head = task'[t].revision
         /\ \/ command[c].state = "running"
            \/ candidate[c].state = "pending" /\ candidate'[c].state = "accepted"
<1>1. StepTrue => Quarantined
  BY DEF StepTrue, RevisionFrom
<1>2. [StepTrue]_vars => [Quarantined]_vars
  BY <1>1
<1>3. QED  BY <1>2, EveryStep, PTL DEF LateEvidenceIsQuarantined

(* At most one phase of a task is queued, claimed or under way while the     *)
(* owner does not resume, replace or retry (scheduleOwnerTaskRun).           *)
THEOREM OnePhase ==
  ASSUME NoReplay
  PROVE  Spec => []OnePhaseAtATime
<1>1. Inv => OnePhaseAtATime
  BY Facts DEF Single, OnePhaseAtATime
<1>2. QED  BY <1>1, Invariance, PTL

(* A done task keeps a passed validation, an approving review and a merge    *)
(* request of its current revision, while moreover every completion is that  *)
(* of a review phase (evaluateCompletion, executeTaskPhase).                 *)
THEOREM DoneEvidence ==
  ASSUME NoCompletion
  PROVE  Spec => []DoneHasEvidence
<1>1. Inv => DoneHasEvidence
  BY DEF Inv, Good, DoneTrue, DoneHasEvidence
<1>2. QED  BY <1>1, Invariance, PTL

(* No commit becomes the revision of a task over work it has not seen, while *)
(* the owner neither replays phases nor adopts late evidence                 *)
(* (recordHostGitRevision does not compare the parent).                      *)
THEOREM Descends ==
  ASSUME NoRecovery
  PROVE  Spec => RevisionsDescend
<1> DEFINE Descending == \A t \in Task : task'[t].revision # task[t].revision =>
       \E c \in Command : /\ command[c].task = t /\ command[c].head = task'[t].revision
                          /\ command[c].base = task[t].revision
<1>1. ASSUME Inv, StepTrue
      PROVE  Descending
  <2>1. ASSUME NEW t \in Task, NEW c \in Command, RevisionFrom(c, t, task'[t].revision)
        PROVE  command[c].base = task[t].revision
    <3>1. /\ command[c].task = t /\ command[c].state = "running"
          /\ command[c].report = "pending"
      BY <2>1 DEF RevisionFrom, NoRecovery
    <3>2. QED  BY <1>1, <3>1, OneCommand DEF RunTrue
  <2>2. QED  BY <1>1, <2>1 DEF StepTrue, RevisionFrom
<1>2. Inv /\ [StepTrue]_vars => [Descending]_vars
  BY <1>1
<1>3. QED  BY <1>2, EveryStep, Invariance, PTL DEF RevisionsDescend

(* A phase that ends with its outcome recorded it for the revision the task  *)
(* then has, under the same condition (taskPhaseOutcome asks less).          *)
THEOREM OutcomeCurrent ==
  ASSUME NoRecovery
  PROVE  Spec => OutcomeIsCurrent
<1> DEFINE Current == \A c \in Command :
       command[c].state = "running" /\ command'[c].state = "ending" =>
         command[c].outcome = task[command[c].task].revision
<1>1. ASSUME Inv, StepTrue
      PROVE  Current
  <2>1. ASSUME NEW c \in Command, command[c].state = "running", command'[c].state = "ending"
        PROVE  command[c].outcome = task[command[c].task].revision
    <3>1. PhaseOutcomeRecorded(c)
      BY <1>1, <2>1 DEF StepTrue
    <3>2. /\ RunTrue(command[c], task[command[c].task])
          /\ command[c].phase \in Phase /\ task[command[c].task].revision # 0
      BY <1>1, <2>1, OneCommand DEF Revision
    <3>3. CASE command[c].phase = "review"
      BY <3>1, <3>3 DEF PhaseOutcomeRecorded
    <3>4. CASE command[c].phase = "test"
      <4>1. command[c].outcome # 0
        BY <3>1, <3>4 DEF PhaseOutcomeRecorded
      <4>2. QED  BY <2>1, <3>2, <3>4, <4>1 DEF RunTrue
    <3>5. CASE command[c].phase = "implementation"
      <4>1. /\ command[c].outcome # 0
            /\ task[command[c].task].requested = task[command[c].task].revision
        BY <3>1, <3>5 DEF PhaseOutcomeRecorded, ReviewRequested
      <4>2. QED  BY <2>1, <3>2, <4>1 DEF RunTrue
    <3>6. QED  BY <3>2, <3>3, <3>4, <3>5 DEF Phase
  <2>2. QED  BY <2>1
<1>2. Inv /\ [StepTrue]_vars => [Current]_vars
  BY <1>1
<1>3. QED  BY <1>2, EveryStep, Invariance, PTL DEF OutcomeIsCurrent

-----------------------------------------------------------------------------
(* The refinement of ExecutionAuthority.                                     *)

LEMMA Successors ==
  /\ Authority!Successor["waiting"] = {"granted", "closed", "withdrawn"}
  /\ Authority!Successor["granted"] = {"fenced", "closed", "quarantined"}
  /\ Authority!Successor["fenced"] = {"closed", "quarantined", "succeeded"}
  /\ Authority!Successor["quarantined"] = {"closed"}
  /\ DOMAIN Authority!Successor =
       {"waiting", "withdrawn", "granted", "fenced", "quarantined", "closed", "succeeded"}
BY DEF Authority!Successor

LEMMA AuthorityValue ==
  ASSUME NEW state \in {"absent"} \cup Unsettled \cup Settled, NEW base
  PROVE  /\ AuthorityWhen(state, base) \in DOMAIN Authority!Successor
         /\ state \in {"absent", "queued", "claimed"} => AuthorityWhen(state, base) = "waiting"
         /\ state \in Settled /\ base = 0 => AuthorityWhen(state, base) = "withdrawn"
         /\ state = "running" => AuthorityWhen(state, base) = "granted"
         /\ state \in {"ending", "fenced"} => AuthorityWhen(state, base) = "fenced"
         /\ state = "succeeded" /\ base # 0 => AuthorityWhen(state, base) = "succeeded"
         /\ state = "reconciliation_required" /\ base # 0 =>
              AuthorityWhen(state, base) = "quarantined"
         /\ state \in {"failed", "paused", "cancelled"} /\ base # 0 =>
              AuthorityWhen(state, base) = "closed"
BY Successors DEF AuthorityWhen, Unsettled, Settled

(* The course of a command is one of its authority. *)
LEMMA PassesAdvances ==
  ASSUME NEW x0 \in CommandRecord, NEW x \in CommandRecord, Passes(x0, x),
         NEW cand0, NEW cand, CommandTrue(x0, cand0), CommandTrue(x, cand)
  PROVE  LET from == AuthorityWhen(x0.state, x0.base)
             to == AuthorityWhen(x.state, x.base)
         IN /\ to \in DOMAIN Authority!Successor
            /\ to = from \/ to \in Authority!Successor[from]
            /\ (x.outcome # 0) = (x0.outcome # 0) \/ (from = "granted" /\ x.outcome # 0)
            /\ to = "succeeded" => x.outcome # 0
<1> DEFINE from == AuthorityWhen(x0.state, x0.base)
           to == AuthorityWhen(x.state, x.base)
<1>1. /\ x0.state \in {"absent"} \cup Unsettled \cup Settled
      /\ x.state \in {"absent"} \cup Unsettled \cup Settled
  BY DEF CommandRecord
<1>2. x0.state \in {"running", "ending", "fenced"} => x0.base # 0
  BY DEF CommandTrue
<1>3. x0.state = "claimed" => x0.base = 0
  BY DEF CommandTrue
<1>4. to = from \/ to \in Authority!Successor[from]
  <2>1. CASE x.state = x0.state /\ x.base = x0.base
    BY <2>1
  <2>2. CASE {x0.state, x.state} \subseteq {"absent", "queued", "claimed"}
    BY <1>1, <2>2, AuthorityValue
  <2>3. CASE x0.state = "claimed" /\ x.state \in {"running", "failed"} /\ x.base # 0
    <3>1. from = "waiting" /\ to \in {"granted", "closed"}
      BY <1>1, <2>3, AuthorityValue
    <3>2. QED  BY <3>1, Successors
  <2>4. CASE x0.state = "claimed" /\ x.state = "reconciliation_required" /\ x.base = x0.base
    <3>1. from = "waiting" /\ to = "withdrawn"
      BY <1>1, <1>3, <2>4, AuthorityValue, Kinds
    <3>2. QED  BY <3>1, Successors
  <2>5. CASE x0.state = "running" /\ x.state \in {"ending", "fenced"}
    <3>1. from = "granted" /\ to = "fenced"
      BY <1>1, <2>5, AuthorityValue
    <3>2. QED  BY <3>1, Successors
  <2>6. CASE /\ x0.state \in {"running", "ending", "fenced"} /\ x.base = x0.base
             /\ x.state \in Settled \ {"succeeded"}
    <3>1. from \in {"granted", "fenced"}
      BY <1>1, <2>6, AuthorityValue
    <3>2. x.state \in {"failed", "paused", "cancelled", "reconciliation_required"}
      BY <2>6 DEF Settled
    <3>3. to \in {"closed", "quarantined"}
      BY <1>1, <1>2, <2>6, <3>2, AuthorityValue
    <3>4. QED  BY <3>1, <3>3, Successors
  <2>7. CASE x0.state = "ending" /\ x.state = "succeeded" /\ x.base = x0.base
    <3>1. from = "fenced" /\ to = "succeeded"
      BY <1>1, <1>2, <2>7, AuthorityValue
    <3>2. QED  BY <3>1, Successors
  <2>8. CASE /\ x0.state = "reconciliation_required" /\ x.state = "cancelled"
             /\ x.base = x0.base
    <3>1. \/ from = "quarantined" /\ to = "closed"
          \/ from = "withdrawn" /\ to = "withdrawn"
      BY <1>1, <2>8, AuthorityValue, Kinds
    <3>2. QED  BY <3>1, Successors
  <2>9. QED  BY <2>1, <2>2, <2>3, <2>4, <2>5, <2>6, <2>7, <2>8 DEF Passes
<1>5. (x.outcome # 0) = (x0.outcome # 0) \/ (from = "granted" /\ x.outcome # 0)
  BY <1>1, AuthorityValue DEF Passes
<1>6. to = "succeeded" => x.outcome # 0
  <2>1. to = "succeeded" => x.state = "succeeded"
    BY <1>1, AuthorityValue, Kinds
  <2>2. QED  BY <2>1 DEF CommandTrue
<1>7. to \in DOMAIN Authority!Successor
  BY <1>1, AuthorityValue
<1>8. QED  BY <1>4, <1>5, <1>6, <1>7

(* The commands of the pipeline keep the authority contract: it is granted   *)
(* once, an outcome is recorded only under it, and success needs that        *)
(* outcome, whatever the owner does and across restarts (authorizeCapability *)
(* and recoverCommandExecutions).                                            *)
THEOREM AuthorityRefinement == Spec => ImplementsAuthority
<1> DEFINE held == [c \in Command |-> AuthorityWhen(command[c].state, command[c].base)]
           recorded == [c \in Command |-> command[c].outcome # 0]
<1>1. Init => Authority!Init
  <2>1. SUFFICES ASSUME Init
                 PROVE  Authority!Init
    OBVIOUS
  <2>2. \A c \in Command : command[c].state = "absent" /\ command[c].outcome = 0
    BY <2>1 DEF Init, NoCommand
  <2>3. \A c \in Command :
          AuthorityWhen(command[c].state, command[c].base) = "waiting"
    BY <2>2, AuthorityValue
  <2>4. /\ held = [c \in Command |-> "waiting"]
        /\ recorded = [c \in Command |-> FALSE]
    BY <2>2, <2>3
  <2>5. QED  BY <2>4 DEF Authority!Init
<1>2. Inv /\ Inv' /\ StepTrue => Authority!Next
  <2>1. SUFFICES ASSUME Inv, Inv', StepTrue
                 PROVE  Authority!Next
    OBVIOUS
  <2>2. PICK cm, cd : cm = command' /\ cd = candidate'
    OBVIOUS
  <2>3. \A c \in Command : cm[c] \in CommandRecord /\ CommandTrue(cm[c], cd[c])
    BY <2>1, <2>2 DEF Inv, Good, Typed
  <2>4. ASSUME NEW c \in Command
        PROVE  /\ held'[c] \in DOMAIN Authority!Successor
               /\ recorded'[c] \in BOOLEAN
               /\ Authority!Advance(c)
    <3>1. /\ held[c] = AuthorityWhen(command[c].state, command[c].base)
          /\ held'[c] = AuthorityWhen(cm[c].state, cm[c].base)
          /\ recorded[c] = (command[c].outcome # 0)
          /\ recorded'[c] = (cm[c].outcome # 0)
      BY <2>2
    <3>2. /\ command[c] \in CommandRecord /\ CommandTrue(command[c], candidate[c])
          /\ Passes(command[c], cm[c])
      BY <2>1, <2>2, OneCommand DEF StepTrue
    <3>3. /\ held'[c] \in DOMAIN Authority!Successor
          /\ held'[c] = held[c] \/ held'[c] \in Authority!Successor[held[c]]
          /\ recorded'[c] = recorded[c] \/ (held[c] = "granted" /\ recorded'[c])
          /\ held'[c] = "succeeded" => recorded'[c]
      BY <2>3, <3>1, <3>2, PassesAdvances
    <3>4. QED  BY <3>1, <3>3 DEF Authority!Advance
  <2>5. QED  BY <2>4 DEF Authority!Next
<1>3. Inv /\ Inv' /\ [StepTrue]_vars => [Authority!Next]_(Authority!vars)
  <2>1. UNCHANGED vars => UNCHANGED Authority!vars
    BY DEF vars, Authority!vars
  <2>2. QED  BY <1>2, <2>1
<1>4. QED
  BY <1>1, <1>3, Invariance, EveryStep, PTL DEF ImplementsAuthority, Authority!Spec, Spec
===============================================================================
