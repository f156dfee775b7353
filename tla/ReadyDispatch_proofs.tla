------------------------- MODULE ReadyDispatch_proofs -------------------------
(***************************************************************************)
(* Proofs about ReadyDispatch for every set of projects, tasks and         *)
(* dependencies, and every pair of limits.                                 *)
(*                                                                         *)
(* The ORDER BY of the selection is a strict total order on tasks, so a    *)
(* finite set of tasks that is not empty has exactly one first element:    *)
(* that makes the task NextReady chooses the one the other query numbers   *)
(* one.  The limits are inductive although most steps ask for no limit:    *)
(* what they add is not the scheduler's, and nothing they do makes a row   *)
(* of the scheduler active again (Adds).  The places are kept because a    *)
(* release alone writes released_at, from a clock no task is ahead of      *)
(* (Queued).                                                               *)
(***************************************************************************)
EXTENDS ReadyDispatch, FiniteSetTheorems, TLAPS

TaskTable == [Task -> TaskRow]

\* A task in the queue was released, and not after the last reading of the clock.
Queued(tk, c) ==
    \A t \in Task : tk[t].released <= c /\ (tk[t].policy # "manual" => tk[t].released # 0)

Inv ==
    /\ TypeOK
    /\ Queued(task, clock)
    /\ SchedulerWithinLimits

-----------------------------------------------------------------------------
(***************************************************************************)
(* The order of the queue.                                                 *)
(***************************************************************************)

\* What the order compares are numbers.
LEMMA Columns ==
    ASSUME NEW tk \in TaskTable, NEW t \in Task
    PROVE  tk[t].priority \in Int /\ tk[t].released \in Int /\ t \in Int
<1>1. tk[t] \in TaskRow
    BY DEF TaskTable
<1>2. tk[t].priority \in Priority /\ tk[t].released \in 0..MaxClock
    BY <1>1 DEF TaskRow
<1>3. t \in Int
    BY DispatchAssumption DEF Task
<1>4. MaxClock \in Int /\ Priority \subseteq Int
    BY DispatchAssumption
<1>5. tk[t].released \in Int
    BY <1>2, <1>4
<1>6. tk[t].priority \in Int
    BY <1>2, <1>4
<1>. QED
    BY <1>3, <1>5, <1>6

LEMMA BeforeIsStrict ==
    ASSUME NEW tk \in TaskTable, NEW t \in Task, NEW u \in Task
    PROVE  /\ ~Before(tk, t, t)
           /\ t # u => Before(tk, t, u) \/ Before(tk, u, t)
           /\ ~(Before(tk, t, u) /\ Before(tk, u, t))
BY Columns DEF Before

LEMMA BeforeIsTransitive ==
    ASSUME NEW tk \in TaskTable, NEW t \in Task, NEW u \in Task, NEW w \in Task,
           Before(tk, t, u), Before(tk, u, w)
    PROVE  Before(tk, t, w)
BY Columns DEF Before

Leads(tk, S, t) == t \in S /\ \A u \in S \ {t} : Before(tk, t, u)

LEMMA TasksAreFinite == IsFiniteSet(Task)
BY DispatchAssumption, FS_Interval DEF Task

\* Every set of tasks has a first one: a least set without one would lose it with any element.
LEMMA SomebodyLeads ==
    ASSUME NEW tk \in TaskTable, NEW S \in SUBSET Task, S # {}
    PROVE  \E t \in S : Leads(tk, S, t)
<1>. DEFINE Headless == {T \in SUBSET Task : T # {} /\ ~(\E t \in T : Leads(tk, T, t))}
<1>1. SUFFICES ASSUME S \in Headless PROVE FALSE
    OBVIOUS
<1>2. FiniteSubsetsOf(Task) = SUBSET Task
    BY TasksAreFinite, FS_FiniteSubsetsOfFinite
<1>3. IsWellFoundedOn(StrictSubsetOrdering(Task), SUBSET Task)
    BY <1>2, FS_StrictSubsetOrderingWellFounded
<1>4. Headless \subseteq SUBSET Task /\ Headless # {}
    BY <1>1
<1>5. \E x \in Headless : \A y \in Headless : ~(<<y, x>> \in StrictSubsetOrdering(Task))
    <2>. HIDE DEF Headless
    <2>. QED BY <1>3, <1>4, WFMin
<1>6. PICK T : T \in Headless /\ \A y \in Headless : ~(<<y, T>> \in StrictSubsetOrdering(Task))
    BY <1>5
<1>7. PICK x : x \in T
    BY <1>6
<1>. DEFINE R == T \ {x}
<1>8. R \notin Headless
    <2>1. <<R, T>> \in StrictSubsetOrdering(Task)
        BY <1>6, <1>7 DEF StrictSubsetOrdering
    <2>. QED BY <1>6, <2>1
<1>9. CASE R = {}
    <2>1. T = {x}
        BY <1>7, <1>9
    <2>2. Leads(tk, T, x)
        BY <2>1 DEF Leads
    <2>. QED BY <1>6, <1>7, <2>2
<1>10. CASE R # {}
    <2>1. PICK m : m \in R /\ Leads(tk, R, m)
        BY <1>6, <1>8, <1>10
    <2>2. x \in Task /\ m \in Task /\ m # x /\ m \in T
        BY <1>6, <1>7, <2>1
    <2>3. CASE Before(tk, x, m)
        <3>1. ASSUME NEW u \in T \ {x} PROVE Before(tk, x, u)
            <4>1. u \in R /\ u \in Task
                BY <1>6
            <4>2. CASE u = m
                BY <2>3, <4>2
            <4>3. CASE u # m
                BY <2>1, <2>2, <2>3, <4>1, <4>3, BeforeIsTransitive DEF Leads
            <4>. QED BY <4>2, <4>3
        <3>2. Leads(tk, T, x)
            BY <1>7, <3>1 DEF Leads
        <3>. QED BY <1>6, <1>7, <3>2
    <2>4. CASE ~Before(tk, x, m)
        <3>1. Before(tk, m, x)
            BY <2>2, <2>4, BeforeIsStrict
        <3>2. Leads(tk, T, m)
            BY <2>1, <2>2, <3>1 DEF Leads
        <3>. QED BY <1>6, <2>2, <3>2
    <2>. QED BY <2>3, <2>4
<1>. QED BY <1>9, <1>10

LEMMA FirstLeads ==
    ASSUME NEW tk \in TaskTable, NEW S \in SUBSET Task, S # {}
    PROVE  /\ Leads(tk, S, First(tk, S))
           /\ \A t \in S : Leads(tk, S, t) => t = First(tk, S)
<1>1. Leads(tk, S, First(tk, S))
    BY SomebodyLeads DEF First, Leads
<1>2. ASSUME NEW t \in S, Leads(tk, S, t), t # First(tk, S) PROVE FALSE
    <2>1. First(tk, S) \in Task /\ t \in Task
        BY <1>1 DEF Leads
    <2>2. Before(tk, t, First(tk, S)) /\ Before(tk, First(tk, S), t)
        BY <1>1, <1>2 DEF Leads
    <2>. QED BY <2>1, <2>2, BeforeIsStrict
<1>. QED BY <1>1, <1>2

LEMMA LeastIndex ==
    ASSUME NEW cm \in Seq(CommandRow), NEW Q \in SUBSET DOMAIN cm, Q # {}
    PROVE  Min(Q) \in Q
<1>. DEFINE Bottomless == {T \in SUBSET DOMAIN cm : T # {} /\ ~(\E i \in T : \A j \in T : i <= j)}
<1>1. Bottomless = {}
    <2>1. SUFFICES ASSUME Bottomless # {} PROVE FALSE
        OBVIOUS
    <2>2. IsFiniteSet(DOMAIN cm)
        <3>1. DOMAIN cm = 1..Len(cm) /\ Len(cm) \in Int
            OBVIOUS
        <3>. QED BY <3>1, FS_Interval
    <2>3. FiniteSubsetsOf(DOMAIN cm) = SUBSET DOMAIN cm
        BY <2>2, FS_FiniteSubsetsOfFinite
    <2>4. IsWellFoundedOn(StrictSubsetOrdering(DOMAIN cm), SUBSET DOMAIN cm)
        BY <2>3, FS_StrictSubsetOrderingWellFounded
    <2>5. \E x \in Bottomless : \A y \in Bottomless : ~(<<y, x>> \in StrictSubsetOrdering(DOMAIN cm))
        <3>1. Bottomless \subseteq SUBSET DOMAIN cm
            OBVIOUS
        <3>. HIDE DEF Bottomless
        <3>. QED BY <2>1, <2>4, <3>1, WFMin
    <2>6. PICK T : /\ T \in Bottomless
                   /\ \A y \in Bottomless : ~(<<y, T>> \in StrictSubsetOrdering(DOMAIN cm))
        BY <2>5
    <2>7. PICK x : x \in T
        BY <2>6
    <2>8. T \ {x} \notin Bottomless
        <3>1. <<T \ {x}, T>> \in StrictSubsetOrdering(DOMAIN cm)
            BY <2>6, <2>7 DEF StrictSubsetOrdering
        <3>. QED BY <2>6, <3>1
    <2>9. T \subseteq Int
        BY <2>6
    <2>10. T \ {x} # {}
        BY <2>6, <2>7, <2>9
    <2>11. PICK m : m \in T \ {x} /\ \A j \in T \ {x} : m <= j
        BY <2>6, <2>8, <2>10
    <2>12. \E i \in T : \A j \in T : i <= j
        <3>1. CASE m <= x
            BY <2>9, <2>11, <3>1
        <3>2. CASE ~(m <= x)
            BY <2>7, <2>9, <2>11, <3>2
        <3>. QED BY <3>1, <3>2
    <2>. QED BY <2>6, <2>12
<1>2. \E i \in Q : \A j \in Q : i <= j
    BY <1>1
<1>. QED BY <1>2 DEF Min

-----------------------------------------------------------------------------
(***************************************************************************)
(* The two queries agree.                                                  *)
(***************************************************************************)

Candidates(tk, cm, p) == {t \in Task : ProjectOf[t] = p /\ Selectable(tk, cm, t)}

LEMMA NotNone == \A t \in Task : t # None
BY DispatchAssumption DEF Task, None

LEMMA NextIsACandidate ==
    ASSUME NEW tk \in TaskTable, NEW cm, NEW p, NEW blocked,
           NextReady(tk, cm, p, blocked) # None
    PROVE  /\ NextReady(tk, cm, p, blocked) \in Candidates(tk, cm, p)
           /\ CapacityLeft(cm, p) /\ ~(Len(cm) >= MaxCommands)
<1>1. /\ Candidates(tk, cm, p) # {} /\ CapacityLeft(cm, p) /\ ~(Len(cm) >= MaxCommands)
      /\ NextReady(tk, cm, p, blocked) = First(tk, Candidates(tk, cm, p))
    BY DEF NextReady, Candidates
<1>2. Candidates(tk, cm, p) \subseteq Task
    BY DEF Candidates
<1>. QED
    BY <1>1, <1>2, FirstLeads DEF Leads

LEMMA ShownIsSelectable ==
    ASSUME Inv, ~pressure, NEW t \in Task
    PROVE  Ranked(t) <=> Selectable(task, command, t)
<1>1. /\ task[t].policy # "manual" => task[t].released # 0
      /\ task[t].policy \in Policy /\ task[t].worker \in BOOLEAN /\ task[t].criteria \in BOOLEAN
      /\ task[t].archived \in BOOLEAN /\ task[t].executable \in BOOLEAN /\ decision[t] \in BOOLEAN
    BY DEF Inv, TypeOK, Queued, TaskRow
<1>2. Blockers(t) = {} <=>
        /\ task[t].policy # "paused" /\ task[t].status = "ready" /\ ~task[t].worker
        /\ task[t].criteria /\ DependenciesDone(task, t) /\ ~decision[t] /\ ~Busy(command, t)
    <2>. DEFINE shown(b) ==
            \/ b = "paused" /\ task[t].policy = "paused"
            \/ b = "storage_pressure" /\ pressure
            \/ b = "not_ready" /\ task[t].status # "ready"
            \/ b = "assigned" /\ task[t].worker
            \/ b = "missing_acceptance_criteria" /\ ~task[t].criteria
            \/ b = "unresolved_dependency" /\ ~DependenciesDone(task, t)
            \/ b = "human_decision_required" /\ decision[t]
            \/ b = "phase_active" /\ Busy(command, t)
    <2>1. Blockers(t) = {} <=>
            /\ ~shown("paused") /\ ~shown("storage_pressure") /\ ~shown("not_ready")
            /\ ~shown("assigned") /\ ~shown("missing_acceptance_criteria")
            /\ ~shown("unresolved_dependency") /\ ~shown("human_decision_required")
            /\ ~shown("phase_active")
        BY DEF Blockers
    <2>. QED BY <2>1
<1>. QED
    BY <1>1, <1>2 DEF Ranked, InQueue, Selectable, Policy

LEMMA RankOneLeads ==
    ASSUME NEW t \in Task, task \in TaskTable,
           t \in StructurallyEligible(ProjectOf[t])
    PROVE  Rank(t) = 1 <=> Leads(task, StructurallyEligible(ProjectOf[t]), t)
<1>. DEFINE S == StructurallyEligible(ProjectOf[t])
            ahead == {u \in S \ {t} : Before(task, u, t)}
<1>1. S \subseteq Task
    BY DEF StructurallyEligible
<1>2. IsFiniteSet(ahead)
    <2>1. ahead \in SUBSET Task
        BY <1>1
    <2>. QED BY <2>1, TasksAreFinite, FS_Subset
<1>3. Cardinality(ahead) \in Nat /\ (Cardinality(ahead) = 0 <=> ahead = {})
    BY <1>2, FS_EmptySet, FS_CardinalityType
<1>4. Rank(t) = 1 + Cardinality(ahead)
    BY DEF Rank
<1>5. ahead = {} <=> Leads(task, S, t)
    <2>1. ASSUME NEW u \in S \ {t} PROVE Before(task, t, u) <=> ~Before(task, u, t)
        <3>1. u \in Task /\ u # t
            BY <1>1
        <3>. QED BY <3>1, BeforeIsStrict
    <2>. QED BY <2>1 DEF Leads
<1>. QED
    <2>. HIDE DEF ahead
    <2>. QED BY <1>3, <1>4, <1>5

\* With no command at work there is room under every limit.
ShownFree(p) ==
    /\ Cardinality(ProjectActive(command, p)) < ShownCapacity
    /\ Cardinality(ActiveCommands(command)) < ShownCapacity

LEMMA ShownIsFree ==
    ASSUME Inv, NEW p \in Project, ShownFree(p)
    PROVE  CapacityLeft(command, p)
<1>1. command \in Seq(CommandRow)
    BY DEF Inv, TypeOK
<1>2. IsFiniteSet(ActiveCommands(command)) /\ IsFiniteSet(ProjectActive(command, p))
    <2>1. DOMAIN command = 1..Len(command) /\ Len(command) \in Int
        BY <1>1
    <2>2. IsFiniteSet(DOMAIN command)
        BY <2>1, FS_Interval
    <2>3. ActiveCommands(command) \subseteq DOMAIN command
        BY DEF ActiveCommands
    <2>4. ProjectActive(command, p) \subseteq DOMAIN command
        BY <2>3 DEF ProjectActive
    <2>. QED BY <2>2, <2>3, <2>4, FS_Subset
<1>3. /\ Cardinality(ActiveCommands(command)) \in Nat
      /\ Cardinality(ProjectActive(command, p)) \in Nat
    BY <1>2, FS_CardinalityType
<1>4. ProjectCapacity \in Nat \ {0} /\ GlobalCapacity \in Nat \ {0}
    BY DispatchAssumption
<1>. QED
    BY <1>3, <1>4 DEF ShownFree, ShownCapacity, CapacityLeft

LEMMA QueriesAgree == Inv => RankOneIsNext
<1>. SUFFICES ASSUME Inv, Len(command) < MaxCommands, NEW p \in Project
              PROVE  LET first == {t \in StructurallyEligible(p) : Rank(t) = 1}
                         next == NextReady(task, command, p, pressure)
                     IN  /\ (IF lease[p] /\ CapacityLeft(command, p) THEN first ELSE {})
                              = (IF next = None THEN {} ELSE {next})
                         /\ \A t \in first : Eligible(t) => t = next
    BY DEF RankOneIsNext
<1>. DEFINE first == {t \in StructurallyEligible(p) : Rank(t) = 1}
            next == NextReady(task, command, p, pressure)
            S == Candidates(task, command, p)
            free == lease[p] /\ CapacityLeft(command, p)
<1>1. task \in TaskTable /\ pressure \in BOOLEAN
    BY DEF Inv, TypeOK, TaskTable
<1>2. ~(Len(command) >= MaxCommands)
    <2>1. Len(command) \in Int /\ MaxCommands \in Int
        BY DispatchAssumption DEF Inv, TypeOK
    <2>. QED BY <2>1
<1>3. (IF free THEN first ELSE {}) = (IF next = None THEN {} ELSE {next})
    <2>1. CASE ~free
        <3>1. next = None
            BY <2>1 DEF NextReady
        <3>. QED BY <2>1, <3>1
    <2>2. CASE pressure
        <3>1. next = None
            BY <2>2 DEF NextReady
        <3>2. \A t \in Task : "storage_pressure" \in Blockers(t)
            BY <2>2 DEF Blockers
        <3>3. first = {}
            BY <3>2 DEF StructurallyEligible, Ranked
        <3>. QED BY <3>1, <3>3
    <2>3. CASE free /\ ~pressure
        <3>1. StructurallyEligible(p) = S
            BY <1>1, <2>3, ShownIsSelectable DEF StructurallyEligible, Candidates
        <3>2. next = IF S = {} THEN None ELSE First(task, S)
            BY <1>2, <2>3 DEF NextReady, Candidates
        <3>3. first = {t \in S : Leads(task, S, t)}
            <4>1. ASSUME NEW t \in S PROVE Rank(t) = 1 <=> Leads(task, S, t)
                <5>1. t \in Task /\ ProjectOf[t] = p
                    BY DEF Candidates
                <5>. QED BY <1>1, <3>1, <5>1, RankOneLeads
            <4>. QED BY <3>1, <4>1
        <3>4. S \subseteq Task
            BY DEF Candidates
        <3>5. CASE S = {}
            BY <2>3, <3>2, <3>3, <3>5
        <3>6. CASE S # {}
            <4>1. /\ Leads(task, S, First(task, S)) /\ First(task, S) \in S
                  /\ \A t \in S : Leads(task, S, t) => t = First(task, S)
                BY <1>1, <3>4, <3>6, FirstLeads DEF Leads
            <4>2. next = First(task, S) /\ next # None
                BY <3>2, <3>4, <3>6, <4>1, NotNone
            <4>3. first = {First(task, S)}
                <5>. HIDE DEF first, S
                <5>. QED BY <3>3, <4>1
            <4>. QED
                <5>. HIDE DEF first, S, next
                <5>. QED BY <2>3, <4>2, <4>3
        <3>. QED BY <3>5, <3>6
    <2>. QED BY <2>1, <2>2, <2>3, <1>1
<1>4. ASSUME NEW t \in first, Eligible(t) PROVE t = next
    <2>1. ProjectOf[t] = p
        BY DEF StructurallyEligible
    <2>2. lease[p] /\ ShownFree(p)
        BY <1>4, <2>1 DEF Eligible, ShownFree
    <2>3. free
        BY <2>2, ShownIsFree
    <2>4. first = (IF next = None THEN {} ELSE {next})
        <3>. HIDE DEF first, next, free
        <3>. QED BY <1>3, <2>3
    <2>5. t \in first
        OBVIOUS
    <2>. QED
        <3>. HIDE DEF first, next
        <3>. QED BY <2>4, <2>5
<1>. QED BY <1>3, <1>4

-----------------------------------------------------------------------------
(***************************************************************************)
(* The limits.  dm has the rows of cm, none of them active again, and only *)
(* the rows N of those it adds are the scheduler's.                        *)
(***************************************************************************)

Commands == Seq(CommandRow)

Mine(cm) == {i \in ActiveCommands(cm) : cm[i].source = "ready_scheduler"}
MineIn(cm, p) == {i \in Mine(cm) : ProjectOf[cm[i].task] = p}
Within(cm) ==
    /\ Cardinality(Mine(cm)) <= GlobalCapacity
    /\ \A p \in Project : Cardinality(MineIn(cm, p)) <= ProjectCapacity

Adds(cm, dm, N) ==
    /\ DOMAIN cm \subseteq DOMAIN dm
    /\ \A i \in DOMAIN cm :
          /\ dm[i].task = cm[i].task /\ dm[i].source = cm[i].source
          /\ dm[i].state \in Active => cm[i].state \in Active
    /\ \A i \in DOMAIN dm \ DOMAIN cm : dm[i].source = "ready_scheduler" => i \in N

LEMMA RowsAreFinite ==
    ASSUME NEW cm \in Commands, NEW S \in SUBSET DOMAIN cm
    PROVE  IsFiniteSet(S)
<1>1. DOMAIN cm = 1..Len(cm) /\ Len(cm) \in Int
    BY DEF Commands
<1>2. IsFiniteSet(DOMAIN cm)
    BY <1>1, FS_Interval
<1>. QED
    BY <1>2, FS_Subset

LEMMA NoMore ==
    ASSUME NEW cm \in Commands, NEW S \in SUBSET DOMAIN cm, NEW T \in SUBSET S, NEW n \in Nat,
           Cardinality(S) <= n
    PROVE  Cardinality(T) <= n
<1>1. IsFiniteSet(S) /\ IsFiniteSet(T)
    BY RowsAreFinite
<1>2. Cardinality(T) <= Cardinality(S) /\ Cardinality(S) \in Nat /\ Cardinality(T) \in Nat
    BY <1>1, FS_Subset, FS_CardinalityType
<1>. QED
    BY <1>2

LEMMA OneMore ==
    ASSUME NEW cm \in Commands, NEW S \in SUBSET DOMAIN cm, NEW x, NEW T \in SUBSET (S \cup {x}),
           NEW n \in Nat, Cardinality(S) < n
    PROVE  Cardinality(T) <= n
<1>1. IsFiniteSet(S)
    BY RowsAreFinite
<1>2. /\ IsFiniteSet(S \cup {x}) /\ Cardinality(S) \in Nat
      /\ Cardinality(S \cup {x}) = Cardinality(S) \/ Cardinality(S \cup {x}) = Cardinality(S) + 1
    BY <1>1, FS_AddElement, FS_CardinalityType
<1>3. IsFiniteSet(T) /\ Cardinality(T) <= Cardinality(S \cup {x})
    BY <1>2, FS_Subset
<1>4. Cardinality(T) \in Nat /\ Cardinality(S \cup {x}) \in Nat
    BY <1>2, <1>3, FS_CardinalityType
<1>. QED
    BY <1>2, <1>3, <1>4

LEMMA Limits == ProjectCapacity \in Nat /\ GlobalCapacity \in Nat
BY DispatchAssumption

LEMMA AddedRows ==
    ASSUME NEW cm \in Commands, NEW dm \in Commands, NEW N, Adds(cm, dm, N)
    PROVE  /\ Mine(dm) \subseteq Mine(cm) \cup N
           /\ \A p \in Project : MineIn(dm, p) \subseteq MineIn(cm, p) \cup (MineIn(dm, p) \cap N)
           /\ Mine(cm) \subseteq ActiveCommands(cm)
           /\ ActiveCommands(cm) \subseteq DOMAIN cm
           /\ \A p \in Project : /\ MineIn(cm, p) \subseteq ProjectActive(cm, p)
                                 /\ ProjectActive(cm, p) \subseteq DOMAIN cm
<1>1. ASSUME NEW i \in Mine(dm), i \notin N PROVE i \in Mine(cm)
    BY <1>1 DEF Adds, Mine, ActiveCommands
<1>2. ASSUME NEW p \in Project, NEW i \in MineIn(dm, p), i \notin N PROVE i \in MineIn(cm, p)
    <2>1. i \in Mine(cm)
        BY <1>1, <1>2 DEF MineIn
    <2>2. dm[i].task = cm[i].task
        BY <2>1 DEF Adds, Mine, ActiveCommands
    <2>. QED BY <1>2, <2>1, <2>2 DEF MineIn
<1>3. /\ Mine(dm) \subseteq Mine(cm) \cup N
      /\ \A p \in Project : MineIn(dm, p) \subseteq MineIn(cm, p) \cup (MineIn(dm, p) \cap N)
    BY <1>1, <1>2
<1>4. Mine(cm) \subseteq ActiveCommands(cm) /\ ActiveCommands(cm) \subseteq DOMAIN cm
    BY DEF Mine, ActiveCommands
<1>5. \A p \in Project : /\ MineIn(cm, p) \subseteq ProjectActive(cm, p)
                         /\ ProjectActive(cm, p) \subseteq DOMAIN cm
    BY <1>4 DEF MineIn, ProjectActive, Mine
<1>. QED BY <1>3, <1>4, <1>5

\* Whoever adds nothing of the scheduler's, and revives nothing, stays within the limits.
LEMMA OthersStayWithin ==
    ASSUME NEW cm \in Commands, NEW dm \in Commands, Adds(cm, dm, {}), Within(cm)
    PROVE  Within(dm)
<1>1. /\ Mine(dm) \subseteq Mine(cm) /\ Mine(cm) \subseteq DOMAIN cm
      /\ \A p \in Project : MineIn(dm, p) \subseteq MineIn(cm, p) /\ MineIn(cm, p) \subseteq DOMAIN cm
    BY AddedRows
<1>2. Cardinality(Mine(dm)) <= GlobalCapacity
    BY <1>1, NoMore, Limits DEF Within
<1>3. ASSUME NEW p \in Project PROVE Cardinality(MineIn(dm, p)) <= ProjectCapacity
    BY <1>1, NoMore, Limits DEF Within
<1>. QED BY <1>2, <1>3 DEF Within

\* The scheduler adds one row, after it counted every active one.
LEMMA DispatchStaysWithin ==
    ASSUME NEW cm \in Commands, NEW dm \in Commands, NEW n, NEW p \in Project,
           Adds(cm, dm, {n}), Within(cm), CapacityLeft(cm, p),
           n \in DOMAIN dm, ProjectOf[dm[n].task] = p
    PROVE  Within(dm)
<1>1. /\ Mine(dm) \subseteq ActiveCommands(cm) \cup {n}
      /\ MineIn(dm, p) \subseteq ProjectActive(cm, p) \cup {n}
      /\ ActiveCommands(cm) \subseteq DOMAIN cm /\ ProjectActive(cm, p) \subseteq DOMAIN cm
      /\ \A q \in Project : MineIn(cm, q) \subseteq DOMAIN cm
    BY AddedRows
<1>2. Cardinality(Mine(dm)) <= GlobalCapacity
    BY <1>1, OneMore, Limits DEF CapacityLeft
<1>3. ASSUME NEW q \in Project PROVE Cardinality(MineIn(dm, q)) <= ProjectCapacity
    <2>1. CASE q = p
        BY <1>1, <2>1, OneMore, Limits DEF CapacityLeft
    <2>2. CASE q # p
        <3>1. n \notin MineIn(dm, q)
            BY <2>2 DEF MineIn
        <3>2. MineIn(dm, q) \subseteq MineIn(cm, q)
            BY <3>1, AddedRows
        <3>. QED BY <1>1, <3>2, NoMore, Limits DEF Within
    <2>. QED BY <2>1, <2>2
<1>. QED BY <1>2, <1>3 DEF Within

-----------------------------------------------------------------------------
(***************************************************************************)
(* What the steps write.                                                   *)
(***************************************************************************)

\* uk puts no task into the queue, and moves none that stays in it.
Quiet(tk, uk) ==
    \A t \in Task :
        /\ uk[t].policy = "manual" \/ tk[t].policy # "manual"
        /\ \/ uk[t].released = tk[t].released
           \/ uk[t].policy = "manual" /\ uk[t].released = 0

\* The same of one row.
Keeps(row, old) ==
    /\ row \in TaskRow
    /\ row.policy = "manual" \/ old.policy # "manual"
    /\ \/ row.released = old.released
       \/ row.policy = "manual" /\ row.released = 0

LEMMA KeptRows ==
    ASSUME NEW tk \in TaskTable, NEW t \in Task, NEW row, Keeps(row, tk[t])
    PROVE  [tk EXCEPT ![t] = row] \in TaskTable /\ Quiet(tk, [tk EXCEPT ![t] = row])
BY DEF TaskTable, Quiet, Keeps

LEMMA QuietIsTransitive ==
    ASSUME NEW tk, NEW uk, NEW wk, Quiet(tk, uk), Quiet(uk, wk)
    PROVE  Quiet(tk, wk)
BY DEF Quiet

LEMMA AddsIsTransitive ==
    ASSUME NEW cm, NEW dm, NEW em, NEW N, Adds(cm, dm, N), Adds(dm, em, {})
    PROVE  Adds(cm, em, N)
BY DEF Adds

WithState(cm, i, s) == [cm EXCEPT ![i].state = s]

LEMMA NewState ==
    ASSUME NEW cm \in Commands, NEW i \in DOMAIN cm, NEW s \in Active \cup Ended,
           s \in Active => cm[i].state \in Active
    PROVE  LET dm == WithState(cm, i, s)
           IN  /\ dm \in Commands /\ Len(dm) = Len(cm) /\ DOMAIN dm = DOMAIN cm
               /\ Adds(cm, dm, {}) /\ dm[i].task = cm[i].task
<1>. DEFINE dm == WithState(cm, i, s)
<1>1. cm[i] \in CommandRow /\ DOMAIN dm = DOMAIN cm
    BY DEF Commands, WithState
<1>2. dm[i] = [cm[i] EXCEPT !.state = s] /\ \A j \in DOMAIN cm \ {i} : dm[j] = cm[j]
    BY DEF WithState
<1>3. dm[i] \in CommandRow /\ dm[i].task = cm[i].task /\ dm[i].source = cm[i].source /\ dm[i].state = s
    BY <1>1, <1>2 DEF CommandRow
<1>4. dm \in Commands /\ Len(dm) = Len(cm)
    <2>1. \A j \in DOMAIN cm : dm[j] \in CommandRow
        BY <1>2, <1>3 DEF Commands
    <2>2. cm \in [1..Len(cm) -> CommandRow] /\ Len(cm) \in Nat
        BY DEF Commands
    <2>3. dm \in [1..Len(cm) -> CommandRow]
        BY <2>1, <2>2 DEF WithState
    <2>. QED BY <2>2, <2>3 DEF Commands
<1>5. Adds(cm, dm, {})
    BY <1>1, <1>2, <1>3 DEF Adds
<1>. QED BY <1>1, <1>3, <1>4, <1>5

LEMMA NewRow ==
    ASSUME NEW cm \in Commands, NEW row \in CommandRow
    PROVE  LET dm == Append(cm, row)
           IN  /\ dm \in Commands /\ Len(dm) = Len(cm) + 1 /\ dm[Len(cm) + 1] = row
               /\ Len(cm) + 1 \in DOMAIN dm
               /\ Adds(cm, dm, IF row.source = "ready_scheduler" THEN {Len(cm) + 1} ELSE {})
<1>1. /\ Append(cm, row) \in Commands /\ Len(Append(cm, row)) = Len(cm) + 1
      /\ Append(cm, row)[Len(cm) + 1] = row /\ Len(cm) + 1 \in DOMAIN Append(cm, row)
    BY DEF Commands
<1>2. DOMAIN cm \subseteq DOMAIN Append(cm, row) /\ \A i \in DOMAIN cm : Append(cm, row)[i] = cm[i]
    BY DEF Commands
<1>3. \A i \in DOMAIN Append(cm, row) \ DOMAIN cm : i = Len(cm) + 1
    BY DEF Commands
<1>. QED BY <1>1, <1>2, <1>3 DEF Adds

LEMMA Scheduling ==
    ASSUME NEW t \in Task, NEW p \in Phase, NEW s \in Source
    PROVE  Scheduled(t, p, s) \in CommandRow /\ Scheduled(t, p, s).source = s
           /\ Scheduled(t, p, s).task = t
BY DEF Scheduled, CommandRow, Active

LEMMA ScheduledKeeps ==
    ASSUME NEW row \in TaskRow, NEW p
    PROVE  Keeps(ScheduledRow(row, p), row)
<1>. DEFINE implementing == p = "implementation"
<1>1. ScheduledRow(row, p) =
        [row EXCEPT !.status = IF implementing THEN "in_progress" ELSE "review",
                    !.worker = row.worker \/ implementing]
    BY DEF ScheduledRow
<1>2. (row.worker \/ implementing) \in BOOLEAN
    OBVIOUS
<1>. HIDE DEF implementing
<1>. QED BY <1>1, <1>2 DEF TaskRow, Keeps, Status

LEMMA Starting ==
    ASSUME NEW tk \in TaskTable, NEW t \in Task, NEW p
    PROVE  StartedTask(tk, t, p) \in TaskTable /\ Quiet(tk, StartedTask(tk, t, p))
<1>1. Keeps(ScheduledRow(tk[t], p), tk[t])
    BY ScheduledKeeps DEF TaskTable
<1>. QED BY ZenonT(40), <1>1, KeptRows DEF StartedTask

LEMMA Dispatching ==
    ASSUME NEW tk \in TaskTable, NEW cm \in Commands, NEW p \in Project, NEW blocked,
           Len(cm) <= MaxCommands, Within(cm)
    PROVE  /\ DispatchedTask(tk, cm, p, blocked) \in TaskTable
           /\ Quiet(tk, DispatchedTask(tk, cm, p, blocked))
           /\ DispatchedCommand(tk, cm, p, blocked) \in Commands
           /\ Len(DispatchedCommand(tk, cm, p, blocked)) <= MaxCommands
           /\ Within(DispatchedCommand(tk, cm, p, blocked))
<1>. DEFINE t == NextReady(tk, cm, p, blocked)
<1>1. CASE t = None
    BY <1>1 DEF DispatchedTask, DispatchedCommand, Quiet
<1>2. CASE t # None
    <2>. DEFINE row == Scheduled(t, "implementation", "ready_scheduler")
                dm == Append(cm, row)
    <2>1. t \in Task /\ ProjectOf[t] = p /\ CapacityLeft(cm, p) /\ ~(Len(cm) >= MaxCommands)
        BY <1>2, NextIsACandidate DEF Candidates
    <2>2. /\ DispatchedTask(tk, cm, p, blocked) = StartedTask(tk, t, "implementation")
          /\ DispatchedCommand(tk, cm, p, blocked) = dm
        BY <1>2 DEF DispatchedTask, DispatchedCommand
    <2>3. row \in CommandRow /\ row.source = "ready_scheduler" /\ row.task = t
        BY <2>1, Scheduling DEF Phase, Source
    <2>4. /\ dm \in Commands /\ Len(dm) = Len(cm) + 1 /\ dm[Len(cm) + 1].task = t
          /\ Len(cm) + 1 \in DOMAIN dm /\ Adds(cm, dm, {Len(cm) + 1})
        <3>. HIDE DEF row
        <3>. QED BY <2>3, NewRow
    <2>5. Within(dm)
        <3>. HIDE DEF dm
        <3>. QED BY <2>1, <2>4, DispatchStaysWithin
    <2>6. Len(dm) <= MaxCommands
        <3>1. Len(cm) \in Nat /\ MaxCommands \in Nat
            BY DispatchAssumption DEF Commands
        <3>. QED BY <2>1, <2>4, <3>1
    <2>. QED
        <3>. HIDE DEF t, dm
        <3>. QED BY <2>1, <2>2, <2>4, <2>5, <2>6, Starting
<1>. QED BY <1>1, <1>2

LEMMA Claiming ==
    ASSUME NEW cm \in Commands, NEW p
    PROVE  /\ ClaimedCommand(cm, p) \in Commands /\ Len(ClaimedCommand(cm, p)) = Len(cm)
           /\ Adds(cm, ClaimedCommand(cm, p), {})
<1>. DEFINE Q == {i \in DOMAIN cm : cm[i].state = "queued" /\ ProjectOf[cm[i].task] = p}
<1>1. CASE Q = {}
    BY <1>1 DEF ClaimedCommand, Adds
<1>2. CASE Q # {}
    <2>1. Min(Q) \in Q
        BY <1>2, LeastIndex DEF Commands
    <2>2. Min(Q) \in DOMAIN cm /\ cm[Min(Q)].state \in Active
        BY <2>1 DEF Active
    <2>3. ClaimedCommand(cm, p) = WithState(cm, Min(Q), "claimed")
        BY <1>2 DEF ClaimedCommand, WithState
    <2>4. "claimed" \in Active
        BY DEF Active
    <2>. HIDE DEF Q
    <2>. QED BY <2>2, <2>3, <2>4, NewState
<1>. QED BY <1>1, <1>2

LEMMA DuePhaseIsAPhase ==
    ASSUME NEW row, DuePhase(row) # "none"
    PROVE  DuePhase(row) \in Phase
BY DEF DuePhase, Phase

LEMMA ContinuedKeeps ==
    ASSUME NEW row \in TaskRow, DuePhase(row) \in Phase
    PROVE  /\ ContinuedRow(row) \in TaskRow /\ ContinuedRow(row).policy = row.policy
           /\ ContinuedRow(row).released = row.released
<1>. DEFINE p == DuePhase(row)
            mid == ScheduledRow(row, p)
<1>1. mid \in TaskRow
    BY ScheduledKeeps DEF Keeps
<1>2. mid.policy = row.policy /\ mid.released = row.released
    BY DEF ScheduledRow, TaskRow
<1>3. ContinuedRow(row) = [mid EXCEPT !.continued = mid.continued \cup {p}]
    BY DEF ContinuedRow
<1>. HIDE DEF p, mid
<1>4. p \in Phase
    BY DEF p
<1>. QED BY <1>1, <1>2, <1>3, <1>4 DEF TaskRow

LEMMA Continuing ==
    ASSUME NEW tk \in TaskTable, NEW cm \in Commands, NEW p \in Project,
           NEW q \in Continuations(tk, cm, p)
    PROVE  /\ ContinuedTask(tk, q) \in TaskTable /\ Quiet(tk, ContinuedTask(tk, q))
           /\ ContinuedCommand(tk, cm, q) \in Commands
           /\ Adds(cm, ContinuedCommand(tk, cm, q), {})
<1>1. PICK S : S \in SUBSET DueTasks(tk, cm, p) /\ q \in SetToSeqs(S)
    BY DEF Continuations
<1>2. S \subseteq Task /\ \A t \in S : DuePhase(tk[t]) \in Phase
    <2>1. ASSUME NEW t \in S PROVE t \in Task /\ DuePhase(tk[t]) # "none"
        BY <1>1 DEF DueTasks, Due
    <2>. QED BY <2>1, DuePhaseIsAPhase
<1>3. Cardinality(S) \in Nat
    BY <1>2, TasksAreFinite, FS_Subset, FS_CardinalityType
<1>4. q \in [1..Cardinality(S) -> S]
    BY <1>1 DEF SetToSeqs
<1>. DEFINE r == [k \in DOMAIN q |-> Scheduled(q[k], DuePhase(tk[q[k]]), "automatic_phase_continuation")]
            uk == ContinuedTask(tk, q)
<1>5. \A k \in DOMAIN q : r[k] \in CommandRow /\ r[k].source # "ready_scheduler"
    BY <1>2, <1>4, Scheduling DEF Source
<1>6. r \in Commands /\ Len(r) = Cardinality(S)
    <2>1. r \in [1..Cardinality(S) -> CommandRow]
        BY <1>4, <1>5
    <2>. HIDE DEF r
    <2>. QED BY <1>3, <2>1 DEF Commands
<1>7. ContinuedCommand(tk, cm, q) = cm \o r
    BY DEF ContinuedCommand
<1>8. cm \o r \in Commands /\ Adds(cm, cm \o r, {})
    <2>1. \A k \in 1..Len(r) : r[k].source # "ready_scheduler"
        BY <1>4, <1>5, <1>6
    <2>. HIDE DEF r
    <2>2. cm \o r \in Commands
        BY <1>6 DEF Commands
    <2>3. /\ DOMAIN cm \subseteq DOMAIN (cm \o r) /\ \A i \in DOMAIN cm : (cm \o r)[i] = cm[i]
          /\ \A i \in DOMAIN (cm \o r) \ DOMAIN cm :
                i - Len(cm) \in 1..Len(r) /\ (cm \o r)[i] = r[i - Len(cm)]
        BY <1>6 DEF Commands
    <2>. QED BY <2>1, <2>2, <2>3 DEF Adds
<1>9. ASSUME NEW t \in Task PROVE uk[t] \in TaskRow /\ uk[t].policy = tk[t].policy
                                  /\ uk[t].released = tk[t].released
    <2>1. uk[t] = IF t \in Range(q) THEN ContinuedRow(tk[t]) ELSE tk[t]
        BY DEF ContinuedTask
    <2>2. tk[t] \in TaskRow
        BY DEF TaskTable
    <2>3. t \in Range(q) => DuePhase(tk[t]) \in Phase
        BY <1>2, <1>4 DEF Range
    <2>. HIDE DEF uk
    <2>. QED BY <2>1, <2>2, <2>3, ContinuedKeeps
<1>10. uk \in TaskTable /\ Quiet(tk, uk)
    BY <1>9 DEF TaskTable, Quiet, ContinuedTask
<1>. QED BY <1>7, <1>8, <1>10

\* What an agent records concerns neither policy nor release.
LEMMA RecordedKeeps ==
    ASSUME NEW old \in TaskRow, NEW p \in Phase,
           NEW row \in Recorded(old, p) \cup {NewRevision(old), old}
    PROVE  /\ row \in TaskRow
           /\ row.policy = old.policy /\ row.released = old.released
<1>1. NewRevision(old) \in TaskRow
    BY DEF NewRevision, TaskRow
<1>2. NewRevision(old).policy = old.policy /\ NewRevision(old).released = old.released
    BY DEF NewRevision, TaskRow
<1>3. ASSUME NEW r \in TaskRow
      PROVE  /\ ReviewRequested(r) \in TaskRow
             /\ ReviewRequested(r).policy = r.policy /\ ReviewRequested(r).released = r.released
    <2>1. r.evidence \cup {"requested"} \in SUBSET Evidence
        BY DEF TaskRow, Evidence
    <2>. QED BY <2>1 DEF ReviewRequested, TaskRow, Status
<1>4. CASE p = "implementation"
    <2>1. row \in {ReviewRequested(old), ReviewRequested(NewRevision(old)), NewRevision(old), old}
        BY <1>4 DEF Recorded
    <2>. QED BY <1>1, <1>2, <1>3, <2>1
<1>5. CASE p = "test"
    <2>1. ASSUME NEW v \in {"passed", "failed"}
          PROVE  /\ Validated(old, v) \in TaskRow
                 /\ Validated(old, v).policy = old.policy /\ Validated(old, v).released = old.released
        <3>1. (old.evidence \ {"passed", "failed"}) \cup {v} \in SUBSET Evidence
            BY DEF TaskRow, Evidence
        <3>. QED BY <3>1 DEF Validated, TaskRow
    <2>2. row \in {Validated(old, "passed"), Validated(old, "failed"), NewRevision(old), old}
        BY <1>5 DEF Recorded
    <2>. QED BY <1>1, <1>2, <2>1, <2>2
<1>6. CASE p = "review"
    <2>1. ASSUME NEW st \in {"review", "in_progress", "blocked"}
          PROVE  /\ Reviewed(old, st) \in TaskRow
                 /\ Reviewed(old, st).policy = old.policy /\ Reviewed(old, st).released = old.released
        <3>1. old.evidence \cup {"reviewed"} \in SUBSET Evidence /\ st \in Status
            BY DEF TaskRow, Evidence, Status
        <3>. QED BY <3>1 DEF Reviewed, TaskRow
    <2>2. \/ row \in {NewRevision(old), old}
          \/ \E st \in {"review", "in_progress", "blocked"} : row = Reviewed(old, st)
        BY <1>6 DEF Recorded
    <2>. QED BY <1>1, <1>2, <2>1, <2>2
<1>. QED BY <1>4, <1>5, <1>6 DEF Phase

LEMMA OutcomeKeeps ==
    ASSUME NEW i \in DOMAIN command, command \in Commands, task \in TaskTable,
           NEW row \in Unfinished(task[command[i].task], command[i].phase) \cup Outcomes(i)
    PROVE  Keeps(row, task[command[i].task])
<1>. DEFINE t == command[i].task
            p == command[i].phase
            old == task[t]
<1>1. command[i] \in CommandRow
    BY DEF Commands
<1>2. p \in Phase /\ old \in TaskRow
    BY <1>1 DEF CommandRow, TaskTable
<1>. SUFFICES Keeps(row, old)
    OBVIOUS
<1>3. CASE row \in Unfinished(old, p)
    <2>1. row \in Recorded(old, p) \cup {NewRevision(old), old}
        BY <1>3 DEF Unfinished
    <2>. HIDE DEF old, p
    <2>. QED BY <1>2, <2>1, RecordedKeeps DEF Keeps
<1>4. CASE row \in Outcomes(i)
    <2>1. PICK r : r \in Recorded(old, p) /\ row = Completed(t, p, r)
        BY <1>4 DEF Outcomes
    <2>2. r \in TaskRow /\ r.policy = old.policy /\ r.released = old.released
        <3>. HIDE DEF old, p
        <3>. QED BY <1>2, <2>1, RecordedKeeps
    <2>3. row = r \/ row = [r EXCEPT !.status = "done"]
        BY <2>1 DEF Completed
    <2>4. row \in TaskRow /\ row.policy = r.policy /\ row.released = r.released
        BY <2>2, <2>3 DEF TaskRow, Status
    <2>. HIDE DEF old
    <2>. QED BY <2>2, <2>4 DEF Keeps
<1>. QED BY <1>3, <1>4

-----------------------------------------------------------------------------
(***************************************************************************)
(* The steps.                                                              *)
(***************************************************************************)

Rest ==
    /\ dependency \subseteq Task \X Task
    /\ decision \in [Task -> BOOLEAN]
    /\ lease \in [Project -> BOOLEAN]
    /\ expiries \in 0..MaxExpiries
    /\ interventions \in 0..MaxInterventions
    /\ pressure \in BOOLEAN
    /\ clock \in 0..MaxClock

LEMMA InvParts ==
    Inv <=> /\ task \in TaskTable /\ command \in Commands /\ Len(command) <= MaxCommands /\ Rest
            /\ Queued(task, clock)
            /\ Within(command)
BY DEF Inv, TypeOK, TaskTable, Commands, Rest, Within, Mine, MineIn, SchedulerWithinLimits

LEMMA InvPartsNext ==
    Inv' <=> /\ task' \in TaskTable /\ command' \in Commands /\ Len(command') <= MaxCommands /\ Rest'
             /\ Queued(task', clock')
             /\ Within(command')
BY DEF Inv, TypeOK, TaskTable, Commands, Rest, Within, Mine, MineIn, SchedulerWithinLimits,
       ActiveCommands, Queued

\* What is in the queue after a step was there before it, or was released now.
Stands(t) ==
    task'[t].policy # "manual" =>
       \/ task[t].policy # "manual" /\ task'[t].released = task[t].released
       \/ task[t].policy = "manual" /\ task'[t].released >= clock

StepGood == Inv' /\ \A t \in Task : Stands(t)

\* Every step but a release.
Routine ==
    /\ task' \in TaskTable /\ Quiet(task, task')
    /\ command' \in Commands /\ Len(command') <= MaxCommands /\ Within(command')
    /\ Rest' /\ clock' = clock

LEMMA RoutineStep == Inv /\ Routine => StepGood
<1>. SUFFICES ASSUME Inv, Routine PROVE StepGood
    OBVIOUS
<1>1. Queued(task, clock) /\ clock \in 0..MaxClock /\ 0 <= clock
    <2>1. MaxClock \in Int
        BY DispatchAssumption
    <2>. QED BY <2>1, InvParts DEF Rest
<1>2. Queued(task', clock')
    BY <1>1 DEF Routine, Quiet, Queued
<1>3. Inv'
    BY <1>2, InvPartsNext DEF Routine
<1>4. \A t \in Task : Stands(t)
    BY DEF Routine, Quiet, Stands
<1>. QED BY <1>3, <1>4 DEF StepGood

\* The common case: no command row changes ...
LEMMA QuietStep ==
    Inv /\ task' \in TaskTable /\ Quiet(task, task') /\ command' = command /\ Rest' /\ clock' = clock
        => StepGood
BY RoutineStep, InvParts DEF Routine

\* ... or none is the scheduler's.
LEMMA OtherStep ==
    /\ Inv
    /\ task' \in TaskTable /\ Quiet(task, task')
    /\ command' \in Commands /\ Len(command') <= MaxCommands /\ Adds(command, command', {})
    /\ Rest' /\ clock' = clock
    => StepGood
<1>. SUFFICES ASSUME Inv, task' \in TaskTable, Quiet(task, task'), command' \in Commands,
                     Len(command') <= MaxCommands, Adds(command, command', {}),
                     Rest', clock' = clock
              PROVE  StepGood
    OBVIOUS
<1>1. command \in Commands /\ Within(command)
    BY InvParts
<1>2. Within(command')
    BY <1>1, OthersStayWithin
<1>. QED BY <1>2, RoutineStep DEF Routine

\* One row of the tasks changes beside the queue.
LEMMA OneRow ==
    ASSUME Inv, NEW t \in Task, NEW row, Keeps(row, task[t]),
           task' = [task EXCEPT ![t] = row], command' = command, Rest', clock' = clock
    PROVE  StepGood
<1>1. task \in TaskTable
    BY InvParts
<1>2. task' \in TaskTable /\ Quiet(task, task')
    BY <1>1, KeptRows
<1>. QED BY <1>2, QuietStep

LEMMA Interventions ==
    ASSUME Inv, Intervention
    PROVE  interventions' \in 0..MaxInterventions
<1>1. interventions \in 0..MaxInterventions /\ MaxInterventions \in Int
    BY DispatchAssumption, InvParts DEF Rest
<1>. QED BY <1>1 DEF Intervention

LEMMA ReleaseStep ==
    ASSUME Inv, NEW t \in Task, Release(t)
    PROVE  StepGood
<1>1. /\ task \in TaskTable /\ Rest /\ Queued(task, clock)
      /\ command \in Commands /\ Len(command) <= MaxCommands /\ Within(command)
    BY InvParts
<1>2. PICK now : /\ now \in {clock, clock + 1} \ {0} /\ now <= MaxClock
                 /\ clock' = now /\ task' = ReleasedTask(t, now)
    BY DEF Release
<1>3. task[t].policy \in {"manual", "paused"} /\ task[t] \in TaskRow
    BY <1>1 DEF Release, TaskTable
<1>. DEFINE r == IF task[t].policy = "paused" THEN task[t].released ELSE now
            row == [task[t] EXCEPT !.policy = "automatic", !.released = r]
<1>4. clock \in Int /\ MaxClock \in Int /\ 0 <= clock /\ clock <= now /\ now # 0 /\ now \in 0..MaxClock
    <2>1. MaxClock \in Int /\ clock \in 0..MaxClock
        BY <1>1, DispatchAssumption DEF Rest
    <2>. QED BY <1>2, <2>1
<1>5. task[t].released \in 0..MaxClock /\ task[t].released <= clock
    BY <1>1, <1>3 DEF Queued, TaskRow
<1>6. task[t].policy = "paused" => task[t].released # 0
    BY <1>1 DEF Queued
<1>7. r \in 0..MaxClock /\ r <= now /\ r # 0
    BY <1>4, <1>5, <1>6
<1>8. row \in TaskRow /\ row.policy = "automatic" /\ row.released = r
    <2>. HIDE DEF r
    <2>. QED BY <1>3, <1>7 DEF TaskRow, Policy
<1>9. task' = [task EXCEPT ![t] = row]
    BY <1>1, <1>2 DEF ReleasedTask, TaskTable
<1>. HIDE DEF row
<1>10. task' \in TaskTable /\ task'[t] = row /\ \A u \in Task \ {t} : task'[u] = task[u]
    BY <1>1, <1>8, <1>9 DEF TaskTable
<1>11. Queued(task', clock')
    <2>1. ASSUME NEW u \in Task
          PROVE  /\ task'[u].released <= clock'
                 /\ task'[u].policy # "manual" => task'[u].released # 0
        <3>1. CASE u = t
            BY <1>2, <1>7, <1>8, <1>10, <3>1
        <3>2. CASE u # t
            <4>1. task[u].released \in Int /\ task[u].released <= clock
                BY <1>1, Columns DEF Queued
            <4>. QED BY <1>1, <1>2, <1>4, <1>10, <3>2, <4>1 DEF Queued
        <3>. QED BY <3>1, <3>2
    <2>. QED BY <2>1 DEF Queued
<1>12. Rest' /\ command' = command
    <2>1. clock' \in 0..MaxClock
        BY <1>2, <1>4
    <2>. QED BY <1>1, <2>1 DEF Rest, Release
<1>13. Inv'
    BY <1>1, <1>10, <1>11, <1>12, InvPartsNext
<1>14. ASSUME NEW u \in Task PROVE Stands(u)
    <2>1. CASE u = t
        BY <1>2, <1>3, <1>4, <1>8, <1>10, <2>1 DEF Stands
    <2>2. CASE u # t
        BY <1>10, <2>2 DEF Stands
    <2>. QED BY <2>1, <2>2
<1>. QED BY <1>13, <1>14 DEF StepGood

LEMMA QueueStep ==
    ASSUME Inv, NEW t \in Task, PauseDispatch(t) \/ ManualizeDispatch(t) \/ SetPriority(t)
    PROVE  StepGood
<1>1. task \in TaskTable /\ Rest /\ interventions' \in 0..MaxInterventions
    BY InvParts, Interventions DEF PauseDispatch, ManualizeDispatch, SetPriority
<1>2. task[t] \in TaskRow
    BY <1>1 DEF TaskTable
<1>3. Rest' /\ command' = command /\ clock' = clock
    BY <1>1 DEF Rest, PauseDispatch, ManualizeDispatch, SetPriority
<1>4. CASE PauseDispatch(t)
    <2>. DEFINE row == [task[t] EXCEPT !.policy = "paused"]
    <2>1. Keeps(row, task[t])
        BY <1>2, <1>4 DEF PauseDispatch, TaskRow, Keeps, Policy
    <2>2. task' = [task EXCEPT ![t] = row]
        BY <1>1, <1>4 DEF PauseDispatch, TaskTable
    <2>. HIDE DEF row
    <2>. QED BY <1>3, <2>1, <2>2, OneRow
<1>5. CASE ManualizeDispatch(t)
    <2>. DEFINE row == [task[t] EXCEPT !.policy = "manual"]
    <2>1. Keeps(row, task[t])
        BY <1>2 DEF TaskRow, Keeps, Policy
    <2>2. task' = [task EXCEPT ![t] = row]
        BY <1>1, <1>5 DEF ManualizeDispatch, TaskTable
    <2>. HIDE DEF row
    <2>. QED BY <1>3, <2>1, <2>2, OneRow
<1>6. CASE SetPriority(t)
    <2>1. PICK n : n \in Priority /\ task' = [task EXCEPT ![t].priority = n]
        BY <1>6 DEF SetPriority
    <2>. DEFINE row == [task[t] EXCEPT !.priority = n]
    <2>2. Keeps(row, task[t])
        BY <1>2, <2>1 DEF TaskRow, Keeps
    <2>3. task' = [task EXCEPT ![t] = row]
        BY <1>1, <2>1 DEF TaskTable
    <2>. HIDE DEF row
    <2>. QED BY <1>3, <2>2, <2>3, OneRow
<1>. QED BY <1>4, <1>5, <1>6

LEMMA Created == CreatedTask \in TaskRow /\ CreatedTask.policy = "manual" /\ CreatedTask.released = 0
<1>1. 0 \in Priority /\ 0 \in 0..MaxClock
    BY DispatchAssumption
<1>. QED BY <1>1 DEF CreatedTask, TaskRow, Status, Policy

LEMMA OwnerTaskStep ==
    ASSUME Inv, NEW t \in Task, UpdateOwnerTask(t) \/ SetTaskArchived(t) \/ CreateOwnerTask(t)
    PROVE  StepGood
<1>1. task \in TaskTable /\ Rest
    BY InvParts
<1>2. task[t] \in TaskRow
    BY <1>1 DEF TaskTable
<1>3. interventions' \in 0..MaxInterventions
    BY <1>1, Interventions DEF Rest, UpdateOwnerTask, SetTaskArchived, CreateOwnerTask
<1>4. Rest' /\ command' = command /\ clock' = clock
    BY <1>1, <1>3 DEF Rest, UpdateOwnerTask, SetTaskArchived, CreateOwnerTask
<1>5. CASE UpdateOwnerTask(t)
    <2>1. PICK c, e : /\ c \in BOOLEAN /\ e \in BOOLEAN
                      /\ task' = [task EXCEPT ![t].criteria = c, ![t].executable = e]
        BY <1>5 DEF UpdateOwnerTask
    <2>. DEFINE row == [task[t] EXCEPT !.criteria = c, !.executable = e]
    <2>2. Keeps(row, task[t])
        BY <1>2, <2>1 DEF TaskRow, Keeps
    <2>3. task' = [task EXCEPT ![t] = row]
        BY <1>1, <2>1 DEF TaskTable
    <2>. HIDE DEF row
    <2>. QED BY <1>4, <2>2, <2>3, OneRow
<1>6. CASE SetTaskArchived(t)
    <2>. DEFINE row == [task[t] EXCEPT !.archived = ~task[t].archived]
    <2>1. Keeps(row, task[t])
        BY <1>2 DEF TaskRow, Keeps
    <2>2. task' = [task EXCEPT ![t] = row]
        BY <1>1, <1>6 DEF SetTaskArchived, TaskTable
    <2>. HIDE DEF row
    <2>. QED BY <1>4, <2>1, <2>2, OneRow
<1>7. CASE CreateOwnerTask(t)
    <2>1. Keeps(CreatedTask, task[t])
        BY Created DEF Keeps
    <2>2. task' = [task EXCEPT ![t] = CreatedTask]
        BY <1>7 DEF CreateOwnerTask
    <2>. QED BY <1>4, <2>1, <2>2, OneRow
<1>. QED BY <1>5, <1>6, <1>7

LEMMA SplitTaskStep ==
    ASSUME Inv, NEW t \in Task, NEW u \in Task, SplitTask(t, u)
    PROVE  StepGood
<1>1. task \in TaskTable /\ Rest /\ interventions' \in 0..MaxInterventions
    BY InvParts, Interventions DEF SplitTask
<1>2. t # u /\ task[t] \in TaskRow
    BY <1>1 DEF SplitTask, TaskTable
<1>. DEFINE row == [task[t] EXCEPT !.executable = FALSE]
            mid == [task EXCEPT ![t] = row]
<1>3. Keeps(row, task[t])
    BY <1>2 DEF TaskRow, Keeps
<1>4. mid \in TaskTable /\ Quiet(task, mid)
    <2>. HIDE DEF row
    <2>. QED BY <1>1, <1>3, KeptRows
<1>5. task' = [mid EXCEPT ![u] = CreatedTask]
    BY <1>1, <1>2 DEF SplitTask, TaskTable
<1>6. task' \in TaskTable /\ Quiet(mid, task')
    <2>1. Keeps(CreatedTask, mid[u])
        BY Created DEF Keeps
    <2>. HIDE DEF mid
    <2>. QED BY <1>4, <1>5, <2>1, KeptRows
<1>7. Quiet(task, task')
    <2>. HIDE DEF mid
    <2>. QED BY <1>4, <1>6, QuietIsTransitive
<1>8. Rest' /\ command' = command /\ clock' = clock
    BY <1>1 DEF Rest, SplitTask
<1>. QED BY <1>6, <1>7, <1>8, QuietStep

LEMMA BesideTheTasksStep ==
    ASSUME Inv, NEW t \in Task, NEW u \in Task,
           AddDependency(t, u) \/ RequireDecision(t) \/ ResolveDecision(t)
    PROVE  StepGood
<1>1. task \in TaskTable /\ Rest
    BY InvParts
<1>2. interventions' \in 0..MaxInterventions
    BY Interventions DEF AddDependency, RequireDecision, ResolveDecision
<1>3. /\ task' = task /\ command' = command /\ clock' = clock
      /\ expiries' = expiries /\ pressure' = pressure /\ lease' = lease
    BY DEF AddDependency, RequireDecision, ResolveDecision
<1>4. dependency' \subseteq Task \X Task
    <2>1. dependency' = dependency \/ dependency' = dependency \cup {<<t, u>>}
        BY DEF AddDependency, RequireDecision, ResolveDecision
    <2>. QED BY <1>1, <2>1 DEF Rest
<1>5. decision' \in [Task -> BOOLEAN]
    BY <1>1 DEF Rest, AddDependency, RequireDecision, ResolveDecision
<1>6. Rest'
    BY <1>1, <1>2, <1>3, <1>4, <1>5 DEF Rest
<1>7. Quiet(task, task')
    BY <1>3 DEF Quiet
<1>. QED BY <1>1, <1>3, <1>6, <1>7, QuietStep

LEMMA RegisterStep ==
    ASSUME Inv, NEW p \in Project, RegisterProjectOrchestrator(p)
    PROVE  StepGood
<1>1. task \in TaskTable /\ Rest
    BY InvParts
<1>2. task' = task /\ command' = command /\ clock' = clock /\ Rest'
    BY <1>1 DEF Rest, RegisterProjectOrchestrator
<1>3. Quiet(task, task')
    BY <1>2 DEF Quiet
<1>. QED BY <1>1, <1>2, <1>3, QuietStep

LEMMA Rows ==
    ASSUME Inv, NEW i \in DOMAIN command
    PROVE  /\ command[i] \in CommandRow /\ command[i].task \in Task /\ command[i].phase \in Phase
           /\ ProjectOf[command[i].task] \in Project
<1>1. command[i] \in CommandRow
    BY InvParts DEF Commands
<1>2. command[i].task \in Task /\ command[i].phase \in Phase
    BY <1>1 DEF CommandRow
<1>. QED BY <1>1, <1>2, DispatchAssumption

\* Append, where the bound of the instance allows it.
LEMMA RoomForOne ==
    ASSUME Inv, Len(command) < MaxCommands
    PROVE  Len(command) + 1 <= MaxCommands
<1>1. Len(command) \in Int /\ MaxCommands \in Int
    BY InvParts, DispatchAssumption DEF Commands
<1>. QED BY <1>1

LEMMA OwnerRunStep ==
    ASSUME Inv, NEW t \in Task, NEW p \in Phase, OwnerRun(t, p)
    PROVE  StepGood
<1>1. task \in TaskTable /\ Rest /\ command \in Commands /\ interventions' \in 0..MaxInterventions
    BY InvParts, Interventions DEF OwnerRun
<1>. DEFINE row == Scheduled(t, p, "owner")
<1>2. row \in CommandRow /\ row.source # "ready_scheduler"
    BY Scheduling DEF Source
<1>3. command' = Append(command, row) /\ task' = StartedTask(task, t, p) /\ Len(command) < MaxCommands
    BY DEF OwnerRun
<1>4. task' \in TaskTable /\ Quiet(task, task')
    BY <1>1, <1>3, Starting
<1>5. command' \in Commands /\ Len(command') <= MaxCommands /\ Adds(command, command', {})
    <2>. HIDE DEF row
    <2>. QED BY <1>1, <1>2, <1>3, NewRow, RoomForOne
<1>6. Rest' /\ clock' = clock
    BY <1>1 DEF Rest, OwnerRun
<1>. QED BY <1>4, <1>5, <1>6, OtherStep

LEMMA ResumeOwnerTaskRunStep ==
    ASSUME Inv, NEW t \in Task, NEW p \in Phase, ResumeOwnerTaskRun(t, p)
    PROVE  StepGood
<1>1. task \in TaskTable /\ Rest /\ command \in Commands /\ interventions' \in 0..MaxInterventions
    BY InvParts, Interventions DEF ResumeOwnerTaskRun
<1>. DEFINE row == Scheduled(t, p, "local_owner_resume")
<1>2. row \in CommandRow /\ row.source # "ready_scheduler"
    BY Scheduling DEF Source
<1>3. command' = Append(command, row) /\ task' = task /\ Len(command) < MaxCommands
    BY DEF ResumeOwnerTaskRun
<1>4. task' \in TaskTable /\ Quiet(task, task')
    BY <1>1, <1>3 DEF Quiet
<1>5. command' \in Commands /\ Len(command') <= MaxCommands /\ Adds(command, command', {})
    <2>. HIDE DEF row
    <2>. QED BY <1>1, <1>2, <1>3, NewRow, RoomForOne
<1>6. Rest' /\ clock' = clock
    BY <1>1 DEF Rest, ResumeOwnerTaskRun
<1>. QED BY <1>4, <1>5, <1>6, OtherStep

LEMMA ResetCommandStep ==
    ASSUME Inv, NEW i \in DOMAIN command, ResetCommand(i)
    PROVE  StepGood
<1>1. task \in TaskTable /\ Rest /\ command \in Commands /\ Len(command) <= MaxCommands
      /\ interventions' \in 0..MaxInterventions
    BY InvParts, Interventions DEF ResetCommand
<1>. DEFINE t == command[i].task
            row == [task[t] EXCEPT !.status = "ready", !.worker = FALSE]
<1>2. t \in Task /\ task[t] \in TaskRow
    BY <1>1, Rows DEF TaskTable
<1>3. Keeps(row, task[t])
    <2>. HIDE DEF t
    <2>. QED BY <1>2 DEF TaskRow, Keeps, Status
<1>4. task' = [task EXCEPT ![t] = row]
    BY <1>1, <1>2 DEF ResetCommand, TaskTable
<1>5. task' \in TaskTable /\ Quiet(task, task')
    <2>. HIDE DEF row, t
    <2>. QED BY <1>1, <1>2, <1>3, <1>4, KeptRows
<1>6. command' = WithState(command, i, "cancelled") /\ "cancelled" \in Ended /\ "cancelled" \notin Active
    BY DEF ResetCommand, WithState, Ended, Active
<1>7. command' \in Commands /\ Len(command') = Len(command) /\ Adds(command, command', {})
    BY <1>1, <1>6, NewState
<1>8. Rest' /\ clock' = clock
    BY <1>1 DEF Rest, ResetCommand
<1>. QED BY <1>1, <1>5, <1>7, <1>8, OtherStep

LEMMA ReplaceCommandStep ==
    ASSUME Inv, NEW i \in DOMAIN command, ReplaceCommand(i)
    PROVE  StepGood
<1>1. task \in TaskTable /\ Rest /\ command \in Commands /\ interventions' \in 0..MaxInterventions
    BY InvParts, Interventions DEF ReplaceCommand
<1>. DEFINE t == command[i].task
            p == command[i].phase
            new == Scheduled(t, p, "owner")
<1>2. t \in Task /\ new \in CommandRow /\ new.source # "ready_scheduler"
    BY Rows, Scheduling DEF Source
<1>3. /\ command' = Append(command, new) /\ task' = StartedTask(task, t, p)
      /\ Len(command) < MaxCommands
    BY DEF ReplaceCommand
<1>4. task' \in TaskTable /\ Quiet(task, task')
    BY <1>1, <1>2, <1>3, Starting
<1>5. command' \in Commands /\ Len(command') <= MaxCommands /\ Adds(command, command', {})
    <2>. HIDE DEF new
    <2>. QED BY <1>1, <1>2, <1>3, NewRow, RoomForOne
<1>6. Rest' /\ clock' = clock
    BY <1>1 DEF Rest, ReplaceCommand
<1>. QED BY <1>4, <1>5, <1>6, OtherStep

LEMMA AcceptStep ==
    ASSUME Inv, NEW i \in DOMAIN command, AcceptCommandExecution(i)
    PROVE  StepGood
<1>1. task \in TaskTable /\ Rest /\ command \in Commands /\ Len(command) <= MaxCommands
    BY InvParts
<1>2. /\ command' = WithState(command, i, "running")
      /\ command[i].state \in Active /\ "running" \in Active
    BY DEF AcceptCommandExecution, WithState, Active
<1>3. command' \in Commands /\ Len(command') = Len(command) /\ Adds(command, command', {})
    BY <1>1, <1>2, NewState
<1>. DEFINE t == command[i].task
            row == ResumedRow(task[t], command[i])
<1>4. t \in Task /\ task[t] \in TaskRow
    BY <1>1, Rows DEF TaskTable
<1>5. Keeps(row, task[t])
    <2>. HIDE DEF t
    <2>. QED BY <1>4 DEF ResumedRow, TaskRow, Keeps, Status
<1>6. task' = [task EXCEPT ![t] = row]
    BY <1>1, <1>4 DEF AcceptCommandExecution, TaskTable
<1>7. task' \in TaskTable /\ Quiet(task, task')
    <2>. HIDE DEF row, t
    <2>. QED BY <1>1, <1>4, <1>5, <1>6, KeptRows
<1>8. Rest' /\ clock' = clock
    BY <1>1 DEF Rest, AcceptCommandExecution
<1>. QED BY <1>1, <1>3, <1>7, <1>8, OtherStep

LEMMA AgentReleaseStep ==
    ASSUME Inv, NEW i \in DOMAIN command, AgentRelease(i)
    PROVE  StepGood
<1>1. task \in TaskTable /\ Rest
    BY InvParts
<1>. DEFINE t == command[i].task
            row == [task[t] EXCEPT !.status = "ready", !.worker = FALSE]
<1>2. t \in Task /\ task[t] \in TaskRow
    BY <1>1, Rows DEF TaskTable
<1>3. Keeps(row, task[t])
    <2>. HIDE DEF t
    <2>. QED BY <1>2 DEF TaskRow, Keeps, Status
<1>4. task' = [task EXCEPT ![t] = row]
    BY <1>1, <1>2 DEF AgentRelease, TaskTable
<1>5. Rest' /\ command' = command /\ clock' = clock
    BY <1>1 DEF Rest, AgentRelease
<1>. HIDE DEF row, t
<1>. QED BY <1>2, <1>3, <1>4, <1>5, OneRow

LEMMA SettleStoppedStep ==
    ASSUME Inv, NEW i \in DOMAIN command, SettleStopped(i)
    PROVE  StepGood
<1>1. task \in TaskTable /\ Rest /\ command \in Commands /\ Len(command) <= MaxCommands
    BY InvParts
<1>. DEFINE t == command[i].task
<1>2. PICK s, row : /\ s \in Ended \ {"succeeded"}
                    /\ row \in Unfinished(task[t], command[i].phase) \cup Outcomes(i)
                    /\ command' = [command EXCEPT ![i].state = s]
                    /\ task' = [task EXCEPT ![t] = Attended(row, s)]
    BY DEF SettleStopped
<1>3. command' = WithState(command, i, s) /\ s \in Ended /\ s \notin Active
    BY <1>2 DEF WithState, Ended, Active
<1>4. command' \in Commands /\ Len(command') = Len(command) /\ Adds(command, command', {})
    BY <1>1, <1>3, NewState
<1>5. t \in Task /\ Keeps(row, task[t])
    BY <1>1, <1>2, Rows, OutcomeKeeps
<1>6. Keeps(Attended(row, s), task[t])
    <2>. HIDE DEF t
    <2>. QED BY <1>5 DEF Attended, TaskRow, Keeps, Status
<1>7. task' \in TaskTable /\ Quiet(task, task')
    <2>. HIDE DEF t
    <2>. QED BY <1>1, <1>2, <1>5, <1>6, KeptRows
<1>8. Rest' /\ clock' = clock
    BY <1>1 DEF Rest, SettleStopped
<1>. QED BY <1>1, <1>4, <1>7, <1>8, OtherStep

LEMMA SettleSucceededStep ==
    ASSUME Inv, NEW i \in DOMAIN command, SettleSucceeded(i)
    PROVE  StepGood
<1>1. task \in TaskTable /\ Rest /\ command \in Commands
    BY InvParts
<1>. DEFINE t == command[i].task
            p == ProjectOf[t]
            cm == WithState(command, i, "succeeded")
<1>2. t \in Task /\ p \in Project
    BY Rows
<1>3. PICK row, q : LET tk == [task EXCEPT ![t] = row]
                    IN  /\ row \in Outcomes(i) /\ q \in Continuations(tk, cm, p)
                        /\ command' = ContinuedCommand(tk, cm, q) /\ task' = ContinuedTask(tk, q)
    BY DEF SettleSucceeded, WithState
<1>. DEFINE tk == [task EXCEPT ![t] = row]
<1>4. "succeeded" \in Ended /\ "succeeded" \notin Active
    BY DEF Ended, Active
<1>5. cm \in Commands /\ Adds(command, cm, {})
    BY <1>1, <1>4, NewState
<1>6. tk \in TaskTable /\ Quiet(task, tk)
    <2>1. Keeps(row, task[t])
        BY <1>1, <1>3, OutcomeKeeps
    <2>. HIDE DEF t
    <2>. QED BY <1>1, <1>2, <2>1, KeptRows
<1>. HIDE DEF p, cm, tk
<1>7. task' \in TaskTable /\ Quiet(tk, task') /\ command' \in Commands /\ Adds(cm, command', {})
    BY <1>2, <1>3, <1>5, <1>6, Continuing DEF tk
<1>8. Quiet(task, task') /\ Adds(command, command', {})
    BY <1>5, <1>6, <1>7, QuietIsTransitive, AddsIsTransitive
<1>9. Rest' /\ clock' = clock /\ Len(command') <= MaxCommands
    BY <1>1 DEF Rest, SettleSucceeded
<1>. QED BY <1>7, <1>8, <1>9, OtherStep

LEMMA ReconcileAutomaticStep ==
    ASSUME Inv, NEW p \in Project, ReconcileAutomaticProject(p)
    PROVE  StepGood
<1>1. task \in TaskTable /\ Rest /\ command \in Commands
    BY InvParts
<1>2. PICK q : /\ q \in Continuations(task, command, p)
               /\ command' = ContinuedCommand(task, command, q) /\ task' = ContinuedTask(task, q)
    BY DEF ReconcileAutomaticProject
<1>3. task' \in TaskTable /\ Quiet(task, task') /\ command' \in Commands /\ Adds(command, command', {})
    BY <1>1, <1>2, Continuing
<1>4. Rest' /\ clock' = clock /\ Len(command') <= MaxCommands
    BY <1>1 DEF Rest, ReconcileAutomaticProject
<1>. QED BY <1>3, <1>4, OtherStep

LEMMA DispatchSteps ==
    ASSUME Inv, NEW p \in Project, Poll(p) \/ ReconcileReadyProject(p)
    PROVE  StepGood
<1>1. /\ task \in TaskTable /\ Rest /\ command \in Commands
      /\ Len(command) <= MaxCommands /\ Within(command)
    BY InvParts
<1>2. PICK blocked :
        /\ blocked \in Measured
        /\ pressure' = blocked /\ task' = DispatchedTask(task, command, p, blocked)
        /\ \/ command' = ClaimedCommand(DispatchedCommand(task, command, p, blocked), p)
           \/ command' = DispatchedCommand(task, command, p, blocked)
    BY DEF Poll, ReconcileReadyProject
<1>. DEFINE dm == DispatchedCommand(task, command, p, blocked)
<1>3. task' \in TaskTable /\ Quiet(task, task') /\ dm \in Commands /\ Len(dm) <= MaxCommands /\ Within(dm)
    BY <1>1, <1>2, Dispatching
<1>. HIDE DEF dm
<1>4. command' \in Commands /\ Len(command') <= MaxCommands /\ Within(command')
    <2>1. CASE command' = dm
        BY <1>3, <2>1
    <2>2. CASE command' = ClaimedCommand(dm, p)
        BY <1>3, <2>2, Claiming, OthersStayWithin
    <2>. QED BY <1>2, <2>1, <2>2 DEF dm
<1>5. Rest' /\ clock' = clock
    <2>1. pressure' \in BOOLEAN
        BY <1>2, DispatchAssumption
    <2>. QED BY <1>1, <2>1 DEF Rest, Poll, ReconcileReadyProject
<1>. QED BY <1>3, <1>4, <1>5, RoutineStep DEF Routine

LEMMA ExpireStep ==
    ASSUME Inv, NEW p \in Project, ExpireOrchestratorLease(p)
    PROVE  StepGood
<1>1. task \in TaskTable /\ Rest /\ command \in Commands /\ Len(command) <= MaxCommands
    BY InvParts
<1>. DEFINE lost(i) == command[i].state = "claimed" /\ ProjectOf[command[i].task] = p
            dm == [i \in DOMAIN command |->
                     IF lost(i) THEN [command[i] EXCEPT !.state = "reconciliation_required"]
                     ELSE command[i]]
<1>2. command' = dm
    BY DEF ExpireOrchestratorLease
<1>3. ASSUME NEW i \in DOMAIN command
      PROVE  /\ dm[i] \in CommandRow
             /\ dm[i].task = command[i].task /\ dm[i].source = command[i].source
             /\ dm[i].state \in Active => command[i].state \in Active
    <2>1. command[i] \in CommandRow
        BY Rows
    <2>2. "reconciliation_required" \in Ended /\ "reconciliation_required" \notin Active
        BY DEF Ended, Active
    <2>. QED BY <2>1, <2>2 DEF CommandRow
<1>4. dm \in Commands /\ Len(dm) = Len(command)
    <2>1. dm \in [1..Len(command) -> CommandRow] /\ Len(command) \in Nat
        BY <1>1, <1>3 DEF Commands
    <2>. HIDE DEF dm
    <2>. QED BY <2>1 DEF Commands
<1>5. Adds(command, dm, {})
    BY <1>3 DEF Adds
<1>6. Rest' /\ clock' = clock /\ task' = task
    <2>1. expiries' \in 0..MaxExpiries
        <3>1. expiries \in 0..MaxExpiries /\ MaxExpiries \in Int
            BY <1>1, DispatchAssumption DEF Rest
        <3>. QED BY <3>1 DEF ExpireOrchestratorLease
    <2>2. lease' \in [Project -> BOOLEAN]
        BY <1>1 DEF Rest, ExpireOrchestratorLease
    <2>. QED BY <1>1, <2>1, <2>2 DEF Rest, ExpireOrchestratorLease
<1>7. Quiet(task, task')
    BY <1>6 DEF Quiet
<1>. HIDE DEF dm
<1>. QED BY <1>1, <1>2, <1>4, <1>5, <1>6, <1>7, OtherStep

LEMMA InitInv == Init => Inv
<1>. SUFFICES ASSUME Init PROVE Inv
    OBVIOUS
<1>1. command = <<>> /\ command \in Commands /\ Len(command) = 0 /\ DOMAIN command = {}
    BY DEF Init, Commands
<1>2. MaxCommands \in Nat /\ Len(command) <= MaxCommands
    BY <1>1, DispatchAssumption
<1>3. clock \in {0, 1} /\ clock \in 0..MaxClock /\ (Standing # {} => clock = 1)
    BY DispatchAssumption DEF Init
<1>4. ASSUME NEW t \in Task
      PROVE  /\ task[t] \in TaskRow /\ task[t].released <= clock
             /\ task[t].policy # "manual" => task[t].released # 0
    <2>1. CASE t \in Standing
        <3>1. clock = 1 /\ 1 \in 0..MaxClock
            BY <1>3, <2>1
        <3>2. task[t] = [CreatedTask EXCEPT !.policy = "automatic", !.released = 1]
            BY <2>1 DEF Init
        <3>3. task[t] \in TaskRow /\ task[t].released = 1
            BY <3>1, <3>2, Created DEF TaskRow, Policy
        <3>. QED BY <3>1, <3>3
    <2>2. CASE t \notin Standing
        <3>1. task[t] = CreatedTask \/ task[t] = [CreatedTask EXCEPT !.status = "absent"]
            BY <2>2 DEF Init
        <3>2. task[t] \in TaskRow /\ task[t].policy = "manual" /\ task[t].released = 0
            BY <3>1, Created DEF TaskRow, Status
        <3>. QED BY <1>3, <3>2
    <2>. QED BY <2>1, <2>2
<1>5. task \in TaskTable
    BY <1>4 DEF Init, TaskTable
<1>6. Queued(task, clock)
    BY <1>4 DEF Queued
<1>7. Rest
    <2>1. expiries \in 0..MaxExpiries /\ interventions \in 0..MaxInterventions
        BY DispatchAssumption DEF Init
    <2>2. dependency \subseteq Task \X Task
        BY DispatchAssumption DEF Init
    <2>. QED BY <1>3, <2>1, <2>2 DEF Init, Rest
<1>8. Within(command)
    <2>1. Mine(command) = {} /\ \A p \in Project : MineIn(command, p) = {}
        BY <1>1 DEF Mine, MineIn, ActiveCommands
    <2>. QED BY <2>1, FS_EmptySet, Limits DEF Within
<1>. QED BY <1>1, <1>2, <1>5, <1>6, <1>7, <1>8, InvParts

LEMMA EveryStep == Inv /\ [Next]_vars => StepGood
<1>. SUFFICES ASSUME Inv, [Next]_vars PROVE StepGood
    OBVIOUS
<1>1. CASE UNCHANGED vars
    <2>1. task' = task /\ command' = command /\ clock' = clock
        BY <1>1 DEF vars
    <2>2. task' \in TaskTable /\ Rest'
        BY <1>1, InvParts DEF vars, Rest
    <2>3. Quiet(task, task')
        BY <2>1 DEF Quiet
    <2>. QED BY <2>1, <2>2, <2>3, QuietStep
<1>2. CASE Owner
    <2>1. PICK t \in Task :
            \/ Release(t) \/ PauseDispatch(t) \/ ManualizeDispatch(t) \/ SetPriority(t)
            \/ UpdateOwnerTask(t) \/ SetTaskArchived(t) \/ CreateOwnerTask(t)
            \/ RequireDecision(t) \/ ResolveDecision(t)
            \/ \E p \in Phase : OwnerRun(t, p) \/ ResumeOwnerTaskRun(t, p)
            \/ \E u \in Task : SplitTask(t, u) \/ AddDependency(t, u)
        BY <1>2 DEF Owner
    <2>2. CASE Release(t)
        BY <2>2, ReleaseStep
    <2>3. CASE PauseDispatch(t) \/ ManualizeDispatch(t) \/ SetPriority(t)
        BY <2>3, QueueStep
    <2>4. CASE UpdateOwnerTask(t) \/ SetTaskArchived(t) \/ CreateOwnerTask(t)
        BY <2>4, OwnerTaskStep
    <2>5. CASE RequireDecision(t) \/ ResolveDecision(t)
        BY <2>5, BesideTheTasksStep
    <2>6. CASE \E p \in Phase : OwnerRun(t, p) \/ ResumeOwnerTaskRun(t, p)
        BY <2>6, OwnerRunStep, ResumeOwnerTaskRunStep
    <2>7. CASE \E u \in Task : SplitTask(t, u) \/ AddDependency(t, u)
        BY <2>7, SplitTaskStep, BesideTheTasksStep
    <2>. QED BY <2>1, <2>2, <2>3, <2>4, <2>5, <2>6, <2>7
<1>3. CASE \E i \in DOMAIN command : Execution(i)
    BY <1>3, ResetCommandStep, ReplaceCommandStep, AcceptStep, AgentReleaseStep,
       SettleSucceededStep, SettleStoppedStep DEF Execution
<1>4. CASE \E p \in Project : Daemon(p)
    <2>1. PICK p \in Project : Daemon(p)
        BY <1>4
    <2>2. CASE ReconcileAutomaticProject(p)
        BY <2>2, ReconcileAutomaticStep
    <2>3. CASE Poll(p) \/ ReconcileReadyProject(p)
        BY <2>3, DispatchSteps
    <2>4. CASE ExpireOrchestratorLease(p)
        BY <2>4, ExpireStep
    <2>5. CASE RegisterProjectOrchestrator(p)
        BY <2>5, RegisterStep
    <2>. QED BY <2>1, <2>2, <2>3, <2>4, <2>5 DEF Daemon
<1>. QED BY <1>1, <1>2, <1>3, <1>4 DEF Next

-----------------------------------------------------------------------------
(***************************************************************************)
(* The theorems.                                                           *)
(***************************************************************************)

\* The inductive invariant holds in every state.
THEOREM Invariance == Spec => []Inv
<1>1. Inv /\ [Next]_vars => Inv'
    BY EveryStep DEF StepGood
<1>. QED BY InitInv, <1>1, PTL DEF Spec

\* Every column and every row has its type: no operation on the queue, and no mixture of them,
\* leaves a policy, a release or a command the store would not know.
THEOREM TypeCorrect == Spec => []TypeOK
<1>1. Inv => TypeOK
    BY DEF Inv
<1>. QED BY Invariance, <1>1, PTL

\* For every number of projects and tasks, and every pair of limits: what dispatchNextReadyTask
\* put to work stays within both, although owner runs, replacements, continuations and lost
\* leases ask for neither.
THEOREM LimitsHold == Spec => []SchedulerWithinLimits
<1>1. Inv => SchedulerWithinLimits
    BY DEF Inv
<1>. QED BY Invariance, <1>1, PTL

\* readyDispatchCandidates numbers the tasks in the order dispatchNextReadyTask takes them, for all
\* limits of the scheduler: its number one is what is selected when the lease and the limits allow a
\* dispatch, nothing is selected without one, and what it calls eligible by its own limits is next.
THEOREM OneOrder == Spec => []RankOneIsNext
BY Invariance, QueriesAgree, PTL

\* Two queued tasks of one priority never change places, whoever pauses, resumes, archives,
\* resets or replaces them meanwhile, and a released task stands behind those released before.
THEOREM PlacesStand == Spec => PlacesAreKept
<1>1. Inv /\ [Next]_vars =>
        [\A t, u \in Task :
           (/\ task'[t].priority = task[t].priority /\ task'[u].priority = task[u].priority
            /\ task[u].policy # "manual" /\ task'[u].policy # "manual"
            /\ task'[t].policy # "manual") =>
             IF task[t].policy # "manual"
             THEN Before(task, t, u) <=> Before(task', t, u)
             ELSE task[t].priority = task[u].priority => task'[t].released >= task'[u].released]_vars
    <2>. SUFFICES ASSUME Inv, [Next]_vars, NEW t \in Task, NEW u \in Task,
                         task'[t].priority = task[t].priority, task'[u].priority = task[u].priority,
                         task[u].policy # "manual", task'[u].policy # "manual",
                         task'[t].policy # "manual"
                  PROVE  IF task[t].policy # "manual"
                         THEN Before(task, t, u) <=> Before(task', t, u)
                         ELSE task[t].priority = task[u].priority =>
                                task'[t].released >= task'[u].released
        OBVIOUS
    <2>1. Stands(t) /\ Stands(u)
        BY EveryStep DEF StepGood
    <2>2. task'[u].released = task[u].released /\ task[u].released <= clock
        BY <2>1, InvParts DEF Stands, Queued
    <2>3. CASE task[t].policy # "manual"
        <3>1. task'[t].released = task[t].released
            BY <2>1, <2>3 DEF Stands
        <3>. QED BY <2>2, <2>3, <3>1 DEF Before
    <2>4. CASE task[t].policy = "manual"
        <3>1. task'[t].released >= clock
            BY <2>1, <2>4 DEF Stands
        <3>2. task'[t].released \in Int /\ task[u].released \in Int /\ clock \in Int
            <4>1. task \in TaskTable /\ task' \in TaskTable /\ clock \in Int
                <5>1. MaxClock \in Int
                    BY DispatchAssumption
                <5>. QED BY <5>1, EveryStep, InvParts, InvPartsNext DEF StepGood, Rest
            <4>. QED BY <4>1, Columns
        <3>. QED BY <2>2, <2>4, <3>1, <3>2
    <2>. QED BY <2>3, <2>4
<1>. QED BY Invariance, <1>1, PTL DEF Spec, PlacesAreKept
===============================================================================
