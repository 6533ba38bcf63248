------------------------------ MODULE PlanGraph ------------------------------
(***************************************************************************)
(* The compiled execution graph of a plan package and the rules that       *)
(* derive "planned"/"ready" block statuses and task statuses from what has *)
(* been done (runtime/src/state.ts, runtime/src/taskManager/selectors.ts). *)
(* Operators take the block states B and the feedback envelopes F, because *)
(* the code applies them both to the loaded state and to the state it is   *)
(* about to write.                                                         *)
(***************************************************************************)
EXTENDS Naturals, FiniteSets

CONSTANTS
    Tasks,       \* task nodes of the manifest
    Blocks,      \* block refs of the manifest
    Reviews,     \* the blocks of type "review"; the others are implementations
    Required,    \* the reviews with review.required
    TaskOf,      \* blockTaskByRef
    BlockDeps,   \* blockDependenciesByRef
    TaskDeps,    \* taskDependenciesByTask
    Rank         \* position of a block in blockRefsInManifestOrder

ASSUME GraphAssumption ==
    /\ Reviews \subseteq Blocks
    /\ Required \subseteq Reviews
    /\ TaskOf \in [Blocks -> Tasks]
    /\ BlockDeps \in [Blocks -> SUBSET Blocks]
    /\ TaskDeps \in [Tasks -> SUBSET Tasks]
    /\ Rank \in [Blocks -> Nat]
    /\ \A a, b \in Blocks : Rank[a] = Rank[b] => a = b

\* A manifest has finitely many blocks.
ASSUME FiniteAssumption == IsFiniteSet(Blocks)

Impls(t) == {b \in Blocks \ Reviews : TaskOf[b] = t}
Gates(t) == {b \in Required : TaskOf[b] = t}

\* The tasks a task transitively depends on.
Ancestors ==
    [t \in Tasks |->
        {u \in Tasks :
            \A S \in SUBSET Tasks :
                (TaskDeps[t] \subseteq S /\ \A v \in S : TaskDeps[v] \subseteq S)
                    => u \in S}]

\* Two blocks whose work may overlap: same task, or one task behind the other.
RefsConflict(a, b) ==
    /\ a # b
    /\ \/ TaskOf[a] = TaskOf[b]
       \/ TaskOf[a] \in Ancestors[TaskOf[b]]
       \/ TaskOf[b] \in Ancestors[TaskOf[a]]

\* The first block of S in manifest order, as a set: empty when S is.
Earliest(S) == {b \in S : \A c \in S : Rank[b] <= Rank[c]}

-----------------------------------------------------------------------------
Active(F) == {i \in DOMAIN F : F[i].status \in {"open", "in_progress"}}
OpenFor(F, r) == {i \in Active(F) : F[i].review = r}
OpenForTask(F, t) == {i \in Active(F) : TaskOf[F[i].review] = t}

BlockDepsCompleted(B, b) == \A d \in BlockDeps[b] : B[d].status = "completed"

\* Mutant of Closed: open feedback does not hold the task back.
ClosedWithFeedback(B, F, t) ==
    /\ \A b \in Blocks : TaskOf[b] = t => B[b].status # "in_progress"
    /\ \A b \in Impls(t) : B[b].status = "completed"
    /\ \A r \in Gates(t) : B[r].reason = "passed"

\* A task's own condition for "implemented", its dependencies aside.
Closed(B, F, t) ==
    /\ \A b \in Blocks : TaskOf[b] = t => B[b].status # "in_progress"
    /\ OpenForTask(F, t) = {}
    /\ \A b \in Impls(t) : B[b].status = "completed"
    /\ \A r \in Gates(t) : B[r].reason = "passed"

\* aggregateTaskStatus computes "implemented" from the dependencies' status;
\* at the fixed point that is: the task and everything behind it is closed.
Implemented(B, F, t) == \A u \in {t} \cup Ancestors[t] : Closed(B, F, u)

TaskDepsSatisfied(B, F, t) == \A u \in TaskDeps[t] : Implemented(B, F, u)

TaskStatus(B, F, t) ==
    CASE ~TaskDepsSatisfied(B, F, t) -> "planned"
      [] Implemented(B, F, t) -> "implemented"
      [] OTHER ->
            IF \/ OpenForTask(F, t) # {}
               \/ \E b \in Blocks : /\ TaskOf[b] = t
                                    /\ B[b].status \notin {"planned", "ready"}
            THEN "in_progress" ELSE "ready"

\* The seed pass makes a block of a dependency-free task ready whatever its
\* feedback; the promotion passes skip a review whose task has open feedback.
SeedReady(B, b) ==
    /\ TaskDeps[TaskOf[b]] = {}
    /\ \A d \in BlockDeps[b] : Rank[d] < Rank[b]

\* Mutant of DerivedStatus: a dependency that is only ready lets a block start.
DerivedStatusEager(B, F, b) ==
    IF /\ TaskDepsSatisfied(B, F, TaskOf[b])
       /\ \A d \in BlockDeps[b] : B[d].status \in {"ready", "completed"}
    THEN "ready" ELSE "planned"

DerivedStatus(B, F, b) ==
    IF /\ TaskDepsSatisfied(B, F, TaskOf[b])
       /\ BlockDepsCompleted(B, b)
       /\ \/ b \notin Reviews
          \/ OpenForTask(F, TaskOf[b]) = {}
          \/ SeedReady(B, b)
    THEN "ready" ELSE "planned"

\* Block states after ensureStateForManifest.
Reconciled(B, F) ==
    [b \in Blocks |->
        IF B[b].status \in {"planned", "ready"}
        THEN [B[b] EXCEPT !.status = DerivedStatus(B, F, b)]
        ELSE B[b]]
=============================================================================
