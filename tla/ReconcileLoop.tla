---------------------------- MODULE ReconcileLoop ----------------------------
(***************************************************************************)
(* ensureStateForManifest (runtime/src/state.ts) as the loop it is: block  *)
(* statuses are seeded in manifest order while no task status is known,    *)
(* task statuses are aggregated in manifest order, and promotion passes    *)
(* repeat until one changes nothing or their number runs out.  PlanGraph   *)
(* states what the loop is for, Reconciled and TaskStatus; this module     *)
(* checks that the loop computes them, also when a task stands before the  *)
(* tasks it depends on.                                                    *)
(***************************************************************************)
EXTENDS PlanGraph, Sequences

CONSTANTS
    BlockOrder,   \* blockRefsInManifestOrder
    TaskOrder,    \* taskNodesInManifestOrder
    Inputs        \* the pairs <<blocks, feedback>> of the states that are loaded

ASSUME OrderAssumption ==
    /\ BlockOrder \in [1..Cardinality(Blocks) -> Blocks]
    /\ TaskOrder \in [1..Cardinality(Tasks) -> Tasks]
    /\ \A i \in DOMAIN BlockOrder, j \in DOMAIN BlockOrder :
        i < j => Rank[BlockOrder[i]] < Rank[BlockOrder[j]]

VARIABLES
    given,    \* the blocks and feedback of the loaded state
    blocks,   \* next.blocks
    tasks,    \* next.tasks, "absent" where no status has been computed
    phase,    \* "seed", "aggregate", "promote" or "done"
    at,       \* position in the manifest order of the phase
    pass,     \* promotion passes finished
    changed   \* whether the current pass changed anything

lvars == <<given, blocks, tasks, phase, at, pass, changed>>

Feedback == given[2]

\* taskDependenciesSatisfied and aggregateTaskStatus on the state so far.
Satisfied(t) == \A u \in TaskDeps[t] : tasks[u] = "implemented"

Aggregate(B, t) ==
    LET of == {b \in Blocks : TaskOf[b] = t}
    IN  CASE ~Satisfied(t) -> "planned"
          [] Satisfied(t) /\ ( \/ \E b \in of : B[b].status = "in_progress"
                               \/ OpenForTask(Feedback, t) # {} ) -> "in_progress"
          [] OTHER ->
                IF /\ \A b \in Impls(t) : B[b].status = "completed"
                   /\ \A r \in Gates(t) : B[r].reason = "passed"
                THEN "implemented"
                ELSE IF \E b \in of : B[b].status \notin {"planned", "ready"}
                     THEN "in_progress" ELSE "ready"

Init ==
    /\ given \in Inputs
    /\ blocks = given[1]
    /\ tasks = [t \in Tasks |-> "absent"]
    /\ phase = "seed"
    /\ at = 1
    /\ pass = 0
    /\ changed = FALSE

\* Move to the next position of a phase, or to the next phase.
Advance(order, next) ==
    /\ phase' = IF at < Len(order) THEN phase ELSE next
    /\ at' = IF at < Len(order) THEN at + 1 ELSE 1

\* defaultBlockStatus; a dependency that has not been seeded yet is unknown.
Seed ==
    /\ phase = "seed"
    /\ LET b == BlockOrder[at]
           ready == /\ Satisfied(TaskOf[b])
                    /\ \A d \in BlockDeps[b] : Rank[d] < Rank[b] /\ blocks[d].status = "completed"
       IN  blocks' = IF blocks[b].status \in {"planned", "ready"}
                     THEN [blocks EXCEPT ![b].status = IF ready THEN "ready" ELSE "planned"]
                     ELSE blocks
    /\ Advance(BlockOrder, "aggregate")
    /\ UNCHANGED <<given, tasks, pass, changed>>

AggregateTask ==
    /\ phase = "aggregate"
    /\ tasks' = [tasks EXCEPT ![TaskOrder[at]] = Aggregate(blocks, TaskOrder[at])]
    /\ Advance(TaskOrder, "promote")
    /\ UNCHANGED <<given, blocks, pass, changed>>

\* One task of a promotion pass.
Promotable(t) ==
    {b \in Blocks : /\ TaskOf[b] = t
                    /\ blocks[b].status = "planned"
                    /\ BlockDepsCompleted(blocks, b)
                    /\ b \in Reviews => OpenForTask(Feedback, t) = {}}

\* Mutant of MaxPromotePasses: the single pass the code's comment warns of.
OnePass == 1

MaxPromotePasses == Len(TaskOrder) + 1

Promote ==
    /\ phase = "promote"
    /\ LET t == TaskOrder[at]
           ready == IF Satisfied(t) THEN Promotable(t) ELSE {}
           B == [b \in Blocks |-> IF b \in ready THEN [blocks[b] EXCEPT !.status = "ready"]
                                                 ELSE blocks[b]]
           status == IF Satisfied(t) THEN Aggregate(B, t) ELSE tasks[t]
           moved == changed \/ ready # {} \/ status # tasks[t]
           last == at = Len(TaskOrder)
       IN  /\ blocks' = B
           /\ tasks' = [tasks EXCEPT ![t] = status]
           /\ at' = IF last THEN 1 ELSE at + 1
           /\ pass' = IF last THEN pass + 1 ELSE pass
           /\ changed' = (moved /\ ~last)
           /\ phase' = IF last /\ (~moved \/ pass + 1 = MaxPromotePasses) THEN "done" ELSE phase
    /\ UNCHANGED given

Next == Seed \/ AggregateTask \/ Promote

Spec == Init /\ [][Next]_lvars

-----------------------------------------------------------------------------
\* Whatever the order of the manifest, the passes the loop allows itself are
\* enough: it ends with the block statuses and the task statuses that PlanGraph
\* derives at once (the fixed point the comment in ensureStateForManifest asks
\* for).
LoopComputesReconciled ==
    phase = "done" =>
        /\ blocks = Reconciled(given[1], Feedback)
        /\ \A t \in Tasks : tasks[t] = TaskStatus(given[1], Feedback, t)
=============================================================================
