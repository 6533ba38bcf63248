----------------------------- MODULE LoopProofs -----------------------------
(***************************************************************************)
(* The loop agents drive (LoopSpec: claim, work, submit, answer feedback)  *)
(* for every plan: work never overlaps, capacity is respected, nothing is  *)
(* started before what it waits for is implemented, implemented tasks stay *)
(* implemented, and what a passed review looked at is what the task holds. *)
(*                                                                         *)
(* The argument rests on one observation.  Whatever a step of the loop     *)
(* touches belongs to a task that is not closed, whose dependencies are    *)
(* implemented, and ends up started.  Effect states it; EffectBegun and    *)
(* EffectClosed draw the conclusions once for all actions.                 *)
(***************************************************************************)
EXTENDS FeedbackProofs, FiniteSetTheorems

Started(s) == s.status \notin {"planned", "ready"}

\* computeWorkRevision on any blocks and feedback.
RevisionOf(B, F, r) ==
    [runs |-> [b \in Blocks |-> IF b \in Impls(TaskOf[r]) THEN B[b].run ELSE 0],
     feedback |-> {i \in FbIds : F[i].review = r /\ F[i].status # "pruned"},
     answered |-> {i \in FbIds : F[i].review = r /\ F[i].status = "resolved"}]

\* A review that was never started carries no verdict.
FreshReviews(B) == \A r \in Reviews : ~Started(B[r]) => B[r].reason = "none"

\* A review is started only behind the completed work it reviews.
ReviewsBehindWork(B) ==
    \A r \in Reviews : Started(B[r]) =>
        r \in Required /\ \A b \in Impls(TaskOf[r]) : B[b].status = "completed"

\* Nothing is started before the tasks in front are implemented.
StartedBehind(B, F) ==
    \A b \in Blocks : Started(B[b]) => TaskDepsSatisfied(B, F, TaskOf[b])

\* Envelopes belong to started reviews; unused numbers belong to none.
EnvelopesBehind(B, F) ==
    \A i \in FbIds : IF F[i].status = "none" THEN F[i].review = NoBlock
                                             ELSE Started(B[F[i].review])

\* What passed is what is there.
PassedAsIs(B, F) ==
    \A r \in Reviews : B[r].status = "completed" /\ B[r].reason = "passed"
                        => B[r].passedRev = {RevisionOf(B, F, r)}

Begun(B, F) ==
    /\ FreshReviews(B)
    /\ ReviewsBehindWork(B)
    /\ StartedBehind(B, F)
    /\ EnvelopesBehind(B, F)
    /\ PassedAsIs(B, F)

\* Blocks that are worked on, or will be when their feedback is answered: a
\* review may complete while an envelope of it is open, and submitting the
\* answer takes it up again.
Engaged(B, F) ==
    {b \in Blocks : B[b].status = "in_progress" \/ (b \in Reviews /\ OpenFor(F, b) # {})}

Apart(B, F) == \A a, b \in Engaged(B, F) : ~RefsConflict(a, b)

BusyImpls(B) == {b \in Blocks \ Reviews : B[b].status = "in_progress"}

LoopInv ==
    /\ LocalInv
    /\ Begun(blk, fb)
    /\ Apart(blk, fb)
    /\ Cardinality(BusyImpls(blk)) <= MaxConcurrent

\* What a step of the loop is about to commit, X being the blocks it touches.
Effect(X, B, F) ==
    /\ B \in [Blocks -> BlockStates]
    /\ FbOK(F)
    /\ X \subseteq Blocks
    /\ \A b \in Blocks \ X : B[b] = blk[b]
    /\ \A b \in X : /\ Started(B[b])
                    /\ ~Closed(blk, fb, TaskOf[b])
                    /\ TaskDepsSatisfied(blk, fb, TaskOf[b])
    /\ \A b \in X \ Reviews : blk[b].status # "completed"
    /\ \A r \in X \cap Reviews :
        /\ r \in Required
        /\ \A b \in Impls(TaskOf[r]) : blk[b].status = "completed"
        /\ B[r].status = "completed" /\ B[r].reason = "passed"
            => B[r].passedRev = {RevisionOf(blk, F, r)}
    /\ \A i \in FbIds :
        \/ F[i] = fb[i]
        \/ /\ F[i].review \in X \cap Reviews
           /\ F[i].status # "none"
           /\ fb[i].review \in {NoBlock, F[i].review}

-----------------------------------------------------------------------------
(* The graph. *)

\* Everything a task transitively waits for stands behind one of its
\* dependencies, or is one.
LEMMA AncestorsThroughDeps ==
    ASSUME NEW t \in Tasks, NEW u \in Ancestors[t]
    PROVE  \E d \in TaskDeps[t] : u \in {d} \cup Ancestors[d]
  <1>. DEFINE S == UNION {{d} \cup Ancestors[d] : d \in TaskDeps[t]}
  <1>1. TaskDeps[t] \subseteq Tasks /\ \A d \in Tasks : TaskDeps[d] \subseteq Tasks
    BY GraphAssumption
  <1>2. \A d \in Tasks : Ancestors[d] \subseteq Tasks
    BY DEF Ancestors
  <1>3. S \in SUBSET Tasks /\ TaskDeps[t] \subseteq S
    BY <1>1, <1>2
  <1>4. ASSUME NEW d \in Tasks PROVE TaskDeps[d] \subseteq Ancestors[d]
    BY <1>1, <1>4 DEF Ancestors
  <1>5. ASSUME NEW d \in Tasks, NEW v \in Ancestors[d] PROVE TaskDeps[v] \subseteq Ancestors[d]
    <2>. SUFFICES ASSUME NEW w \in TaskDeps[v] PROVE w \in Ancestors[d]
      OBVIOUS
    <2>1. v \in Tasks /\ w \in Tasks
      BY <1>1, <1>2, <1>5
    <2>2. ASSUME NEW Q \in SUBSET Tasks, TaskDeps[d] \subseteq Q,
                 \A x \in Q : TaskDeps[x] \subseteq Q
          PROVE  w \in Q
      <3>1. v \in Q
        BY <1>5, <2>2 DEF Ancestors
      <3>. QED
        BY <2>2, <3>1
    <2>. QED
      BY <2>1, <2>2 DEF Ancestors
  <1>6. \A v \in S : TaskDeps[v] \subseteq S
    <2>. SUFFICES ASSUME NEW v \in S PROVE TaskDeps[v] \subseteq S
      OBVIOUS
    <2>1. PICK d \in TaskDeps[t] : v \in {d} \cup Ancestors[d]
      OBVIOUS
    <2>2. TaskDeps[v] \subseteq Ancestors[d]
      BY <1>1, <1>4, <1>5, <2>1
    <2>. QED
      BY <2>2
  <1>. HIDE DEF S
  <1>7. u \in S
    BY <1>3, <1>6 DEF Ancestors
  <1>. QED
    BY <1>7 DEF S

\* Once a task may start, everything it waits for is closed.
LEMMA AncestorsClosed ==
    ASSUME NEW B, NEW F, NEW t \in Tasks, TaskDepsSatisfied(B, F, t), NEW u \in Ancestors[t]
    PROVE  Closed(B, F, u)
  BY AncestorsThroughDeps DEF TaskDepsSatisfied, Implemented

\* Conflicts are symmetric.
LEMMA ConflictSymmetric ==
    ASSUME NEW a, NEW b, RefsConflict(a, b) PROVE RefsConflict(b, a)
  BY DEF RefsConflict

\* If no closed task is reopened, no implemented task is.
LEMMA ClosedKeepsImplemented ==
    ASSUME NEW B, NEW F, NEW C, NEW G,
           \A t \in Tasks : Closed(B, F, t) => Closed(C, G, t), NEW t \in Tasks
    PROVE  /\ Implemented(B, F, t) => Implemented(C, G, t)
           /\ TaskDepsSatisfied(B, F, t) => TaskDepsSatisfied(C, G, t)
  <1>1. ASSUME NEW u \in Tasks PROVE Implemented(B, F, u) => Implemented(C, G, u)
    <2>1. Ancestors[u] \subseteq Tasks
      BY DEF Ancestors
    <2>. QED
      BY <2>1 DEF Implemented
  <1>. QED
    BY <1>1, GraphAssumption DEF TaskDepsSatisfied

-----------------------------------------------------------------------------
(* What a step of the loop leaves. *)

\* The work revision is the revision of the current state.
LEMMA WorkRevisionNow == ASSUME NEW r PROVE WorkRevision(r) = RevisionOf(blk, fb, r)
  BY DEF WorkRevision, RevisionOf

\* No closed task is touched.
LEMMA EffectClosed ==
    ASSUME IInv, NEW X, NEW B, NEW F, Effect(X, B, F), NEW t, Closed(blk, fb, t)
    PROVE  Closed(B, F, t)
  <1>1. \A b \in Blocks : TaskOf[b] = t => B[b] = blk[b]
    BY DEF Effect
  <1>2. Impls(t) \subseteq Blocks /\ Gates(t) \subseteq Blocks
    BY GraphAssumption DEF Impls, Gates
  <1>3. \A b \in Impls(t) \cup Gates(t) : TaskOf[b] = t
    BY DEF Impls, Gates
  <1>4. OpenForTask(F, t) = {}
    <2>. SUFFICES ASSUME NEW i \in OpenForTask(F, t) PROVE FALSE
      OBVIOUS
    <2>1. i \in FbIds /\ i \in Active(F) /\ TaskOf[F[i].review] = t
      BY DEF OpenForTask, Active, Effect, FbOK
    <2>2. F[i] = fb[i]
      BY <2>1 DEF Effect
    <2>3. i \in DOMAIN fb
      BY <2>1 DEF IInv, Good, FbOK
    <2>4. i \in OpenForTask(fb, t)
      BY <2>1, <2>2, <2>3 DEF OpenForTask, Active
    <2>. QED
      BY <2>4 DEF Closed
  <1>. QED
    BY <1>1, <1>2, <1>3, <1>4 DEF Closed

\* The implementations behind a started review are completed, so no step of the
\* loop touches them.
LEMMA EffectKeepsWork ==
    ASSUME LoopInv, NEW X, NEW B, NEW F, Effect(X, B, F), NEW r \in Reviews,
           r \in X \/ Started(blk[r]), NEW b \in Impls(TaskOf[r])
    PROVE  blk[b].status = "completed" /\ B[b] = blk[b] /\ b \in Blocks
  <1>1. b \in Blocks \ Reviews
    BY DEF Impls
  <1>2. blk[b].status = "completed"
    BY DEF Effect, LoopInv, Begun, ReviewsBehindWork
  <1>3. b \notin X
    BY <1>1, <1>2 DEF Effect
  <1>. QED
    BY <1>1, <1>2, <1>3 DEF Effect

\* The revision a review looks at changes only if the step touches the review.
LEMMA EffectRevision ==
    ASSUME LoopInv, NEW X, NEW B, NEW F, Effect(X, B, F), NEW r \in Reviews,
           r \in X \/ Started(blk[r])
    PROVE  /\ RevisionOf(B, F, r) = RevisionOf(blk, F, r)
           /\ r \notin X => RevisionOf(B, F, r) = RevisionOf(blk, fb, r)
  <1>1. RevisionOf(B, F, r) = RevisionOf(blk, F, r)
    BY EffectKeepsWork DEF RevisionOf
  <1>2. ASSUME r \notin X PROVE RevisionOf(blk, F, r) = RevisionOf(blk, fb, r)
    <2>1. r # NoBlock
      BY GraphAssumption, RuntimeAssumption
    <2>2. ASSUME NEW i \in FbIds, F[i].review = r \/ fb[i].review = r PROVE F[i] = fb[i]
      BY <1>2, <2>1, <2>2 DEF Effect
    <2>. QED
      BY <2>2 DEF RevisionOf
  <1>. QED
    BY <1>1, <1>2

\* What is touched is started, behind what it waits for, and anything else is
\* as it was: the order of the work is kept.
LEMMA EffectBegun ==
    ASSUME LoopInv, NEW X, NEW B, NEW F, Effect(X, B, F)
    PROVE  Begun(B, F)
  <1>. USE DEF LoopInv, LocalInv
  <1>1. \A r \in Reviews : r \in Blocks
    BY GraphAssumption
  <1>2. \A b \in Blocks : b \notin X => B[b] = blk[b]
    BY DEF Effect
  <1>3. FreshReviews(B)
    BY <1>1, <1>2 DEF Begun, FreshReviews, Effect
  <1>4. ReviewsBehindWork(B)
    <2>. SUFFICES ASSUME NEW r \in Reviews, Started(B[r])
                  PROVE  r \in Required /\ \A b \in Impls(TaskOf[r]) : B[b].status = "completed"
      BY DEF ReviewsBehindWork
    <2>1. r \in X \/ Started(blk[r])
      BY <1>1, <1>2
    <2>2. r \in Required
      BY <2>1 DEF Effect, Begun, ReviewsBehindWork
    <2>. QED
      BY <2>1, <2>2, EffectKeepsWork
  <1>5. StartedBehind(B, F)
    <2>. SUFFICES ASSUME NEW b \in Blocks, Started(B[b])
                  PROVE  TaskDepsSatisfied(B, F, TaskOf[b])
      BY DEF StartedBehind
    <2>1. TaskDepsSatisfied(blk, fb, TaskOf[b])
      BY <1>2 DEF Effect, Begun, StartedBehind
    <2>2. \A t \in Tasks : Closed(blk, fb, t) => Closed(B, F, t)
      BY EffectClosed
    <2>3. TaskOf[b] \in Tasks
      BY GraphAssumption
    <2>. QED
      BY <2>1, <2>2, <2>3, ClosedKeepsImplemented
  <1>6. EnvelopesBehind(B, F)
    <2>. SUFFICES ASSUME NEW i \in FbIds
                  PROVE  IF F[i].status = "none" THEN F[i].review = NoBlock
                                                 ELSE Started(B[F[i].review])
      BY DEF EnvelopesBehind
    <2>1. CASE F[i] = fb[i]
      <3>1. F[i].status # "none" => F[i].review \in Reviews
        BY DEF Effect, FbOK
      <3>. QED
        BY <1>1, <1>2, <2>1, <3>1 DEF Effect, Begun, EnvelopesBehind
    <2>2. CASE F[i] # fb[i]
      BY <2>2 DEF Effect
    <2>. QED
      BY <2>1, <2>2
  <1>7. PassedAsIs(B, F)
    <2>. SUFFICES ASSUME NEW r \in Reviews, B[r].status = "completed", B[r].reason = "passed"
                  PROVE  B[r].passedRev = {RevisionOf(B, F, r)}
      BY DEF PassedAsIs
    <2>1. CASE r \in X
      BY <2>1, EffectRevision DEF Effect
    <2>2. CASE r \notin X
      <3>1. B[r] = blk[r] /\ Started(blk[r])
        BY <1>1, <1>2, <2>2 DEF Started
      <3>2. blk[r].passedRev = {RevisionOf(blk, fb, r)}
        BY <3>1 DEF Begun, PassedAsIs
      <3>. QED
        BY <2>2, <3>1, <3>2, EffectRevision
    <2>. QED
      BY <2>1, <2>2
  <1>. QED
    BY <1>3, <1>4, <1>5, <1>6, <1>7 DEF Begun

\* What a step of the loop is shown to do.
Advanced ==
    /\ Begun(blk', fb')
    /\ Apart(blk', fb')
    /\ Cardinality(BusyImpls(blk')) <= MaxConcurrent
    /\ \A t \in Tasks : Closed(blk, fb, t) => Closed(blk', fb', t)

\* Reconciling what is written changes nothing of this.
LEMMA CommitKeeps ==
    ASSUME NEW B \in [Blocks -> BlockStates], NEW F, FbOK(F), NEW refs, NEW feedback, NEW review,
           Commit(B, F, refs, feedback, review)
    PROVE  /\ Begun(B, F) => Begun(blk', fb')
           /\ Engaged(blk', fb') = Engaged(B, F)
           /\ BusyImpls(blk') = BusyImpls(B)
           /\ \A t : Closed(B, F, t) => Closed(blk', fb', t)
  <1>1. fb' = F
    BY DEF Commit
  <1>2. ASSUME NEW b \in Blocks
        PROVE  /\ blk'[b].status = "in_progress" <=> B[b].status = "in_progress"
               /\ blk'[b].status = "completed" <=> B[b].status = "completed"
               /\ Started(blk'[b]) <=> Started(B[b])
               /\ blk'[b].run = B[b].run
               /\ blk'[b].reason = B[b].reason
               /\ blk'[b].passedRev = B[b].passedRev
    <2>1. Started(blk'[b]) <=> Started(B[b])
      <3>1. DerivedStatus(B, F, b) \in {"planned", "ready"} /\ blk' = Reconciled(B, F)
        BY DEF DerivedStatus, Commit
      <3>. QED
        BY <3>1, ReconciledStatus DEF Started
    <2>. QED
      BY <2>1, CommittedBlock
  <1>3. \A t : Impls(t) \subseteq Blocks /\ Gates(t) \subseteq Blocks
    BY GraphAssumption DEF Impls, Gates
  <1>4. \A t : Closed(B, F, t) <=> Closed(blk', fb', t)
    BY <1>1, <1>2, <1>3 DEF Closed
  <1>5. ASSUME NEW r \in Reviews PROVE RevisionOf(blk', fb', r) = RevisionOf(B, F, r)
    BY <1>1, <1>2 DEF RevisionOf
  <1>6. Engaged(blk', fb') = Engaged(B, F) /\ BusyImpls(blk') = BusyImpls(B)
    BY <1>1, <1>2 DEF Engaged, BusyImpls
  <1>7. ASSUME Begun(B, F) PROVE Begun(blk', fb')
    <2>1. \A r \in Reviews : r \in Blocks
      BY GraphAssumption
    <2>2. FreshReviews(blk') /\ ReviewsBehindWork(blk')
      BY <1>2, <1>3, <1>7, <2>1 DEF Begun, FreshReviews, ReviewsBehindWork
    <2>3. StartedBehind(blk', fb')
      <3>1. \A b \in Blocks : TaskOf[b] \in Tasks
        BY GraphAssumption
      <3>. QED
        BY <1>2, <1>4, <1>7, <3>1, ClosedKeepsImplemented DEF Begun, StartedBehind
    <2>4. EnvelopesBehind(blk', fb')
      BY <1>1, <1>2, <1>7, <2>1 DEF Begun, EnvelopesBehind, FbOK
    <2>5. PassedAsIs(blk', fb')
      BY <1>2, <1>5, <1>7, <2>1 DEF Begun, PassedAsIs
    <2>. QED
      BY <2>2, <2>3, <2>4, <2>5 DEF Begun
  <1>. QED
    BY <1>4, <1>6, <1>7

\* A step is settled by its effect, who is engaged after it and how many
\* implementations are busy.
LEMMA EffectStep ==
    ASSUME LoopInv, NEW X, NEW B, NEW F, Effect(X, B, F), Apart(B, F),
           Cardinality(BusyImpls(B)) <= MaxConcurrent,
           NEW refs, NEW feedback, NEW review, Commit(B, F, refs, feedback, review)
    PROVE  Advanced
  <1>1. B \in [Blocks -> BlockStates] /\ FbOK(F)
    BY DEF Effect
  <1>2. Begun(B, F)
    BY EffectBegun
  <1>3. \A t : Closed(blk, fb, t) => Closed(B, F, t)
    BY EffectClosed DEF LoopInv, LocalInv
  <1>. QED
    BY <1>1, <1>2, <1>3, CommitKeeps DEF Advanced, Apart

\* A step that takes nothing up is settled by its effect alone.
LEMMA QuietStep ==
    ASSUME LoopInv, NEW X, NEW B, NEW F, Effect(X, B, F),
           Engaged(B, F) \subseteq Engaged(blk, fb), BusyImpls(B) \subseteq BusyImpls(blk),
           NEW refs, NEW feedback, NEW review, Commit(B, F, refs, feedback, review)
    PROVE  Advanced
  <1>1. Apart(B, F)
    BY DEF LoopInv, Apart
  <1>2. /\ IsFiniteSet(BusyImpls(blk))
        /\ Cardinality(BusyImpls(B)) <= Cardinality(BusyImpls(blk))
    <2>1. BusyImpls(blk) \in SUBSET Blocks
      BY DEF BusyImpls
    <2>2. IsFiniteSet(BusyImpls(blk))
      BY <2>1, FiniteAssumption, FS_Subset
    <2>. QED
      BY <2>2, FS_Subset
  <1>3. /\ Cardinality(BusyImpls(blk)) \in Nat /\ Cardinality(BusyImpls(B)) \in Nat
        /\ MaxConcurrent \in Nat
    BY <1>2, FS_Subset, FS_CardinalityType, RuntimeAssumption
  <1>4. Cardinality(BusyImpls(B)) <= MaxConcurrent
    BY <1>2, <1>3 DEF LoopInv
  <1>. QED
    BY <1>1, <1>4, EffectStep

-----------------------------------------------------------------------------
(* Claims. *)

\* A task with something engaged is not closed.
LEMMA EngagedOpen ==
    ASSUME LoopInv, NEW e \in Engaged(blk, fb)
    PROVE  ~Closed(blk, fb, TaskOf[e]) /\ Started(blk[e])
  <1>1. CASE blk[e].status = "in_progress"
    BY <1>1 DEF Engaged, Closed, Started
  <1>2. CASE e \in Reviews /\ OpenFor(fb, e) # {}
    <2>1. PICK i \in OpenFor(fb, e) : TRUE
      BY <1>2
    <2>2. i \in OpenForTask(fb, TaskOf[e]) /\ i \in FbIds /\ fb[i].review = e /\ fb[i].status # "none"
      BY <2>1 DEF OpenFor, OpenForTask, Active, LoopInv, LocalInv, IInv, Good, FbOK
    <2>. QED
      BY <2>2 DEF Closed, LoopInv, Begun, EnvelopesBehind
  <1>. QED
    BY <1>1, <1>2 DEF Engaged

\* A ready block belongs to a task that is not closed.
LEMMA ReadyOpen ==
    ASSUME LoopInv, NEW b \in Blocks, Ready(b) PROVE ~Closed(blk, fb, TaskOf[b])
  <1>1. CASE b \in Reviews
    <2>1. b \in Gates(TaskOf[b])
      BY <1>1 DEF Ready, CanClaimReview, Gates
    <2>2. blk[b].reason = "none"
      BY <1>1 DEF Ready, LoopInv, Begun, FreshReviews, Started
    <2>. QED
      BY <2>1, <2>2 DEF Closed
  <1>2. CASE b \notin Reviews
    BY <1>2 DEF Ready, Closed, Impls
  <1>. QED
    BY <1>1, <1>2

\* A ready block can only overlap with a block of its own task and kind that is
\* in progress: everything in front of it is closed, nothing behind is started.
LEMMA ReadyOverlap ==
    ASSUME LoopInv, NEW b \in Blocks, Ready(b), NEW e \in Engaged(blk, fb), RefsConflict(b, e)
    PROVE  /\ blk[e].status = "in_progress"
           /\ b \in Reviews <=> e \in Reviews
  <1>1. e \in Blocks /\ ~Closed(blk, fb, TaskOf[e]) /\ Started(blk[e])
    BY EngagedOpen DEF Engaged
  <1>2. TaskOf[b] \in Tasks /\ TaskOf[e] \in Tasks
    BY <1>1, GraphAssumption
  <1>3. TaskOf[e] \notin Ancestors[TaskOf[b]]
    BY <1>1, <1>2, AncestorsClosed DEF Ready
  <1>4. TaskOf[b] \notin Ancestors[TaskOf[e]]
    <2>1. TaskDepsSatisfied(blk, fb, TaskOf[e])
      BY <1>1 DEF LoopInv, Begun, StartedBehind
    <2>. QED
      BY <1>2, <2>1, AncestorsClosed, ReadyOpen
  <1>5. TaskOf[e] = TaskOf[b]
    BY <1>3, <1>4 DEF RefsConflict
  <1>6. CASE b \in Reviews
    <2>1. OpenForTask(fb, TaskOf[b]) = {} /\ \A c \in Impls(TaskOf[b]) : blk[c].status = "completed"
      BY <1>6 DEF Ready, CanClaimReview
    <2>2. OpenFor(fb, e) = {}
      BY <1>5, <2>1 DEF OpenFor, OpenForTask
    <2>3. blk[e].status = "in_progress"
      BY <2>2 DEF Engaged
    <2>. QED
      BY <1>1, <1>5, <1>6, <2>1, <2>3 DEF Impls
  <1>7. CASE b \notin Reviews
    <2>1. b \in Impls(TaskOf[e])
      BY <1>5, <1>7 DEF Impls
    <2>2. e \notin Reviews
      BY <1>1, <2>1 DEF Ready, LoopInv, Begun, ReviewsBehindWork
    <2>. QED
      BY <1>7, <2>2 DEF Engaged
  <1>. QED
    BY <1>6, <1>7

\* A claim of ready blocks that overlap neither each other nor live work.
LEMMA ClaimStep ==
    ASSUME LoopInv, NEW claims \in SUBSET Blocks, \A b \in claims : Ready(b),
           \A a, b \in claims : ~RefsConflict(a, b),
           \A b \in claims, e \in Engaged(blk, fb) : ~RefsConflict(b, e),
           Cardinality(BusyImpls(blk) \cup (claims \ Reviews)) <= MaxConcurrent,
           NEW refs, NEW feedback, NEW review,
           Commit(Claimed(claims), fb, refs, feedback, review)
    PROVE  Advanced
  <1>. DEFINE B == Claimed(claims)
  <1>. USE DEF LoopInv, LocalInv
  <1>1. ASSUME NEW b \in Blocks
        PROVE  /\ B[b] \in BlockStates
               /\ b \in claims => B[b].status = "in_progress"
               /\ b \notin claims => B[b] = blk[b]
    BY <1>1, BlockTyped DEF Claimed, BlockStates, Statuses
  <1>2. B \in [Blocks -> BlockStates]
    BY <1>1 DEF Claimed
  <1>3. Commit(B, fb, refs, feedback, review)
    OBVIOUS
  <1>. HIDE DEF B
  <1>4. Effect(claims, B, fb)
    <2>1. FbOK(fb)
      BY DEF IInv, Good
    <2>2. \A b \in claims : ~Closed(blk, fb, TaskOf[b]) /\ TaskDepsSatisfied(blk, fb, TaskOf[b])
      BY ReadyOpen DEF Ready
    <2>3. \A b \in claims : Started(B[b]) /\ B[b].status # "completed"
      BY <1>1 DEF Started
    <2>4. \A b \in claims : blk[b].status # "completed"
      BY DEF Ready
    <2>5. \A r \in claims \cap Reviews :
            r \in Required /\ \A b \in Impls(TaskOf[r]) : blk[b].status = "completed"
      BY DEF Ready, CanClaimReview
    <2>. QED
      BY <1>1, <1>2, <2>1, <2>2, <2>3, <2>4, <2>5 DEF Effect
  <1>5. Engaged(B, fb) \subseteq Engaged(blk, fb) \cup claims
    BY <1>1 DEF Engaged
  <1>6. Apart(B, fb)
    <2>. SUFFICES ASSUME NEW a \in Engaged(B, fb), NEW b \in Engaged(B, fb), RefsConflict(a, b)
                  PROVE  FALSE
      BY DEF Apart
    <2>1. RefsConflict(b, a)
      BY ConflictSymmetric
    <2>. QED
      BY <1>5, <2>1 DEF Apart
  <1>7. BusyImpls(B) = BusyImpls(blk) \cup (claims \ Reviews)
    BY <1>1 DEF BusyImpls
  <1>. QED
    BY <1>3, <1>4, <1>6, <1>7, EffectStep

\* The busy implementations are live references, from which capacity is counted.
LEMMA BusyLive == ASSUME LoopInv PROVE BusyImpls(blk) \subseteq LiveRefs
  BY DEF BusyImpls, LiveRefs, LoopInv, LocalInv, Links, Tracked, IsLocalWork, AllClean, Clean

\* Without local work and open feedback nothing is engaged.
LEMMA IdleEngaged ==
    ASSUME LoopInv, Active(fb) = {}
    PROVE  Engaged(blk, fb) = LocalWork
  BY DEF Engaged, LocalWork, OpenFor, LoopInv, LocalInv, AllClean, Clean

\* Sets of blocks are finite.
LEMMA FiniteBlocks ==
    ASSUME NEW S \in SUBSET Blocks
    PROVE  IsFiniteSet(S) /\ Cardinality(S) \in Nat
  BY FiniteAssumption, FS_Subset, FS_CardinalityType

\* Capacity is kept if the live references and the claims fit into it.
LEMMA CapacityKept ==
    ASSUME LoopInv, NEW sel \in SUBSET Blocks,
           Cardinality(LiveRefs) + Cardinality(sel) <= MaxConcurrent
    PROVE  Cardinality(BusyImpls(blk) \cup sel) <= MaxConcurrent
  <1>1. LiveRefs \in SUBSET Blocks
    BY DEF LiveRefs, LoopInv, LocalInv, IInv, PointersOK
  <1>2. BusyImpls(blk) \cup sel \in SUBSET (LiveRefs \cup sel)
    BY BusyLive
  <1>3. /\ IsFiniteSet(LiveRefs) /\ Cardinality(LiveRefs) \in Nat
        /\ IsFiniteSet(sel) /\ Cardinality(sel) \in Nat
        /\ IsFiniteSet(LiveRefs \cup sel) /\ Cardinality(LiveRefs \cup sel) \in Nat
    BY <1>1, FiniteBlocks
  <1>4. LiveRefs \cap sel \in SUBSET Blocks /\ BusyImpls(blk) \cup sel \in SUBSET Blocks
    BY DEF BusyImpls
  <1>5. Cardinality(LiveRefs \cap sel) \in Nat /\ Cardinality(BusyImpls(blk) \cup sel) \in Nat
    BY <1>4, FiniteBlocks
  <1>6. Cardinality(LiveRefs \cup sel)
            = Cardinality(LiveRefs) + Cardinality(sel) - Cardinality(LiveRefs \cap sel)
    BY <1>3, FS_Union
  <1>7. Cardinality(BusyImpls(blk) \cup sel) <= Cardinality(LiveRefs \cup sel)
    BY <1>2, <1>3, FS_Subset
  <1>. QED
    BY <1>3, <1>5, <1>6, <1>7, RuntimeAssumption

\* A nonempty set of blocks has a last one in manifest order.
LEMMA LastBlock ==
    ASSUME NEW S \in SUBSET Blocks, S # {}
    PROVE  \E m \in S : \A c \in S : Rank[c] <= Rank[m]
  <1>. DEFINE Above(x) == {c \in S : Rank[x] < Rank[c]}
              T == {Above(x) : x \in S}
  <1>1. \A x \in S : Rank[x] \in Nat
    BY GraphAssumption
  <1>2. IsFiniteSet(S)
    BY FiniteBlocks
  <1>3. IsWellFoundedOn(StrictSubsetOrdering(S), SUBSET S)
    BY <1>2, FS_FiniteSubsetsOfFinite, FS_StrictSubsetOrderingWellFounded
  <1>4. T \subseteq SUBSET S /\ T # {}
    OBVIOUS
  <1>5. PICK A \in T : \A C \in T : <<C, A>> \notin StrictSubsetOrdering(S)
    <2>. HIDE DEF T
    <2>. QED
      BY <1>3, <1>4, WFMin
  <1>6. PICK m \in S : A = Above(m)
    BY <1>5
  <1>7. ASSUME NEW c \in S, Rank[m] < Rank[c] PROVE FALSE
    <2>1. Above(c) \in T /\ Above(c) \subseteq S /\ Above(m) \subseteq S
      OBVIOUS
    <2>2. Above(c) \subseteq Above(m) /\ c \in Above(m) /\ c \notin Above(c)
      BY <1>1, <1>7
    <2>3. Above(c) # Above(m)
      BY <2>2
    <2>4. <<Above(c), Above(m)>> \in StrictSubsetOrdering(S)
      <3>. HIDE DEF Above
      <3>. QED
        BY <2>1, <2>2, <2>3 DEF StrictSubsetOrdering
    <2>. QED
      BY <1>5, <1>6, <2>1, <2>4
  <1>. QED
    BY <1>1, <1>7

\* The greedy batch: its blocks are ready, overlap neither each other nor live
\* work, and fit into what is left of the capacity.
LEMMA BatchFits ==
    ASSUME LoopInv, NEW scope \in SUBSET Blocks, NEW sel \in SUBSET (scope \ Reviews),
           IsBatch(sel, scope), sel # {}
    PROVE  /\ \A b \in sel : Ready(b) /\ \A c \in LiveRefs \cup sel : ~RefsConflict(b, c)
           /\ Cardinality(LiveRefs) + Cardinality(sel) <= MaxConcurrent
  <1>. DEFINE before(b) == {c \in sel : Rank[c] < Rank[b]}
  <1>1. \A b \in sel : CanDispatch(b, before(b))
    BY DEF IsBatch
  <1>2. \A b \in Blocks : Rank[b] \in Nat
    BY GraphAssumption
  <1>3. ASSUME NEW b \in sel, NEW c \in sel PROVE ~RefsConflict(b, c)
    <2>1. b = c \/ c \in before(b) \/ b \in before(c)
      BY <1>2, <1>3, GraphAssumption
    <2>2. ~RefsConflict(b, c) \/ ~RefsConflict(c, b)
      BY <1>1, <2>1 DEF CanDispatch, RefsConflict
    <2>. QED
      BY <2>2, ConflictSymmetric
  <1>4. PICK m \in sel : \A c \in sel : Rank[c] <= Rank[m]
    BY LastBlock
  <1>5. before(m) = sel \ {m}
    BY <1>2, <1>4, GraphAssumption
  <1>6. Cardinality(LiveRefs) + Cardinality(sel \ {m}) < MaxConcurrent
    BY <1>1, <1>5 DEF CanDispatch
  <1>7. sel \in SUBSET Blocks /\ LiveRefs \in SUBSET Blocks
    BY DEF LiveRefs, LoopInv, LocalInv, IInv, PointersOK
  <1>8. Cardinality(sel \ {m}) = Cardinality(sel) - 1
    BY <1>7, FiniteBlocks, FS_RemoveElement
  <1>9. Cardinality(sel) \in Nat /\ Cardinality(LiveRefs) \in Nat
    BY <1>7, FiniteBlocks
  <1>10. Cardinality(LiveRefs) + Cardinality(sel) <= MaxConcurrent
    BY <1>6, <1>8, <1>9, RuntimeAssumption
  <1>. QED
    BY <1>1, <1>3, <1>10 DEF CanDispatch

\* The first block in manifest order is one block.
LEMMA EarliestIsOne ==
    ASSUME NEW S \in SUBSET Blocks, NEW a \in Earliest(S), NEW b \in Earliest(S)
    PROVE  a = b
  BY GraphAssumption DEF Earliest

\* A sequential claim happens when nothing is engaged.
LEMMA ClaimSequentialStep ==
    ASSUME LoopInv, NEW scope \in SUBSET Blocks, ClaimSequential(scope)
    PROVE  Advanced
  <1>1. PICK b \in Blocks :
            Ready(b) /\ Commit(Claimed({b}), fb, {b}, currentFeedback, ReviewPointer({b}))
    BY DEF ClaimSequential, Earliest
  <1>2. Engaged(blk, fb) = {} /\ BusyImpls(blk) = {}
    BY IdleEngaged DEF ClaimSequential, BusyImpls, Engaged
  <1>3. Cardinality({b} \ Reviews) <= 1
    <2>1. {b} \ Reviews = {} \/ {b} \ Reviews = {b}
      OBVIOUS
    <2>. QED
      BY <2>1, FS_EmptySet, FS_Singleton
  <1>4. Cardinality({b} \ Reviews) <= MaxConcurrent
    <2>1. Cardinality({b} \ Reviews) \in Nat
      BY FiniteBlocks
    <2>. QED
      BY <1>3, <2>1, RuntimeAssumption
  <1>5. Cardinality(BusyImpls(blk) \cup ({b} \ Reviews)) <= MaxConcurrent
    <2>1. BusyImpls(blk) \cup ({b} \ Reviews) = {b} \ Reviews
      BY <1>2
    <2>. QED
      BY <1>4, <2>1
  <1>6. ~RefsConflict(b, b)
    BY DEF RefsConflict
  <1>. QED
    BY <1>1, <1>2, <1>5, <1>6, ClaimStep

\* A parallel claim adds a batch and a review to the live work, or one review.
LEMMA ClaimParallelStep ==
    ASSUME LoopInv, NEW scope \in SUBSET Blocks, ClaimParallel(scope)
    PROVE  Advanced
  <1>. DEFINE reviews == {r \in scope \cap Reviews : Ready(r)}
  <1>1. PICK sel \in SUBSET (scope \ Reviews) :
            /\ IsBatch(sel, scope)
            /\ LET claims == IF sel # {} THEN sel \cup BatchReview(sel, scope)
                                         ELSE Earliest(reviews)
               IN  Commit(Claimed(claims), fb, LiveRefs \cup claims, currentFeedback,
                          ReviewPointer(claims))
    BY DEF ClaimParallel
  <1>. DEFINE claims == IF sel # {} THEN sel \cup BatchReview(sel, scope) ELSE Earliest(reviews)
  <1>2. Commit(Claimed(claims), fb, LiveRefs \cup claims, currentFeedback, ReviewPointer(claims))
    BY <1>1
  <1>3. Engaged(blk, fb) = LocalWork /\ LocalWork \cap Reviews = {}
    BY IdleEngaged DEF ClaimParallel
  <1>4. Engaged(blk, fb) \subseteq LiveRefs
    BY <1>3, BusyLive DEF LocalWork, BusyImpls
  <1>5. CASE sel # {}
    <2>. DEFINE fill == BatchReview(sel, scope)
    <2>1. claims = sel \cup fill
      BY <1>5
    <2>2. ASSUME NEW r \in fill
          PROVE  /\ r \in Blocks /\ r \in Reviews /\ Ready(r)
                 /\ \A c \in LiveRefs \cup sel : ~RefsConflict(r, c)
      BY <2>2 DEF BatchReview, Earliest
    <2>3. ASSUME NEW r \in fill, NEW q \in fill PROVE r = q
      <3>. DEFINE free == {x \in scope \cap Reviews :
                              /\ Ready(x)
                              /\ \A c \in LiveRefs \cup sel : ~RefsConflict(x, c)}
      <3>1. r \in Earliest(free) /\ q \in Earliest(free)
        BY <2>3 DEF BatchReview
      <3>2. free \in SUBSET Blocks
        OBVIOUS
      <3>. HIDE DEF free
      <3>. QED
        BY <3>1, <3>2, EarliestIsOne
    <2>. HIDE DEF fill
    <2>4. /\ \A b \in sel : Ready(b) /\ \A c \in LiveRefs \cup sel : ~RefsConflict(b, c)
          /\ Cardinality(LiveRefs) + Cardinality(sel) <= MaxConcurrent
      BY <1>1, <1>5, BatchFits
    <2>5. claims \ Reviews = sel
      BY <2>1, <2>2
    <2>6. Cardinality(BusyImpls(blk) \cup (claims \ Reviews)) <= MaxConcurrent
      BY <2>4, <2>5, CapacityKept
    <2>7. ASSUME NEW a \in claims, NEW b \in claims PROVE ~RefsConflict(a, b)
      <3>1. ~RefsConflict(a, a)
        BY DEF RefsConflict
      <3>. HIDE DEF claims
      <3>. QED
        BY <2>1, <2>2, <2>3, <2>4, <2>7, <3>1, ConflictSymmetric
    <2>8. claims \in SUBSET Blocks /\ \A b \in claims : Ready(b)
      BY <2>1, <2>2, <2>4
    <2>9. \A b \in claims, e \in Engaged(blk, fb) : ~RefsConflict(b, e)
      BY <1>4, <2>1, <2>2, <2>4
    <2>. HIDE DEF claims
    <2>. QED
      BY <1>2, <2>6, <2>7, <2>8, <2>9, ClaimStep
  <1>6. CASE sel = {}
    <2>1. claims = Earliest(reviews) /\ reviews \in SUBSET Blocks
      BY <1>6
    <2>2. \A r \in claims : r \in Blocks /\ r \in Reviews /\ Ready(r)
      BY <2>1 DEF Earliest
    <2>3. \A a, b \in claims : ~RefsConflict(a, b)
      <3>. HIDE DEF reviews, claims
      <3>. QED
        BY <2>1, EarliestIsOne DEF RefsConflict
    <2>. HIDE DEF claims
    <2>4. \A b \in claims, e \in Engaged(blk, fb) : ~RefsConflict(b, e)
      BY <1>3, <2>2, ReadyOverlap
    <2>5. BusyImpls(blk) \cup (claims \ Reviews) = BusyImpls(blk)
      BY <2>2
    <2>6. Cardinality(BusyImpls(blk) \cup (claims \ Reviews)) <= MaxConcurrent
      BY <2>5 DEF LoopInv
    <2>. QED
      BY <1>2, <2>2, <2>3, <2>4, <2>6, ClaimStep
  <1>. QED
    BY <1>5, <1>6

\* A dispatched claim looks only at currentRefs, which is where the work is
\* that an implementation can overlap with.
LEMMA ClaimDispatchedStep ==
    ASSUME LoopInv, NEW b \in Blocks, ClaimDispatched(b)
    PROVE  Advanced
  <1>1. /\ b \notin Reviews /\ Ready(b)
        /\ Cardinality(LiveRefs) + Cardinality({}) < MaxConcurrent
        /\ \A c \in LiveRefs : ~RefsConflict(b, c)
    BY DEF ClaimDispatched, CanDispatch
  <1>2. ASSUME NEW e \in Engaged(blk, fb), RefsConflict(b, e) PROVE FALSE
    <2>1. e \in BusyImpls(blk)
      BY <1>1, <1>2, ReadyOverlap DEF BusyImpls, Engaged
    <2>. QED
      BY <1>1, <1>2, <2>1, BusyLive
  <1>3. Cardinality(LiveRefs) + Cardinality({b}) <= MaxConcurrent
    <2>1. LiveRefs \in SUBSET Blocks
      BY DEF LiveRefs, LoopInv, LocalInv, IInv, PointersOK
    <2>2. Cardinality(LiveRefs) \in Nat
      BY <2>1, FiniteBlocks
    <2>3. Cardinality({}) = 0 /\ Cardinality({b}) = 1
      BY FS_EmptySet, FS_Singleton
    <2>. QED
      BY <1>1, <2>2, <2>3, RuntimeAssumption
  <1>4. Cardinality(BusyImpls(blk) \cup ({b} \ Reviews)) <= MaxConcurrent
    <2>1. {b} \ Reviews = {b}
      BY <1>1
    <2>. QED
      BY <1>3, <2>1, CapacityKept
  <1>5. ~RefsConflict(b, b)
    BY DEF RefsConflict
  <1>6. Commit(Claimed({b}), fb, currentRefs \cup {b}, currentFeedback, currentReview)
    BY DEF ClaimDispatched
  <1>. QED
    BY <1>1, <1>2, <1>4, <1>5, <1>6, ClaimStep

-----------------------------------------------------------------------------
(* Steps that take nothing up. *)

\* The facts about an engaged block that its effect needs.
LEMMA EngagedFacts ==
    ASSUME LoopInv, NEW b \in Engaged(blk, fb)
    PROVE  /\ b \in Blocks /\ blk[b] \in BlockStates /\ Started(blk[b])
           /\ ~Closed(blk, fb, TaskOf[b])
           /\ TaskDepsSatisfied(blk, fb, TaskOf[b])
           /\ b \in Reviews => /\ b \in Required
                               /\ \A c \in Impls(TaskOf[b]) : blk[c].status = "completed"
  <1>1. b \in Blocks /\ blk[b] \in BlockStates
    BY BlockTyped DEF Engaged, LoopInv, LocalInv
  <1>. QED
    BY <1>1, EngagedOpen DEF LoopInv, Begun, StartedBehind, ReviewsBehindWork

\* One engaged block is written and stays started.  An implementation leaves
\* the work; a review may change its own envelopes.
LEMMA EngagedStep ==
    ASSUME LoopInv, NEW b \in Engaged(blk, fb), NEW s \in BlockStates, Started(s),
           b \notin Reviews => s.status # "in_progress" /\ blk[b].status # "completed",
           NEW F, FbOK(F),
           \A i \in FbIds : \/ F[i] = fb[i]
                            \/ /\ F[i].review = b /\ F[i].status # "none"
                               /\ fb[i].review \in {NoBlock, b},
           b \notin Reviews => F = fb,
           b \in Reviews /\ s.status = "completed" /\ s.reason = "passed"
                => s.passedRev = {RevisionOf(blk, F, b)},
           NEW refs, NEW feedback, NEW review, Commit(With(b, s), F, refs, feedback, review)
    PROVE  Advanced
  <1>. DEFINE B == With(b, s)
  <1>1. /\ b \in Blocks /\ Started(blk[b]) /\ ~Closed(blk, fb, TaskOf[b])
        /\ TaskDepsSatisfied(blk, fb, TaskOf[b])
        /\ b \in Reviews => /\ b \in Required
                            /\ \A c \in Impls(TaskOf[b]) : blk[c].status = "completed"
    BY EngagedFacts
  <1>2. /\ B \in [Blocks -> BlockStates] /\ B[b] = s
        /\ \A c \in Blocks : c # b => B[c] = blk[c]
    BY <1>1 DEF With, LoopInv, LocalInv, IInv, Good
  <1>3. Commit(B, F, refs, feedback, review)
    OBVIOUS
  <1>. HIDE DEF B
  <1>4. Effect({b}, B, F)
    <2>1. \A c \in Blocks \ {b} : B[c] = blk[c]
      BY <1>2
    <2>2. \A c \in {b} : /\ Started(B[c])
                         /\ ~Closed(blk, fb, TaskOf[c])
                         /\ TaskDepsSatisfied(blk, fb, TaskOf[c])
      BY <1>1, <1>2
    <2>3. \A i \in FbIds :
            \/ F[i] = fb[i]
            \/ /\ F[i].review \in {b} \cap Reviews
               /\ F[i].status # "none"
               /\ fb[i].review \in {NoBlock, F[i].review}
      OBVIOUS
    <2>4. \A r \in {b} \cap Reviews :
            /\ r \in Required
            /\ \A c \in Impls(TaskOf[r]) : blk[c].status = "completed"
            /\ B[r].status = "completed" /\ B[r].reason = "passed"
                => B[r].passedRev = {RevisionOf(blk, F, r)}
      BY <1>1, <1>2
    <2>. QED
      BY <1>1, <1>2, <2>1, <2>2, <2>3, <2>4 DEF Effect
  <1>5. ASSUME NEW e \in Engaged(B, F) PROVE e \in Engaged(blk, fb)
    <2>1. CASE e = b
      BY <2>1
    <2>2. CASE e # b
      <3>1. OpenFor(F, e) \subseteq OpenFor(fb, e)
        BY <2>2 DEF OpenFor, Active, FbOK, LoopInv, LocalInv, IInv, Good
      <3>. QED
        BY <1>2, <1>5, <2>2, <3>1 DEF Engaged
    <2>. QED
      BY <2>1, <2>2
  <1>6. BusyImpls(B) \subseteq BusyImpls(blk)
    BY <1>2 DEF BusyImpls
  <1>. QED
    BY <1>3, <1>4, <1>5, <1>6, QuietStep

\* The review of an active envelope is engaged, and its revision does not see
\* an envelope being taken up.
LEMMA ActiveEngaged ==
    ASSUME LoopInv, NEW i \in Active(fb)
    PROVE  i \in FbIds /\ fb[i].review \in Reviews /\ fb[i].review \in Engaged(blk, fb)
  <1>1. i \in FbIds /\ fb[i].review \in Reviews /\ fb[i].review \in Blocks
    BY ActiveType DEF LoopInv, LocalInv, IInv, Good
  <1>2. i \in OpenFor(fb, fb[i].review)
    BY DEF OpenFor
  <1>. QED
    BY <1>1, <1>2 DEF Engaged

\* Claiming feedback.
LEMMA ClaimFeedbackStep == ASSUME LoopInv, NEW scope, ClaimFeedback(scope) PROVE Advanced
  <1>1. PICK i \in Active(fb) :
            Commit(blk, [fb EXCEPT ![i].status = "in_progress"],
                   currentRefs \ {fb[i].review}, i, fb[i].review)
    BY DEF ClaimFeedback
  <1>. DEFINE F == [fb EXCEPT ![i].status = "in_progress"]
              r == fb[i].review
  <1>2. i \in FbIds /\ r \in Reviews /\ r \in Engaged(blk, fb)
    BY ActiveEngaged
  <1>3. r \in Blocks /\ blk[r] \in BlockStates /\ Started(blk[r])
    BY <1>2, EngagedFacts
  <1>4. fb \in [FbIds -> FbStates] /\ \A j \in FbIds : fb[j].status # "none" => fb[j].review \in Reviews
    BY DEF LoopInv, LocalInv, IInv, Good, FbOK
  <1>5. /\ F[i] = [status |-> "in_progress", review |-> r] /\ F[i] \in FbStates
        /\ \A j \in FbIds : j # i => F[j] = fb[j]
        /\ DOMAIN F = FbIds
    BY <1>2, <1>4 DEF FbStates
  <1>6. FbOK(F)
    <2>1. F \in [FbIds -> FbStates]
      BY <1>4, <1>5
    <2>. HIDE DEF F
    <2>. QED
      BY <1>2, <1>4, <1>5, <2>1 DEF FbOK
  <1>7. Commit(With(r, blk[r]), F, currentRefs \ {r}, i, r)
    <2>1. With(r, blk[r]) = blk
      BY <1>3 DEF With, LoopInv, LocalInv, IInv, Good
    <2>. QED
      BY <1>1, <2>1
  <1>8. RevisionOf(blk, F, r) = RevisionOf(blk, fb, r)
    <2>1. fb[i].status \in {"open", "in_progress"}
      BY <1>1 DEF Active
    <2>2. \A j \in FbIds : /\ F[j].review = fb[j].review
                           /\ F[j].status = "pruned" <=> fb[j].status = "pruned"
                           /\ F[j].status = "resolved" <=> fb[j].status = "resolved"
      BY <1>5, <2>1
    <2>. HIDE DEF F, r
    <2>. QED
      BY <2>2 DEF RevisionOf
  <1>9. blk[r].status = "completed" /\ blk[r].reason = "passed"
            => blk[r].passedRev = {RevisionOf(blk, F, r)}
    BY <1>2, <1>8 DEF LoopInv, Begun, PassedAsIs
  <1>10. \A j \in FbIds : \/ F[j] = fb[j]
                          \/ /\ F[j].review = r /\ F[j].status # "none"
                             /\ fb[j].review \in {NoBlock, r}
    BY <1>5
  <1>. HIDE DEF F, r
  <1>. QED
    BY <1>2, <1>3, <1>6, <1>7, <1>9, <1>10, EngagedStep

\* The loop's invariant types the feedback.
LEMMA FeedbackTyped == ASSUME LoopInv PROVE FbOK(fb)
  BY DEF LoopInv, LocalInv, IInv, Good

\* Resuming a review.
LEMMA ResumeReviewStep == ASSUME LoopInv, NEW scope, ResumeReview(scope) PROVE Advanced
  <1>1. PICK r \in Earliest(LocalWork \cap Reviews) :
            Commit(With(r, [blk[r] EXCEPT !.pendingFb = 0]), fb,
                   currentRefs \cup {r}, currentFeedback, r)
    BY DEF ResumeReview
  <1>2. r \in Engaged(blk, fb) /\ r \in Reviews /\ blk[r].status = "in_progress"
    BY DEF Earliest, LocalWork, Engaged
  <1>. DEFINE s == [blk[r] EXCEPT !.pendingFb = 0]
  <1>3. s \in BlockStates /\ s.status = "in_progress"
    BY <1>2, EngagedFacts, RuntimeAssumption DEF BlockStates
  <1>4. Commit(With(r, s), fb, currentRefs \cup {r}, currentFeedback, r)
    BY <1>1
  <1>. HIDE DEF s
  <1>. QED
    BY <1>2, <1>3, <1>4, EngagedStep, FeedbackTyped DEF Started

\* Every form of claim.
LEMMA ClaimNextStep == ASSUME LoopInv, ClaimNext PROVE Advanced
  <1>1. \A scope \in Scopes : scope \in SUBSET Blocks
    BY DEF Scopes, ScopeBases
  <1>. QED
    BY <1>1, ClaimFeedbackStep, ResumeReviewStep, ClaimSequentialStep, ClaimParallelStep,
       ClaimDispatchedStep DEF ClaimNext

-----------------------------------------------------------------------------
(* Submissions. *)

\* An implementation result.
LEMMA SubmitResultStep == ASSUME LoopInv, NEW b \in Blocks, SubmitResult(b) PROVE Advanced
  <1>1. b \in Engaged(blk, fb) /\ b \notin Reviews /\ blk[b].status = "in_progress"
    BY DEF SubmitResult, Engaged
  <1>. DEFINE w == Without(blk[b], "completed")
              s == [w EXCEPT !.run = @ + 1]
  <1>2. w \in BlockStates /\ w.run = blk[b].run /\ w.status = "completed"
    BY <1>1, EngagedFacts, WithoutGood DEF Statuses
  <1>3. blk[b].run + 1 \in 0..MaxRuns
    BY <1>1, EngagedFacts, RuntimeAssumption DEF SubmitResult, BlockStates
  <1>4. Commit(With(b, s), fb, currentRefs \ {b}, currentFeedback, currentReview)
    BY DEF SubmitResult
  <1>. HIDE DEF w
  <1>5. s \in BlockStates /\ s.status = "completed"
    BY <1>2, <1>3 DEF BlockStates
  <1>. HIDE DEF s
  <1>. QED
    BY <1>1, <1>4, <1>5, EngagedStep, FeedbackTyped DEF Started

\* A review result, whatever the verdict.  A pass records the revision the
\* review looked at; feedback goes to an unused envelope.
LEMMA SubmitReviewStep == ASSUME LoopInv, NEW r, SubmitReview(r) PROVE Advanced
  <1>1. r \in Reviews /\ r \in Blocks /\ r \in Engaged(blk, fb) /\ blk[r].run < MaxRuns
    BY GraphAssumption DEF SubmitReview, Engaged, ReviewOutcome
  <1>2. ASSUME NEW status \in {"completed", "blocked", "in_progress"}
        PROVE  Reviewed(r, status) \in BlockStates /\ Reviewed(r, status).status = status
    BY <1>1, <1>2, ReviewedGood DEF LoopInv, LocalInv
  <1>3. \A s : Sealed(s, NoOwner) = s
    BY DEF Sealed
  <1>4. FbOK(fb)
    BY FeedbackTyped
  <1>5. CASE ReviewPassed(r, NoOwner)
    <2>. DEFINE v == Reviewed(r, "completed")
                s == [v EXCEPT !.reason = "passed", !.passedRev = {WorkRevision(r)}]
    <2>1. Commit(With(r, s), fb, currentRefs \ {r}, currentFeedback, NotReview(r))
      BY <1>3, <1>5 DEF ReviewPassed
    <2>2. v \in BlockStates /\ v.status = "completed" /\ {WorkRevision(r)} \in SUBSET Revisions
      BY <1>1, <1>2, WorkRevisionType DEF LoopInv, LocalInv
    <2>. HIDE DEF v
    <2>3. s \in BlockStates /\ s.status = "completed" /\ s.passedRev = {WorkRevision(r)}
      BY <2>2 DEF BlockStates
    <2>. HIDE DEF s
    <2>. QED
      BY <1>1, <1>4, <2>1, <2>3, EngagedStep, WorkRevisionNow DEF Started
  <1>6. CASE ReviewExhausted(r, NoOwner)
    <2>. DEFINE v == Reviewed(r, "completed")
                s == [v EXCEPT !.reason = "max_cycles_reached"]
    <2>1. Commit(With(r, s), fb, currentRefs \ {r}, currentFeedback, NotReview(r))
      BY <1>3, <1>6 DEF ReviewExhausted
    <2>2. v \in BlockStates /\ v.status = "completed"
      BY <1>2
    <2>. HIDE DEF v
    <2>3. s \in BlockStates /\ s.status = "completed" /\ s.reason = "max_cycles_reached"
      BY <2>2 DEF BlockStates
    <2>. HIDE DEF s
    <2>. QED
      BY <1>1, <1>4, <2>1, <2>3, EngagedStep DEF Started
  <1>7. CASE ReviewHookFailed(r, NoOwner)
    <2>. DEFINE s == Reviewed(r, "blocked")
    <2>1. Commit(With(r, s), fb, currentRefs \ {r}, currentFeedback, currentReview)
      BY <1>3, <1>7 DEF ReviewHookFailed
    <2>2. s \in BlockStates /\ s.status = "blocked"
      BY <1>2
    <2>. HIDE DEF s
    <2>. QED
      BY <1>1, <1>4, <2>1, <2>2, EngagedStep DEF Started
  <1>8. CASE ReviewNeedsChanges(r, NoOwner)
    <2>. DEFINE v == Reviewed(r, "in_progress")
    <2>1. PICK i \in FbIds :
              /\ fb[i].status = "none"
              /\ Commit(With(r, [v EXCEPT !.activeFb = i]),
                        [fb EXCEPT ![i] = [status |-> "open", review |-> r]],
                        currentRefs \ {r}, i, r)
      BY <1>3, <1>8 DEF ReviewNeedsChanges
    <2>. DEFINE s == [v EXCEPT !.activeFb = i]
                F == [fb EXCEPT ![i] = [status |-> "open", review |-> r]]
    <2>2. v \in BlockStates /\ v.status = "in_progress" /\ i \in 0..MaxFeedback
      BY <1>2, RuntimeAssumption DEF FbIds
    <2>3. Commit(With(r, s), F, currentRefs \ {r}, i, r)
      BY <2>1
    <2>. HIDE DEF v
    <2>4. s \in BlockStates /\ s.status = "in_progress"
      BY <2>2 DEF BlockStates
    <2>5. /\ F[i] = [status |-> "open", review |-> r] /\ F[i] \in FbStates
          /\ \A j \in FbIds : j # i => F[j] = fb[j]
          /\ F \in [FbIds -> FbStates]
      BY <1>1, <1>4 DEF FbOK, FbStates
    <2>. HIDE DEF s, F
    <2>6. FbOK(F)
      BY <1>1, <1>4, <2>5 DEF FbOK
    <2>7. fb[i].review = NoBlock
      BY <2>1 DEF LoopInv, Begun, EnvelopesBehind
    <2>8. \A j \in FbIds : \/ F[j] = fb[j]
                           \/ /\ F[j].review = r /\ F[j].status # "none"
                              /\ fb[j].review \in {NoBlock, r}
      BY <2>5, <2>7
    <2>. QED
      BY <1>1, <2>3, <2>4, <2>6, <2>8, EngagedStep DEF Started
  <1>. QED
    BY <1>5, <1>6, <1>7, <1>8 DEF SubmitReview, ReviewOutcome

\* An answer to feedback takes the review up again that waits for it.
LEMMA SubmitFeedbackStep == ASSUME LoopInv, SubmitFeedback PROVE Advanced
  <1>. DEFINE i == currentFeedback
              r == fb[i].review
              s == [blk[r] EXCEPT !.status = "in_progress", !.activeFb = 0, !.pendingFb = i]
              F == [fb EXCEPT ![i].status = "resolved"]
  <1>1. i \in Active(fb)
    BY DEF SubmitFeedback, LoopInv, LocalInv, IInv, Settled
  <1>2. i \in FbIds /\ r \in Reviews /\ r \in Engaged(blk, fb)
    BY <1>1, ActiveEngaged
  <1>3. blk[r] \in BlockStates /\ i \in 0..MaxFeedback /\ 0 \in 0..MaxFeedback
    BY <1>2, EngagedFacts, RuntimeAssumption DEF FbIds
  <1>4. Commit(With(r, s), F, currentRefs \cup {r}, 0, r)
    BY DEF SubmitFeedback
  <1>5. FbOK(fb)
    BY FeedbackTyped
  <1>6. /\ F[i] = [status |-> "resolved", review |-> r] /\ F[i] \in FbStates
        /\ \A j \in FbIds : j # i => F[j] = fb[j]
        /\ F \in [FbIds -> FbStates]
    BY <1>2, <1>5 DEF FbOK, FbStates
  <1>7. s \in BlockStates /\ s.status = "in_progress"
    <2>. HIDE DEF i, r
    <2>. QED
      BY <1>3 DEF BlockStates, Statuses
  <1>. HIDE DEF s, F
  <1>8. FbOK(F)
    BY <1>2, <1>5, <1>6 DEF FbOK
  <1>9. \A j \in FbIds : \/ F[j] = fb[j]
                         \/ /\ F[j].review = r /\ F[j].status # "none"
                            /\ fb[j].review \in {NoBlock, r}
    BY <1>6
  <1>. HIDE DEF r, i
  <1>. QED
    BY <1>2, <1>4, <1>7, <1>8, <1>9, EngagedStep DEF Started

\* A step of the loop.
LEMMA LoopStep == ASSUME LoopInv, [LoopNext]_vars PROVE LoopInv' /\ (Advanced \/ UNCHANGED vars)
  <1>1. LocalInv'
    BY LocalStep DEF LoopInv, LocalNext
  <1>2. CASE LoopNext
    <2>1. Advanced
      BY <1>2, ClaimNextStep, SubmitResultStep, SubmitReviewStep, SubmitFeedbackStep
         DEF LoopNext, Submit
    <2>. QED
      BY <1>1, <2>1 DEF Advanced, LoopInv
  <1>3. CASE UNCHANGED vars
    BY <1>1, <1>3 DEF vars, LoopInv
  <1>. QED
    BY <1>2, <1>3

-----------------------------------------------------------------------------
(* The theorems. *)

\* Nothing is started on a new canvas.
LEMMA InitBegun == ASSUME Init PROVE LoopInv
  <1>. DEFINE B == [b \in Blocks |-> FreshBlock]
  <1>1. LocalInv
    BY InitGood, InitLinks DEF LocalInv
  <1>2. /\ FreshBlock.status = "planned" /\ FreshBlock.reason = "none"
        /\ FreshBlock \in BlockStates
    <2>1. 0 \in 0..MaxRuns /\ 0 \in 0..MaxFeedback /\ {} \in SUBSET Revisions
      BY RuntimeAssumption
    <2>. QED
      BY <2>1, NoTraceTypes DEF FreshBlock, BlockStates, Statuses
  <1>3. B \in [Blocks -> BlockStates] /\ blk = Reconciled(B, fb)
    BY <1>2 DEF Init
  <1>4. \A b \in Blocks : B[b] = FreshBlock
    OBVIOUS
  <1>. HIDE DEF B
  <1>5. ASSUME NEW b \in Blocks PROVE blk[b].status \in {"planned", "ready"} /\ blk[b].reason = "none"
    <2>1. DerivedStatus(B, fb, b) \in {"planned", "ready"}
      BY DEF DerivedStatus
    <2>. QED
      BY <1>2, <1>3, <1>4, <2>1, ReconciledStatus
  <1>6. \A i \in FbIds : fb[i].status = "none" /\ fb[i].review = NoBlock
    BY DEF Init, EmptyFb
  <1>7. Active(fb) = {}
    BY <1>6 DEF Active, Init, EmptyFb
  <1>8. Begun(blk, fb)
    BY <1>5, <1>6, GraphAssumption
       DEF Begun, FreshReviews, ReviewsBehindWork, StartedBehind, EnvelopesBehind, PassedAsIs, Started
  <1>9. Engaged(blk, fb) = {} /\ BusyImpls(blk) = {}
    BY <1>5, <1>7 DEF Engaged, BusyImpls, OpenFor
  <1>10. Apart(blk, fb) /\ Cardinality(BusyImpls(blk)) <= MaxConcurrent
    BY <1>9, FS_EmptySet, RuntimeAssumption DEF Apart
  <1>. QED
    BY <1>1, <1>8, <1>10 DEF LoopInv

\* The loop's inductive invariant.
THEOREM LoopInvariance == LoopSpec => []LoopInv
  <1>1. Init => LoopInv
    BY InitBegun
  <1>2. LoopInv /\ [LoopNext]_vars => LoopInv'
    BY LoopStep
  <1>. QED
    BY <1>1, <1>2, PTL DEF LoopSpec

\* On a canvas without remote operations local work is all work in progress.
LEMMA LoopWork ==
    ASSUME LoopInv
    PROVE  LocalWork \subseteq Engaged(blk, fb) /\ LocalWork \ Reviews = BusyImpls(blk)
  BY DEF LocalWork, Engaged, BusyImpls, LoopInv, LocalInv, AllClean, Clean

\* For every plan, manifest order, capacity and interleaving of claims and
\* submissions: two pieces of work in progress never belong to one task or to
\* tasks one of which waits for the other (refsConflict), although the batch,
\* the review that fills it, the review fallback and the dispatched claim each
\* check conflicts against a different set.
THEOREM LoopConflictFree == LoopSpec => []ConflictFree
  <1>1. LoopInv => ConflictFree
    BY LoopWork DEF LoopInv, Apart, ConflictFree
  <1>. QED
    BY <1>1, LoopInvariance, PTL

\* There are never more implementations at work than maxConcurrent, although
\* canDispatchImplementationBlock counts the live references.
THEOREM LoopCapacity == LoopSpec => []ImplementationCapacity
  <1>1. LoopInv => ImplementationCapacity
    BY LoopWork DEF LoopInv, ImplementationCapacity
  <1>. QED
    BY <1>1, LoopInvariance, PTL

\* Nothing is in progress or completed before the tasks in front of it are
\* implemented, and it stays so.
THEOREM LoopOrder == LoopSpec => []WorkBehindImplemented
  <1>1. LoopInv => WorkBehindImplemented
    BY DEF LoopInv, Begun, StartedBehind, Started, WorkBehindImplemented
  <1>. QED
    BY <1>1, LoopInvariance, PTL

\* The completed required reviews of an implemented task passed exactly the
\* runs and the feedback answers the task holds (passedWorkRevision).
THEOREM LoopReviewed == LoopSpec => []ImplementedReviewed
  <1>1. ASSUME LoopInv PROVE ImplementedReviewed
    <2>. SUFFICES ASSUME NEW t \in Tasks, NEW r \in Gates(t),
                         Implemented(blk, fb, t), blk[r].status = "completed"
                  PROVE  blk[r].passedRev = {WorkRevision(r)}
      BY DEF ImplementedReviewed
    <2>1. r \in Reviews /\ blk[r].reason = "passed"
      BY GraphAssumption DEF Gates, Implemented, Closed
    <2>. QED
      BY <1>1, <2>1, WorkRevisionNow DEF LoopInv, Begun, PassedAsIs
  <1>. QED
    BY <1>1, LoopInvariance, PTL

\* Claims and submissions never take "implemented" away from a task.
THEOREM LoopStable == LoopSpec => ImplementedStable
  <1>1. ASSUME LoopInv, [LoopNext]_vars
        PROVE  [\A t \in Tasks : Implemented(blk, fb, t) => Implemented(blk', fb', t)]_vars
    <2>1. CASE Advanced
      BY <2>1, ClosedKeepsImplemented DEF Advanced
    <2>2. CASE UNCHANGED vars
      BY <2>2
    <2>. QED
      BY <1>1, <2>1, <2>2, LoopStep
  <1>. QED
    BY <1>1, LoopInvariance, PTL DEF LoopSpec, ImplementedStable
=============================================================================
