----------------------------- MODULE TaskRuntime -----------------------------
(***************************************************************************)
(* The execution state of one canvas (state.json) and the local operations *)
(* on it: claiming work, submitting implementation results, review results *)
(* and feedback, and the operator's status overrides                       *)
(* (runtime/src/taskManager).                                              *)
(*                                                                         *)
(* Every operation runs inside the execution-state lock: it loads          *)
(* state.json, reconciles it with the manifest, changes it, reconciles it  *)
(* again and writes it back.  One action is one such critical section.     *)
(* The file is parsed with the runtime-state schema when it is loaded but  *)
(* not when it is written, so an action first needs a readable file.       *)
(***************************************************************************)
EXTENDS PlanGraph

CONSTANTS
    NoBlock,          \* the null block ref
    NoOp,             \* the absent remote operation id
    Ops,              \* remote operation ids
    ParallelEnabled,  \* execution.parallel.enabled
    MaxConcurrent,    \* execution.parallel.maxConcurrent
    MaxCycles,        \* review.maxFeedbackCycles of each review block
    MaxFeedback,      \* bound: feedback envelopes ever created
    MaxRuns,          \* bound: runs or review attempts per block
    MaxAttempts       \* bound: execution attempts of a remote operation

ASSUME RuntimeAssumption ==
    /\ NoBlock \notin Blocks
    /\ NoOp \notin Ops
    /\ ParallelEnabled \in BOOLEAN
    /\ MaxConcurrent \in Nat \ {0}
    /\ MaxCycles \in [Reviews -> Nat]
    /\ MaxFeedback \in Nat
    /\ MaxRuns \in Nat
    /\ MaxAttempts \in Nat

VARIABLES
    blk,              \* state.blocks
    fb,               \* state.feedback, by envelope number
    currentRefs,      \* state.currentRefs
    currentFeedback,  \* state.currentFeedbackId, 0 for null
    currentReview     \* state.currentReviewBlockRef

vars == <<blk, fb, currentRefs, currentFeedback, currentReview>>

FbIds == 1..MaxFeedback

Statuses == {"planned", "ready", "in_progress", "completed", "blocked", "diverged"}

NoOwner == [phase |-> "none", op |-> NoOp, att |-> 0]
NoReceipt == [outcome |-> "none", op |-> NoOp, att |-> 0, run |-> 0]

Attempts == 1..MaxAttempts

\* The owner gets its execution attempt when it is activated.
Owners == {NoOwner} \cup [phase : {"preparing"}, op : Ops, att : {0}]
                    \cup [phase : {"active"}, op : Ops, att : Attempts]

\* A failed receipt whose failure code is execution_cancelled is "cancelled".
Receipts == {NoReceipt} \cup [outcome : {"completed", "failed", "cancelled"}, op : Ops,
                              att : Attempts, run : 0..MaxRuns]

Revisions == [runs : [Blocks -> 0..MaxRuns], feedback : SUBSET FbIds, answered : SUBSET FbIds]

\* run is lastRunId, and latestReviewAttemptId for a review; 0 is null.
\* passedRev is {} or the singleton of the work revision that passed.
BlockStates ==
    [status : Statuses, run : 0..MaxRuns,
     owner : Owners, intr : {"none", "resumable", "manual"}, receipt : Receipts,
     activeFb : 0..MaxFeedback, pendingFb : 0..MaxFeedback,
     reason : {"none", "passed", "max_cycles_reached"},
     passedRev : SUBSET Revisions]

FbStates == [status : {"none", "open", "in_progress", "resolved", "pruned"},
             review : Reviews \cup {NoBlock}]

\* The fields of state.json have the types the schema gives them.
TypeOK ==
    /\ blk \in [Blocks -> BlockStates]
    /\ fb \in [FbIds -> FbStates]
    /\ \A i \in FbIds : fb[i].status # "none" => fb[i].review \in Reviews
    /\ currentRefs \subseteq Blocks
    /\ currentFeedback \in 0..MaxFeedback
    /\ currentReview \in Reviews \cup {NoBlock}

FreshBlock ==
    [status |-> "planned", run |-> 0, owner |-> NoOwner, intr |-> "none",
     receipt |-> NoReceipt, activeFb |-> 0, pendingFb |-> 0,
     reason |-> "none", passedRev |-> {}]

EmptyFb == [i \in FbIds |-> [status |-> "none", review |-> NoBlock]]

\* createEmptyState reconciled with the manifest.
Init ==
    /\ fb = EmptyFb
    /\ blk = Reconciled([b \in Blocks |-> FreshBlock], EmptyFb)
    /\ currentRefs = {}
    /\ currentFeedback = 0
    /\ currentReview = NoBlock

-----------------------------------------------------------------------------
(* Loading and writing state.json. *)

\* blockStateSchema.superRefine on the ownership, interruption and receipt.
BlockReadable(s) ==
    /\ s.owner.phase # "none" => s.status \in {"in_progress", "diverged"}
    /\ s.intr # "none" => s.status = "diverged" /\ s.owner.phase = "active"
    /\ s.receipt.outcome = "completed" => s.status = "completed" /\ s.run = s.receipt.run
    /\ s.receipt.outcome \in {"failed", "cancelled"} => s.status = "blocked"

Readable == \A b \in Blocks : BlockReadable(blk[b])

\* refreshDerivedState followed by writeState: a current feedback that is no
\* longer active work is dropped.
Commit(B, F, refs, feedback, review) ==
    /\ blk' = Reconciled(B, F)
    /\ fb' = F
    /\ currentRefs' = refs
    /\ currentFeedback' = IF feedback \in Active(F) THEN feedback ELSE 0
    /\ currentReview' = review

With(b, s) == [blk EXCEPT ![b] = s]

\* clearRemoteBlockOperationState
Cleared(s) == [s EXCEPT !.owner = NoOwner, !.intr = "none", !.receipt = NoReceipt]

\* Mutant of Without: the receipt of the last remote operation is forgotten.
WithoutKeepsReceipt(s, status) == [s EXCEPT !.owner = NoOwner, !.intr = "none",
                                            !.status = status]

\* withoutRemoteBlockOwnership
Without(s, status) == [Cleared(s) EXCEPT !.status = status]

Resolved(b) == IF BlockDepsCompleted(blk, b) THEN "ready" ELSE "planned"

-----------------------------------------------------------------------------
(* Readiness. *)

\* The runs and feedback answers a review looks at.
WorkRevision(r) ==
    [runs |-> [b \in Blocks |-> IF b \in Impls(TaskOf[r]) THEN blk[b].run ELSE 0],
     feedback |-> {i \in FbIds : fb[i].review = r /\ fb[i].status # "pruned"},
     answered |-> {i \in FbIds : fb[i].review = r /\ fb[i].status = "resolved"}]

CanClaimReview(r) ==
    /\ r \in Required
    /\ OpenForTask(fb, TaskOf[r]) = {}
    /\ \A b \in Impls(TaskOf[r]) : blk[b].status = "completed"
    /\ WorkRevision(r) \notin blk[r].passedRev

Ready(b) ==
    /\ blk[b].status = "ready"
    /\ TaskDepsSatisfied(blk, fb, TaskOf[b])
    /\ IF b \in Reviews THEN CanClaimReview(b) ELSE BlockDepsCompleted(blk, b)

\* In-progress work with no remote owner.
LocalWork == {b \in Blocks : blk[b].status = "in_progress" /\ blk[b].owner = NoOwner}

\* inProgressBlockRefs
LiveRefs == {b \in currentRefs : blk[b].status = "in_progress"}

\* Mutant of CanDispatch: conflicts are only looked for in the batch.
CanDispatchNextToLive(b, selected) ==
    /\ b \in Blocks \ Reviews
    /\ Ready(b)
    /\ Cardinality(LiveRefs) + Cardinality(selected) < MaxConcurrent
    /\ \A c \in selected : ~RefsConflict(b, c)

\* Mutant of CanDispatch: one slot too many.
CanDispatchOneMore(b, selected) ==
    /\ b \in Blocks \ Reviews
    /\ Ready(b)
    /\ Cardinality(LiveRefs) + Cardinality(selected) <= MaxConcurrent
    /\ \A c \in LiveRefs \cup selected : ~RefsConflict(b, c)

\* canDispatchImplementationBlock, selected being the batch so far.
CanDispatch(b, selected) ==
    /\ b \in Blocks \ Reviews
    /\ Ready(b)
    /\ Cardinality(LiveRefs) + Cardinality(selected) < MaxConcurrent
    /\ \A c \in LiveRefs \cup selected : ~RefsConflict(b, c)

\* The greedy selection in manifest order, as the one set that agrees with
\* canDispatchImplementationBlock at every candidate.
IsBatch(sel, scope) ==
    \A b \in scope \ Reviews :
        b \in sel <=> CanDispatch(b, {c \in sel : Rank[c] < Rank[b]})

\* The one review that may fill a slot the implementations left.
BatchReview(sel, scope) ==
    LET free == {r \in scope \cap Reviews :
                    /\ Ready(r)
                    /\ \A c \in LiveRefs \cup sel : ~RefsConflict(r, c)}
    IN  IF /\ sel # {}
           /\ Cardinality(LiveRefs) + Cardinality(sel) < MaxConcurrent
           /\ LiveRefs \cap Reviews = {}
        THEN Earliest(free) ELSE {}

-----------------------------------------------------------------------------
(* claimNext.  A scope is the set of blocks a call may claim: the project, *)
(* a task or a block, cut down to one block type when the call asks.       *)

ScopeBases == {Blocks} \cup {{b \in Blocks : TaskOf[b] = t} : t \in Tasks}
                  \cup {{b} : b \in Blocks}
Scopes == ScopeBases \cup {S \cap Reviews : S \in ScopeBases}
                  \cup {S \ Reviews : S \in ScopeBases}

Claimed(claims) ==
    [b \in Blocks |-> IF b \in claims THEN [blk[b] EXCEPT !.status = "in_progress"]
                                      ELSE blk[b]]

\* Mutant of ReviewPointer: an implementation is taken for the review.
ReviewPointerAny(claims) == IF claims = {} THEN currentReview ELSE CHOOSE b \in claims : TRUE

ReviewPointer(claims) ==
    IF claims \cap Reviews = {} THEN currentReview ELSE CHOOSE r \in claims \cap Reviews : TRUE

\* An active envelope is claimed before anything else; two block all claims.
ClaimFeedback(scope) ==
    /\ Readable
    /\ \E i \in Active(fb) :
        /\ Active(fb) = {i}
        /\ fb[i].review \in scope
        /\ Commit(blk, [fb EXCEPT ![i].status = "in_progress"],
                  currentRefs \ {fb[i].review}, i, fb[i].review)

\* applyCurrentReviewResumeClaim
ResumeReview(scope) ==
    /\ Readable
    /\ Active(fb) = {}
    /\ \E r \in Earliest(LocalWork \cap Reviews) :
        /\ r \in scope
        /\ Commit(With(r, [blk[r] EXCEPT !.pendingFb = 0]), fb,
                  currentRefs \cup {r}, currentFeedback, r)

\* markClaimed: a review gate before an implementation.
ClaimSequential(scope) ==
    /\ Readable
    /\ Active(fb) = {}
    /\ LocalWork = {}
    /\ LET ready == {b \in scope : Ready(b)}
           gates == ready \cap Reviews
       IN  \E b \in Earliest(IF gates # {} THEN gates ELSE ready) :
            Commit(Claimed({b}), fb, {b}, currentFeedback, ReviewPointer({b}))

\* Mutant of ClaimParallel: the batch replaces the work that is still live.
ClaimParallelDropsLive(scope) ==
    /\ Readable
    /\ ParallelEnabled
    /\ Active(fb) = {}
    /\ LocalWork \cap Reviews = {}
    /\ Cardinality(LiveRefs) < MaxConcurrent
    /\ \E sel \in SUBSET (scope \ Reviews) :
        /\ IsBatch(sel, scope)
        /\ sel # {}
        /\ Commit(Claimed(sel), fb, sel, currentFeedback, currentReview)

ClaimParallel(scope) ==
    /\ Readable
    /\ ParallelEnabled
    /\ Active(fb) = {}
    /\ LocalWork \cap Reviews = {}
    /\ Earliest(LocalWork) \subseteq scope
    /\ Cardinality(LiveRefs) < MaxConcurrent
    /\ \E sel \in SUBSET (scope \ Reviews) :
        /\ IsBatch(sel, scope)
        /\ LET reviews == {r \in scope \cap Reviews : Ready(r)}
               claims == IF sel # {} THEN sel \cup BatchReview(sel, scope)
                                     ELSE Earliest(reviews)
           IN  /\ claims # {} \/ LiveRefs = {}
               /\ Commit(Claimed(claims), fb, LiveRefs \cup claims, currentFeedback,
                         ReviewPointer(claims))

ClaimDispatched(b) ==
    /\ Readable
    /\ CanDispatch(b, {})
    /\ Commit(Claimed({b}), fb, currentRefs \cup {b}, currentFeedback, currentReview)

ClaimNext ==
    \/ \E scope \in Scopes : \/ ClaimFeedback(scope)
                             \/ ResumeReview(scope)
                             \/ ClaimSequential(scope)
                             \/ ClaimParallel(scope)
    \/ \E b \in Blocks : ClaimDispatched(b)

-----------------------------------------------------------------------------
(* Submissions. *)

\* submitBlockResultArtifact with local authority, for a new run.
SubmitResult(b) ==
    /\ Readable
    /\ b \in Blocks \ Reviews
    /\ blk[b].status = "in_progress"
    /\ blk[b].owner = NoOwner
    /\ blk[b].receipt = NoReceipt
    /\ blk[b].run < MaxRuns
    /\ Commit(With(b, [Without(blk[b], "completed") EXCEPT !.run = @ + 1]), fb,
              currentRefs \ {b}, currentFeedback, currentReview)

\* sealRemoteBlockOperationCompleted; a local submission has no owner to seal.
Sealed(s, owner) ==
    IF owner = NoOwner THEN s
    ELSE [Cleared(s) EXCEPT !.receipt =
            IF s.status = "completed"
            THEN [outcome |-> "completed", op |-> owner.op, att |-> owner.att, run |-> s.run]
            ELSE NoReceipt]

\* The review's state once its loop has nothing outstanding.
Reviewed(r, status) ==
    [blk[r] EXCEPT !.status = status, !.run = @ + 1, !.activeFb = 0, !.pendingFb = 0]

NotReview(r) == IF currentReview = r THEN NoBlock ELSE currentReview

ReviewPassed(r, owner) ==
    Commit(With(r, Sealed([Reviewed(r, "completed") EXCEPT
                              !.reason = "passed", !.passedRev = {WorkRevision(r)}], owner)),
           fb, currentRefs \ {r}, currentFeedback, NotReview(r))

FeedbackCount(r) ==
    Cardinality({i \in FbIds : fb[i].review = r /\ fb[i].status # "pruned"})

MaxFeedbackCyclesReached(r) == MaxCycles[r] = 0 \/ FeedbackCount(r) > MaxCycles[r]

ReviewExhausted(r, owner) ==
    /\ MaxFeedbackCyclesReached(r)
    /\ Commit(With(r, Sealed([Reviewed(r, "completed") EXCEPT
                                 !.reason = "max_cycles_reached"], owner)),
              fb, currentRefs \ {r}, currentFeedback, NotReview(r))

\* executeReviewHook threw.
ReviewHookFailed(r, owner) ==
    /\ ~MaxFeedbackCyclesReached(r)
    /\ Commit(With(r, Sealed(Reviewed(r, "blocked"), owner)), fb,
              currentRefs \ {r}, currentFeedback, currentReview)

ReviewNeedsChanges(r, owner) ==
    /\ ~MaxFeedbackCyclesReached(r)
    /\ \E i \in FbIds :
        /\ fb[i].status = "none"
        /\ \A j \in FbIds : fb[j].status = "none" => i <= j
        /\ Commit(With(r, Sealed([Reviewed(r, "in_progress") EXCEPT !.activeFb = i], owner)),
                  [fb EXCEPT ![i] = [status |-> "open", review |-> r]],
                  currentRefs \ {r}, i, r)

ReviewOutcome(r, owner) ==
    /\ blk[r].run < MaxRuns
    /\ \/ ReviewPassed(r, owner)
       \/ ReviewExhausted(r, owner)
       \/ ReviewHookFailed(r, owner)
       \/ ReviewNeedsChanges(r, owner)

\* Mutant of SubmitReview: a result is accepted for a review that is over.
SubmitReviewAnytime(r) ==
    /\ Readable
    /\ r \in Reviews
    /\ blk[r].status \in {"in_progress", "completed"}
    /\ blk[r].owner = NoOwner
    /\ ReviewOutcome(r, NoOwner)

\* submitReviewResultLocked without a remote identity, for a result that was
\* not submitted before.  Nothing asks whether an earlier result already opened
\* feedback for this review.
SubmitReview(r) ==
    /\ Readable
    /\ r \in Reviews
    /\ blk[r].status = "in_progress"
    /\ blk[r].owner = NoOwner
    /\ ReviewOutcome(r, NoOwner)

\* Mutants of SubmitFeedback: the review keeps its active envelope; it is not
\* taken up again; the envelope is not resolved.
SubmitFeedbackKeepsActive ==
    /\ Readable
    /\ currentFeedback # 0
    /\ LET r == fb[currentFeedback].review
       IN  Commit(With(r, [blk[r] EXCEPT !.status = "in_progress",
                                         !.pendingFb = currentFeedback]),
                  [fb EXCEPT ![currentFeedback].status = "resolved"],
                  currentRefs \cup {r}, 0, r)

SubmitFeedbackNoReopen ==
    /\ Readable
    /\ currentFeedback # 0
    /\ LET r == fb[currentFeedback].review
       IN  Commit(With(r, [blk[r] EXCEPT !.activeFb = 0, !.pendingFb = currentFeedback]),
                  [fb EXCEPT ![currentFeedback].status = "resolved"],
                  currentRefs \cup {r}, 0, r)

SubmitFeedbackUnresolved ==
    /\ Readable
    /\ currentFeedback # 0
    /\ LET r == fb[currentFeedback].review
       IN  Commit(With(r, [blk[r] EXCEPT !.status = "in_progress", !.activeFb = 0]),
                  fb, currentRefs \cup {r}, 0, r)

SubmitFeedback ==
    /\ Readable
    /\ currentFeedback # 0
    /\ LET r == fb[currentFeedback].review
       IN  Commit(With(r, [blk[r] EXCEPT !.status = "in_progress", !.activeFb = 0,
                                         !.pendingFb = currentFeedback]),
                  [fb EXCEPT ![currentFeedback].status = "resolved"],
                  currentRefs \cup {r}, 0, r)

Submit == \/ \E b \in Blocks : SubmitResult(b) \/ SubmitReview(b)
          \/ SubmitFeedback

-----------------------------------------------------------------------------
(* Operator overrides. *)

ResetReview(s) ==
    [s EXCEPT !.activeFb = 0, !.pendingFb = 0, !.reason = "none", !.passedRev = {}]

MarkBlocked(b) ==
    /\ Readable
    /\ b \in Reviews => OpenFor(fb, b) = {}
    /\ Commit(With(b, Without(blk[b], "blocked")), fb, currentRefs \ {b},
              currentFeedback, currentReview)

\* A remote owner survives, so that its late writes are still recognised.
MarkDiverged(b) ==
    /\ Readable
    /\ LET kept == [blk[b] EXCEPT !.status = "diverged", !.intr = "none",
                                  !.receipt = NoReceipt]
       IN  Commit(With(b, IF b \in Reviews THEN ResetReview(kept) ELSE kept), fb,
                  currentRefs \ {b}, currentFeedback, currentReview)

Unblock(b) ==
    /\ Readable
    /\ blk[b].status = "blocked"
    /\ Commit(With(b, Without(blk[b], Resolved(b))), fb, currentRefs,
              currentFeedback, currentReview)

\* Auto Run returns a claimed block it did not start.
ReleaseInProgress(b) ==
    /\ Readable
    /\ blk[b].status = "in_progress"
    /\ blk[b].owner = NoOwner
    /\ Commit(With(b, Without(blk[b], Resolved(b))), fb, currentRefs \ {b},
              currentFeedback, currentReview)

ResolveDivergence(b) ==
    /\ Readable
    /\ blk[b].status = "diverged"
    /\ LET open == Without(blk[b], Resolved(b))
       IN  Commit(With(b, IF b \in Reviews THEN ResetReview(open) ELSE open), fb,
                  currentRefs, currentFeedback, currentReview)

Override == \E b \in Blocks : \/ MarkBlocked(b) \/ MarkDiverged(b) \/ Unblock(b)
                              \/ ReleaseInProgress(b) \/ ResolveDivergence(b)

\* resetMaxCycleReviews: the exhausted reviews of a scope start over.
ResetMaxCycleReviews(scope) ==
    LET reset == {r \in scope \cap Reviews : blk[r].reason = "max_cycles_reached"}
        Pruned == [i \in FbIds |-> IF fb[i].review \in reset
                                   THEN [fb[i] EXCEPT !.status = "pruned"] ELSE fb[i]]
    IN  /\ Readable
        /\ reset # {}
        /\ Commit([b \in Blocks |-> IF b \in reset
                                    THEN [ResetReview(blk[b]) EXCEPT !.status = Resolved(b)]
                                    ELSE blk[b]],
                  Pruned, currentRefs \ reset, currentFeedback,
                  IF currentReview \in reset THEN NoBlock ELSE currentReview)

-----------------------------------------------------------------------------
\* The loop agents drive: claim, work, submit.
LoopNext == ClaimNext \/ Submit

LocalNext == LoopNext \/ Override \/ \E scope \in ScopeBases : ResetMaxCycleReviews(scope)

LoopSpec == Init /\ [][LoopNext]_vars

LocalSpec == Init /\ [][LocalNext]_vars

\* An agent keeps claiming, and whatever is claimed is finished and submitted.
FairLoopSpec ==
    /\ LoopSpec
    /\ WF_vars(ClaimFeedback(Blocks))
    /\ WF_vars(ResumeReview(Blocks))
    /\ WF_vars(ClaimSequential(Blocks))
    /\ WF_vars(SubmitFeedback)
    /\ \A b \in Blocks : WF_vars(SubmitResult(b)) /\ WF_vars(SubmitReview(b))

-----------------------------------------------------------------------------
(* Properties. *)

\* Two pieces of local work in progress never belong to the same task or to
\* tasks one of which waits for the other, although the batch, the review that
\* fills it, the review fallback and claimDispatchedBlock each check conflicts
\* against a different set (claimReadiness.ts, selectors.ts refsConflict).
ConflictFree == \A a, b \in LocalWork : ~RefsConflict(a, b)

\* No sequence of claims and submissions puts more implementations to work at
\* once than maxConcurrent (canDispatchImplementationBlock counts currentRefs,
\* not the blocks in progress).
ImplementationCapacity == Cardinality(LocalWork \ Reviews) <= MaxConcurrent

\* Local work in progress is reachable through currentRefs, from which the
\* capacity and conflict checks count it; a review that waits for its feedback
\* is not work in that sense (withoutCurrentRef in reviewSubmission.ts).
LocalWorkTracked ==
    \A b \in LocalWork : b \in currentRefs \/ (b \in Reviews /\ OpenFor(fb, b) # {})

\* A review's activeFeedbackId names an envelope of that review which is still
\* active, and its pendingFeedbackId one that has been answered, however many
\* results were submitted for it (reviewSubmission.ts, feedbackSubmission.ts).
FeedbackPointers ==
    \A r \in Reviews :
        /\ blk[r].activeFb # 0 => blk[r].activeFb \in OpenFor(fb, r)
        /\ blk[r].pendingFb # 0 => fb[blk[r].pendingFb] = [status |-> "resolved", review |-> r]

\* A completed required review of an implemented task passed exactly the work
\* the task now holds: the runs of its implementations and the answers to its
\* feedback (passedWorkRevision against computeWorkRevision).
ImplementedReviewed ==
    \A t \in Tasks : \A r \in Gates(t) :
        Implemented(blk, fb, t) /\ blk[r].status = "completed"
            => blk[r].passedRev = {WorkRevision(r)}

\* Work is started or finished only behind implemented tasks, and stays so: no
\* submission for a task takes its "implemented" away once others build on it.
WorkBehindImplemented ==
    \A b \in Blocks : blk[b].status \in {"in_progress", "completed"}
                        => TaskDepsSatisfied(blk, fb, TaskOf[b])

\* What is written is settled: loading it again, which reconciles it with the
\* manifest, changes nothing, so a decision taken on a loaded state is a
\* decision on the file (loadRuntime and refreshDerivedState both call
\* ensureStateForManifest).
Settled ==
    /\ blk = Reconciled(blk, fb)
    /\ currentFeedback # 0 => currentFeedback \in Active(fb)

\* Without operator overrides an implemented task stays implemented
\* (aggregateTaskStatus is recomputed from scratch at every load).
ImplementedStable ==
    [][\A t \in Tasks : Implemented(blk, fb, t) => Implemented(blk', fb', t)]_vars

\* When several envelopes block all claims, submit-feedback can resolve one:
\* "Multiple open feedback envelopes exist; resolve or dismiss one before
\* continuing" (claimReadiness.ts); no operation dismisses an envelope.
FeedbackResolvable == Cardinality(Active(fb)) > 1 => currentFeedback # 0

\* A task's work is over: it is implemented, or a required review of it or of a
\* task it waits for ran out of feedback cycles or was blocked by its hook.
Finished(t) ==
    \/ Implemented(blk, fb, t)
    \/ \E u \in {t} \cup Ancestors[t] : \E r \in Gates(u) :
        blk[r].reason = "max_cycles_reached" \/ blk[r].status = "blocked"

\* If agents keep claiming and finish what they claim, the review-feedback loop
\* ends whatever the reviewers say and however often they submit: every task's
\* work is over for good (maxFeedbackCyclesReached), or else the project has come
\* to rest where open envelopes block all claims and none of them is current,
\* which is where FeedbackResolvable fails.
EventuallyFinished == \/ <>[](\A t \in Tasks : Finished(t))
                      \/ <>[]~FeedbackResolvable
=============================================================================
