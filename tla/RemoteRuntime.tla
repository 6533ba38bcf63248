---------------------------- MODULE RemoteRuntime ----------------------------
(***************************************************************************)
(* The remote side of a canvas: the port through which the coordination    *)
(* server gives a block to an agent on another host                        *)
(* (runtime/src/taskManager/remoteBlockRuntime.ts and                      *)
(* remoteOwnershipTransitions.ts), running beside the local operations of  *)
(* TaskRuntime on the same state.json.                                     *)
(*                                                                         *)
(* A remote operation inspects its block, claims it (ownership phase       *)
(* "preparing"), activates one execution attempt, and ends in a completion *)
(* or a failure, which leaves a receipt.  It carries the source evidence   *)
(* it was inspected with; a call that finds other evidence marks the block *)
(* diverged and rejects.  A call with the wrong operation or attempt       *)
(* changes nothing, so a stale or repeated call is a stuttering step.      *)
(***************************************************************************)
EXTENDS TaskRuntime

CONSTANTS
    Target,       \* the block of each remote operation
    SnapshotOps   \* operations whose sourceRevision is a "snapshot:" reference

ASSUME RemoteAssumption ==
    /\ Target \in [Ops -> Blocks]
    /\ SnapshotOps \subseteq Ops

VARIABLES
    pkg,      \* which of two versions of the plan package is on disk
    opSrc     \* the evidence an operation recorded: {} or a singleton

rvars == <<vars, pkg, opSrc>>

RemoteInit ==
    /\ Init
    /\ pkg = 0
    /\ opSrc = [op \in Ops |-> {}]

-----------------------------------------------------------------------------
(* Source evidence. *)

\* remoteDispatchAuthoritativeDependencies
DependencyRefs(b) ==
    BlockDeps[b] \cup {d \in (Blocks \ Reviews) \cup Required : TaskOf[d] \in TaskDeps[TaskOf[b]]}

\* graphFingerprint is the package; sourceRevision adds the generations of
\* the dependencies and the status of the tasks in front.
Evidence(b) ==
    [package |-> pkg,
     generations |-> [d \in DependencyRefs(b) |->
                        [status |-> blk[d].status, run |-> blk[d].run,
                         reason |-> blk[d].reason, passedRev |-> blk[d].passedRev]],
     tasks |-> [u \in TaskDeps[TaskOf[b]] |->
                        [status |-> TaskStatus(blk, fb, u),
                         openFeedback |-> Cardinality(OpenForTask(fb, u))]]]

\* sameRemoteBlockAuthority against the evidence the operation recorded.
SameAuthority(op) ==
    \A src \in opSrc[op] :
        IF op \in SnapshotOps THEN src.package = pkg ELSE src = Evidence(Target[op])

\* assertRemoteBlockSnapshotDependencies
DependenciesVerified(b) ==
    \A d \in DependencyRefs(b) :
        /\ blk[d].status = "completed"
        /\ d \in Reviews \ BlockDeps[b] => blk[d].reason = "passed"

\* Mutant of ReviewResume: feedback that is still open is not looked at.
ReviewResumeOverFeedback(r) == blk[r].status = "in_progress" /\ blk[r].owner = NoOwner

\* The two forms of reviewClaimForm.
ReviewInitial(r) == blk[r].status = "ready" /\ CanClaimReview(r)

ReviewResume(r) ==
    /\ blk[r].status = "in_progress"
    /\ blk[r].owner = NoOwner
    /\ OpenFor(fb, r) = {}

RemoteDispatchable(b) ==
    IF b \in Reviews THEN ReviewInitial(b) \/ ReviewResume(b) ELSE CanDispatch(b, {})

-----------------------------------------------------------------------------
(* The remote port. *)

SourceUnchanged == UNCHANGED <<pkg, opSrc>>

OwnedBy(op) == blk[Target[op]].owner.op = op

\* Mutant of Owns: any attempt of the operation will do.
OwnsAnyAttempt(op, att) == blk[Target[op]].owner.phase = "active" /\ blk[Target[op]].owner.op = op

\* assertActiveRemoteBlockOwnership
Owns(op, att) == blk[Target[op]].owner = [phase |-> "active", op |-> op, att |-> att]

ReviewRef(b) == IF b \in Reviews THEN b ELSE currentReview

\* markRemoteBlockOwnershipSourceDrift and releaseCurrentBlockPointers.
Drifted(b) == [blk[b] EXCEPT !.status = "diverged", !.intr = "none"]
Drift(b) == Commit(With(b, Drifted(b)), fb, currentRefs \ {b}, currentFeedback, NotReview(b))

Inspect(op) ==
    /\ Readable
    /\ opSrc[op] = {}
    /\ RemoteDispatchable(Target[op])
    /\ DependenciesVerified(Target[op])
    /\ opSrc' = [opSrc EXCEPT ![op] = {Evidence(Target[op])}]
    /\ UNCHANGED <<vars, pkg>>

\* prepareRemoteBlockOwnership, and the resume side effects of a review.
Prepared(b, op) ==
    [blk[b] EXCEPT !.status = "in_progress",
                   !.owner = [phase |-> "preparing", op |-> op, att |-> 0],
                   !.pendingFb = IF b \in Reviews /\ ReviewResume(b) THEN 0 ELSE @]

RemoteClaim(op) ==
    LET b == Target[op]
    IN  /\ Readable
        /\ opSrc[op] # {}
        /\ blk[b].owner = NoOwner
        /\ RemoteDispatchable(b)
        /\ SameAuthority(op)
        /\ Commit(With(b, Prepared(b, op)), fb, currentRefs \cup {b}, currentFeedback,
                  ReviewRef(b))
        /\ SourceUnchanged

\* The same claim again: it binds the pointers once more.
RemoteClaimReplay(op) ==
    LET b == Target[op]
    IN  /\ Readable
        /\ OwnedBy(op)
        /\ IF SameAuthority(op)
           THEN Commit(blk, fb, currentRefs \cup {b}, currentFeedback, ReviewRef(b))
           ELSE Drift(b)
        /\ SourceUnchanged

\* A claim that restores a stopped execution: restoreStoppedRemoteBlock makes
\* the block ready, and the new operation takes over the evidence of the old.
Restorable(op, prior) ==
    /\ Target[prior] = Target[op]
    /\ blk[Target[op]].receipt.outcome = "cancelled"
    /\ blk[Target[op]].receipt.op = prior

RemoteRestore(op, prior) ==
    LET b == Target[op]
        ready == With(b, [Cleared(blk[b]) EXCEPT !.status = "ready"])
    IN  /\ Readable
        /\ opSrc[op] = {}
        /\ Restorable(op, prior)
        /\ SameAuthority(prior)
        /\ IF b \in Reviews THEN CanClaimReview(b)
           ELSE /\ TaskDepsSatisfied(blk, fb, TaskOf[b])
                /\ BlockDepsCompleted(blk, b)
                /\ Cardinality(LiveRefs) < MaxConcurrent
                /\ \A c \in LiveRefs : ~RefsConflict(b, c)
        /\ Commit([ready EXCEPT ![b] = [@ EXCEPT !.status = "in_progress",
                        !.owner = [phase |-> "preparing", op |-> op, att |-> 0]]],
                  fb, currentRefs \cup {b}, currentFeedback, ReviewRef(b))
        /\ opSrc' = [opSrc EXCEPT ![op] = opSrc[prior]]
        /\ UNCHANGED pkg

RemoteActivate(op) ==
    LET b == Target[op]
    IN  /\ Readable
        /\ MaxAttempts > 0
        /\ OwnedBy(op)
        /\ blk[b].status = "in_progress"
        /\ blk[b].owner.att \in {0, 1}
        /\ IF SameAuthority(op)
           THEN Commit(With(b, [blk[b] EXCEPT !.owner = [phase |-> "active", op |-> op, att |-> 1]]),
                       fb, currentRefs, currentFeedback, currentReview)
           ELSE Drift(b)
        /\ SourceUnchanged

RemoteReconcile(op) ==
    /\ Readable
    /\ OwnedBy(op)
    /\ ~SameAuthority(op)
    /\ Drift(Target[op])
    /\ SourceUnchanged

\* interruptRemoteBlockOwnership; an interruption that cannot be resumed
\* leaves a run.  On a diverged block only the same interruption is accepted.
RemoteInterrupt(op, att, kind) ==
    LET b == Target[op]
        run == IF kind = "manual" THEN blk[b].run + 1 ELSE blk[b].run
    IN  /\ Readable
        /\ Owns(op, att)
        /\ run <= MaxRuns
        /\ IF SameAuthority(op)
           THEN /\ blk[b].status = "in_progress" \/ blk[b].intr = kind
                /\ Commit(With(b, [blk[b] EXCEPT !.status = "diverged", !.intr = kind, !.run = run]),
                          fb, currentRefs \ {b}, currentFeedback, NotReview(b))
           ELSE Drift(b)
        /\ SourceUnchanged

RemoteResume(op, att) ==
    LET b == Target[op]
    IN  /\ Readable
        /\ Owns(op, att)
        /\ blk[b].status = "diverged"
        /\ IF SameAuthority(op)
           THEN /\ blk[b].intr = "resumable"
                /\ Commit(With(b, [blk[b] EXCEPT !.status = "in_progress", !.intr = "none"]),
                          fb, currentRefs, currentFeedback, currentReview)
           ELSE Drift(b)
        /\ SourceUnchanged

RemoteRetry(op, att) ==
    LET b == Target[op]
    IN  /\ Readable
        /\ Owns(op, att)
        /\ att < MaxAttempts
        /\ IF SameAuthority(op)
           THEN /\ blk[b].intr = "manual"
                /\ Commit(With(b, [blk[b] EXCEPT !.status = "in_progress", !.intr = "none",
                                                 !.owner.att = att + 1]),
                          fb, currentRefs, currentFeedback, currentReview)
           ELSE Drift(b)
        /\ SourceUnchanged

\* A host may write its result while working, or late after a resumable
\* interruption.
RemoteCanSubmit(b) ==
    blk[b].status = "in_progress" \/ (blk[b].status = "diverged" /\ blk[b].intr = "resumable")

Receipt(outcome, op, att, run) == [outcome |-> outcome, op |-> op, att |-> att, run |-> run]

\* submitBlockResultArtifact with remote authority; its drift path keeps the
\* block in currentRefs.
RemoteComplete(op, att) ==
    LET b == Target[op]
    IN  /\ Readable
        /\ b \in Blocks \ Reviews
        /\ Owns(op, att)
        /\ RemoteCanSubmit(b)
        /\ blk[b].run < MaxRuns
        /\ IF SameAuthority(op)
           THEN Commit(With(b, [Without(blk[b], "completed") EXCEPT
                                    !.run = @ + 1,
                                    !.receipt = Receipt("completed", op, att, blk[b].run + 1)]),
                       fb, currentRefs \ {b}, currentFeedback, currentReview)
           ELSE Commit(With(b, Drifted(b)), fb, currentRefs, currentFeedback, currentReview)
        /\ SourceUnchanged

\* submitRemoteReviewResult: the evidence is not compared again.
RemoteCompleteReview(op, att) ==
    LET r == Target[op]
    IN  /\ Readable
        /\ r \in Reviews
        /\ Owns(op, att)
        /\ RemoteCanSubmit(r)
        /\ ReviewOutcome(r, blk[r].owner)
        /\ SourceUnchanged

RemoteFail(op, att, outcome) ==
    LET b == Target[op]
    IN  /\ Readable
        /\ Owns(op, att)
        /\ blk[b].run < MaxRuns
        /\ IF SameAuthority(op)
           THEN Commit(With(b, [Without(blk[b], "blocked") EXCEPT
                                    !.run = @ + 1,
                                    !.receipt = Receipt(outcome, op, att, blk[b].run + 1)]),
                       fb, currentRefs \ {b}, currentFeedback, NotReview(b))
           ELSE Drift(b)
        /\ SourceUnchanged

\* Somebody edits the plan package, or takes the edit back.
EditPackage == pkg' = 1 - pkg /\ UNCHANGED <<vars, opSrc>>

RemotePort ==
    \E op \in Ops :
        \/ Inspect(op)
        \/ RemoteClaim(op)
        \/ RemoteClaimReplay(op)
        \/ \E prior \in Ops : RemoteRestore(op, prior)
        \/ RemoteActivate(op)
        \/ RemoteReconcile(op)
        \/ \E att \in Attempts :
            \/ \E kind \in {"resumable", "manual"} : RemoteInterrupt(op, att, kind)
            \/ RemoteResume(op, att)
            \/ RemoteRetry(op, att)
            \/ RemoteComplete(op, att)
            \/ RemoteCompleteReview(op, att)
            \/ \E outcome \in {"failed", "cancelled"} : RemoteFail(op, att, outcome)

RemoteNext ==
    \/ (LoopNext \/ Override) /\ SourceUnchanged
    \/ RemotePort
    \/ EditPackage

RemoteSpec == RemoteInit /\ [][RemoteNext]_rvars

ResetNext ==
    \/ RemoteNext
    \/ \E scope \in ScopeBases : ResetMaxCycleReviews(scope) /\ SourceUnchanged

ResetSpec == RemoteInit /\ [][ResetNext]_rvars

-----------------------------------------------------------------------------
(* Properties. *)

\* The types of TaskRuntime, and an operation records its evidence once.
RemoteTypeOK ==
    /\ TypeOK
    /\ pkg \in {0, 1}
    /\ DOMAIN opSrc = Ops
    /\ \A op \in Ops : \A x, y \in opSrc[op] : x = y

\* What is written to state.json can be loaded again: writeState does not
\* validate, readState does, so one block whose ownership, interruption or
\* receipt does not fit its status makes the whole canvas unusable
\* (schema/runtimeState.ts).
StateReadable == Readable

\* While an envelope is open its review carries no trace of a remote
\* operation.  submitFeedback relies on this: it sets the review in progress
\* without looking at ownership, interruption or receipt.
OpenFeedbackLocal ==
    \A i \in Active(fb) : LET s == blk[fb[i].review]
                          IN  s.owner = NoOwner /\ s.intr = "none" /\ s.receipt = NoReceipt

HandedOver(s, t) ==
    /\ t.owner # s.owner /\ t.owner # NoOwner =>
        \/ s.owner = NoOwner /\ t.owner.phase = "preparing"
        \/ /\ s.owner.op = t.owner.op
           /\ \/ s.owner.phase = "preparing"
              \/ s.intr = "manual" /\ t.owner.att = s.owner.att + 1
    /\ t.receipt # s.receipt /\ t.receipt # NoReceipt =>
        s.owner = [phase |-> "active", op |-> t.receipt.op, att |-> t.receipt.att]

\* Ownership is handed over only through an ownerless block; within an
\* operation it is activated once, and a new attempt takes over only from an
\* interruption that cannot be resumed; a receipt is written only for the
\* attempt that owned the block, so the late call of a superseded attempt
\* never ends the operation (remoteOwnershipTransitions.ts).
OwnershipHandover == [][\A b \in Blocks : HandedOver(blk[b], blk'[b])]_rvars
=============================================================================
