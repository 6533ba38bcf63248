------------------------- MODULE RemoteRuntimeProofs -------------------------
(***************************************************************************)
(* For every plan and every set of remote operations: state.json stays     *)
(* well typed and loadable under any interleaving of the local operations, *)
(* the operator's overrides and the remote port.                           *)
(*                                                                         *)
(* Every operation ends in Commit, so the argument has two halves: what a  *)
(* Commit of a good pair of blocks and feedback establishes, and, action   *)
(* by action, that the pair committed is good.                             *)
(***************************************************************************)
EXTENDS RemoteRuntime, TLAPS

\* No trace of a remote operation.
Clean(s) == s.owner = NoOwner /\ s.intr = "none" /\ s.receipt = NoReceipt

FbOK(F) ==
    /\ F \in [FbIds -> FbStates]
    /\ \A i \in FbIds : F[i].status # "none" => F[i].review \in Reviews

\* Blocks and feedback that may be written to state.json.
Good(B, F) ==
    /\ B \in [Blocks -> BlockStates]
    /\ FbOK(F)
    /\ \A b \in Blocks : BlockReadable(B[b])
    /\ \A i \in Active(F) : Clean(B[F[i].review])

PointersOK(refs, feedback, review) ==
    /\ refs \subseteq Blocks
    /\ feedback \in 0..MaxFeedback
    /\ review \in Reviews \cup {NoBlock}

\* The inductive invariant.  StateReadable alone is not inductive: submitting
\* feedback puts its review in progress unseen, which is safe only because a
\* review with open feedback is clean and the current feedback is open.
IInv ==
    /\ Good(blk, fb)
    /\ PointersOK(currentRefs, currentFeedback, currentReview)
    /\ Settled

\* What a step is shown to do.
StepOK == IInv' /\ \A b \in Blocks : HandedOver(blk[b], blk'[b])

-----------------------------------------------------------------------------
(* Typing facts about the records. *)

\* An active envelope has a number and belongs to a review.
LEMMA ActiveType ==
    ASSUME NEW F, FbOK(F), NEW i \in Active(F)
    PROVE  i \in FbIds /\ F[i].review \in Reviews /\ F[i].review \in Blocks
  BY GraphAssumption DEF Active, FbOK, FbStates

\* The absent owner and the absent receipt have the types of the schema.
LEMMA NoTraceTypes == NoOwner \in Owners /\ NoReceipt \in Receipts
  BY RuntimeAssumption DEF NoOwner, NoReceipt, Owners, Receipts

\* What ensureStateForManifest does to the status of one block.
LEMMA ReconciledStatus ==
    ASSUME NEW B \in [Blocks -> BlockStates], NEW F, NEW b \in Blocks
    PROVE  /\ Reconciled(B, F)[b].status =
                IF B[b].status \in {"planned", "ready"} THEN DerivedStatus(B, F, b) ELSE B[b].status
           /\ Reconciled(B, F)[b].reason = B[b].reason
  BY DEF Reconciled, BlockStates

\* Reconciling does not touch what it looks at, so it is idempotent.
LEMMA ReconciledIdempotent ==
    ASSUME NEW B \in [Blocks -> BlockStates], NEW F, Reconciled(B, F) \in [Blocks -> BlockStates]
    PROVE  Reconciled(Reconciled(B, F), F) = Reconciled(B, F)
  <1>. DEFINE R == Reconciled(B, F)
  <1>1. ASSUME NEW b \in Blocks PROVE DerivedStatus(B, F, b) \in {"planned", "ready"}
    BY DEF DerivedStatus
  <1>2. ASSUME NEW b \in Blocks
        PROVE  /\ R[b].status = "completed" <=> B[b].status = "completed"
               /\ R[b].status = "in_progress" <=> B[b].status = "in_progress"
               /\ R[b].status \in {"planned", "ready"} <=> B[b].status \in {"planned", "ready"}
               /\ R[b].reason = B[b].reason
    BY <1>1, ReconciledStatus
  <1>. HIDE DEF R
  <1>3. ASSUME NEW t PROVE Closed(R, F, t) <=> Closed(B, F, t)
    <2>1. Impls(t) \subseteq Blocks /\ Gates(t) \subseteq Blocks
      BY GraphAssumption DEF Impls, Gates
    <2>. QED
      BY <1>2, <2>1 DEF Closed
  <1>4. ASSUME NEW t PROVE TaskDepsSatisfied(R, F, t) <=> TaskDepsSatisfied(B, F, t)
    BY <1>3 DEF TaskDepsSatisfied, Implemented
  <1>5. ASSUME NEW b \in Blocks PROVE BlockDepsCompleted(R, b) <=> BlockDepsCompleted(B, b)
    BY <1>2, GraphAssumption DEF BlockDepsCompleted
  <1>6. ASSUME NEW b \in Blocks PROVE DerivedStatus(R, F, b) = DerivedStatus(B, F, b)
    BY <1>4, <1>5 DEF DerivedStatus, SeedReady
  <1>7. ASSUME NEW b \in Blocks PROVE Reconciled(R, F)[b] = R[b]
    <2>1. R \in [Blocks -> BlockStates]
      BY DEF R
    <2>2. CASE R[b].status \in {"planned", "ready"}
      <3>1. R[b].status = DerivedStatus(R, F, b)
        BY <1>2, <1>6, <2>2, ReconciledStatus DEF R
      <3>. QED
        BY <2>1, <2>2, <3>1 DEF Reconciled, BlockStates
    <2>3. CASE R[b].status \notin {"planned", "ready"}
      BY <2>3 DEF Reconciled
    <2>. QED
      BY <2>2, <2>3
  <1>8. Reconciled(R, F) = [b \in Blocks |-> Reconciled(R, F)[b]]
    BY DEF Reconciled
  <1>9. R = [b \in Blocks |-> R[b]]
    BY DEF R
  <1>. QED
    BY <1>7, <1>8, <1>9 DEF R

\* Reconciling changes only the status of planned and ready blocks.
LEMMA ReconciledFields ==
    ASSUME NEW B \in [Blocks -> BlockStates], NEW F, NEW b \in Blocks
    PROVE  /\ Reconciled(B, F)[b] \in BlockStates
           /\ Reconciled(B, F)[b].owner = B[b].owner
           /\ Reconciled(B, F)[b].intr = B[b].intr
           /\ Reconciled(B, F)[b].receipt = B[b].receipt
           /\ Reconciled(B, F)[b].run = B[b].run
           /\ \/ Reconciled(B, F)[b].status = B[b].status
              \/ B[b].status \in {"planned", "ready"}
  <1>1. DerivedStatus(B, F, b) \in Statuses
    BY DEF DerivedStatus, Statuses
  <1>2. B[b] \in BlockStates
    OBVIOUS
  <1>. QED
    BY <1>1, <1>2 DEF Reconciled, BlockStates

\* A step that gives the block to nobody and writes no receipt.
LEMMA Unhanded ==
    ASSUME NEW s, NEW t, t.owner \in {s.owner, NoOwner}, t.receipt \in {s.receipt, NoReceipt}
    PROVE  HandedOver(s, t)
  BY DEF HandedOver

\* What a commit of a good state establishes.
LEMMA CommitGood ==
    ASSUME NEW B, NEW F, NEW refs, NEW feedback, NEW review,
           Good(B, F), PointersOK(refs, feedback, review),
           \A b \in Blocks : HandedOver(blk[b], B[b]),
           Commit(B, F, refs, feedback, review)
    PROVE  StepOK
  <1>1. blk' = Reconciled(B, F) /\ fb' = F
    BY DEF Commit
  <1>2. blk' \in [Blocks -> BlockStates]
    <2>1. \A b \in Blocks : Reconciled(B, F)[b] \in BlockStates
      BY ReconciledFields DEF Good
    <2>2. Reconciled(B, F) = [b \in Blocks |-> Reconciled(B, F)[b]]
      BY DEF Reconciled
    <2>. QED
      BY <1>1, <2>1, <2>2
  <1>3. \A b \in Blocks : BlockReadable(blk'[b])
    <2>. SUFFICES ASSUME NEW b \in Blocks PROVE BlockReadable(Reconciled(B, F)[b])
      BY <1>1
    <2>1. BlockReadable(B[b])
      BY DEF Good
    <2>2. /\ Reconciled(B, F)[b].owner = B[b].owner
          /\ Reconciled(B, F)[b].intr = B[b].intr
          /\ Reconciled(B, F)[b].receipt = B[b].receipt
          /\ Reconciled(B, F)[b].run = B[b].run
          /\ \/ Reconciled(B, F)[b].status = B[b].status
             \/ B[b].status \in {"planned", "ready"}
      BY ReconciledFields DEF Good
    <2>. QED
      BY <2>1, <2>2 DEF BlockReadable
  <1>4. \A i \in Active(fb') : Clean(blk'[fb'[i].review])
    <2>. SUFFICES ASSUME NEW i \in Active(F) PROVE Clean(Reconciled(B, F)[F[i].review])
      BY <1>1
    <2>1. F[i].review \in Blocks
      BY ActiveType DEF Good
    <2>2. Clean(B[F[i].review])
      BY DEF Good
    <2>. QED
      BY <2>1, <2>2, ReconciledFields DEF Good, Clean
  <1>5. FbOK(fb')
    BY <1>1 DEF Good
  <1>6. /\ PointersOK(currentRefs', currentFeedback', currentReview')
        /\ currentFeedback' # 0 => currentFeedback' \in Active(fb')
    BY RuntimeAssumption DEF Commit, PointersOK
  <1>7. blk' = Reconciled(blk', fb')
    BY <1>1, <1>2, ReconciledIdempotent DEF Good
  <1>8. ASSUME NEW b \in Blocks PROVE HandedOver(blk[b], blk'[b])
    <2>1. blk'[b].owner = B[b].owner /\ blk'[b].receipt = B[b].receipt
      BY <1>1, ReconciledFields DEF Good
    <2>. QED
      BY <2>1 DEF HandedOver
  <1>9. IInv'
    BY <1>2, <1>3, <1>4, <1>5, <1>6, <1>7 DEF IInv, Good, Settled
  <1>. QED
    BY <1>8, <1>9 DEF StepOK

\* The common case: one block changes and the feedback does not.  Its new
\* state must be clean if feedback of it may be open.
LEMMA StepGood ==
    ASSUME IInv, NEW b \in Blocks, NEW s \in BlockStates, BlockReadable(s),
           OpenFor(fb, b) = {} \/ (Clean(blk[b]) => Clean(s)), HandedOver(blk[b], s),
           NEW refs, NEW feedback, NEW review, PointersOK(refs, feedback, review),
           Commit(With(b, s), fb, refs, feedback, review)
    PROVE  StepOK
  <1>1. With(b, s) \in [Blocks -> BlockStates]
    BY DEF IInv, Good, With
  <1>2. \A c \in Blocks : BlockReadable(With(b, s)[c])
    BY DEF IInv, Good, With
  <1>3. ASSUME NEW i \in Active(fb) PROVE Clean(With(b, s)[fb[i].review])
    <2>1. fb[i].review \in Blocks /\ Clean(blk[fb[i].review])
      BY ActiveType DEF IInv, Good
    <2>2. fb[i].review = b => OpenFor(fb, b) # {}
      BY DEF OpenFor
    <2>. QED
      BY <2>1, <2>2 DEF IInv, Good, With
  <1>4. Good(With(b, s), fb)
    BY <1>1, <1>2, <1>3 DEF IInv, Good
  <1>5. \A c \in Blocks : HandedOver(blk[c], With(b, s)[c])
    BY Unhanded DEF IInv, Good, With
  <1>. QED
    BY <1>4, <1>5, CommitGood

-----------------------------------------------------------------------------
(* Facts used by many actions. *)

\* The invariant gives every block its type and makes it readable.
LEMMA BlockTyped ==
    ASSUME IInv, NEW b \in Blocks
    PROVE  blk[b] \in BlockStates /\ BlockReadable(blk[b])
  BY DEF IInv, Good

\* The invariant types the current pointers.
LEMMA Pointers ==
    ASSUME IInv
    PROVE  PointersOK(currentRefs, currentFeedback, currentReview)
  BY DEF IInv

\* A block without remote traces is accepted by the schema.
LEMMA CleanReadable == ASSUME NEW s, Clean(s) PROVE BlockReadable(s)
  BY DEF Clean, BlockReadable, NoOwner, NoReceipt

\* A block that ends up without remote traces was handed to nobody.
LEMMA CleanUnhanded == ASSUME NEW s, NEW t, Clean(t) PROVE HandedOver(s, t)
  BY Unhanded DEF Clean

\* Leaving the remote lifecycle.
LEMMA WithoutGood ==
    ASSUME NEW s \in BlockStates, NEW status \in Statuses
    PROVE  /\ Without(s, status) \in BlockStates
           /\ BlockReadable(Without(s, status))
           /\ Clean(Without(s, status))
           /\ Without(s, status).run = s.run
           /\ Without(s, status).status = status
  BY NoTraceTypes DEF Without, Cleared, BlockStates, BlockReadable, Clean, NoOwner, NoReceipt

\* unblock, release and resolve lead to a status.
LEMMA ResolvedStatus == ASSUME NEW b PROVE Resolved(b) \in Statuses
  BY DEF Resolved, Statuses

\* Starting a review over touches nothing the schema relates.
LEMMA ResetReviewGood ==
    ASSUME NEW s \in BlockStates
    PROVE  /\ ResetReview(s) \in BlockStates
           /\ BlockReadable(s) => BlockReadable(ResetReview(s))
           /\ Clean(s) => Clean(ResetReview(s))
           /\ ResetReview(s).owner = s.owner
           /\ ResetReview(s).receipt = s.receipt
  <1>1. 0 \in 0..MaxFeedback /\ {} \in SUBSET Revisions
    BY RuntimeAssumption
  <1>2. ResetReview(s) \in BlockStates
    BY <1>1 DEF ResetReview, BlockStates
  <1>3. /\ ResetReview(s).status = s.status
        /\ ResetReview(s).run = s.run
        /\ ResetReview(s).owner = s.owner
        /\ ResetReview(s).intr = s.intr
        /\ ResetReview(s).receipt = s.receipt
    BY DEF ResetReview, BlockStates
  <1>. QED
    BY <1>2, <1>3 DEF BlockReadable, Clean

\* computeWorkRevision returns a revision.
LEMMA WorkRevisionType ==
    ASSUME IInv, NEW r
    PROVE  WorkRevision(r) \in Revisions
  <1>1. \A b \in Blocks : blk[b].run \in 0..MaxRuns
    BY BlockTyped DEF BlockStates
  <1>2. 0 \in 0..MaxRuns
    BY RuntimeAssumption
  <1>. QED
    BY <1>1, <1>2 DEF WorkRevision, Revisions

-----------------------------------------------------------------------------
(* Claims. *)

\* Ready blocks and local reviews turn to in_progress.
LEMMA ClaimedGood ==
    ASSUME IInv, NEW claims \in SUBSET Blocks, \A b \in claims : blk[b].status = "ready"
    PROVE  Good(Claimed(claims), fb) /\ \A b \in Blocks : HandedOver(blk[b], Claimed(claims)[b])
  <1>1. ASSUME NEW b \in Blocks
        PROVE  /\ Claimed(claims)[b] \in BlockStates
               /\ BlockReadable(Claimed(claims)[b])
               /\ Claimed(claims)[b].owner = blk[b].owner
               /\ Claimed(claims)[b].receipt = blk[b].receipt
               /\ Clean(blk[b]) => Clean(Claimed(claims)[b])
    BY <1>1, BlockTyped DEF Claimed, BlockStates, Statuses, BlockReadable, Clean
  <1>2. Claimed(claims) \in [Blocks -> BlockStates]
    BY <1>1 DEF Claimed
  <1>3. ASSUME NEW i \in Active(fb) PROVE Clean(Claimed(claims)[fb[i].review])
    BY <1>1, <1>3, ActiveType DEF IInv, Good
  <1>4. \A b \in Blocks : HandedOver(blk[b], Claimed(claims)[b])
    BY <1>1, Unhanded
  <1>. QED
    BY <1>1, <1>2, <1>3, <1>4 DEF IInv, Good

\* A claim leaves currentReviewBlockRef on a review.
LEMMA ReviewPointerType ==
    ASSUME IInv, NEW claims \in SUBSET Blocks
    PROVE  ReviewPointer(claims) \in Reviews \cup {NoBlock}
  BY DEF ReviewPointer, IInv, PointersOK

\* Only blocks whose status is ready are ready to be claimed.
LEMMA ReadyStatus ==
    ASSUME NEW b, Ready(b) PROVE blk[b].status = "ready"
  BY DEF Ready

\* Claiming feedback: the envelope stays active, its review stays clean.
LEMMA ClaimFeedbackGood ==
    ASSUME IInv, NEW scope, ClaimFeedback(scope)
    PROVE  StepOK
  <1>1. PICK i \in Active(fb) :
            Commit(blk, [fb EXCEPT ![i].status = "in_progress"],
                   currentRefs \ {fb[i].review}, i, fb[i].review)
    BY DEF ClaimFeedback
  <1>. DEFINE F == [fb EXCEPT ![i].status = "in_progress"]
  <1>2. i \in FbIds /\ fb[i].review \in Reviews
    BY ActiveType DEF IInv, Good
  <1>3. FbOK(F)
    BY <1>2 DEF IInv, Good, FbOK, FbStates
  <1>4. \A j \in Active(F) : j \in Active(fb) /\ F[j].review = fb[j].review
    BY <1>2 DEF IInv, Good, FbOK, FbStates, Active
  <1>5. Good(blk, F)
    BY <1>3, <1>4 DEF IInv, Good
  <1>6. PointersOK(currentRefs \ {fb[i].review}, i, fb[i].review)
    BY <1>2, RuntimeAssumption DEF IInv, PointersOK, FbIds
  <1>. QED
    BY <1>1, <1>5, <1>6, CommitGood, Unhanded

\* Resuming a review that is in progress locally.
LEMMA ResumeReviewGood ==
    ASSUME IInv, NEW scope, ResumeReview(scope)
    PROVE  StepOK
  <1>1. PICK r \in Earliest(LocalWork \cap Reviews) :
            Commit(With(r, [blk[r] EXCEPT !.pendingFb = 0]), fb,
                   currentRefs \cup {r}, currentFeedback, r)
    BY DEF ResumeReview
  <1>2. r \in Blocks /\ r \in Reviews
    BY DEF Earliest, LocalWork
  <1>. DEFINE s == [blk[r] EXCEPT !.pendingFb = 0]
  <1>3. /\ s \in BlockStates /\ BlockReadable(s) /\ (Clean(blk[r]) => Clean(s))
        /\ s.owner = blk[r].owner /\ s.receipt = blk[r].receipt
    BY <1>2, BlockTyped, RuntimeAssumption DEF BlockStates, BlockReadable, Clean
  <1>4. PointersOK(currentRefs \cup {r}, currentFeedback, r)
    BY <1>2 DEF IInv, PointersOK
  <1>5. Commit(With(r, s), fb, currentRefs \cup {r}, currentFeedback, r)
    BY <1>1
  <1>. HIDE DEF s
  <1>6. HandedOver(blk[r], s)
    BY <1>3, Unhanded
  <1>. QED
    BY <1>2, <1>3, <1>4, <1>5, <1>6, StepGood

\* markClaimed turns one ready block to in progress.
LEMMA ClaimSequentialGood ==
    ASSUME IInv, NEW scope \in SUBSET Blocks, ClaimSequential(scope)
    PROVE  StepOK
  <1>1. PICK b \in Blocks :
            /\ Ready(b)
            /\ Commit(Claimed({b}), fb, {b}, currentFeedback, ReviewPointer({b}))
    BY DEF ClaimSequential, Earliest
  <1>2. Good(Claimed({b}), fb) /\ \A c \in Blocks : HandedOver(blk[c], Claimed({b})[c])
    BY <1>1, ClaimedGood, ReadyStatus
  <1>3. PointersOK({b}, currentFeedback, ReviewPointer({b}))
    BY ReviewPointerType DEF IInv, PointersOK
  <1>. QED
    BY <1>1, <1>2, <1>3, CommitGood

\* A parallel batch turns ready blocks to in progress.
LEMMA ClaimParallelGood ==
    ASSUME IInv, NEW scope \in SUBSET Blocks, ClaimParallel(scope)
    PROVE  StepOK
  <1>. DEFINE reviews == {r \in scope \cap Reviews : Ready(r)}
  <1>1. PICK sel \in SUBSET (scope \ Reviews) :
            /\ IsBatch(sel, scope)
            /\ LET claims == IF sel # {} THEN sel \cup BatchReview(sel, scope)
                                         ELSE Earliest(reviews)
               IN  Commit(Claimed(claims), fb, LiveRefs \cup claims, currentFeedback,
                          ReviewPointer(claims))
    BY DEF ClaimParallel
  <1>. DEFINE claims == IF sel # {} THEN sel \cup BatchReview(sel, scope)
                                    ELSE Earliest(reviews)
  <1>2. ASSUME NEW b \in sel PROVE b \in Blocks /\ blk[b].status = "ready"
    BY <1>1, <1>2, ReadyStatus DEF IsBatch, CanDispatch
  <1>3. ASSUME NEW b \in BatchReview(sel, scope) PROVE b \in Blocks /\ blk[b].status = "ready"
    BY <1>3, ReadyStatus DEF BatchReview, Earliest
  <1>4. ASSUME NEW b \in Earliest(reviews) PROVE b \in Blocks /\ blk[b].status = "ready"
    BY <1>4, ReadyStatus DEF Earliest
  <1>5. claims \in SUBSET Blocks /\ \A b \in claims : blk[b].status = "ready"
    BY <1>2, <1>3, <1>4
  <1>6. Commit(Claimed(claims), fb, LiveRefs \cup claims, currentFeedback, ReviewPointer(claims))
    BY <1>1
  <1>. HIDE DEF claims
  <1>7. Good(Claimed(claims), fb) /\ \A c \in Blocks : HandedOver(blk[c], Claimed(claims)[c])
    BY <1>5, ClaimedGood
  <1>8. PointersOK(LiveRefs \cup claims, currentFeedback, ReviewPointer(claims))
    BY <1>5, ReviewPointerType DEF IInv, PointersOK, LiveRefs
  <1>. QED
    BY <1>6, <1>7, <1>8, CommitGood

\* claimDispatchedBlock turns one ready block to in progress.
LEMMA ClaimDispatchedGood ==
    ASSUME IInv, NEW b \in Blocks, ClaimDispatched(b)
    PROVE  StepOK
  <1>1. blk[b].status = "ready"
    BY ReadyStatus DEF ClaimDispatched, CanDispatch
  <1>2. Good(Claimed({b}), fb) /\ \A c \in Blocks : HandedOver(blk[c], Claimed({b})[c])
    BY <1>1, ClaimedGood
  <1>3. PointersOK(currentRefs \cup {b}, currentFeedback, currentReview)
    BY DEF IInv, PointersOK
  <1>. QED
    BY <1>2, <1>3, CommitGood DEF ClaimDispatched

\* Every form of claim.
LEMMA ClaimNextGood == ASSUME IInv, ClaimNext PROVE StepOK
  <1>1. ASSUME NEW scope \in Scopes PROVE scope \in SUBSET Blocks
    BY <1>1 DEF Scopes, ScopeBases
  <1>. QED
    BY <1>1, ClaimFeedbackGood, ResumeReviewGood, ClaimSequentialGood, ClaimParallelGood,
       ClaimDispatchedGood DEF ClaimNext

-----------------------------------------------------------------------------
(* Submissions. *)

\* A local implementation result completes a block and cleans it.
LEMMA SubmitResultGood ==
    ASSUME IInv, NEW b \in Blocks, SubmitResult(b)
    PROVE  StepOK
  <1>. DEFINE w == Without(blk[b], "completed")
              s == [w EXCEPT !.run = @ + 1]
  <1>1. w \in BlockStates /\ BlockReadable(w) /\ Clean(w) /\ w.run = blk[b].run
    BY BlockTyped, WithoutGood DEF Statuses
  <1>2. blk[b].run + 1 \in 0..MaxRuns
    BY BlockTyped, RuntimeAssumption DEF SubmitResult, BlockStates
  <1>. HIDE DEF w
  <1>3. s \in BlockStates /\ BlockReadable(s) /\ Clean(s)
    BY <1>1, <1>2 DEF BlockStates, BlockReadable, Clean, NoReceipt, NoOwner
  <1>4. PointersOK(currentRefs \ {b}, currentFeedback, currentReview)
    BY DEF IInv, PointersOK
  <1>5. Commit(With(b, s), fb, currentRefs \ {b}, currentFeedback, currentReview)
    BY DEF SubmitResult, w
  <1>. QED
    BY <1>3, <1>4, <1>5, StepGood, CleanUnhanded

\* The submission is local, or it comes from the owner of the review.
Submits(r, owner) ==
    /\ owner = blk[r].owner
    /\ \/ owner = NoOwner /\ blk[r].status = "in_progress"
       \/ owner # NoOwner /\ owner.phase = "active"

\* Sealing a review result: the receipt fits the status, or there is none.
LEMMA SealedGood ==
    ASSUME IInv, NEW r \in Blocks, NEW owner, Submits(r, owner),
           NEW s \in BlockStates, s.status \in {"completed", "blocked", "in_progress"},
           s.owner = owner, s.intr = blk[r].intr, s.receipt = blk[r].receipt
    PROVE  /\ Sealed(s, owner) \in BlockStates
           /\ BlockReadable(Sealed(s, owner))
           /\ Clean(blk[r]) \/ s.status # "completed" => Clean(Sealed(s, owner))
           /\ HandedOver(blk[r], Sealed(s, owner))
  <1>1. CASE owner = NoOwner
    <2>1. blk[r].receipt = NoReceipt /\ blk[r].intr = "none"
      BY <1>1, BlockTyped DEF Submits, BlockReadable, BlockStates, Receipts
    <2>. QED
      BY <1>1, <2>1, CleanReadable, CleanUnhanded DEF Sealed, Clean
  <1>2. CASE owner # NoOwner
    <2>. DEFINE c == Cleared(s)
                rc == [outcome |-> "completed", op |-> owner.op, att |-> owner.att, run |-> s.run]
    <2>1. c \in BlockStates /\ Clean(c) /\ c.status = s.status /\ c.run = s.run
      BY NoTraceTypes DEF Cleared, BlockStates, Clean
    <2>2. owner \in Owners
      BY BlockTyped DEF Submits, BlockStates
    <2>3. rc \in Receipts
      BY <1>2, <2>2 DEF Submits, Owners, Receipts, BlockStates
    <2>4. ~Clean(blk[r])
      BY <1>2 DEF Submits, Clean
    <2>. HIDE DEF c, rc
    <2>5. CASE s.status = "completed"
      <3>1. Sealed(s, owner) = [c EXCEPT !.receipt = rc]
        BY <1>2, <2>5 DEF Sealed, c, rc
      <3>2. rc.run = s.run
        BY DEF rc
      <3>3. [c EXCEPT !.receipt = rc] \in BlockStates
        BY <2>1, <2>3 DEF BlockStates
      <3>4. BlockReadable([c EXCEPT !.receipt = rc])
        BY <2>1, <2>5, <3>2 DEF BlockReadable, BlockStates, Clean, NoOwner, rc
      <3>5. HandedOver(blk[r], [c EXCEPT !.receipt = rc])
        <4>1. [c EXCEPT !.receipt = rc].owner = NoOwner /\ [c EXCEPT !.receipt = rc].receipt = rc
          BY <2>1 DEF BlockStates, Clean
        <4>2. blk[r].owner = [phase |-> "active", op |-> rc.op, att |-> rc.att]
          BY <1>2, <2>2 DEF Submits, Owners, rc
        <4>. QED
          BY <4>1, <4>2 DEF HandedOver
      <3>. QED
        BY <2>4, <2>5, <3>1, <3>3, <3>4, <3>5
    <2>6. CASE s.status # "completed"
      <3>1. Sealed(s, owner) = [c EXCEPT !.receipt = NoReceipt]
        BY <1>2, <2>6 DEF Sealed, c
      <3>2. [c EXCEPT !.receipt = NoReceipt] \in BlockStates
        BY <2>1, NoTraceTypes DEF BlockStates
      <3>3. /\ BlockReadable([c EXCEPT !.receipt = NoReceipt])
            /\ Clean([c EXCEPT !.receipt = NoReceipt])
        BY <2>1, <2>6 DEF BlockReadable, BlockStates, Clean, NoOwner, NoReceipt
      <3>. QED
        BY <3>1, <3>2, <3>3, CleanUnhanded
    <2>. QED
      BY <2>5, <2>6
  <1>. QED
    BY <1>1, <1>2

\* The state a review result leaves before it is sealed.
LEMMA ReviewedGood ==
    ASSUME IInv, NEW r \in Blocks, blk[r].run < MaxRuns,
           NEW status \in {"completed", "blocked", "in_progress"}
    PROVE  /\ Reviewed(r, status) \in BlockStates
           /\ Reviewed(r, status).status = status
           /\ Reviewed(r, status).owner = blk[r].owner
           /\ Reviewed(r, status).intr = blk[r].intr
           /\ Reviewed(r, status).receipt = blk[r].receipt
  <1>1. blk[r] \in BlockStates /\ status \in Statuses
    BY BlockTyped DEF Statuses
  <1>2. blk[r].run + 1 \in 0..MaxRuns /\ 0 \in 0..MaxFeedback
    BY <1>1, RuntimeAssumption DEF BlockStates
  <1>. QED
    BY <1>1, <1>2 DEF Reviewed, BlockStates

\* Releasing a review leaves currentReviewBlockRef on a review or null.
LEMMA NotReviewType ==
    ASSUME IInv, NEW r PROVE NotReview(r) \in Reviews \cup {NoBlock}
  BY DEF NotReview, IInv, PointersOK

\* The verdict passed.
LEMMA ReviewPassedGood ==
    ASSUME IInv, NEW r \in Reviews, NEW owner, Submits(r, owner), blk[r].run < MaxRuns,
           ReviewPassed(r, owner)
    PROVE  StepOK
  <1>. DEFINE v == Reviewed(r, "completed")
              s == [v EXCEPT !.reason = "passed", !.passedRev = {WorkRevision(r)}]
  <1>1. r \in Blocks
    BY GraphAssumption
  <1>2. /\ v \in BlockStates /\ v.status = "completed" /\ v.owner = blk[r].owner
        /\ v.intr = blk[r].intr /\ v.receipt = blk[r].receipt
    BY <1>1, ReviewedGood
  <1>3. {WorkRevision(r)} \in SUBSET Revisions
    BY WorkRevisionType
  <1>4. Commit(With(r, Sealed(s, owner)), fb, currentRefs \ {r}, currentFeedback, NotReview(r))
    BY DEF ReviewPassed
  <1>. HIDE DEF v
  <1>5. s \in BlockStates
    BY <1>2, <1>3 DEF BlockStates
  <1>6. /\ s.status = "completed" /\ s.owner = blk[r].owner
        /\ s.intr = blk[r].intr /\ s.receipt = blk[r].receipt
    BY <1>2 DEF BlockStates
  <1>. HIDE DEF s
  <1>7. /\ Sealed(s, owner) \in BlockStates /\ BlockReadable(Sealed(s, owner))
        /\ Clean(blk[r]) => Clean(Sealed(s, owner))
        /\ HandedOver(blk[r], Sealed(s, owner))
    BY <1>1, <1>5, <1>6, SealedGood DEF Submits
  <1>8. PointersOK(currentRefs \ {r}, currentFeedback, NotReview(r))
    BY NotReviewType DEF IInv, PointersOK
  <1>. QED
    BY <1>1, <1>4, <1>7, <1>8, StepGood

\* The verdict needs_changes with no cycle left.
LEMMA ReviewExhaustedGood ==
    ASSUME IInv, NEW r \in Reviews, NEW owner, Submits(r, owner), blk[r].run < MaxRuns,
           ReviewExhausted(r, owner)
    PROVE  StepOK
  <1>. DEFINE v == Reviewed(r, "completed")
              s == [v EXCEPT !.reason = "max_cycles_reached"]
  <1>1. r \in Blocks
    BY GraphAssumption
  <1>2. /\ v \in BlockStates /\ v.status = "completed" /\ v.owner = blk[r].owner
        /\ v.intr = blk[r].intr /\ v.receipt = blk[r].receipt
    BY <1>1, ReviewedGood
  <1>3. Commit(With(r, Sealed(s, owner)), fb, currentRefs \ {r}, currentFeedback, NotReview(r))
    BY DEF ReviewExhausted
  <1>. HIDE DEF v
  <1>4. /\ s \in BlockStates
        /\ s.status = "completed" /\ s.owner = blk[r].owner
        /\ s.intr = blk[r].intr /\ s.receipt = blk[r].receipt
    BY <1>2 DEF BlockStates
  <1>. HIDE DEF s
  <1>5. /\ Sealed(s, owner) \in BlockStates /\ BlockReadable(Sealed(s, owner))
        /\ Clean(blk[r]) => Clean(Sealed(s, owner))
        /\ HandedOver(blk[r], Sealed(s, owner))
    BY <1>1, <1>4, SealedGood DEF Submits
  <1>6. PointersOK(currentRefs \ {r}, currentFeedback, NotReview(r))
    BY NotReviewType DEF IInv, PointersOK
  <1>. QED
    BY <1>1, <1>3, <1>5, <1>6, StepGood

\* The verdict needs_changes when the review hook fails.
LEMMA ReviewHookFailedGood ==
    ASSUME IInv, NEW r \in Reviews, NEW owner, Submits(r, owner), blk[r].run < MaxRuns,
           ReviewHookFailed(r, owner)
    PROVE  StepOK
  <1>. DEFINE v == Reviewed(r, "blocked")
  <1>1. r \in Blocks
    BY GraphAssumption
  <1>2. /\ v \in BlockStates /\ v.status = "blocked" /\ v.owner = blk[r].owner
        /\ v.intr = blk[r].intr /\ v.receipt = blk[r].receipt
    BY <1>1, ReviewedGood
  <1>3. Commit(With(r, Sealed(v, owner)), fb, currentRefs \ {r}, currentFeedback, currentReview)
    BY DEF ReviewHookFailed
  <1>. HIDE DEF v
  <1>4. /\ Sealed(v, owner) \in BlockStates /\ BlockReadable(Sealed(v, owner))
        /\ Clean(blk[r]) => Clean(Sealed(v, owner))
        /\ HandedOver(blk[r], Sealed(v, owner))
    BY <1>1, <1>2, SealedGood DEF Submits
  <1>5. PointersOK(currentRefs \ {r}, currentFeedback, currentReview)
    BY DEF IInv, PointersOK
  <1>. QED
    BY <1>1, <1>3, <1>4, <1>5, StepGood

\* The one outcome that opens feedback: it may, because it cleans the review.
LEMMA ReviewNeedsChangesGood ==
    ASSUME IInv, NEW r \in Reviews, NEW owner, Submits(r, owner), blk[r].run < MaxRuns,
           ReviewNeedsChanges(r, owner)
    PROVE  StepOK
  <1>. DEFINE v == Reviewed(r, "in_progress")
  <1>1. r \in Blocks
    BY GraphAssumption
  <1>2. PICK i \in FbIds :
            Commit(With(r, Sealed([v EXCEPT !.activeFb = i], owner)),
                   [fb EXCEPT ![i] = [status |-> "open", review |-> r]],
                   currentRefs \ {r}, i, r)
    BY DEF ReviewNeedsChanges
  <1>. DEFINE s == [v EXCEPT !.activeFb = i]
              B == With(r, Sealed(s, owner))
              F == [fb EXCEPT ![i] = [status |-> "open", review |-> r]]
  <1>3. /\ v \in BlockStates /\ v.status = "in_progress" /\ v.owner = blk[r].owner
        /\ v.intr = blk[r].intr /\ v.receipt = blk[r].receipt
    BY <1>1, ReviewedGood
  <1>4. i \in 0..MaxFeedback
    BY RuntimeAssumption DEF FbIds
  <1>5. /\ s \in BlockStates
        /\ s.status = "in_progress" /\ s.owner = blk[r].owner
        /\ s.intr = blk[r].intr /\ s.receipt = blk[r].receipt
    <2>. HIDE DEF v
    <2>. QED
      BY <1>3, <1>4 DEF BlockStates
  <1>6. /\ Sealed(s, owner) \in BlockStates /\ BlockReadable(Sealed(s, owner))
        /\ Clean(Sealed(s, owner)) /\ HandedOver(blk[r], Sealed(s, owner))
    <2>. HIDE DEF s
    <2>. QED
      BY <1>1, <1>5, SealedGood DEF Submits
  <1>7. FbOK(F)
    BY DEF IInv, Good, FbOK, FbStates
  <1>8. /\ B \in [Blocks -> BlockStates]
        /\ \A c \in Blocks : BlockReadable(B[c]) /\ HandedOver(blk[c], B[c])
    <2>. HIDE DEF s
    <2>. QED
      BY <1>1, <1>6, Unhanded DEF IInv, Good, With
  <1>9. ASSUME NEW j \in Active(F) PROVE Clean(B[F[j].review])
    <2>. HIDE DEF s
    <2>1. F[j].review = r \/ (j \in Active(fb) /\ F[j].review = fb[j].review)
      BY DEF Active, IInv, Good, FbOK
    <2>2. B[r] = Sealed(s, owner) /\ \A c \in Blocks : c # r => B[c] = blk[c]
      BY <1>1 DEF With, IInv, Good
    <2>. HIDE DEF B, F
    <2>. QED
      BY <1>6, <2>1, <2>2, ActiveType DEF IInv, Good
  <1>10. Good(B, F)
    BY <1>7, <1>8, <1>9 DEF Good
  <1>11. PointersOK(currentRefs \ {r}, i, r)
    BY <1>4 DEF IInv, PointersOK
  <1>. QED
    BY <1>2, <1>8, <1>10, <1>11, CommitGood

\* Every outcome of a review result, local or remote.
LEMMA ReviewOutcomeGood ==
    ASSUME IInv, NEW r \in Reviews, NEW owner, Submits(r, owner), ReviewOutcome(r, owner)
    PROVE  StepOK
  BY ReviewPassedGood, ReviewExhaustedGood, ReviewHookFailedGood, ReviewNeedsChangesGood
     DEF ReviewOutcome

\* A local review result.
LEMMA SubmitReviewGood == ASSUME IInv, NEW r, SubmitReview(r) PROVE StepOK
  BY ReviewOutcomeGood DEF SubmitReview, Submits

\* Submitting feedback sets its review in progress without a look at it.
LEMMA SubmitFeedbackGood == ASSUME IInv, SubmitFeedback PROVE StepOK
  <1>. DEFINE i == currentFeedback
              r == fb[i].review
              s == [blk[r] EXCEPT !.status = "in_progress", !.activeFb = 0, !.pendingFb = i]
              F == [fb EXCEPT ![i].status = "resolved"]
  <1>1. i \in Active(fb)
    BY DEF SubmitFeedback, IInv, Settled
  <1>2. i \in FbIds /\ r \in Reviews /\ r \in Blocks
    BY <1>1, ActiveType DEF IInv, Good
  <1>3. blk[r] \in BlockStates /\ Clean(blk[r])
    BY <1>1, <1>2, BlockTyped DEF IInv, Good
  <1>4. Commit(With(r, s), F, currentRefs \cup {r}, 0, r)
    BY DEF SubmitFeedback
  <1>5. i \in 0..MaxFeedback /\ 0 \in 0..MaxFeedback
    BY <1>2, RuntimeAssumption DEF FbIds
  <1>6. s \in BlockStates /\ Clean(s) /\ BlockReadable(s)
    <2>1. s \in BlockStates
      BY <1>3, <1>5 DEF BlockStates, Statuses
    <2>2. s.owner = blk[r].owner /\ s.intr = blk[r].intr /\ s.receipt = blk[r].receipt
      BY <1>3 DEF BlockStates
    <2>. QED
      BY <1>3, <2>1, <2>2, CleanReadable DEF Clean
  <1>7. FbOK(F)
    BY <1>2 DEF IInv, Good, FbOK, FbStates
  <1>8. \A j \in Active(F) : j \in Active(fb) /\ F[j].review = fb[j].review
    BY <1>2 DEF IInv, Good, FbOK, FbStates, Active
  <1>9. /\ With(r, s) \in [Blocks -> BlockStates]
        /\ \A c \in Blocks : BlockReadable(With(r, s)[c]) /\ HandedOver(blk[c], With(r, s)[c])
    <2>. HIDE DEF s
    <2>. QED
      BY <1>2, <1>6, Unhanded, CleanUnhanded DEF IInv, Good, With
  <1>10. ASSUME NEW j \in Active(F) PROVE Clean(With(r, s)[F[j].review])
    <2>1. fb[j].review \in Blocks /\ Clean(blk[fb[j].review]) /\ F[j].review = fb[j].review
      BY <1>8, ActiveType DEF IInv, Good
    <2>. HIDE DEF s, F
    <2>. QED
      BY <1>2, <1>6, <2>1 DEF With, IInv, Good
  <1>11. Good(With(r, s), F)
    BY <1>7, <1>9, <1>10 DEF Good
  <1>12. PointersOK(currentRefs \cup {r}, 0, r)
    BY <1>2, <1>5 DEF IInv, PointersOK
  <1>. QED
    BY <1>4, <1>9, <1>11, <1>12, CommitGood

\* Every local submission.
LEMMA SubmitGood == ASSUME IInv, Submit PROVE StepOK
  BY SubmitResultGood, SubmitReviewGood, SubmitFeedbackGood DEF Submit

-----------------------------------------------------------------------------
(* Operator overrides. *)

\* An override that takes the block out of the remote lifecycle.
LEMMA WithoutStep ==
    ASSUME IInv, NEW b \in Blocks, NEW status \in Statuses,
           NEW s, s = Without(blk[b], status) \/ s = ResetReview(Without(blk[b], status)),
           NEW refs, NEW feedback, NEW review, PointersOK(refs, feedback, review),
           Commit(With(b, s), fb, refs, feedback, review)
    PROVE  StepOK
  <1>1. blk[b] \in BlockStates
    BY BlockTyped
  <1>2. s \in BlockStates /\ BlockReadable(s) /\ Clean(s)
    BY <1>1, WithoutGood, ResetReviewGood
  <1>. QED
    BY <1>2, StepGood, CleanUnhanded

\* markBlockBlocked.
LEMMA MarkBlockedGood == ASSUME IInv, NEW b \in Blocks, MarkBlocked(b) PROVE StepOK
  <1>1. PointersOK(currentRefs \ {b}, currentFeedback, currentReview)
    BY DEF IInv, PointersOK
  <1>. QED
    BY <1>1, WithoutStep DEF MarkBlocked, Statuses

\* markBlockDiverged keeps a remote owner and drops the rest.
LEMMA MarkDivergedGood == ASSUME IInv, NEW b \in Blocks, MarkDiverged(b) PROVE StepOK
  <1>. DEFINE kept == [blk[b] EXCEPT !.status = "diverged", !.intr = "none", !.receipt = NoReceipt]
              s == IF b \in Reviews THEN ResetReview(kept) ELSE kept
  <1>1. blk[b] \in BlockStates /\ BlockReadable(blk[b])
    BY BlockTyped
  <1>2. kept \in BlockStates
    BY <1>1, NoTraceTypes DEF BlockStates, Statuses
  <1>3. /\ kept.status = "diverged" /\ kept.intr = "none"
        /\ kept.receipt = NoReceipt /\ kept.owner = blk[b].owner
    BY <1>1 DEF BlockStates
  <1>4. BlockReadable(kept) /\ (Clean(blk[b]) => Clean(kept))
    BY <1>3 DEF BlockReadable, Clean, NoReceipt
  <1>5. /\ s \in BlockStates /\ BlockReadable(s) /\ (Clean(blk[b]) => Clean(s))
        /\ s.owner = blk[b].owner /\ s.receipt = NoReceipt
    <2>. HIDE DEF kept
    <2>. QED
      BY <1>2, <1>3, <1>4, ResetReviewGood
  <1>6. Commit(With(b, s), fb, currentRefs \ {b}, currentFeedback, currentReview)
    BY DEF MarkDiverged
  <1>7. PointersOK(currentRefs \ {b}, currentFeedback, currentReview)
    BY DEF IInv, PointersOK
  <1>. HIDE DEF s
  <1>. QED
    BY <1>5, <1>6, <1>7, StepGood, Unhanded

\* unblockBlock.
LEMMA UnblockGood == ASSUME IInv, NEW b \in Blocks, Unblock(b) PROVE StepOK
  BY ResolvedStatus, Pointers, WithoutStep DEF Unblock

\* releaseInProgressBlock.
LEMMA ReleaseInProgressGood == ASSUME IInv, NEW b \in Blocks, ReleaseInProgress(b) PROVE StepOK
  <1>1. PointersOK(currentRefs \ {b}, currentFeedback, currentReview)
    BY DEF IInv, PointersOK
  <1>. QED
    BY <1>1, ResolvedStatus, WithoutStep DEF ReleaseInProgress

\* resolveBlockDivergence.
LEMMA ResolveDivergenceGood == ASSUME IInv, NEW b \in Blocks, ResolveDivergence(b) PROVE StepOK
  <1>1. CASE b \in Reviews
    BY <1>1, ResolvedStatus, Pointers, WithoutStep DEF ResolveDivergence
  <1>2. CASE b \notin Reviews
    BY <1>2, ResolvedStatus, Pointers, WithoutStep DEF ResolveDivergence
  <1>. QED
    BY <1>1, <1>2

\* Every operator override.
LEMMA OverrideGood == ASSUME IInv, Override PROVE StepOK
  BY MarkBlockedGood, MarkDivergedGood, UnblockGood, ReleaseInProgressGood,
     ResolveDivergenceGood DEF Override

-----------------------------------------------------------------------------
(* The remote port. *)

\* A remote operation has a block.
LEMMA TargetType == ASSUME NEW op \in Ops PROVE Target[op] \in Blocks
  BY RemoteAssumption

\* Binding the pointers to a claimed block leaves them on a review or null.
LEMMA ReviewRefType ==
    ASSUME IInv, NEW b PROVE ReviewRef(b) \in Reviews \cup {NoBlock}
  BY DEF ReviewRef, IInv, PointersOK

\* A block with an owner is in progress or diverged and has no receipt.
LEMMA OwnedState ==
    ASSUME IInv, NEW b \in Blocks, blk[b].owner.op \in Ops
    PROVE  /\ blk[b].owner # NoOwner
           /\ blk[b].status \in {"in_progress", "diverged"}
           /\ blk[b].receipt = NoReceipt
           /\ OpenFor(fb, b) = {}
  <1>1. blk[b].owner # NoOwner
    BY RuntimeAssumption DEF NoOwner
  <1>2. blk[b].owner.phase \in {"preparing", "active"}
    BY <1>1, BlockTyped DEF BlockStates, Owners
  <1>3. blk[b].status \in {"in_progress", "diverged"}
    BY <1>2, BlockTyped DEF BlockReadable
  <1>4. blk[b].receipt = NoReceipt
    BY <1>3, BlockTyped DEF BlockReadable, BlockStates, Receipts
  <1>5. OpenFor(fb, b) = {}
    BY <1>1 DEF OpenFor, IInv, Good, Clean
  <1>. QED
    BY <1>1, <1>3, <1>4, <1>5

\* What the owning attempt of a remote operation knows of its block.
LEMMA OwnsState ==
    ASSUME IInv, NEW op \in Ops, NEW att, Owns(op, att)
    PROVE  /\ Target[op] \in Blocks
           /\ blk[Target[op]].owner = [phase |-> "active", op |-> op, att |-> att]
           /\ blk[Target[op]].owner # NoOwner
           /\ blk[Target[op]].owner.phase = "active"
           /\ blk[Target[op]].owner.op \in Ops
           /\ att \in Attempts
           /\ blk[Target[op]].status \in {"in_progress", "diverged"}
           /\ blk[Target[op]].receipt = NoReceipt
           /\ OpenFor(fb, Target[op]) = {}
  <1>1. Target[op] \in Blocks
    BY TargetType
  <1>2. blk[Target[op]].owner = [phase |-> "active", op |-> op, att |-> att]
    BY DEF Owns
  <1>3. blk[Target[op]].owner # NoOwner
    BY <1>2 DEF NoOwner
  <1>4. att \in Attempts
    BY <1>1, <1>2, <1>3, BlockTyped DEF BlockStates, Owners
  <1>5. blk[Target[op]].owner.op \in Ops /\ blk[Target[op]].owner.phase = "active"
    BY <1>2
  <1>. QED
    BY <1>1, <1>2, <1>3, <1>4, <1>5, OwnedState

\* Marking an owned block diverged keeps it readable.
LEMMA DriftedGood ==
    ASSUME IInv, NEW b \in Blocks, blk[b].owner.op \in Ops
    PROVE  /\ Drifted(b) \in BlockStates /\ BlockReadable(Drifted(b))
           /\ HandedOver(blk[b], Drifted(b))
  <1>1. blk[b] \in BlockStates
    BY BlockTyped
  <1>2. /\ Drifted(b) \in BlockStates
        /\ Drifted(b).status = "diverged" /\ Drifted(b).intr = "none"
        /\ Drifted(b).receipt = blk[b].receipt /\ Drifted(b).owner = blk[b].owner
    BY <1>1 DEF Drifted, BlockStates, Statuses
  <1>. QED
    BY <1>2, OwnedState, Unhanded DEF BlockReadable, NoReceipt

\* The drift path of the remote port.
LEMMA DriftGood ==
    ASSUME IInv, NEW b \in Blocks, blk[b].owner.op \in Ops, Drift(b)
    PROVE  StepOK
  <1>1. PointersOK(currentRefs \ {b}, currentFeedback, NotReview(b))
    BY NotReviewType DEF IInv, PointersOK
  <1>. QED
    BY <1>1, DriftedGood, OwnedState, StepGood DEF Drift

\* A block that may be dispatched has no open feedback.
LEMMA NoFeedback ==
    ASSUME IInv, NEW b \in Blocks, b \in Reviews => CanClaimReview(b)
    PROVE  OpenFor(fb, b) = {}
  <1>1. ASSUME NEW i \in OpenFor(fb, b) PROVE b \in Reviews /\ i \in OpenForTask(fb, TaskOf[b])
    BY <1>1, ActiveType DEF OpenFor, OpenForTask, IInv, Good
  <1>. QED
    BY <1>1 DEF CanClaimReview

\* A block the port may dispatch is ready, or a local review in progress, and
\* has no open feedback.
LEMMA DispatchableState ==
    ASSUME IInv, NEW b \in Blocks, RemoteDispatchable(b)
    PROVE  blk[b].status \in {"ready", "in_progress"} /\ OpenFor(fb, b) = {}
  <1>1. CASE b \in Reviews
    BY <1>1, NoFeedback DEF RemoteDispatchable, ReviewInitial, ReviewResume
  <1>2. CASE b \notin Reviews
    BY <1>2, NoFeedback, ReadyStatus DEF RemoteDispatchable, CanDispatch
  <1>. QED
    BY <1>1, <1>2

\* claim on an ownerless block.
LEMMA RemoteClaimGood == ASSUME IInv, NEW op \in Ops, RemoteClaim(op) PROVE StepOK
  <1>. DEFINE b == Target[op]
              s == Prepared(b, op)
              o == [phase |-> "preparing", op |-> op, att |-> 0]
  <1>1. b \in Blocks
    BY TargetType
  <1>2. blk[b] \in BlockStates /\ BlockReadable(blk[b])
    BY <1>1, BlockTyped
  <1>3. blk[b].status \in {"ready", "in_progress"} /\ OpenFor(fb, b) = {}
    BY <1>1, DispatchableState DEF RemoteClaim
  <1>4. o \in Owners /\ 0 \in 0..MaxFeedback
    BY RuntimeAssumption DEF Owners
  <1>5. /\ s \in BlockStates /\ s.status = "in_progress" /\ s.owner = o
        /\ s.intr = blk[b].intr /\ s.receipt = blk[b].receipt
    <2>. HIDE DEF b
    <2>. QED
      BY <1>2, <1>4 DEF Prepared, BlockStates, Statuses
  <1>6. blk[b].intr = "none" /\ blk[b].receipt = NoReceipt
    BY <1>2, <1>3 DEF BlockReadable, BlockStates, Receipts
  <1>7. BlockReadable(s)
    BY <1>5, <1>6 DEF BlockReadable, NoReceipt
  <1>8. PointersOK(currentRefs \cup {b}, currentFeedback, ReviewRef(b))
    BY <1>1, ReviewRefType DEF IInv, PointersOK
  <1>9. Commit(With(b, s), fb, currentRefs \cup {b}, currentFeedback, ReviewRef(b))
    BY DEF RemoteClaim
  <1>10. HandedOver(blk[b], s)
    <2>1. blk[b].owner = NoOwner
      BY DEF RemoteClaim
    <2>. HIDE DEF b, s
    <2>. QED
      BY <1>5, <2>1 DEF HandedOver
  <1>. HIDE DEF b, s
  <1>. QED
    BY <1>1, <1>3, <1>5, <1>7, <1>8, <1>9, <1>10, StepGood

\* An operation that matches the owner is the owner's operation.
LEMMA OwnedByState ==
    ASSUME IInv, NEW op \in Ops, OwnedBy(op)
    PROVE  Target[op] \in Blocks /\ blk[Target[op]].owner.op \in Ops
  BY TargetType DEF OwnedBy

\* claim repeated by the owning operation.
LEMMA RemoteClaimReplayGood == ASSUME IInv, NEW op \in Ops, RemoteClaimReplay(op) PROVE StepOK
  <1>. DEFINE b == Target[op]
  <1>1. b \in Blocks /\ blk[b].owner.op \in Ops
    BY OwnedByState DEF RemoteClaimReplay
  <1>2. CASE SameAuthority(op)
    <2>1. Commit(blk, fb, currentRefs \cup {b}, currentFeedback, ReviewRef(b))
      BY <1>2 DEF RemoteClaimReplay
    <2>2. PointersOK(currentRefs \cup {b}, currentFeedback, ReviewRef(b))
      BY <1>1, ReviewRefType DEF IInv, PointersOK
    <2>3. Good(blk, fb)
      BY DEF IInv
    <2>. HIDE DEF b
    <2>. QED
      BY <2>1, <2>2, <2>3, CommitGood, Unhanded
  <1>3. CASE ~SameAuthority(op)
    BY <1>1, <1>3, DriftGood DEF RemoteClaimReplay
  <1>. QED
    BY <1>2, <1>3

\* claim that restores a stopped execution.
LEMMA RemoteRestoreGood ==
    ASSUME IInv, NEW op \in Ops, NEW prior \in Ops, RemoteRestore(op, prior)
    PROVE  StepOK
  <1>. DEFINE b == Target[op]
              o == [phase |-> "preparing", op |-> op, att |-> 0]
              c == [Cleared(blk[b]) EXCEPT !.status = "ready"]
              s == [c EXCEPT !.status = "in_progress", !.owner = o]
  <1>1. b \in Blocks
    BY TargetType
  <1>2. c \in BlockStates /\ c.intr = "none" /\ c.receipt = NoReceipt
    <2>1. blk[b] \in BlockStates
      BY <1>1, BlockTyped
    <2>. HIDE DEF b
    <2>. QED
      BY <2>1, NoTraceTypes DEF Cleared, BlockStates, Statuses
  <1>3. o \in Owners
    BY RuntimeAssumption DEF Owners
  <1>4. /\ s \in BlockStates /\ s.status = "in_progress" /\ s.owner = o
        /\ s.intr = "none" /\ s.receipt = NoReceipt
    <2>. HIDE DEF c, o
    <2>. QED
      BY <1>2, <1>3 DEF BlockStates, Statuses
  <1>5. BlockReadable(s)
    <2>. HIDE DEF s
    <2>. QED
      BY <1>4 DEF BlockReadable, NoReceipt
  <1>6. OpenFor(fb, b) = {}
    BY <1>1, NoFeedback DEF RemoteRestore
  <1>7. Commit([With(b, c) EXCEPT ![b] = [@ EXCEPT !.status = "in_progress", !.owner = o]],
               fb, currentRefs \cup {b}, currentFeedback, ReviewRef(b))
    BY DEF RemoteRestore
  <1>8. [With(b, c) EXCEPT ![b] = [@ EXCEPT !.status = "in_progress", !.owner = o]] = With(b, s)
    <2>1. blk \in [Blocks -> BlockStates]
      BY DEF IInv, Good
    <2>. HIDE DEF c, o, b
    <2>. QED
      BY <1>1, <2>1 DEF With
  <1>9. PointersOK(currentRefs \cup {b}, currentFeedback, ReviewRef(b))
    BY <1>1, ReviewRefType DEF IInv, PointersOK
  <1>10. Commit(With(b, s), fb, currentRefs \cup {b}, currentFeedback, ReviewRef(b))
    BY <1>7, <1>8
  <1>11. HandedOver(blk[b], s)
    <2>1. blk[b].status = "blocked"
      BY <1>1, BlockTyped DEF RemoteRestore, Restorable, BlockReadable
    <2>2. blk[b].owner = NoOwner
      BY <1>1, <2>1, BlockTyped DEF BlockReadable, BlockStates, Owners
    <2>. HIDE DEF b, s
    <2>. QED
      BY <1>4, <2>2 DEF HandedOver
  <1>. HIDE DEF b, s
  <1>. QED
    BY <1>1, <1>4, <1>5, <1>6, <1>9, <1>10, <1>11, StepGood

\* activate.
LEMMA RemoteActivateGood == ASSUME IInv, NEW op \in Ops, RemoteActivate(op) PROVE StepOK
  <1>. DEFINE b == Target[op]
              o == [phase |-> "active", op |-> op, att |-> 1]
              s == [blk[b] EXCEPT !.owner = o]
  <1>1. b \in Blocks /\ blk[b].owner.op \in Ops
    BY OwnedByState DEF RemoteActivate
  <1>2. CASE SameAuthority(op)
    <2>1. blk[b].status = "in_progress" /\ Commit(With(b, s), fb, currentRefs, currentFeedback, currentReview)
      BY <1>2 DEF RemoteActivate
    <2>2. blk[b] \in BlockStates /\ BlockReadable(blk[b])
      BY <1>1, BlockTyped
    <2>3. o \in Owners
      BY RuntimeAssumption DEF RemoteActivate, Owners, Attempts
    <2>4. /\ s \in BlockStates /\ s.status = "in_progress" /\ s.owner = o
          /\ s.intr = blk[b].intr /\ s.receipt = blk[b].receipt
      <3>. HIDE DEF b, o
      <3>. QED
        BY <2>1, <2>2, <2>3 DEF BlockStates
    <2>5. blk[b].intr = "none" /\ blk[b].receipt = NoReceipt /\ OpenFor(fb, b) = {}
      BY <1>1, <2>1, <2>2, OwnedState DEF BlockReadable
    <2>6. blk[b].owner.op = op /\ (blk[b].owner.phase = "preparing" \/ blk[b].owner = o)
      BY <1>1, <2>2, OwnedState DEF RemoteActivate, OwnedBy, BlockStates, Owners, Attempts
    <2>. HIDE DEF b, s
    <2>7. BlockReadable(s)
      BY <2>4, <2>5 DEF BlockReadable, NoReceipt
    <2>8. HandedOver(blk[b], s)
      BY <2>4, <2>6 DEF HandedOver
    <2>. QED
      BY <1>1, <2>1, <2>4, <2>5, <2>7, <2>8, Pointers, StepGood
  <1>3. CASE ~SameAuthority(op)
    BY <1>1, <1>3, DriftGood DEF RemoteActivate
  <1>. QED
    BY <1>2, <1>3

\* reconcile.
LEMMA RemoteReconcileGood == ASSUME IInv, NEW op \in Ops, RemoteReconcile(op) PROVE StepOK
  BY OwnedByState, DriftGood DEF RemoteReconcile

\* A call of the owning attempt that leaves the block to its operation.
LEMMA AttemptStep ==
    ASSUME IInv, NEW op \in Ops, NEW att, Owns(op, att),
           NEW status \in {"in_progress", "diverged"}, NEW intr \in {"none", "resumable", "manual"},
           intr # "none" => status = "diverged",
           NEW run \in 0..MaxRuns, NEW o \in Owners, o.phase = "active", o.op = op,
           o.att = att \/ (blk[Target[op]].intr = "manual" /\ o.att = att + 1),
           NEW s, s = [blk[Target[op]] EXCEPT !.status = status, !.intr = intr, !.run = run, !.owner = o],
           NEW refs, NEW feedback, NEW review, PointersOK(refs, feedback, review),
           Commit(With(Target[op], s), fb, refs, feedback, review)
    PROVE  StepOK
  <1>. DEFINE b == Target[op]
  <1>1. /\ b \in Blocks /\ blk[b] \in BlockStates
        /\ blk[b].receipt = NoReceipt /\ OpenFor(fb, b) = {}
    BY OwnsState, BlockTyped
  <1>. HIDE DEF b
  <1>2. s = [blk[b] EXCEPT !.status = status, !.intr = intr, !.run = run, !.owner = o]
    BY DEF b
  <1>3. /\ s \in BlockStates /\ s.status = status /\ s.intr = intr
        /\ s.owner = o /\ s.receipt = NoReceipt
    BY <1>1, <1>2 DEF BlockStates, Statuses
  <1>4. BlockReadable(s)
    BY <1>3 DEF BlockReadable, NoReceipt
  <1>5. Commit(With(b, s), fb, refs, feedback, review)
    BY DEF b
  <1>6. HandedOver(blk[b], s)
    <2>1. blk[b].owner = [phase |-> "active", op |-> op, att |-> att]
      BY OwnsState DEF b
    <2>2. o = [phase |-> "active", op |-> op, att |-> o.att]
      BY DEF Owners, NoOwner
    <2>. QED
      BY <1>1, <1>3, <2>1, <2>2 DEF HandedOver, b
  <1>. QED
    BY <1>1, <1>3, <1>4, <1>5, <1>6, StepGood

\* The drift path of a call that proved it owns the block.
LEMMA OwnerDrift ==
    ASSUME IInv, NEW op \in Ops, NEW att, Owns(op, att), Drift(Target[op])
    PROVE  StepOK
  BY OwnsState, DriftGood

\* markInterrupted.
LEMMA RemoteInterruptGood ==
    ASSUME IInv, NEW op \in Ops, NEW att, NEW kind \in {"resumable", "manual"},
           RemoteInterrupt(op, att, kind)
    PROVE  StepOK
  <1>. DEFINE b == Target[op]
              run == IF kind = "manual" THEN blk[b].run + 1 ELSE blk[b].run
              o == [phase |-> "active", op |-> op, att |-> att]
              s == [blk[b] EXCEPT !.status = "diverged", !.intr = kind, !.run = run]
  <1>1. Owns(op, att)
    BY DEF RemoteInterrupt
  <1>2. /\ b \in Blocks /\ blk[b] \in BlockStates /\ blk[b].owner = o /\ o \in Owners
    BY <1>1, OwnsState, BlockTyped DEF BlockStates
  <1>3. CASE SameAuthority(op)
    <2>1. Commit(With(b, s), fb, currentRefs \ {b}, currentFeedback, NotReview(b))
      BY <1>3 DEF RemoteInterrupt
    <2>2. run \in 0..MaxRuns
      BY <1>2, RuntimeAssumption DEF RemoteInterrupt, BlockStates
    <2>3. PointersOK(currentRefs \ {b}, currentFeedback, NotReview(b))
      BY NotReviewType DEF IInv, PointersOK
    <2>4. s = [blk[b] EXCEPT !.status = "diverged", !.intr = kind, !.run = run, !.owner = o]
      <3>. HIDE DEF run, o, b
      <3>. QED
        BY <1>2 DEF BlockStates
    <2>5. o.phase = "active" /\ o.op = op /\ o.att = att
      OBVIOUS
    <2>. HIDE DEF run, o, s
    <2>. QED
      BY <1>1, <1>2, <2>1, <2>2, <2>3, <2>4, <2>5, AttemptStep
  <1>4. CASE ~SameAuthority(op)
    BY <1>1, <1>4, OwnerDrift DEF RemoteInterrupt
  <1>. QED
    BY <1>3, <1>4

\* resumeAttempt.
LEMMA RemoteResumeGood ==
    ASSUME IInv, NEW op \in Ops, NEW att, RemoteResume(op, att)
    PROVE  StepOK
  <1>. DEFINE b == Target[op]
              o == [phase |-> "active", op |-> op, att |-> att]
              s == [blk[b] EXCEPT !.status = "in_progress", !.intr = "none"]
  <1>1. Owns(op, att)
    BY DEF RemoteResume
  <1>2. /\ b \in Blocks /\ blk[b] \in BlockStates /\ blk[b].owner = o /\ o \in Owners
    BY <1>1, OwnsState, BlockTyped DEF BlockStates
  <1>3. CASE SameAuthority(op)
    <2>1. Commit(With(b, s), fb, currentRefs, currentFeedback, currentReview)
      BY <1>3 DEF RemoteResume
    <2>2. blk[b].run \in 0..MaxRuns
      BY <1>2 DEF BlockStates
    <2>3. s = [blk[b] EXCEPT !.status = "in_progress", !.intr = "none", !.run = blk[b].run, !.owner = o]
      <3>. HIDE DEF o, b
      <3>. QED
        BY <1>2 DEF BlockStates
    <2>4. o.phase = "active" /\ o.op = op /\ o.att = att
      OBVIOUS
    <2>. HIDE DEF o, s
    <2>. QED
      BY <1>1, <1>2, <2>1, <2>2, <2>3, <2>4, Pointers, AttemptStep, ZenonT(40)
  <1>4. CASE ~SameAuthority(op)
    BY <1>1, <1>4, OwnerDrift DEF RemoteResume
  <1>. QED
    BY <1>3, <1>4

\* retryAttempt.
LEMMA RemoteRetryGood ==
    ASSUME IInv, NEW op \in Ops, NEW att \in Attempts, RemoteRetry(op, att)
    PROVE  StepOK
  <1>. DEFINE b == Target[op]
              o == [phase |-> "active", op |-> op, att |-> att + 1]
              s == [blk[b] EXCEPT !.status = "in_progress", !.intr = "none", !.owner.att = att + 1]
  <1>1. Owns(op, att)
    BY DEF RemoteRetry
  <1>2. /\ b \in Blocks /\ blk[b] \in BlockStates
        /\ blk[b].owner = [phase |-> "active", op |-> op, att |-> att]
    BY <1>1, OwnsState, BlockTyped DEF BlockStates
  <1>3. CASE SameAuthority(op)
    <2>1. Commit(With(b, s), fb, currentRefs, currentFeedback, currentReview)
      BY <1>3 DEF RemoteRetry
    <2>2. blk[b].run \in 0..MaxRuns
      BY <1>2 DEF BlockStates
    <2>3. o \in Owners
      BY RuntimeAssumption DEF RemoteRetry, Attempts, Owners
    <2>4. s = [blk[b] EXCEPT !.status = "in_progress", !.intr = "none", !.run = blk[b].run, !.owner = o]
      <3>1. [blk[b].owner EXCEPT !.att = att + 1] = o
        BY <1>2
      <3>2. s = [blk[b] EXCEPT !.status = "in_progress", !.intr = "none",
                               !.owner = [blk[b].owner EXCEPT !.att = att + 1]]
        OBVIOUS
      <3>. HIDE DEF b, o, s
      <3>. QED
        BY <1>2, <3>1, <3>2 DEF BlockStates
    <2>5. o.phase = "active" /\ o.op = op /\ o.att = att + 1 /\ blk[b].intr = "manual"
      BY <1>3 DEF RemoteRetry
    <2>6. PointersOK(currentRefs, currentFeedback, currentReview)
      BY Pointers
    <2>. HIDE DEF o, s
    <2>7. o.phase = "active" /\ o.op = op
          /\ (o.att = att \/ (blk[Target[op]].intr = "manual" /\ o.att = att + 1))
      BY <2>5
    <2>. QED
      BY <1>1, <2>1, <2>2, <2>3, <2>4, <2>6, <2>7, AttemptStep, ZenonT(40)
  <1>4. CASE ~SameAuthority(op)
    BY <1>1, <1>4, OwnerDrift DEF RemoteRetry
  <1>. QED
    BY <1>3, <1>4

\* A call that ends the operation leaves a receipt for the run it numbers.
LEMMA ReceiptStep ==
    ASSUME IInv, NEW op \in Ops, NEW att, Owns(op, att), blk[Target[op]].run < MaxRuns,
           NEW outcome \in {"completed", "failed", "cancelled"},
           NEW status, status = (IF outcome = "completed" THEN "completed" ELSE "blocked"),
           NEW s, s = [Without(blk[Target[op]], status) EXCEPT
                            !.run = @ + 1,
                            !.receipt = Receipt(outcome, op, att, blk[Target[op]].run + 1)],
           NEW refs, NEW feedback, NEW review, PointersOK(refs, feedback, review),
           Commit(With(Target[op], s), fb, refs, feedback, review)
    PROVE  StepOK
  <1>. DEFINE b == Target[op]
              w == Without(blk[b], status)
              rc == Receipt(outcome, op, att, blk[b].run + 1)
  <1>1. b \in Blocks /\ blk[b] \in BlockStates /\ OpenFor(fb, b) = {}
    BY OwnsState, BlockTyped
  <1>2. blk[b].run + 1 \in 0..MaxRuns
    BY <1>1, RuntimeAssumption DEF BlockStates
  <1>3. att \in Attempts
    BY OwnsState
  <1>4. rc \in Receipts /\ rc.outcome = outcome /\ rc.run = blk[b].run + 1
    <2>. HIDE DEF b
    <2>. QED
      BY <1>2, <1>3 DEF Receipt, Receipts
  <1>5. /\ w \in BlockStates /\ Clean(w) /\ w.run = blk[b].run /\ w.status = status
    BY <1>1, WithoutGood DEF Statuses
  <1>6. s = [w EXCEPT !.run = w.run + 1, !.receipt = rc]
    OBVIOUS
  <1>7. Commit(With(b, s), fb, refs, feedback, review)
    OBVIOUS
  <1>. HIDE DEF b, w, rc
  <1>8. /\ s \in BlockStates /\ s.status = status /\ s.owner = NoOwner /\ s.intr = "none"
        /\ s.receipt = rc /\ s.run = rc.run
    BY <1>2, <1>4, <1>5, <1>6 DEF BlockStates, Clean
  <1>9. BlockReadable(s)
    BY <1>4, <1>8 DEF BlockReadable, NoOwner
  <1>10. HandedOver(blk[b], s)
    <2>1. blk[b].owner = [phase |-> "active", op |-> op, att |-> att]
      BY OwnsState DEF b
    <2>2. rc.op = op /\ rc.att = att
      BY DEF rc, Receipt
    <2>. QED
      BY <1>8, <2>1, <2>2 DEF HandedOver
  <1>. QED
    BY <1>1, <1>7, <1>8, <1>9, <1>10, StepGood

\* complete on an implementation.
LEMMA RemoteCompleteGood ==
    ASSUME IInv, NEW op \in Ops, NEW att, RemoteComplete(op, att)
    PROVE  StepOK
  <1>. DEFINE b == Target[op]
  <1>1. Owns(op, att) /\ blk[b].run < MaxRuns
    BY DEF RemoteComplete
  <1>2. CASE SameAuthority(op)
    <2>1. PointersOK(currentRefs \ {b}, currentFeedback, currentReview)
      BY DEF IInv, PointersOK
    <2>2. Commit(With(b, [Without(blk[b], "completed") EXCEPT
                              !.run = @ + 1, !.receipt = Receipt("completed", op, att, blk[b].run + 1)]),
                 fb, currentRefs \ {b}, currentFeedback, currentReview)
      BY <1>2 DEF RemoteComplete
    <2>. QED
      BY <1>1, <2>1, <2>2, ReceiptStep
  <1>3. CASE ~SameAuthority(op)
    <2>1. Commit(With(b, Drifted(b)), fb, currentRefs, currentFeedback, currentReview)
      BY <1>3 DEF RemoteComplete
    <2>2. b \in Blocks /\ blk[b].owner.op \in Ops /\ OpenFor(fb, b) = {}
      BY <1>1, OwnsState
    <2>. HIDE DEF b
    <2>. QED
      BY <2>1, <2>2, DriftedGood, Pointers, StepGood
  <1>. QED
    BY <1>2, <1>3

\* complete on a review.
LEMMA RemoteCompleteReviewGood ==
    ASSUME IInv, NEW op \in Ops, NEW att, RemoteCompleteReview(op, att)
    PROVE  StepOK
  <1>1. blk[Target[op]].owner # NoOwner /\ blk[Target[op]].owner.phase = "active"
    BY OwnsState DEF RemoteCompleteReview
  <1>. QED
    BY <1>1, ReviewOutcomeGood DEF RemoteCompleteReview, Submits

\* fail.
LEMMA RemoteFailGood ==
    ASSUME IInv, NEW op \in Ops, NEW att, NEW outcome \in {"failed", "cancelled"},
           RemoteFail(op, att, outcome)
    PROVE  StepOK
  <1>. DEFINE b == Target[op]
  <1>1. Owns(op, att) /\ blk[b].run < MaxRuns
    BY DEF RemoteFail
  <1>2. CASE SameAuthority(op)
    <2>1. PointersOK(currentRefs \ {b}, currentFeedback, NotReview(b))
      BY NotReviewType DEF IInv, PointersOK
    <2>2. Commit(With(b, [Without(blk[b], "blocked") EXCEPT
                              !.run = @ + 1, !.receipt = Receipt(outcome, op, att, blk[b].run + 1)]),
                 fb, currentRefs \ {b}, currentFeedback, NotReview(b))
      BY <1>2 DEF RemoteFail
    <2>. QED
      BY <1>1, <2>1, <2>2, ReceiptStep
  <1>3. CASE ~SameAuthority(op)
    BY <1>1, <1>3, OwnerDrift DEF RemoteFail
  <1>. QED
    BY <1>2, <1>3

-----------------------------------------------------------------------------
(* The theorems. *)

\* A new canvas satisfies the invariant.
LEMMA InitGood == Init => IInv
  <1>. SUFFICES ASSUME Init PROVE IInv
    OBVIOUS
  <1>. DEFINE B == [b \in Blocks |-> FreshBlock]
  <1>1. FreshBlock \in BlockStates /\ Clean(FreshBlock)
    <2>1. 0 \in 0..MaxRuns /\ 0 \in 0..MaxFeedback /\ {} \in SUBSET Revisions
      BY RuntimeAssumption
    <2>. QED
      BY <2>1, NoTraceTypes DEF FreshBlock, BlockStates, Statuses, Clean
  <1>2. FbOK(EmptyFb) /\ Active(EmptyFb) = {}
    BY DEF EmptyFb, FbOK, FbStates, Active
  <1>3. ASSUME NEW b \in Blocks
        PROVE  Reconciled(B, EmptyFb)[b] \in BlockStates /\ BlockReadable(Reconciled(B, EmptyFb)[b])
    <2>1. B \in [Blocks -> BlockStates] /\ B[b] = FreshBlock
      BY <1>1
    <2>. HIDE DEF B
    <2>2. Clean(Reconciled(B, EmptyFb)[b])
      BY <1>1, <2>1, ReconciledFields DEF Clean
    <2>. QED
      BY <2>1, <2>2, ReconciledFields, CleanReadable
  <1>4. Reconciled(B, EmptyFb) \in [Blocks -> BlockStates]
    BY <1>3 DEF Reconciled
  <1>5. blk = Reconciled(B, EmptyFb) /\ fb = EmptyFb
    BY DEF Init
  <1>6. Good(blk, fb)
    BY <1>2, <1>3, <1>4, <1>5 DEF Good
  <1>7. PointersOK(currentRefs, currentFeedback, currentReview)
    BY RuntimeAssumption DEF Init, PointersOK
  <1>8. blk = Reconciled(blk, fb)
    <2>1. B \in [Blocks -> BlockStates]
      BY <1>1
    <2>. HIDE DEF B
    <2>. QED
      BY <1>4, <1>5, <2>1, ReconciledIdempotent
  <1>. QED
    BY <1>6, <1>7, <1>8 DEF Init, IInv, Settled

\* A step that leaves state.json alone.
LEMMA UnchangedGood == ASSUME IInv, UNCHANGED vars PROVE StepOK
  BY Unhanded DEF vars, IInv, Good, PointersOK, Settled, StepOK

\* Every call of the remote port.
LEMMA RemotePortGood == ASSUME IInv, RemotePort PROVE StepOK
  <1>1. PICK op \in Ops :
        \/ Inspect(op)
        \/ RemoteClaim(op)
        \/ RemoteClaimReplay(op)
        \/ \E prior \in Ops : RemoteRestore(op, prior)
        \/ RemoteActivate(op)
        \/ RemoteReconcile(op)
        \/ \E att \in Attempts :
            \/ \E kind \in {"resumable", "manual"} : RemoteInterrupt(op, att, kind)
            \/ RemoteResume(op, att)
            \/ RemoteRetry(op, att)
            \/ RemoteComplete(op, att)
            \/ RemoteCompleteReview(op, att)
            \/ \E outcome \in {"failed", "cancelled"} : RemoteFail(op, att, outcome)
    BY DEF RemotePort
  <1>2. ASSUME Inspect(op) PROVE StepOK
    BY <1>2, UnchangedGood DEF Inspect
  <1>. QED
    BY <1>1, <1>2, RemoteClaimGood, RemoteClaimReplayGood, RemoteRestoreGood, RemoteActivateGood,
       RemoteReconcileGood, RemoteInterruptGood, RemoteResumeGood, RemoteRetryGood,
       RemoteCompleteGood, RemoteCompleteReviewGood, RemoteFailGood

\* Every step.
LEMMA NextGood == ASSUME IInv, [RemoteNext]_rvars PROVE StepOK
  <1>1. CASE LoopNext
    BY <1>1, ClaimNextGood, SubmitGood DEF LoopNext
  <1>2. CASE Override
    BY <1>2, OverrideGood
  <1>3. CASE RemotePort
    BY <1>3, RemotePortGood
  <1>4. CASE UNCHANGED vars
    BY <1>4, UnchangedGood
  <1>. QED
    BY <1>1, <1>2, <1>3, <1>4 DEF RemoteNext, EditPackage, rvars

\* Every local operation, override and call of the remote port leaves state.json
\* well typed and readable, reviews with open feedback free of remote traces, and
\* the state settled: the invariant that the theorems below are read off from.
THEOREM Invariance == RemoteSpec => []IInv
  <1>1. RemoteInit => IInv
    BY InitGood DEF RemoteInit
  <1>2. IInv /\ [RemoteNext]_rvars => IInv'
    BY NextGood DEF StepOK
  <1>. QED
    BY <1>1, <1>2, PTL DEF RemoteSpec

\* The fields of state.json have the types the schema gives them, for every
\* plan, every bound and every interleaving of local work, overrides and the
\* remote port.
THEOREM TypeCorrect == RemoteSpec => []TypeOK
  <1>1. IInv => TypeOK
    BY DEF IInv, Good, FbOK, PointersOK, TypeOK
  <1>. QED
    BY <1>1, Invariance, PTL

\* Every state.json that is written can be loaded again (readState parses
\* what writeState wrote).
THEOREM Loadable == RemoteSpec => []StateReadable
  <1>1. IInv => StateReadable
    BY DEF IInv, Good, StateReadable, Readable
  <1>. QED
    BY <1>1, Invariance, PTL

\* While feedback of a review is open, no remote operation holds the review
\* or has left a receipt on it (submitFeedback relies on it).
THEOREM FeedbackOutsideRemote == RemoteSpec => []OpenFeedbackLocal
  <1>1. IInv => OpenFeedbackLocal
    BY DEF IInv, Good, Clean, OpenFeedbackLocal
  <1>. QED
    BY <1>1, Invariance, PTL

\* Loading state.json, which reconciles it with the manifest, never changes
\* what the last operation wrote.
THEOREM ReloadNeutral == RemoteSpec => []Settled
  <1>1. IInv => Settled
    BY DEF IInv
  <1>. QED
    BY <1>1, Invariance, PTL

\* Whatever calls arrive late, twice or out of order: a block changes hands
\* only while nobody owns it, a new attempt takes over only from a manual
\* interruption, and only the owning attempt leaves a receipt.
THEOREM Handover == RemoteSpec => OwnershipHandover
  <1>1. IInv /\ [RemoteNext]_rvars => [\A b \in Blocks : HandedOver(blk[b], blk'[b])]_rvars
    BY NextGood DEF StepOK
  <1>. QED
    BY <1>1, Invariance, PTL DEF RemoteSpec, OwnershipHandover
=============================================================================
