---------------------------- MODULE FeedbackProofs ----------------------------
(***************************************************************************)
(* For every plan, with remote operations or without: the feedback ids a   *)
(* review carries name envelopes of that review in the right state, and    *)
(* local work in progress can be found again through currentRefs.          *)
(*                                                                         *)
(* Both are statements about what is committed, so an action is summarised *)
(* by what it does to the links of the blocks it touches.                  *)
(***************************************************************************)
EXTENDS RemoteRuntimeProofs

\* The feedback ids of the reviews in B fit the envelopes F.
Linked(B, F) ==
    \A r \in Reviews :
        /\ B[r].activeFb # 0 => B[r].activeFb \in OpenFor(F, r)
        /\ B[r].pendingFb # 0 => F[B[r].pendingFb] = [status |-> "resolved", review |-> r]

IsLocalWork(s) == s.status = "in_progress" /\ s.owner = NoOwner

\* The local work in B is among refs, or waits for feedback in F.
Tracked(B, F, refs) ==
    \A b \in Blocks :
        IsLocalWork(B[b]) => b \in refs \/ (b \in Reviews /\ OpenFor(F, b) # {})

Links == Linked(blk, fb) /\ Tracked(blk, fb, currentRefs)

\* Traces of a remote operation appear only through the remote port.
StaysClean == \A b \in Blocks : Clean(blk[b]) => Clean(blk'[b])

\* The two properties say of the current state what Links says.
LEMMA LinksMeaning == Links <=> FeedbackPointers /\ LocalWorkTracked
  BY DEF Links, Linked, Tracked, IsLocalWork, FeedbackPointers, LocalWorkTracked, LocalWork

\* What is committed keeps everything but the status of planned and ready blocks.
LEMMA CommittedBlock ==
    ASSUME NEW B \in [Blocks -> BlockStates], NEW F, NEW refs, NEW feedback, NEW review,
           Commit(B, F, refs, feedback, review), NEW b \in Blocks
    PROVE  /\ \A x \in {"in_progress", "completed", "blocked", "diverged"} :
                blk'[b].status = x <=> B[b].status = x
           /\ blk'[b].owner = B[b].owner
           /\ blk'[b].intr = B[b].intr
           /\ blk'[b].receipt = B[b].receipt
           /\ blk'[b].run = B[b].run
           /\ blk'[b].activeFb = B[b].activeFb
           /\ blk'[b].pendingFb = B[b].pendingFb
           /\ blk'[b].reason = B[b].reason
           /\ blk'[b].passedRev = B[b].passedRev
  <1>1. DerivedStatus(B, F, b) \in {"planned", "ready"}
    BY DEF DerivedStatus
  <1>2. B[b] \in BlockStates /\ blk' = Reconciled(B, F)
    BY DEF Commit
  <1>. QED
    BY <1>1, <1>2 DEF Reconciled, BlockStates

\* It is enough to look at what is committed.
LEMMA CommitLinks ==
    ASSUME NEW B \in [Blocks -> BlockStates], NEW F, NEW refs, NEW feedback, NEW review,
           Commit(B, F, refs, feedback, review), Linked(B, F), Tracked(B, F, refs)
    PROVE  Links'
  <1>1. fb' = F /\ currentRefs' = refs
    BY DEF Commit
  <1>2. \A r \in Reviews : blk'[r].activeFb = B[r].activeFb /\ blk'[r].pendingFb = B[r].pendingFb
    BY CommittedBlock, GraphAssumption
  <1>3. \A b \in Blocks : IsLocalWork(blk'[b]) <=> IsLocalWork(B[b])
    BY CommittedBlock DEF IsLocalWork
  <1>4. Linked(blk', fb')
    BY <1>1, <1>2 DEF Linked
  <1>5. Tracked(blk', fb', currentRefs')
    BY <1>1, <1>3 DEF Tracked
  <1>. QED
    BY <1>4, <1>5 DEF Links

\* Clean blocks that are committed clean stay so.
LEMMA CommitClean ==
    ASSUME NEW B \in [Blocks -> BlockStates], NEW F, NEW refs, NEW feedback, NEW review,
           Commit(B, F, refs, feedback, review),
           \A b \in Blocks : Clean(blk[b]) => Clean(B[b])
    PROVE  StaysClean
  BY CommittedBlock DEF StaysClean, Clean

\* The common case: one block changes, the feedback does not.  The block loses
\* links at most; if it is local work it is in currentRefs, or was as it is.
LEMMA LinkStep ==
    ASSUME IInv, Links, NEW b \in Blocks, NEW s \in BlockStates,
           s.activeFb \in {blk[b].activeFb, 0}, s.pendingFb \in {blk[b].pendingFb, 0},
           NEW refs, currentRefs \ {b} \subseteq refs,
           IsLocalWork(s) => b \in refs \/ (IsLocalWork(blk[b]) /\ currentRefs \subseteq refs),
           NEW feedback, NEW review, Commit(With(b, s), fb, refs, feedback, review)
    PROVE  Links' /\ ((Clean(blk[b]) => Clean(s)) => StaysClean)
  <1>1. With(b, s) \in [Blocks -> BlockStates]
    BY DEF IInv, Good, With
  <1>2. With(b, s)[b] = s /\ \A c \in Blocks : c # b => With(b, s)[c] = blk[c]
    BY DEF IInv, Good, With
  <1>3. Linked(With(b, s), fb)
    <2>. SUFFICES ASSUME NEW r \in Reviews
                  PROVE  LET t == With(b, s)[r]
                         IN  /\ t.activeFb # 0 => t.activeFb \in OpenFor(fb, r)
                             /\ t.pendingFb # 0 =>
                                    fb[t.pendingFb] = [status |-> "resolved", review |-> r]
      BY DEF Linked
    <2>1. /\ blk[r].activeFb # 0 => blk[r].activeFb \in OpenFor(fb, r)
          /\ blk[r].pendingFb # 0 =>
                fb[blk[r].pendingFb] = [status |-> "resolved", review |-> r]
      BY DEF Links, Linked
    <2>2. CASE r = b
      BY <1>2, <2>1, <2>2
    <2>3. CASE r # b
      BY <1>2, <2>1, <2>3, GraphAssumption
    <2>. QED
      BY <2>2, <2>3
  <1>4. Tracked(With(b, s), fb, refs)
    BY <1>2 DEF Links, Tracked
  <1>5. Links'
    BY <1>1, <1>3, <1>4, CommitLinks
  <1>6. (Clean(blk[b]) => Clean(s)) => StaysClean
    BY <1>1, <1>2, CommitClean
  <1>. QED
    BY <1>5, <1>6

-----------------------------------------------------------------------------
(* Claims. *)

\* Claiming changes statuses only; the claimed blocks must be referenced.
LEMMA ClaimedLinks ==
    ASSUME IInv, Links, NEW claims \in SUBSET Blocks, NEW refs, claims \subseteq refs,
           \A b \in Blocks : IsLocalWork(blk[b]) /\ b \in currentRefs => b \in refs,
           NEW feedback, NEW review, Commit(Claimed(claims), fb, refs, feedback, review)
    PROVE  Links' /\ StaysClean
  <1>. DEFINE B == Claimed(claims)
  <1>1. ASSUME NEW b \in Blocks
        PROVE  /\ B[b] \in BlockStates
               /\ B[b].activeFb = blk[b].activeFb
               /\ B[b].pendingFb = blk[b].pendingFb
               /\ B[b].owner = blk[b].owner
               /\ b \notin claims => B[b] = blk[b]
               /\ Clean(blk[b]) => Clean(B[b])
    BY <1>1, BlockTyped DEF Claimed, BlockStates, Statuses, Clean
  <1>2. B \in [Blocks -> BlockStates]
    BY <1>1 DEF Claimed
  <1>. HIDE DEF B
  <1>3. Linked(B, fb)
    BY <1>1, GraphAssumption DEF Links, Linked
  <1>4. Tracked(B, fb, refs)
    BY <1>1 DEF Links, Tracked
  <1>5. Commit(B, fb, refs, feedback, review)
    BY DEF B
  <1>6. Links'
    BY <1>2, <1>3, <1>4, <1>5, CommitLinks
  <1>7. StaysClean
    BY <1>1, <1>2, <1>5, CommitClean
  <1>. QED
    BY <1>6, <1>7

\* Claiming feedback: its envelope stays open, so its review keeps its place.
LEMMA ClaimFeedbackLinks ==
    ASSUME IInv, Links, NEW scope, ClaimFeedback(scope)
    PROVE  Links' /\ StaysClean
  <1>1. PICK i \in Active(fb) :
            Commit(blk, [fb EXCEPT ![i].status = "in_progress"],
                   currentRefs \ {fb[i].review}, i, fb[i].review)
    BY DEF ClaimFeedback
  <1>. DEFINE F == [fb EXCEPT ![i].status = "in_progress"]
  <1>2. i \in FbIds /\ fb \in [FbIds -> FbStates] /\ blk \in [Blocks -> BlockStates]
    BY ActiveType DEF IInv, Good, FbOK
  <1>3. ASSUME NEW j \in FbIds
        PROVE  /\ F[j].review = fb[j].review
               /\ j # i => F[j] = fb[j]
               /\ j \in Active(F) <=> j \in Active(fb)
    BY <1>2, <1>3 DEF FbStates, Active
  <1>4. \A r : OpenFor(F, r) = OpenFor(fb, r)
    <2>1. Active(F) \subseteq FbIds /\ Active(fb) \subseteq FbIds
      BY <1>2 DEF Active
    <2>. HIDE DEF F
    <2>. QED
      BY <1>3, <2>1 DEF OpenFor
  <1>5. Linked(blk, F)
    <2>. HIDE DEF F
    <2>. SUFFICES ASSUME NEW r \in Reviews, blk[r].pendingFb # 0
                  PROVE  F[blk[r].pendingFb] = [status |-> "resolved", review |-> r]
      BY <1>4 DEF Links, Linked
    <2>1. blk[r].pendingFb \in FbIds
      BY <1>2, GraphAssumption, RuntimeAssumption DEF BlockStates, FbIds
    <2>2. fb[blk[r].pendingFb] = [status |-> "resolved", review |-> r]
      BY DEF Links, Linked
    <2>3. fb[i].status # "resolved"
      BY <1>1 DEF Active
    <2>. QED
      BY <1>3, <2>1, <2>2, <2>3 DEF Links, Linked
  <1>6. Tracked(blk, F, currentRefs \ {fb[i].review})
    <2>1. i \in OpenFor(fb, fb[i].review) /\ fb[i].review \in Reviews
      BY <1>1, ActiveType DEF OpenFor, IInv, Good
    <2>. HIDE DEF F
    <2>. QED
      BY <1>4, <2>1 DEF Links, Tracked
  <1>7. Commit(blk, F, currentRefs \ {fb[i].review}, i, fb[i].review)
    BY <1>1
  <1>. HIDE DEF F
  <1>. QED
    BY <1>2, <1>5, <1>6, <1>7, CommitLinks, CommitClean

\* Resuming a review puts it into currentRefs.
LEMMA ResumeReviewLinks ==
    ASSUME IInv, Links, NEW scope, ResumeReview(scope)
    PROVE  Links' /\ StaysClean
  <1>1. PICK r \in Earliest(LocalWork \cap Reviews) :
            Commit(With(r, [blk[r] EXCEPT !.pendingFb = 0]), fb,
                   currentRefs \cup {r}, currentFeedback, r)
    BY DEF ResumeReview
  <1>2. r \in Blocks /\ blk[r] \in BlockStates
    BY BlockTyped DEF Earliest, LocalWork
  <1>. DEFINE s == [blk[r] EXCEPT !.pendingFb = 0]
  <1>3. /\ s \in BlockStates /\ s.activeFb = blk[r].activeFb /\ s.pendingFb = 0
        /\ Clean(blk[r]) => Clean(s)
    BY <1>2, RuntimeAssumption DEF BlockStates, Clean
  <1>4. Commit(With(r, s), fb, currentRefs \cup {r}, currentFeedback, r)
    BY <1>1
  <1>. HIDE DEF s
  <1>. QED
    BY <1>2, <1>3, <1>4, LinkStep

\* Every form of claim.
LEMMA ClaimNextLinks == ASSUME IInv, Links, ClaimNext PROVE Links' /\ StaysClean
  <1>1. ASSUME NEW scope \in Scopes PROVE scope \in SUBSET Blocks
    BY <1>1 DEF Scopes, ScopeBases
  <1>2. ASSUME NEW scope \in SUBSET Blocks, ClaimSequential(scope) PROVE Links' /\ StaysClean
    <2>1. PICK b \in Blocks :
              Commit(Claimed({b}), fb, {b}, currentFeedback, ReviewPointer({b}))
      BY <1>2 DEF ClaimSequential, Earliest
    <2>2. \A c \in Blocks : ~IsLocalWork(blk[c])
      BY <1>2 DEF ClaimSequential, LocalWork, IsLocalWork
    <2>. QED
      BY <2>1, <2>2, ClaimedLinks
  <1>3. ASSUME NEW scope \in SUBSET Blocks, ClaimParallel(scope) PROVE Links' /\ StaysClean
    <2>. DEFINE reviews == {r \in scope \cap Reviews : Ready(r)}
    <2>1. PICK sel \in SUBSET (scope \ Reviews) :
              LET claims == IF sel # {} THEN sel \cup BatchReview(sel, scope)
                                        ELSE Earliest(reviews)
              IN  Commit(Claimed(claims), fb, LiveRefs \cup claims, currentFeedback,
                         ReviewPointer(claims))
      BY <1>3 DEF ClaimParallel
    <2>. DEFINE claims == IF sel # {} THEN sel \cup BatchReview(sel, scope)
                                      ELSE Earliest(reviews)
    <2>2. claims \in SUBSET Blocks
      BY <1>3, <2>1 DEF BatchReview, Earliest
    <2>3. Commit(Claimed(claims), fb, LiveRefs \cup claims, currentFeedback,
                 ReviewPointer(claims))
      BY <2>1
    <2>. HIDE DEF claims
    <2>4. \A b \in Blocks : IsLocalWork(blk[b]) /\ b \in currentRefs => b \in LiveRefs \cup claims
      BY DEF IsLocalWork, LiveRefs
    <2>. QED
      BY <2>2, <2>3, <2>4, ClaimedLinks
  <1>4. ASSUME NEW b \in Blocks, ClaimDispatched(b) PROVE Links' /\ StaysClean
    BY <1>4, ClaimedLinks DEF ClaimDispatched
  <1>. QED
    BY <1>1, <1>2, <1>3, <1>4, ClaimFeedbackLinks, ResumeReviewLinks DEF ClaimNext

-----------------------------------------------------------------------------
(* Submissions. *)

\* Leaving the remote lifecycle does not touch the feedback ids.
LEMMA WithoutLinks ==
    ASSUME NEW s \in BlockStates, NEW status
    PROVE  /\ Without(s, status).activeFb = s.activeFb
           /\ Without(s, status).pendingFb = s.pendingFb
  BY DEF Without, Cleared, BlockStates

\* A local implementation result.
LEMMA SubmitResultLinks ==
    ASSUME IInv, Links, NEW b \in Blocks, SubmitResult(b)
    PROVE  Links' /\ StaysClean
  <1>. DEFINE w == Without(blk[b], "completed")
              s == [w EXCEPT !.run = @ + 1]
  <1>1. /\ w \in BlockStates /\ Clean(w) /\ w.run = blk[b].run /\ w.status = "completed"
        /\ w.activeFb = blk[b].activeFb /\ w.pendingFb = blk[b].pendingFb
    BY BlockTyped, WithoutGood, WithoutLinks DEF Statuses
  <1>2. blk[b].run + 1 \in 0..MaxRuns
    BY BlockTyped, RuntimeAssumption DEF SubmitResult, BlockStates
  <1>3. Commit(With(b, s), fb, currentRefs \ {b}, currentFeedback, currentReview)
    BY DEF SubmitResult
  <1>. HIDE DEF w
  <1>4. /\ s \in BlockStates /\ Clean(s) /\ s.status = "completed"
        /\ s.activeFb = blk[b].activeFb /\ s.pendingFb = blk[b].pendingFb
    BY <1>1, <1>2 DEF BlockStates, Clean
  <1>. HIDE DEF s
  <1>. QED
    BY <1>3, <1>4, LinkStep DEF IsLocalWork

\* Sealing leaves status and feedback ids alone.
LEMMA SealedLinks ==
    ASSUME NEW s \in BlockStates, NEW owner
    PROVE  /\ Sealed(s, owner).status = s.status
           /\ Sealed(s, owner).activeFb = s.activeFb
           /\ Sealed(s, owner).pendingFb = s.pendingFb
           /\ Sealed(s, owner).reason = s.reason
           /\ Sealed(s, owner).passedRev = s.passedRev
           /\ Sealed(s, owner).run = s.run
  BY DEF Sealed, Cleared, BlockStates

\* A review whose result is in has no feedback id but a new active one.
LEMMA ReviewedLinks ==
    ASSUME IInv, NEW r \in Blocks, NEW status
    PROVE  Reviewed(r, status).activeFb = 0 /\ Reviewed(r, status).pendingFb = 0
  BY BlockTyped DEF Reviewed, BlockStates

\* The outcomes that leave the feedback alone.
LEMMA ReviewEndsLinks ==
    ASSUME IInv, Links, NEW r \in Reviews, NEW owner, Submits(r, owner), blk[r].run < MaxRuns,
           ReviewPassed(r, owner) \/ ReviewExhausted(r, owner) \/ ReviewHookFailed(r, owner)
    PROVE  Links' /\ StaysClean
  <1>1. r \in Blocks
    BY GraphAssumption
  <1>2. ASSUME NEW status \in {"completed", "blocked"}, NEW v, v = Reviewed(r, status),
               NEW s \in BlockStates, s.status = status, s.owner = v.owner, s.intr = v.intr,
               s.receipt = v.receipt, s.activeFb = v.activeFb, s.pendingFb = v.pendingFb,
               NEW review,
               Commit(With(r, Sealed(s, owner)), fb, currentRefs \ {r}, currentFeedback, review)
        PROVE  Links' /\ StaysClean
    <2>1. /\ v.owner = blk[r].owner /\ v.intr = blk[r].intr /\ v.receipt = blk[r].receipt
          /\ v.activeFb = 0 /\ v.pendingFb = 0
      BY <1>1, <1>2, ReviewedGood, ReviewedLinks
    <2>2. Sealed(s, owner) \in BlockStates /\ (Clean(blk[r]) => Clean(Sealed(s, owner)))
      BY <1>1, <1>2, <2>1, SealedGood DEF Submits
    <2>3. /\ Sealed(s, owner).status = status
          /\ Sealed(s, owner).activeFb = 0
          /\ Sealed(s, owner).pendingFb = 0
      BY <1>2, <2>1, SealedLinks
    <2>. QED
      BY <1>1, <1>2, <2>2, <2>3, LinkStep DEF IsLocalWork
  <1>. DEFINE v == Reviewed(r, "completed")
  <1>3. v \in BlockStates /\ v.status = "completed"
    BY <1>1, ReviewedGood
  <1>4. CASE ReviewPassed(r, owner)
    <2>. DEFINE s == [v EXCEPT !.reason = "passed", !.passedRev = {WorkRevision(r)}]
    <2>1. Commit(With(r, Sealed(s, owner)), fb, currentRefs \ {r}, currentFeedback, NotReview(r))
      BY <1>4 DEF ReviewPassed
    <2>2. v = Reviewed(r, "completed")
      OBVIOUS
    <2>3. {WorkRevision(r)} \in SUBSET Revisions
      BY WorkRevisionType
    <2>. HIDE DEF v
    <2>4. /\ s \in BlockStates /\ s.status = "completed" /\ s.owner = v.owner
          /\ s.intr = v.intr /\ s.receipt = v.receipt /\ s.activeFb = v.activeFb
          /\ s.pendingFb = v.pendingFb
      BY <1>3, <2>3 DEF BlockStates
    <2>. HIDE DEF s
    <2>. QED
      BY <1>2, <2>1, <2>2, <2>4
  <1>5. CASE ReviewExhausted(r, owner)
    <2>. DEFINE s == [v EXCEPT !.reason = "max_cycles_reached"]
    <2>1. Commit(With(r, Sealed(s, owner)), fb, currentRefs \ {r}, currentFeedback, NotReview(r))
      BY <1>5 DEF ReviewExhausted
    <2>2. v = Reviewed(r, "completed")
      OBVIOUS
    <2>. HIDE DEF v
    <2>3. /\ s \in BlockStates /\ s.status = "completed" /\ s.owner = v.owner
          /\ s.intr = v.intr /\ s.receipt = v.receipt /\ s.activeFb = v.activeFb
          /\ s.pendingFb = v.pendingFb
      BY <1>3 DEF BlockStates
    <2>. HIDE DEF s
    <2>. QED
      BY <1>2, <2>1, <2>2, <2>3
  <1>6. CASE ReviewHookFailed(r, owner)
    BY <1>1, <1>2, <1>6, ReviewedGood DEF ReviewHookFailed
  <1>. QED
    BY <1>4, <1>5, <1>6

\* A verdict that opens an envelope: nothing pointed to it before, and its
\* review leaves currentRefs to wait for it.
LEMMA ReviewNeedsChangesLinks ==
    ASSUME IInv, Links, NEW r \in Reviews, NEW owner, Submits(r, owner), blk[r].run < MaxRuns,
           ReviewNeedsChanges(r, owner)
    PROVE  Links' /\ StaysClean
  <1>. DEFINE v == Reviewed(r, "in_progress")
  <1>1. r \in Blocks
    BY GraphAssumption
  <1>2. PICK i \in FbIds :
            /\ fb[i].status = "none"
            /\ Commit(With(r, Sealed([v EXCEPT !.activeFb = i], owner)),
                      [fb EXCEPT ![i] = [status |-> "open", review |-> r]],
                      currentRefs \ {r}, i, r)
    BY DEF ReviewNeedsChanges
  <1>. DEFINE s == [v EXCEPT !.activeFb = i]
              B == With(r, Sealed(s, owner))
              F == [fb EXCEPT ![i] = [status |-> "open", review |-> r]]
  <1>3. /\ v \in BlockStates /\ v.status = "in_progress" /\ v.owner = blk[r].owner
        /\ v.intr = blk[r].intr /\ v.receipt = blk[r].receipt
        /\ v.pendingFb = 0
    BY <1>1, ReviewedGood, ReviewedLinks
  <1>4. i \in 0..MaxFeedback
    BY RuntimeAssumption DEF FbIds
  <1>5. /\ s \in BlockStates
        /\ s.status = "in_progress" /\ s.owner = blk[r].owner
        /\ s.intr = blk[r].intr /\ s.receipt = blk[r].receipt
        /\ s.activeFb = i /\ s.pendingFb = 0
    <2>. HIDE DEF v
    <2>. QED
      BY <1>3, <1>4 DEF BlockStates
  <1>6. Commit(B, F, currentRefs \ {r}, i, r)
    BY <1>2
  <1>. HIDE DEF s
  <1>7. /\ Sealed(s, owner) \in BlockStates /\ Clean(Sealed(s, owner))
        /\ Sealed(s, owner).activeFb = i /\ Sealed(s, owner).pendingFb = 0
    BY <1>1, <1>5, SealedGood, SealedLinks DEF Submits
  <1>8. /\ B \in [Blocks -> BlockStates] /\ B[r] = Sealed(s, owner)
        /\ \A c \in Blocks : c # r => B[c] = blk[c]
    BY <1>1, <1>7 DEF IInv, Good, With
  <1>9. /\ F[i] = [status |-> "open", review |-> r]
        /\ \A j \in FbIds : j # i => F[j] = fb[j]
        /\ DOMAIN F = FbIds /\ DOMAIN fb = FbIds
    BY DEF IInv, Good, FbOK
  <1>. HIDE DEF B, F
  <1>10. i \notin Active(fb) /\ i \in OpenFor(F, r)
    BY <1>2, <1>9 DEF Active, OpenFor
  <1>11. ASSUME NEW c PROVE OpenFor(fb, c) \subseteq OpenFor(F, c)
    BY <1>9, <1>10 DEF Active, OpenFor
  <1>12. Linked(B, F)
    <2>. SUFFICES ASSUME NEW q \in Reviews
                  PROVE  /\ B[q].activeFb # 0 => B[q].activeFb \in OpenFor(F, q)
                         /\ B[q].pendingFb # 0 =>
                                F[B[q].pendingFb] = [status |-> "resolved", review |-> q]
      BY DEF Linked
    <2>1. CASE q = r
      BY <1>7, <1>8, <1>10, <2>1
    <2>2. CASE q # r
      <3>1. B[q] = blk[q] /\ blk[q] \in BlockStates
        BY <1>8, <2>2, GraphAssumption, BlockTyped
      <3>2. blk[q].activeFb # 0 => blk[q].activeFb \in OpenFor(F, q)
        BY <1>11 DEF Links, Linked
      <3>3. ASSUME blk[q].pendingFb # 0
            PROVE  F[blk[q].pendingFb] = [status |-> "resolved", review |-> q]
        <4>1. fb[blk[q].pendingFb] = [status |-> "resolved", review |-> q]
          BY <3>3 DEF Links, Linked
        <4>2. blk[q].pendingFb \in FbIds
          BY <3>1, <3>3, RuntimeAssumption DEF BlockStates, FbIds
        <4>. QED
          BY <1>2, <1>9, <4>1, <4>2
      <3>. QED
        BY <3>1, <3>2, <3>3
    <2>. QED
      BY <2>1, <2>2
  <1>13. Tracked(B, F, currentRefs \ {r})
    BY <1>8, <1>10, <1>11 DEF Links, Tracked
  <1>14. \A b \in Blocks : Clean(blk[b]) => Clean(B[b])
    BY <1>7, <1>8
  <1>. QED
    BY <1>6, <1>8, <1>12, <1>13, <1>14, CommitLinks, CommitClean

\* Every outcome of a review result, local or remote.
LEMMA ReviewOutcomeLinks ==
    ASSUME IInv, Links, NEW r \in Reviews, NEW owner, Submits(r, owner), ReviewOutcome(r, owner)
    PROVE  Links' /\ StaysClean
  BY ReviewEndsLinks, ReviewNeedsChangesLinks DEF ReviewOutcome

\* Answering feedback: the envelope that is answered was the review's own, so
\* no other review pointed to it as active.
LEMMA SubmitFeedbackLinks == ASSUME IInv, Links, SubmitFeedback PROVE Links' /\ StaysClean
  <1>. DEFINE i == currentFeedback
              r == fb[i].review
              s == [blk[r] EXCEPT !.status = "in_progress", !.activeFb = 0, !.pendingFb = i]
              F == [fb EXCEPT ![i].status = "resolved"]
              B == With(r, s)
  <1>1. i \in Active(fb)
    BY DEF SubmitFeedback, IInv, Settled
  <1>2. i \in FbIds /\ r \in Reviews /\ r \in Blocks /\ fb \in [FbIds -> FbStates]
    BY <1>1, ActiveType DEF IInv, Good, FbOK
  <1>3. Commit(B, F, currentRefs \cup {r}, 0, r)
    BY DEF SubmitFeedback
  <1>4. blk[r] \in BlockStates /\ i \in 0..MaxFeedback /\ 0 \in 0..MaxFeedback
    BY <1>2, BlockTyped, RuntimeAssumption DEF FbIds
  <1>5. /\ s \in BlockStates /\ s.activeFb = 0 /\ s.pendingFb = i
        /\ Clean(blk[r]) => Clean(s)
    <2>. HIDE DEF r, i
    <2>. QED
      BY <1>4 DEF BlockStates, Statuses, Clean
  <1>6. /\ F[i] = [status |-> "resolved", review |-> r]
        /\ \A j \in FbIds : j # i => F[j] = fb[j]
        /\ DOMAIN F = FbIds /\ DOMAIN fb = FbIds
    <2>1. fb[i] \in FbStates
      BY <1>2
    <2>. QED
      BY <1>2, <2>1 DEF FbStates
  <1>. HIDE DEF s, F
  <1>7. /\ B \in [Blocks -> BlockStates] /\ B[r] = s
        /\ \A c \in Blocks : c # r => B[c] = blk[c]
    BY <1>2, <1>5 DEF IInv, Good, With
  <1>. HIDE DEF B
  <1>8. ASSUME NEW c, c # r PROVE OpenFor(fb, c) = OpenFor(F, c)
    BY <1>2, <1>6, <1>8 DEF Active, OpenFor
  <1>9. Linked(B, F)
    <2>. SUFFICES ASSUME NEW q \in Reviews
                  PROVE  /\ B[q].activeFb # 0 => B[q].activeFb \in OpenFor(F, q)
                         /\ B[q].pendingFb # 0 =>
                                F[B[q].pendingFb] = [status |-> "resolved", review |-> q]
      BY DEF Linked
    <2>1. CASE q = r
      BY <1>5, <1>6, <1>7, <2>1
    <2>2. CASE q # r
      <3>1. B[q] = blk[q] /\ blk[q] \in BlockStates
        BY <1>7, <2>2, GraphAssumption, BlockTyped
      <3>2. blk[q].activeFb # 0 => blk[q].activeFb \in OpenFor(F, q)
        BY <1>8, <2>2 DEF Links, Linked
      <3>3. ASSUME blk[q].pendingFb # 0
            PROVE  F[blk[q].pendingFb] = [status |-> "resolved", review |-> q]
        <4>1. fb[blk[q].pendingFb] = [status |-> "resolved", review |-> q]
          BY <3>3 DEF Links, Linked
        <4>2. blk[q].pendingFb \in FbIds
          BY <3>1, <3>3, RuntimeAssumption DEF BlockStates, FbIds
        <4>3. fb[i].status # "resolved"
          BY <1>1 DEF Active
        <4>. QED
          BY <1>6, <4>1, <4>2, <4>3
      <3>. QED
        BY <3>1, <3>2, <3>3
    <2>. QED
      BY <2>1, <2>2
  <1>10. Tracked(B, F, currentRefs \cup {r})
    BY <1>7, <1>8 DEF Links, Tracked
  <1>11. \A b \in Blocks : Clean(blk[b]) => Clean(B[b])
    BY <1>5, <1>7
  <1>. QED
    BY <1>3, <1>7, <1>9, <1>10, <1>11, CommitLinks, CommitClean

\* Every local submission.
LEMMA SubmitLinks == ASSUME IInv, Links, Submit PROVE Links' /\ StaysClean
  BY SubmitResultLinks, SubmitFeedbackLinks, ReviewOutcomeLinks DEF Submit, SubmitReview, Submits

-----------------------------------------------------------------------------
(* Operator overrides. *)

\* Starting a review over takes its feedback ids away.
LEMMA ResetReviewLinks ==
    ASSUME NEW s \in BlockStates
    PROVE  /\ ResetReview(s).activeFb = 0
           /\ ResetReview(s).pendingFb = 0
           /\ ResetReview(s).status = s.status
           /\ ResetReview(s).run = s.run
  BY DEF ResetReview, BlockStates

\* An override that takes the block out of the remote lifecycle, and of work.
LEMMA WithoutLinkStep ==
    ASSUME IInv, Links, NEW b \in Blocks, NEW status \in Statuses \ {"in_progress"},
           NEW s, s = Without(blk[b], status) \/ s = ResetReview(Without(blk[b], status)),
           NEW refs, currentRefs \ {b} \subseteq refs, NEW feedback, NEW review,
           Commit(With(b, s), fb, refs, feedback, review)
    PROVE  Links' /\ StaysClean
  <1>. DEFINE w == Without(blk[b], status)
  <1>1. /\ w \in BlockStates /\ Clean(w) /\ w.status = status
        /\ w.activeFb = blk[b].activeFb /\ w.pendingFb = blk[b].pendingFb
    BY BlockTyped, WithoutGood, WithoutLinks
  <1>2. s = w \/ s = ResetReview(w)
    OBVIOUS
  <1>. HIDE DEF w
  <1>3. /\ s \in BlockStates /\ Clean(s) /\ s.status = status
        /\ s.activeFb \in {blk[b].activeFb, 0} /\ s.pendingFb \in {blk[b].pendingFb, 0}
    BY <1>1, <1>2, ResetReviewGood, ResetReviewLinks
  <1>. QED
    BY <1>3, LinkStep DEF IsLocalWork

\* Every override.
LEMMA OverrideLinks == ASSUME IInv, Links, Override PROVE Links' /\ StaysClean
  <1>1. PICK b \in Blocks : \/ MarkBlocked(b) \/ MarkDiverged(b) \/ Unblock(b)
                            \/ ReleaseInProgress(b) \/ ResolveDivergence(b)
    BY DEF Override
  <1>2. Resolved(b) \in Statuses \ {"in_progress"} /\ "blocked" \in Statuses \ {"in_progress"}
    BY DEF Resolved, Statuses
  <1>3. CASE MarkBlocked(b)
    BY <1>2, <1>3, WithoutLinkStep DEF MarkBlocked
  <1>4. CASE MarkDiverged(b)
    <2>. DEFINE k == [blk[b] EXCEPT !.status = "diverged", !.intr = "none", !.receipt = NoReceipt]
                s == IF b \in Reviews THEN ResetReview(k) ELSE k
    <2>1. /\ k \in BlockStates /\ k.status = "diverged" /\ k.activeFb = blk[b].activeFb
          /\ k.pendingFb = blk[b].pendingFb /\ (Clean(blk[b]) => Clean(k))
      BY BlockTyped, NoTraceTypes DEF BlockStates, Statuses, Clean
    <2>2. Commit(With(b, s), fb, currentRefs \ {b}, currentFeedback, currentReview)
      BY <1>4 DEF MarkDiverged
    <2>. HIDE DEF k
    <2>3. /\ s \in BlockStates /\ s.status = "diverged" /\ (Clean(blk[b]) => Clean(s))
          /\ s.activeFb \in {blk[b].activeFb, 0} /\ s.pendingFb \in {blk[b].pendingFb, 0}
      BY <2>1, ResetReviewGood, ResetReviewLinks
    <2>. HIDE DEF s
    <2>. QED
      BY <2>2, <2>3, LinkStep DEF IsLocalWork
  <1>5. CASE Unblock(b)
    BY <1>2, <1>5, WithoutLinkStep DEF Unblock
  <1>6. CASE ReleaseInProgress(b)
    BY <1>2, <1>6, WithoutLinkStep DEF ReleaseInProgress
  <1>7. CASE ResolveDivergence(b)
    <2>. DEFINE w == Without(blk[b], Resolved(b))
                s == IF b \in Reviews THEN ResetReview(w) ELSE w
    <2>1. Commit(With(b, s), fb, currentRefs, currentFeedback, currentReview)
      BY <1>7 DEF ResolveDivergence
    <2>2. s = Without(blk[b], Resolved(b)) \/ s = ResetReview(Without(blk[b], Resolved(b)))
      OBVIOUS
    <2>. HIDE DEF s
    <2>. QED
      BY <1>2, <2>1, <2>2, WithoutLinkStep
  <1>. QED
    BY <1>1, <1>3, <1>4, <1>5, <1>6, <1>7

-----------------------------------------------------------------------------
(* The remote port.  It never touches an envelope but through a review     *)
(* result, and the work it starts is not local.                            *)

\* A change of one block by its operation.
LEMMA RemoteLinkStep ==
    ASSUME IInv, Links, NEW b \in Blocks, NEW s \in BlockStates,
           s.activeFb = blk[b].activeFb, s.pendingFb \in {blk[b].pendingFb, 0},
           s.status # "in_progress" \/ s.owner # NoOwner,
           NEW refs, currentRefs \ {b} \subseteq refs, NEW feedback, NEW review,
           Commit(With(b, s), fb, refs, feedback, review)
    PROVE  Links'
  BY LinkStep DEF IsLocalWork

\* A call that finds other evidence.
LEMMA DriftedLinks ==
    ASSUME IInv, Links, NEW b \in Blocks, NEW refs, currentRefs \ {b} \subseteq refs,
           NEW feedback, NEW review, Commit(With(b, Drifted(b)), fb, refs, feedback, review)
    PROVE  Links'
  <1>1. /\ Drifted(b) \in BlockStates /\ Drifted(b).status = "diverged"
        /\ Drifted(b).activeFb = blk[b].activeFb /\ Drifted(b).pendingFb = blk[b].pendingFb
    BY BlockTyped DEF Drifted, BlockStates, Statuses
  <1>. QED
    BY <1>1, RemoteLinkStep

\* The owner of a block that is being worked on is somebody.
LEMMA OwnerIsSomebody ==
    ASSUME NEW op \in Ops, NEW phase, NEW att
    PROVE  [phase |-> phase, op |-> op, att |-> att] # NoOwner
  BY RuntimeAssumption DEF NoOwner

\* claim and its repetition.
LEMMA RemoteClaimLinks ==
    ASSUME IInv, Links, NEW op \in Ops, RemoteClaim(op) \/ RemoteClaimReplay(op)
    PROVE  Links'
  <1>. DEFINE b == Target[op]
              o == [phase |-> "preparing", op |-> op, att |-> 0]
  <1>1. b \in Blocks /\ blk[b] \in BlockStates /\ 0 \in 0..MaxFeedback
    BY TargetType, BlockTyped, RuntimeAssumption
  <1>2. CASE RemoteClaim(op)
    <2>1. Commit(With(b, Prepared(b, op)), fb, currentRefs \cup {b}, currentFeedback, ReviewRef(b))
      BY <1>2 DEF RemoteClaim
    <2>2. o \in Owners /\ o # NoOwner
      BY OwnerIsSomebody DEF Owners
    <2>. HIDE DEF b, o
    <2>3. /\ Prepared(b, op) \in BlockStates /\ Prepared(b, op).owner = o
          /\ Prepared(b, op).activeFb = blk[b].activeFb
          /\ Prepared(b, op).pendingFb \in {blk[b].pendingFb, 0}
      BY <1>1, <2>2 DEF Prepared, BlockStates, Statuses, o
    <2>. QED
      BY <1>1, <2>1, <2>2, <2>3, RemoteLinkStep
  <1>3. CASE RemoteClaimReplay(op) /\ SameAuthority(op)
    <2>1. Commit(blk, fb, currentRefs \cup {b}, currentFeedback, ReviewRef(b))
      BY <1>3 DEF RemoteClaimReplay
    <2>2. Tracked(blk, fb, currentRefs \cup {b})
      BY DEF Links, Tracked
    <2>. QED
      BY <2>1, <2>2, CommitLinks DEF Links, IInv, Good
  <1>4. CASE RemoteClaimReplay(op) /\ ~SameAuthority(op)
    BY <1>1, <1>4, DriftedLinks DEF RemoteClaimReplay, Drift
  <1>. QED
    BY <1>2, <1>3, <1>4

\* A claim that restores a stopped execution.
LEMMA RemoteRestoreLinks ==
    ASSUME IInv, Links, NEW op \in Ops, NEW prior, RemoteRestore(op, prior)
    PROVE  Links'
  <1>. DEFINE b == Target[op]
              o == [phase |-> "preparing", op |-> op, att |-> 0]
              c == [Cleared(blk[b]) EXCEPT !.status = "ready"]
              s == [c EXCEPT !.status = "in_progress", !.owner = o]
  <1>1. b \in Blocks /\ blk[b] \in BlockStates
    BY TargetType, BlockTyped
  <1>2. o \in Owners /\ o # NoOwner
    BY OwnerIsSomebody DEF Owners
  <1>3. [With(b, c) EXCEPT ![b] = [@ EXCEPT !.status = "in_progress", !.owner = o]] = With(b, s)
    <2>. HIDE DEF o, c
    <2>. QED
      BY <1>1 DEF With, IInv, Good
  <1>4. Commit(With(b, s), fb, currentRefs \cup {b}, currentFeedback, ReviewRef(b))
    BY <1>3 DEF RemoteRestore
  <1>. HIDE DEF b, o
  <1>5. /\ c \in BlockStates /\ c.activeFb = blk[b].activeFb /\ c.pendingFb = blk[b].pendingFb
    BY <1>1, NoTraceTypes DEF Cleared, BlockStates, Statuses
  <1>. HIDE DEF c
  <1>6. /\ s \in BlockStates /\ s.owner = o
        /\ s.activeFb = blk[b].activeFb /\ s.pendingFb = blk[b].pendingFb
    BY <1>2, <1>5 DEF BlockStates, Statuses
  <1>. HIDE DEF s
  <1>. QED
    BY <1>1, <1>2, <1>4, <1>6, RemoteLinkStep

\* The calls of an attempt that leave the block to its owner.
LEMMA RemoteAttemptLinks ==
    ASSUME IInv, Links, NEW op \in Ops, NEW att \in Attempts,
           \/ RemoteActivate(op)
           \/ \E kind \in {"resumable", "manual"} : RemoteInterrupt(op, att, kind)
           \/ RemoteResume(op, att)
           \/ RemoteRetry(op, att)
    PROVE  Links'
  <1>. DEFINE b == Target[op]
  <1>1. b \in Blocks /\ blk[b] \in BlockStates
    BY TargetType, BlockTyped
  <1>2. ASSUME ~SameAuthority(op) PROVE Links'
    <2>1. Drift(b)
      BY <1>2 DEF RemoteActivate, RemoteInterrupt, RemoteResume, RemoteRetry
    <2>. QED
      BY <1>1, <2>1, DriftedLinks DEF Drift
  <1>3. CASE SameAuthority(op) /\ RemoteActivate(op)
    <2>. DEFINE o == [phase |-> "active", op |-> op, att |-> 1]
                s == [blk[b] EXCEPT !.owner = o]
    <2>1. Commit(With(b, s), fb, currentRefs, currentFeedback, currentReview)
      BY <1>3 DEF RemoteActivate
    <2>2. o \in Owners /\ o # NoOwner
      BY <1>3, OwnerIsSomebody, RuntimeAssumption DEF RemoteActivate, Owners, Attempts
    <2>. HIDE DEF b, o
    <2>3. /\ s \in BlockStates /\ s.owner = o
          /\ s.activeFb = blk[b].activeFb /\ s.pendingFb = blk[b].pendingFb
      BY <1>1, <2>2 DEF BlockStates
    <2>. HIDE DEF s
    <2>. QED
      BY <1>1, <2>1, <2>2, <2>3, RemoteLinkStep
  <1>4. CASE SameAuthority(op) /\ \E kind \in {"resumable", "manual"} : RemoteInterrupt(op, att, kind)
    <2>1. PICK kind \in {"resumable", "manual"} : RemoteInterrupt(op, att, kind)
      BY <1>4
    <2>. DEFINE run == IF kind = "manual" THEN blk[b].run + 1 ELSE blk[b].run
                s == [blk[b] EXCEPT !.status = "diverged", !.intr = kind, !.run = run]
    <2>2. Commit(With(b, s), fb, currentRefs \ {b}, currentFeedback, NotReview(b)) /\ run <= MaxRuns
      BY <1>4, <2>1 DEF RemoteInterrupt
    <2>3. run \in 0..MaxRuns
      BY <1>1, <2>2, RuntimeAssumption DEF BlockStates
    <2>. HIDE DEF b, run
    <2>4. /\ s \in BlockStates /\ s.status = "diverged"
          /\ s.activeFb = blk[b].activeFb /\ s.pendingFb = blk[b].pendingFb
      BY <1>1, <2>3 DEF BlockStates, Statuses
    <2>. HIDE DEF s
    <2>. QED
      BY <1>1, <2>2, <2>4, RemoteLinkStep
  <1>5. CASE SameAuthority(op) /\ RemoteResume(op, att)
    <2>. DEFINE s == [blk[b] EXCEPT !.status = "in_progress", !.intr = "none"]
    <2>1. /\ Commit(With(b, s), fb, currentRefs, currentFeedback, currentReview)
          /\ blk[b].owner # NoOwner
      BY <1>5, OwnerIsSomebody DEF RemoteResume, Owns
    <2>. HIDE DEF b
    <2>2. /\ s \in BlockStates /\ s.owner = blk[b].owner
          /\ s.activeFb = blk[b].activeFb /\ s.pendingFb = blk[b].pendingFb
      BY <1>1 DEF BlockStates, Statuses
    <2>. HIDE DEF s
    <2>. QED
      BY <1>1, <2>1, <2>2, RemoteLinkStep
  <1>6. CASE SameAuthority(op) /\ RemoteRetry(op, att)
    <2>. DEFINE o == [blk[b].owner EXCEPT !.att = att + 1]
                s == [blk[b] EXCEPT !.status = "in_progress", !.intr = "none", !.owner = o]
    <2>1. [blk[b] EXCEPT !.status = "in_progress", !.intr = "none", !.owner.att = att + 1] = s
      BY <1>1 DEF BlockStates
    <2>2. Commit(With(b, s), fb, currentRefs, currentFeedback, currentReview)
      BY <1>6, <2>1 DEF RemoteRetry
    <2>3. /\ blk[b].owner = [phase |-> "active", op |-> op, att |-> att]
          /\ att + 1 \in Attempts
      BY <1>6, RuntimeAssumption DEF RemoteRetry, Owns, Attempts
    <2>4. o = [phase |-> "active", op |-> op, att |-> att + 1]
      BY <2>3
    <2>5. o \in Owners /\ o # NoOwner
      BY <2>3, <2>4, OwnerIsSomebody DEF Owners
    <2>. HIDE DEF b, o
    <2>6. /\ s \in BlockStates /\ s.owner = o
          /\ s.activeFb = blk[b].activeFb /\ s.pendingFb = blk[b].pendingFb
      BY <1>1, <2>5 DEF BlockStates, Statuses
    <2>. HIDE DEF s
    <2>. QED
      BY <1>1, <2>2, <2>5, <2>6, RemoteLinkStep
  <1>. QED
    BY <1>2, <1>3, <1>4, <1>5, <1>6

\* The calls that end an operation with a receipt.
LEMMA RemoteEndLinks ==
    ASSUME IInv, Links, NEW op \in Ops, NEW att \in Attempts,
           \/ RemoteComplete(op, att)
           \/ \E outcome \in {"failed", "cancelled"} : RemoteFail(op, att, outcome)
    PROVE  Links'
  <1>. DEFINE b == Target[op]
  <1>1. b \in Blocks /\ blk[b] \in BlockStates
    BY TargetType, BlockTyped
  <1>2. CASE ~SameAuthority(op)
    <2>1. \E refs, review : /\ currentRefs \ {b} \subseteq refs
                            /\ Commit(With(b, Drifted(b)), fb, refs, currentFeedback, review)
      BY <1>2 DEF RemoteComplete, RemoteFail, Drift
    <2>. QED
      BY <1>1, <2>1, DriftedLinks
  <1>3. CASE SameAuthority(op)
    <2>1. PICK outcome \in {"completed", "failed", "cancelled"},
               status \in {"completed", "blocked"} :
            /\ blk[b].run < MaxRuns
            /\ \E review :
                 Commit(With(b, [Without(blk[b], status) EXCEPT
                                    !.run = @ + 1,
                                    !.receipt = Receipt(outcome, op, att, blk[b].run + 1)]),
                        fb, currentRefs \ {b}, currentFeedback, review)
      BY <1>3 DEF RemoteComplete, RemoteFail
    <2>. DEFINE w == Without(blk[b], status)
                rc == Receipt(outcome, op, att, blk[b].run + 1)
                s == [w EXCEPT !.run = @ + 1, !.receipt = rc]
    <2>2. /\ w \in BlockStates /\ w.status = status /\ w.run = blk[b].run
          /\ w.activeFb = blk[b].activeFb /\ w.pendingFb = blk[b].pendingFb
      BY <1>1, WithoutGood, WithoutLinks DEF Statuses
    <2>3. blk[b].run + 1 \in 0..MaxRuns
      BY <1>1, <2>1, RuntimeAssumption DEF BlockStates
    <2>4. rc \in Receipts
      BY <2>3 DEF Receipt, Receipts
    <2>5. PICK review : Commit(With(b, s), fb, currentRefs \ {b}, currentFeedback, review)
      BY <2>1
    <2>. HIDE DEF b, w, rc
    <2>6. /\ s \in BlockStates /\ s.status = status
          /\ s.activeFb = blk[b].activeFb /\ s.pendingFb = blk[b].pendingFb
      BY <2>2, <2>3, <2>4 DEF BlockStates
    <2>. HIDE DEF s
    <2>. QED
      BY <1>1, <2>5, <2>6, RemoteLinkStep
  <1>. QED
    BY <1>2, <1>3

\* A remote review result.
LEMMA RemoteCompleteReviewLinks ==
    ASSUME IInv, Links, NEW op \in Ops, NEW att, RemoteCompleteReview(op, att)
    PROVE  Links'
  <1>1. /\ Target[op] \in Reviews
        /\ blk[Target[op]].owner = [phase |-> "active", op |-> op, att |-> att]
        /\ ReviewOutcome(Target[op], blk[Target[op]].owner)
    BY DEF RemoteCompleteReview, Owns
  <1>2. Submits(Target[op], blk[Target[op]].owner)
    BY <1>1, OwnerIsSomebody DEF Submits
  <1>. QED
    BY <1>1, <1>2, ReviewOutcomeLinks

\* Every call of the remote port.
LEMMA RemotePortLinks == ASSUME IInv, Links, RemotePort PROVE Links'
  <1>1. PICK op \in Ops :
        \/ Inspect(op)
        \/ RemoteClaim(op)
        \/ RemoteClaimReplay(op)
        \/ \E prior \in Ops : RemoteRestore(op, prior)
        \/ RemoteActivate(op)
        \/ RemoteReconcile(op)
        \/ \E att \in Attempts :
            \/ \E kind \in {"resumable", "manual"} : RemoteInterrupt(op, att, kind)
            \/ RemoteResume(op, att)
            \/ RemoteRetry(op, att)
            \/ RemoteComplete(op, att)
            \/ RemoteCompleteReview(op, att)
            \/ \E outcome \in {"failed", "cancelled"} : RemoteFail(op, att, outcome)
    BY DEF RemotePort
  <1>2. CASE Inspect(op)
    BY <1>2 DEF Inspect, vars, Links
  <1>3. CASE RemoteReconcile(op)
    BY <1>3, DriftedLinks, TargetType DEF RemoteReconcile, Drift
  <1>4. CASE RemoteActivate(op)
    <2>1. 1 \in Attempts
      BY <1>4, RuntimeAssumption DEF RemoteActivate, Attempts
    <2>. QED
      BY <1>4, <2>1, RemoteAttemptLinks
  <1>. QED
    BY <1>1, <1>2, <1>3, <1>4, RemoteClaimLinks, RemoteRestoreLinks, RemoteAttemptLinks,
       RemoteEndLinks, RemoteCompleteReviewLinks

-----------------------------------------------------------------------------
(* The review reset, on a canvas without remote operations.                *)

AllClean == \A b \in Blocks : Clean(blk[b])

\* Resetting exhausted reviews: their envelopes are pruned and they forget them.
LEMMA ResetLinks ==
    ASSUME IInv, Links, AllClean, NEW scope, ResetMaxCycleReviews(scope)
    PROVE  IInv' /\ Links' /\ StaysClean
  <1>. DEFINE reset == {r \in scope \cap Reviews : blk[r].reason = "max_cycles_reached"}
              S(b) == [ResetReview(blk[b]) EXCEPT !.status = Resolved(b)]
              B == [b \in Blocks |-> IF b \in reset THEN S(b) ELSE blk[b]]
              F == [i \in FbIds |-> IF fb[i].review \in reset
                                    THEN [fb[i] EXCEPT !.status = "pruned"] ELSE fb[i]]
              review == IF currentReview \in reset THEN NoBlock ELSE currentReview
  <1>1. Commit(B, F, currentRefs \ reset, currentFeedback, review)
    BY DEF ResetMaxCycleReviews
  <1>2. reset \subseteq Reviews
    OBVIOUS
  <1>. HIDE DEF reset
  <1>3. ASSUME NEW b \in Blocks
        PROVE  /\ S(b) \in BlockStates /\ Clean(S(b))
               /\ S(b).status \in {"planned", "ready"}
               /\ S(b).activeFb = 0 /\ S(b).pendingFb = 0
    <2>. DEFINE w == ResetReview(blk[b])
    <2>1. w \in BlockStates /\ Clean(w) /\ w.activeFb = 0 /\ w.pendingFb = 0
      BY BlockTyped, ResetReviewGood, ResetReviewLinks DEF AllClean
    <2>2. Resolved(b) \in {"planned", "ready"}
      BY DEF Resolved
    <2>. HIDE DEF w
    <2>3. [w EXCEPT !.status = Resolved(b)] \in BlockStates
      BY <2>1, <2>2 DEF BlockStates, Statuses
    <2>4. LET s == [w EXCEPT !.status = Resolved(b)]
          IN  Clean(s) /\ s.status = Resolved(b) /\ s.activeFb = 0 /\ s.pendingFb = 0
      BY <2>1 DEF BlockStates, Clean
    <2>. QED
      BY <2>2, <2>3, <2>4 DEF w
  <1>. HIDE DEF S
  <1>4. ASSUME NEW b \in Blocks
        PROVE  /\ B[b] \in BlockStates /\ Clean(B[b])
               /\ b \in reset => B[b] = S(b)
               /\ b \notin reset => B[b] = blk[b]
    BY <1>3, BlockTyped DEF AllClean
  <1>5. B \in [Blocks -> BlockStates]
    BY <1>4
  <1>6. ASSUME NEW i \in FbIds
        PROVE  /\ F[i] \in FbStates
               /\ F[i].review = fb[i].review
               /\ fb[i].review \in reset => F[i].status = "pruned"
               /\ fb[i].review \notin reset => F[i] = fb[i]
    <2>1. fb[i] \in FbStates
      BY DEF IInv, Good, FbOK
    <2>. QED
      BY <2>1 DEF FbStates
  <1>7. DOMAIN F = FbIds /\ F \in [FbIds -> FbStates] /\ DOMAIN fb = FbIds
    BY <1>6 DEF IInv, Good, FbOK
  <1>. HIDE DEF B, F
  <1>8. FbOK(F)
    <2>. SUFFICES ASSUME NEW i \in FbIds, F[i].status # "none" PROVE F[i].review \in Reviews
      BY <1>7 DEF FbOK
    <2>. QED
      BY <1>2, <1>6 DEF IInv, Good, FbOK
  <1>9. Good(B, F)
    <2>1. \A b \in Blocks : BlockReadable(B[b])
      BY <1>4, CleanReadable
    <2>2. \A i \in Active(F) : Clean(B[F[i].review])
      BY <1>4, <1>8, ActiveType
    <2>. QED
      BY <1>5, <1>8, <2>1, <2>2 DEF Good
  <1>10. PointersOK(currentRefs \ reset, currentFeedback, review)
    BY DEF IInv, PointersOK
  <1>11. \A b \in Blocks : HandedOver(blk[b], B[b])
    BY <1>4, CleanUnhanded
  <1>12. IInv'
    BY <1>1, <1>9, <1>10, <1>11, CommitGood DEF StepOK
  <1>13. ASSUME NEW q \in Reviews, q \notin reset PROVE OpenFor(F, q) = OpenFor(fb, q)
    BY <1>6, <1>7, <1>13 DEF OpenFor, Active
  <1>14. Linked(B, F)
    <2>. SUFFICES ASSUME NEW q \in Reviews
                  PROVE  /\ B[q].activeFb # 0 => B[q].activeFb \in OpenFor(F, q)
                         /\ B[q].pendingFb # 0 =>
                                F[B[q].pendingFb] = [status |-> "resolved", review |-> q]
      BY DEF Linked
    <2>1. q \in Blocks
      BY GraphAssumption
    <2>2. CASE q \in reset
      BY <1>3, <1>4, <2>1, <2>2
    <2>3. CASE q \notin reset
      <3>1. B[q] = blk[q] /\ blk[q] \in BlockStates
        BY <1>4, <2>1, <2>3, BlockTyped
      <3>2. blk[q].activeFb # 0 => blk[q].activeFb \in OpenFor(F, q)
        BY <1>13, <2>3 DEF Links, Linked
      <3>3. ASSUME blk[q].pendingFb # 0
            PROVE  F[blk[q].pendingFb] = [status |-> "resolved", review |-> q]
        <4>1. fb[blk[q].pendingFb] = [status |-> "resolved", review |-> q]
          BY <3>3 DEF Links, Linked
        <4>2. blk[q].pendingFb \in FbIds
          BY <3>1, <3>3, RuntimeAssumption DEF BlockStates, FbIds
        <4>. QED
          BY <1>6, <2>3, <4>1, <4>2
      <3>. QED
        BY <3>1, <3>2, <3>3
    <2>. QED
      BY <2>2, <2>3
  <1>15. Tracked(B, F, currentRefs \ reset)
    <2>. SUFFICES ASSUME NEW b \in Blocks, IsLocalWork(B[b])
                  PROVE  b \in currentRefs \ reset \/ (b \in Reviews /\ OpenFor(F, b) # {})
      BY DEF Tracked
    <2>1. b \notin reset /\ B[b] = blk[b]
      BY <1>3, <1>4 DEF IsLocalWork
    <2>. QED
      BY <1>13, <2>1 DEF Links, Tracked
  <1>16. Links'
    BY <1>1, <1>5, <1>14, <1>15, CommitLinks
  <1>17. StaysClean
    BY <1>1, <1>4, <1>5, CommitClean
  <1>. QED
    BY <1>12, <1>16, <1>17

-----------------------------------------------------------------------------
(* The theorems. *)

\* A new canvas has no links and no work.
LEMMA InitLinks == ASSUME Init PROVE Links /\ AllClean
  <1>. DEFINE B == [b \in Blocks |-> FreshBlock]
  <1>1. FreshBlock \in BlockStates /\ Clean(FreshBlock)
    <2>1. 0 \in 0..MaxRuns /\ 0 \in 0..MaxFeedback /\ {} \in SUBSET Revisions
      BY RuntimeAssumption
    <2>. QED
      BY <2>1, NoTraceTypes DEF FreshBlock, BlockStates, Statuses, Clean
  <1>2. FreshBlock.activeFb = 0 /\ FreshBlock.pendingFb = 0 /\ FreshBlock.status = "planned"
    BY DEF FreshBlock
  <1>3. B \in [Blocks -> BlockStates] /\ blk = Reconciled(B, fb)
    BY <1>1 DEF Init
  <1>4. \A b \in Blocks : B[b] = FreshBlock
    OBVIOUS
  <1>. HIDE DEF B
  <1>5. ASSUME NEW b \in Blocks
        PROVE  /\ blk[b].activeFb = 0 /\ blk[b].pendingFb = 0 /\ Clean(blk[b])
               /\ blk[b].status \in {"planned", "ready"}
    <2>1. DerivedStatus(B, fb, b) \in {"planned", "ready"}
      BY DEF DerivedStatus
    <2>2. /\ blk[b].activeFb = B[b].activeFb /\ blk[b].pendingFb = B[b].pendingFb
          /\ blk[b].owner = B[b].owner /\ blk[b].intr = B[b].intr
          /\ blk[b].receipt = B[b].receipt
      BY <1>3 DEF Reconciled, BlockStates
    <2>3. blk[b].status = DerivedStatus(B, fb, b)
      BY <1>2, <1>3, <1>4, ReconciledStatus
    <2>. QED
      BY <1>1, <1>2, <1>4, <2>1, <2>2, <2>3 DEF Clean
  <1>. QED
    BY <1>5, GraphAssumption DEF Links, Linked, Tracked, IsLocalWork, AllClean

\* For every plan and every interleaving of local work, overrides and the remote
\* port, however often results arrive: a review's activeFeedbackId names an open
\* envelope of its own and its pendingFeedbackId an answered one, and local work
\* in progress is in currentRefs or waits for feedback.
THEOREM RemoteLinks == RemoteSpec => [](FeedbackPointers /\ LocalWorkTracked)
  <1>1. RemoteInit => Links
    BY InitLinks DEF RemoteInit
  <1>2. IInv /\ Links /\ [RemoteNext]_rvars => Links'
    <2>. SUFFICES ASSUME IInv, Links, [RemoteNext]_rvars PROVE Links'
      OBVIOUS
    <2>1. CASE LoopNext
      BY <2>1, ClaimNextLinks, SubmitLinks DEF LoopNext
    <2>2. CASE Override
      BY <2>2, OverrideLinks
    <2>3. CASE RemotePort
      BY <2>3, RemotePortLinks
    <2>4. CASE UNCHANGED vars
      BY <2>4 DEF vars, Links
    <2>. QED
      BY <2>1, <2>2, <2>3, <2>4 DEF RemoteNext, EditPackage, rvars
  <1>3. Links => FeedbackPointers /\ LocalWorkTracked
    BY LinksMeaning
  <1>. QED
    BY <1>1, <1>2, <1>3, Invariance, PTL DEF RemoteSpec

\* The invariant of a canvas on which only local operations run.
LocalInv == IInv /\ Links /\ AllClean

\* Claims, submissions, overrides and the review reset preserve it.
LEMMA LocalStep == ASSUME LocalInv, [LocalNext]_vars PROVE LocalInv'
  <1>1. CASE LoopNext
    BY <1>1, ClaimNextLinks, SubmitLinks, ClaimNextGood, SubmitGood
       DEF LoopNext, LocalInv, StepOK, StaysClean, AllClean
  <1>2. CASE Override
    BY <1>2, OverrideLinks, OverrideGood DEF LocalInv, StepOK, StaysClean, AllClean
  <1>3. CASE \E scope \in ScopeBases : ResetMaxCycleReviews(scope)
    BY <1>3, ResetLinks DEF LocalInv, StaysClean, AllClean
  <1>4. CASE UNCHANGED vars
    BY <1>4, UnchangedGood DEF vars, LocalInv, StepOK, Links, AllClean
  <1>. QED
    BY <1>1, <1>2, <1>3, <1>4 DEF LocalNext

\* The invariant of a local canvas holds from the start.
THEOREM LocalInvariance == LocalSpec => []LocalInv
  <1>1. Init => LocalInv
    BY InitGood, InitLinks DEF LocalInv
  <1>2. LocalInv /\ [LocalNext]_vars => LocalInv'
    BY LocalStep
  <1>. QED
    BY <1>1, <1>2, PTL DEF LocalSpec

\* The same links on a local canvas, where exhausted reviews may be reset and
\* their envelopes pruned; and there the state stays well typed and readable.
THEOREM LocalLinks ==
    LocalSpec => [](TypeOK /\ Readable /\ Settled /\ FeedbackPointers /\ LocalWorkTracked)
  <1>1. LocalInv => TypeOK /\ Readable /\ Settled
    BY DEF LocalInv, IInv, Good, FbOK, PointersOK, TypeOK, Readable
  <1>2. LocalInv => FeedbackPointers /\ LocalWorkTracked
    BY LinksMeaning DEF LocalInv
  <1>. QED
    BY <1>1, <1>2, LocalInvariance, PTL

\* Everything the remote side of a canvas keeps has its type, and an operation
\* records the evidence it was inspected with once.
THEOREM RemoteTypes == RemoteSpec => []RemoteTypeOK
  <1>. DEFINE T == /\ pkg \in {0, 1}
                   /\ DOMAIN opSrc = Ops
                   /\ \A op \in Ops : \A x, y \in opSrc[op] : x = y
  <1>1. RemoteInit => T
    BY DEF RemoteInit
  <1>2. T /\ [RemoteNext]_rvars => T'
    <2>. SUFFICES ASSUME T, [RemoteNext]_rvars PROVE T'
      OBVIOUS
    <2>1. CASE SourceUnchanged
      BY <2>1 DEF SourceUnchanged
    <2>2. CASE EditPackage
      BY <2>2 DEF EditPackage
    <2>3. CASE \E op \in Ops : Inspect(op)
      BY <2>3 DEF Inspect
    <2>4. CASE \E op, prior \in Ops : RemoteRestore(op, prior)
      BY <2>4 DEF RemoteRestore
    <2>5. CASE UNCHANGED rvars
      BY <2>5 DEF rvars
    <2>6. CASE \E op \in Ops : \/ RemoteClaim(op) \/ RemoteClaimReplay(op)
                               \/ RemoteActivate(op) \/ RemoteReconcile(op)
      <3>1. SourceUnchanged
        BY <2>6 DEF RemoteClaim, RemoteClaimReplay, RemoteActivate, RemoteReconcile
      <3>. QED
        BY <2>1, <3>1
    <2>7. CASE \E op \in Ops : \E att \in Attempts :
                  \/ \E kind \in {"resumable", "manual"} : RemoteInterrupt(op, att, kind)
                  \/ RemoteResume(op, att) \/ RemoteRetry(op, att)
                  \/ RemoteComplete(op, att) \/ RemoteCompleteReview(op, att)
                  \/ \E outcome \in {"failed", "cancelled"} : RemoteFail(op, att, outcome)
      <3>1. SourceUnchanged
        BY <2>7 DEF RemoteInterrupt, RemoteResume, RemoteRetry, RemoteComplete,
                    RemoteCompleteReview, RemoteFail
      <3>. QED
        BY <2>1, <3>1
    <2>. QED
      BY <2>1, <2>2, <2>3, <2>4, <2>5, <2>6, <2>7 DEF RemoteNext, RemotePort
  <1>3. T /\ TypeOK => RemoteTypeOK
    BY DEF RemoteTypeOK
  <1>. HIDE DEF T
  <1>. QED
    BY <1>1, <1>2, <1>3, TypeCorrect, PTL DEF RemoteSpec
=============================================================================
