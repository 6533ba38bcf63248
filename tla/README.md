# PlanWeave: TLA+ verification project

PlanWeave executes a *plan package*: a graph of tasks, each made of implementation
blocks and review blocks. Agents claim blocks, work and submit; reviews pass, ask
for changes or run out of cycles; operators override; and through a coordination
server a block may be executed by an agent on another host. All of it meets in one
file per canvas, `state.json`, which many processes change under a lock.

The project models that core: what is claimable when, what a submission does, how
local work, operator overrides and remote operations interleave on the same state,
and whether the state they leave can be loaded and continued. Around it are the
server that drives a remote operation over leases, crashes and the actions of people,
and the link over which the server and the agent host exchange commands and events.
TLC checks all of it on small instances; TLAPS proves the central invariants, and that
commands and events are delivered in order and once, for every value of the constants.

## 1. Inventory

| Component | State | Operations | Hard parts |
|---|---|---|---|
| Execution graph and derived state (`runtime/src/state.ts`, `taskManager/selectors.ts`, `graph/compileTaskGraph.ts`) | none of its own; derives block status planned/ready and task status | `ensureStateForManifest`, `aggregateTaskStatus`, `refsConflict` | fixed point in manifest order with a capped number of passes |
| Runtime state file (`state.ts`, `schema/runtimeState.ts`, `taskManager/runtimeContext.ts`, `executionStateBoundary.ts`) | `currentRefs`, `currentFeedbackId`, `currentReviewBlockRef`, `blocks`, `feedback` | load, reconcile, write, under the canvas lock | validated when read, not when written |
| Claim scheduler (`claimScheduler.ts`, `claimReadiness.ts`, `claimReadinessRules.ts`, `claimBlockDispatch.ts`) | as above | `claimNext` sequential, parallel, by task, block or type; `claimDispatchedBlock` | several claim forms with different conflict checks while earlier work runs |
| Submissions and the review-feedback loop (`blockSubmission.ts`, `reviewSubmission.ts`, `feedbackSubmission.ts`) | as above, plus run, attempt and feedback artifacts on disk | `submitBlockResult`, `submitReviewResult`, `submitFeedback` | repeated results, cycle limit, hook failure, crashes between the files |
| Status overrides and review reset (`blockStatusMutations.ts`, `reviewRetry.ts`) | as above | block, diverge, unblock, release, resolve, `resetMaxCycleReviews` | at any moment, on any block, owned or not |
| Remote block port (`remoteBlockRuntime.ts`, `remoteOwnershipTransitions.ts`, `remoteBlockInspection.ts`, `remoteBlockSource*.ts`) | ownership, interruption and receipt of each block | inspect, claim, activate, reconcile, markInterrupted, resumeAttempt, retryAttempt, complete, fail | late, repeated and superseded calls; evidence that goes stale; local operations in between |
| Auto Run and run sessions (`autoRunStep.ts`, `autoRunStatus.ts`, `runSessions/`) | session records | claim, run, submit, stop, retry | stop and retry races |
| Agent runners (`autoRun/`, `process/`) | processes, connections, event logs | run, cancel, interact | shared connections, write fences |
| Package import and locks (`package/`, `fs/`) | journal of an import, lock directories | stage, commit, recover; acquire, reclaim from a dead owner, drain writers, release | crash recovery, leases whose owner died while its writers live |
| Server: operation coordinator (`server/src/remoteBlockCoordinator.ts`, `remoteBlockWritebackCoordinator.ts`, `remoteReenterRecovery.ts`, `remoteExecutionActions.ts`, `remoteBlockActionCoordinator.ts`) | operations and actions in SQLite; jobs in memory | reenter, write back, seal, reset; cancel, block, fail, resume, retry by people | two systems changed one after the other, jobs that interleave at every await, actions that outlive the server |
| Server: reservations, dispatches, leases (`hostReservations.ts`, `dispatches.ts`, `dispatchTerminalPersistence.ts`, `remoteOperations.ts`) | attempts, reservations, dispatches with fencing numbers | reserve, activate, release, resume, recover expired leases, finalize | lease expiry against late results |
| Server: host events and mailbox (`hostEvents.ts`, `mailbox.ts`, `agentHostMailboxDelivery.ts`, `wsServer.ts`) | mailbox rows, cursor, event receipts; the session's window | enqueue, deliver, acknowledge, apply an event | redelivery, order, window, half-open sockets |
| Agent host daemon (`packages/agent-host`) | inbox, outbox, executions and receipts in SQLite | receive, pump, drain, acknowledge, compact, recover at start | the other end of the mailbox |
| Server: collaboration, identity, retention; CLI, MCP, desktop; protocols | various | various | not part of the execution protocol |

Interactions. The CLI, MCP server, desktop application and Auto Run call the
runtime's operations directly; the server calls the remote port when it dispatches a
block to a host and when the host's events arrive. Each call takes the canvas lock,
so operations on `state.json` are atomic towards each other, but nothing is atomic
*across* calls: between the inspection, claim, activation and completion of one
remote operation anything else may happen, and the caller may crash, repeat or come
too late. `PROJECT.json` lists the hazards this creates, each at its line.

## 2. Modules

```
PlanGraph ── ReconcileLoop ── MCReconcileLoop
    └── TaskRuntime ── MCTaskRuntime
            └── RemoteRuntime ── MCRemoteRuntime
                    └── RemoteRuntimeProofs ── FeedbackProofs ── LoopProofs

ResultSubmission ── MCResultSubmission
    └── ResultSubmissionProofs

OrderedDelivery ┄┄ HostMailbox ── MCHostMailbox   (HostMailbox implements it, twice)
                        └── HostMailboxProofs ── HostReportsProofs

RemoteDispatch ── MCRemoteDispatch      (uses the port of RemoteRuntime and the
                                         link of HostMailbox in abstracted form)
    └── RemoteDispatchProofs ── LeaseProofs
```

**PlanGraph.** The compiled graph as constants (`Tasks`, `Blocks`, `Reviews`,
`Required`, `TaskOf`, `BlockDeps`, `TaskDeps`, `Rank`) and the rules that derive
statuses from what was done. `Reconciled(B, F)` is what `ensureStateForManifest`
makes of block states `B` and feedback `F`, stated as the fixed point it is meant to
reach: a task is implemented when it and everything it transitively depends on is
`Closed`, a planned or ready block gets `DerivedStatus`. The code aggregates in
manifest order; the peculiarity that survives is `SeedReady`: the seed pass ignores
open feedback in tasks without dependencies.

**ReconcileLoop.** The same function as the loop the code runs: seed pass, aggregate
pass, promotion passes up to `maxPromotePasses`, one task or block per step.
It justifies `Reconciled` and `TaskStatus`, which all other modules use.

**TaskRuntime.** `state.json` as variables: `blk` (per block: status, last run,
owner, interruption, receipt, feedback pointers, completion reason, passed work
revision), `fb` (envelopes), `currentRefs`, `currentFeedback`, `currentReview`. One
action is one critical section of the lock: it needs a `Readable` file, changes it
and ends in `Commit`, which is `refreshDerivedState` and `writeState`.

| Actions | Code |
|---|---|
| `ClaimFeedback`, `ResumeReview`, `ClaimSequential`, `ClaimParallel`, over a scope (project, task, block, cut down to a block type) | `claimNextUnlocked`, `buildClaimOrder` |
| `ClaimDispatched` | `claimDispatchedBlock` |
| `SubmitResult` | `submitBlockResultArtifact`, local authority |
| `SubmitReview` with `ReviewPassed`, `ReviewExhausted`, `ReviewHookFailed`, `ReviewNeedsChanges` | `submitReviewResultLocked` |
| `SubmitFeedback` | `submitFeedbackFromBytes` |
| `MarkBlocked`, `MarkDiverged`, `Unblock`, `ReleaseInProgress`, `ResolveDivergence` | `blockStatusMutations.ts` |
| `ResetMaxCycleReviews` | `resetMaxCycleReviewsUnderCanvasLock` |

Data are abstracted to what the rules compare: run and attempt ids are the numbers
1, 2, ... per block (0 is null), an envelope is its number, a work revision is the
record of runs and answers that the code hashes. The greedy choice of a parallel
batch in manifest order is the unique set `IsBatch` describes.

**RemoteRuntime.** Adds the remote port to TaskRuntime. An operation of `Ops` has a
block `Target[op]`; it records the `Evidence` it was inspected with (`opSrc`), and
every later call compares it with the evidence of the moment (`SameAuthority`; an
operation of `SnapshotOps` compares only the package). `pkg` is the version of the
package on disk, which `EditPackage` changes and changes back. The server is not
constrained: any call of any operation and attempt may come at any time, so late,
repeated and superseded calls are all included. A call that the port rejects
without writing is a stuttering step and has no action.

**ResultSubmission.** `SubmitResult` and `RemoteComplete` of the modules above are
one step on `state.json`. This module looks inside: one implementation block, its
run directories (`runs`: directory, `metadata.json` with the attempt, the promised
and the final report hash, `report.md`), its part of the task index (`index`), its
part of `state.json` (`st`) and the operation that holds the canvas lock with its next
write (`sub`). A process may die between any two writes. Attempts and remote
identities are numbers in the order they are handed out, a report is its hash.

| Actions | Code |
|---|---|
| `SubmitFromCommandLine`, `SubmitFromExecutor`, `SubmitRemote`: guards and `Resolves` | `submitBlockResultArtifact` up to its first write, `resolveSubmissionRun` |
| `Identify`, `MakeRunDirectory`, `Reserve`, `Bind`, `WriteReport`, `FinishMetadata`, `UpdateIndex` or `RecountIndex`, `CommitResult` | its writes, in order |
| `ReserveFails`, `TearReport`, `Crash` | the cleanup of a failed first write, an unfinished `report.md`, a process that dies |
| `Prepare`, `PrepareMetadata` | `prepareBlockRun` |
| `RecordRemote`, `RecordMetadata`, `PointIndex`, `EndFailed`, `EndInterrupted` | `fail` and a non-resumable `markInterrupted` |
| `ClaimLocal`, `ClaimRemote`, `InterruptRemote`, `ResumeRemote`, `RetryRemote`, `MarkBlocked`, `MarkDiverged`, `Reopen`, `Release`, `SourceDrift` | the operations of the other modules, on the fields of this one |
| `RepairState`, `RepairIndex` | `doctor --repair` |

The module does not extend TaskRuntime: of the other blocks nothing is needed, and of
this one the other fields. The claim's guard is only that the block is ready, source
drift may happen at any call of the owner. Initial states include a block an earlier
version claimed without an attempt and one it completed, which the code takes care of.

**OrderedDelivery.** The promise of one direction of the link: the sender stores
messages, the receiver applies the next one; never another, never twice.

**HostMailbox.** The link between the server and one agent host, with both databases.
On the server: `mailbox`, `ackedRows` and `recorded` (the event receipts) on disk, the
session and its window (`sentSequence`, `confirmedSequence`, `inflight`, `callbacks`) in
memory. On the host: `db` with inbox, outbox, executions and the two cursors; in memory
whether it is up, connected, welcomed, and which events are in flight. The socket is two
FIFO channels (`toHost`, `toServer`); each side may notice its end at a different time.

| Actions | Code |
|---|---|
| `EnqueueExecute`, `EnqueueCancel`, `EnqueueElsewhere` | `activate`, `enqueueCancel`, a command for another host (rowids are shared, so a host's sequences have gaps) |
| `Pump`, `Confirm` | `createAgentHostMailboxDelivery` |
| `ServerReceive` with `ServerHello`, `ServerEvent` | `wsServer.ts`, `HostEventInbox.process`, `acknowledgeSequence` |
| `HostReceive` with `HostWelcome`, `HostMessage`, `HostEventAck` | `AgentHostClient`, `receive`, `inspectMailboxReplay`, `pump`, `acknowledgeEvent`, `compactInCurrentTransaction` |
| `Connect`, `Drain`, `Finish`, `HostStart` | `connect`, `AgentHostOutboxDrain.drain`, the end of an execution, constructor and `recoverInterruptedExecutions` |
| `HostLosesSocket`, `ServerLosesSocket`, `HostCrash`, `HostCrashAfterReceive` | faults |

A row that compaction replaces by a receipt stays in its place and is marked, so the
delivered commands are the messages of the inbox, and the applied events are the
receipts of the server. When the server's welcome names a cursor other than the host's
own, the host takes it over if it can place it (`Adoptable`, `Adopt`) and stops otherwise.
The server's restart is `ServerLosesSocket`: all it loses is the
session.

**RemoteDispatch.** One remote operation from its claim in the runtime to its end. The
tables (`op`, `att`, `dis`, `res`, `act`), the server's jobs, the block in the runtime as
far as the port shows it (`rt`), the host's executions and the two channels, which here
deliver in order and once, as HostMailbox shows. A job is the maintenance sweep, the
write-back that follows a terminal event, or an action of a person. A transaction is one
step and a call of the runtime another, and after the call comes the answer: other jobs
come in between exactly where the code awaits (`Unyielding` lists the points where it
does not), a crash comes anywhere, and a reply may be lost.

| Actions | Code |
|---|---|
| `SweepStart`, `SweepDue`, `SweepAction`, `SweepAwaited`, `SweepReenters` | the maintenance timer: `recoverExpiredLeases`, `reconcile`, `reenterPending` |
| `Reenter`, `ClaimRuntime`, `ReconcileRuntime`, `Reserve`, `Prepare`, `ActivateRuntime`, `Enqueue`, `MarkRuntime`, `Persisted`, `BindingReset` | `reenter` and what it does in each state of the operation |
| `Write`, `CallComplete`, `CallFail`, `CallReject`, `Finish`, `Finalize`, `ForceFailed`, `Seal` | the write-back coordinator, forced failure and sealing |
| `Submit`, `Recover`, `ApplyCommand`, `ApplyBlock`, `ApplyFail`, `ApplyLocal`, `LocalBegins`, `LocalFails`, `Fence`, `Resume`, `TakeLease`, `Retry`, `Check`, `CompleteApplication` | the actions of people and their recovery |
| `ServerEvent` | `accepted`, `interrupted` and terminal events, `resolveCurrentLease`, `canAcceptTerminalHostResult` |
| `HostReceive`, `HostStep`, `HostExpire`, `HostRestart` | the host, as far as the server sees it |
| `Tick`, `Crash`, `CrashInResume`, `EditPackage`, `RuntimeReset` | the clock, faults, changes of the package |

The answers of the runtime are the guards of RemoteRuntime, cut down to one operation:
`Claim`, `Query`, `Activate`, `Reconcile`, `MarkInterrupted`, `ResumeAttempt`, `RetryAttempt`,
`Complete`, `Fail`. Errors are kept by the classes that `classifyReenterFailure` and the
host route tell apart, because they decide whether the operation is sealed, the sweep
goes on or the sweep ends.

**RemoteRuntimeProofs, FeedbackProofs, LoopProofs, ResultSubmissionProofs,
HostMailboxProofs, HostReportsProofs, RemoteDispatchProofs, LeaseProofs.** Theorems, see section 5.

## 3. Runs

| Run | Shows |
|---|---|
| `Loop` | Four tasks, seven blocks, any claims and submissions, a review of two cycles and one of one (73,462 states): `ConflictFree`, `ImplementationCapacity`, `LocalWorkTracked`, `ImplementedReviewed`, `WorkBehindImplemented`, `ImplementedStable`, `TypeOK`, and under fairness `EventuallyFinished` |
| `RemoteReview` | One implementation and its review, any two of three remote operations, one of them on the implementation and one from a snapshot, two attempts each, two results of a review, overrides, package edits (263,868 states): `RemoteTypeOK`, `StateReadable`, `OpenFeedbackLocal`, `FeedbackPointers`, `Settled`, `OwnershipHandover` |
| `ReconcileLoop` | The loop on 15,000 loaded states: `LoopComputesReconciled` |
| `Submission` | A result submission cut off and repeated between claims, overrides, remote attempts and repairs (357,000 states): `SubmissionTypeOK`, `OneRunPerAttempt`, `CompletedEvidence`, `RetryAccepted`, `CountsOnce`, `SubmittedFixed`, `SubmittedByItsClaim` |
| `HostMailbox` | Two dispatches with their executions and cancellations, windows of two and two faults anywhere (320,762 states): `MailboxTypeOK`, `CursorsAgree`, `AcknowledgedIsStored`, the refinements `CommandsInOrder` and `EventsInOrder`, and under fairness `EventuallySettled` |
| `RemoteDispatch` | One operation with two attempts, a runtime at the host, one action to block, fail, resume or retry, one fault (1.25 million states): `DispatchTypeOK`, `LeaseAuthority`, `CompletedIsWritten`, `WrittenAsRecorded`, `OutcomesAgree`, `StaleNeverWrites`, `AcceptedResultKept`, `TerminalIsFinal` |
| `RemoteRecovery` | One attempt with two leases, either route, cancellation, failure or resumption (268,963 states), under fairness: `AcceptedResultSettled`, `ActionsReconciled`, `ExpiredRecovered`, and again `OutcomesAgree` |
| `ThreeReviewers`, `ReviewReset`, `LateCancel`, `LateResult`, `StalePlan` | Violations, see section 6 |

Bounds. `MaxRuns` (runs or review attempts per block), `MaxFeedback` (envelopes ever
created), `MaxAttempts` (attempts per remote operation) and `MaxConcurrent` are constants;
`MaxCycles` is a function on the reviews, the `maxFeedbackCycles` of each. In `Loop` one
review has two cycles and the other one (`MCCycles`), and `MaxRuns = 7` and
`MaxFeedback = 5` are what the plan can reach with that: no guard on them ever holds a
step up. Two cycles let a review leave two open envelopes and go on to a third result,
which is the stuck state of `ThreeReviewers`; it occurs in `Loop`.

`RemoteReview` has two operations on the review and one on the implementation with two
attempts each, and two envelopes and two local attempts per block, so that a pointer to a
superseded envelope, two open ones and a completion after a retry occur. Its constraints
(`TwoOperations`, `ThreeRuns` in MCRemoteRuntime) leave out the states in which all three
operations have been used, and those in which the two blocks together have more than three
runs; the run has safety properties only, and the theorems of section 5 cover the rest.
`ReconcileLoop` uses three tasks in reverse manifest order, the worst case for the
promotion passes of three tasks.

The submission runs have three run directories, three identities and two reports: a
claim, the claim that replaces it and a remote attempt in between, each with a run and
a choice between the same report and another one. Nothing bounds the number of crashes
and repetitions.

`HostMailbox` has two dispatches and three rowids (`MaxSequence`), so that an execution,
its cancellation, a second execution and a gap in the host's sequences occur in every
order; a server window and a drain window of two (`MaxInflight`, `DrainWindow`), so that
two new commands, two acknowledgements or an acknowledgement and a report are on the wire
together; and two faults (`MaxFaults`): a reconnection that is itself cut off, or a stop of
the host between the transactions of one message followed by a lost socket. `SecondDispatch`
(MCHostMailbox) keeps the second dispatch to behaviours with one fault, and after the
first, which it is like. It holds back only the enqueueing of a command and faults, of which
fairness asks nothing, so `EventuallySettled` means what it says on the behaviours left. The
theorems hold for all windows and any number of faults.

In the two RemoteDispatch runs `MaxLeases = 2` is what a reacquisition or a resumption needs
and `MaxAttempts = 2` what a retry needs; one action meets one fault and any number of
sweeps, events and expiries. The server applies a cancellation by itself only when a fault
has kept the operation from its host, so `RemoteRecovery` admits a second fault while such a
plan is recorded (`SecondFault` in MCRemoteDispatch, a constraint on steps that are faults):
the crash, lost reply, edit or reset between the three calls. Two actions at a time or two
faults anywhere make more states than TLC finishes in a few minutes: `StalePlan` has two
actions because its counterexample needs them, the passing runs have one. (Outside the
runs `OutcomesAgree` and `StaleNeverWrites` were checked for a cancellation and a retry
with one fault, 20 million states.) The theorems of section 5 hold for any number.

`CHECK_DEADLOCK FALSE` is set in the runs of the plain loop, which ends when the
plan is done, of the reconciliation loop, which ends, of the submission, where a
completed block with all identities used up has nothing left to do, and of the mailbox
and the dispatch, where both sides rest once everything is settled.

Fairness. `FairLoopSpec` assumes that some agent keeps calling `claim-next` for the
project and that whatever was claimed is eventually submitted: weak fairness of the
three sequential claims and of each submission. That is what the documented agent
loop and Auto Run do; nothing in the runtime itself claims or submits. Which verdict
a reviewer gives is not constrained, nor how often a review is submitted to.
`EventuallyFinished` is the only property that uses this fairness.

`FairSpec` of HostMailbox: as long as something is due in the delivery's pump, the socket's
write callbacks, the two read loops, the drain with its retry timer, the client's
reconnection timer, the host's restart or a running execution (`Progress`), some of it
eventually happens. This is one weak fairness condition for all of them, which says less than
one for each of these timers and callbacks; the code arms each again after use. Faults are
not fair, and there are finitely many of them.

`FairSpec` of RemoteDispatch: the event loop goes on with the sweep, with some action and
with some write-back that can go on, and the maintenance timer starts the next sweep.
Nothing is assumed of hosts, networks and people: a host may never answer, a lease need
not expire.

## 4. Properties

The type invariants aside, each property is about a hazard of `PROJECT.json`:

* `ConflictFree`, `ImplementationCapacity`, `LocalWorkTracked`: parallel claims are
  decided on `currentRefs`, a list every operation maintains by hand.
* `ImplementedReviewed`, `WorkBehindImplemented`, `ImplementedStable`: statuses are
  recomputed from scratch at every load, and still no submission takes "implemented"
  away, and it is never granted on a review of other work.
* `FeedbackPointers`, `EventuallyFinished`: the review-feedback loop with several results
  and open envelopes per review. `EventuallyFinished` says that every task is finished in
  the end, unless the plan comes to rest where open envelopes refuse every claim and none of
  them is current (`FeedbackResolvable`), the finding of `ThreeReviewers`.
* `StateReadable`, `OpenFeedbackLocal`, `Settled`: no operation can make the file
  unreadable or leave it where a reload would change it.
* `OwnershipHandover`: an action property on the owner and the receipt of each block.
* `LoopComputesReconciled`: the loop against its declarative meaning.
* `OneRunPerAttempt`, `CountsOnce`: a submission that was cut off at any write is repeated
  in the run it began and is counted once.
* `RetryAccepted`: when a repeated submission is accepted. With the report it promised it is
  accepted exactly when its claim has a run, or each directory left behind can be attributed
  to something else; a crash between making the directory and writing its `metadata.json`
  leaves one that cannot, see the observations.
* `CompletedEvidence`, `SubmittedFixed`: a completed block has the report its metadata
  promises, and nobody replaces a submitted report.
* `SubmittedByItsClaim`: an executor or a host whose claim was superseded completes
  nothing.
* `CommandsInOrder`, `EventsInOrder`: redelivery after a reconnection, a stop between two
  transactions and compaction never make a command or an event take effect twice or out
  of order.
* `CursorsAgree`, `AcknowledgedIsStored`: two databases that acknowledge each other's rows
  never come to a pair of cursors at which the client refuses to go on.
* `EventuallySettled`: the window, the drain and the reconnection always make progress.
* `LeaseAuthority`, `StaleNeverWrites`: three tables and the runtime agree on who may work
  while resumes and retries move the lease in several transactions. (`StaleNeverWrites` and
  `OutcomesAgree` leave out the states in which a plan has outlived its attempt, `Outlived`;
  that needs two actions at a time, see `StalePlan` in section 6, so in the passing runs the
  exception excuses nothing.)
* `OutcomesAgree`, `AcceptedResultKept`, `AcceptedResultSettled`: the runtime is changed
  first and the tables later, or never if the server dies; they still never end
  differently, and a recorded result is neither lost nor parked.
* `CompletedIsWritten`, `WrittenAsRecorded`: several jobs carry a result to the runtime and
  its answer back at the same time; none reports a completion that did not happen, or
  writes a result other than the one recorded for the attempt it ends. These two hold
  whatever plans are around.
* `TerminalIsFinal`: write-backs, sweeps and actions that were begun before the end of an
  operation, and go on after it, find it ended.
* `ActionsReconciled`, `ExpiredRecovered`: what a dead server or host leaves behind is
  taken up. (`AcceptedResultSettled` and `ActionsReconciled` excuse a sweep that failed,
  see the observations.)

Every property has a mutant in `PROJECT.json`: a variant of a mapped definition,
defined next to it and marked as a mutant, under which TLC finds it violated.

## 5. Proofs

`RemoteRuntimeProofs` proves, for every plan, every set of operations and every value
of the bounds that satisfies `GraphAssumption`, `RuntimeAssumption` and
`RemoteAssumption`:

* `Invariance`: `RemoteSpec => []IInv`, the inductive invariant;
* `TypeCorrect`, `Loadable`, `FeedbackOutsideRemote`, `ReloadNeutral`: `TypeOK`,
  `StateReadable`, `OpenFeedbackLocal` and `Settled` always hold;
* `Handover`: the action property `OwnershipHandover`.

The assumptions say that the graph's functions have the domains and ranges the
compiler gives them and that null values are not blocks or operations; nothing about
acyclicity or finiteness is needed.

The argument. `StateReadable` is not inductive: `submitFeedback` puts a review in
progress without looking at its owner or receipt. That is safe because a review with
open feedback is free of remote traces (`Good`, last conjunct) and because
`currentFeedbackId` is either null or active in a written state (`Settled`). `IInv` is
the conjunction of the two with the types. All operations end in `Commit`, so one
lemma (`CommitGood`) says what committing a good pair of blocks and feedback
establishes, using that `Reconciled` touches only planned and ready blocks and is
idempotent (`ReconciledFields`, `ReconciledIdempotent`); then there is one lemma per
action that the pair it commits is good and that each block was handed over
properly, and `NextGood` collects them.

`FeedbackProofs` adds, from the same assumptions:

* `RemoteLinks`: under `RemoteSpec`, `FeedbackPointers` and `LocalWorkTracked` always hold;
* `LocalInvariance`, `LocalLinks`: the same under `LocalSpec`, where exhausted reviews
  may be reset and envelopes pruned, and there the state also stays typed, `Readable` and
  `Settled`. The reset is covered by this proof and by the run `ReviewReset`, which shows what
  it does to a canvas that has remote work; no passing run has it;
* `RemoteTypes`: `RemoteTypeOK` always holds.

The argument. `Links` says of the blocks and envelopes to be committed what the two
properties say of the file; `CommitLinks` reduces every action to the links of the blocks
it touches, since reconciling keeps all fields but a planned or ready status. It needs
`IInv`: an answer resolves the envelope `currentFeedbackId` names, and only because that
one is active (`Settled`) does no pointer to a resolved envelope remain. On a local canvas
no block carries a remote trace (`AllClean`), and that is why the reset is harmless there.

`LoopProofs` proves of `LoopSpec`, claims and submissions without overrides:

* `LoopInvariance`: `LoopSpec => []LoopInv`, the inductive invariant;
* `LoopConflictFree`, `LoopCapacity`, `LoopOrder`, `LoopReviewed`: `ConflictFree`,
  `ImplementationCapacity`, `WorkBehindImplemented` and `ImplementedReviewed` always hold;
* `LoopStable`: the action property `ImplementedStable`.

Two assumptions carry weight here: the capacity is positive (`RuntimeAssumption`; the
manifest's schema requires it), since a sequential claim does not look at it, and the plan
has finitely many blocks (`FiniteAssumption`), since capacity is a count.

The argument. Whatever a step of the loop touches belongs to a task that is not closed
and whose dependencies are implemented, and ends up started. `Effect` states this for the
blocks a step is about to commit, one lemma per action establishes it, and two lemmas
(`EffectBegun`, `EffectClosed`) draw the conclusions: closed tasks stay closed, so
implemented tasks stay implemented, so what was behind them stays behind them. `Begun`
is what makes this inductive: a review that is started has its implementations completed
(otherwise a submission could change the runs under a passed review), a fresh one has no
verdict, envelopes belong to started reviews, and what passed is what is there. `Apart`
is stronger than `ConflictFree`: it also keeps apart the reviews that only wait for
feedback, even completed ones, because answering puts them back to work without any check
of conflicts.

`ResultSubmissionProofs` proves for any number of runs, identities and reports
(`SubmissionAssumption`: there is room for one run, 0 is no report and no report is
torn):

* `SubmissionInvariance`: `SubmissionSpec => []SInv`, the inductive invariant;
* `SubmissionTypes`, `AttemptsUnique`, `CompletionHasEvidence`, `RetryPossible`:
  `SubmissionTypeOK`, `OneRunPerAttempt`, `CompletedEvidence` and `RetryAccepted`
  always hold; the last is an equivalence, so it also says when a repetition is refused;
* `CountedOnce`: so does `CountsOnce`;
* `ResultsKept`, `CompletionByClaim`: the action properties `SubmittedFixed` and
  `SubmittedByItsClaim`.

`SubmissionSpec` includes crashes and repairs.

The argument. None of these is inductive: whether `Reserve` makes a second run of an
attempt depends on what the resolution saw several writes before. `HolderInv` and
`WriteInv` say what the holder of the lock may still rely on at each write: that it
works under the block's claim, that no other run has its attempt (`Alone`), what its run
holds so far. `RunInv` relates the files of one directory and `StateInv` says that
`state.json` and `index.json` name only results and records (`Recorded`). One lemma
covers all operations that only write `state.json` (`AtomicGood`), one all writes of a
run directory (`RunGood`: the run written is never a recorded one, which is why no
result is replaced); `FoundRun` says that the run a submission resolves to has its
attempt whichever way it was found.

`CountsOnce` bounds the count by the number of results, which says nothing at the write
that counts: a run whose result was there before could be counted again. `CountInv` bounds
it by the results that the index can have counted (`Countable`): those of earlier claims,
and of the present claim only the one `latestRunByBlock` names; not the one the holder of
the lock is about to count. So the run a step counts was not countable before it
(`IndexCounts`), and no other step takes a result out of `Countable` (`SteadyCounts`):
a new claim only adds to it, because `BoundInv` ties a claim to the attempt whose result it
has. A record of a remote attempt makes the hypothesis of `CountsOnce` false, and stays.

`HostMailboxProofs` proves, for every set of dispatches, every window, every number of
rows and every number of faults (`HostMailboxAssumption`: finitely many dispatches,
windows of at least one, natural bounds):

* `MailboxTypes`: `MailboxTypeOK` always holds;
* `CommandsRefine`: `Spec => CommandsInOrder`, the commands are an OrderedDelivery under
  the mapping of `Commands`;
* `AcknowledgedStored`: `AcknowledgedIsStored` always holds.

The argument. `MailboxInv` has five parts. `Chain`: each row names its predecessor and the
sequences grow. `Stored(db)`: the inbox is a first part of the mailbox, the cursor
`received` its last sequence, and the outbox acknowledges only what is in it. `Channels`:
what is on the wire is a row of the mailbox, an answer to an event with a receipt, or an
event as it stands in the outbox. With these, the only row that `Verdict` calls new is
the one after the last stored (`ReceiveStored`): an earlier one is known, for a later one
`prev` is not the cursor. `Acked`: the acknowledged rows have a maximum, are stored, and
are closed downwards; the last is needed because an acknowledgement at or below the
server's cursor is taken without looking at the row. All changes of the host's database
but `receive` only mark rows and append reports (`Keeps`, one lemma per operator), so each
action is reduced to one of three lemmas: neither database changes (`LinkStep`), the host
keeps what it has (`KeepsStep`), or a message is stored (`MessageStep`). Each also says
what the step is for the commands (`CommandStep`), from which the refinement follows.

`HostReportsProofs` proves the other direction, from the same assumption:

* `CursorsNeverStop`: `CursorsAgree` always holds;
* `ReportsRefine`: `Spec => EventsInOrder`, the events are an OrderedDelivery under the
  mapping of `Reports`.

The argument. `ReportInv` adds to `MailboxInv` what is on the wire and in what order. An
event on the way follows the last one recorded or another on the way (`EventsOnTheWay`,
`Drained`), a command follows what the host has or another on the way (`CommandsChained`,
`SentPlaced`), the hello and the welcome come first and carry cursors the other side
knows, every stored command has its acknowledgement in the outbox behind that of the
command before (`AcksInOrder`), and what is no longer pending is recorded (`Reported`: only
a receipt takes an event out, and a pending event keeps its dispatch from compaction). The
two claims are proved together because each needs the other: an acknowledgement that the
server refuses is gone from the socket, and the events behind it would be applied without
it; and it is refused only if an earlier one was not applied.

`RemoteDispatchProofs` proves for any number of attempts, leases, actions, faults and
either route (`RemoteDispatchAssumption`: natural bounds, at least one attempt, known kinds
and routes):

* `DInvariance`: `Spec => []DInv`, the inductive invariant;
* `DispatchTypes`: `DispatchTypeOK` always holds;
* `ResultsStay`: the action property `AcceptedResultKept`;
* `WInvariance`: `Spec => []WInv`, where `WInv` strengthens `DInv`;
* `CompletionIsReal`, `BlockEndsAsRecorded`: `CompletedIsWritten` and `WrittenAsRecorded`
  always hold.

The argument for the first three. They do not follow from the tables alone, because a job
writes what it read
several steps before. `Control` says what a job holds at the points that write it
(`Holds`: a payload at the write-back's call, an interruption before it is marked, an
action of the kind that is applied) and what a recorded action was promised (`Promised`:
a retry a free attempt, a resume a free lease, and the plan is of its kind); with it,
whatever a step writes is in the schema. `Unrecorded` says that a dispatch which still
waits for its host has no payload; lease recovery, `cancelInterruptedAfterRuntimeReset`,
`prepareManualFailure` and the host's events all begin by looking for such a dispatch, so
they overwrite nothing, and every other write keeps the payload (`Passes`, one lemma per
write). Every step of a job is reduced to the four parts of `ServerOK`; how it ends
(`Throws`, `Returns`) is dealt with once, for all jobs (`ThrowsMoves`, `ReturnsMoves`).

`WInv` adds what is known on the way from the record of a result to the runtime and back.
`Carries`: a job about to call has the payload that its attempt's dispatch has recorded,
one about to reject is there because a completed result was recorded, and one that goes
to finish or to finalize with a completion has a completed block behind it (`Done`).
`Answered`: every dispatch that waits for its write-back or has ended has a payload, and a
completed one has a completed block. `Given`: the block has what its attempt recorded.
The invariant lasts because an ended block is never changed again (`Lasts`) and, by
`ResultsStay`, neither is a recorded payload: what a job learned before an await, a crash
of another job or a lost reply is still true after it. Most steps neither touch the block
nor complete anything and leave their job nothing to carry (`Rests`, `Answers`); the ones
that do (`Write`, the three calls, `Finish`, `Finalize`, `Seal`, `ApplyFail`, `LocalFails`)
are proved one by one.

`LeaseProofs` proves under the same assumptions:

* `LInvariance`: `Spec => []LInv`, where `LInv` strengthens `DInv`;
* `LeasesAgree`: `LeaseAuthority` always holds. At most one reservation is active, it is the
  lease of the current attempt, and a dispatch that waits for its host is under that lease;
* `EndsOnce`: the action property `TerminalIsFinal`.

The argument. A reservation, the dispatch under it and the command for it are three
transactions, a resume takes its lease before it restores the dispatch, and the server may
stop in between. `LeaseAuthority` by itself is not inductive; `LInv` adds three parts:

* `TableInv`, what the tables say together: besides the two claims of `LeaseAuthority`
  (`OneActive`, `SameLease`), an ended operation has an ended attempt and no active lease
  (`EndsAlike`), an attempt that was never reserved has neither lease nor dispatch
  (`Unreserved`), and only an interrupted dispatch has an interruption's reason
  (`Uninterrupted`);
* `AskInv`, what recorded actions refer to: an attempt that exists, in a version it has had
  (`Refers`), and, for a planned resume whose attempt has not changed since, a dispatch that
  nobody has given out again (`Reserves`). This is why the fence of versions suffices: the
  resume may wait for the runtime as long as it likes;
* `JobInv`, what the jobs have in hand: the lease that `Prepare` is about to write is the
  attempt's (`Prepares`), what reenter read before it called the runtime is still so while
  the attempt has no dispatch (`Reads`), and an attempt that a crash left with a lease and
  no dispatch (`Stranded`) is only taken up by the sweep, or by the action the sweep is
  waiting for (`Enters`, `TakenUp`). So nobody holds a read of a stranded attempt when the
  sweep parks it or a retry replaces it.

Most steps only let go of something: attempts go on to later states, leases are given back,
no dispatch is made or given out again, and the job goes to a point where it need hold
nothing (`Passing`, `Dispatching`, `Leaves`; `JobLeaves` deals with all of them at once).
The steps that take something (`Reserve`, `Prepare`, `Resume`, `Retry`) and the points at
which reenter is entered and read are proved one by one.

`EndsOnce` rests on `EndsAlike`: an operation that has ended has an attempt that has ended,
and no active lease, so every transaction that could reopen it or end it otherwise
(release, finalizing, the resumption's lease, the retry, the expiry of a lease, a reset of
the binding) fails its own guard or finds what it would write (`OverAll`, `FinalizedAgain`).

Only model-checked:

* `OutcomesAgree` and `StaleNeverWrites` of RemoteDispatch. What they add to the theorems
  above is that the block, when it ends, ends for the current attempt, and that a failed
  or cancelled operation has a block that ended so. With kept plans this is false
  (`StalePlan`), so both are stated for states in which no plan has outlived its attempt.
  A plan can be outlived and later be found applied, so that an inductive invariant would
  have to follow every plan that was ever kept and every job that races with it. No such
  invariant has been worked out.
* Liveness, which is out of the prover's reach.
* `LoopComputesReconciled`, which is about what a loop computes from its input, that is, an
  induction over data.

## 6. Findings

* **A reset review can make the canvas unreadable** (`ReviewReset`). `reviewRetry.ts`
  lines 71-79 reopen an exhausted review with `...blockState`, so the receipt of the
  remote operation that completed it stays; the schema then rejects the file. The
  theorem `Loadable` shows that this is the only operation that can: it is left out of
  `RemoteNext` and added in `ResetNext`.
* **Several open envelopes can be stuck** (`ThreeReviewers`). The claim message
  says "resolve or dismiss one", but there is no operation that dismisses, and once
  `currentFeedbackId` is null none that resolves.
* **A late cancellation stops the host** (`LateCancel`). The cancel command is enqueued
  before the terminal event is recorded and sent after its acknowledgement; the host has
  compacted the execution by then and takes the command for a conflict with its receipt.
  The client stops, and stops again after each restart. `CursorsAgree` excludes this one
  reason and shows that there is no other.
* **A result accepted after the lease was lost cannot be written** (`LateResult`).
  `dispatches.ts` accepts it on purpose, but the sweep that recovered the lease goes on to
  interrupt the block in the runtime for good, and the runtime then refuses the result.
* **A refused action is applied to another attempt** (`StalePlan`). `decideRemoteExecutionAction`
  checks the identity and the version of the attempt, but a plan whose application failed
  is kept and applied again without that check, to whatever attempt is current
  (`remoteExecutionActions.ts:512`). A cancellation of attempt 1 that lost against a retry
  ends the block of attempt 2 as cancelled at the next sweep, while attempt 2 goes to its
  host; its result can then not be written.

Observations that are not runs. On the runtime:

* After a needs-changes result, a second result that passes completes the review
  beside the open envelope; answering that envelope reopens it, and if the hook then
  fails the review is blocked but keeps the completion reason "passed", so its task
  counts as implemented. (`ImplementedReviewed` therefore speaks of completed reviews.)
* Work redone after a divergence leaves a review passed for the earlier revision; the
  loop of `Loop` has no overrides.
* A sequential claim replaces `currentRefs`, and resuming or retrying a remote attempt
  does not add its block again, so remote work drops out of the capacity and conflict
  checks (`LocalWorkTracked` and `ConflictFree` speak of local work).
* A failure report is accepted for a block whose ownership has diverged, against the
  comment above `markRemoteBlockOwnershipSourceDrift`
  (`remoteOwnershipTransitions.ts:238`).
* Reviews that are not required are never claimable.
* With remote attempts the index may count a run twice: a remote completion dies after
  the index is written, a record moves `latestRunByBlock` and dies in turn, and the
  completion is repeated. `CountsOnce` therefore speaks of blocks without such a record.
* `repairStateRunMismatch` does not look at the block's status or attempt: a submission
  dies after it wrote the index, the block is released and claimed again, and
  `doctor --repair` completes it with the earlier claim's run.
* The record of an interrupted remote attempt has no `submissionAttemptId`, so once
  `lastRunId` names another run, `submit-result` takes it for a legacy run and refuses
  (`blockSubmission.ts:147`).
* A process that dies between making a run directory and writing its `metadata.json`
  leaves a directory that makes every later `submit-result` of the block fail closed
  ("ambiguous for incomplete run") as long as the claim has no run: until an Auto Run
  prepares one for it, or somebody removes the directory. `RetryAccepted` states when this
  is so.

On the server and the link:

* An action that can no longer be decided stays `recorded`. `reconcile` throws at it in
  every sweep before `reenterPending` is reached, and at startup too, so it holds up all
  operations, while `remoteReenterRecovery.ts:20` says that "op-local failures must not
  abort the whole server". The liveness properties excuse such a sweep
  (`At(Sweep, "aborted")`).
* A retry may move the runtime to the new attempt while a sweep is about to mark the old
  one interrupted. The sweep meets a conflict and seals the operation as failed; the
  runtime's block stays active for an attempt nobody drives. `OutcomesAgree` therefore
  speaks of blocks that have ended.
* A kept retry plan does the same (see `StalePlan`): with a second retry applied in
  between, the first one, taken up again, moves the runtime back to the attempt it had
  created, which the second has replaced, and a late result of that attempt is then written.
* A cancellation of an operation that has no dispatch ends the block in the runtime, in
  three calls, and finalizes the attempt later (`remoteBlockActionCoordinator.ts:283`). A retry of the same
  attempt that is applied in between finds no active ownership, which it tolerates without
  a dispatch, and replaces the attempt; the cancellation then throws and its plan is kept.
  The block is ended by an attempt that no longer counts, the activation of the new one
  meets a conflict, and the sweep stops at the recorded actions.
* A command whose plan was kept makes `settleAttemptCommands` throw: `transition` does not
  clear the plan, and `toRecord` admits one only in a recorded row
  ("remote_action_row_claim_mismatch", `remoteExecutionActions.ts:98`). As long as it is
  kept, the host's event for that attempt is not acknowledged and comes again.
* An error inside `recover` leaves the action claimed, so later sweeps throw
  `remote_action_in_progress` until the server restarts.
* A server that dies in a resumption between `resumeSameAttempt` and the command, and
  stays down past the new lease, finds an identity conflict at every reconciliation.
* A result recorded while a retry waits for the runtime, or after a forced failure and a
  crash, stays `awaiting_writeback`: `retryPendingWritebacks` (`dispatches.ts:710`) has no
  caller outside the tests.
* A forced failure leaves the dispatch running under a live lease, whose renewal then
  throws. A source change while a result waits to be written makes both `complete` and
  `fail` throw.
* With the default limits a reconnecting host may be sent more frames than
  `maxQueuedMessages` allows (32 + 2 * 62 + 1 against 128); the socket is closed with 4009
  and the reconnection goes on, which is a lost socket of the model.

## 7. Not modelled

* Review results and feedback answers are new: the reuse of a review attempt found on
  disk, and a crash between the files of one such submission, are not modelled.
  ResultSubmission does it for results of implementation blocks.
* The run index of a block (`runs/index.json`) and the transcript files of a remote
  attempt, which no decision of the modelled code reads. A run directory given by hand
  to the runtime's API; the command line passes none and Auto Run the one it prepared.
* The project guard (blockers from other canvases) is open; `dryRun` writes nothing.
* The graph does not change: `EditPackage` changes evidence, not blocks, so pruning
  of state for removed blocks is not modelled.
* The reset of the whole runtime state on its own, the import transaction and the lock
  itself; the lock is assumed to make each operation atomic. (`RuntimeReset` of
  RemoteDispatch is what such a reset means for a remote operation.)
* Of the link: heartbeats, archived protocol versions, pruning of receipts, the limits of
  the socket's queue (a closed socket is a fault), interactions, and resume commands,
  which RemoteDispatch has.
* Of the server's side: several operations at once and the capacity of a host; the choice
  of an endpoint, waiting for a host and the managed runtime; authorisation and
  assignment; envelopes and artifacts; a second submission of the same action; the
  legacy preflight; ownership taken over by another operation, which RemoteRuntime has.
  A heartbeat changes a lease only while everything agrees, so it is left out and expiry
  may come at any time.
* Interactions and permissions, collaboration, identity, retention, Auto Run, agent
  runners, the command line, MCP and the desktop application: they call what is modelled,
  or have no part in the execution protocol. They make up most of the repository's lines
  (user interface, text, schemas and adapters), which is why the map covers a small share
  of it.

## 8. Plan

1. Proofs: `StaleNeverWrites` and `OutcomesAgree` of RemoteDispatch, on top of `LInv` and
   `WInv`, for which the kept plans have to be part of the invariant.
2. *Crash and retry of reviews and feedback*: the attempts of
   `submitReviewResultLocked`, the envelopes of `submitFeedbackFromBytes` and the files of
   `resetMaxCycleReviews`, file by file, as ResultSubmission does for results.
3. *Import transaction and advisory lock*: stage, commit, recovery; stale locks.
4. *Interactions*: requests for a decision with expiry, over the same link.
5. *Auto Run*: stop and retry against a running step.
