---------------------------- MODULE RemoteDispatch ----------------------------
(***************************************************************************)
(* One remote operation on the coordination server: its attempts, their    *)
(* dispatches and leases (remoteOperations.ts, dispatches.ts,              *)
(* hostReservations.ts), the coordinator that drives them                  *)
(* (remoteBlockCoordinator.ts, remoteBlockWritebackCoordinator.ts), the    *)
(* actions of people (remoteExecutionActions.ts,                           *)
(* remoteBlockActionCoordinator.ts), the agent host that works on it, and  *)
(* the block in the runtime that it owns.                                  *)
(*                                                                         *)
(* The server is one process.  Its jobs are the maintenance sweep, the     *)
(* write-back that follows a host's terminal event, and one for each       *)
(* action.  A transaction is a step, and so is a call of the runtime: what *)
(* follows the call is another step, for the answer travels.  Other jobs   *)
(* come between where the code goes back to the event loop, a crash        *)
(* anywhere.                                                               *)
(*                                                                         *)
(* Commands and events travel in order and exactly once: this is what      *)
(* HostMailbox shows.  A lease is renewed by a heartbeat only while the    *)
(* dispatch, the reservation and the attempt agree, so its expiry is one   *)
(* event for all three; until then a renewal changes nothing here.         *)
(* Attempt a has dispatch a.                                               *)
(***************************************************************************)
EXTENDS Naturals, Sequences, FiniteSets

CONSTANTS
    MaxActions,     \* bound: actions people take
    Kinds,          \* the kinds of action they take
    MaxAttempts,    \* bound: attempts of the operation
    MaxLeases,      \* bound: leases given out
    Routes,         \* where the runtime is: in the server ("local"), at the host ("host")
    MaxFaults       \* bound: restarts, lost replies, edits and resets of the package

ASSUME RemoteDispatchAssumption ==
    /\ MaxActions \in Nat
    /\ MaxAttempts \in Nat \ {0}
    /\ MaxLeases \in Nat
    /\ MaxFaults \in Nat
    /\ Kinds \subseteq {"cancel", "block", "fail", "resume", "retry"}
    /\ Routes \subseteq {"local", "host"}

Actions == 1..MaxActions
Attempts == 1..MaxAttempts
Leases == 1..MaxLeases

\* The jobs: the sweep, the actions, the write-back of each dispatch.
Sweep == 0
Ws(a) == MaxActions + a
Jobs == 0..(MaxActions + MaxAttempts)

VARIABLES
    op,         \* remote_operations: [state, attempt]
    att,        \* remote_execution_attempts: [status, version, lease]
    dis,        \* dispatches: [status, lease, payload, intr]
    res,        \* host_capacity_reservations: [status, attempt]
    act,        \* remote_execution_actions
    past,       \* the leases whose lease_expires_at has passed
    job,        \* what runs in the server process
    todo,       \* the actions the sweep has still to reconcile
    starting,   \* the server has not finished its startup reconciliation
    rt,         \* the block's remote state in the runtime: [phase, attempt, outcome]
    changed,    \* the package no longer has the source the operation was made from
    route,
    exec,       \* the host's executions: [status, lease, cancel]
    stopped,    \* the host's client has stopped on a command it cannot apply
    toHost, toServer,
    faults

tables == <<op, att, dis, res>>
server == <<tables, act, job, todo, starting>>
host == <<exec, stopped>>
wire == <<toHost, toServer>>
clock == <<past, changed, route, faults>>
dvars == <<server, rt, host, wire, clock>>

Terminal == {"completed", "failed", "cancelled"}
Live == {"leased", "running", "cancelling"}
Parked == {"interrupted", "action_required"}

NoJob == [pc |-> "idle", attempt |-> 0, lease |-> 0, reuse |-> FALSE, seen |-> "none",
          outcome |-> "none", mode |-> "plain"]
NoAction == [state |-> "unused", kind |-> "none", attempt |-> 0, lease |-> 0, version |-> 0,
             fresh |-> 0, plan |-> "none", claimed |-> FALSE, sent |-> FALSE]

Ended == {"idle", "aborted", "refused", "deferred"}

\* At these points a job goes on without going back to the event loop: only a
\* crash comes between.
Unyielding == {"due", "actions", "reenter", "recover", "apply", "reserve", "prepare", "finalize", "check",
               "settled", "delivered"}
Runs(j) == \A k \in Jobs \ {j} : job[k].pc \notin Unyielding
Free == \A k \in Jobs : job[k].pc \notin Unyielding

Init ==
    /\ op = [state |-> "claimed", attempt |-> 1]
    /\ att = [a \in Attempts |-> [status |-> IF a = 1 THEN "prepared" ELSE "none",
                                  version |-> 0, lease |-> 0]]
    /\ dis = [a \in Attempts |-> [status |-> "none", lease |-> 0, payload |-> "none",
                                  intr |-> "none"]]
    /\ res = [l \in Leases |-> [status |-> "unused", attempt |-> 0]]
    /\ act = [i \in Actions |-> NoAction]
    /\ past = {}
    /\ job = [j \in Jobs |-> NoJob]
    /\ todo = {}
    /\ starting = FALSE
    /\ rt = [phase |-> "preparing", attempt |-> 0, outcome |-> "none"]
    /\ changed = FALSE
    /\ route \in Routes
    /\ exec = [a \in Attempts |-> [status |-> "none", lease |-> 0, cancel |-> FALSE]]
    /\ stopped = FALSE
    /\ toHost = <<>>
    /\ toServer = <<>>
    /\ faults = 0

-----------------------------------------------------------------------------
(* How a job ends. *)

cur == op.attempt

\* A job goes on, with the fields of its record that change.
Goes(j, record) == job' = [job EXCEPT ![j] = record] /\ UNCHANGED <<act, starting>>
Goto(j, pc) == Goes(j, [job[j] EXCEPT !.pc = pc])

\* failActionApplied: what the fail action asked for has been recorded ("no"),
\* has become final ("yes"), or something else has happened.
FailApplied(i) ==
    LET final == op.state \in Terminal
    IN  IF \/ cur # act[i].attempt
           \/ att[cur].lease # act[i].lease
           \/ dis[cur].payload # "operator"
           \/ att[cur].version # act[i].version + (IF final THEN 1 ELSE 0)
           \/ final /\ ~(op.state = "failed" /\ att[cur].status = "failed"
                                             /\ dis[cur].status = "failed")
        THEN "error"
        ELSE IF final THEN "yes" ELSE "no"

\* The classes of error: "defer" (host or runtime not reachable), "missing"
\* and "conflict" (RemoteOwnershipConflictError), "domain"
\* (RemoteBlockRuntimeError), "local" (a code of OP_LOCAL_MESSAGE_CODES), and
\* everything else.  classifyReenterFailure seals the operation for these:
Sealable == {"missing", "conflict", "domain", "local"}

SweepThrows(class) ==
    LET j == job[Sweep]
        deferred == j.mode = "plain" /\ class = "defer"
    IN  /\ job' = [job EXCEPT ![Sweep] =
                     IF deferred THEN NoJob
                     ELSE IF j.mode = "plain" /\ class \in Sealable THEN [j EXCEPT !.pc = "seal"]
                     ELSE IF /\ j.mode = "sealing"
                             /\ j.outcome # "completed"
                             /\ class \in {"missing", "domain"} THEN [j EXCEPT !.pc = "force"]
                     ELSE [NoJob EXCEPT !.pc = "aborted"]]
        /\ starting' = (starting /\ ~deferred)
        /\ UNCHANGED act

\* applyRecorded: an error while applying gives the claim back and keeps the
\* plan, an error while recovering keeps the claim.
ActionThrows(i, class) ==
    LET j == job[i]
        fails == j.mode = "recover" /\ act[i].kind = "fail"
        deferred == class = "defer" /\ ~(fails /\ FailApplied(i) = "error")
    IN  IF fails /\ class = "defer" /\ FailApplied(i) = "yes" THEN Goto(i, "settled")
        ELSE IF fails /\ class = "missing" THEN Goto(i, "seal")
        ELSE IF /\ j.mode = "sealing"
                /\ j.outcome # "completed"
                /\ class \in {"missing", "domain"} THEN Goto(i, "force")
        ELSE /\ job' = [job EXCEPT ![i] = [NoJob EXCEPT !.pc = IF deferred THEN "deferred" ELSE "refused"]]
             /\ act' = [act EXCEPT ![i].claimed = (j.mode # "apply")]
             /\ UNCHANGED starting

\* The write-back after a host event only logs the error.
Throws(j, class) ==
    IF j = Sweep THEN SweepThrows(class)
    ELSE IF j \in Actions THEN ActionThrows(j, class)
    ELSE Goes(j, NoJob)

Returns(j) ==
    IF j = Sweep
    THEN job' = [job EXCEPT ![Sweep] = NoJob] /\ starting' = FALSE /\ UNCHANGED act
    ELSE IF j \in Actions
         THEN Goto(j, IF job[j].mode # "apply" /\ act[j].kind = "fail" THEN "check" ELSE "settled")
         ELSE Goes(j, NoJob)

-----------------------------------------------------------------------------
(* The runtime port (runtime/src/taskManager/remoteBlockRuntime.ts) as the   *)
(* server meets it: each operator gives the new state and the answer.        *)

Answer(class, r) == [class |-> class, rt |-> r]
Stays(class) == Answer(class, rt)
\* Over a host, errors of the domain arrive as CanvasRuntimeRpcError.
Domain == IF route = "host" THEN "fatal" ELSE "domain"
Drifts == Answer(Domain, [rt EXCEPT !.phase = "diverged"])

InProgress == rt.phase \in {"preparing", "active"}

\* Mutant of IfOwned: any attempt of the operation will do.
IfOwnedByAny(a, answer) ==
    IF rt.phase \in {"lost", "preparing", "ended"} \/ rt.attempt = 0 THEN Stays("missing")
    ELSE IF changed THEN Drifts
    ELSE answer

\* assertActiveRemoteBlockOwnership, then the comparison of the source.
IfOwned(a, answer) ==
    IF rt.phase \in {"lost", "preparing", "ended"} \/ rt.attempt = 0 THEN Stays("missing")
    ELSE IF rt.attempt # a THEN Stays("conflict")
    ELSE IF changed THEN Drifts
    ELSE answer

Claim ==
    IF rt.phase = "lost" /\ changed THEN Stays(Domain)
    ELSE IF rt.phase = "lost"
         THEN Answer("ok", [phase |-> "preparing", attempt |-> 0, outcome |-> "none"])
    ELSE IF rt.phase = "ended" THEN Stays("conflict")
    ELSE IF changed THEN Drifts
    ELSE Stays("ok")

\* query, which writes nothing and looks neither at the attempt nor at the source
Query == Stays(IF rt.phase = "lost" THEN "missing" ELSE "ok")

Activate(a) ==
    IF ~InProgress \/ (rt.phase = "active" /\ rt.attempt # a) THEN Stays("conflict")
    ELSE IF changed THEN Drifts
    ELSE Answer("ok", [rt EXCEPT !.phase = "active", !.attempt = a])

\* reconcile; the coordinator turns a divergence without interruption into
\* remote_source_changed.
Reconcile ==
    IF rt.phase = "lost" THEN Stays("missing")
    ELSE IF rt.phase = "ended" THEN Stays("ok")
    ELSE IF changed THEN Answer("local", [rt EXCEPT !.phase = "diverged"])
    ELSE Stays(IF rt.phase = "diverged" THEN "local" ELSE "ok")

MarkInterrupted(a, phase) ==
    IfOwned(a, IF rt.phase \in {"active", phase} THEN Answer("ok", [rt EXCEPT !.phase = phase])
               ELSE Stays("conflict"))

ResumeAttempt(a) ==
    IF rt.phase = "active" /\ rt.attempt = a THEN Stays("ok")
    ELSE IfOwned(a, IF rt.phase = "resumable" THEN Answer("ok", [rt EXCEPT !.phase = "active"])
                    ELSE Stays("conflict"))

RetryAttempt(a, new) ==
    IF rt.phase = "active" /\ rt.attempt = new THEN Stays("ok")
    ELSE IfOwned(a, IF rt.phase = "manual"
                    THEN Answer("ok", [rt EXCEPT !.phase = "active", !.attempt = new])
                    ELSE Stays("conflict"))

\* submitBlockResultArtifact: the plain Error of a block that is not in
\* progress comes before the comparison of the source.
Complete(a) ==
    IF rt.phase = "ended"
    THEN Stays(IF rt.attempt = a /\ rt.outcome = "completed" THEN "ok" ELSE Domain)
    ELSE IF /\ rt.phase \in {"manual", "diverged"}
            /\ rt.attempt = a THEN Stays("fatal")
    ELSE IfOwned(a, Answer("ok", [phase |-> "ended", attempt |-> a, outcome |-> "completed"]))

Fail(a, outcome) ==
    IF rt.phase = "ended"
    THEN Stays(IF rt.attempt = a /\ rt.outcome = outcome THEN "ok" ELSE "conflict")
    ELSE IfOwned(a, Answer("ok", [phase |-> "ended", attempt |-> a, outcome |-> outcome]))

\* A job calls the runtime.  Over a host the reply may be lost: the call has
\* happened, and the job sees canvas_runtime_reconcile_required.
Calls(j, answer, Then(_)) ==
    /\ rt' = answer.rt
    /\ \/ Then(answer.class) /\ UNCHANGED faults
       \/ /\ route = "host"
          /\ faults < MaxFaults
          /\ faults' = faults + 1
          /\ Throws(j, "defer")

-----------------------------------------------------------------------------
(* Leases and terminal states (hostReservations.ts). *)

\* An attempt changes its state: its version, which callers compare, goes on.
Passed(r, status) == [r EXCEPT !.status = status, !.version = @ + 1]

Fenced(a) == att[a].lease = 0 \/ res[att[a].lease].status # "active"
ActiveLease(a) == att[a].lease # 0 /\ ~Fenced(a) /\ att[a].lease \notin past

\* The dispatch or the attempt of this lease holds a host's terminal result.
Parks(l) ==
    LET a == res[l].attempt
    IN  \/ att[a].lease = l /\ att[a].status = "awaiting_writeback"
        \/ dis[a].lease = l /\ dis[a].status = "awaiting_writeback"

\* release of the leases ls (their attempts differ), for one reason.
Release(ls, reason) ==
    LET Of(a) == {l \in ls : res[l].attempt = a}
        Keeps(a) == reason = "expired" /\ \E l \in Of(a) : Parks(l)
        status == IF reason = "expired" THEN "interrupted" ELSE reason
        After(a) ==
            IF ~\E l \in Of(a) : att[a].lease = l THEN att[a]
            ELSE IF ~Keeps(a) THEN Passed(att[a], status)
            ELSE IF att[a].status \in Parked \cup {"activated", "awaiting_writeback"}
                 THEN Passed(att[a], "awaiting_writeback")
            ELSE att[a]
    IN  /\ res' = [l \in Leases |-> IF l \notin ls THEN res[l]
                                    ELSE [res[l] EXCEPT !.status =
                                            IF reason \in {"expired", "cancelled"} THEN reason
                                            ELSE "released"]]
        /\ att' = [a \in Attempts |-> After(a)]
        /\ op' = IF Of(cur) = {} THEN op
                 ELSE IF ~Keeps(cur) THEN [op EXCEPT !.state = status]
                 ELSE IF op.state \in Terminal THEN op
                 ELSE [op EXCEPT !.state = "awaiting_writeback"]

\* finalizeOperationTerminal: release, or finalizeFencedAttempt.
FinalizeError(l, status) ==
    IF l = 0 THEN "local"
    ELSE IF res[l].status = "active" THEN "none"
    ELSE IF res[l].attempt # cur THEN "fatal"
    ELSE IF \/ op.state = status /\ att[cur].status = status
            \/ att[cur].status \in Parked \cup {"awaiting_writeback"} /\ att[cur].lease = l THEN "none"
    ELSE "local"

Finalized(l, status) ==
    IF res[l].status = "active" THEN Release({l}, status)
    ELSE IF op.state = status /\ att[cur].status = status THEN UNCHANGED <<op, att, res>>
    ELSE /\ op' = [op EXCEPT !.state = status]
         /\ att' = [att EXCEPT ![cur] = Passed(att[cur], status)]
         /\ UNCHANGED res

Finalizes(j, l, status) ==
    IF FinalizeError(l, status) = "none"
    THEN Finalized(l, status) /\ Returns(j)
    ELSE Throws(j, FinalizeError(l, status)) /\ UNCHANGED <<op, att, res>>

\* finishDispatchTerminal of the current dispatch.
FinishError(status) ==
    IF att[cur].lease = 0 \/ dis[cur].status = "none" THEN "local"
    ELSE IF dis[cur].lease # att[cur].lease THEN "fatal"
    ELSE IF dis[cur].status \in {status, "awaiting_writeback"} THEN "none"
    ELSE "local"

Finished(status) == dis' = [dis EXCEPT ![cur].status = status]

\* Mutant of StatusOf: a cancelled result is recorded as a failure.
StatusOfFailure(outcome) == IF outcome = "completed" THEN outcome ELSE "failed"

\* The terminal state of a payload.
StatusOf(outcome) == IF outcome \in {"completed", "cancelled"} THEN outcome ELSE "failed"

-----------------------------------------------------------------------------
(* The write-back (remoteBlockWritebackCoordinator.ts). *)

Still == UNCHANGED <<todo, past, changed, route, host, wire>>
NoCall == Still /\ UNCHANGED <<rt, faults>>

At(j, pc) == job[j].pc = pc

Unbound(a) == /\ op = [state |-> "claimed", attempt |-> a]
              /\ att[a] = [status |-> "prepared", version |-> 0, lease |-> 0]

\* Mutant of CancelClaimed: a state the schema does not know.
CancelClaimedUnknown ==
    /\ op' = [op EXCEPT !.state = "superseded"]
    /\ att' = [att EXCEPT ![cur] = Passed(att[cur], "cancelled")]

\* cancelClaimedAfterRuntimeReset
CancelClaimed ==
    /\ op' = [op EXCEPT !.state = "cancelled"]
    /\ att' = [att EXCEPT ![cur] = Passed(att[cur], "cancelled")]

\* reconcileTerminalOperationReplay
WriteReplays(j) ==
    LET error == IF dis[cur].status = "awaiting_writeback" THEN FinishError(op.state)
                 ELSE IF dis[cur].status # op.state THEN "local" ELSE "none"
    IN  /\ op.state \in Terminal
        /\ IF error = "none"
           THEN Finished(op.state) /\ Finalizes(j, att[cur].lease, op.state)
           ELSE Throws(j, error) /\ UNCHANGED tables

\* The evidence of completeWithLease and failWithLease.
Evident(outcome) ==
    /\ dis[cur].status = "awaiting_writeback"
    /\ (dis[cur].payload = "completed") = (outcome = "completed")

\* What is written is the payload the dispatch has now.
WriteCalls(j, outcome) ==
    /\ op.state \notin Terminal
    /\ Evident(outcome)
    /\ Goes(j, [job[j] EXCEPT !.pc = "call", !.attempt = cur, !.outcome = dis[cur].payload])
    /\ UNCHANGED tables

WriteFinalizes(j, outcome) ==
    /\ op.state \notin Terminal
    /\ outcome # "completed"
    /\ dis[cur].status \in {"failed", "cancelled"}
    /\ Finalizes(j, att[cur].lease, dis[cur].status)
    /\ UNCHANGED dis

WriteRefuses(j, outcome) ==
    /\ op.state \notin Terminal
    /\ ~Evident(outcome)
    /\ ~(outcome # "completed" /\ dis[cur].status \in {"failed", "cancelled"})
    /\ Throws(j, "local")
    /\ UNCHANGED tables

\* completeWithLease, failWithLease up to the call of the runtime
Writes(j, outcome) == \/ WriteReplays(j) \/ WriteCalls(j, outcome)
                      \/ WriteFinalizes(j, outcome) \/ WriteRefuses(j, outcome)

Write(j) ==
    /\ At(j, "write")
    /\ Writes(j, job[j].outcome)
    /\ NoCall

\* Mutant of CallComplete: the runtime's refusal is swallowed.
CallCompleteUnchecked(j) ==
    /\ At(j, "call")
    /\ job[j].outcome = "completed"
    /\ Calls(j, Complete(job[j].attempt), LAMBDA class : Goto(j, "finish"))
    /\ UNCHANGED tables
    /\ Still

CallComplete(j) ==
    /\ At(j, "call")
    /\ job[j].outcome = "completed"
    /\ Calls(j, Complete(job[j].attempt),
             LAMBDA class : IF class = "ok" THEN Goto(j, "finish")
                            ELSE IF class = "domain" THEN Goto(j, "reject")
                            ELSE Throws(j, class))
    /\ UNCHANGED tables
    /\ Still

\* Mutant of CallFail: the block fails however the attempt ended.
CallFailPlain(j) ==
    /\ At(j, "call")
    /\ job[j].outcome # "completed"
    /\ Calls(j, Fail(job[j].attempt, "failed"),
             LAMBDA class : IF class = "ok" THEN Goto(j, "finish") ELSE Throws(j, class))
    /\ UNCHANGED tables
    /\ Still

CallFail(j) ==
    /\ At(j, "call")
    /\ job[j].outcome # "completed"
    /\ Calls(j, Fail(job[j].attempt, job[j].outcome),
             LAMBDA class : IF class = "ok" THEN Goto(j, "finish") ELSE Throws(j, class))
    /\ UNCHANGED tables
    /\ Still

\* sealRejectedWriteback
CallReject(j) ==
    /\ At(j, "reject")
    /\ Calls(j, Fail(job[j].attempt, "rejected"),
             LAMBDA class : IF class \in {"ok", "missing"}
                            THEN Goes(j, [job[j] EXCEPT !.pc = "finish", !.outcome = "rejected"])
                            ELSE Throws(j, class))
    /\ UNCHANGED tables
    /\ Still

Finish(j) ==
    LET status == StatusOf(job[j].outcome)
    IN  /\ At(j, "finish")
        /\ IF FinishError(status) = "none"
           THEN /\ Finished(status)
                /\ Goes(j, [job[j] EXCEPT !.pc = "finalize", !.attempt = cur, !.lease = att[cur].lease])
           ELSE Throws(j, FinishError(status)) /\ UNCHANGED dis
        /\ UNCHANGED <<op, att, res>>
        /\ NoCall

Finalize(j) ==
    /\ At(j, "finalize")
    /\ Finalizes(j, job[j].lease, StatusOf(job[j].outcome))
    /\ UNCHANGED dis
    /\ NoCall

\* forceFailedTerminal
ForceWithLease(j) ==
    LET error == IF dis[cur].status = "awaiting_writeback" THEN FinishError("failed") ELSE "none"
    IN  /\ op.state \notin Terminal
        /\ att[cur].lease # 0 \/ error # "none"
        /\ IF error = "none"
           THEN /\ Finalizes(j, att[cur].lease, "failed")
                /\ dis' = IF dis[cur].status = "awaiting_writeback"
                          THEN [dis EXCEPT ![cur].status = "failed"] ELSE dis
           ELSE Throws(j, error) /\ UNCHANGED tables

ForceUnbound(j) ==
    /\ op.state \notin Terminal
    /\ att[cur].lease = 0
    /\ dis[cur].status = "none"
    /\ IF Unbound(cur) THEN CancelClaimed ELSE UNCHANGED <<op, att>>
    /\ Returns(j)
    /\ UNCHANGED <<dis, res>>

Forces(j) ==
    \/ op.state \in Terminal /\ Returns(j) /\ UNCHANGED tables
    \/ ForceWithLease(j)
    \/ ForceUnbound(j)

ForceFailed(j) ==
    /\ At(j, "force")
    /\ Forces(j)
    /\ NoCall

\* sealOperationLocalFailure
Seal(j) ==
    LET pending == op.state \notin Terminal /\ dis[cur].status = "awaiting_writeback"
    IN  /\ At(j, "seal")
        /\ \/ /\ pending
              /\ Goes(j, [job[j] EXCEPT !.pc = IF dis[cur].payload = "completed" THEN "reject" ELSE "write",
                                        !.attempt = cur, !.mode = "sealing", !.outcome = dis[cur].payload])
              /\ UNCHANGED tables
           \/ /\ ~pending
              /\ Forces(j)
        /\ NoCall

-----------------------------------------------------------------------------
(* reenter: the coordinator takes an operation up where it stands. *)

\* Mutant of ReenterEnds: a dispatch that awaits its write-back is passed over.
ReenterEndsParked(j) ==
    /\ op.state \in Terminal \/ op.state \in Parked \/ att[cur].status \in Parked
    /\ Returns(j)
    /\ UNCHANGED tables

ReenterEnds(j) ==
    /\ \/ op.state \in Terminal
       \/ dis[cur].status = "none" /\ (op.state \in Parked \/ att[cur].status \in Parked)
    /\ Returns(j)
    /\ UNCHANGED tables

ReenterFinalizes(j) ==
    /\ op.state \notin Terminal
    /\ dis[cur].status \in Terminal
    /\ Finalizes(j, att[cur].lease, dis[cur].status)
    /\ UNCHANGED dis

\* The host is offline, or its lease is over and not yet recovered.
ReenterDefers(j) ==
    /\ op.state \notin Terminal
    /\ dis[cur].status \in Live
    /\ ~ActiveLease(cur)
    /\ Throws(j, "defer")
    /\ UNCHANGED tables

ReenterAcquires(j) ==
    /\ op.state \notin Terminal
    /\ dis[cur].status \notin Terminal
    /\ dis[cur].status = "none" => op.state \notin Parked /\ att[cur].status \notin Parked
    /\ dis[cur].status \in Live => ActiveLease(cur)
    /\ Goes(j, [job[j] EXCEPT !.pc = "acquired", !.reuse = dis[cur].status # "none"])
    /\ UNCHANGED tables

Reenter(j) ==
    /\ At(j, "reenter")
    /\ ReenterEnds(j) \/ ReenterFinalizes(j) \/ ReenterDefers(j) \/ ReenterAcquires(j)
    /\ NoCall

\* What the job keeps of the operation it has read.
Holding(j, pc) == [job[j] EXCEPT !.pc = pc, !.attempt = cur, !.lease = att[cur].lease,
                                 !.seen = op.state, !.outcome = "none"]

\* reenterWithLease, when the runtime lease is there
Acquired(j) ==
    /\ At(j, "acquired")
    /\ \/ op.state \in Terminal /\ Returns(j) /\ UNCHANGED tables
       \/ /\ op.state \notin Terminal
          /\ dis[cur].status = "awaiting_writeback"
          /\ Writes(j, dis[cur].payload)
       \/ /\ op.state \notin Terminal
          /\ dis[cur].status # "awaiting_writeback"
          /\ Goes(j, Holding(j, IF job[j].reuse \/ op.state # "reserved" THEN "reconcile"
                                                                        ELSE "claim"))
          /\ UNCHANGED tables
    /\ NoCall

ClaimRuntime(j) ==
    /\ At(j, "claim")
    /\ Calls(j, Claim, LAMBDA class : IF class = "ok" THEN Goes(j, Holding(j, "persisted"))
                                      ELSE Throws(j, class))
    /\ UNCHANGED tables
    /\ Still

ReconcileRuntime(j) ==
    /\ At(j, "reconcile")
    /\ Calls(j, Reconcile,
             LAMBDA class :
                IF class = "ok"
                THEN Goes(j, [job[j] EXCEPT !.pc = "persisted",
                            !.outcome = IF rt.phase = "active" /\ rt.attempt = job[j].attempt
                                        THEN "bound" ELSE "unbound"])
                ELSE IF class = "missing" THEN Goto(j, "reset")
                ELSE Throws(j, class))
    /\ UNCHANGED tables
    /\ Still

\* recoverRuntimeBindingReset: the runtime no longer knows the operation.
ResetBeforeDispatch(j) ==
    LET held == job[j]
    IN  /\ held.seen = "claimed" /\ held.lease = 0 /\ dis[held.attempt].status = "none"
        /\ IF Unbound(held.attempt) THEN CancelClaimed /\ Returns(j)
           ELSE Throws(j, "fatal") /\ UNCHANGED <<op, att>>
        /\ UNCHANGED <<dis, res>>

Resettable(held) ==
    /\ held.seen = "interrupted"
    /\ dis[held.attempt].status \in {"interrupted", "cancelled"}
    /\ res[held.lease].status # "active"

\* cancelInterruptedAfterRuntimeReset
CancelsInterrupted(a) ==
    /\ op = [state |-> "interrupted", attempt |-> a]
    /\ att[a].status = "interrupted"
    /\ Fenced(a)
    /\ dis[a].lease = att[a].lease
    /\ \A i \in Actions : act[i].attempt = a => act[i].state \notin {"recorded", "delivered"}

ResetInterrupted(j) ==
    LET held == job[j]
        a == held.attempt
        lets == dis[a].status = "cancelled" \/ CancelsInterrupted(a)
    IN  /\ Resettable(held)
        /\ IF lets THEN Finalizes(j, held.lease, "cancelled")
           ELSE Throws(j, "fatal") /\ UNCHANGED <<op, att, res>>
        /\ dis' = IF lets /\ dis[a].status = "interrupted"
                  THEN [dis EXCEPT ![a] = [@ EXCEPT !.status = "cancelled", !.payload = "cancelled"]]
                  ELSE dis

ResetOtherwise(j) ==
    LET held == job[j]
    IN  /\ ~(held.seen = "claimed" /\ held.lease = 0 /\ dis[held.attempt].status = "none")
        /\ ~Resettable(held)
        /\ Throws(j, "missing")
        /\ UNCHANGED tables

BindingReset(j) ==
    /\ At(j, "reset")
    /\ ResetBeforeDispatch(j) \/ ResetInterrupted(j) \/ ResetOtherwise(j)
    /\ NoCall

\* resumePersistedDispatch; without a dispatch the host is reserved.
Persisted(j) ==
    LET held == job[j]
        d == dis[held.attempt]
    IN  /\ At(j, "persisted")
        /\ \/ /\ d.status \in {"running", "cancelling"} \/ (d.status = "leased" /\ held.seen = "activated")
              /\ Returns(j)
              /\ UNCHANGED tables
           \/ /\ d.status = "leased" /\ held.seen # "activated"
              /\ Goto(j, IF held.outcome = "bound" THEN "enqueue" ELSE "activate")
              /\ UNCHANGED tables
           \/ /\ d.status = "interrupted"
              /\ Goes(j, [held EXCEPT !.pc = "mark",
                            !.outcome = IF d.intr = "resumable" THEN "resumable" ELSE "manual"])
              /\ UNCHANGED tables
           \/ /\ d.status = "awaiting_writeback"
              /\ Writes(j, d.payload)
           \/ /\ d.status \in Terminal
              /\ Finalizes(j, held.lease, d.status)
              /\ UNCHANGED dis
           \/ /\ d.status = "none"
              /\ Goto(j, IF held.lease = 0 THEN "reserve" ELSE "prepare")
              /\ UNCHANGED tables
        /\ NoCall

\* A lease that nobody has, and that no resume action has been promised.
FreeLeases == {l \in Leases : res[l].status = "unused" /\ \A i \in Actions : act[i].fresh # l
                                                            \/ act[i].kind # "resume"}

\* HostReservationRepository.reserve
Reserve(j) ==
    /\ At(j, "reserve")
    /\ \/ /\ op.state = "claimed" /\ att[cur].status = "prepared"
          /\ \E l \in FreeLeases :
                /\ \A other \in FreeLeases : l <= other
                /\ res' = [res EXCEPT ![l] = [status |-> "active", attempt |-> cur]]
                /\ att' = [att EXCEPT ![cur] = [status |-> "reserved", version |-> @.version + 1,
                                                lease |-> l]]
                /\ Goes(j, [job[j] EXCEPT !.pc = "prepare", !.lease = l])
          /\ op' = [op EXCEPT !.state = "reserved"]
       \/ /\ op.state = "claimed" /\ att[cur].status = "prepared"
          /\ FreeLeases = {}              \* no_compatible_agent_host
          /\ Returns(j)
          /\ UNCHANGED <<op, att, res>>
       \/ /\ ~(op.state = "claimed" /\ att[cur].status = "prepared")
          /\ IF Fenced(cur) THEN Throws(j, "fatal")
             ELSE Goes(j, [job[j] EXCEPT !.pc = "prepare", !.lease = att[cur].lease])
          /\ UNCHANGED <<op, att, res>>
    /\ UNCHANGED dis
    /\ NoCall

\* RemoteCoordinatorPersistence.prepare
Prepare(j) ==
    LET l == job[j].lease
    IN  /\ At(j, "prepare")
        /\ IF dis[cur].status = "none" \/ dis[cur].lease = l
           THEN Goes(j, [job[j] EXCEPT !.pc = "activate", !.attempt = cur])
           ELSE Throws(j, "fatal")
        /\ dis' = IF dis[cur].status = "none"
                  THEN [dis EXCEPT ![cur] = [@ EXCEPT !.status = "leased", !.lease = l]]
                  ELSE dis
        /\ UNCHANGED <<op, att, res>>
        /\ NoCall

ActivateRuntime(j) ==
    /\ At(j, "activate")
    /\ Calls(j, Activate(job[j].attempt),
             LAMBDA class : IF class = "ok" THEN Goto(j, "enqueue") ELSE Throws(j, class))
    /\ UNCHANGED tables
    /\ Still

\* RemoteCoordinatorPersistence.activate: the command and the state together.
Enqueue(j) ==
    LET a == job[j].attempt
        l == job[j].lease
        first == a = cur /\ att[a].status = "reserved" /\ att[a].lease = l
    IN  /\ At(j, "enqueue")
        /\ IF first
           THEN /\ att' = [att EXCEPT ![a] = Passed(att[a], "activated")]
                /\ op' = [op EXCEPT !.state = "activated"]
                /\ toHost' = Append(toHost, [type |-> "execute", attempt |-> a, lease |-> l])
           ELSE UNCHANGED <<att, op, toHost>>
        /\ IF first \/ (a = cur /\ att[a].status = "activated") THEN Returns(j)
           ELSE Throws(j, "fatal")
        /\ UNCHANGED <<dis, res, todo, past, changed, route, host, toServer, rt, faults>>

MarkRuntime(j) ==
    /\ At(j, "mark")
    /\ Calls(j, MarkInterrupted(job[j].attempt, job[j].outcome),
             LAMBDA class : IF class = "ok" THEN Returns(j) ELSE Throws(j, class))
    /\ UNCHANGED tables
    /\ Still

JobStep(j) ==
    \/ Reenter(j) \/ Acquired(j) \/ ClaimRuntime(j) \/ ReconcileRuntime(j) \/ BindingReset(j)
    \/ Persisted(j) \/ Reserve(j) \/ Prepare(j) \/ ActivateRuntime(j) \/ Enqueue(j)
    \/ MarkRuntime(j) \/ Write(j) \/ CallComplete(j) \/ CallFail(j) \/ CallReject(j)
    \/ Finish(j) \/ Finalize(j) \/ Seal(j) \/ ForceFailed(j)

-----------------------------------------------------------------------------
(* The actions people take (remoteExecutionActions.ts,                       *)
(* remoteBlockActionCoordinator.ts).                                         *)

\* actionSnapshot: the operation stopped before it had a dispatch.
Preparation == /\ dis[cur].status = "none"
               /\ att[cur].status \in Parked
               /\ att[cur].lease # 0
               /\ Fenced(cur)

\* decideRemoteExecutionAction: what the action does now, or "refuse".
Decision(request) ==
    LET persisted == dis[cur].status # "none"
        Lets(plan, condition) == IF condition THEN plan ELSE "refuse"
    IN  IF \/ request.attempt # cur
           \/ request.version # att[cur].version
           \/ request.lease # att[cur].lease
           \/ ~persisted /\ ~Preparation
        THEN "refuse"
        ELSE CASE request.kind = "resume" ->
                    Lets("resume", /\ persisted
                                   /\ att[cur].status = "interrupted"
                                   /\ Fenced(cur)
                                   /\ dis[cur].intr = "resumable")
               [] request.kind = "retry" ->
                    Lets("retry", /\ att[cur].status \in Parked
                                  /\ Fenced(cur)
                                  /\ persisted => dis[cur].intr \in {"manual", "lease_lost"})
               [] request.kind = "fail" -> Lets("fail", persisted /\ att[cur].status \in Parked)
               [] request.kind = "block" -> Lets("block", persisted /\ att[cur].status = "interrupted")
               [] request.kind = "cancel" ->
                    IF Preparation THEN "local"
                    ELSE Lets("command", ~Fenced(cur) /\ att[cur].status = "activated")

\* The identities that the next retry and the next resume take.
FreshAttempts == {a \in Attempts : /\ att[a].status = "none"
                                   /\ \A i \in Actions : act[i].kind = "retry" => act[i].fresh # a}
Least(set) == CHOOSE x \in set : \A y \in set : x <= y

\* execute: the request is recorded and claimed.  A person acts on what the
\* page shows, which may be one version old; a resume is decided before its
\* lease is created (materializeResumeAction).
Submit(i, kind, stale) ==
    LET request == [NoAction EXCEPT !.state = "recorded", !.kind = kind, !.attempt = cur,
                                    !.lease = att[cur].lease, !.version = att[cur].version - stale]
        fresh == CASE kind = "resume" -> FreeLeases [] kind = "retry" -> FreshAttempts [] OTHER -> {0}
    IN  /\ ~starting /\ Free
        /\ act[i].state = "unused"
        /\ \A k \in Actions : k < i => act[k].state # "unused"
        /\ kind \in Kinds
        /\ att[cur].lease # 0
        /\ stale <= att[cur].version
        /\ kind = "resume" => Decision(request) = "resume"
        /\ fresh # {}
        /\ act' = [act EXCEPT ![i] = [request EXCEPT !.fresh = Least(fresh), !.claimed = TRUE]]
        /\ job' = [job EXCEPT ![i] = [NoJob EXCEPT !.pc = "recover", !.mode = "recover"]]
        /\ UNCHANGED <<tables, todo, starting, rt, host, wire, clock>>

RetryApplied(i) == /\ cur = act[i].fresh
                   /\ att[act[i].attempt].status = "superseded"
                   /\ att[act[i].attempt].version = act[i].version + 1

ResumeApplied(i) == /\ res[act[i].fresh].status = "active"
                    /\ att[act[i].attempt].lease = act[i].fresh
                    /\ att[act[i].attempt].status = "activated"

\* The commands of actions are enqueued once (enqueueOnce).
Commands(i, type, lease) ==
    toHost' = IF act[i].sent THEN toHost
              ELSE Append(toHost, [type |-> type, attempt |-> cur, lease |-> lease])
Delivers(i) ==
    /\ job' = [job EXCEPT ![i].pc = "delivered"]
    /\ act' = [act EXCEPT ![i].sent = TRUE]
    /\ UNCHANGED starting

Resumable(i) == \/ dis[cur].status = "interrupted"
                \/ dis[cur].status = "leased" /\ dis[cur].lease = act[i].fresh

\* Mutant of EnqueueResume: the dispatch keeps the lease that expired.
EnqueueResumeOldLease(i) ==
    /\ dis' = [dis EXCEPT ![cur] = [@ EXCEPT !.status = "leased", !.intr = "none"]]
    /\ Commands(i, "resume", act[i].fresh)
    /\ Delivers(i)

\* enqueueResume, once the attempt has the fresh lease
EnqueueResume(i) ==
    /\ dis' = [dis EXCEPT ![cur] = [@ EXCEPT !.status = "leased", !.lease = act[i].fresh, !.intr = "none"]]
    /\ Commands(i, "resume", act[i].fresh)
    /\ Delivers(i)

\* enqueueCancel
EnqueueCancel(i) ==
    IF dis[cur].status \in Live
    THEN /\ dis' = [dis EXCEPT ![cur].status = "cancelling"]
         /\ Commands(i, "cancel", att[cur].lease)
         /\ Delivers(i)
    ELSE Throws(i, "fatal") /\ UNCHANGED <<dis, toHost>>

RecoverRetry(i) ==
    /\ act[i].kind = "retry"
    /\ RetryApplied(i)
    /\ Goto(i, "reenter")
    /\ UNCHANGED <<tables, toHost>>

RecoverResume(i) ==
    /\ act[i].kind = "resume"
    /\ ResumeApplied(i)
    /\ IF cur = act[i].attempt /\ Resumable(i) THEN EnqueueResume(i)
       ELSE Throws(i, "fatal") /\ UNCHANGED <<dis, toHost>>
    /\ UNCHANGED <<op, att, res>>

RecoverCancel(i) ==
    /\ act[i].kind = "cancel"
    /\ \/ /\ dis[cur].status = "none" /\ op.state = "cancelled"
          /\ Goto(i, "settled")
          /\ UNCHANGED <<dis, toHost>>
       \/ /\ dis[cur].status = "cancelling"
          /\ EnqueueCancel(i)
    /\ UNCHANGED <<op, att, res>>

RecoverBlock(i) ==
    /\ act[i].kind = "block"
    /\ att[cur].status = "action_required"
    /\ Goto(i, "settled")
    /\ UNCHANGED <<tables, toHost>>

RecoverFail(i) ==
    /\ act[i].kind = "fail"
    /\ dis[cur].status \in {"awaiting_writeback", "failed", "cancelled"}
    /\ CASE FailApplied(i) = "error" -> Throws(i, "fatal")
         [] FailApplied(i) = "yes" -> Goto(i, "settled")
         [] FailApplied(i) = "no" -> Goes(i, [job[i] EXCEPT !.pc = "write", !.outcome = dis[cur].payload])
    /\ UNCHANGED <<tables, toHost>>

\* Nothing of the action has happened: decide, unless a plan is recorded.
Unapplied(i) ==
    CASE act[i].kind = "retry" -> ~RetryApplied(i)
      [] act[i].kind = "resume" -> ~ResumeApplied(i)
      [] act[i].kind = "cancel" -> /\ dis[cur].status # "cancelling"
                                   /\ ~(dis[cur].status = "none" /\ op.state = "cancelled")
      [] act[i].kind = "block" -> att[cur].status # "action_required"
      [] act[i].kind = "fail" -> dis[cur].status \notin {"awaiting_writeback", "failed", "cancelled"}

Decide(i) ==
    LET plan == IF act[i].plan # "none" THEN act[i].plan ELSE Decision(act[i])
    IN  /\ Unapplied(i)
        /\ IF plan = "refuse"
           THEN /\ job' = [job EXCEPT ![i] = [NoJob EXCEPT !.pc = "refused"]]
                /\ act' = [act EXCEPT ![i].claimed = FALSE]
           ELSE /\ job' = [job EXCEPT ![i] =
                            [NoJob EXCEPT !.pc = IF plan \in {"command", "block", "fail"} THEN "apply" ELSE "ask",
                                          !.mode = "apply", !.attempt = cur]]
                /\ act' = [act EXCEPT ![i].plan = plan]
        /\ UNCHANGED <<tables, toHost, starting>>

Recover(i) ==
    /\ At(i, "recover")
    /\ \/ RecoverRetry(i) \/ RecoverResume(i) \/ RecoverCancel(i)
       \/ RecoverBlock(i) \/ RecoverFail(i) \/ Decide(i)
    /\ UNCHANGED <<todo, past, changed, route, host, toServer, rt, faults>>

ApplyCommand(i) ==
    /\ At(i, "apply")
    /\ act[i].plan = "command"
    /\ EnqueueCancel(i)
    /\ UNCHANGED <<op, att, res, todo, past, changed, route, host, toServer, rt, faults>>

\* The dispatch is looked at after the attempt has been marked.
ApplyBlock(i) ==
    LET lets == /\ att[cur].status = "interrupted"
                /\ att[cur].version = act[i].version
                /\ att[cur].lease # 0 /\ Fenced(cur)
    IN  /\ At(i, "apply")
        /\ act[i].plan = "block"
        /\ IF lets THEN /\ op' = [op EXCEPT !.state = "action_required"]
                        /\ att' = [att EXCEPT ![cur] = Passed(att[cur], "action_required")]
           ELSE UNCHANGED <<op, att>>
        /\ IF lets /\ dis[cur].status = "interrupted" THEN Goto(i, "settled") ELSE Throws(i, "fatal")
        /\ UNCHANGED <<dis, res>>
        /\ NoCall

\* prepareManualFailure
ApplyFail(i) ==
    /\ At(i, "apply")
    /\ act[i].plan = "fail"
    /\ IF dis[cur].status = "interrupted"
       THEN /\ dis' = [dis EXCEPT ![cur] = [@ EXCEPT !.status = "awaiting_writeback",
                                                     !.payload = "operator"]]
            /\ Goes(i, [job[i] EXCEPT !.pc = "write", !.outcome = "operator"])
       ELSE Throws(i, "fatal") /\ UNCHANGED dis
    /\ UNCHANGED <<op, att, res>>
    /\ NoCall

\* The operation never reached a host.  The block is ended in the runtime by
\* three calls, each awaited: query, activate unless it is active, fail.
ApplyLocal(i) ==
    /\ At(i, "ask")
    /\ act[i].plan = "local"
    /\ Calls(i, Query, LAMBDA class : Goto(i, IF class = "missing" THEN "fence"
                                             ELSE IF rt.phase = "preparing" THEN "begin"
                                             ELSE "withdraw"))
    /\ UNCHANGED tables
    /\ Still

LocalBegins(i) ==
    /\ At(i, "begin")
    /\ Calls(i, Activate(job[i].attempt),
             LAMBDA class : IF class = "ok" THEN Goto(i, "withdraw") ELSE Throws(i, class))
    /\ UNCHANGED tables
    /\ Still

LocalFails(i) ==
    /\ At(i, "withdraw")
    /\ Calls(i, Fail(job[i].attempt, "cancelled"),
             LAMBDA class : IF class = "ok" THEN Goto(i, "fence") ELSE Throws(i, class))
    /\ UNCHANGED tables
    /\ Still

\* finalizeFencedAttempt
Fence(i) ==
    LET l == act[i].lease
    IN  /\ At(i, "fence")
        /\ IF cur # job[i].attempt \/ res[l].status = "active" \/ FinalizeError(l, "cancelled") # "none"
           THEN Throws(i, "fatal") /\ UNCHANGED <<op, att, res>>
           ELSE Finalized(l, "cancelled") /\ Goto(i, "settled")
        /\ UNCHANGED dis
        /\ NoCall

ApplyResume(i) ==
    /\ At(i, "ask")
    /\ act[i].plan = "resume"
    /\ Calls(i, ResumeAttempt(job[i].attempt),
             LAMBDA class : IF class = "ok" THEN Goto(i, "resumed") ELSE Throws(i, class))
    /\ UNCHANGED tables
    /\ Still

\* Mutant of TakesLease: the attempt may have moved on since the decision.
TakesLeaseUnversioned(i) ==
    /\ res[act[i].lease].status = "expired"
    /\ res[act[i].fresh].status = "unused"
    /\ act[i].fresh \notin past
    /\ cur = act[i].attempt

\* resumeSameAttempt
TakesLease(i) ==
    /\ res[act[i].lease].status = "expired"
    /\ res[act[i].fresh].status = "unused"
    /\ act[i].fresh \notin past
    /\ cur = act[i].attempt
    /\ att[cur] = [status |-> "interrupted", version |-> act[i].version, lease |-> act[i].lease]

TakeLease(i) ==
    /\ res' = [res EXCEPT ![act[i].fresh] = [status |-> "active", attempt |-> cur]]
    /\ att' = [att EXCEPT ![cur] = [status |-> "activated", version |-> @.version + 1,
                                    lease |-> act[i].fresh]]
    /\ op' = [op EXCEPT !.state = "activated"]

\* resumeSameAttempt and enqueueResume follow each other without an await.
Resume(i) ==
    /\ At(i, "resumed")
    /\ \/ /\ TakesLease(i)
          /\ TakeLease(i)
          /\ IF Resumable(i) THEN EnqueueResume(i)
             ELSE Throws(i, "fatal") /\ UNCHANGED <<dis, toHost>>
       \/ /\ ~TakesLease(i)
          /\ Throws(i, "fatal")
          /\ UNCHANGED <<tables, toHost>>
    /\ UNCHANGED <<todo, past, changed, route, host, toServer, rt, faults>>

ApplyRetry(i) ==
    /\ At(i, "ask")
    /\ act[i].plan = "retry"
    /\ Calls(i, RetryAttempt(job[i].attempt, act[i].fresh),
             LAMBDA class : IF class = "ok" \/ (class = "missing" /\ dis[job[i].attempt].status = "none")
                            THEN Goto(i, "retried")
                            ELSE Throws(i, class))
    /\ UNCHANGED tables
    /\ Still

\* RemoteOperationRepository.retryAttempt
Retry(i) ==
    LET lets == /\ cur = job[i].attempt
                /\ att[cur].version = act[i].version
                /\ att[cur].status \in Parked
                /\ att[cur].lease # 0 /\ Fenced(cur)
                /\ att[act[i].fresh].status = "none"
    IN  /\ At(i, "retried")
        /\ IF lets
           THEN /\ att' = [att EXCEPT ![cur] = Passed(att[cur], "superseded"),
                                      ![act[i].fresh] = [status |-> "prepared", version |-> 0,
                                                         lease |-> 0]]
                /\ op' = [state |-> "claimed", attempt |-> act[i].fresh]
                /\ Goto(i, "reenter")
           ELSE Throws(i, "fatal") /\ UNCHANGED <<op, att>>
        /\ UNCHANGED <<dis, res>>
        /\ NoCall

\* The end of recover for a failure.
Check(i) ==
    /\ At(i, "check")
    /\ IF FailApplied(i) = "yes" THEN Goto(i, "settled") ELSE Throws(i, "fatal")
    /\ UNCHANGED tables
    /\ NoCall

CompleteApplication(i) ==
    /\ job[i].pc \in {"settled", "delivered"}
    /\ act' = [act EXCEPT ![i] = [@ EXCEPT !.state = job[i].pc, !.claimed = FALSE, !.plan = "none"]]
    /\ job' = [job EXCEPT ![i] = NoJob]
    /\ UNCHANGED <<tables, starting>>
    /\ NoCall

ActionStep(i) ==
    \/ Recover(i) \/ ApplyCommand(i) \/ ApplyBlock(i) \/ ApplyFail(i)
    \/ ApplyLocal(i) \/ LocalBegins(i) \/ LocalFails(i) \/ Fence(i)
    \/ ApplyResume(i) \/ Resume(i) \/ ApplyRetry(i) \/ Retry(i) \/ Check(i) \/ CompleteApplication(i)

-----------------------------------------------------------------------------
(* The maintenance sweep; at startup it runs before anything else.           *)

\* Mutant of Recoverable: a dispatch on its way to the host is not looked at.
RecoverableRunning(a) == dis[a].status \in {"leased", "running"} /\ dis[a].lease \in past

Recoverable(a) == dis[a].status \in Live /\ dis[a].lease \in past

\* Mutant of Unsettled: a claim that a stop left behind hides the action.
UnsettledUnclaimed == {i \in Actions : act[i].state = "recorded" /\ ~act[i].claimed}

Unsettled == {i \in Actions : act[i].state = "recorded"}

\* recoverExpiredLeases
SweepStart ==
    /\ job[Sweep].pc \in Ended
    /\ job' = [job EXCEPT ![Sweep] = [NoJob EXCEPT !.pc = "due"]]
    /\ dis' = [a \in Attempts |->
                 IF Recoverable(a)
                 THEN [dis[a] EXCEPT !.status = "interrupted", !.intr = "lease_lost", !.payload = "none"]
                 ELSE dis[a]]
    /\ UNCHANGED <<op, att, res, act, starting>>
    /\ NoCall

\* expireDue, and the list of the actions to reconcile
SweepDue ==
    /\ At(Sweep, "due")
    /\ Release({l \in past : res[l].status = "active"}, "expired")
    /\ todo' = Unsettled
    /\ Goto(Sweep, "actions")
    /\ UNCHANGED <<dis, past, changed, route, host, wire, rt, faults>>

\* runSingleFlight: a running application is awaited, a new one needs the claim.
SweepAction ==
    LET i == Least(todo)
        claims == act[i].state = "recorded" /\ (starting \/ ~act[i].claimed)
    IN  /\ At(Sweep, "actions")
        /\ todo # {}
        /\ \/ /\ job[i].pc \notin Ended
              /\ Goto(Sweep, "awaiting")
           \/ /\ job[i].pc \in Ended /\ claims
              /\ job' = [job EXCEPT ![Sweep].pc = "awaiting",
                                    ![i] = [NoJob EXCEPT !.pc = "recover", !.mode = "recover"]]
              /\ act' = [act EXCEPT ![i].claimed = TRUE]
              /\ UNCHANGED starting
           \/ /\ job[i].pc \in Ended /\ ~claims
              /\ Goto(Sweep, "aborted")
        /\ UNCHANGED <<tables>>
        /\ NoCall

SweepAwaited ==
    LET i == Least(todo)
    IN  /\ At(Sweep, "awaiting")
        /\ job[i].pc \in Ended
        /\ IF job[i].pc = "refused"
           THEN Goto(Sweep, "aborted") /\ UNCHANGED todo
           ELSE /\ job' = [job EXCEPT ![Sweep].pc = "actions"]
                /\ act' = [act EXCEPT ![i].claimed = FALSE]
                /\ todo' = todo \ {i}
                /\ UNCHANGED starting
        /\ UNCHANGED <<tables, past, changed, route, host, wire, rt, faults>>

SweepReenters ==
    /\ At(Sweep, "actions")
    /\ todo = {}
    /\ Goto(Sweep, "reenter")
    /\ UNCHANGED tables
    /\ NoCall

SweepStep == SweepStart \/ SweepDue \/ SweepAction \/ SweepAwaited \/ SweepReenters

-----------------------------------------------------------------------------
(* Host events at the server (wsServer.ts, dispatches.ts).                   *)

\* settleAttemptCommands goes through the actions in order and throws at one
\* whose application is claimed, or whose plan was kept: toRecord admits a plan
\* only in a recorded row.  The event then stays and comes again.
Waiting(a, kind) == {i \in Actions : /\ act[i].attempt = a /\ act[i].kind = kind
                                     /\ act[i].state \in {"recorded", "delivered"}}
Blocking(a, kind) == {i \in Waiting(a, kind) : act[i].claimed \/ act[i].plan # "none"}

SettleCommands(a, kind) ==
    /\ act' = [i \in Actions |->
                 IF i \in Waiting(a, kind) /\ \A k \in Blocking(a, kind) : i < k
                 THEN [act[i] EXCEPT !.state = "settled"] ELSE act[i]]
    /\ toServer' = IF Blocking(a, kind) = {} THEN Tail(toServer) ELSE toServer

EventReady == ~starting /\ toServer # <<>> /\ Free

\* resolveCurrentLease
Current(event) == dis[event.attempt].status # "none" /\ dis[event.attempt].lease = event.lease

ServerAccepted ==
    LET event == Head(toServer)
        a == event.attempt
    IN  /\ EventReady
        /\ event.type = "accepted"
        /\ dis' = IF Current(event) /\ event.lease \notin past /\ dis[a].status = "leased"
                  THEN [dis EXCEPT ![a].status = "running"] ELSE dis
        /\ SettleCommands(a, "resume")
        /\ UNCHANGED <<op, att, res, job, todo, starting, rt, host, toHost, clock>>

ServerInterrupted ==
    LET event == Head(toServer)
        a == event.attempt
    IN  /\ EventReady
        /\ event.type \in {"resumable", "manual", "lease_lost"}
        /\ dis' = IF Current(event) /\ event.lease \notin past /\ dis[a].status \in {"running", "cancelling"}
                  THEN [dis EXCEPT ![a] = [@ EXCEPT !.status = "interrupted", !.intr = event.type]]
                  ELSE dis
        /\ toServer' = Tail(toServer)
        /\ UNCHANGED <<op, att, res, act, job, todo, starting, rt, host, toHost, clock>>

PendingCancellation(a) == \E i \in Waiting(a, "cancel") : act[i].lease = dis[a].lease

\* Mutant of AcceptsTerminal: a second result replaces the first.
AcceptsTerminalAgain(a, type) == dis[a].status \notin {"none", "leased"} \cup Terminal

\* canAcceptTerminalHostResult, and the cancellation of an interrupted execution
AcceptsTerminal(a, type) ==
    \/ dis[a].status \in {"running", "cancelling"}
    \/ dis[a].status = "interrupted" /\ dis[a].intr = "lease_lost"
    \/ dis[a].status = "interrupted" /\ type = "cancelled" /\ PendingCancellation(a)

\* recordCompleted, recordFailed; then the write-back, if the operation still
\* has this dispatch and this lease.
ServerTerminal ==
    LET event == Head(toServer)
        a == event.attempt
        records == Current(event) /\ AcceptsTerminal(a, event.type)
        writes == /\ Current(event)
                  /\ records \/ dis[a].status = "awaiting_writeback"
                  /\ Blocking(a, "cancel") = {}
                  /\ At(Ws(a), "idle")
                  /\ a = cur /\ att[a].lease = event.lease
    IN  /\ EventReady
        /\ event.type \in Terminal
        /\ dis' = IF records
                  THEN [dis EXCEPT ![a] = [@ EXCEPT !.status = "awaiting_writeback",
                                                    !.payload = event.type, !.intr = "none"]]
                  ELSE dis
        /\ SettleCommands(a, "cancel")
        /\ job' = IF writes THEN [job EXCEPT ![Ws(a)] = [NoJob EXCEPT !.pc = "write",
                                                                     !.outcome = dis'[a].payload]]
                  ELSE job
        /\ UNCHANGED <<op, att, res, todo, starting, rt, host, toHost, clock>>

ServerEvent == ServerAccepted \/ ServerInterrupted \/ ServerTerminal

-----------------------------------------------------------------------------
(* The agent host (agent-host/src/state/agentHostState.ts).                  *)

HostOnly == UNCHANGED <<server, rt, clock>>
Held == {"accepted", "running", "resuming"}
Says(a, type) == toServer' = Append(toServer, [type |-> type, attempt |-> a, lease |-> exec[a].lease])

HostExecute ==
    LET m == Head(toHost)
    IN  /\ m.type = "execute"
        /\ exec' = [exec EXCEPT ![m.attempt] = [status |-> "accepted", lease |-> m.lease, cancel |-> FALSE]]
        /\ UNCHANGED <<stopped, toServer>>

\* applyCancellation
HostCancel ==
    LET m == Head(toHost)
        e == exec[m.attempt]
        hits == e.lease = m.lease
    IN  /\ m.type = "cancel"
        /\ IF hits /\ e.status \in {"accepted", "interrupted"}
           THEN exec' = [exec EXCEPT ![m.attempt].status = "done"] /\ Says(m.attempt, "cancelled")
           ELSE /\ exec' = [exec EXCEPT ![m.attempt].cancel = @ \/ (hits /\ e.status \in Held)]
                /\ UNCHANGED toServer
        /\ UNCHANGED stopped

\* authorizeResume
HostResume ==
    LET m == Head(toHost)
    IN  /\ m.type = "resume"
        /\ IF exec[m.attempt].status = "interrupted"
           THEN /\ exec' = [exec EXCEPT ![m.attempt] = [@ EXCEPT !.status = "resuming", !.lease = m.lease]]
                /\ UNCHANGED stopped
           ELSE stopped' = TRUE /\ UNCHANGED exec
        /\ UNCHANGED toServer

HostReceive ==
    /\ toHost # <<>>
    /\ ~stopped
    /\ HostExecute \/ HostCancel \/ HostResume
    /\ toHost' = Tail(toHost)
    /\ HostOnly

\* startExecution, startResumption
HostStart(a) ==
    /\ exec[a].status \in {"accepted", "resuming"}
    /\ exec[a].lease \notin past
    /\ exec' = [exec EXCEPT ![a].status = "running"]
    /\ Says(a, "accepted")
    /\ UNCHANGED <<stopped, toHost>>
    /\ HostOnly

\* completeExecution, failExecution
HostFinish(a, outcome) ==
    /\ exec[a].status = "running"
    /\ exec[a].lease \notin past
    /\ outcome = "cancelled" => exec[a].cancel
    /\ exec' = [exec EXCEPT ![a].status = "done"]
    /\ Says(a, outcome)
    /\ UNCHANGED <<stopped, toHost>>
    /\ HostOnly

\* expireExecution, by the host's own clock and the expiry it last heard of
HostExpire(a, kind) ==
    /\ exec[a].status \in Held
    /\ IF exec[a].status = "accepted"
       THEN exec' = [exec EXCEPT ![a].status = "done"] /\ Says(a, "failed")
       ELSE exec' = [exec EXCEPT ![a].status = "interrupted"] /\ Says(a, kind)
    /\ UNCHANGED <<stopped, toHost>>
    /\ HostOnly

\* recoverInterruptedExecutions: every execution that holds a lease
HostRestart(kind) ==
    LET held == SelectSeq([a \in Attempts |-> a], LAMBDA a : exec[a].status \in Held)
    IN  /\ faults < MaxFaults
        /\ faults' = faults + 1
        /\ held # <<>>
        /\ exec' = [a \in Attempts |-> IF exec[a].status \in Held
                                       THEN [exec[a] EXCEPT !.status = "interrupted"] ELSE exec[a]]
        /\ toServer' = toServer \o [k \in 1..Len(held) |->
                                       [type |-> kind, attempt |-> held[k], lease |-> exec[held[k]].lease]]
        /\ UNCHANGED <<server, rt, stopped, toHost, past, changed, route>>

HostStep == \E a \in Attempts : \/ HostStart(a)
                                \/ \E outcome \in Terminal : HostFinish(a, outcome)

-----------------------------------------------------------------------------
(* Time, crashes and the package. *)

\* The lease in use, or promised to a resume, passes its expiry.
Tick(l) ==
    /\ l \notin past
    /\ \/ res[l].status = "active"
       \/ \E a \in Attempts : dis[a].lease = l /\ dis[a].status \in Live
       \/ \E i \in Actions : act[i].kind = "resume" /\ act[i].fresh = l /\ act[i].state = "recorded"
    /\ past' = past \cup {l}
    /\ UNCHANGED <<server, rt, changed, route, host, wire, faults>>

Fault == faults < MaxFaults /\ faults' = faults + 1

Dies == /\ job' = [j \in Jobs |-> NoJob]
        /\ todo' = {}
        /\ starting' = TRUE
        /\ UNCHANGED act

Crash ==
    /\ Fault
    /\ Dies
    /\ UNCHANGED <<tables, rt, host, wire, past, changed, route>>

\* between resumeSameAttempt and enqueueResume
CrashInResume(i) ==
    /\ Fault
    /\ Runs(i)
    /\ At(i, "resumed")
    /\ TakesLease(i)
    /\ TakeLease(i)
    /\ Dies
    /\ UNCHANGED <<dis, rt, host, wire, past, changed, route>>

EditPackage ==
    /\ Fault
    /\ ~changed
    /\ changed' = TRUE
    /\ UNCHANGED <<server, rt, host, wire, past, route>>

\* The block's state is reset in the runtime.
RuntimeReset ==
    /\ Fault
    /\ rt.phase \notin {"lost", "ended"}
    /\ rt' = [phase |-> "lost", attempt |-> 0, outcome |-> "none"]
    /\ UNCHANGED <<server, host, wire, past, changed, route>>

Next ==
    \/ \E j \in Jobs : Runs(j) /\ JobStep(j)
    \/ \E i \in Actions : Runs(i) /\ ActionStep(i)
    \/ Runs(Sweep) /\ SweepStep
    \/ \E i \in Actions : CrashInResume(i)
    \/ \E i \in Actions, kind \in Kinds, stale \in 0..1 : Submit(i, kind, stale)
    \/ ServerEvent
    \/ HostReceive
    \/ HostStep
    \/ \E a \in Attempts, kind \in {"resumable", "lease_lost"} : HostExpire(a, kind)
    \/ \E kind \in {"resumable", "manual"} : HostRestart(kind)
    \/ \E l \in Leases : Tick(l)
    \/ Crash \/ EditPackage \/ RuntimeReset

Spec == Init /\ [][Next]_dvars

\* The event loop goes on with every job that can go on, and the maintenance
\* timer starts the next sweep.  Nothing is assumed of hosts and people.
FairSpec ==
    /\ Spec
    /\ WF_dvars(Runs(Sweep) /\ (JobStep(Sweep) \/ SweepStep))
    /\ WF_dvars(\E i \in Actions : Runs(i) /\ (JobStep(i) \/ ActionStep(i)))
    /\ WF_dvars(\E a \in Attempts : Runs(Ws(a)) /\ JobStep(Ws(a)))

-----------------------------------------------------------------------------
(* Properties *)

\* The tables hold the states their schemas name.
DispatchTypeOK ==
    /\ op \in [state : {"claimed", "reserved", "activated", "awaiting_writeback"} \cup Parked \cup Terminal,
              attempt : Attempts]
    /\ att \in [Attempts -> [status : {"none", "prepared", "reserved", "activated", "awaiting_writeback",
                                       "superseded"} \cup Parked \cup Terminal,
                             version : Nat, lease : {0} \cup Leases]]
    /\ dis \in [Attempts -> [status : {"none", "interrupted", "awaiting_writeback"} \cup Live \cup Terminal,
                             lease : {0} \cup Leases, payload : {"none", "operator"} \cup Terminal,
                             intr : {"none", "resumable", "manual", "lease_lost"}]]
    /\ res \in [Leases -> [status : {"unused", "active", "released", "expired", "cancelled"},
                           attempt : {0} \cup Attempts]]
    /\ rt \in [phase : {"lost", "preparing", "active", "resumable", "manual", "diverged", "ended"},
               attempt : {0} \cup Attempts, outcome : {"none", "operator", "rejected"} \cup Terminal]
    /\ todo \subseteq Actions
    /\ past \subseteq Leases

\* Who may work is never in doubt: an active reservation is the lease of the
\* current attempt, and a dispatch that waits for its host is under the lease
\* its attempt has (the agreement that renewCurrentLease demands).  Crashes,
\* resumes and retries come between the three tables.
LeaseAuthority ==
    /\ \A l \in Leases : res[l].status = "active" => res[l].attempt = cur /\ att[cur].lease = l
    /\ dis[cur].status \in Live /\ op.state \notin Terminal => dis[cur].lease = att[cur].lease

\* An operation is reported as completed, and so is a dispatch, only when the
\* block has been completed in the runtime: whatever crashed, raced or was lost
\* between the call and the two records.
CompletedIsWritten ==
    (op.state = "completed" \/ \E a \in Attempts : dis[a].status = "completed")
        => rt.phase = "ended" /\ rt.outcome = "completed"

\* A block ends with what was recorded for the attempt that ended it: the
\* host's result or the operator's failure, and rejected only for a result that
\* was there.  Two write-backs, a sweep and an action may hold different ones.
WrittenAsRecorded ==
    rt.phase = "ended" /\ rt.outcome # "cancelled" =>
        dis[rt.attempt].payload = IF rt.outcome = "rejected" THEN "completed" ELSE rt.outcome

\* An operation that has ended is not reopened and does not change its outcome:
\* not by a late result, an expired lease, a resume or retry decided before, or
\* a plan that a sweep takes up again.
TerminalIsFinal == [][op.state \in Terminal => op' = op]_dvars

\* An action is still to be applied by a plan that was made for an attempt that
\* is no longer there (and is not a retry that has got as far as its own).
Outlived ==
    \E i \in Actions :
        /\ act[i].plan # "none"
        /\ act[i].attempt # cur
        /\ act[i].kind = "retry" => act[i].fresh # cur

\* The operation and the block never end differently: an operation is only
\* completed when the block has this attempt's result, and what the runtime has
\* written is what the operation ends with, whatever crashed or raced in
\* between.  Plans that have outlived their attempt break it (StalePlan).
OutcomesAgree ==
    op.state \in Terminal /\ ~Outlived =>
        /\ op.state = "completed" => rt = [phase |-> "ended", attempt |-> cur, outcome |-> "completed"]
        /\ rt.outcome \in {"completed", "cancelled"} => op.state = rt.outcome
        /\ rt.outcome \in {"failed", "operator", "rejected"} => op.state = "failed"

\* Only the current attempt ends the block: the late result of an attempt that
\* a retry has replaced is never written, as long as no plan has outlived its
\* attempt.
StaleNeverWrites == rt.phase = "ended" /\ ~Outlived => rt.attempt = cur

\* An action meets the attempt it was made for or is rejected
\* (assertCommonIdentity): a block only ends as cancelled when the cancellation
\* of that attempt was asked for, or recorded by its dispatch.
CancelledOnRequest ==
    rt.phase = "ended" /\ rt.outcome = "cancelled" =>
        \/ dis[rt.attempt].payload = "cancelled"
        \/ \E i \in Actions : act[i].kind = "cancel" /\ act[i].attempt = rt.attempt

\* A terminal payload, once recorded for a dispatch, is not lost and not
\* replaced: not by lease recovery, a reset, an operator or another event.
AcceptedResultKept ==
    [][\A a \in Attempts : dis[a].payload # "none" => dis'[a].payload = dis[a].payload]_dvars

\* A recorded result of the current attempt ends the operation, unless a retry
\* supersedes it or a sweep fails over it: it is never parked in silence.
AcceptedResultSettled ==
    \A a \in Attempts :
        (cur = a /\ dis[a].status = "awaiting_writeback")
            ~> \/ op.state \in Terminal
               \/ att[a].status = "superseded"
               \/ At(Sweep, "aborted")

\* An action of a person is applied, or a sweep fails over it: the claim of a
\* server that has died does not keep it.
ActionsReconciled ==
    \A i \in Actions :
        act[i].state = "recorded" ~> act[i].state # "recorded" \/ At(Sweep, "aborted")

\* A host that lets its lease run out does not hold its dispatch for ever.
ExpiredRecovered ==
    \A a \in Attempts :
        (dis[a].status \in Live /\ dis[a].lease \in past)
            ~> ~(dis[a].status \in Live /\ dis[a].lease \in past)

\* dispatches.ts accepts a host's result after the lease was lost, so that the
\* work is not shown as lost: the runtime must then still take the result.
LateResultWritable ==
    /\ op.state \notin Terminal
    /\ dis[cur].status = "awaiting_writeback"
    /\ dis[cur].payload = "completed"
    => rt.attempt = cur /\ rt.phase \in {"active", "resumable", "ended"}
=============================================================================
