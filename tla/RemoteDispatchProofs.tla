------------------------- MODULE RemoteDispatchProofs -------------------------
(***************************************************************************)
(* What RemoteDispatch's tables hold, that a recorded result stays, and    *)
(* that the block ends with it before anything is reported as completed,   *)
(* for any number of attempts, leases, actions of people and faults.       *)
(***************************************************************************)
EXTENDS RemoteDispatch, TLAPS, WellFoundedInduction

OpTypes == [state : {"claimed", "reserved", "activated", "awaiting_writeback"} \cup Parked \cup Terminal,
            attempt : Attempts]
AttTypes == [status : {"none", "prepared", "reserved", "activated", "awaiting_writeback",
                       "superseded"} \cup Parked \cup Terminal,
             version : Nat, lease : {0} \cup Leases]
DisTypes == [status : {"none", "interrupted", "awaiting_writeback"} \cup Live \cup Terminal,
             lease : {0} \cup Leases, payload : {"none", "operator"} \cup Terminal,
             intr : {"none", "resumable", "manual", "lease_lost"}]
ResTypes == [status : {"unused", "active", "released", "expired", "cancelled"},
             attempt : {0} \cup Attempts]
RtTypes == [phase : {"lost", "preparing", "active", "resumable", "manual", "diverged", "ended"},
            attempt : {0} \cup Attempts, outcome : {"none", "operator", "rejected"} \cup Terminal]

Points == Ended \cup Unyielding \cup
          {"acquired", "claim", "reconcile", "reset", "persisted", "activate", "enqueue", "mark",
           "write", "call", "reject", "finish", "seal", "force", "ask", "begin", "withdraw", "fence", "resumed",
           "retried", "awaiting"}
JobTypes == [pc : Points, attempt : {0} \cup Attempts, lease : {0} \cup Leases, reuse : BOOLEAN,
             seen : {"none", "claimed", "reserved", "activated", "awaiting_writeback"}
                        \cup Parked \cup Terminal,
             outcome : {"none", "operator", "rejected", "bound", "unbound", "resumable", "manual"}
                           \cup Terminal,
             mode : {"plain", "sealing", "recover", "apply"}]
ActTypes == [state : {"unused", "recorded", "delivered", "settled"},
             kind : {"none", "cancel", "block", "fail", "resume", "retry"},
             attempt : {0} \cup Attempts, lease : {0} \cup Leases, version : Nat, fresh : Nat,
             plan : {"none", "resume", "retry", "fail", "block", "local", "command"},
             claimed : BOOLEAN, sent : BOOLEAN]

\* A record a job may have at any point but the ones listed, whatever the job.
Marked == {"call", "mark", "recover", "retried", "resumed"}
Plain(r) == r \in JobTypes /\ r.pc \notin Marked

\* What a job at a point that writes what it holds, or what its action says,
\* holds: a payload, an interruption, an action of the kind it applies.
Holds(j, r) ==
    /\ r.pc = "call" => r.outcome \in {"none", "operator"} \cup Terminal
    /\ r.pc = "mark" => r.outcome \in {"resumable", "manual"}
    /\ j \in Actions => /\ r.pc = "recover" => act[j].kind # "none"
                        /\ r.pc = "retried" => act[j].kind = "retry"
                        /\ r.pc = "resumed" => act[j].kind = "resume"

\* A recorded action has a kind; a retry has been promised an attempt, a
\* resume a lease, and its plan is of its kind.
Promised(x) ==
    /\ x.state = "recorded" => x.kind # "none"
    /\ x.kind = "retry" => x.fresh \in Attempts
    /\ x.kind = "resume" => x.fresh \in Leases
    /\ x.plan = "retry" => x.kind = "retry"
    /\ x.plan = "resume" => x.kind = "resume"

Control ==
    /\ job \in [Jobs -> JobTypes]
    /\ act \in [Actions -> ActTypes]
    /\ \A j \in Jobs : Holds(j, job[j])
    /\ \A i \in Actions : Promised(act[i])

\* A dispatch that has not come to an end has no result.
Open == {"none", "interrupted"} \cup Live
Unrecorded(d) == d.status \in Open => d.payload = "none"

Leased == op \in OpTypes /\ att \in [Attempts -> AttTypes] /\ res \in [Leases -> ResTypes]
Dispatched == dis \in [Attempts -> DisTypes] /\ \A a \in Attempts : Unrecorded(dis[a])

DInv ==
    /\ Leased
    /\ Dispatched
    /\ rt \in RtTypes
    /\ todo \subseteq Actions
    /\ past \subseteq Leases
    /\ Control

\* What a step keeps of the results.
Kept == \A a \in Attempts : dis[a].payload # "none" => dis'[a].payload = dis[a].payload

StepOK == DInv' /\ Kept

-----------------------------------------------------------------------------
(* Points of jobs. *)

LEMMA Numbers ==
    /\ MaxActions \in Nat /\ MaxAttempts \in Nat /\ MaxLeases \in Nat
    /\ 0 \in Jobs /\ Actions \subseteq Jobs /\ Sweep \in Jobs /\ Sweep \notin Actions
    /\ \A a \in Attempts : Ws(a) \in Jobs /\ Ws(a) \notin Actions /\ Ws(a) # Sweep
    /\ Attempts \subseteq Nat /\ Leases \subseteq Nat /\ 0 \notin Attempts /\ 0 \notin Leases
    /\ 1 \in Attempts
  BY RemoteDispatchAssumption DEF Jobs, Actions, Sweep, Attempts, Leases, Ws

\* An idle job is at a point that asks for nothing.
LEMMA NoJobPlain == Plain(NoJob)
  <1>1. NoJob \in JobTypes
    BY DEF NoJob, JobTypes, Points, Ended
  <1>2. NoJob.pc \notin Marked
    BY DEF NoJob, Marked
  <1> QED BY <1>1, <1>2 DEF Plain

\* A job moves to a record that suits it.
LEMMA Moves ==
    ASSUME Control, NEW j \in Jobs, NEW r \in JobTypes, Holds(j, r),
           job' = [job EXCEPT ![j] = r], act' = act
    PROVE  Control'
  <1>1. job' \in [Jobs -> JobTypes] /\ act' \in [Actions -> ActTypes]
    BY DEF Control
  <1>2. \A k \in Jobs : Holds(k, job[k])
    BY DEF Control
  <1>3. ASSUME NEW k \in Jobs PROVE Holds(k, job'[k])
    <2>1. CASE k = j
      BY <2>1 DEF Control
    <2>2. CASE k # j
      BY <1>2, <2>2 DEF Control
    <2> QED BY <2>1, <2>2
  <1>4. \A k \in Jobs : Holds(k, job[k])'
    BY <1>3 DEF Holds
  <1>5. \A i \in Actions : Promised(act[i])'
    BY DEF Control, Promised
  <1> QED BY <1>1, <1>4, <1>5 DEF Control

\* A job at a point that asks for nothing holds all it needs.
LEMMA PlainHolds == ASSUME NEW j, NEW r, Plain(r) PROVE r \in JobTypes /\ Holds(j, r)
  BY DEF Plain, Holds, Marked

\* A job may go to any point that asks for nothing.
LEMMA PlainMoves ==
    ASSUME Control, NEW j \in Jobs, NEW r, Plain(r), Goes(j, r)
    PROVE  Control'
  BY PlainHolds, Moves DEF Goes

\* A job moves to another point and keeps what it holds.
LEMMA AtPoint ==
    ASSUME NEW r \in JobTypes, NEW pc \in Points \ Marked
    PROVE  Plain([r EXCEPT !.pc = pc])
  BY DEF Plain, JobTypes

\* Going on with what it holds, to a point that asks for nothing, keeps Control.
LEMMA GotoMoves ==
    ASSUME Control, NEW j \in Jobs, NEW pc \in Points \ Marked, Goto(j, pc)
    PROVE  Control'
  <1>1. job[j] \in JobTypes
    BY DEF Control
  <1>2. Plain([job[j] EXCEPT !.pc = pc])
    BY <1>1, AtPoint
  <1> QED BY <1>2, PlainMoves DEF Goto

\* A step that writes fields of one action that say nothing of its kind, and
\* moves its job.
LEMMA ActionMoves ==
    ASSUME Control, NEW i \in Actions, NEW j \in Jobs, NEW r, Plain(r),
           NEW x \in ActTypes, Promised(x), x.kind = act[i].kind,
           job' = [job EXCEPT ![j] = r], act' = [act EXCEPT ![i] = x]
    PROVE  Control'
  <1>1. /\ job' \in [Jobs -> JobTypes] /\ act' \in [Actions -> ActTypes]
        /\ \A k \in Actions : act'[k].kind = act[k].kind
    BY PlainHolds DEF Control
  <1>2. \A k \in Actions : Promised(act'[k])
    BY DEF Control
  <1>3. ASSUME NEW k \in Jobs PROVE Holds(k, job[k])'
    <2>1. Holds(k, job'[k])
      <3>1. CASE k = j
        BY <3>1, PlainHolds DEF Control
      <3>2. CASE k # j
        BY <3>2 DEF Control
      <3> QED BY <3>1, <3>2
    <2> QED BY <2>1, <1>1 DEF Holds
  <1> QED BY <1>1, <1>2, <1>3 DEF Control, Promised

-----------------------------------------------------------------------------
(* How a job ends, whatever the tables. *)

LEMMA JobTyped == ASSUME Control, NEW j \in Jobs PROVE job[j] \in JobTypes
  BY DEF Control

\* The points at which a job ends ask for nothing.
LEMMA Finals ==
    ASSUME NEW pc \in {"aborted", "refused", "deferred", "idle"}
    PROVE  Plain([NoJob EXCEPT !.pc = pc])
  <1>1. pc \in Points \ Marked
    BY DEF Points, Ended, Marked
  <1> QED BY <1>1, NoJobPlain, AtPoint DEF Plain

\* An error ends the sweep or sends it on, with nothing in its hands.
LEMMA SweepThrowsMoves == ASSUME Control, NEW class, SweepThrows(class) PROVE Control'
  <1>1. Sweep \in Jobs /\ job[Sweep] \in JobTypes
    BY Numbers, JobTyped
  <1>2. PICK r : Plain(r) /\ job' = [job EXCEPT ![Sweep] = r]
    <2>1. {"seal", "force"} \subseteq Points \ Marked
      BY DEF Points, Marked
    <2>2. /\ Plain([job[Sweep] EXCEPT !.pc = "seal"]) /\ Plain([job[Sweep] EXCEPT !.pc = "force"])
          /\ Plain([NoJob EXCEPT !.pc = "aborted"])
      BY <1>1, <2>1, AtPoint, Finals
    <2> QED BY <2>2, NoJobPlain DEF SweepThrows
  <1> QED BY <1>1, <1>2, PlainHolds, Moves DEF SweepThrows

\* An error of an action leaves it recorded as it was promised.
LEMMA ActionThrowsMoves ==
    ASSUME Control, NEW i \in Actions, NEW class, ActionThrows(i, class)
    PROVE  Control'
  <1>1. i \in Jobs /\ job[i] \in JobTypes /\ act[i] \in ActTypes /\ Promised(act[i])
    BY Numbers DEF Control
  <1>2. {"settled", "seal", "force"} \subseteq Points \ Marked
    BY DEF Points, Marked, Unyielding
  <1>3. CASE Goto(i, "settled") \/ Goto(i, "seal") \/ Goto(i, "force")
    BY <1>1, <1>2, <1>3, GotoMoves
  <1>4. CASE \E pc \in {"deferred", "refused"}, b \in BOOLEAN :
               /\ job' = [job EXCEPT ![i] = [NoJob EXCEPT !.pc = pc]]
               /\ act' = [act EXCEPT ![i].claimed = b]
    <2>1. PICK pc \in {"deferred", "refused"}, b \in BOOLEAN :
               /\ job' = [job EXCEPT ![i] = [NoJob EXCEPT !.pc = pc]]
               /\ act' = [act EXCEPT ![i].claimed = b]
      BY <1>4
    <2> DEFINE x == [act[i] EXCEPT !.claimed = b]
    <2>2. act' = [act EXCEPT ![i] = x]
      BY <2>1
    <2>3. x \in ActTypes /\ x.kind = act[i].kind /\ Promised(x)
      BY <1>1 DEF ActTypes, Promised
    <2> HIDE DEF x
    <2>4. Plain([NoJob EXCEPT !.pc = pc])
      BY Finals
    <2> QED BY <1>1, <2>1, <2>2, <2>3, <2>4, ActionMoves
  <1> QED BY <1>3, <1>4 DEF ActionThrows

\* However a job throws, Control is kept.
LEMMA ThrowsMoves == ASSUME Control, NEW j \in Jobs, NEW class, Throws(j, class) PROVE Control'
  <1>1. CASE j = Sweep
    BY <1>1, SweepThrowsMoves DEF Throws
  <1>2. CASE j # Sweep /\ j \in Actions
    BY <1>2, ActionThrowsMoves DEF Throws
  <1>3. CASE j # Sweep /\ j \notin Actions
    BY <1>3, NoJobPlain, PlainMoves DEF Throws
  <1> QED BY <1>1, <1>2, <1>3

\* However a job returns, Control is kept.
LEMMA ReturnsMoves == ASSUME Control, NEW j \in Jobs, Returns(j) PROVE Control'
  <1>1. CASE j = Sweep
    BY <1>1, NoJobPlain, PlainHolds, Moves DEF Returns
  <1>2. CASE j # Sweep /\ j \in Actions
    <2>1. {"check", "settled"} \subseteq Points \ Marked
      BY DEF Points, Marked, Unyielding
    <2> QED BY <1>2, <2>1, GotoMoves DEF Returns
  <1>3. CASE j # Sweep /\ j \notin Actions
    BY <1>3, NoJobPlain, PlainMoves DEF Returns
  <1> QED BY <1>1, <1>2, <1>3

-----------------------------------------------------------------------------
(* The tables. *)

LEMMA CurTyped ==
    ASSUME Leased
    PROVE  /\ cur \in Attempts /\ op \in OpTypes /\ att[cur] \in AttTypes
           /\ att[cur].lease \in {0} \cup Leases /\ att[cur].version \in Nat
  BY DEF Leased, OpTypes, AttTypes, cur

\* An attempt passes to another state.
AttStates == {"none", "prepared", "reserved", "activated", "awaiting_writeback", "superseded",
              "interrupted", "action_required", "completed", "failed", "cancelled"}
\* An attempt that passes to a state of the schema stays in the schema.
LEMMA AttemptPasses ==
    ASSUME NEW r \in AttTypes, NEW s \in AttStates
    PROVE  Passed(r, s) \in AttTypes
  <1>1. AttTypes = [status : AttStates, version : Nat, lease : {0} \cup Leases]
    <2>1. AttStates = {"none", "prepared", "reserved", "activated", "awaiting_writeback",
                       "superseded"} \cup Parked \cup Terminal
      BY DEF AttStates, Parked, Terminal
    <2> QED BY <2>1 DEF AttTypes
  <1>2. r.version + 1 \in Nat
    BY <1>1
  <1> QED BY <1>1, <1>2 DEF Passed

\* Writing one attempt keeps the table in the schema.
LEMMA AttemptWritten ==
    ASSUME Leased, NEW a, NEW r \in AttTypes, att' = [att EXCEPT ![a] = r]
    PROVE  att' \in [Attempts -> AttTypes]
  BY DEF Leased

\* releaseLease writes operation, attempt and reservations within their schemas.
LEMMA ReleaseTyped ==
    ASSUME Leased, NEW ls, NEW reason \in Terminal \cup {"expired"}, Release(ls, reason)
    PROVE  Leased'
  <1> DEFINE status == IF reason = "expired" THEN "interrupted" ELSE reason
  <1>1. status \in Terminal \cup {"interrupted"}
    OBVIOUS
  <1> HIDE DEF status
  <1>2. op' \in OpTypes
    <2>1. \/ op' = op \/ op' = [op EXCEPT !.state = status]
          \/ op' = [op EXCEPT !.state = "awaiting_writeback"]
      BY DEF Release, status
    <2> QED BY <1>1, <2>1 DEF Leased, OpTypes, Parked
  <1>3. att' \in [Attempts -> AttTypes]
    <2>1. att' = [a \in Attempts |-> att'[a]]
      BY DEF Release
    <2>2. ASSUME NEW a \in Attempts PROVE att'[a] \in AttTypes
      <3>1. att[a] \in AttTypes
        BY DEF Leased
      <3>2. \/ att'[a] = att[a]
            \/ att'[a] = Passed(att[a], status)
            \/ att'[a] = Passed(att[a], "awaiting_writeback")
        BY DEF Release, status
      <3>3. status \in AttStates /\ "awaiting_writeback" \in AttStates
        BY <1>1 DEF AttStates, Terminal
      <3> QED BY <3>1, <3>2, <3>3, AttemptPasses
    <2> QED BY <2>1, <2>2
  <1>4. res' \in [Leases -> ResTypes]
    <2>1. res' = [l \in Leases |-> res'[l]]
      BY DEF Release
    <2>2. ASSUME NEW l \in Leases PROVE res'[l] \in ResTypes
      <3>1. res[l] \in ResTypes
        BY DEF Leased
      <3>2. \/ res'[l] = res[l]
            \/ \E s \in {"expired", "cancelled", "released"} : res'[l] = [res[l] EXCEPT !.status = s]
        BY DEF Release
      <3> QED BY <3>1, <3>2 DEF ResTypes
    <2> QED BY <2>1, <2>2
  <1> QED BY <1>2, <1>3, <1>4 DEF Leased

\* finalizeOperationTerminal
LEMMA FinalizesTyped ==
    ASSUME Leased, Control, NEW j \in Jobs, NEW l, NEW status \in Terminal, Finalizes(j, l, status)
    PROVE  Leased' /\ Control'
  <1>1. CASE Finalized(l, status) /\ Returns(j)
    <2>1. Control'
      BY <1>1, ReturnsMoves
    <2>2. CASE Release({l}, status)
      BY <2>1, <2>2, ReleaseTyped
    <2>3. CASE UNCHANGED <<op, att, res>>
      BY <2>1, <2>3 DEF Leased
    <2>4. CASE /\ op' = [op EXCEPT !.state = status]
               /\ att' = [att EXCEPT ![cur] = Passed(att[cur], status)]
               /\ UNCHANGED res
      <3>1. op' \in OpTypes
        BY <2>4, CurTyped DEF OpTypes
      <3>2. status \in AttStates
        BY DEF AttStates, Terminal
      <3>3. Passed(att[cur], status) \in AttTypes
        BY <3>2, CurTyped, AttemptPasses
      <3>4. att' \in [Attempts -> AttTypes]
        BY <2>4, <3>3, AttemptWritten
      <3> QED BY <2>1, <2>4, <3>1, <3>4 DEF Leased
    <2> QED BY <1>1, <2>2, <2>3, <2>4 DEF Finalized
  <1>2. CASE \E class : Throws(j, class) /\ UNCHANGED <<op, att, res>>
    BY <1>2, ThrowsMoves DEF Leased
  <1> QED BY <1>1, <1>2 DEF Finalizes

\* A dispatch passes to another state: what is recorded stays.
Passes(d, e) ==
    /\ d \in DisTypes => e \in DisTypes
    /\ Unrecorded(d) => Unrecorded(e) /\ (d.payload # "none" => e.payload = d.payload)

\* A write of one dispatch that keeps its payload keeps the table and all payloads.
LEMMA DispatchPasses ==
    ASSUME Dispatched, NEW a, NEW e, a \in Attempts => Passes(dis[a], e),
           dis' = [dis EXCEPT ![a] = e]
    PROVE  Dispatched' /\ Kept
  <1>1. dis' \in [Attempts -> DisTypes]
    BY DEF Dispatched, Passes
  <1>2. ASSUME NEW b \in Attempts
        PROVE  Unrecorded(dis'[b]) /\ (dis[b].payload # "none" => dis'[b].payload = dis[b].payload)
    BY DEF Dispatched, Passes
  <1>3. \A b \in Attempts : Unrecorded(dis[b])'
    BY <1>2 DEF Unrecorded
  <1> QED BY <1>1, <1>2, <1>3 DEF Dispatched, Kept

\* A step that leaves the dispatches alone keeps them and their payloads.
LEMMA DispatchStays == ASSUME Dispatched, dis' = dis PROVE Dispatched' /\ Kept
  BY DEF Dispatched, Kept, Unrecorded

\* The states in which a dispatch has an end.
LEMMA EndPasses ==
    ASSUME NEW d \in DisTypes, NEW s \in Terminal
    PROVE  Passes(d, [d EXCEPT !.status = s])
  <1>1. d \in DisTypes => [d EXCEPT !.status = s] \in DisTypes
    BY DEF DisTypes
  <1>2. s \notin Open
    BY DEF Open, Terminal, Live
  <1> QED BY <1>1, <1>2 DEF Passes, Unrecorded, DisTypes

-----------------------------------------------------------------------------
(* The steps of a job between two calls of the runtime. *)

\* The parts of the invariant that the server's tables and jobs make up.
ServerOK == Leased' /\ Dispatched' /\ Kept /\ Control'

\* The four parts of ServerOK and the other variables make up the invariant.
LEMMA Assembled ==
    ASSUME DInv, ServerOK, rt' \in RtTypes, todo' \subseteq Actions, past' \subseteq Leases
    PROVE  StepOK
  BY DEF ServerOK, StepOK, DInv

\* A step that calls nobody needs only ServerOK.
LEMMA Quiet == ASSUME DInv, ServerOK, NoCall PROVE StepOK
  BY Assembled DEF NoCall, Still, DInv

\* A step that leaves the tables alone keeps what is said of them.
LEMMA Untouched == ASSUME DInv, UNCHANGED tables PROVE Leased' /\ Dispatched' /\ Kept
  BY DispatchStays DEF DInv, Leased, tables

\* The parts of the invariant, and the types of the current attempt's rows.
LEMMA Parts ==
    ASSUME DInv
    PROVE  /\ Leased /\ Dispatched /\ Control
           /\ cur \in Attempts /\ dis[cur] \in DisTypes /\ op \in OpTypes /\ att[cur] \in AttTypes
           /\ att[cur].lease \in {0} \cup Leases
  BY CurTyped DEF DInv, Dispatched

\* A job moves and the tables stay.
LEMMA QuietMoves ==
    ASSUME DInv, NEW j \in Jobs, NEW r, Plain(r), Goes(j, r), UNCHANGED tables
    PROVE  ServerOK
  BY Untouched, PlainMoves, Parts DEF ServerOK

\* A job that throws before it has written anything keeps the invariant.
LEMMA QuietThrows ==
    ASSUME DInv, NEW j \in Jobs, NEW class, Throws(j, class), UNCHANGED tables
    PROVE  ServerOK
  BY Untouched, ThrowsMoves, Parts DEF ServerOK

\* A job that returns without a write keeps the invariant.
LEMMA QuietReturns ==
    ASSUME DInv, NEW j \in Jobs, Returns(j), UNCHANGED tables
    PROVE  ServerOK
  BY Untouched, ReturnsMoves, Parts DEF ServerOK

\* A job that goes on without a write keeps the invariant.
LEMMA QuietGoto ==
    ASSUME DInv, NEW j \in Jobs, NEW pc \in Points \ Marked, Goto(j, pc), UNCHANGED tables
    PROVE  ServerOK
  BY Untouched, GotoMoves, Parts DEF ServerOK

\* The operation comes to an end and its dispatch with it, or alone.
LEMMA EndsTogether ==
    ASSUME DInv, NEW j \in Jobs, NEW l, NEW status \in Terminal, Finalizes(j, l, status),
           \/ dis' = dis
           \/ \E s \in Terminal : dis' = [dis EXCEPT ![cur].status = s]
    PROVE  ServerOK
  <1>1. Leased' /\ Control'
    BY Parts, FinalizesTyped
  <1>2. Dispatched' /\ Kept
    <2>1. CASE dis' = dis
      BY <2>1, Parts, DispatchStays
    <2>2. CASE \E s \in Terminal : dis' = [dis EXCEPT ![cur].status = s]
      <3>1. PICK s \in Terminal : dis' = [dis EXCEPT ![cur].status = s]
        BY <2>2
      <3> DEFINE e == [dis[cur] EXCEPT !.status = s]
      <3>2. dis' = [dis EXCEPT ![cur] = e]
        BY <3>1
      <3>3. Passes(dis[cur], e)
        BY Parts, EndPasses
      <3> HIDE DEF e
      <3> QED BY <3>2, <3>3, Parts, DispatchPasses
    <2> QED BY <2>1, <2>2
  <1> QED BY <1>1, <1>2 DEF ServerOK

\* completeWithLease and failWithLease up to their call of the runtime keep the invariant.
LEMMA WritesGood == ASSUME DInv, NEW j \in Jobs, NEW outcome, Writes(j, outcome) PROVE ServerOK
  <1>1. CASE WriteReplays(j)
    <2>1. op.state \in Terminal
      BY <1>1 DEF WriteReplays
    <2>2. \/ Finished(op.state) /\ Finalizes(j, att[cur].lease, op.state)
          \/ \E class : Throws(j, class) /\ UNCHANGED tables
      BY <1>1 DEF WriteReplays
    <2> QED BY <2>1, <2>2, EndsTogether, QuietThrows DEF Finished
  <1>2. CASE WriteCalls(j, outcome)
    <2> DEFINE r == [job[j] EXCEPT !.pc = "call", !.attempt = cur, !.outcome = dis[cur].payload]
    <2>1. Goes(j, r) /\ UNCHANGED tables
      BY <1>2 DEF WriteCalls
    <2>2. dis[cur].payload \in {"none", "operator"} \cup Terminal
      BY Parts DEF DisTypes
    <2>3. r \in JobTypes /\ r.pc = "call" /\ r.outcome \in {"none", "operator"} \cup Terminal
      BY <2>2, Parts, JobTyped DEF JobTypes, Points
    <2> HIDE DEF r
    <2>4. Holds(j, r)
      BY <2>3 DEF Holds
    <2> QED BY <2>1, <2>3, <2>4, Moves, Parts, Untouched DEF ServerOK, Goes
  <1>3. CASE WriteFinalizes(j, outcome)
    <2>1. /\ Finalizes(j, att[cur].lease, dis[cur].status) /\ dis' = dis
          /\ dis[cur].status \in Terminal
      BY <1>3 DEF WriteFinalizes, Terminal
    <2> QED BY <2>1, EndsTogether
  <1>4. CASE WriteRefuses(j, outcome)
    BY <1>4, QuietThrows DEF WriteRefuses
  <1> QED BY <1>1, <1>2, <1>3, <1>4 DEF Writes

\* The entry of the write-back keeps the invariant and every recorded payload.
LEMMA WriteGood == ASSUME DInv, NEW j \in Jobs, Write(j) PROVE StepOK
  BY WritesGood, Quiet DEF Write

\* Every outcome of a dispatch ends the operation.
LEMMA StatusEnds == ASSUME NEW outcome PROVE StatusOf(outcome) \in Terminal
  BY DEF StatusOf, Terminal

\* The end of a write-back keeps the invariant and every recorded payload.
LEMMA FinishGood == ASSUME DInv, NEW j \in Jobs, Finish(j) PROVE StepOK
  <1> DEFINE status == StatusOf(job[j].outcome)
             r == [job[j] EXCEPT !.pc = "finalize", !.attempt = cur, !.lease = att[cur].lease]
  <1>1. NoCall /\ UNCHANGED <<op, att, res>>
    BY DEF Finish
  <1>2. status \in Terminal
    BY StatusEnds
  <1>3. CASE Finished(status) /\ Goes(j, r)
    <2>1. Plain(r)
      BY Parts, JobTyped DEF Plain, JobTypes, Points, Unyielding, Marked
    <2> HIDE DEF r
    <2>2. Control'
      BY <1>3, <2>1, PlainMoves, Parts
    <2> DEFINE e == [dis[cur] EXCEPT !.status = status]
    <2>3. dis' = [dis EXCEPT ![cur] = e]
      BY <1>3 DEF Finished
    <2>4. Passes(dis[cur], e)
      BY <1>2, Parts, EndPasses
    <2> HIDE DEF e
    <2>5. Dispatched' /\ Kept
      BY <2>3, <2>4, Parts, DispatchPasses
    <2> QED BY <1>1, <2>2, <2>5, Quiet, Parts DEF ServerOK, Leased
  <1>4. CASE \E class : Throws(j, class) /\ UNCHANGED dis
    BY <1>1, <1>4, QuietThrows, Quiet DEF tables
  <1> QED BY <1>3, <1>4 DEF Finish

\* finalizeDispatch keeps the invariant and every recorded payload.
LEMMA FinalizeGood == ASSUME DInv, NEW j \in Jobs, Finalize(j) PROVE StepOK
  BY StatusEnds, EndsTogether, Quiet DEF Finalize

\* cancelClaimedAfterRuntimeReset
LEMMA CancelClaimedTyped == ASSUME Leased, CancelClaimed, res' = res PROVE Leased'
  <1>1. op' \in OpTypes
    BY CurTyped DEF CancelClaimed, OpTypes, Terminal
  <1>2. Passed(att[cur], "cancelled") \in AttTypes
    BY CurTyped, AttemptPasses DEF AttStates
  <1>3. att' \in [Attempts -> AttTypes]
    BY <1>2, AttemptWritten DEF CancelClaimed
  <1> QED BY <1>1, <1>3 DEF Leased

\* Forcing an operation to fail writes within the schemas and keeps payloads.
LEMMA ForcesGood == ASSUME DInv, NEW j \in Jobs, Forces(j) PROVE ServerOK
  <1>1. CASE op.state \in Terminal /\ Returns(j) /\ UNCHANGED tables
    BY <1>1, QuietReturns
  <1>2. CASE ForceWithLease(j)
    <2>1. \/ /\ Finalizes(j, att[cur].lease, "failed")
             /\ dis' = dis \/ dis' = [dis EXCEPT ![cur].status = "failed"]
          \/ \E class : Throws(j, class) /\ UNCHANGED tables
      BY <1>2 DEF ForceWithLease
    <2>2. "failed" \in Terminal
      BY DEF Terminal
    <2> QED BY <2>1, <2>2, EndsTogether, QuietThrows
  <1>3. CASE ForceUnbound(j)
    <2>1. Control' /\ res' = res /\ dis' = dis /\ (CancelClaimed \/ UNCHANGED <<op, att>>)
      BY <1>3, ReturnsMoves, Parts DEF ForceUnbound
    <2>2. Leased'
      BY <2>1, CancelClaimedTyped, Parts DEF Leased
    <2> QED BY <2>1, <2>2, DispatchStays, Parts DEF ServerOK
  <1> QED BY <1>1, <1>2, <1>3 DEF Forces

\* Forcing an operation to fail keeps the invariant and every recorded payload.
LEMMA ForceGood == ASSUME DInv, NEW j \in Jobs, ForceFailed(j) PROVE StepOK
  BY ForcesGood, Quiet DEF ForceFailed

\* Sealing an operation keeps the invariant and every recorded payload.
LEMMA SealGood == ASSUME DInv, NEW j \in Jobs, Seal(j) PROVE StepOK
  <1>1. CASE \E pc \in {"reject", "write"} :
               /\ Goes(j, [job[j] EXCEPT !.pc = pc, !.attempt = cur, !.mode = "sealing",
                                         !.outcome = dis[cur].payload])
               /\ UNCHANGED tables
    <2>1. PICK pc \in {"reject", "write"} :
               /\ Goes(j, [job[j] EXCEPT !.pc = pc, !.attempt = cur, !.mode = "sealing",
                                         !.outcome = dis[cur].payload])
               /\ UNCHANGED tables
      BY <1>1
    <2>2. dis[cur].payload \in {"none", "operator"} \cup Terminal
      BY Parts DEF DisTypes
    <2>3. Plain([job[j] EXCEPT !.pc = pc, !.attempt = cur, !.mode = "sealing",
                               !.outcome = dis[cur].payload])
      BY <2>2, Parts, JobTyped DEF Plain, JobTypes, Points, Marked
    <2> QED BY <2>1, <2>3, QuietMoves, Quiet DEF Seal
  <1>2. CASE Forces(j)
    BY <1>2, ForcesGood, Quiet DEF Seal
  <1> QED BY <1>1, <1>2 DEF Seal

\* The start of reenter keeps the invariant and every recorded payload.
LEMMA ReenterGood == ASSUME DInv, NEW j \in Jobs, Reenter(j) PROVE StepOK
  <1>1. CASE ReenterEnds(j)
    BY <1>1, QuietReturns, Quiet DEF Reenter, ReenterEnds
  <1>2. CASE ReenterFinalizes(j)
    BY <1>2, EndsTogether, Quiet DEF Reenter, ReenterFinalizes
  <1>3. CASE ReenterDefers(j)
    BY <1>3, QuietThrows, Quiet DEF Reenter, ReenterDefers
  <1>4. CASE ReenterAcquires(j)
    <2>1. PICK reuse \in BOOLEAN : Goes(j, [job[j] EXCEPT !.pc = "acquired", !.reuse = reuse])
      BY <1>4 DEF ReenterAcquires
    <2>2. Plain([job[j] EXCEPT !.pc = "acquired", !.reuse = reuse])
      BY Parts, JobTyped DEF Plain, JobTypes, Points, Marked
    <2> QED BY <1>4, <2>1, <2>2, QuietMoves, Quiet DEF Reenter, ReenterAcquires
  <1> QED BY <1>1, <1>2, <1>3, <1>4 DEF Reenter

\* While reenter calls the runtime with what it has read, it is at points that ask for nothing.
LEMMA HoldingPlain ==
    ASSUME DInv, NEW j \in Jobs, NEW pc \in {"reconcile", "claim", "persisted"}
    PROVE  Plain(Holding(j, pc))
  <1>1. op.state \in {"claimed", "reserved", "activated", "awaiting_writeback"} \cup Parked \cup Terminal
    BY Parts DEF OpTypes
  <1> QED BY <1>1, Parts, JobTyped DEF Holding, Plain, JobTypes, Points, Marked

\* The acquired operation keeps the invariant and every recorded payload.
LEMMA AcquiredGood == ASSUME DInv, NEW j \in Jobs, Acquired(j) PROVE StepOK
  <1>1. \/ Returns(j) /\ UNCHANGED tables
        \/ Writes(j, dis[cur].payload)
        \/ \E pc \in {"reconcile", "claim"} : Goes(j, Holding(j, pc)) /\ UNCHANGED tables
    BY DEF Acquired
  <1>2. ServerOK
    BY <1>1, QuietReturns, WritesGood, HoldingPlain, QuietMoves
  <1> QED BY <1>2, Quiet DEF Acquired

\* A binding that the runtime has lost keeps the invariant and every recorded payload.
LEMMA BindingResetGood == ASSUME DInv, NEW j \in Jobs, BindingReset(j) PROVE StepOK
  <1>1. CASE ResetBeforeDispatch(j)
    <2>1. UNCHANGED <<dis, res>>
      BY <1>1 DEF ResetBeforeDispatch
    <2>2. CASE CancelClaimed /\ Returns(j)
      BY <2>1, <2>2, CancelClaimedTyped, ReturnsMoves, DispatchStays, Parts, Quiet
         DEF BindingReset, ServerOK
    <2>3. CASE Throws(j, "fatal") /\ UNCHANGED <<op, att>>
      BY <2>1, <2>3, QuietThrows, Quiet DEF BindingReset, tables
    <2> QED BY <1>1, <2>2, <2>3 DEF ResetBeforeDispatch
  <1>2. CASE ResetInterrupted(j)
    <2> DEFINE a == job[j].attempt
               e == [dis[a] EXCEPT !.status = "cancelled", !.payload = "cancelled"]
    <2>1. Leased' /\ Control'
      <3>1. \/ Finalizes(j, job[j].lease, "cancelled")
            \/ Throws(j, "fatal") /\ UNCHANGED <<op, att, res>>
        BY <1>2 DEF ResetInterrupted
      <3>2. "cancelled" \in Terminal
        BY DEF Terminal
      <3> QED BY <3>1, <3>2, FinalizesTyped, ThrowsMoves, Parts DEF Leased
    <2>2. dis' = dis \/ (dis[a].status = "interrupted" /\ dis' = [dis EXCEPT ![a] = e])
      BY <1>2 DEF ResetInterrupted
    <2>3. dis[a].status = "interrupted" /\ a \in Attempts => Passes(dis[a], e)
      <3>1. SUFFICES ASSUME dis[a].status = "interrupted", dis[a] \in DisTypes
                     PROVE  Passes(dis[a], e)
        BY Parts DEF Dispatched
      <3>2. e \in DisTypes /\ e.status = "cancelled"
        BY <3>1 DEF DisTypes, Terminal
      <3> HIDE DEF e
      <3> QED BY <3>1, <3>2 DEF Passes, Unrecorded, Open, Live
    <2> HIDE DEF e, a
    <2>4. Dispatched' /\ Kept
      BY <2>2, <2>3, DispatchStays, DispatchPasses, Parts
    <2> QED BY <2>1, <2>4, Quiet DEF BindingReset, ServerOK
  <1>3. CASE ResetOtherwise(j)
    BY <1>3, QuietThrows, Quiet DEF BindingReset, ResetOtherwise
  <1> QED BY <1>1, <1>2, <1>3 DEF BindingReset

\* The reading of the tables after the claim keeps the invariant and every recorded payload.
LEMMA PersistedGood == ASSUME DInv, NEW j \in Jobs, Persisted(j) PROVE StepOK
  <1> DEFINE held == job[j]
             d == dis[held.attempt]
  <1>1. \/ Returns(j) /\ UNCHANGED tables
        \/ \E pc \in {"enqueue", "activate", "reserve", "prepare"} : Goto(j, pc) /\ UNCHANGED tables
        \/ \E o \in {"resumable", "manual"} :
              Goes(j, [held EXCEPT !.pc = "mark", !.outcome = o]) /\ UNCHANGED tables
        \/ Writes(j, d.payload)
        \/ d.status \in Terminal /\ Finalizes(j, held.lease, d.status) /\ UNCHANGED dis
    BY DEF Persisted
  <1>2. CASE Returns(j) /\ UNCHANGED tables
    BY <1>2, QuietReturns, Quiet DEF Persisted
  <1>3. CASE \E pc \in {"enqueue", "activate", "reserve", "prepare"} : Goto(j, pc) /\ UNCHANGED tables
    <2>1. {"enqueue", "activate", "reserve", "prepare"} \subseteq Points \ Marked
      BY DEF Points, Marked, Unyielding
    <2> QED BY <1>3, <2>1, QuietGoto, Quiet DEF Persisted
  <1>4. CASE \E o \in {"resumable", "manual"} :
              Goes(j, [held EXCEPT !.pc = "mark", !.outcome = o]) /\ UNCHANGED tables
    <2>1. PICK o \in {"resumable", "manual"} :
              Goes(j, [held EXCEPT !.pc = "mark", !.outcome = o]) /\ UNCHANGED tables
      BY <1>4
    <2> DEFINE r == [held EXCEPT !.pc = "mark", !.outcome = o]
    <2>2. r \in JobTypes /\ r.pc = "mark" /\ r.outcome = o
      BY Parts, JobTyped DEF JobTypes, Points
    <2>3. Goes(j, r) /\ UNCHANGED tables
      BY <2>1
    <2> HIDE DEF r
    <2>4. Holds(j, r)
      BY <2>2 DEF Holds
    <2>5. Control'
      BY <2>2, <2>3, <2>4, Moves, Parts DEF Goes
    <2> QED BY <2>3, <2>5, Untouched, Quiet DEF Persisted, ServerOK
  <1>5. CASE Writes(j, d.payload)
    BY <1>5, WritesGood, Quiet DEF Persisted
  <1>6. CASE d.status \in Terminal /\ Finalizes(j, held.lease, d.status) /\ UNCHANGED dis
    BY <1>6, EndsTogether, Quiet DEF Persisted
  <1> QED BY <1>1, <1>2, <1>3, <1>4, <1>5, <1>6

\* The reservation of a host keeps the invariant and every recorded payload.
LEMMA ReserveGood == ASSUME DInv, NEW j \in Jobs, Reserve(j) PROVE StepOK
  <1>1. dis' = dis /\ NoCall
    BY DEF Reserve
  <1>2. CASE \E l \in FreeLeases :
               /\ res' = [res EXCEPT ![l] = [status |-> "active", attempt |-> cur]]
               /\ att' = [att EXCEPT ![cur] = [status |-> "reserved", version |-> att[cur].version + 1,
                                               lease |-> l]]
               /\ Goes(j, [job[j] EXCEPT !.pc = "prepare", !.lease = l])
               /\ op' = [op EXCEPT !.state = "reserved"]
    <2>1. PICK l \in FreeLeases :
               /\ res' = [res EXCEPT ![l] = [status |-> "active", attempt |-> cur]]
               /\ att' = [att EXCEPT ![cur] = [status |-> "reserved", version |-> att[cur].version + 1,
                                               lease |-> l]]
               /\ Goes(j, [job[j] EXCEPT !.pc = "prepare", !.lease = l])
               /\ op' = [op EXCEPT !.state = "reserved"]
      BY <1>2
    <2>2. l \in Leases
      BY DEF FreeLeases
    <2>3. [status |-> "active", attempt |-> cur] \in ResTypes
      BY Parts DEF ResTypes
    <2>4. [status |-> "reserved", version |-> att[cur].version + 1, lease |-> l] \in AttTypes
      BY <2>2, Parts, CurTyped DEF AttTypes
    <2>5. res' \in [Leases -> ResTypes]
      BY <2>1, <2>3, Parts DEF Leased
    <2>6. att' \in [Attempts -> AttTypes]
      BY <2>1, <2>4, AttemptWritten, Parts
    <2>7. op' \in OpTypes
      BY <2>1, Parts DEF OpTypes
    <2>8. Plain([job[j] EXCEPT !.pc = "prepare", !.lease = l])
      BY <2>2, Parts, JobTyped DEF Plain, JobTypes, Points, Unyielding, Marked
    <2>9. Control'
      BY <2>1, <2>8, PlainMoves, Parts
    <2> QED BY <1>1, <2>5, <2>6, <2>7, <2>9, DispatchStays, Parts, Quiet DEF ServerOK, Leased
  <1>3. CASE /\ UNCHANGED <<op, att, res>>
             /\ \/ Returns(j) \/ Throws(j, "fatal")
                \/ Goes(j, [job[j] EXCEPT !.pc = "prepare", !.lease = att[cur].lease])
    <2>1. Plain([job[j] EXCEPT !.pc = "prepare", !.lease = att[cur].lease])
      BY Parts, JobTyped DEF Plain, JobTypes, Points, Unyielding, Marked
    <2> QED BY <1>1, <1>3, <2>1, QuietReturns, QuietThrows, QuietMoves, Quiet DEF tables
  <1> QED BY <1>2, <1>3 DEF Reserve

\* The dispatch under a lease keeps the invariant and every recorded payload.
LEMMA PrepareGood == ASSUME DInv, NEW j \in Jobs, Prepare(j) PROVE StepOK
  <1> DEFINE l == job[j].lease
             r == [job[j] EXCEPT !.pc = "activate", !.attempt = cur]
             e == [dis[cur] EXCEPT !.status = "leased", !.lease = l]
  <1>1. /\ UNCHANGED <<op, att, res>> /\ NoCall
        /\ Goes(j, r) \/ Throws(j, "fatal")
        /\ dis' = dis \/ (dis[cur].status = "none" /\ dis' = [dis EXCEPT ![cur] = e])
    BY DEF Prepare
  <1>2. Plain(r)
    BY Parts, JobTyped DEF Plain, JobTypes, Points, Marked
  <1>3. l \in {0} \cup Leases
    BY Parts, JobTyped DEF JobTypes
  <1>4. dis[cur].status = "none" => Passes(dis[cur], e)
    <2>1. SUFFICES ASSUME dis[cur].status = "none" PROVE Passes(dis[cur], e)
      OBVIOUS
    <2>2. e \in DisTypes /\ e.payload = dis[cur].payload
      BY <1>3, Parts DEF DisTypes, Live
    <2> HIDE DEF e
    <2> QED BY <2>1, <2>2 DEF Passes, Unrecorded, Open
  <1> HIDE DEF r, e
  <1>5. Dispatched' /\ Kept
    BY <1>1, <1>4, DispatchStays, DispatchPasses, Parts
  <1>6. Control'
    BY <1>1, <1>2, PlainMoves, ThrowsMoves, Parts
  <1> QED BY <1>1, <1>5, <1>6, Parts, Quiet DEF ServerOK, Leased

\* The start command keeps the invariant and every recorded payload.
LEMMA EnqueueGood == ASSUME DInv, NEW j \in Jobs, Enqueue(j) PROVE StepOK
  <1> DEFINE a == job[j].attempt
  <1>1. /\ UNCHANGED <<dis, res, todo, past, rt>>
        /\ Returns(j) \/ Throws(j, "fatal")
        /\ \/ UNCHANGED <<att, op>>
           \/ /\ a = cur /\ att' = [att EXCEPT ![a] = Passed(att[a], "activated")]
              /\ op' = [op EXCEPT !.state = "activated"]
    BY DEF Enqueue
  <1>2. Control'
    BY <1>1, ReturnsMoves, ThrowsMoves, Parts
  <1>3. Leased'
    <2>1. CASE UNCHANGED <<att, op>>
      BY <1>1, <2>1, Parts DEF Leased
    <2>2. CASE /\ a = cur /\ att' = [att EXCEPT ![a] = Passed(att[a], "activated")]
               /\ op' = [op EXCEPT !.state = "activated"]
      <3>1. Passed(att[cur], "activated") \in AttTypes
        BY Parts, AttemptPasses DEF AttStates
      <3>2. att' \in [Attempts -> AttTypes]
        BY <2>2, <3>1, AttemptWritten, Parts
      <3>3. op' \in OpTypes
        BY <2>2, Parts DEF OpTypes
      <3> QED BY <1>1, <3>2, <3>3, Parts DEF Leased
    <2> QED BY <1>1, <2>1, <2>2
  <1> QED BY <1>1, <1>2, <1>3, DispatchStays, Parts, Assembled DEF ServerOK, DInv

-----------------------------------------------------------------------------
(* Calls of the runtime. *)

\* Whatever a call answers, the block's state in the runtime is well formed.
LEMMA AnswersTyped ==
    ASSUME DInv, NEW a \in {0} \cup Attempts
    PROVE  /\ Claim.rt \in RtTypes /\ Activate(a).rt \in RtTypes /\ Reconcile.rt \in RtTypes
           /\ Complete(a).rt \in RtTypes
           /\ ResumeAttempt(a).rt \in RtTypes
           /\ \A phase \in {"resumable", "manual"} : MarkInterrupted(a, phase).rt \in RtTypes
           /\ \A new \in Attempts : RetryAttempt(a, new).rt \in RtTypes
           /\ \A outcome \in {"none", "operator", "rejected"} \cup Terminal :
                 Fail(a, outcome).rt \in RtTypes
           /\ Query.rt = rt
  <1> USE DEF Answer, Stays, Drifts
  <1>1. rt \in RtTypes
    BY DEF DInv
  <1>2. \A phase \in {"lost", "preparing", "active", "resumable", "manual", "diverged", "ended"} :
           [rt EXCEPT !.phase = phase] \in RtTypes
    BY <1>1 DEF RtTypes
  <1>3. \A phase \in {"lost", "preparing", "active", "resumable", "manual", "diverged", "ended"},
           b \in {0} \cup Attempts : [rt EXCEPT !.phase = phase, !.attempt = b] \in RtTypes
    BY <1>1 DEF RtTypes
  <1>4. \A outcome \in {"none", "operator", "rejected"} \cup Terminal :
           [phase |-> "ended", attempt |-> a, outcome |-> outcome] \in RtTypes
    BY DEF RtTypes
  <1>5. [phase |-> "preparing", attempt |-> 0, outcome |-> "none"] \in RtTypes
    BY DEF RtTypes
  <1>6. "completed" \in Terminal /\ "cancelled" \in Terminal
    BY DEF Terminal
  <1>7. Claim.rt \in RtTypes
    BY <1>1, <1>2, <1>5 DEF Claim
  <1>8. Activate(a).rt \in RtTypes
    BY <1>1, <1>2, <1>3 DEF Activate
  <1>9. Reconcile.rt \in RtTypes
    BY <1>1, <1>2 DEF Reconcile
  <1>10. Complete(a).rt \in RtTypes
    BY <1>1, <1>2, <1>4, <1>6 DEF Complete, IfOwned
  <1>11. ResumeAttempt(a).rt \in RtTypes
    BY <1>1, <1>2 DEF ResumeAttempt, IfOwned
  <1>12. ASSUME NEW phase \in {"resumable", "manual"} PROVE MarkInterrupted(a, phase).rt \in RtTypes
    BY <1>1, <1>2 DEF MarkInterrupted, IfOwned
  <1>13. ASSUME NEW new \in Attempts PROVE RetryAttempt(a, new).rt \in RtTypes
    BY <1>1, <1>2, <1>3 DEF RetryAttempt, IfOwned
  <1>14. ASSUME NEW outcome \in {"none", "operator", "rejected"} \cup Terminal
         PROVE  Fail(a, outcome).rt \in RtTypes
    BY <1>1, <1>2, <1>4 DEF Fail, IfOwned
  <1>15. Query.rt = rt
    BY DEF Query
  <1> QED BY <1>7, <1>8, <1>9, <1>10, <1>11, <1>12, <1>13, <1>14, <1>15

\* A step that calls the runtime keeps the invariant if the block keeps its schema.
LEMMA Called == ASSUME DInv, ServerOK, rt' \in RtTypes, Still PROVE StepOK
  BY Assembled DEF Still, DInv

\* Where a job goes after a call.
LEMMA Targets ==
    ASSUME DInv, NEW j \in Jobs, UNCHANGED tables,
           \/ Returns(j)
           \/ \E class : Throws(j, class)
           \/ \E pc \in Points \ Marked : Goto(j, pc)
           \/ \E r : Plain(r) /\ Goes(j, r)
    PROVE  ServerOK
  BY QuietReturns, QuietThrows, QuietGoto, QuietMoves

\* The points after a call of the runtime ask for nothing.
LEMMA CallPoints ==
    {"finish", "reject", "reset", "enqueue", "begin", "withdraw", "fence"} \subseteq Points \ Marked
  BY DEF Points, Marked

\* The attempt a job holds is none or one of the table.
LEMMA AttemptHeld == ASSUME DInv, NEW j \in Jobs PROVE job[j].attempt \in {0} \cup Attempts
  BY Parts, JobTyped DEF JobTypes

\* The claim of the block keeps the invariant and every recorded payload.
LEMMA ClaimRuntimeGood == ASSUME DInv, NEW j \in Jobs, ClaimRuntime(j) PROVE StepOK
  <1>1. /\ rt' = Claim.rt /\ UNCHANGED tables /\ Still
        /\ Goes(j, Holding(j, "persisted")) \/ \E class : Throws(j, class)
    BY DEF ClaimRuntime, Calls
  <1>2. rt' \in RtTypes
    BY <1>1, AnswersTyped
  <1>3. ServerOK
    BY <1>1, HoldingPlain, Targets
  <1> QED BY <1>1, <1>2, <1>3, Called

\* The reconciliation with the block keeps the invariant and every recorded payload.
LEMMA ReconcileRuntimeGood == ASSUME DInv, NEW j \in Jobs, ReconcileRuntime(j) PROVE StepOK
  <1>1. /\ rt' = Reconcile.rt /\ UNCHANGED tables /\ Still
        /\ \/ \E o \in {"bound", "unbound"} : Goes(j, [job[j] EXCEPT !.pc = "persisted", !.outcome = o])
           \/ Goto(j, "reset") \/ \E class : Throws(j, class)
    BY DEF ReconcileRuntime, Calls
  <1>2. rt' \in RtTypes
    BY <1>1, AnswersTyped
  <1>3. \A o \in {"bound", "unbound"} : Plain([job[j] EXCEPT !.pc = "persisted", !.outcome = o])
    BY Parts, JobTyped DEF Plain, JobTypes, Points, Marked
  <1>4. ServerOK
    BY <1>1, <1>3, CallPoints, Targets
  <1> QED BY <1>1, <1>2, <1>4, Called

\* The activation of the block keeps the invariant and every recorded payload.
LEMMA ActivateRuntimeGood == ASSUME DInv, NEW j \in Jobs, ActivateRuntime(j) PROVE StepOK
  <1>1. /\ rt' = Activate(job[j].attempt).rt /\ UNCHANGED tables /\ Still
        /\ Goto(j, "enqueue") \/ \E class : Throws(j, class)
    BY DEF ActivateRuntime, Calls
  <1>2. rt' \in RtTypes
    BY <1>1, AttemptHeld, AnswersTyped
  <1>3. ServerOK
    BY <1>1, CallPoints, Targets
  <1> QED BY <1>1, <1>2, <1>3, Called

\* Marking the block interrupted keeps the invariant and every recorded payload.
LEMMA MarkRuntimeGood == ASSUME DInv, NEW j \in Jobs, MarkRuntime(j) PROVE StepOK
  <1>1. /\ rt' = MarkInterrupted(job[j].attempt, job[j].outcome).rt /\ UNCHANGED tables /\ Still
        /\ Returns(j) \/ \E class : Throws(j, class)
    BY DEF MarkRuntime, Calls
  <1>2. job[j].outcome \in {"resumable", "manual"}
    BY Parts DEF Control, Holds, MarkRuntime, At
  <1>3. rt' \in RtTypes
    BY <1>1, <1>2, AttemptHeld, AnswersTyped
  <1>4. ServerOK
    BY <1>1, Targets
  <1> QED BY <1>1, <1>3, <1>4, Called

\* The call that completes the block keeps the invariant and every recorded payload.
LEMMA CallCompleteGood == ASSUME DInv, NEW j \in Jobs, CallComplete(j) PROVE StepOK
  <1>1. /\ rt' = Complete(job[j].attempt).rt /\ UNCHANGED tables /\ Still
        /\ Goto(j, "finish") \/ Goto(j, "reject") \/ \E class : Throws(j, class)
    BY DEF CallComplete, Calls
  <1>2. rt' \in RtTypes
    BY <1>1, AttemptHeld, AnswersTyped
  <1>3. ServerOK
    BY <1>1, CallPoints, Targets
  <1> QED BY <1>1, <1>2, <1>3, Called

\* The call that fails the block keeps the invariant and every recorded payload.
LEMMA CallFailGood == ASSUME DInv, NEW j \in Jobs, CallFail(j) PROVE StepOK
  <1>1. /\ rt' = Fail(job[j].attempt, job[j].outcome).rt /\ UNCHANGED tables /\ Still
        /\ Goto(j, "finish") \/ \E class : Throws(j, class)
    BY DEF CallFail, Calls
  <1>2. job[j].outcome \in {"none", "operator"} \cup Terminal
    BY Parts DEF Control, Holds, CallFail, At
  <1>3. rt' \in RtTypes
    BY <1>1, <1>2, AttemptHeld, AnswersTyped
  <1>4. ServerOK
    BY <1>1, CallPoints, Targets
  <1> QED BY <1>1, <1>3, <1>4, Called

\* The call that rejects the result keeps the invariant and every recorded payload.
LEMMA CallRejectGood == ASSUME DInv, NEW j \in Jobs, CallReject(j) PROVE StepOK
  <1>1. /\ rt' = Fail(job[j].attempt, "rejected").rt /\ UNCHANGED tables /\ Still
        /\ \/ Goes(j, [job[j] EXCEPT !.pc = "finish", !.outcome = "rejected"])
           \/ \E class : Throws(j, class)
    BY DEF CallReject, Calls
  <1>2. rt' \in RtTypes
    BY <1>1, AttemptHeld, AnswersTyped
  <1>3. Plain([job[j] EXCEPT !.pc = "finish", !.outcome = "rejected"])
    BY Parts, JobTyped DEF Plain, JobTypes, Points, Marked
  <1>4. ServerOK
    BY <1>1, <1>3, Targets
  <1> QED BY <1>1, <1>2, <1>4, Called

\* Every step of a job keeps the invariant and every recorded payload.
LEMMA JobStepGood == ASSUME DInv, NEW j \in Jobs, JobStep(j) PROVE StepOK
  BY ReenterGood, AcquiredGood, ClaimRuntimeGood, ReconcileRuntimeGood, BindingResetGood,
     PersistedGood, ReserveGood, PrepareGood, ActivateRuntimeGood, EnqueueGood, MarkRuntimeGood,
     WriteGood, CallCompleteGood, CallFailGood, CallRejectGood, FinishGood, FinalizeGood, SealGood,
     ForceGood DEF JobStep

-----------------------------------------------------------------------------
(* The steps of actions. *)

LEMMA Elsewhere == ASSUME DInv, ServerOK, UNCHANGED <<todo, past, rt>> PROVE StepOK
  BY Assembled DEF DInv

\* An action is a job; its record is in the schema and was promised what it needs.
LEMMA ActionTyped ==
    ASSUME Control, NEW i \in Actions
    PROVE  i \in Jobs /\ job[i] \in JobTypes /\ act[i] \in ActTypes /\ Promised(act[i])
  BY Numbers DEF Control

\* The points of an action ask for nothing, apart from those where it is applied to the tables.
LEMMA ActionPoints ==
    {"settled", "delivered", "check", "reenter", "write", "fence", "apply", "ask", "refused"}
        \subseteq Points \ Marked
  BY DEF Points, Marked, Unyielding, Ended

\* An action whose command is delivered keeps Control.
LEMMA DeliversMoves == ASSUME Control, NEW i \in Actions, Delivers(i) PROVE Control'
  <1> DEFINE r == [job[i] EXCEPT !.pc = "delivered"]
             x == [act[i] EXCEPT !.sent = TRUE]
  <1>1. job' = [job EXCEPT ![i] = r] /\ act' = [act EXCEPT ![i] = x]
    BY DEF Delivers
  <1>2. Plain(r)
    BY ActionTyped, ActionPoints, AtPoint
  <1>3. x \in ActTypes /\ x.kind = act[i].kind /\ Promised(x)
    BY ActionTyped DEF ActTypes, Promised
  <1> HIDE DEF r, x
  <1> QED BY <1>1, <1>2, <1>3, ActionTyped, ActionMoves

\* enqueueResume: the dispatch has no result, for it waits.
LEMMA EnqueueResumePasses ==
    ASSUME DInv, NEW i \in Actions, act[i].kind = "resume", Resumable(i), EnqueueResume(i)
    PROVE  Dispatched' /\ Kept /\ Control'
  <1> DEFINE e == [dis[cur] EXCEPT !.status = "leased", !.lease = act[i].fresh, !.intr = "none"]
  <1>1. dis' = [dis EXCEPT ![cur] = e]
    BY DEF EnqueueResume
  <1>2. act[i].fresh \in Leases
    BY Parts, ActionTyped DEF Promised
  <1>3. e \in DisTypes /\ e.payload = dis[cur].payload
    BY <1>2, Parts DEF DisTypes, Live
  <1>4. dis[cur].status \in Open
    BY DEF Resumable, Open, Live
  <1> HIDE DEF e
  <1>5. Passes(dis[cur], e)
    BY <1>3, <1>4 DEF Passes, Unrecorded
  <1> QED BY <1>1, <1>5, DispatchPasses, DeliversMoves, Parts DEF EnqueueResume

\* Enqueueing the cancel command marks the dispatch and keeps its payload.
LEMMA EnqueueCancelGood ==
    ASSUME DInv, NEW i \in Actions, EnqueueCancel(i), UNCHANGED <<op, att, res>>
    PROVE  ServerOK
  <1>0. Leased' /\ i \in Jobs
    BY Parts, Numbers DEF Leased
  <1>1. CASE dis[cur].status \in Live
    <2> DEFINE e == [dis[cur] EXCEPT !.status = "cancelling"]
    <2>1. dis' = [dis EXCEPT ![cur] = e] /\ Delivers(i)
      BY <1>1 DEF EnqueueCancel
    <2>2. e \in DisTypes /\ e.payload = dis[cur].payload
      BY Parts DEF DisTypes, Live
    <2> HIDE DEF e
    <2>3. Passes(dis[cur], e)
      BY <1>1, <2>2 DEF Passes, Unrecorded, Open
    <2> QED BY <1>0, <2>1, <2>3, DispatchPasses, DeliversMoves, Parts DEF ServerOK
  <1>2. CASE Throws(i, "fatal") /\ UNCHANGED dis
    BY <1>0, <1>2, ThrowsMoves, DispatchStays, Parts DEF ServerOK
  <1> QED BY <1>1, <1>2 DEF EnqueueCancel

\* What a decision may be.
LEMMA DecisionTyped ==
    ASSUME NEW x, x.kind \in {"cancel", "block", "fail", "resume", "retry"}
    PROVE  /\ Decision(x) \in {"refuse", "resume", "retry", "fail", "block", "local", "command"}
           /\ Decision(x) = "resume" => x.kind = "resume"
           /\ Decision(x) = "retry" => x.kind = "retry"
  <1>1. CASE x.kind = "resume"
    BY <1>1 DEF Decision
  <1>2. CASE x.kind = "retry"
    BY <1>2 DEF Decision
  <1>3. CASE x.kind = "fail"
    BY <1>3 DEF Decision
  <1>4. CASE x.kind = "block"
    BY <1>4 DEF Decision
  <1>5. CASE x.kind = "cancel"
    BY <1>5 DEF Decision
  <1> QED BY <1>1, <1>2, <1>3, <1>4, <1>5

\* The decision of an action promises what its application needs.
LEMMA DecideGood == ASSUME DInv, NEW i \in Actions, At(i, "recover"), Decide(i) PROVE ServerOK
  <1> DEFINE plan == IF act[i].plan # "none" THEN act[i].plan ELSE Decision(act[i])
  <1>1. i \in Jobs /\ act[i] \in ActTypes /\ Promised(act[i]) /\ act[i].kind # "none"
    BY Parts, ActionTyped DEF Control, Holds, At
  <1>2. act[i].kind \in {"cancel", "block", "fail", "resume", "retry"}
    BY <1>1 DEF ActTypes
  <1>3. /\ plan \in {"refuse", "resume", "retry", "fail", "block", "local", "command"}
        /\ plan = "resume" => act[i].kind = "resume"
        /\ plan = "retry" => act[i].kind = "retry"
    <2>1. CASE act[i].plan # "none"
      BY <1>1, <2>1 DEF ActTypes, Promised
    <2>2. CASE act[i].plan = "none"
      BY <1>2, <2>2, DecisionTyped
    <2> QED BY <2>1, <2>2
  <1>4. UNCHANGED tables
    BY DEF Decide
  <1>5. CASE plan = "refuse"
    <2> DEFINE x == [act[i] EXCEPT !.claimed = FALSE]
    <2>1. job' = [job EXCEPT ![i] = [NoJob EXCEPT !.pc = "refused"]] /\ act' = [act EXCEPT ![i] = x]
      BY <1>5 DEF Decide
    <2>2. x \in ActTypes /\ x.kind = act[i].kind /\ Promised(x)
      BY <1>1 DEF ActTypes, Promised
    <2> HIDE DEF x
    <2>3. Control'
      BY <1>1, <2>1, <2>2, Finals, ActionMoves, Parts
    <2> QED BY <1>4, <2>3, Untouched DEF ServerOK
  <1>6. CASE plan # "refuse"
    <2> DEFINE x == [act[i] EXCEPT !.plan = plan]
    <2>1. PICK pc \in {"apply", "ask"} :
             job' = [job EXCEPT ![i] = [NoJob EXCEPT !.pc = pc, !.mode = "apply", !.attempt = cur]]
      BY <1>6 DEF Decide
    <2>2. act' = [act EXCEPT ![i] = x]
      BY <1>6 DEF Decide
    <2>3. x \in ActTypes /\ x.kind = act[i].kind /\ Promised(x)
      <3> HIDE DEF plan
      <3> QED BY <1>1, <1>3, <1>6 DEF ActTypes, Promised
    <2>4. Plain([NoJob EXCEPT !.pc = pc, !.mode = "apply", !.attempt = cur])
      BY Parts, NoJobPlain, ActionPoints DEF Plain, JobTypes
    <2> HIDE DEF x
    <2>5. Control'
      BY <1>1, <2>1, <2>2, <2>3, <2>4, ActionMoves, Parts
    <2> QED BY <1>4, <2>5, Untouched DEF ServerOK
  <1> QED BY <1>5, <1>6

\* Taking up a recorded action keeps the invariant and every recorded payload.
LEMMA RecoverGood == ASSUME DInv, NEW i \in Actions, Recover(i) PROVE StepOK
  <1>0. i \in Jobs /\ At(i, "recover") /\ UNCHANGED <<todo, past, rt>>
    BY Numbers DEF Recover
  <1>1. CASE RecoverRetry(i)
    BY <1>0, <1>1, ActionPoints, QuietGoto, Elsewhere DEF RecoverRetry
  <1>2. CASE RecoverResume(i)
    <2>1. Leased' /\ act[i].kind = "resume"
      BY <1>2, Parts DEF RecoverResume, Leased
    <2>2. CASE Resumable(i) /\ EnqueueResume(i)
      BY <1>0, <2>1, <2>2, EnqueueResumePasses, Elsewhere DEF ServerOK
    <2>3. CASE Throws(i, "fatal") /\ UNCHANGED dis
      BY <1>0, <2>1, <2>3, ThrowsMoves, DispatchStays, Parts, Elsewhere DEF ServerOK
    <2> QED BY <1>2, <2>2, <2>3 DEF RecoverResume
  <1>3. CASE RecoverCancel(i)
    <2>1. UNCHANGED <<op, att, res>>
      BY <1>3 DEF RecoverCancel
    <2>2. CASE EnqueueCancel(i)
      BY <1>0, <2>1, <2>2, EnqueueCancelGood, Elsewhere
    <2>3. CASE Goto(i, "settled") /\ UNCHANGED dis
      BY <1>0, <2>1, <2>3, ActionPoints, QuietGoto, Elsewhere DEF tables
    <2> QED BY <1>3, <2>2, <2>3 DEF RecoverCancel
  <1>4. CASE RecoverBlock(i)
    BY <1>0, <1>4, ActionPoints, QuietGoto, Elsewhere DEF RecoverBlock
  <1>5. CASE RecoverFail(i)
    <2>1. UNCHANGED tables
      BY <1>5 DEF RecoverFail
    <2>2. FailApplied(i) \in {"error", "yes", "no"}
      BY DEF FailApplied
    <2>3. \/ Throws(i, "fatal") \/ Goto(i, "settled")
          \/ Goes(i, [job[i] EXCEPT !.pc = "write", !.outcome = dis[cur].payload])
      BY <1>5, <2>2 DEF RecoverFail
    <2>4. dis[cur].payload \in {"none", "operator"} \cup Terminal
      BY Parts DEF DisTypes
    <2>5. Plain([job[i] EXCEPT !.pc = "write", !.outcome = dis[cur].payload])
      BY <1>0, <2>4, Parts, JobTyped DEF Plain, JobTypes, Points, Marked
    <2> QED BY <1>0, <2>1, <2>3, <2>5, ActionPoints, Targets, Elsewhere
  <1>6. CASE Decide(i)
    BY <1>0, <1>6, DecideGood, Elsewhere
  <1> QED BY <1>1, <1>2, <1>3, <1>4, <1>5, <1>6 DEF Recover

\* Applying an action by a command keeps the invariant and every recorded payload.
LEMMA ApplyCommandGood == ASSUME DInv, NEW i \in Actions, ApplyCommand(i) PROVE StepOK
  BY EnqueueCancelGood, Elsewhere DEF ApplyCommand

\* Applying a block keeps the invariant and every recorded payload.
LEMMA ApplyBlockGood == ASSUME DInv, NEW i \in Actions, ApplyBlock(i) PROVE StepOK
  <1>1. /\ i \in Jobs /\ NoCall /\ UNCHANGED <<dis, res>>
        /\ Goto(i, "settled") \/ Throws(i, "fatal")
        /\ \/ UNCHANGED <<op, att>>
           \/ /\ op' = [op EXCEPT !.state = "action_required"]
              /\ att' = [att EXCEPT ![cur] = Passed(att[cur], "action_required")]
    BY Numbers DEF ApplyBlock
  <1>2. Control'
    BY <1>1, ActionPoints, GotoMoves, ThrowsMoves, Parts
  <1>3. Passed(att[cur], "action_required") \in AttTypes
    BY Parts, AttemptPasses DEF AttStates
  <1>4. att' \in [Attempts -> AttTypes]
    BY <1>1, <1>3, AttemptWritten, Parts DEF Leased
  <1>5. op' \in OpTypes
    BY <1>1, Parts DEF OpTypes, Parked
  <1> QED BY <1>1, <1>2, <1>4, <1>5, DispatchStays, Parts, Quiet DEF ServerOK, Leased

\* Applying an operator's failure keeps the invariant and every recorded payload.
LEMMA ApplyFailGood == ASSUME DInv, NEW i \in Actions, ApplyFail(i) PROVE StepOK
  <1>1. i \in Jobs /\ NoCall /\ UNCHANGED <<op, att, res>>
    BY Numbers DEF ApplyFail
  <1>2. CASE dis[cur].status = "interrupted"
    <2> DEFINE e == [dis[cur] EXCEPT !.status = "awaiting_writeback", !.payload = "operator"]
    <2>1. /\ dis' = [dis EXCEPT ![cur] = e]
          /\ Goes(i, [job[i] EXCEPT !.pc = "write", !.outcome = "operator"])
      BY <1>2 DEF ApplyFail
    <2>2. e \in DisTypes /\ e.status = "awaiting_writeback"
      BY Parts DEF DisTypes
    <2> HIDE DEF e
    <2>3. Passes(dis[cur], e)
      BY <1>2, <2>2 DEF Passes, Unrecorded, Open, Live
    <2>4. Plain([job[i] EXCEPT !.pc = "write", !.outcome = "operator"])
      BY <1>1, Parts, JobTyped DEF Plain, JobTypes, Points, Marked
    <2>5. Control'
      BY <1>1, <2>1, <2>4, PlainMoves, Parts
    <2>6. Dispatched' /\ Kept
      BY <2>1, <2>3, DispatchPasses, Parts
    <2> QED BY <1>1, <2>5, <2>6, Parts, Quiet DEF ServerOK, Leased
  <1>3. CASE Throws(i, "fatal") /\ UNCHANGED dis
    BY <1>1, <1>3, QuietThrows, Quiet DEF tables
  <1> QED BY <1>2, <1>3 DEF ApplyFail

\* The three calls that cancel the block of an attempt without a dispatch keep
\* the invariant and every recorded payload.
LEMMA ApplyLocalGood == ASSUME DInv, NEW i \in Actions, ApplyLocal(i) PROVE StepOK
  <1>1. /\ i \in Jobs /\ rt' = rt /\ UNCHANGED tables /\ Still
        /\ \/ \E pc \in {"begin", "withdraw", "fence"} : Goto(i, pc)
           \/ \E class : Throws(i, class)
    BY Numbers DEF ApplyLocal, Calls, Query, Stays, Answer
  <1>2. rt' \in RtTypes
    BY <1>1 DEF DInv
  <1>3. ServerOK
    BY <1>1, CallPoints, Targets
  <1> QED BY <1>1, <1>2, <1>3, Called

LEMMA LocalBeginsGood == ASSUME DInv, NEW i \in Actions, LocalBegins(i) PROVE StepOK
  <1>1. /\ i \in Jobs /\ rt' = Activate(job[i].attempt).rt /\ UNCHANGED tables /\ Still
        /\ Goto(i, "withdraw") \/ \E class : Throws(i, class)
    BY Numbers DEF LocalBegins, Calls
  <1>2. rt' \in RtTypes
    BY <1>1, AttemptHeld, AnswersTyped
  <1>3. ServerOK
    BY <1>1, CallPoints, Targets
  <1> QED BY <1>1, <1>2, <1>3, Called

LEMMA LocalFailsGood == ASSUME DInv, NEW i \in Actions, LocalFails(i) PROVE StepOK
  <1>1. /\ i \in Jobs /\ rt' = Fail(job[i].attempt, "cancelled").rt /\ UNCHANGED tables /\ Still
        /\ Goto(i, "fence") \/ \E class : Throws(i, class)
    BY Numbers DEF LocalFails, Calls
  <1>2. rt' \in RtTypes
    BY <1>1, AttemptHeld, AnswersTyped DEF Terminal
  <1>3. ServerOK
    BY <1>1, CallPoints, Targets
  <1> QED BY <1>1, <1>2, <1>3, Called

\* finalizeFencedAttempt keeps the invariant and every recorded payload.
LEMMA FenceGood == ASSUME DInv, NEW i \in Actions, Fence(i) PROVE StepOK
  <1> DEFINE l == act[i].lease
  <1>1. i \in Jobs /\ dis' = dis /\ NoCall
    BY Numbers DEF Fence
  <1>2. CASE Throws(i, "fatal") /\ UNCHANGED <<op, att, res>>
    BY <1>1, <1>2, QuietThrows, Quiet DEF tables
  <1>3. CASE /\ Finalized(l, "cancelled") /\ Goto(i, "settled")
             /\ res[l].status # "active"
    <2>1. Control'
      BY <1>1, <1>3, ActionPoints, GotoMoves, Parts
    <2>2. Leased'
      <3>1. CASE UNCHANGED <<op, att, res>>
        BY <3>1, Parts DEF Leased
      <3>2. CASE CancelClaimed /\ res' = res
        BY <3>2, CancelClaimedTyped, Parts
      <3> QED BY <1>3, <3>1, <3>2 DEF Finalized, CancelClaimed
    <2> QED BY <1>1, <2>1, <2>2, DispatchStays, Parts, Quiet DEF ServerOK
  <1> QED BY <1>2, <1>3 DEF Fence

\* A job whose action was planned as a resume or a retry goes on to apply it.
LEMMA AppliesPlan ==
    ASSUME DInv, NEW i \in Actions,
           \/ Goto(i, "resumed") /\ act[i].plan = "resume"
           \/ Goto(i, "retried") /\ act[i].plan = "retry",
           UNCHANGED tables
    PROVE  ServerOK
  <1>1. i \in Jobs /\ job[i] \in JobTypes /\ Promised(act[i])
    BY Parts, ActionTyped
  <1>2. PICK pc \in {"resumed", "retried"} :
           Goto(i, pc) /\ act[i].plan = IF pc = "resumed" THEN "resume" ELSE "retry"
    OBVIOUS
  <1> DEFINE r == [job[i] EXCEPT !.pc = pc]
  <1>3. r \in JobTypes /\ r.pc = pc
    BY <1>1 DEF JobTypes, Points
  <1>4. job' = [job EXCEPT ![i] = r] /\ act' = act
    BY <1>2 DEF Goto, Goes
  <1> HIDE DEF r
  <1>5. Holds(i, r)
    BY <1>1, <1>2, <1>3 DEF Holds, Promised
  <1>6. Control'
    BY <1>1, <1>3, <1>4, <1>5, Moves, Parts
  <1> QED BY <1>6, Untouched DEF ServerOK

\* Applying a resume keeps the invariant and every recorded payload.
LEMMA ApplyResumeGood == ASSUME DInv, NEW i \in Actions, ApplyResume(i) PROVE StepOK
  <1>1. /\ i \in Jobs /\ rt' = ResumeAttempt(job[i].attempt).rt /\ UNCHANGED tables /\ Still
        /\ act[i].plan = "resume"
        /\ Goto(i, "resumed") \/ \E class : Throws(i, class)
    BY Numbers DEF ApplyResume, Calls
  <1>2. rt' \in RtTypes
    BY <1>1, AttemptHeld, AnswersTyped
  <1>3. ServerOK
    BY <1>1, AppliesPlan, Targets
  <1> QED BY <1>1, <1>2, <1>3, Called

\* resumeSameAttempt
LEMMA TakeLeaseTyped ==
    ASSUME DInv, NEW i \in Actions, act[i].kind = "resume", TakeLease(i)
    PROVE  Leased'
  <1> DEFINE l == act[i].fresh
  <1>1. l \in Leases
    BY Parts, ActionTyped DEF Promised
  <1>2. [status |-> "active", attempt |-> cur] \in ResTypes
    BY Parts DEF ResTypes
  <1>3. [status |-> "activated", version |-> att[cur].version + 1, lease |-> l] \in AttTypes
    BY <1>1, Parts, CurTyped DEF AttTypes
  <1>4. res' \in [Leases -> ResTypes]
    BY <1>2, Parts DEF TakeLease, Leased
  <1>5. att' = [att EXCEPT ![cur] = [status |-> "activated", version |-> att[cur].version + 1, lease |-> l]]
    BY DEF TakeLease
  <1>6. att' \in [Attempts -> AttTypes]
    BY <1>3, <1>5, AttemptWritten, Parts
  <1>7. op' \in OpTypes
    BY Parts DEF TakeLease, OpTypes
  <1> QED BY <1>4, <1>6, <1>7 DEF Leased

\* Only a resume waits for the restored dispatch.
LEMMA ResumedKind == ASSUME DInv, NEW i \in Actions, At(i, "resumed") PROVE act[i].kind = "resume"
  BY Parts, Numbers DEF Control, Holds, At

\* The restored dispatch of a resume keeps the invariant and every recorded payload.
LEMMA ResumeGood == ASSUME DInv, NEW i \in Actions, Resume(i) PROVE StepOK
  <1>1. i \in Jobs /\ UNCHANGED <<todo, past, rt>> /\ act[i].kind = "resume"
    BY Numbers, ResumedKind DEF Resume
  <1>2. CASE TakeLease(i) /\ Resumable(i) /\ EnqueueResume(i)
    BY <1>1, <1>2, TakeLeaseTyped, EnqueueResumePasses, Elsewhere DEF ServerOK
  <1>3. CASE TakeLease(i) /\ Throws(i, "fatal") /\ UNCHANGED dis
    BY <1>1, <1>3, TakeLeaseTyped, ThrowsMoves, DispatchStays, Parts, Elsewhere DEF ServerOK
  <1>4. CASE Throws(i, "fatal") /\ UNCHANGED tables
    BY <1>1, <1>4, QuietThrows, Elsewhere
  <1> QED BY <1>2, <1>3, <1>4 DEF Resume

\* Applying a retry keeps the invariant and every recorded payload.
LEMMA ApplyRetryGood == ASSUME DInv, NEW i \in Actions, ApplyRetry(i) PROVE StepOK
  <1>1. /\ i \in Jobs /\ rt' = RetryAttempt(job[i].attempt, act[i].fresh).rt /\ UNCHANGED tables /\ Still
        /\ act[i].plan = "retry"
        /\ Goto(i, "retried") \/ \E class : Throws(i, class)
    BY Numbers DEF ApplyRetry, Calls
  <1>2. act[i].fresh \in Attempts
    BY <1>1, Parts, ActionTyped DEF Promised
  <1>3. rt' \in RtTypes
    BY <1>1, <1>2, AttemptHeld, AnswersTyped
  <1>4. ServerOK
    BY <1>1, AppliesPlan, Targets
  <1> QED BY <1>1, <1>3, <1>4, Called

\* The new attempt of a retry keeps the invariant and every recorded payload.
LEMMA RetryGood == ASSUME DInv, NEW i \in Actions, Retry(i) PROVE StepOK
  <1> DEFINE new == act[i].fresh
             first == [status |-> "prepared", version |-> 0, lease |-> 0]
  <1>1. i \in Jobs /\ NoCall /\ UNCHANGED <<dis, res>>
    BY Numbers DEF Retry
  <1>2. new \in Attempts
    BY Parts, ActionTyped, Numbers DEF Control, Holds, Retry, At, Promised
  <1>3. CASE /\ att' = [att EXCEPT ![cur] = Passed(att[cur], "superseded"), ![new] = first]
             /\ op' = [state |-> "claimed", attempt |-> new]
             /\ Goto(i, "reenter")
    <2>1. Passed(att[cur], "superseded") \in AttTypes
      BY Parts, AttemptPasses DEF AttStates
    <2>2. first \in AttTypes
      BY DEF AttTypes
    <2>3. att' \in [Attempts -> AttTypes]
      BY <1>3, <2>1, <2>2, Parts DEF Leased
    <2>4. op' \in OpTypes
      BY <1>2, <1>3 DEF OpTypes
    <2>5. Control'
      BY <1>1, <1>3, ActionPoints, GotoMoves, Parts
    <2> QED BY <1>1, <2>3, <2>4, <2>5, DispatchStays, Parts, Quiet DEF ServerOK, Leased
  <1>4. CASE Throws(i, "fatal") /\ UNCHANGED <<op, att>>
    BY <1>1, <1>4, QuietThrows, Quiet DEF tables
  <1> QED BY <1>3, <1>4 DEF Retry

\* The check of an applied action keeps the invariant and every recorded payload.
LEMMA CheckGood == ASSUME DInv, NEW i \in Actions, Check(i) PROVE StepOK
  <1>1. /\ i \in Jobs /\ UNCHANGED tables /\ NoCall
        /\ Goto(i, "settled") \/ Throws(i, "fatal")
    BY Numbers DEF Check
  <1> QED BY <1>1, ActionPoints, Targets, Quiet

\* The completion of an application keeps the invariant and every recorded payload.
LEMMA CompleteApplicationGood ==
    ASSUME DInv, NEW i \in Actions, CompleteApplication(i)
    PROVE  StepOK
  <1> DEFINE x == [act[i] EXCEPT !.state = job[i].pc, !.claimed = FALSE, !.plan = "none"]
  <1>1. i \in Jobs /\ act[i] \in ActTypes /\ Promised(act[i])
    BY Parts, ActionTyped
  <1>2. /\ UNCHANGED tables /\ NoCall
        /\ job' = [job EXCEPT ![i] = NoJob] /\ act' = [act EXCEPT ![i] = x]
    BY DEF CompleteApplication
  <1>3. x \in ActTypes /\ x.kind = act[i].kind
    BY <1>1 DEF CompleteApplication, ActTypes
  <1>4. Promised(x)
    BY <1>1 DEF CompleteApplication, ActTypes, Promised
  <1> HIDE DEF x
  <1>5. Control'
    BY <1>1, <1>2, <1>3, <1>4, NoJobPlain, ActionMoves, Parts
  <1> QED BY <1>2, <1>5, Untouched, Quiet DEF ServerOK

\* Every step of an action keeps the invariant and every recorded payload.
LEMMA ActionStepGood == ASSUME DInv, NEW i \in Actions, ActionStep(i) PROVE StepOK
  BY RecoverGood, ApplyCommandGood, ApplyBlockGood, ApplyFailGood, ApplyLocalGood,
     LocalBeginsGood, LocalFailsGood, FenceGood, ApplyResumeGood, ResumeGood, ApplyRetryGood, RetryGood, CheckGood, CompleteApplicationGood
     DEF ActionStep

-----------------------------------------------------------------------------
(* Requests of people, and the sweep. *)

LEMMA LeastIn == ASSUME NEW T, T \subseteq Nat, T # {} PROVE Least(T) \in T
  <1>1. PICK x \in T : \A y \in T : ~(<<y, x>> \in OpToRel(<, Nat))
    BY NatLessThanWellFounded, WFMin
  <1>2. ASSUME NEW y \in T PROVE x <= y
    <2>1. x \in Nat /\ y \in Nat
      OBVIOUS
    <2>2. ~(<<y, x>> \in {p \in Nat \X Nat : p[1] < p[2]})
      BY <1>1 DEF OpToRel
    <2>3. ~(y < x)
      BY <2>1, <2>2
    <2> QED BY <2>1, <2>3
  <1> QED BY <1>2 DEF Least

\* The job of an action starts, its action is written, and no other job gets
\* to a point where it must hold something.
Starts == [NoJob EXCEPT !.pc = "recover", !.mode = "recover"]

\* An action that is recorded with its promises starts with nothing in its hands.
LEMMA ActionStarts ==
    ASSUME Control, NEW i \in Actions, NEW x \in ActTypes, Promised(x), x.kind # "none",
           NEW s, s = job[Sweep] \/ Plain(s),
           job' = [job EXCEPT ![Sweep] = s, ![i] = Starts],
           act' = [act EXCEPT ![i] = x]
    PROVE  Control'
  <1>0. Starts \in JobTypes /\ Starts.pc = "recover"
    <2>1. NoJob \in JobTypes /\ "recover" \in Points
      BY NoJobPlain DEF Plain, Points, Unyielding
    <2> QED BY <2>1 DEF Starts, JobTypes
  <1>1. i \in Jobs /\ Sweep \in Jobs /\ i # Sweep /\ s \in JobTypes
    BY Numbers, JobTyped DEF Plain
  <1>2. job' \in [Jobs -> JobTypes] /\ act' \in [Actions -> ActTypes]
    BY <1>0, <1>1 DEF Control
  <1>3. \A k \in Actions : Promised(act'[k])
    BY DEF Control
  <1>4. ASSUME NEW k \in Jobs PROVE Holds(k, job[k])'
    <2>1. CASE k = i
      <3>1. job'[k].pc = "recover" /\ act'[k].kind # "none"
        BY <1>0, <1>1, <2>1 DEF Control
      <3> QED BY <3>1 DEF Holds
    <2>2. CASE k # i
      <3>1. Holds(k, job'[k]) /\ (k \in Actions => act'[k] = act[k])
        <4>1. CASE k = Sweep
          BY <1>1, <2>2, <4>1, PlainHolds DEF Control
        <4>2. CASE k # Sweep
          BY <2>2, <4>2 DEF Control
        <4> QED BY <4>1, <4>2
      <3> QED BY <3>1 DEF Holds
    <2> QED BY <2>1, <2>2
  <1> QED BY <1>2, <1>3, <1>4 DEF Control, Promised

\* Recording an action keeps the invariant and every recorded payload.
LEMMA SubmitGood ==
    ASSUME DInv, NEW i \in Actions, NEW kind \in Kinds, NEW stale \in 0..1, Submit(i, kind, stale)
    PROVE  StepOK
  <1> DEFINE request == [NoAction EXCEPT !.state = "recorded", !.kind = kind, !.attempt = cur,
                                         !.lease = att[cur].lease, !.version = att[cur].version - stale]
             fresh == CASE kind = "resume" -> FreeLeases [] kind = "retry" -> FreshAttempts [] OTHER -> {0}
             x == [request EXCEPT !.fresh = Least(fresh), !.claimed = TRUE]
  <1>1. /\ UNCHANGED <<tables, todo, past, rt>>
        /\ act' = [act EXCEPT ![i] = x]
        /\ job' = [job EXCEPT ![Sweep] = job[Sweep], ![i] = Starts]
    BY Parts, Numbers DEF Submit, clock, Starts, Control
  <1>2. kind \in {"cancel", "block", "fail", "resume", "retry"}
    BY RemoteDispatchAssumption
  <1>3. att[cur].version - stale \in Nat
    BY CurTyped, Parts DEF Submit
  <1>4. fresh # {}
    BY DEF Submit
  <1>5. fresh \subseteq Nat /\ (kind = "resume" => fresh \subseteq Leases)
                            /\ (kind = "retry" => fresh \subseteq Attempts)
    BY Numbers DEF FreeLeases, FreshAttempts
  <1> HIDE DEF fresh
  <1>6. Least(fresh) \in fresh
    BY <1>4, <1>5, LeastIn
  <1>7. request \in ActTypes
    BY <1>2, <1>3, Parts DEF ActTypes, NoAction
  <1>8. request.kind = kind /\ request.plan = "none"
    BY DEF NoAction
  <1> HIDE DEF request
  <1>9. x \in ActTypes /\ x.kind = kind /\ x.plan = "none" /\ x.fresh = Least(fresh)
    BY <1>5, <1>6, <1>7, <1>8 DEF ActTypes
  <1> HIDE DEF x
  <1>10. Promised(x) /\ x.kind # "none"
    BY <1>2, <1>5, <1>6, <1>9 DEF Promised
  <1>11. Control'
    BY <1>1, <1>9, <1>10, ActionStarts, Parts
  <1> QED BY <1>1, <1>11, Untouched, Elsewhere DEF ServerOK

\* Every dispatch passes to another state or stays as it is.
LEMMA DispatchesPass ==
    ASSUME Dispatched, dis' = [a \in Attempts |-> dis'[a]],
           \A a \in Attempts : Passes(dis[a], dis'[a])
    PROVE  Dispatched' /\ Kept
  <1>1. ASSUME NEW a \in Attempts
        PROVE  /\ dis'[a] \in DisTypes /\ Unrecorded(dis'[a])
               /\ dis[a].payload # "none" => dis'[a].payload = dis[a].payload
    BY DEF Dispatched, Passes
  <1>2. dis' \in [Attempts -> DisTypes]
    BY <1>1
  <1>3. \A a \in Attempts : Unrecorded(dis[a])'
    BY <1>1 DEF Unrecorded
  <1> QED BY <1>1, <1>2, <1>3 DEF Dispatched, Kept

\* recoverExpiredLeases interrupts what has no result.
LEMMA SweepStartGood == ASSUME DInv, SweepStart PROVE StepOK
  <1>1. /\ Sweep \in Jobs /\ UNCHANGED <<op, att, res>> /\ NoCall
        /\ Goes(Sweep, [NoJob EXCEPT !.pc = "due"])
    BY Numbers DEF SweepStart, Goes
  <1>2. Plain([NoJob EXCEPT !.pc = "due"])
    BY NoJobPlain, AtPoint DEF Plain, Points, Unyielding, Marked
  <1>3. ASSUME NEW a \in Attempts PROVE Passes(dis[a], dis'[a])
    <2> DEFINE e == [dis[a] EXCEPT !.status = "interrupted", !.intr = "lease_lost", !.payload = "none"]
    <2>1. dis[a] \in DisTypes
      BY Parts DEF Dispatched
    <2>2. CASE Recoverable(a)
      <3>1. dis'[a] = e /\ dis[a].status \in Open
        BY <2>2 DEF SweepStart, Recoverable, Open
      <3>2. e \in DisTypes /\ e.payload = "none"
        BY <2>1 DEF DisTypes
      <3> HIDE DEF e
      <3> QED BY <3>1, <3>2 DEF Passes, Unrecorded
    <2>3. CASE ~Recoverable(a)
      BY <2>3 DEF SweepStart, Passes
    <2> QED BY <2>2, <2>3
  <1>4. dis' = [a \in Attempts |-> dis'[a]]
    BY DEF SweepStart
  <1>5. Dispatched' /\ Kept
    BY <1>3, <1>4, DispatchesPass, Parts
  <1>6. Control'
    BY <1>1, <1>2, PlainMoves, Parts
  <1> QED BY <1>1, <1>5, <1>6, Parts, Quiet DEF ServerOK, Leased

\* The points of the sweep ask for nothing.
LEMMA SweepPoints == {"actions", "awaiting", "aborted", "reenter"} \subseteq Points \ Marked
  BY DEF Points, Unyielding, Ended, Marked

\* Recovery of a lease that is due keeps the invariant and every recorded payload.
LEMMA SweepDueGood == ASSUME DInv, SweepDue PROVE StepOK
  <1>1. /\ Sweep \in Jobs /\ UNCHANGED <<dis, past, rt>> /\ Goto(Sweep, "actions")
        /\ Release({l \in past : res[l].status = "active"}, "expired") /\ todo' \subseteq Actions
    BY Numbers DEF SweepDue, Unsettled
  <1>2. Leased' /\ Control'
    BY <1>1, SweepPoints, ReleaseTyped, GotoMoves, Parts
  <1> QED BY <1>1, <1>2, DispatchStays, Parts, Assembled DEF ServerOK, DInv

\* The next action of the sweep keeps the invariant and every recorded payload.
LEMMA SweepActionGood == ASSUME DInv, SweepAction PROVE StepOK
  <1> DEFINE i == Least(todo)
  <1>1. Sweep \in Jobs /\ UNCHANGED tables /\ NoCall
    BY Numbers DEF SweepAction
  <1>2. i \in Actions
    <2>1. todo \subseteq Actions /\ todo \subseteq Nat /\ todo # {}
      BY DEF DInv, SweepAction, Actions
    <2> QED BY <2>1, LeastIn
  <1>3. CASE Goto(Sweep, "awaiting") \/ Goto(Sweep, "aborted")
    BY <1>1, <1>3, SweepPoints, QuietGoto, Quiet
  <1>4. CASE /\ act[i].state = "recorded"
             /\ job' = [job EXCEPT ![Sweep].pc = "awaiting", ![i] = Starts]
             /\ act' = [act EXCEPT ![i].claimed = TRUE]
    <2> DEFINE s == [job[Sweep] EXCEPT !.pc = "awaiting"]
               x == [act[i] EXCEPT !.claimed = TRUE]
    <2>1. act[i] \in ActTypes /\ Promised(act[i])
      BY <1>2, ActionTyped, Parts
    <2>2. x \in ActTypes /\ Promised(x) /\ x.kind # "none"
      BY <1>4, <2>1 DEF ActTypes, Promised
    <2>3. Plain(s)
      BY <1>1, SweepPoints, AtPoint, JobTyped, Parts
    <2>4. job' = [job EXCEPT ![Sweep] = s, ![i] = Starts] /\ act' = [act EXCEPT ![i] = x]
      BY <1>4
    <2> HIDE DEF s, x, i
    <2>5. Control'
      BY <1>2, <2>2, <2>3, <2>4, ActionStarts, Parts
    <2> QED BY <1>1, <2>5, Untouched, Quiet DEF ServerOK
  <1> QED BY <1>3, <1>4 DEF SweepAction, Starts

\* The end of an action that the sweep awaited keeps the invariant and every recorded payload.
LEMMA SweepAwaitedGood == ASSUME DInv, SweepAwaited PROVE StepOK
  <1> DEFINE i == Least(todo)
  <1>1. Sweep \in Jobs /\ UNCHANGED <<tables, past, rt>>
    BY Numbers DEF SweepAwaited
  <1>2. CASE Goto(Sweep, "aborted") /\ UNCHANGED todo
    BY <1>1, <1>2, SweepPoints, QuietGoto, Elsewhere
  <1>3. CASE /\ job' = [job EXCEPT ![Sweep].pc = "actions"]
             /\ act' = [act EXCEPT ![i].claimed = FALSE]
             /\ todo' = todo \ {i}
    <2> DEFINE s == [job[Sweep] EXCEPT !.pc = "actions"]
               x == [act[i] EXCEPT !.claimed = FALSE]
    <2>1. Plain(s)
      BY <1>1, SweepPoints, AtPoint, JobTyped, Parts
    <2>2. job' = [job EXCEPT ![Sweep] = s] /\ act' = [act EXCEPT ![i] = x]
      BY <1>3
    <2> HIDE DEF s, i
    <2>3. Control'
      <3>1. CASE i \in Actions
        <4>1. act[i] \in ActTypes /\ Promised(act[i])
          BY <3>1, ActionTyped, Parts
        <4>2. x \in ActTypes /\ Promised(x) /\ x.kind = act[i].kind
          BY <4>1 DEF ActTypes, Promised
        <4> HIDE DEF x
        <4> QED BY <1>1, <2>1, <2>2, <3>1, <4>2, ActionMoves, Parts
      <3>2. CASE i \notin Actions
        <4>1. act' = act
          BY <2>2, <3>2, Parts DEF Control
        <4> QED BY <1>1, <2>1, <2>2, <4>1, PlainHolds, Moves, Parts
      <3> QED BY <3>1, <3>2
    <2>4. ServerOK
      BY <1>1, <2>3, Untouched DEF ServerOK
    <2>5. todo' \subseteq Actions
      BY <1>3 DEF DInv
    <2> QED BY <1>1, <2>4, <2>5, Assembled DEF DInv
  <1> QED BY <1>2, <1>3 DEF SweepAwaited

\* The sweep that takes up the operation keeps the invariant and every recorded payload.
LEMMA SweepReentersGood == ASSUME DInv, SweepReenters PROVE StepOK
  BY Numbers, SweepPoints, QuietGoto, Quiet DEF SweepReenters

\* Every step of the sweep keeps the invariant and every recorded payload.
LEMMA SweepStepGood == ASSUME DInv, SweepStep PROVE StepOK
  BY SweepStartGood, SweepDueGood, SweepActionGood, SweepAwaitedGood, SweepReentersGood DEF SweepStep

-----------------------------------------------------------------------------
(* Events of hosts, faults, and the whole. *)

\* settleAttemptCommands changes no kind.
LEMMA SettleMoves ==
    ASSUME Control, NEW a, NEW kind, SettleCommands(a, kind),
           job' = job \/ \E j \in Jobs : \E r : Plain(r) /\ job' = [job EXCEPT ![j] = r]
    PROVE  Control'
  <1>1. ASSUME NEW i \in Actions
        PROVE  act'[i] \in ActTypes /\ act'[i].kind = act[i].kind /\ Promised(act'[i])
    <2>1. act[i] \in ActTypes /\ Promised(act[i])
      BY ActionTyped
    <2>2. act'[i] = act[i] \/ act'[i] = [act[i] EXCEPT !.state = "settled"]
      BY DEF SettleCommands
    <2> QED BY <2>1, <2>2 DEF ActTypes, Promised
  <1>2. act' \in [Actions -> ActTypes]
    BY <1>1 DEF SettleCommands
  <1>3. job' \in [Jobs -> JobTypes]
    BY PlainHolds DEF Control
  <1>4. ASSUME NEW k \in Jobs PROVE Holds(k, job[k])'
    <2>1. Holds(k, job'[k])
      BY PlainHolds DEF Control
    <2> QED BY <2>1, <1>1 DEF Holds
  <1> QED BY <1>1, <1>2, <1>3, <1>4 DEF Control, Promised

\* The acceptance by the host keeps the invariant and every recorded payload.
LEMMA ServerAcceptedGood == ASSUME DInv, ServerAccepted PROVE StepOK
  <1> DEFINE a == Head(toServer).attempt
             e == [dis[a] EXCEPT !.status = "running"]
  <1>1. UNCHANGED <<op, att, res, job, todo, past, rt>> /\ SettleCommands(a, "resume")
    BY DEF ServerAccepted, clock
  <1>2. dis' = dis \/ (dis[a].status = "leased" /\ dis' = [dis EXCEPT ![a] = e])
    BY DEF ServerAccepted
  <1>3. dis[a].status = "leased" /\ a \in Attempts => Passes(dis[a], e)
    <2>1. SUFFICES ASSUME dis[a].status = "leased", dis[a] \in DisTypes PROVE Passes(dis[a], e)
      BY Parts DEF Dispatched
    <2>2. e \in DisTypes /\ e.payload = dis[a].payload
      BY <2>1 DEF DisTypes, Live
    <2> HIDE DEF e
    <2> QED BY <2>1, <2>2 DEF Passes, Unrecorded, Open, Live
  <1> HIDE DEF a, e
  <1>4. Dispatched' /\ Kept
    BY <1>2, <1>3, DispatchStays, DispatchPasses, Parts
  <1>5. Control'
    BY <1>1, SettleMoves, Parts
  <1> QED BY <1>1, <1>4, <1>5, Parts, Elsewhere DEF ServerOK, Leased

\* An interruption that the host reports keeps the invariant and every recorded payload.
LEMMA ServerInterruptedGood == ASSUME DInv, ServerInterrupted PROVE StepOK
  <1> DEFINE a == Head(toServer).attempt
             t == Head(toServer).type
             e == [dis[a] EXCEPT !.status = "interrupted", !.intr = t]
  <1>1. UNCHANGED <<op, att, res, act, job, todo, past, rt>> /\ t \in {"resumable", "manual", "lease_lost"}
    BY DEF ServerInterrupted, clock
  <1>2. dis' = dis \/ (dis[a].status \in Live /\ dis' = [dis EXCEPT ![a] = e])
    BY DEF ServerInterrupted, Live
  <1> HIDE DEF t
  <1>3. dis[a].status \in Live /\ a \in Attempts => Passes(dis[a], e)
    <2>1. SUFFICES ASSUME dis[a].status \in Live, dis[a] \in DisTypes PROVE Passes(dis[a], e)
      BY Parts DEF Dispatched
    <2>2. e \in DisTypes /\ e.payload = dis[a].payload
      BY <1>1, <2>1 DEF DisTypes
    <2> HIDE DEF e
    <2> QED BY <2>1, <2>2 DEF Passes, Unrecorded, Open
  <1> HIDE DEF a, e
  <1>4. Dispatched' /\ Kept
    BY <1>2, <1>3, DispatchStays, DispatchPasses, Parts
  <1>5. Control'
    BY <1>1, Parts DEF Control, Holds, Promised
  <1> QED BY <1>1, <1>4, <1>5, Parts, Elsewhere DEF ServerOK, Leased

\* A result is taken only of a dispatch that has none.
LEMMA ServerTerminalGood == ASSUME DInv, ServerTerminal PROVE StepOK
  <1> DEFINE a == Head(toServer).attempt
             t == Head(toServer).type
             e == [dis[a] EXCEPT !.status = "awaiting_writeback", !.payload = t, !.intr = "none"]
             r == [NoJob EXCEPT !.pc = "write", !.outcome = dis'[a].payload]
  <1>1. /\ UNCHANGED <<op, att, res, todo, past, rt>> /\ t \in Terminal
        /\ SettleCommands(a, "cancel")
        /\ job' = job \/ (a = cur /\ job' = [job EXCEPT ![Ws(a)] = r])
    BY DEF ServerTerminal, clock
  <1>2. dis' = dis \/ (dis[a].status \in Open /\ dis' = [dis EXCEPT ![a] = e])
    BY DEF ServerTerminal, AcceptsTerminal, Open, Live
  <1> HIDE DEF t
  <1>3. dis[a].status \in Open /\ a \in Attempts => Passes(dis[a], e)
    <2>1. SUFFICES ASSUME dis[a].status \in Open, dis[a] \in DisTypes PROVE Passes(dis[a], e)
      BY Parts DEF Dispatched
    <2>2. e \in DisTypes /\ e.status = "awaiting_writeback"
      BY <1>1, <2>1 DEF DisTypes
    <2> HIDE DEF e
    <2> QED BY <2>1, <2>2 DEF Passes, Unrecorded, Open, Live
  <1> HIDE DEF a, e
  <1>4. Dispatched' /\ Kept
    BY <1>2, <1>3, DispatchStays, DispatchPasses, Parts
  <1>5. Control'
    <2>1. CASE job' = job
      BY <1>1, <2>1, SettleMoves, Parts
    <2>2. CASE a = cur /\ job' = [job EXCEPT ![Ws(a)] = r]
      <3>1. a \in Attempts /\ Ws(a) \in Jobs
        BY <2>2, Parts, Numbers
      <3>2. dis'[a].payload \in {"none", "operator"} \cup Terminal
        BY <1>4, <3>1 DEF Dispatched, DisTypes
      <3>3. NoJob \in JobTypes /\ "write" \in Points \ Marked
        BY NoJobPlain DEF Plain, Points, Marked
      <3>4. Plain(r)
        BY <3>2, <3>3 DEF Plain, JobTypes
      <3> HIDE DEF r
      <3> QED BY <1>1, <2>2, <3>1, <3>4, SettleMoves, Parts
    <2> QED BY <1>1, <2>1, <2>2
  <1> QED BY <1>1, <1>4, <1>5, Parts, Elsewhere DEF ServerOK, Leased

\* The server's part stays as it is.
LEMMA ServerStays == ASSUME DInv, UNCHANGED <<tables, act, job>> PROVE ServerOK
  <1>1. Control'
    BY Parts DEF Control, Holds, Promised
  <1> QED BY <1>1, Untouched DEF ServerOK

\* The host and a change of the package touch no table of the server.
LEMMA HostGood ==
    ASSUME DInv,
           \/ HostReceive \/ HostStep
           \/ \E a \in Attempts, kind \in {"resumable", "lease_lost"} : HostExpire(a, kind)
           \/ \E kind \in {"resumable", "manual"} : HostRestart(kind)
           \/ EditPackage
    PROVE  StepOK
  <1>1. UNCHANGED <<tables, act, job, todo, rt, past>>
    BY DEF HostReceive, HostStep, HostStart, HostFinish, HostExpire, HostRestart, EditPackage,
           HostOnly, server, clock
  <1> QED BY <1>1, ServerStays, Elsewhere

\* The clock makes a lease due and writes nothing.
LEMMA TickGood == ASSUME DInv, NEW l \in Leases, Tick(l) PROVE StepOK
  <1>1. UNCHANGED <<tables, act, job, todo, rt>> /\ past' \subseteq Leases
    BY DEF Tick, server, DInv
  <1> QED BY <1>1, ServerStays, Assembled DEF DInv

\* A server that dies forgets its jobs and keeps the recorded actions.
LEMMA DiesMoves == ASSUME Control, Dies PROVE Control' /\ todo' \subseteq Actions
  <1>1. job' \in [Jobs -> JobTypes] /\ act' \in [Actions -> ActTypes] /\ todo' = {}
    BY NoJobPlain DEF Dies, Control, Plain
  <1>2. ASSUME NEW k \in Jobs PROVE Holds(k, job[k])'
    BY NoJobPlain, PlainHolds DEF Dies, Holds, NoJob
  <1>3. \A i \in Actions : Promised(act[i])'
    BY DEF Dies, Control, Promised
  <1> QED BY <1>1, <1>2, <1>3 DEF Control

\* A stop of the server keeps the invariant and every recorded payload.
LEMMA CrashGood == ASSUME DInv, Crash PROVE StepOK
  <1>1. Dies /\ UNCHANGED <<tables, rt, past>>
    BY DEF Crash
  <1> QED BY <1>1, DiesMoves, Untouched, Parts, Assembled DEF ServerOK, DInv

\* A stop between the new lease of a resume and its dispatch keeps the invariant and every recorded payload.
LEMMA CrashInResumeGood == ASSUME DInv, NEW i \in Actions, CrashInResume(i) PROVE StepOK
  <1>1. Dies /\ UNCHANGED <<dis, rt, past>> /\ TakeLease(i) /\ act[i].kind = "resume"
    BY ResumedKind DEF CrashInResume
  <1> QED BY <1>1, DiesMoves, TakeLeaseTyped, DispatchStays, Parts, Assembled DEF ServerOK, DInv

\* A reset of the runtime keeps the invariant and every recorded payload.
LEMMA RuntimeResetGood == ASSUME DInv, RuntimeReset PROVE StepOK
  <1>1. UNCHANGED <<tables, act, job, todo, past>>
    BY DEF RuntimeReset, server
  <1>2. rt' \in RtTypes
    BY DEF RuntimeReset, RtTypes
  <1> QED BY <1>1, <1>2, ServerStays, Assembled DEF DInv

\* Every step keeps the invariant and every recorded payload.
LEMMA NextGood == ASSUME DInv, [Next]_dvars PROVE StepOK
  <1>1. CASE \E j \in Jobs : Runs(j) /\ JobStep(j)
    BY <1>1, JobStepGood
  <1>2. CASE \E i \in Actions : Runs(i) /\ ActionStep(i)
    BY <1>2, ActionStepGood
  <1>3. CASE Runs(Sweep) /\ SweepStep
    BY <1>3, SweepStepGood
  <1>4. CASE \E i \in Actions : CrashInResume(i)
    BY <1>4, CrashInResumeGood
  <1>5. CASE \E i \in Actions, kind \in Kinds, stale \in 0..1 : Submit(i, kind, stale)
    BY <1>5, SubmitGood
  <1>6. CASE ServerEvent
    BY <1>6, ServerAcceptedGood, ServerInterruptedGood, ServerTerminalGood DEF ServerEvent
  <1>7. CASE \E l \in Leases : Tick(l)
    BY <1>7, TickGood
  <1>8. CASE Crash \/ RuntimeReset
    BY <1>8, CrashGood, RuntimeResetGood
  <1>9. CASE UNCHANGED dvars
    <2>1. UNCHANGED <<tables, act, job, todo, past, rt>>
      BY <1>9 DEF dvars, server, clock
    <2> QED BY <2>1, ServerStays, Elsewhere
  <1> QED BY <1>1, <1>2, <1>3, <1>4, <1>5, <1>6, <1>7, <1>8, <1>9, HostGood DEF Next

\* The invariant holds of the operation that was claimed.
LEMMA InitGood == Init => DInv
  <1> SUFFICES ASSUME Init PROVE DInv
    OBVIOUS
  <1>1. Leased
    BY Numbers DEF Init, Leased, OpTypes, AttTypes, ResTypes
  <1>2. Dispatched
    BY DEF Init, Dispatched, DisTypes, Unrecorded
  <1>3. rt \in RtTypes /\ todo \subseteq Actions /\ past \subseteq Leases
    BY DEF Init, RtTypes
  <1>4. NoAction \in ActTypes /\ Promised(NoAction)
    BY DEF NoAction, ActTypes, Promised
  <1>5. job \in [Jobs -> JobTypes] /\ act \in [Actions -> ActTypes]
    BY <1>4, NoJobPlain DEF Init, Plain
  <1>6. \A j \in Jobs : Holds(j, job[j])
    BY NoJobPlain, PlainHolds DEF Init
  <1>7. \A i \in Actions : Promised(act[i])
    BY <1>4 DEF Init
  <1> QED BY <1>1, <1>2, <1>3, <1>5, <1>6, <1>7 DEF DInv, Control

\* DInv is inductive: from the first state on, whatever jobs, people, hosts,
\* crashes and clocks do.
THEOREM DInvariance == Spec => []DInv
  <1>1. Init => DInv
    BY InitGood
  <1>2. DInv /\ [Next]_dvars => DInv'
    BY NextGood DEF StepOK
  <1> QED BY <1>1, <1>2, PTL DEF Spec

\* The tables of the server and the block's state in the runtime always hold
\* the states their schemas name, however often leases expire, attempts are
\* replaced, answers are lost or the server stops between two transactions.
THEOREM DispatchTypes == Spec => []DispatchTypeOK
  <1>1. DInv => DispatchTypeOK
    BY DEF DInv, Leased, Dispatched, OpTypes, AttTypes, DisTypes, ResTypes, RtTypes, DispatchTypeOK
  <1> QED BY <1>1, DInvariance, PTL

\* The result that a dispatch has recorded stays the one it has: the recovery
\* of expired leases, a reset of the runtime, the failure an operator asks for
\* and a later event of the host find the dispatch in a state they leave alone.
THEOREM ResultsStay == Spec => AcceptedResultKept
  <1>1. DInv /\ [Next]_dvars
            => [\A a \in Attempts : dis[a].payload # "none" => dis'[a].payload = dis[a].payload]_dvars
    BY NextGood DEF StepOK, Kept
  <1> QED BY <1>1, DInvariance, PTL DEF Spec, AcceptedResultKept

-----------------------------------------------------------------------------
(* What the block has been given.  WInv says what the jobs carry on their way *)
(* to the runtime and back, between the record of a result and the end of the *)
(* operation.                                                                 *)

Done == rt.phase = "ended" /\ rt.outcome = "completed"

\* A dispatch that has come to an end, or awaits its write-back, has a result,
\* and is completed only after the block.
Answered ==
    \A a \in Attempts : /\ dis[a].status \notin Open => dis[a].payload # "none"
                        /\ dis[a].status = "completed" => Done

\* The block has what was recorded for its attempt.
RecordedFor(outcome) == IF outcome = "rejected" THEN "completed" ELSE outcome
Given == rt.phase = "ended" /\ rt.outcome # "cancelled" =>
            /\ rt.attempt \in Attempts
            /\ dis[rt.attempt].payload = RecordedFor(rt.outcome)
            /\ dis[rt.attempt].payload # "none"

\* What a job carries: its attempt, the payload to the runtime, its answer back.
Busy == {"claim", "reconcile", "persisted", "call", "reject", "finish", "finalize"}
Carries(r) ==
    /\ r.pc \in {"claim", "reconcile", "persisted"} => r.attempt \in Attempts
    /\ r.pc = "call" => /\ r.attempt \in Attempts /\ r.outcome # "none"
                        /\ dis[r.attempt].payload = r.outcome
    /\ r.pc = "reject" => r.attempt \in Attempts /\ dis[r.attempt].payload = "completed"
    /\ r.pc \in {"finish", "finalize"} /\ r.outcome = "completed" => Done

WInv ==
    /\ DInv
    /\ op.state = "completed" => Done
    /\ Answered
    /\ Given
    /\ \A k \in Jobs : Carries(job[k])

\* What a step may do to the block: end it, once.
Lasts == rt.phase = "ended" => rt' = rt
Unended == Lasts /\ (rt'.phase = "ended" => rt' = rt)

\* What it may do to the operation and the dispatches: complete none.
Answers ==
    /\ op'.state = "completed" => op.state = "completed" \/ Done
    /\ \A a \in Attempts : \/ dis'[a] = dis[a]
                           \/ dis'[a].status \in Open
                           \/ dis'[a].payload # "none" /\ (dis'[a].status = "completed" => Done)

\* And to the jobs: each stays, or has nothing to carry.
Rests == \A k \in Jobs : job'[k] = job[k] \/ job'[k].pc \notin Busy

\* A block that has been completed stays so.
LEMMA DoneStays == ASSUME Lasts, Done PROVE Done'
  BY DEF Lasts, Done

\* A step that completes nothing keeps what is said of the tables.
LEMMA TablesAnswer ==
    ASSUME WInv, Lasts, Answers
    PROVE  (op.state = "completed" => Done)' /\ Answered'
  <1>1. Done => Done'
    BY DoneStays
  <1>2. ASSUME NEW a \in Attempts
        PROVE  /\ dis'[a].status \notin Open => dis'[a].payload # "none"
               /\ dis'[a].status = "completed" => Done
    <2>1. "completed" \notin Open
      BY DEF Open, Live
    <2> QED BY <2>1 DEF WInv, Answered, Answers
  <1> QED BY <1>1, <1>2 DEF WInv, Answered, Answers

\* A step that does not end the block keeps what is said of it.
LEMMA GivenStays == ASSUME WInv, Kept, Unended PROVE Given'
  BY DEF WInv, Given, Kept, Unended, RecordedFor

\* What a job carries is not taken from it.
LEMMA CarriesOn ==
    ASSUME WInv, Kept, Lasts, NEW k \in Jobs, job'[k] = job[k]
    PROVE  Carries(job[k])'
  <1>1. Carries(job[k])
    BY DEF WInv
  <1>2. \A a \in Attempts : dis[a].payload # "none" => dis'[a].payload = dis[a].payload
    BY DEF Kept
  <1> QED BY <1>1, <1>2, DoneStays DEF Carries

\* A job that has nothing to carry.
LEMMA RestCarries == ASSUME NEW k, job'[k].pc \notin Busy PROVE Carries(job[k])'
  BY DEF Carries, Busy

\* The step of a job that moves with the tables as they are, or completes none.
LEMMA JobKeeps ==
    ASSUME WInv, StepOK, Lasts, Answers, Given', NEW j \in Jobs,
           \A k \in Jobs \ {j} : job'[k] = job[k], Carries(job[j])'
    PROVE  WInv'
  <1>1. \A k \in Jobs : Carries(job[k])'
    BY CarriesOn DEF StepOK
  <1> QED BY <1>1, TablesAnswer DEF WInv, StepOK

\* A step after which nobody carries more than before.
LEMMA RestsKeep == ASSUME WInv, StepOK, Unended, Answers, Rests PROVE WInv'
  <1>1. \A k \in Jobs : Carries(job[k])'
    BY CarriesOn, RestCarries DEF StepOK, Unended, Rests
  <1> QED BY <1>1, TablesAnswer, GivenStays DEF WInv, StepOK, Unended

\* The tables stay.
LEMMA AnswersStay == ASSUME UNCHANGED tables PROVE Answers
  BY DEF Answers, tables

\* The block stays.
LEMMA BlockStays == ASSUME rt' = rt PROVE Unended
  BY DEF Unended, Lasts

\* A step that calls nobody.
LEMMA QuietKeeps == ASSUME WInv, StepOK, rt' = rt, Answers, Rests PROVE WInv'
  BY BlockStays, RestsKeep

-----------------------------------------------------------------------------
(* How a job ends. *)

\* The step moves job j only, and leaves it nothing to carry.
Drops(j) == (\A k \in Jobs \ {j} : job'[k] = job[k]) /\ job'[j].pc \notin Busy

\* A step that leaves its job nothing leaves nobody more than before.
LEMMA DropsRest == ASSUME NEW j \in Jobs, Drops(j) PROVE Rests
  BY DEF Drops, Rests

\* A job that goes on to a point at which it carries nothing.
LEMMA GoesDrops ==
    ASSUME DInv, NEW j \in Jobs, NEW r, r.pc \notin Busy, job' = [job EXCEPT ![j] = r]
    PROVE  Drops(j)
  BY Parts DEF Control, Drops

\* A job that only goes on to another such point.
LEMMA GotoDrops == ASSUME DInv, NEW j \in Jobs, NEW pc, pc \notin Busy, Goto(j, pc) PROVE Drops(j)
  <1>1. [job[j] EXCEPT !.pc = pc].pc = pc
    BY Parts, JobTyped DEF JobTypes
  <1> QED BY <1>1, GoesDrops DEF Goto, Goes

\* An idle job, and one that has ended, carries nothing.
LEMMA IdleCarries == NoJob.pc \notin Busy
                     /\ \A pc \in {"aborted", "refused", "deferred"} : [NoJob EXCEPT !.pc = pc].pc \notin Busy
  BY DEF NoJob, Busy

\* Whatever error ends a job, it carries nothing on.
LEMMA ThrowsDrops == ASSUME DInv, NEW j \in Jobs, NEW class, Throws(j, class) PROVE Drops(j)
  <1>0. \A pc \in {"seal", "force", "settled"} : [job[j] EXCEPT !.pc = pc].pc \notin Busy
    BY Parts, JobTyped DEF JobTypes, Busy
  <1>1. CASE j = Sweep
    <2>1. \E r : r.pc \notin Busy /\ job' = [job EXCEPT ![j] = r]
      BY <1>0, <1>1, IdleCarries DEF Throws, SweepThrows
    <2> QED BY <2>1, GoesDrops
  <1>2. CASE j # Sweep /\ j \in Actions
    <2>1. \E r : r.pc \notin Busy /\ job' = [job EXCEPT ![j] = r]
      BY <1>0, <1>2, IdleCarries DEF Throws, ActionThrows, Goto, Goes
    <2> QED BY <2>1, GoesDrops
  <1>3. CASE j # Sweep /\ j \notin Actions
    BY <1>3, IdleCarries, GoesDrops DEF Throws, Goes
  <1> QED BY <1>1, <1>2, <1>3

\* A job that returns carries nothing on.
LEMMA ReturnsDrops == ASSUME DInv, NEW j \in Jobs, Returns(j) PROVE Drops(j)
  <1>1. CASE j = Sweep \/ j \notin Actions
    BY <1>1, IdleCarries, GoesDrops DEF Returns, Goes
  <1>2. CASE j # Sweep /\ j \in Actions
    <2>1. "check" \notin Busy /\ "settled" \notin Busy
      BY DEF Busy
    <2> QED BY <1>2, <2>1, GotoDrops DEF Returns
  <1> QED BY <1>1, <1>2

-----------------------------------------------------------------------------
(* How an operation ends. *)

\* The operation stays as it is, or ends as it is told to.
LEMMA FinalizesAs ==
    ASSUME DInv, NEW j \in Jobs, NEW l, NEW s \in Terminal, Finalizes(j, l, s)
    PROVE  Drops(j) /\ (op'.state = s \/ op' = op)
  <1>1. s # "expired" /\ op \in OpTypes
    BY Parts DEF Terminal
  <1>2. CASE FinalizeError(l, s) = "none"
    <2>1. op' = op \/ op' = [op EXCEPT !.state = s]
      BY <1>1, <1>2 DEF Finalizes, Finalized, Release
    <2> QED BY <1>1, <1>2, <2>1, ReturnsDrops DEF Finalizes, OpTypes
  <1>3. CASE FinalizeError(l, s) # "none"
    BY <1>3, ThrowsDrops DEF Finalizes
  <1> QED BY <1>2, <1>3

\* The operation has not been completed by the step, and one dispatch has
\* changed at most: it is open, or has a result.
LEMMA OneAnswers ==
    ASSUME DInv, NEW a, NEW e, op' = op \/ op'.state # "completed" \/ Done,
           \/ dis' = dis
           \/ dis' = [dis EXCEPT ![a] = e] /\ e.status \in Open
           \/ dis' = [dis EXCEPT ![a] = e] /\ e.payload # "none" /\ (e.status = "completed" => Done)
    PROVE  Answers
  <1>1. dis \in [Attempts -> DisTypes]
    BY DEF DInv, Dispatched
  <1> QED BY <1>1 DEF Answers

\* The operation ends, and its dispatch with it or alone, as completed only
\* when the block is.
LEMMA EndsAnswer ==
    ASSUME WInv, NEW j \in Jobs, NEW l, NEW s \in Terminal, Finalizes(j, l, s),
           s = "completed" => Done,
           \/ dis' = dis
           \/ /\ dis[cur].status \notin Open
              /\ dis' = [dis EXCEPT ![cur].status = s]
    PROVE  Answers /\ Drops(j)
  <1> DEFINE e == [dis[cur] EXCEPT !.status = s]
  <1>1. DInv /\ Drops(j) /\ (op'.state = s \/ op' = op)
    BY FinalizesAs DEF WInv
  <1>2. cur \in Attempts /\ dis[cur] \in DisTypes
    BY <1>1, Parts
  <1>3. CASE dis' = dis
    BY <1>1, <1>3, OneAnswers
  <1>4. CASE dis[cur].status \notin Open /\ dis' = [dis EXCEPT ![cur].status = s]
    <2>1. dis' = [dis EXCEPT ![cur] = e]
      BY <1>4
    <2>2. e.status = s /\ e.payload # "none"
      BY <1>2, <1>4 DEF WInv, Answered, DisTypes
    <2> HIDE DEF e
    <2> QED BY <1>1, <2>1, <2>2, OneAnswers
  <1> QED BY <1>1, <1>3, <1>4

\* A dispatch whose end can be recorded has a result.
LEMMA FinishHasEnded ==
    ASSUME NEW s \in Terminal, FinishError(s) = "none"
    PROVE  dis[cur].status \notin Open
  BY DEF FinishError, Open, Live, Terminal

\* A step that only moves the job of its own, and leaves it nothing.
LEMMA DropsKeep ==
    ASSUME WInv, StepOK, rt' = rt, Answers, NEW j \in Jobs, Drops(j)
    PROVE  WInv'
  BY DropsRest, QuietKeeps

\* A job that ends before it has written anything keeps WInv.
LEMMA ThrowsKeep ==
    ASSUME WInv, StepOK, rt' = rt, UNCHANGED tables, NEW j \in Jobs,
           Returns(j) \/ \E class : Throws(j, class)
    PROVE  WInv'
  BY ThrowsDrops, ReturnsDrops, AnswersStay, DropsKeep DEF WInv

\* completeWithLease and failWithLease up to the call: what the job takes to
\* the runtime is what its dispatch has.
LEMMA WritesKeep ==
    ASSUME WInv, StepOK, rt' = rt, NEW j \in Jobs, NEW outcome, Writes(j, outcome)
    PROVE  WInv'
  <1>0. DInv /\ cur \in Attempts
    BY Parts DEF WInv
  <1>1. CASE WriteReplays(j)
    <2>1. op.state \in Terminal /\ (op.state = "completed" => Done)
      BY <1>1 DEF WriteReplays, WInv
    <2>2. CASE Finished(op.state) /\ Finalizes(j, att[cur].lease, op.state)
      <3>1. CASE dis[cur].status = "awaiting_writeback"
        <4>1. dis[cur].status \notin Open
          BY <3>1 DEF Open, Live
        <4> QED BY <2>1, <2>2, <4>1, EndsAnswer, DropsKeep DEF Finished
      <3>2. CASE dis[cur].status = op.state
        <4>1. dis[cur].status \notin Open
          BY <2>1, <3>2 DEF Open, Live, Terminal
        <4> QED BY <2>1, <2>2, <4>1, EndsAnswer, DropsKeep DEF Finished
      <3>3. \/ dis[cur].status = "awaiting_writeback" \/ dis[cur].status = op.state
            \/ \E class : Throws(j, class) /\ UNCHANGED tables
        BY <1>1 DEF WriteReplays
      <3> QED BY <3>1, <3>2, <3>3, ThrowsKeep
    <2> QED BY <1>1, <2>2, ThrowsKeep DEF WriteReplays
  <1>2. CASE WriteCalls(j, outcome)
    <2> DEFINE r == [job[j] EXCEPT !.pc = "call", !.attempt = cur, !.outcome = dis[cur].payload]
    <2>1. job' = [job EXCEPT ![j] = r] /\ UNCHANGED tables /\ dis[cur].status = "awaiting_writeback"
      BY <1>2 DEF WriteCalls, Goes, Evident
    <2>2. r.pc = "call" /\ r.attempt = cur /\ r.outcome = dis[cur].payload
      BY <1>0, Parts, JobTyped DEF JobTypes
    <2>3. dis[cur].payload # "none"
      BY <1>0, <2>1 DEF WInv, Answered, Open, Live
    <2> HIDE DEF r
    <2>4. job'[j] = r /\ \A k \in Jobs \ {j} : job'[k] = job[k]
      BY <1>0, <2>1, Parts DEF Control
    <2>5. dis' = dis
      BY <2>1 DEF tables
    <2>6. Carries(job[j])'
      BY <1>0, <2>2, <2>3, <2>4, <2>5 DEF Carries
    <2>7. Given' /\ Lasts
      BY GivenStays, BlockStays DEF StepOK, Unended
    <2> QED BY <2>1, <2>4, <2>6, <2>7, AnswersStay, JobKeeps
  <1>3. CASE WriteFinalizes(j, outcome)
    <2>1. dis[cur].status \in Terminal /\ dis[cur].status # "completed"
      BY <1>3 DEF WriteFinalizes, Terminal
    <2> QED BY <1>3, <2>1, EndsAnswer, DropsKeep DEF WriteFinalizes
  <1>4. CASE WriteRefuses(j, outcome)
    BY <1>4, ThrowsKeep DEF WriteRefuses
  <1> QED BY <1>1, <1>2, <1>3, <1>4 DEF Writes

\* The entry of the write-back keeps WInv.
LEMMA WriteKeeps == ASSUME WInv, NEW j \in Jobs, Write(j) PROVE WInv'
  BY WritesKeep, WriteGood DEF Write, WInv, NoCall

\* An operation is completed by the job that has had the runtime's answer.
LEMMA FinishKeeps == ASSUME WInv, NEW j \in Jobs, Finish(j) PROVE WInv'
  <1> DEFINE s == StatusOf(job[j].outcome)
             r == [job[j] EXCEPT !.pc = "finalize", !.attempt = cur, !.lease = att[cur].lease]
             e == [dis[cur] EXCEPT !.status = s]
  <1>0. DInv /\ StepOK /\ rt' = rt /\ UNCHANGED <<op, att, res>>
    BY FinishGood DEF WInv, Finish, NoCall
  <1>1. CASE FinishError(s) = "none" /\ Finished(s) /\ Goes(j, r)
    <2>1. s = "completed" => Done
      <3>1. s = "completed" => job[j].outcome = "completed"
        BY DEF StatusOf
      <3> QED BY <3>1 DEF Finish, At, WInv, Carries
    <2>2. s \in Terminal
      BY StatusEnds
    <2> HIDE DEF s
    <2>3. e.status = s /\ e.payload # "none"
      BY <1>0, <1>1, <2>2, FinishHasEnded, Parts DEF WInv, Answered, DisTypes
    <2>4. dis' = [dis EXCEPT ![cur] = e]
      BY <1>1 DEF Finished
    <2> HIDE DEF e
    <2>5. Answers
      BY <1>0, <2>1, <2>3, <2>4, OneAnswers
    <2>6. r.pc = "finalize" /\ r.outcome = job[j].outcome
      BY <1>0, Parts, JobTyped DEF JobTypes
    <2> HIDE DEF r
    <2>7. job'[j] = r /\ \A k \in Jobs \ {j} : job'[k] = job[k]
      BY <1>0, <1>1, Parts DEF Control, Goes
    <2>8. Given' /\ Lasts
      BY <1>0, GivenStays, BlockStays DEF StepOK, Unended
    <2>9. r.outcome = "completed" => Done'
      BY <2>6, <2>8, DoneStays DEF Finish, At, WInv, Carries
    <2>10. Carries(job[j])'
      BY <2>6, <2>7, <2>9 DEF Carries
    <2> QED BY <1>0, <2>5, <2>7, <2>8, <2>10, JobKeeps
  <1>2. CASE \E class : Throws(j, class) /\ UNCHANGED dis
    BY <1>0, <1>2, ThrowsKeep DEF tables
  <1> QED BY <1>1, <1>2 DEF Finish

\* The operation is completed by a job that knows the block to be.
LEMMA FinalizeKeeps == ASSUME WInv, NEW j \in Jobs, Finalize(j) PROVE WInv'
  <1> DEFINE s == StatusOf(job[j].outcome)
  <1>1. s = "completed" => Done
    <2>1. s = "completed" => job[j].outcome = "completed"
      BY DEF StatusOf
    <2> QED BY <2>1 DEF Finalize, At, WInv, Carries
  <1>2. s \in Terminal /\ Finalizes(j, job[j].lease, s) /\ dis' = dis /\ rt' = rt
    BY StatusEnds DEF Finalize, NoCall
  <1> HIDE DEF s
  <1> QED BY <1>1, <1>2, EndsAnswer, DropsKeep, FinalizeGood DEF WInv

\* forceFailedTerminal completes nothing.
LEMMA ForcesKeep == ASSUME WInv, StepOK, rt' = rt, NEW j \in Jobs, Forces(j) PROVE WInv'
  <1>1. CASE op.state \in Terminal /\ Returns(j) /\ UNCHANGED tables
    BY <1>1, ThrowsKeep
  <1>2. CASE ForceWithLease(j)
    <2>1. \/ /\ Finalizes(j, att[cur].lease, "failed")
             /\ \/ dis' = dis
                \/ /\ dis[cur].status = "awaiting_writeback"
                   /\ dis' = [dis EXCEPT ![cur].status = "failed"]
          \/ \E class : Throws(j, class) /\ UNCHANGED tables
      BY <1>2 DEF ForceWithLease
    <2>2. "failed" \in Terminal /\ "awaiting_writeback" \notin Open
      BY DEF Terminal, Open, Live
    <2> QED BY <2>1, <2>2, EndsAnswer, DropsKeep, ThrowsKeep
  <1>3. CASE ForceUnbound(j)
    <2>1. /\ Returns(j) /\ dis' = dis
          /\ op' = [op EXCEPT !.state = "cancelled"] \/ op' = op
      BY <1>3 DEF ForceUnbound, CancelClaimed
    <2>2. op' = op \/ op'.state # "completed"
      BY <2>1, Parts DEF WInv, OpTypes
    <2> QED BY <2>1, <2>2, OneAnswers, ReturnsDrops, DropsKeep DEF WInv
  <1> QED BY <1>1, <1>2, <1>3 DEF Forces

\* Forcing an operation to fail keeps WInv.
LEMMA ForceKeeps == ASSUME WInv, NEW j \in Jobs, ForceFailed(j) PROVE WInv'
  BY ForcesKeep, ForceGood DEF ForceFailed, WInv, NoCall

\* A result that is to be rejected is there.
LEMMA SealKeeps == ASSUME WInv, NEW j \in Jobs, Seal(j) PROVE WInv'
  <1>0. DInv /\ StepOK /\ rt' = rt
    BY SealGood DEF WInv, Seal, NoCall
  <1>1. CASE \E pc \in {"reject", "write"} :
               /\ pc = "reject" => dis[cur].payload = "completed"
               /\ Goes(j, [job[j] EXCEPT !.pc = pc, !.attempt = cur, !.mode = "sealing",
                                         !.outcome = dis[cur].payload])
               /\ UNCHANGED tables
    <2>1. PICK pc \in {"reject", "write"} :
               /\ pc = "reject" => dis[cur].payload = "completed"
               /\ Goes(j, [job[j] EXCEPT !.pc = pc, !.attempt = cur, !.mode = "sealing",
                                         !.outcome = dis[cur].payload])
               /\ UNCHANGED tables
      BY <1>1
    <2> DEFINE r == [job[j] EXCEPT !.pc = pc, !.attempt = cur, !.mode = "sealing",
                                   !.outcome = dis[cur].payload]
    <2>2. r.pc = pc /\ r.attempt = cur
      BY <1>0, Parts, JobTyped DEF JobTypes
    <2>3. job' = [job EXCEPT ![j] = r] /\ dis' = dis
      BY <2>1 DEF Goes, tables
    <2> HIDE DEF r
    <2>4. job'[j] = r /\ \A k \in Jobs \ {j} : job'[k] = job[k]
      BY <1>0, <2>3, Parts DEF Control
    <2>5. cur \in Attempts
      BY <1>0, Parts
    <2>6. Carries(job[j])'
      BY <2>1, <2>2, <2>3, <2>4, <2>5 DEF Carries
    <2>7. Given' /\ Lasts
      BY <1>0, GivenStays, BlockStays DEF StepOK, Unended
    <2> QED BY <1>0, <2>1, <2>4, <2>6, <2>7, AnswersStay, JobKeeps
  <1>2. CASE Forces(j)
    BY <1>0, <1>2, ForcesKeep
  <1> QED BY <1>1, <1>2 DEF Seal

-----------------------------------------------------------------------------
(* The steps of reenter. *)

\* reenter finalizes a completed dispatch only after the block.
LEMMA ReenterKeeps == ASSUME WInv, NEW j \in Jobs, Reenter(j) PROVE WInv'
  <1>0. DInv /\ StepOK /\ rt' = rt
    BY ReenterGood DEF WInv, Reenter, NoCall
  <1>1. CASE ReenterEnds(j) \/ ReenterDefers(j)
    BY <1>0, <1>1, ThrowsKeep DEF ReenterEnds, ReenterDefers
  <1>2. CASE ReenterFinalizes(j)
    <2>1. dis[cur].status = "completed" => Done
      BY <1>0, Parts DEF WInv, Answered
    <2> QED BY <1>0, <1>2, <2>1, EndsAnswer, DropsKeep DEF ReenterFinalizes
  <1>3. CASE ReenterAcquires(j)
    <2>1. PICK reuse : Goes(j, [job[j] EXCEPT !.pc = "acquired", !.reuse = reuse]) /\ UNCHANGED tables
      BY <1>3 DEF ReenterAcquires
    <2>2. [job[j] EXCEPT !.pc = "acquired", !.reuse = reuse].pc \notin Busy
      BY <1>0, Parts, JobTyped DEF JobTypes, Busy
    <2> QED BY <1>0, <2>1, <2>2, GoesDrops, AnswersStay, DropsKeep DEF Goes
  <1> QED BY <1>1, <1>2, <1>3 DEF Reenter

\* A job moves, the block does not end.
LEMMA MovesKeep ==
    ASSUME WInv, StepOK, Unended, Answers, NEW j \in Jobs, NEW r, job' = [job EXCEPT ![j] = r],
           Carries(job[j])'
    PROVE  WInv'
  <1>1. \A k \in Jobs \ {j} : job'[k] = job[k]
    BY Parts DEF Control, WInv
  <1> QED BY <1>1, GivenStays, JobKeeps DEF StepOK, Unended

\* What reenter holds while it calls the runtime is the current attempt.
LEMMA HoldingKeeps ==
    ASSUME WInv, StepOK, Unended, UNCHANGED tables, NEW j \in Jobs,
           NEW pc \in {"reconcile", "claim", "persisted"}, Goes(j, Holding(j, pc))
    PROVE  WInv'
  <1>1. DInv
    BY DEF WInv
  <1>2. Holding(j, pc).pc = pc /\ Holding(j, pc).attempt = cur /\ cur \in Attempts
    BY <1>1, Parts, JobTyped DEF Holding, JobTypes
  <1>3. job' = [job EXCEPT ![j] = Holding(j, pc)] /\ job'[j] = Holding(j, pc)
    BY <1>1, Parts DEF Goes, Control
  <1>4. Carries(job[j])'
    BY <1>2, <1>3 DEF Carries
  <1> QED BY <1>3, <1>4, MovesKeep, AnswersStay

\* reenterWithLease keeps WInv: it writes back, or holds the current attempt.
LEMMA AcquiredKeeps == ASSUME WInv, NEW j \in Jobs, Acquired(j) PROVE WInv'
  <1>0. DInv /\ StepOK /\ rt' = rt
    BY AcquiredGood DEF WInv, Acquired, NoCall
  <1>1. \/ Returns(j) /\ UNCHANGED tables
        \/ Writes(j, dis[cur].payload)
        \/ \E pc \in {"reconcile", "claim", "persisted"} : Goes(j, Holding(j, pc)) /\ UNCHANGED tables
    BY DEF Acquired
  <1> QED BY <1>0, <1>1, ThrowsKeep, WritesKeep, HoldingKeeps, BlockStays

\* recoverRuntimeBindingReset cancels, and records what it cancels with.
LEMMA BindingResetKeeps == ASSUME WInv, NEW j \in Jobs, BindingReset(j) PROVE WInv'
  <1>0. DInv /\ StepOK /\ rt' = rt
    BY BindingResetGood DEF WInv, BindingReset, NoCall
  <1>1. CASE ResetBeforeDispatch(j)
    <2>1. CASE CancelClaimed /\ Returns(j) /\ dis' = dis
      <3>1. op'.state # "completed"
        BY <1>0, <2>1, Parts DEF CancelClaimed, OpTypes
      <3> QED BY <1>0, <2>1, <3>1, OneAnswers, ReturnsDrops, DropsKeep
    <2>2. CASE Throws(j, "fatal") /\ UNCHANGED tables
      BY <1>0, <2>2, ThrowsKeep
    <2> QED BY <1>1, <2>1, <2>2 DEF ResetBeforeDispatch, tables
  <1>2. CASE ResetInterrupted(j)
    <2> DEFINE a == job[j].attempt
               e == [dis[a] EXCEPT !.status = "cancelled", !.payload = "cancelled"]
    <2>1. dis' = dis \/ dis' = [dis EXCEPT ![a] = e]
      BY <1>2 DEF ResetInterrupted
    <2>2. \/ Finalizes(j, job[j].lease, "cancelled")
          \/ Throws(j, "fatal") /\ op' = op
      BY <1>2 DEF ResetInterrupted
    <2>3. Drops(j) /\ (op' = op \/ op'.state # "completed")
      BY <1>0, <2>2, FinalizesAs, ThrowsDrops DEF Terminal
    <2>4. Answers
      <3>1. a \in Attempts => e.payload = "cancelled" /\ e.status = "cancelled"
        BY <1>0, Parts DEF Dispatched, DisTypes
      <3>2. a \notin Attempts => dis' = dis
        BY <1>0, <2>1, Parts DEF Dispatched
      <3> HIDE DEF a, e
      <3> QED BY <1>0, <2>1, <2>3, <3>1, <3>2, OneAnswers
    <2> QED BY <1>0, <2>3, <2>4, DropsKeep
  <1>3. CASE ResetOtherwise(j)
    BY <1>0, <1>3, ThrowsKeep DEF ResetOtherwise
  <1> QED BY <1>1, <1>2, <1>3 DEF BindingReset

\* resumePersistedDispatch ends the operation as its dispatch, which is completed
\* after the block.
LEMMA PersistedKeeps == ASSUME WInv, NEW j \in Jobs, Persisted(j) PROVE WInv'
  <1> DEFINE held == job[j]
             d == dis[held.attempt]
  <1>0. DInv /\ StepOK /\ rt' = rt
    BY PersistedGood DEF WInv, Persisted, NoCall
  <1>1. \/ Returns(j) /\ UNCHANGED tables
        \/ \E pc \in {"enqueue", "activate", "reserve", "prepare"} : Goto(j, pc) /\ UNCHANGED tables
        \/ \E o \in {"resumable", "manual"} :
              Goes(j, [held EXCEPT !.pc = "mark", !.outcome = o]) /\ UNCHANGED tables
        \/ Writes(j, d.payload)
        \/ d.status \in Terminal /\ Finalizes(j, held.lease, d.status) /\ UNCHANGED dis
    BY DEF Persisted
  <1>2. CASE Returns(j) /\ UNCHANGED tables
    BY <1>0, <1>2, ThrowsKeep
  <1>3. CASE \E pc \in {"enqueue", "activate", "reserve", "prepare"} : Goto(j, pc) /\ UNCHANGED tables
    <2>1. {"enqueue", "activate", "reserve", "prepare"} \cap Busy = {}
      BY DEF Busy
    <2> QED BY <1>0, <1>3, <2>1, GotoDrops, AnswersStay, DropsKeep
  <1>4. CASE \E o \in {"resumable", "manual"} :
              Goes(j, [held EXCEPT !.pc = "mark", !.outcome = o]) /\ UNCHANGED tables
    <2>1. PICK o : Goes(j, [held EXCEPT !.pc = "mark", !.outcome = o]) /\ UNCHANGED tables
      BY <1>4
    <2>2. [held EXCEPT !.pc = "mark", !.outcome = o].pc \notin Busy
      BY <1>0, Parts, JobTyped DEF JobTypes, Busy
    <2> QED BY <1>0, <2>1, <2>2, GoesDrops, AnswersStay, DropsKeep DEF Goes
  <1>5. CASE Writes(j, d.payload)
    BY <1>0, <1>5, WritesKeep
  <1>6. CASE d.status \in Terminal /\ Finalizes(j, held.lease, d.status) /\ UNCHANGED dis
    <2>1. held.attempt \in Attempts
      BY DEF Persisted, At, WInv, Carries
    <2>2. d.status = "completed" => Done
      BY <2>1 DEF WInv, Answered
    <2> QED BY <1>0, <1>6, <2>2, EndsAnswer, DropsKeep
  <1> QED BY <1>1, <1>2, <1>3, <1>4, <1>5, <1>6

\* The reservation of a host ends nothing.
LEMMA ReserveKeeps == ASSUME WInv, NEW j \in Jobs, Reserve(j) PROVE WInv'
  <1>0. DInv /\ StepOK /\ rt' = rt /\ dis' = dis
    BY ReserveGood DEF WInv, Reserve, NoCall
  <1>1. op' = op \/ op' = [op EXCEPT !.state = "reserved"]
    BY DEF Reserve
  <1>2. Answers
    BY <1>0, <1>1, OneAnswers, Parts DEF OpTypes
  <1>3. \/ Returns(j) \/ Throws(j, "fatal")
        \/ \E l : Goes(j, [job[j] EXCEPT !.pc = "prepare", !.lease = l])
    BY DEF Reserve
  <1>4. \A l : [job[j] EXCEPT !.pc = "prepare", !.lease = l].pc \notin Busy
    BY <1>0, Parts, JobTyped DEF JobTypes, Busy
  <1>5. Drops(j)
    BY <1>0, <1>3, <1>4, ReturnsDrops, ThrowsDrops, GoesDrops DEF Goes
  <1> QED BY <1>0, <1>2, <1>5, DropsKeep

\* A dispatch is made without a result.
LEMMA PrepareKeeps == ASSUME WInv, NEW j \in Jobs, Prepare(j) PROVE WInv'
  <1> DEFINE e == [dis[cur] EXCEPT !.status = "leased", !.lease = job[j].lease]
             r == [job[j] EXCEPT !.pc = "activate", !.attempt = cur]
  <1>0. DInv /\ StepOK /\ rt' = rt /\ op' = op
    BY PrepareGood DEF WInv, Prepare, NoCall
  <1>1. (Goes(j, r) \/ Throws(j, "fatal")) /\ (dis' = dis \/ dis' = [dis EXCEPT ![cur] = e])
    BY DEF Prepare
  <1>2. e.status \in Open
    BY <1>0, Parts DEF DisTypes, Open, Live
  <1>3. r.pc \notin Busy
    BY <1>0, Parts, JobTyped DEF JobTypes, Busy
  <1> HIDE DEF e, r
  <1>4. Answers
    BY <1>0, <1>1, <1>2, OneAnswers
  <1>5. Drops(j)
    BY <1>0, <1>1, <1>3, ThrowsDrops, GoesDrops DEF Goes
  <1> QED BY <1>0, <1>4, <1>5, DropsKeep

\* The start command ends nothing.
LEMMA EnqueueKeeps == ASSUME WInv, NEW j \in Jobs, Enqueue(j) PROVE WInv'
  <1>0. DInv /\ StepOK /\ rt' = rt /\ dis' = dis
    BY EnqueueGood DEF WInv, Enqueue
  <1>1. op' = op \/ op' = [op EXCEPT !.state = "activated"]
    BY DEF Enqueue
  <1>2. Answers
    BY <1>0, <1>1, OneAnswers, Parts DEF OpTypes
  <1>3. Drops(j)
    BY <1>0, ReturnsDrops, ThrowsDrops DEF Enqueue
  <1> QED BY <1>0, <1>2, <1>3, DropsKeep

-----------------------------------------------------------------------------
(* Calls of the runtime. *)

\* A block that has ended stays as it is, whoever calls.
LEMMA RuntimeLasts ==
    ASSUME rt \in RtTypes, rt.phase = "ended", NEW a
    PROVE  /\ Claim.rt = rt /\ Reconcile.rt = rt /\ Activate(a).rt = rt /\ ResumeAttempt(a).rt = rt
           /\ \A phase : MarkInterrupted(a, phase).rt = rt
           /\ \A new : RetryAttempt(a, new).rt = rt
           /\ Complete(a).rt = rt
           /\ \A outcome : Fail(a, outcome).rt = rt
  BY DEF Claim, Reconcile, Activate, ResumeAttempt, MarkInterrupted, RetryAttempt, Complete, Fail,
         IfOwned, InProgress, Answer, Stays, Drifts

\* These calls do not end it.
LEMMA RuntimeGoesOn ==
    ASSUME rt \in RtTypes, NEW a
    PROVE  /\ Claim.rt.phase # "ended" \/ Claim.rt = rt
           /\ Reconcile.rt.phase # "ended" \/ Reconcile.rt = rt
           /\ Activate(a).rt.phase # "ended" \/ Activate(a).rt = rt
           /\ ResumeAttempt(a).rt.phase # "ended" \/ ResumeAttempt(a).rt = rt
           /\ \A phase \in {"resumable", "manual"} :
                 MarkInterrupted(a, phase).rt.phase # "ended" \/ MarkInterrupted(a, phase).rt = rt
           /\ \A new : RetryAttempt(a, new).rt.phase # "ended" \/ RetryAttempt(a, new).rt = rt
  <1> USE DEF Answer, Stays, Drifts, RtTypes
  <1>1. Claim.rt.phase # "ended" \/ Claim.rt = rt
    BY DEF Claim
  <1>2. Reconcile.rt.phase # "ended" \/ Reconcile.rt = rt
    BY DEF Reconcile
  <1>3. Activate(a).rt.phase # "ended" \/ Activate(a).rt = rt
    BY DEF Activate
  <1>4. ResumeAttempt(a).rt.phase # "ended" \/ ResumeAttempt(a).rt = rt
    BY DEF ResumeAttempt, IfOwned
  <1>5. ASSUME NEW phase \in {"resumable", "manual"}
        PROVE  MarkInterrupted(a, phase).rt.phase # "ended" \/ MarkInterrupted(a, phase).rt = rt
    BY DEF MarkInterrupted, IfOwned
  <1>6. ASSUME NEW new PROVE RetryAttempt(a, new).rt.phase # "ended" \/ RetryAttempt(a, new).rt = rt
    BY DEF RetryAttempt, IfOwned
  <1> QED BY <1>1, <1>2, <1>3, <1>4, <1>5, <1>6

\* These end it for the attempt that calls, or leave it open.
LEMMA RuntimeEnds ==
    ASSUME rt \in RtTypes, NEW a
    PROVE  /\ \/ Complete(a).rt = rt \/ Complete(a).rt.phase # "ended"
              \/ Complete(a).rt = [phase |-> "ended", attempt |-> a, outcome |-> "completed"]
           /\ \A outcome : \/ Fail(a, outcome).rt = rt \/ Fail(a, outcome).rt.phase # "ended"
                           \/ Fail(a, outcome).rt = [phase |-> "ended", attempt |-> a, outcome |-> outcome]
  <1> USE DEF Answer, Stays, Drifts, RtTypes
  <1>1. \/ Complete(a).rt = rt \/ Complete(a).rt.phase # "ended"
        \/ Complete(a).rt = [phase |-> "ended", attempt |-> a, outcome |-> "completed"]
    BY DEF Complete, IfOwned
  <1>2. ASSUME NEW outcome
        PROVE  \/ Fail(a, outcome).rt = rt \/ Fail(a, outcome).rt.phase # "ended"
               \/ Fail(a, outcome).rt = [phase |-> "ended", attempt |-> a, outcome |-> outcome]
    BY DEF Fail, IfOwned
  <1> QED BY <1>1, <1>2

\* The runtime says that it has the result only when it has completed the block.
LEMMA OkIsDone ==
    ASSUME NEW a, Complete(a).class = "ok"
    PROVE  Complete(a).rt.phase = "ended" /\ Complete(a).rt.outcome = "completed"
  BY DEF Complete, IfOwned, Answer, Stays, Drifts, Domain

\* A call that does not end the block, and after which the job carries nothing.
LEMMA CallDrops ==
    ASSUME WInv, StepOK, UNCHANGED tables, Unended, NEW j \in Jobs,
           \/ Returns(j) \/ \E class : Throws(j, class)
           \/ \E pc \in {"reset", "enqueue", "begin", "withdraw", "fence", "resumed", "retried"} :
                 Goto(j, pc)
    PROVE  WInv'
  <1>1. {"reset", "enqueue", "begin", "withdraw", "fence", "resumed", "retried"} \cap Busy = {}
    BY DEF Busy
  <1>2. Drops(j)
    BY <1>1, ReturnsDrops, ThrowsDrops, GotoDrops DEF WInv
  <1> QED BY <1>2, DropsRest, AnswersStay, RestsKeep

\* What the runtime answers to the calls that do not end the block.
LEMMA GoesOn ==
    ASSUME DInv, NEW a, NEW new, NEW phase \in {"resumable", "manual"},
           \/ rt' = Claim.rt \/ rt' = Reconcile.rt \/ rt' = Activate(a).rt \/ rt' = ResumeAttempt(a).rt
           \/ rt' = MarkInterrupted(a, phase).rt \/ rt' = RetryAttempt(a, new).rt
    PROVE  Unended
  <1>1. rt \in RtTypes
    BY DEF DInv
  <1> QED BY <1>1, RuntimeLasts, RuntimeGoesOn DEF Unended, Lasts

\* The claim of the block ends nothing.
LEMMA ClaimRuntimeKeeps == ASSUME WInv, NEW j \in Jobs, ClaimRuntime(j) PROVE WInv'
  <1>1. /\ rt' = Claim.rt /\ UNCHANGED tables
        /\ Goes(j, Holding(j, "persisted")) \/ \E class : Throws(j, class)
    BY DEF ClaimRuntime, Calls
  <1>2. DInv /\ StepOK
    BY ClaimRuntimeGood DEF WInv
  <1>3. Unended
    BY <1>1, <1>2, GoesOn
  <1> QED BY <1>1, <1>2, <1>3, CallDrops, HoldingKeeps

\* The reconciliation with the block ends nothing, and the job keeps its attempt.
LEMMA ReconcileRuntimeKeeps == ASSUME WInv, NEW j \in Jobs, ReconcileRuntime(j) PROVE WInv'
  <1>1. /\ rt' = Reconcile.rt /\ UNCHANGED tables
        /\ \/ \E o : Goes(j, [job[j] EXCEPT !.pc = "persisted", !.outcome = o])
           \/ Goto(j, "reset") \/ \E class : Throws(j, class)
    BY DEF ReconcileRuntime, Calls
  <1>2. DInv /\ StepOK
    BY ReconcileRuntimeGood DEF WInv
  <1>3. Unended
    BY <1>1, <1>2, GoesOn
  <1>4. ASSUME NEW o, Goes(j, [job[j] EXCEPT !.pc = "persisted", !.outcome = o]) PROVE WInv'
    <2> DEFINE r == [job[j] EXCEPT !.pc = "persisted", !.outcome = o]
    <2>1. job' = [job EXCEPT ![j] = r]
      BY <1>4 DEF Goes
    <2>2. r.pc = "persisted" /\ r.attempt = job[j].attempt
      BY <1>2, Parts, JobTyped DEF JobTypes
    <2>3. job[j].attempt \in Attempts
      BY DEF ReconcileRuntime, At, WInv, Carries
    <2> HIDE DEF r
    <2>4. job'[j] = r
      BY <1>2, <2>1, Parts DEF Control
    <2>5. Carries(job[j])'
      BY <2>2, <2>3, <2>4 DEF Carries
    <2> QED BY <1>1, <1>2, <1>3, <2>1, <2>5, MovesKeep, AnswersStay
  <1> QED BY <1>1, <1>2, <1>3, <1>4, CallDrops

\* The activation of the block ends nothing.
LEMMA ActivateRuntimeKeeps == ASSUME WInv, NEW j \in Jobs, ActivateRuntime(j) PROVE WInv'
  <1>1. /\ rt' = Activate(job[j].attempt).rt /\ UNCHANGED tables
        /\ Goto(j, "enqueue") \/ \E class : Throws(j, class)
    BY DEF ActivateRuntime, Calls
  <1>2. DInv /\ StepOK
    BY ActivateRuntimeGood DEF WInv
  <1>3. Unended
    BY <1>1, <1>2, GoesOn
  <1> QED BY <1>1, <1>2, <1>3, CallDrops

\* An interruption that reaches a block that has ended leaves it alone.
LEMMA MarkRuntimeKeeps == ASSUME WInv, NEW j \in Jobs, MarkRuntime(j) PROVE WInv'
  <1>1. /\ rt' = MarkInterrupted(job[j].attempt, job[j].outcome).rt /\ UNCHANGED tables
        /\ Returns(j) \/ \E class : Throws(j, class)
    BY DEF MarkRuntime, Calls
  <1>2. DInv /\ StepOK
    BY MarkRuntimeGood DEF WInv
  <1>3. job[j].outcome \in {"resumable", "manual"}
    BY <1>2, Parts DEF Control, Holds, MarkRuntime, At
  <1>4. Unended
    BY <1>1, <1>2, <1>3, GoesOn
  <1> QED BY <1>1, <1>2, <1>4, CallDrops

\* A call that may end the block with what is recorded for its attempt.
LEMMA EndsGiven ==
    ASSUME WInv, UNCHANGED tables, NEW a \in Attempts, NEW o,
           o = "cancelled" \/ (dis[a].payload = RecordedFor(o) /\ dis[a].payload # "none"),
           \/ rt' = rt \/ rt'.phase # "ended"
           \/ rt' = [phase |-> "ended", attempt |-> a, outcome |-> o]
    PROVE  Given'
  <1>1. dis' = dis
    BY DEF tables
  <1>2. CASE rt' = rt \/ rt'.phase # "ended"
    BY <1>1, <1>2 DEF Given, WInv, RecordedFor
  <1>3. CASE rt' = [phase |-> "ended", attempt |-> a, outcome |-> o]
    BY <1>1, <1>3 DEF Given, RecordedFor
  <1> QED BY <1>2, <1>3

\* The job that calls goes to a point at which it carries what it must.
LEMMA CallKeeps ==
    ASSUME WInv, StepOK, UNCHANGED tables, Lasts, Given', NEW j \in Jobs,
           \/ \E class : Throws(j, class)
           \/ Goto(j, "fence")
           \/ \E r : job' = [job EXCEPT ![j] = r] /\ Carries(job[j])'
    PROVE  WInv'
  <1>0. DInv
    BY DEF WInv
  <1>1. (\A k \in Jobs \ {j} : job'[k] = job[k]) /\ Carries(job[j])'
    <2>1. CASE Drops(j)
      BY <2>1, RestCarries DEF Drops
    <2>2. CASE \E r : job' = [job EXCEPT ![j] = r] /\ Carries(job[j])'
      BY <1>0, <2>2, Parts DEF Control
    <2>3. "fence" \notin Busy
      BY DEF Busy
    <2> QED BY <1>0, <2>1, <2>2, <2>3, ThrowsDrops, GotoDrops
  <1> QED BY <1>1, AnswersStay, JobKeeps

\* The call that completes the block writes the recorded result, and goes on to
\* the record only with the answer that it has been written.
LEMMA CallCompleteKeeps == ASSUME WInv, NEW j \in Jobs, CallComplete(j) PROVE WInv'
  <1> DEFINE a == job[j].attempt
  <1>1. /\ rt' = Complete(a).rt /\ UNCHANGED tables /\ job[j].outcome = "completed"
        /\ \/ Complete(a).class = "ok" /\ Goto(j, "finish")
           \/ Goto(j, "reject") \/ \E class : Throws(j, class)
    BY DEF CallComplete, Calls
  <1>2. DInv /\ StepOK /\ rt \in RtTypes /\ job[j] \in JobTypes
    BY CallCompleteGood, JobTyped, Parts DEF WInv, DInv
  <1>3. a \in Attempts /\ dis[a].payload = "completed"
    BY <1>1 DEF CallComplete, At, WInv, Carries
  <1>4. Lasts
    BY <1>1, <1>2, RuntimeLasts DEF Lasts
  <1>5. Given'
    <2>1. dis[a].payload = RecordedFor("completed") /\ dis[a].payload # "none"
      BY <1>3 DEF RecordedFor
    <2> QED BY <1>1, <1>2, <1>3, <2>1, RuntimeEnds, EndsGiven
  <1>6. CASE Complete(a).class = "ok" /\ Goto(j, "finish")
    <2>1. Done'
      BY <1>1, <1>6, OkIsDone DEF Done
    <2>2. job' = [job EXCEPT ![j] = [job[j] EXCEPT !.pc = "finish"]] /\ job'[j].pc = "finish"
      BY <1>2, <1>6, Parts DEF Goto, Goes, Control, JobTypes
    <2>3. Carries(job[j])'
      BY <2>1, <2>2 DEF Carries
    <2> QED BY <1>1, <1>2, <1>4, <1>5, <2>2, <2>3, CallKeeps
  <1>7. CASE Goto(j, "reject")
    <2>1. /\ job' = [job EXCEPT ![j] = [job[j] EXCEPT !.pc = "reject"]]
          /\ job'[j].pc = "reject" /\ job'[j].attempt = a
      BY <1>2, <1>7, Parts DEF Goto, Goes, Control, JobTypes
    <2>2. dis' = dis
      BY <1>1 DEF tables
    <2>3. Carries(job[j])'
      BY <1>3, <2>1, <2>2 DEF Carries
    <2> QED BY <1>1, <1>2, <1>4, <1>5, <2>1, <2>3, CallKeeps
  <1>8. CASE \E class : Throws(j, class)
    BY <1>1, <1>2, <1>4, <1>5, <1>8, CallKeeps
  <1> QED BY <1>1, <1>6, <1>7, <1>8

\* The call that fails the block writes the recorded failure.
LEMMA CallFailKeeps == ASSUME WInv, NEW j \in Jobs, CallFail(j) PROVE WInv'
  <1> DEFINE a == job[j].attempt
             o == job[j].outcome
  <1>1. /\ rt' = Fail(a, o).rt /\ UNCHANGED tables /\ o # "completed"
        /\ Goto(j, "finish") \/ \E class : Throws(j, class)
    BY DEF CallFail, Calls
  <1>2. DInv /\ StepOK /\ rt \in RtTypes /\ job[j] \in JobTypes
    BY CallFailGood, JobTyped, Parts DEF WInv, DInv
  <1>3. a \in Attempts /\ dis[a].payload = o /\ o # "none" /\ o # "rejected"
    <2>1. o \in {"none", "operator"} \cup Terminal
      BY <1>2, Parts DEF Control, Holds, CallFail, At
    <2> QED BY <2>1 DEF CallFail, At, WInv, Carries, Terminal
  <1>4. Lasts
    BY <1>1, <1>2, RuntimeLasts DEF Lasts
  <1>5. Given'
    <2>1. dis[a].payload = RecordedFor(o) /\ dis[a].payload # "none"
      BY <1>3 DEF RecordedFor
    <2>2. \/ rt' = rt \/ rt'.phase # "ended"
          \/ rt' = [phase |-> "ended", attempt |-> a, outcome |-> o]
      BY <1>1, <1>2, RuntimeEnds
    <2> HIDE DEF a, o
    <2> QED BY <1>1, <1>3, <2>1, <2>2, EndsGiven
  <1>6. CASE Goto(j, "finish")
    <2>1. /\ job' = [job EXCEPT ![j] = [job[j] EXCEPT !.pc = "finish"]]
          /\ job'[j].pc = "finish" /\ job'[j].outcome = o
      BY <1>2, <1>6, Parts DEF Goto, Goes, Control, JobTypes
    <2>2. Carries(job[j])'
      BY <1>1, <2>1 DEF Carries
    <2> QED BY <1>1, <1>2, <1>4, <1>5, <2>1, <2>2, CallKeeps
  <1>7. CASE \E class : Throws(j, class)
    BY <1>1, <1>2, <1>4, <1>5, <1>7, CallKeeps
  <1> QED BY <1>1, <1>6, <1>7

\* The call that rejects a result is made for a result that is there.
LEMMA CallRejectKeeps == ASSUME WInv, NEW j \in Jobs, CallReject(j) PROVE WInv'
  <1> DEFINE a == job[j].attempt
             r == [job[j] EXCEPT !.pc = "finish", !.outcome = "rejected"]
  <1>1. /\ rt' = Fail(a, "rejected").rt /\ UNCHANGED tables
        /\ Goes(j, r) \/ \E class : Throws(j, class)
    BY DEF CallReject, Calls
  <1>2. DInv /\ StepOK /\ rt \in RtTypes /\ job[j] \in JobTypes
    BY CallRejectGood, JobTyped, Parts DEF WInv, DInv
  <1>3. a \in Attempts /\ dis[a].payload = "completed"
    BY DEF CallReject, At, WInv, Carries
  <1>4. Lasts
    BY <1>1, <1>2, RuntimeLasts DEF Lasts
  <1>5. Given'
    <2>1. dis[a].payload = RecordedFor("rejected") /\ dis[a].payload # "none"
      BY <1>3 DEF RecordedFor
    <2>2. \/ rt' = rt \/ rt'.phase # "ended"
          \/ rt' = [phase |-> "ended", attempt |-> a, outcome |-> "rejected"]
      BY <1>1, <1>2, RuntimeEnds
    <2> HIDE DEF a
    <2> QED BY <1>1, <1>3, <2>1, <2>2, EndsGiven
  <1>6. CASE Goes(j, r)
    <2>1. job' = [job EXCEPT ![j] = r] /\ job'[j].pc = "finish" /\ job'[j].outcome = "rejected"
      BY <1>2, <1>6, Parts DEF Goes, Control, JobTypes
    <2> HIDE DEF r
    <2>2. Carries(job[j])'
      BY <2>1 DEF Carries
    <2> QED BY <1>1, <1>2, <1>4, <1>5, <2>1, <2>2, CallKeeps
  <1>7. CASE \E class : Throws(j, class)
    BY <1>1, <1>2, <1>4, <1>5, <1>7, CallKeeps
  <1> QED BY <1>1, <1>6, <1>7

\* Every step of a job keeps WInv.
LEMMA JobStepKeeps == ASSUME WInv, NEW j \in Jobs, JobStep(j) PROVE WInv'
  BY ReenterKeeps, AcquiredKeeps, ClaimRuntimeKeeps, ReconcileRuntimeKeeps, BindingResetKeeps,
     PersistedKeeps, ReserveKeeps, PrepareKeeps, ActivateRuntimeKeeps, EnqueueKeeps, MarkRuntimeKeeps,
     WriteKeeps, CallCompleteKeeps, CallFailKeeps, CallRejectKeeps, FinishKeeps, FinalizeKeeps, SealKeeps,
     ForceKeeps DEF JobStep

-----------------------------------------------------------------------------
(* The steps of actions. *)

\* Where an action's job goes without a call: it carries nothing there.
LEMMA ActionRests ==
    {"settled", "reenter", "write", "delivered", "apply", "ask", "recover", "refused", "due", "actions",
     "awaiting", "aborted"} \cap Busy = {}
  BY DEF Busy

\* An action whose command is delivered carries nothing.
LEMMA DeliversDrops == ASSUME DInv, NEW i \in Actions, Delivers(i) PROVE Drops(i)
  <1>1. i \in Jobs /\ job[i] \in JobTypes
    BY Parts, ActionTyped
  <1>2. job' = [job EXCEPT ![i] = [job[i] EXCEPT !.pc = "delivered"]]
    BY DEF Delivers
  <1>3. [job[i] EXCEPT !.pc = "delivered"].pc \notin Busy
    BY <1>1, ActionRests DEF JobTypes
  <1> QED BY <1>1, <1>2, <1>3, GoesDrops

\* A dispatch that is leased again has no result.
LEMMA EnqueueResumeAnswers ==
    ASSUME DInv, NEW i \in Actions, EnqueueResume(i), op' = op \/ op'.state # "completed"
    PROVE  Answers /\ Drops(i)
  <1> DEFINE e == [dis[cur] EXCEPT !.status = "leased", !.lease = act[i].fresh, !.intr = "none"]
  <1>1. dis' = [dis EXCEPT ![cur] = e] /\ Delivers(i)
    BY DEF EnqueueResume
  <1>2. e.status \in Open
    BY Parts DEF DisTypes, Open, Live
  <1> HIDE DEF e
  <1> QED BY <1>1, <1>2, OneAnswers, DeliversDrops

\* A dispatch that is cancelled has no result yet.
LEMMA EnqueueCancelAnswers ==
    ASSUME DInv, NEW i \in Actions, EnqueueCancel(i), op' = op
    PROVE  Answers /\ Drops(i)
  <1> DEFINE e == [dis[cur] EXCEPT !.status = "cancelling"]
  <1>1. CASE dis' = [dis EXCEPT ![cur] = e] /\ Delivers(i)
    <2>1. e.status \in Open
      BY Parts DEF DisTypes, Open, Live
    <2> HIDE DEF e
    <2> QED BY <1>1, <2>1, OneAnswers, DeliversDrops
  <1>2. CASE Throws(i, "fatal") /\ dis' = dis
    BY <1>2, OneAnswers, ThrowsDrops, Numbers
  <1> QED BY <1>1, <1>2 DEF EnqueueCancel

\* Taking up a recorded action keeps WInv.
LEMMA RecoverKeeps == ASSUME WInv, NEW i \in Actions, Recover(i) PROVE WInv'
  <1>0. DInv /\ StepOK /\ rt' = rt /\ i \in Jobs /\ job[i] \in JobTypes
    BY RecoverGood, Parts, ActionTyped DEF WInv, Recover
  <1>1. Answers /\ Drops(i)
    <2>1. CASE RecoverRetry(i) \/ RecoverBlock(i)
      BY <1>0, <2>1, ActionRests, GotoDrops, AnswersStay DEF RecoverRetry, RecoverBlock
    <2>2. CASE RecoverResume(i)
      <3>1. op' = op
        BY <2>2 DEF RecoverResume
      <3> QED BY <1>0, <2>2, <3>1, EnqueueResumeAnswers, OneAnswers, ThrowsDrops DEF RecoverResume
    <2>3. CASE RecoverCancel(i)
      <3>1. op' = op
        BY <2>3 DEF RecoverCancel
      <3> QED BY <1>0, <2>3, <3>1, ActionRests, GotoDrops, EnqueueCancelAnswers, OneAnswers DEF RecoverCancel
    <2>4. CASE RecoverFail(i)
      <3>1. FailApplied(i) \in {"error", "yes", "no"}
        BY DEF FailApplied
      <3>2. \/ Throws(i, "fatal") \/ Goto(i, "settled")
            \/ Goes(i, [job[i] EXCEPT !.pc = "write", !.outcome = dis[cur].payload])
        BY <2>4, <3>1 DEF RecoverFail
      <3>3. [job[i] EXCEPT !.pc = "write", !.outcome = dis[cur].payload].pc \notin Busy
        BY <1>0, ActionRests DEF JobTypes
      <3>4. Drops(i)
        BY <1>0, <3>2, <3>3, ActionRests, ThrowsDrops, GotoDrops, GoesDrops DEF Goes
      <3> QED BY <2>4, <3>4, AnswersStay DEF RecoverFail
    <2>5. CASE Decide(i)
      <3>1. \/ job' = [job EXCEPT ![i] = [NoJob EXCEPT !.pc = "refused"]]
            \/ \E pc \in {"apply", "ask"} :
                  job' = [job EXCEPT ![i] = [NoJob EXCEPT !.pc = pc, !.mode = "apply", !.attempt = cur]]
        BY <2>5 DEF Decide
      <3>2. /\ [NoJob EXCEPT !.pc = "refused"].pc \notin Busy
            /\ \A pc \in {"apply", "ask"} :
                  [NoJob EXCEPT !.pc = pc, !.mode = "apply", !.attempt = cur].pc \notin Busy
        BY ActionRests DEF NoJob
      <3>3. Drops(i)
        BY <1>0, <3>1, <3>2, GoesDrops
      <3> QED BY <2>5, <3>3, AnswersStay DEF Decide
    <2> QED BY <2>1, <2>2, <2>3, <2>4, <2>5 DEF Recover
  <1> QED BY <1>0, <1>1, DropsKeep

\* Applying an action by a command keeps WInv.
LEMMA ApplyCommandKeeps == ASSUME WInv, NEW i \in Actions, ApplyCommand(i) PROVE WInv'
  <1>1. DInv /\ StepOK /\ rt' = rt /\ i \in Jobs /\ op' = op /\ EnqueueCancel(i)
    BY ApplyCommandGood, Numbers DEF WInv, ApplyCommand
  <1> QED BY <1>1, EnqueueCancelAnswers, DropsKeep

\* Applying a block keeps WInv.
LEMMA ApplyBlockKeeps == ASSUME WInv, NEW i \in Actions, ApplyBlock(i) PROVE WInv'
  <1>1. DInv /\ StepOK /\ rt' = rt /\ i \in Jobs /\ dis' = dis
    BY ApplyBlockGood, Numbers DEF WInv, ApplyBlock, NoCall
  <1>2. op' = op \/ op' = [op EXCEPT !.state = "action_required"]
    BY DEF ApplyBlock
  <1>3. Answers
    BY <1>1, <1>2, OneAnswers, Parts DEF OpTypes
  <1>4. Drops(i)
    BY <1>1, ActionRests, GotoDrops, ThrowsDrops DEF ApplyBlock
  <1> QED BY <1>1, <1>3, <1>4, DropsKeep

\* The failure an operator asks for is recorded before it is written.
LEMMA ApplyFailKeeps == ASSUME WInv, NEW i \in Actions, ApplyFail(i) PROVE WInv'
  <1> DEFINE e == [dis[cur] EXCEPT !.status = "awaiting_writeback", !.payload = "operator"]
             r == [job[i] EXCEPT !.pc = "write", !.outcome = "operator"]
  <1>1. DInv /\ StepOK /\ rt' = rt /\ i \in Jobs /\ op' = op /\ job[i] \in JobTypes
    BY ApplyFailGood, Parts, ActionTyped DEF WInv, ApplyFail, NoCall
  <1>2. CASE dis' = [dis EXCEPT ![cur] = e] /\ Goes(i, r)
    <2>1. e.status = "awaiting_writeback" /\ e.payload = "operator" /\ r.pc \notin Busy
      BY <1>1, Parts, ActionRests DEF DisTypes, JobTypes
    <2> HIDE DEF e, r
    <2>2. Answers /\ Drops(i)
      BY <1>1, <1>2, <2>1, OneAnswers, GoesDrops DEF Goes
    <2> QED BY <1>1, <2>2, DropsKeep
  <1>3. CASE Throws(i, "fatal") /\ dis' = dis
    BY <1>1, <1>3, OneAnswers, ThrowsDrops, DropsKeep
  <1> QED BY <1>2, <1>3 DEF ApplyFail

\* The question before a cancellation without a host ends nothing.
LEMMA ApplyLocalKeeps == ASSUME WInv, NEW i \in Actions, ApplyLocal(i) PROVE WInv'
  <1>1. /\ i \in Jobs /\ rt' = rt /\ UNCHANGED tables
        /\ \/ \E pc \in {"begin", "withdraw", "fence"} : Goto(i, pc)
           \/ \E class : Throws(i, class)
    BY Numbers DEF ApplyLocal, Calls, Query, Stays, Answer
  <1>2. DInv /\ StepOK
    BY ApplyLocalGood DEF WInv
  <1>3. Unended
    BY <1>1 DEF Unended, Lasts
  <1> QED BY <1>1, <1>2, <1>3, CallDrops

\* Nor does the activation.
LEMMA LocalBeginsKeeps == ASSUME WInv, NEW i \in Actions, LocalBegins(i) PROVE WInv'
  <1>1. /\ i \in Jobs /\ rt' = Activate(job[i].attempt).rt /\ UNCHANGED tables
        /\ Goto(i, "withdraw") \/ \E class : Throws(i, class)
    BY Numbers DEF LocalBegins, Calls
  <1>2. DInv /\ StepOK
    BY LocalBeginsGood DEF WInv
  <1>3. Unended
    BY <1>1, <1>2, GoesOn
  <1> QED BY <1>1, <1>2, <1>3, CallDrops

\* The cancellation itself writes what needs no record.
LEMMA LocalFailsKeeps == ASSUME WInv, NEW i \in Actions, LocalFails(i) PROVE WInv'
  <1> DEFINE a == job[i].attempt
  <1>1. /\ i \in Jobs /\ rt' = Fail(a, "cancelled").rt /\ UNCHANGED tables
        /\ Goto(i, "fence") \/ \E class : Throws(i, class)
    BY Numbers DEF LocalFails, Calls
  <1>2. DInv /\ StepOK /\ rt \in RtTypes
    BY LocalFailsGood DEF WInv, DInv
  <1>3. Lasts
    BY <1>1, <1>2, RuntimeLasts DEF Lasts
  <1>4. Given'
    <2>1. \/ rt' = rt \/ rt'.phase # "ended"
          \/ rt' = [phase |-> "ended", attempt |-> a, outcome |-> "cancelled"]
      BY <1>1, <1>2, RuntimeEnds
    <2>2. dis' = dis
      BY <1>1 DEF tables
    <2> HIDE DEF a
    <2> QED BY <2>1, <2>2 DEF Given, WInv, RecordedFor
  <1> QED BY <1>1, <1>2, <1>3, <1>4, CallKeeps

\* finalizeFencedAttempt of a cancellation completes nothing.
LEMMA FenceKeeps == ASSUME WInv, NEW i \in Actions, Fence(i) PROVE WInv'
  <1>1. DInv /\ StepOK /\ rt' = rt /\ i \in Jobs /\ dis' = dis
    BY FenceGood, Numbers DEF WInv, Fence, NoCall
  <1>2. op' = op \/ op' = [op EXCEPT !.state = "cancelled"]
    BY DEF Fence, Finalized
  <1>3. Answers
    BY <1>1, <1>2, OneAnswers, Parts DEF OpTypes
  <1>4. Drops(i)
    BY <1>1, ActionRests, GotoDrops, ThrowsDrops DEF Fence
  <1> QED BY <1>1, <1>3, <1>4, DropsKeep

\* The call of a resume ends nothing.
LEMMA ApplyResumeKeeps == ASSUME WInv, NEW i \in Actions, ApplyResume(i) PROVE WInv'
  <1>1. /\ i \in Jobs /\ rt' = ResumeAttempt(job[i].attempt).rt /\ UNCHANGED tables
        /\ Goto(i, "resumed") \/ \E class : Throws(i, class)
    BY Numbers DEF ApplyResume, Calls
  <1>2. DInv /\ StepOK
    BY ApplyResumeGood DEF WInv
  <1>3. Unended
    BY <1>1, <1>2, GoesOn
  <1> QED BY <1>1, <1>2, <1>3, CallDrops

\* The restored dispatch of a resume keeps WInv.
LEMMA ResumeKeeps == ASSUME WInv, NEW i \in Actions, Resume(i) PROVE WInv'
  <1>1. DInv /\ StepOK /\ rt' = rt /\ i \in Jobs
    BY ResumeGood, Numbers DEF WInv, Resume
  <1>2. op' = op \/ op'.state # "completed"
    <2>1. op' = op \/ op' = [op EXCEPT !.state = "activated"]
      BY DEF Resume, TakeLease, tables
    <2> QED BY <1>1, <2>1, Parts DEF OpTypes
  <1>3. EnqueueResume(i) \/ (Throws(i, "fatal") /\ dis' = dis)
    BY DEF Resume, tables
  <1> QED BY <1>1, <1>2, <1>3, EnqueueResumeAnswers, OneAnswers, ThrowsDrops, DropsKeep

\* The call of a retry ends nothing.
LEMMA ApplyRetryKeeps == ASSUME WInv, NEW i \in Actions, ApplyRetry(i) PROVE WInv'
  <1>1. /\ i \in Jobs /\ rt' = RetryAttempt(job[i].attempt, act[i].fresh).rt /\ UNCHANGED tables
        /\ Goto(i, "retried") \/ \E class : Throws(i, class)
    BY Numbers DEF ApplyRetry, Calls
  <1>2. DInv /\ StepOK
    BY ApplyRetryGood DEF WInv
  <1>3. Unended
    BY <1>1, <1>2, GoesOn
  <1> QED BY <1>1, <1>2, <1>3, CallDrops

\* The new attempt of a retry keeps WInv: the records of the old one stay.
LEMMA RetryKeeps == ASSUME WInv, NEW i \in Actions, Retry(i) PROVE WInv'
  <1>1. DInv /\ StepOK /\ rt' = rt /\ i \in Jobs /\ dis' = dis
    BY RetryGood, Numbers DEF WInv, Retry, NoCall
  <1>2. op' = op \/ op' = [state |-> "claimed", attempt |-> act[i].fresh]
    BY DEF Retry
  <1>3. Answers
    BY <1>1, <1>2, OneAnswers
  <1>4. Drops(i)
    BY <1>1, ActionRests, GotoDrops, ThrowsDrops DEF Retry
  <1> QED BY <1>1, <1>3, <1>4, DropsKeep

\* The check of an applied failure keeps WInv.
LEMMA CheckKeeps == ASSUME WInv, NEW i \in Actions, Check(i) PROVE WInv'
  <1>1. DInv /\ StepOK /\ rt' = rt /\ i \in Jobs /\ UNCHANGED tables
    BY CheckGood, Numbers DEF WInv, Check, NoCall
  <1>2. Drops(i)
    BY <1>1, ActionRests, GotoDrops, ThrowsDrops DEF Check
  <1> QED BY <1>1, <1>2, AnswersStay, DropsKeep

\* The completion of an application keeps WInv.
LEMMA CompleteApplicationKeeps == ASSUME WInv, NEW i \in Actions, CompleteApplication(i) PROVE WInv'
  <1>1. DInv /\ StepOK /\ rt' = rt /\ i \in Jobs /\ UNCHANGED tables /\ job' = [job EXCEPT ![i] = NoJob]
    BY CompleteApplicationGood, Numbers DEF WInv, CompleteApplication, NoCall
  <1> QED BY <1>1, IdleCarries, GoesDrops, AnswersStay, DropsKeep

\* Every step of an action keeps WInv.
LEMMA ActionStepKeeps == ASSUME WInv, NEW i \in Actions, ActionStep(i) PROVE WInv'
  BY RecoverKeeps, ApplyCommandKeeps, ApplyBlockKeeps, ApplyFailKeeps, ApplyLocalKeeps,
     LocalBeginsKeeps, LocalFailsKeeps, FenceKeeps, ApplyResumeKeeps, ResumeKeeps, ApplyRetryKeeps, RetryKeeps, CheckKeeps, CompleteApplicationKeeps
     DEF ActionStep

-----------------------------------------------------------------------------
(* The sweep, people, hosts and faults. *)

\* recoverExpiredLeases interrupts what is open.
LEMMA SweepStartKeeps == ASSUME WInv, SweepStart PROVE WInv'
  <1>1. DInv /\ StepOK /\ rt' = rt /\ Sweep \in Jobs /\ op' = op
        /\ job' = [job EXCEPT ![Sweep] = [NoJob EXCEPT !.pc = "due"]]
    BY SweepStartGood, Numbers DEF WInv, SweepStart, NoCall
  <1>2. ASSUME NEW a \in Attempts PROVE dis'[a] = dis[a] \/ dis'[a].status \in Open
    <2>1. dis[a] \in DisTypes
      BY <1>1, Parts DEF Dispatched
    <2>2. \/ dis'[a] = dis[a]
          \/ dis'[a] = [dis[a] EXCEPT !.status = "interrupted", !.intr = "lease_lost", !.payload = "none"]
      BY DEF SweepStart
    <2> QED BY <2>1, <2>2 DEF DisTypes, Open
  <1>3. Answers
    BY <1>1, <1>2 DEF Answers
  <1>4. [NoJob EXCEPT !.pc = "due"].pc \notin Busy
    BY ActionRests DEF NoJob
  <1> QED BY <1>1, <1>3, <1>4, GoesDrops, DropsKeep

\* expireDue parks the operation and completes nothing.
LEMMA SweepDueKeeps == ASSUME WInv, SweepDue PROVE WInv'
  <1>1. DInv /\ StepOK /\ rt' = rt /\ Sweep \in Jobs /\ dis' = dis /\ Goto(Sweep, "actions")
    BY SweepDueGood, Numbers DEF WInv, SweepDue
  <1>2. \/ op' = op \/ op' = [op EXCEPT !.state = "interrupted"]
        \/ op' = [op EXCEPT !.state = "awaiting_writeback"]
    BY DEF SweepDue, Release
  <1>3. Answers
    BY <1>1, <1>2, OneAnswers, Parts DEF OpTypes
  <1> QED BY <1>1, <1>3, ActionRests, GotoDrops, DropsKeep

\* The next action of the sweep starts with nothing.
LEMMA SweepActionKeeps == ASSUME WInv, SweepAction PROVE WInv'
  <1> DEFINE i == Least(todo)
             s == [job[Sweep] EXCEPT !.pc = "awaiting"]
  <1>1. DInv /\ StepOK /\ rt' = rt /\ Sweep \in Jobs /\ UNCHANGED tables /\ job[Sweep] \in JobTypes
    BY SweepActionGood, Numbers, Parts, JobTyped DEF WInv, SweepAction, NoCall
  <1>2. CASE Goto(Sweep, "awaiting") \/ Goto(Sweep, "aborted")
    BY <1>1, <1>2, ActionRests, GotoDrops, AnswersStay, DropsKeep
  <1>3. CASE job' = [job EXCEPT ![Sweep].pc = "awaiting",
                                ![i] = [NoJob EXCEPT !.pc = "recover", !.mode = "recover"]]
    <2>1. job' = [job EXCEPT ![Sweep] = s, ![i] = Starts]
      BY <1>3 DEF Starts
    <2>2. s.pc \notin Busy /\ Starts.pc \notin Busy
      BY <1>1, ActionRests DEF JobTypes, NoJob, Starts
    <2> HIDE DEF s, i
    <2>3. Rests
      BY <1>1, <2>1, <2>2, Parts DEF Rests, Control
    <2> QED BY <1>1, <2>3, AnswersStay, QuietKeeps
  <1> QED BY <1>2, <1>3 DEF SweepAction

\* The end of an action that the sweep awaited keeps WInv.
LEMMA SweepAwaitedKeeps == ASSUME WInv, SweepAwaited PROVE WInv'
  <1>1. DInv /\ StepOK /\ rt' = rt /\ Sweep \in Jobs /\ UNCHANGED tables /\ job[Sweep] \in JobTypes
    BY SweepAwaitedGood, Numbers, Parts, JobTyped DEF WInv, SweepAwaited
  <1>2. \E pc \in {"aborted", "actions"} : job' = [job EXCEPT ![Sweep] = [job[Sweep] EXCEPT !.pc = pc]]
    BY DEF SweepAwaited, Goto, Goes
  <1>3. \A pc \in {"aborted", "actions"} : [job[Sweep] EXCEPT !.pc = pc].pc \notin Busy
    BY <1>1, ActionRests DEF JobTypes
  <1> QED BY <1>1, <1>2, <1>3, GoesDrops, AnswersStay, DropsKeep

\* Every step of the sweep keeps WInv.
LEMMA SweepStepKeeps == ASSUME WInv, SweepStep PROVE WInv'
  <1>1. ASSUME SweepReenters PROVE WInv'
    <2>1. DInv /\ StepOK /\ rt' = rt /\ Sweep \in Jobs /\ UNCHANGED tables /\ Goto(Sweep, "reenter")
      BY <1>1, SweepReentersGood, Numbers DEF WInv, SweepReenters, NoCall
    <2> QED BY <2>1, ActionRests, GotoDrops, AnswersStay, DropsKeep
  <1> QED BY <1>1, SweepStartKeeps, SweepDueKeeps, SweepActionKeeps, SweepAwaitedKeeps DEF SweepStep

\* An action starts with nothing.
LEMMA SubmitKeeps ==
    ASSUME WInv, NEW i \in Actions, NEW kind \in Kinds, NEW stale \in 0..1, Submit(i, kind, stale)
    PROVE  WInv'
  <1>1. DInv /\ StepOK /\ rt' = rt /\ i \in Jobs /\ UNCHANGED tables
        /\ job' = [job EXCEPT ![i] = Starts]
    BY SubmitGood, Numbers DEF WInv, Submit, Starts
  <1>2. Starts.pc \notin Busy
    BY ActionRests DEF NoJob, Starts
  <1> QED BY <1>1, <1>2, GoesDrops, AnswersStay, DropsKeep

\* A host's terminal event records its result with the dispatch; the job that
\* writes it back reads it there.
LEMMA ServerEventKeeps == ASSUME WInv, ServerEvent PROVE WInv'
  <1> DEFINE a == Head(toServer).attempt
             t == Head(toServer).type
  <1>0. DInv /\ StepOK /\ rt' = rt /\ op' = op
    BY ServerAcceptedGood, ServerInterruptedGood, ServerTerminalGood
       DEF WInv, ServerEvent, ServerAccepted, ServerInterrupted, ServerTerminal
  <1>1. CASE ServerAccepted
    <2> DEFINE e == [dis[a] EXCEPT !.status = "running"]
    <2>1. job' = job /\ (dis' = dis \/ dis' = [dis EXCEPT ![a] = e])
      BY <1>1 DEF ServerAccepted
    <2>2. a \in Attempts => e.status \in Open
      BY <1>0, Parts DEF Dispatched, DisTypes, Open, Live
    <2>3. a \notin Attempts => dis' = dis
      BY <1>0, <2>1, Parts DEF Dispatched
    <2> HIDE DEF a, e
    <2>4. Answers /\ Rests
      BY <1>0, <2>1, <2>2, <2>3, OneAnswers DEF Rests
    <2> QED BY <1>0, <2>4, QuietKeeps
  <1>2. CASE ServerInterrupted
    <2> DEFINE e == [dis[a] EXCEPT !.status = "interrupted", !.intr = t]
    <2>1. job' = job /\ (dis' = dis \/ dis' = [dis EXCEPT ![a] = e])
      BY <1>2 DEF ServerInterrupted
    <2>2. a \in Attempts => e.status \in Open
      BY <1>0, Parts DEF Dispatched, DisTypes, Open, Live
    <2>3. a \notin Attempts => dis' = dis
      BY <1>0, <2>1, Parts DEF Dispatched
    <2> HIDE DEF a, e
    <2>4. Answers /\ Rests
      BY <1>0, <2>1, <2>2, <2>3, OneAnswers DEF Rests
    <2> QED BY <1>0, <2>4, QuietKeeps
  <1>3. CASE ServerTerminal
    <2> DEFINE e == [dis[a] EXCEPT !.status = "awaiting_writeback", !.payload = t, !.intr = "none"]
               r == [NoJob EXCEPT !.pc = "write", !.outcome = dis'[a].payload]
    <2>1. /\ job' = job \/ job' = [job EXCEPT ![Ws(a)] = r]
          /\ dis' = dis \/ dis' = [dis EXCEPT ![a] = e]
          /\ t # "none"
      BY <1>3 DEF ServerTerminal, Terminal
    <2>2. a \in Attempts => e.status = "awaiting_writeback" /\ e.payload = t
      BY <1>0, Parts DEF Dispatched, DisTypes
    <2>3. a \notin Attempts => dis' = dis
      BY <1>0, <2>1, Parts DEF Dispatched
    <2>4. r.pc \notin Busy
      BY ActionRests DEF NoJob
    <2> HIDE DEF a, t, e, r
    <2>5. Answers
      BY <1>0, <2>1, <2>2, <2>3, OneAnswers
    <2>6. Rests
      BY <1>0, <2>1, <2>4, Parts DEF Rests, Control
    <2> QED BY <1>0, <2>5, <2>6, QuietKeeps
  <1> QED BY <1>1, <1>2, <1>3 DEF ServerEvent

\* A server that dies drops what its jobs carry.
LEMMA CrashKeeps ==
    ASSUME WInv, Crash \/ \E i \in Actions : CrashInResume(i)
    PROVE  WInv'
  <1>1. DInv /\ StepOK
    BY CrashGood, CrashInResumeGood DEF WInv
  <1>2. Dies /\ rt' = rt /\ dis' = dis
    BY DEF Crash, CrashInResume, tables
  <1>3. op' = op \/ op' = [op EXCEPT !.state = "activated"]
    BY DEF Crash, CrashInResume, TakeLease, tables
  <1>4. Answers
    BY <1>1, <1>2, <1>3, OneAnswers, Parts DEF OpTypes
  <1>5. Rests
    BY <1>2, IdleCarries DEF Dies, Rests
  <1> QED BY <1>1, <1>2, <1>4, <1>5, QuietKeeps

\* A reset of the runtime leaves a block that has ended alone.
LEMMA RuntimeResetKeeps == ASSUME WInv, RuntimeReset PROVE WInv'
  <1>1. StepOK /\ UNCHANGED tables /\ job' = job
    BY RuntimeResetGood DEF WInv, RuntimeReset, server
  <1>2. Unended
    BY DEF RuntimeReset, Unended, Lasts
  <1>3. Rests
    BY <1>1 DEF Rests
  <1> QED BY <1>1, <1>2, <1>3, AnswersStay, RestsKeep

\* The steps of hosts, of the clock and of the package.
LEMMA ElsewhereKeeps ==
    ASSUME WInv, StepOK, UNCHANGED <<tables, job, rt>>
    PROVE  WInv'
  BY AnswersStay, QuietKeeps DEF Rests

\* Every step keeps WInv.
LEMMA NextKeeps == ASSUME WInv, [Next]_dvars PROVE WInv'
  <1>0. StepOK
    BY NextGood DEF WInv
  <1>1. CASE \E j \in Jobs : Runs(j) /\ JobStep(j)
    BY <1>1, JobStepKeeps
  <1>2. CASE \E i \in Actions : Runs(i) /\ ActionStep(i)
    BY <1>2, ActionStepKeeps
  <1>3. CASE Runs(Sweep) /\ SweepStep
    BY <1>3, SweepStepKeeps
  <1>4. CASE Crash \/ \E i \in Actions : CrashInResume(i)
    BY <1>4, CrashKeeps
  <1>5. CASE \E i \in Actions, kind \in Kinds, stale \in 0..1 : Submit(i, kind, stale)
    BY <1>5, SubmitKeeps
  <1>6. CASE ServerEvent
    BY <1>6, ServerEventKeeps
  <1>7. CASE RuntimeReset
    BY <1>7, RuntimeResetKeeps
  <1>8. CASE \/ HostReceive \/ HostStep
             \/ \E a \in Attempts, kind \in {"resumable", "lease_lost"} : HostExpire(a, kind)
             \/ \E kind \in {"resumable", "manual"} : HostRestart(kind)
             \/ EditPackage \/ \E l \in Leases : Tick(l)
    <2>1. UNCHANGED <<tables, job, rt>>
      BY <1>8 DEF HostReceive, HostStep, HostStart, HostFinish, HostExpire, HostRestart, EditPackage,
                  Tick, HostOnly, server, clock
    <2> QED BY <1>0, <2>1, ElsewhereKeeps
  <1>9. CASE UNCHANGED dvars
    <2>1. UNCHANGED <<tables, job, rt>>
      BY <1>9 DEF dvars, server
    <2> QED BY <1>0, <2>1, ElsewhereKeeps
  <1> QED BY <1>1, <1>2, <1>3, <1>4, <1>5, <1>6, <1>7, <1>8, <1>9 DEF Next

\* Nothing has ended at first.
LEMMA InitKeeps == Init => WInv
  <1> SUFFICES ASSUME Init PROVE WInv
    OBVIOUS
  <1>1. \A a \in Attempts : dis[a].status = "none"
    BY DEF Init
  <1>2. Answered
    BY <1>1 DEF Answered, Open
  <1>3. op.state # "completed" /\ rt.phase # "ended" /\ \A k \in Jobs : job[k] = NoJob
    BY DEF Init
  <1>4. \A k \in Jobs : Carries(job[k])
    BY <1>3 DEF Carries, NoJob
  <1> QED BY <1>2, <1>3, <1>4, InitGood DEF WInv, Given

\* WInv is inductive: no order of write-backs, sweeps, actions, lost replies and
\* crashes breaks the way of a result from its record to the block and back.
THEOREM WInvariance == Spec => []WInv
  <1>1. WInv /\ [Next]_dvars => WInv'
    BY NextKeeps
  <1> QED BY InitKeeps, <1>1, PTL DEF Spec

\* For any number of attempts, leases, actions and faults: neither the operation
\* nor a dispatch is ever recorded as completed unless the runtime has completed
\* the block.
THEOREM CompletionIsReal == Spec => []CompletedIsWritten
  <1>1. WInv => CompletedIsWritten
    BY DEF WInv, Answered, Done, CompletedIsWritten
  <1> QED BY <1>1, WInvariance, PTL

\* For any number of attempts, leases, actions and faults: a block that has ended
\* has what its attempt's dispatch recorded, unless it was cancelled before it
\* had one.
THEOREM BlockEndsAsRecorded == Spec => []WrittenAsRecorded
  <1>1. WInv => WrittenAsRecorded
    BY DEF WInv, Given, RecordedFor, WrittenAsRecorded
  <1> QED BY <1>1, WInvariance, PTL
=============================================================================
