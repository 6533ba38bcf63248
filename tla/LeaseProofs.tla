------------------------------ MODULE LeaseProofs ------------------------------
(***************************************************************************)
(* Who may work, and that an operation ends once: LeaseAuthority and       *)
(* TerminalIsFinal of RemoteDispatch, for any number of attempts, leases,  *)
(* actions of people and faults.                                           *)
(*                                                                         *)
(* The tables alone do not keep it: Reserve makes a lease and Prepare,     *)
(* steps later, the dispatch under it, and a resume takes a new lease      *)
(* before it restores the dispatch.  LInv adds what the jobs and the       *)
(* recorded actions must have in hand for these writes to fit together.    *)
(* Most steps only let go of something (Passing, Dispatching, Leaves);     *)
(* Reserve, Prepare, Resume and Retry are dealt with one by one.           *)
(***************************************************************************)
EXTENDS RemoteDispatchProofs

\* An active reservation is the lease of the current attempt.
OneActive == \A l \in Leases : res[l].status = "active" => res[l].attempt = cur /\ att[cur].lease = l

\* A dispatch that waits for its host is under the lease of its attempt.
SameLease == dis[cur].status \in Live /\ op.state \notin Terminal => dis[cur].lease = att[cur].lease

\* An operation that has ended has an attempt that has, and no lease.
EndsAlike ==
    /\ op.state \in Terminal => att[cur].status = op.state
    /\ att[cur].status \in Terminal => \A l \in Leases : res[l].status # "active"

\* An attempt that has not been reserved has neither lease nor dispatch.
Unreserved ==
    /\ \A a \in Attempts : att[a].status \in {"none", "prepared"} => att[a].lease = 0 /\ dis[a].status = "none"
    /\ att[cur].status # "none"

\* Only a dispatch that was interrupted has the reason of an interruption.
Uninterrupted == \A a \in Attempts : dis[a].status \in Live \cup {"none"} => dis[a].intr = "none"

\* What an action refers to: an attempt that exists, in a version it has had.
Refers(x) ==
    x.kind # "none" => /\ x.attempt \in Attempts
                       /\ att[x.attempt].status # "none"
                       /\ x.version <= att[x.attempt].version

\* A resume was planned for a dispatch that was interrupted; as long as the
\* attempt is as it was, the dispatch is not given out again.
Reserves(x) ==
    /\ x.plan = "resume"
    /\ x.attempt = cur
    /\ att[cur].version = x.version
    /\ att[cur].status = "interrupted"
    => dis[cur].status \notin Live \cup {"none"}

\* A crash has come between reservation and dispatch.
Stranded == att[cur].lease # 0 /\ dis[cur].status = "none"

Entering == {"acquired", "claim", "reconcile", "persisted"}
Reading == {"claim", "reconcile", "persisted"}
Awaited(k) == At(Sweep, "awaiting") /\ k = Least(todo)
Preparing == \E j \in Jobs : At(j, "prepare")

\* The lease that Prepare writes is the one the attempt has.
Prepares(r) == r.pc = "prepare" => r.lease # 0 /\ (dis[cur].status = "none" => r.lease = att[cur].lease)

\* What reenter has read before it called the runtime is still so where it matters.
Reads(r) ==
    r.pc \in Reading => /\ r.attempt \in Attempts
                        /\ r.lease # 0 /\ dis[r.attempt].status = "none"
                               => r.attempt = cur /\ r.lease = att[cur].lease

\* Who takes up an operation that a crash has stranded: the sweep, or an action it waits for.
Enters(k, r) ==
    Stranded /\ ~Preparing =>
        /\ r.pc \in Entering => att[cur].status \notin Parked
        /\ r.pc \in Entering \cup {"reenter"} => k = Sweep \/ Awaited(k)

\* An action whose retry has been applied is only taken up by the sweep.
TakenUp(k, r) ==
    /\ k \in Actions /\ r.pc = "recover" /\ act[k].kind = "retry" => Awaited(k) \/ act[k].fresh # cur
    /\ k \in Actions /\ r.pc = "resumed" => act[k].plan = "resume"
    /\ k \notin Actions /\ k # Sweep => r.pc \notin Entering \cup {"reenter"}

\* Only one job at a time is at a point where the others wait.
Alone == \A j, k \in Jobs : job[j].pc \in Unyielding /\ job[k].pc \in Unyielding => j = k

\* The three parts: the tables, what people asked for, the jobs.
TableInv == OneActive /\ SameLease /\ EndsAlike /\ Unreserved /\ Uninterrupted
AskInv == \A i \in Actions : Refers(act[i]) /\ Reserves(act[i])
Fits(k) == Prepares(job[k]) /\ Reads(job[k]) /\ Enters(k, job[k]) /\ TakenUp(k, job[k])
JobInv == Alone /\ \A k \in Jobs : Fits(k)

LInv == DInv /\ TableInv /\ AskInv /\ JobInv

-----------------------------------------------------------------------------
(* What most steps leave as it is. *)

\* Attempts only pass to other states, leases are only given back, an ended
\* operation stays ended, and only the sweep parks an attempt.
Passing ==
    /\ cur' = cur
    /\ \A a \in Attempts : \/ att'[a] = att[a]
                           \/ /\ att'[a].version = att[a].version + 1
                              /\ att'[a].lease = att[a].lease
                              /\ att'[a].status \notin {"none", "prepared"}
    /\ \A l \in Leases : res'[l].status = "active" => res[l].status = "active"
                                                     /\ res'[l].attempt = res[l].attempt
    /\ EndsAlike'
    /\ op.state \in Terminal => op'.state \in Terminal
    /\ att'[cur].status \in Parked => att[cur].status \in Parked \/ At(Sweep, "due")

\* No dispatch is made or given out again.
Waits(d, e) ==
    /\ e.status \in Live \cup {"none"} => /\ d.status \in Live \cup {"none"}
                                          /\ e.lease = d.lease /\ e.intr = d.intr
    /\ e.status = "none" <=> d.status = "none"
Dispatching == \A a \in Attempts : Waits(dis[a], dis'[a])

\* The step of job j writes of the actions nothing that was asked for.
Asks(j) ==
    \A k \in Actions : /\ act'[k].kind = act[k].kind /\ act'[k].attempt = act[k].attempt
                       /\ act'[k].version = act[k].version /\ act'[k].fresh = act[k].fresh
                       /\ act'[k].plan = act[k].plan \/ (k = j /\ act'[k].plan # "resume")

Special == {"prepare", "reenter", "recover", "resumed"} \cup Entering

\* The step moves job j only, to a point where it need hold nothing.
Leaves(j) == (\A k \in Jobs \ {j} : job'[k] = job[k]) /\ job'[j].pc \notin Special /\ Asks(j)

\* A step that only lets go keeps the tables in agreement.
LEMMA TablesPass ==
    ASSUME LInv, Passing, Dispatching
    PROVE  TableInv'
  <1>0. cur \in Attempts /\ cur' = cur
    BY CurTyped DEF LInv, DInv, Passing
  <1>1. OneActive'
    BY <1>0 DEF LInv, TableInv, OneActive, Passing
  <1>2. SameLease'
    <2>1. SUFFICES ASSUME dis'[cur].status \in Live, op'.state \notin Terminal
                   PROVE  dis'[cur].lease = att'[cur].lease
      BY <1>0 DEF SameLease
    <2>2. op.state \notin Terminal
      BY <2>1 DEF Passing
    <2>3. dis[cur].status \in Live /\ dis'[cur].lease = dis[cur].lease
      BY <1>0, <2>1 DEF Dispatching, Waits, Live
    <2>4. att'[cur].lease = att[cur].lease
      BY <1>0 DEF Passing
    <2> QED BY <2>2, <2>3, <2>4 DEF LInv, TableInv, SameLease
  <1>3. Unreserved'
    <2>1. ASSUME NEW a \in Attempts, att'[a].status \in {"none", "prepared"}
          PROVE  att'[a].lease = 0 /\ dis'[a].status = "none"
      BY <2>1 DEF LInv, TableInv, Unreserved, Passing, Dispatching, Waits
    <2>2. att'[cur].status # "none"
      BY <1>0 DEF LInv, TableInv, Unreserved, Passing
    <2> QED BY <1>0, <2>1, <2>2 DEF Unreserved
  <1>4. Uninterrupted'
    BY DEF LInv, TableInv, Uninterrupted, Dispatching, Waits
  <1> QED BY <1>1, <1>2, <1>3, <1>4 DEF TableInv, Passing

\* The version of an attempt grows by one with every write and never falls.
LEMMA VersionsGrow ==
    ASSUME DInv, Passing, NEW a \in Attempts
    PROVE  /\ att[a].version \in Nat /\ att'[a].version \in Nat /\ att[a].version <= att'[a].version
           /\ att[a].status # "none" => att'[a].status # "none"
           /\ att'[a].version # att[a].version + 1 => att'[a] = att[a]
  <1>1. att[a].version \in Nat
    BY DEF DInv, Leased, AttTypes
  <1>2. att'[a] = att[a] \/ (att'[a].version = att[a].version + 1 /\ att'[a].status # "none")
    BY DEF Passing
  <1> QED BY <1>1, <1>2

\* What an action refers to is there as long as attempts only go on.
LEMMA RefersStay ==
    ASSUME LInv, NEW i \in Actions,
           act'[i].kind = act[i].kind, act'[i].attempt = act[i].attempt, act'[i].version = act[i].version,
           \A a \in Attempts : \/ att[a].status = "none"
                               \/ att'[a] = att[a]
                               \/ att'[a].version = att[a].version + 1 /\ att'[a].status # "none"
    PROVE  Refers(act[i])'
  <1>1. SUFFICES ASSUME act[i].kind # "none"
                 PROVE  /\ act[i].attempt \in Attempts
                        /\ att'[act[i].attempt].status # "none"
                        /\ act[i].version <= att'[act[i].attempt].version
    BY DEF Refers
  <1> DEFINE a == act[i].attempt
             v == att[a].version
             w == att'[a].version
  <1>2. a \in Attempts /\ att[a].status # "none" /\ act[i].version <= v /\ act[i].version \in Nat
    BY <1>1 DEF LInv, AskInv, Refers, DInv, Control, ActTypes
  <1>3. v \in Nat
    BY <1>2 DEF LInv, DInv, Leased, AttTypes
  <1>4. att'[a].status # "none" /\ (w = v \/ w = v + 1)
    BY <1>2
  <1> HIDE DEF v, w
  <1>5. act[i].version <= w
    BY <1>2, <1>3, <1>4
  <1> QED BY <1>2, <1>4, <1>5 DEF w

\* What was asked for stays in force.
LEMMA AskPasses ==
    ASSUME LInv, NEW i \in Actions, Passing, Dispatching,
           act'[i].kind = act[i].kind, act'[i].attempt = act[i].attempt, act'[i].version = act[i].version,
           act'[i].plan = "resume" => act[i].plan = "resume"
    PROVE  Refers(act[i])' /\ Reserves(act[i])'
  <1>0. cur \in Attempts /\ cur' = cur /\ DInv
    BY CurTyped DEF LInv, DInv, Passing
  <1>1. Refers(act[i]) /\ Reserves(act[i]) /\ act[i].version \in Nat /\ Promised(act[i])
    BY DEF LInv, AskInv, DInv, Control, ActTypes
  <1>2. Refers(act[i])'
    <2>1. \A a \in Attempts : \/ att'[a] = att[a]
                              \/ att'[a].version = att[a].version + 1 /\ att'[a].status # "none"
      BY DEF Passing
    <2> QED BY <2>1, RefersStay
  <1>3. Reserves(act[i])'
    <2>1. SUFFICES ASSUME act[i].plan = "resume", act[i].attempt = cur, att'[cur].version = act[i].version,
                          att'[cur].status = "interrupted"
                   PROVE  dis'[cur].status \notin Live \cup {"none"}
      BY <1>0 DEF Reserves
    <2>2. act[i].version <= att[cur].version
      BY <1>1, <2>1 DEF Refers, Promised
    <2> DEFINE v == att[cur].version
               w == att'[cur].version
    <2>3. v \in Nat /\ w <= v
      BY <1>0, <2>1, <2>2, VersionsGrow
    <2> HIDE DEF v, w
    <2>4. w # v + 1
      BY <1>1, <2>1, <2>3 DEF w
    <2>5. att'[cur] = att[cur]
      BY <1>0, <2>4, VersionsGrow DEF v, w
    <2>6. dis[cur].status \notin Live \cup {"none"}
      BY <1>1, <2>1, <2>5 DEF Reserves
    <2> QED BY <1>0, <2>6 DEF Dispatching, Waits
  <1> QED BY <1>2, <1>3

\* A step that only lets go keeps in force what people asked for.
LEMMA AsksPass ==
    ASSUME LInv, NEW j, Passing, Dispatching, Asks(j)
    PROVE  AskInv'
  BY AskPasses DEF Asks, AskInv

-----------------------------------------------------------------------------
(* The step of one job. *)

\* A job that does not move still fits: nobody is stranded anew, and only the
\* sweep, when nobody enters, parks an attempt or lets an action go.
LEMMA StaysFit ==
    ASSUME LInv, Passing, Dispatching, NEW k \in Jobs, job'[k] = job[k], job[k].pc \notin Unyielding,
           k \in Actions => act'[k].plan = act[k].plan,
           ~Preparing,
           \/ job'[Sweep] = job[Sweep] /\ todo' = todo /\ ~At(Sweep, "due")
           \/ k # Sweep /\ (At(Sweep, "awaiting") => job[Least(todo)].pc \in Ended)
    PROVE  Fits(k)'
  <1>0. cur \in Attempts /\ cur' = cur /\ att'[cur].lease = att[cur].lease
    BY CurTyped DEF LInv, DInv, Passing
  <1>1. Prepares(job[k]) /\ Reads(job[k]) /\ Enters(k, job[k]) /\ TakenUp(k, job[k])
    BY DEF LInv, JobInv, Fits
  <1>2. Prepares(job[k])'
    BY DEF Prepares, Unyielding
  <1>3. Reads(job[k])'
    BY <1>0, <1>1 DEF Reads, Dispatching, Waits
  <1>4. Enters(k, job[k])'
    <2>1. SUFFICES ASSUME Stranded'
                   PROVE  /\ job[k].pc \in Entering => att'[cur].status \notin Parked
                          /\ job[k].pc \in Entering \cup {"reenter"} => k = Sweep \/ Awaited(k)'
      BY <1>0 DEF Enters
    <2>2. Stranded
      BY <1>0, <2>1 DEF Stranded, Dispatching, Waits
    <2>3. /\ job[k].pc \in Entering => att[cur].status \notin Parked
          /\ job[k].pc \in Entering \cup {"reenter"} => k = Sweep \/ Awaited(k)
      BY <1>1, <2>2 DEF Enters
    <2>4. CASE job'[Sweep] = job[Sweep] /\ todo' = todo /\ ~At(Sweep, "due")
      <3>1. Awaited(k) => Awaited(k)'
        BY <2>4 DEF Awaited, At
      <3>2. att'[cur].status \in Parked => att[cur].status \in Parked
        BY <2>4 DEF Passing
      <3> QED BY <2>3, <3>1, <3>2
    <2>5. CASE k # Sweep /\ (At(Sweep, "awaiting") => job[Least(todo)].pc \in Ended)
      BY <2>3, <2>5 DEF Awaited, Ended, Entering
    <2> QED BY <2>4, <2>5
  <1>5. TakenUp(k, job[k])'
    BY <1>1 DEF TakenUp, Unyielding
  <1> QED BY <1>2, <1>3, <1>4, <1>5 DEF Fits

\* A job at a point where it need hold nothing.
LEMMA FreeFits == ASSUME NEW k, job'[k].pc \notin Special PROVE Fits(k)'
  BY DEF Special, Fits, Prepares, Reads, Enters, TakenUp, Entering, Reading

\* Job j moves, and the tables let go at most.
LEMMA JobMoves ==
    ASSUME LInv, DInv', Passing, Dispatching, AskInv', NEW j \in Jobs, Runs(j),
           \A k \in Jobs \ {j} : job'[k] = job[k] /\ (k \in Actions => act'[k].plan = act[k].plan),
           ~At(j, "prepare"), j = Sweep \/ todo' = todo,
           j = Sweep /\ At(Sweep, "awaiting") => job[Least(todo)].pc \in Ended,
           Fits(j)'
    PROVE  LInv'
  <1>1. ~Preparing /\ Sweep \in Jobs
    BY Numbers DEF Preparing, Runs, At, Unyielding
  <1>2. ASSUME NEW k \in Jobs, k # j PROVE Fits(k)'
    <2>1. job'[k] = job[k] /\ job[k].pc \notin Unyielding /\ (k \in Actions => act'[k].plan = act[k].plan)
      BY <1>2 DEF Runs
    <2>2. CASE j = Sweep
      BY <1>1, <1>2, <2>1, <2>2, StaysFit
    <2>3. CASE j # Sweep
      <3>1. job'[Sweep] = job[Sweep] /\ todo' = todo /\ ~At(Sweep, "due")
        BY <1>1, <2>3 DEF Runs, At, Unyielding
      <3> QED BY <1>1, <2>1, <3>1, StaysFit
    <2> QED BY <2>2, <2>3
  <1>3. Alone'
    BY DEF Alone, Runs
  <1> QED BY <1>2, <1>3, TablesPass DEF LInv, JobInv

\* A step that only lets go, and moves its job out of the way, keeps LInv.
LEMMA JobLeaves ==
    ASSUME LInv, DInv', Passing, Dispatching, NEW j \in Jobs, Runs(j), Leaves(j),
           ~At(j, "prepare"), j = Sweep \/ todo' = todo,
           j = Sweep /\ At(Sweep, "awaiting") => job[Least(todo)].pc \in Ended
    PROVE  LInv'
  <1>1. AskInv'
    BY AsksPass DEF Leaves
  <1>2. Fits(j)'
    BY FreeFits DEF Leaves
  <1>3. \A k \in Jobs \ {j} : job'[k] = job[k] /\ (k \in Actions => act'[k].plan = act[k].plan)
    BY DEF Leaves, Asks
  <1> QED BY <1>1, <1>2, <1>3, JobMoves

-----------------------------------------------------------------------------
(* How a job leaves. *)

\* Job j goes to a record, and says nothing of the actions.
LEMMA GoesLeaves ==
    ASSUME LInv, NEW j \in Jobs, NEW r, r.pc \notin Special, Goes(j, r)
    PROVE  Leaves(j)
  <1>1. job' = [job EXCEPT ![j] = r] /\ act' = act
    BY DEF Goes
  <1>2. job'[j] = r /\ \A k \in Jobs \ {j} : job'[k] = job[k]
    BY <1>1 DEF LInv, DInv, Control
  <1> QED BY <1>1, <1>2 DEF Leaves, Asks

\* A job that goes to a point is there.
LEMMA PointReached ==
    ASSUME LInv, NEW j \in Jobs, NEW pc
    PROVE  [job[j] EXCEPT !.pc = pc].pc = pc
  BY DEF LInv, DInv, Control, JobTypes

\* A job that goes to a point where it need hold nothing leaves.
LEMMA GotoLeaves ==
    ASSUME LInv, NEW j \in Jobs, NEW pc, pc \notin Special, Goto(j, pc)
    PROVE  Leaves(j)
  BY PointReached, GoesLeaves DEF Goto

\* Job i goes to a record, and its action is written, what was asked for aside.
LEMMA WritesLeaves ==
    ASSUME LInv, NEW i \in Actions, NEW r, r.pc \notin Special, NEW x,
           x.kind = act[i].kind, x.attempt = act[i].attempt, x.version = act[i].version,
           x.fresh = act[i].fresh, x.plan = act[i].plan \/ x.plan # "resume",
           job' = [job EXCEPT ![i] = r], act' = [act EXCEPT ![i] = x]
    PROVE  Leaves(i)
  <1>1. i \in Jobs /\ job'[i] = r /\ \A k \in Jobs \ {i} : job'[k] = job[k]
    BY Numbers DEF LInv, DInv, Control
  <1>2. act'[i] = x /\ \A k \in Actions \ {i} : act'[k] = act[k]
    BY DEF LInv, DInv, Control
  <1> QED BY <1>1, <1>2 DEF Leaves, Asks

\* An idle job need hold nothing.
LEMMA NoJobPoint == NoJob.pc \notin Special
  BY DEF NoJob, Special, Entering

\* Nor need a job that has ended.
LEMMA FinalPoint ==
    ASSUME NEW pc \in {"aborted", "refused", "deferred", "due"}
    PROVE  [NoJob EXCEPT !.pc = pc].pc = pc /\ pc \notin Special
  BY DEF NoJob, Special, Entering

\* Nor need one that seals an operation or checks an action.
LEMMA SealPoints == \A pc \in {"seal", "force", "settled", "check", "delivered"} : pc \notin Special
  BY DEF Special, Entering

\* A sweep that throws leaves.
LEMMA SweepThrowsLeaves == ASSUME LInv, NEW class, SweepThrows(class) PROVE Leaves(Sweep)
  <1>1. PICK r : r.pc \notin Special /\ job' = [job EXCEPT ![Sweep] = r]
    <2>1. /\ [job[Sweep] EXCEPT !.pc = "seal"].pc \notin Special
          /\ [job[Sweep] EXCEPT !.pc = "force"].pc \notin Special
          /\ [NoJob EXCEPT !.pc = "aborted"].pc \notin Special
      BY Numbers, FinalPoint, SealPoints, PointReached
    <2> QED BY <2>1, NoJobPoint DEF SweepThrows
  <1>2. act' = act /\ Sweep \in Jobs
    BY Numbers DEF SweepThrows
  <1>3. job'[Sweep] = r /\ \A k \in Jobs \ {Sweep} : job'[k] = job[k]
    BY <1>1, <1>2 DEF LInv, DInv, Control
  <1> QED BY <1>1, <1>2, <1>3 DEF Leaves, Asks

\* An action that throws leaves, and is not planned anew.
LEMMA ActionThrowsLeaves ==
    ASSUME LInv, NEW i \in Actions, NEW class, ActionThrows(i, class)
    PROVE  Leaves(i)
  <1>0. i \in Jobs /\ act[i] \in ActTypes
    BY Numbers DEF LInv, DInv, Control
  <1>1. CASE Goto(i, "settled") \/ Goto(i, "seal") \/ Goto(i, "force")
    BY <1>0, <1>1, SealPoints, GotoLeaves
  <1>2. CASE \E pc \in {"deferred", "refused"}, b \in BOOLEAN :
               /\ job' = [job EXCEPT ![i] = [NoJob EXCEPT !.pc = pc]]
               /\ act' = [act EXCEPT ![i].claimed = b]
    <2>1. PICK pc \in {"deferred", "refused"}, b \in BOOLEAN :
               /\ job' = [job EXCEPT ![i] = [NoJob EXCEPT !.pc = pc]]
               /\ act' = [act EXCEPT ![i].claimed = b]
      BY <1>2
    <2> DEFINE x == [act[i] EXCEPT !.claimed = b]
    <2>2. act' = [act EXCEPT ![i] = x]
      BY <2>1
    <2>3. /\ x.kind = act[i].kind /\ x.attempt = act[i].attempt /\ x.version = act[i].version
          /\ x.fresh = act[i].fresh /\ x.plan = act[i].plan
      BY <1>0 DEF ActTypes
    <2> HIDE DEF x
    <2> QED BY <2>1, <2>2, <2>3, FinalPoint, WritesLeaves
  <1> QED BY <1>1, <1>2 DEF ActionThrows

\* Every job that throws leaves.
LEMMA ThrowsLeaves == ASSUME LInv, NEW j \in Jobs, NEW class, Throws(j, class) PROVE Leaves(j)
  <1>1. CASE j = Sweep
    BY <1>1, SweepThrowsLeaves DEF Throws
  <1>2. CASE j # Sweep /\ j \in Actions
    BY <1>2, ActionThrowsLeaves DEF Throws
  <1>3. CASE j # Sweep /\ j \notin Actions
    BY <1>3, NoJobPoint, GoesLeaves DEF Throws
  <1> QED BY <1>1, <1>2, <1>3

\* Every job that returns leaves.
LEMMA ReturnsLeaves == ASSUME LInv, NEW j \in Jobs, Returns(j) PROVE Leaves(j)
  <1>1. CASE j = Sweep
    <2>1. job' = [job EXCEPT ![j] = NoJob] /\ act' = act
      BY <1>1 DEF Returns
    <2>2. job'[j] = NoJob /\ \A k \in Jobs \ {j} : job'[k] = job[k]
      BY <2>1 DEF LInv, DInv, Control
    <2> QED BY <2>1, <2>2, NoJobPoint DEF Leaves, Asks
  <1>2. CASE j # Sweep /\ j \in Actions
    BY <1>2, SealPoints, GotoLeaves DEF Returns
  <1>3. CASE j # Sweep /\ j \notin Actions
    BY <1>3, NoJobPoint, GoesLeaves DEF Returns
  <1> QED BY <1>1, <1>2, <1>3

\* An action whose command is delivered leaves.
LEMMA DeliversLeaves == ASSUME LInv, NEW i \in Actions, Delivers(i) PROVE Leaves(i)
  <1> DEFINE r == [job[i] EXCEPT !.pc = "delivered"]
             x == [act[i] EXCEPT !.sent = TRUE]
  <1>1. job' = [job EXCEPT ![i] = r] /\ act' = [act EXCEPT ![i] = x]
    BY DEF Delivers
  <1>2. r.pc \notin Special
    BY Numbers, PointReached, SealPoints
  <1>3. act[i] \in ActTypes
    BY DEF LInv, DInv, Control
  <1>4. /\ x.kind = act[i].kind /\ x.attempt = act[i].attempt /\ x.version = act[i].version
        /\ x.fresh = act[i].fresh /\ x.plan = act[i].plan
    BY <1>3 DEF ActTypes
  <1> HIDE DEF r, x
  <1> QED BY <1>1, <1>2, <1>4, WritesLeaves

-----------------------------------------------------------------------------
(* How the tables pass. *)

LEMMA LeasesStay == ASSUME LInv, UNCHANGED <<op, att, res>> PROVE Passing
  BY DEF LInv, TableInv, EndsAlike, Passing, cur

\* A step that leaves the dispatches alone gives none out.
LEMMA DispatchesStay == ASSUME dis' = dis PROVE Dispatching
  BY DEF Dispatching, Waits

\* A step that leaves the tables alone only lets go.
LEMMA TablesStay == ASSUME LInv, UNCHANGED tables PROVE Passing /\ Dispatching
  BY LeasesStay, DispatchesStay DEF tables

\* As long as an attempt has no active lease, nobody has.
LEMMA NoneActive ==
    ASSUME LInv, Fenced(cur)
    PROVE  \A l \in Leases : res[l].status # "active"
  BY Numbers DEF LInv, TableInv, OneActive, Fenced

\* The current attempt and the operation end, or go on together.
LEMMA PassesOn ==
    ASSUME LInv, NEW s \in AttStates, s \notin {"none", "prepared"}, NEW r,
           r.state = s, r.attempt = op.attempt, op' = r,
           att' = [att EXCEPT ![cur] = Passed(att[cur], s)],
           \A l \in Leases : res'[l].status = "active" =>
               res[l].status = "active" /\ res'[l].attempt = res[l].attempt,
           s \in Terminal => \A l \in Leases : res'[l].status # "active",
           att[cur].status \in Terminal => s \in Terminal,
           s \in Parked => att[cur].status \in Parked \/ At(Sweep, "due")
    PROVE  Passing
  <1>1. cur' = cur /\ cur \in Attempts /\ att \in [Attempts -> AttTypes] /\ op'.state = s
    BY CurTyped DEF cur, LInv, DInv, Leased
  <1>2. /\ att'[cur].version = att[cur].version + 1 /\ att'[cur].lease = att[cur].lease
        /\ att'[cur].status = s
    BY <1>1 DEF Passed, AttTypes
  <1>3. \A a \in Attempts \ {cur} : att'[a] = att[a]
    BY <1>1
  <1>4. EndsAlike'
    BY <1>1, <1>2 DEF EndsAlike
  <1>5. op.state \in Terminal => op'.state \in Terminal
    BY <1>1 DEF LInv, TableInv, EndsAlike
  <1> QED BY <1>1, <1>2, <1>3, <1>4, <1>5 DEF Passing

\* An attempt that has ended is neither parked nor yet to be reserved.
LEMMA EndStates == ASSUME NEW s \in Terminal PROVE s \in AttStates /\ s \notin Parked \cup {"none", "prepared"}
  BY DEF Terminal, AttStates, Parked

\* finalizeFencedAttempt and the like: nobody has a lease.
LEMMA EndsFenced ==
    ASSUME LInv, NEW s \in Terminal, Fenced(cur), res' = res,
           op' = [op EXCEPT !.state = s], att' = [att EXCEPT ![cur] = Passed(att[cur], s)]
    PROVE  Passing
  <1>1. op'.state = s /\ op'.attempt = op.attempt
    BY DEF LInv, DInv, Leased, OpTypes
  <1> QED BY <1>1, EndStates, NoneActive, PassesOn

\* release of active leases: there is one at most, the current attempt's.
LEMMA ReleasePasses ==
    ASSUME LInv, NEW ls, ls \subseteq {l \in Leases : res[l].status = "active"},
           NEW reason \in Terminal \cup {"expired"}, Release(ls, reason),
           reason = "expired" => At(Sweep, "due")
    PROVE  Passing
  <1>0. /\ cur \in Attempts /\ att \in [Attempts -> AttTypes] /\ res \in [Leases -> ResTypes] /\ op \in OpTypes
        /\ att[cur].version \in Nat
    BY CurTyped DEF LInv, DInv, Leased
  <1>1. \A l \in ls : l \in Leases /\ res[l].status = "active" /\ res[l].attempt = cur /\ att[cur].lease = l
    BY DEF LInv, TableInv, OneActive
  <1>2. \A l \in Leases : res[l].status = "active" => res[l].attempt = cur /\ att[cur].lease = l
    BY DEF LInv, TableInv, OneActive
  <1>3. ASSUME NEW l \in Leases, l \in ls PROVE res'[l].status # "active"
    <2>1. PICK s \in {"expired", "cancelled", "released"} : res'[l] = [res[l] EXCEPT !.status = s]
      BY <1>3 DEF Release
    <2> QED BY <1>0, <2>1 DEF ResTypes
  <1>4. ASSUME NEW l \in Leases, l \notin ls PROVE res'[l] = res[l]
    BY <1>4 DEF Release
  <1>5. \A a \in Attempts \ {cur} : att'[a] = att[a]
    BY <1>1 DEF Release
  <1>6. CASE ls = {}
    <2>1. op' = op
      BY <1>6 DEF Release
    <2>2. \A a \in Attempts : att'[a] = att[a]
      BY <1>6 DEF Release
    <2>3. \A l \in Leases : res'[l] = res[l]
      BY <1>4, <1>6
    <2>4. EndsAlike'
      BY <1>0, <2>1, <2>2, <2>3 DEF LInv, TableInv, EndsAlike, cur
    <2> QED BY <1>0, <2>1, <2>2, <2>3, <2>4 DEF Passing, cur
  <1>7. CASE ls # {}
    <2> DEFINE status == IF reason = "expired" THEN "interrupted" ELSE reason
    <2>1. PICK l : l \in ls
      BY <1>7
    <2>2. /\ l \in Leases /\ res[l].status = "active" /\ res[l].attempt = cur /\ att[cur].lease = l
      BY <1>1, <2>1
    <2>3. ASSUME NEW k \in Leases PROVE res'[k].status # "active"
      <3>1. CASE k \in ls
        BY <1>3, <3>1
      <3>2. CASE k \notin ls
        BY <1>2, <1>4, <2>1, <2>2, <3>2
      <3> QED BY <3>1, <3>2
    <2>4. att[cur].status \notin Terminal /\ op.state \notin Terminal
      BY <2>2 DEF LInv, TableInv, EndsAlike
    <2>5. PICK s \in Terminal \cup {"interrupted", "awaiting_writeback"} :
             /\ op' = [op EXCEPT !.state = s]
             /\ att'[cur] = Passed(att[cur], s) \/ (att'[cur] = att[cur] /\ s = "awaiting_writeback")
             /\ s = "interrupted" => reason = "expired"
      <3>1. \/ /\ att'[cur] = Passed(att[cur], status) /\ op' = [op EXCEPT !.state = status]
            \/ /\ att'[cur] = Passed(att[cur], "awaiting_writeback") \/ att'[cur] = att[cur]
               /\ op' = [op EXCEPT !.state = "awaiting_writeback"]
        BY <1>0, <2>1, <2>2, <2>4 DEF Release
      <3>2. status \in Terminal \cup {"interrupted"} /\ (status = "interrupted" => reason = "expired")
        BY DEF Terminal
      <3> HIDE DEF status
      <3> QED BY <3>1, <3>2
    <2>6. op'.state = s /\ op'.attempt = op.attempt /\ cur' = cur
      BY <1>0, <2>5 DEF OpTypes, cur
    <2>7. \/ att'[cur] = att[cur] /\ s = "awaiting_writeback"
          \/ /\ att'[cur].version = att[cur].version + 1
             /\ att'[cur].lease = att[cur].lease
             /\ att'[cur].status = s
      BY <1>0, <2>5 DEF Passed, AttTypes
    <2>8. EndsAlike'
      BY <2>3, <2>4, <2>6, <2>7 DEF EndsAlike, Terminal
    <2>9. att'[cur].status \in Parked => att[cur].status \in Parked \/ At(Sweep, "due")
      BY <2>5, <2>7 DEF Terminal, Parked
    <2>10. s \notin {"none", "prepared"}
      BY DEF Terminal
    <2> QED BY <1>5, <2>3, <2>4, <2>6, <2>7, <2>8, <2>9, <2>10 DEF Passing
  <1> QED BY <1>6, <1>7

\* finalizeOperationTerminal, where it raises no error
LEMMA FinalizedPasses ==
    ASSUME LInv, NEW l \in {0} \cup Leases, NEW s \in Terminal, FinalizeError(l, s) = "none",
           Finalized(l, s)
    PROVE  Passing
  <1>1. l \in Leases
    BY DEF FinalizeError
  <1>2. CASE res[l].status = "active"
    BY <1>1, <1>2, ReleasePasses DEF Finalized, Terminal
  <1>3. CASE res[l].status # "active" /\ op.state = s /\ att[cur].status = s
    BY <1>3, LeasesStay DEF Finalized
  <1>4. CASE res[l].status # "active" /\ ~(op.state = s /\ att[cur].status = s)
    <2>1. att[cur].lease = l
      BY <1>1, <1>4 DEF FinalizeError
    <2>2. Fenced(cur)
      BY <1>4, <2>1 DEF Fenced
    <2> QED BY <1>4, <2>2, EndsFenced DEF Finalized
  <1> QED BY <1>2, <1>3, <1>4

-----------------------------------------------------------------------------
(* The steps of a job that end or let go. *)

LEMMA Leasing == ASSUME LInv PROVE
    /\ DInv /\ cur \in Attempts /\ att[cur].lease \in {0} \cup Leases /\ dis[cur] \in DisTypes
    /\ dis \in [Attempts -> DisTypes] /\ op \in OpTypes /\ att[cur] \in AttTypes
    /\ att \in [Attempts -> AttTypes] /\ res \in [Leases -> ResTypes]
    /\ job \in [Jobs -> JobTypes] /\ act \in [Actions -> ActTypes]
  BY Parts DEF LInv, DInv, Dispatched, Leased, Control

\* finalizeDispatch gives the lease back and leaves.
LEMMA FinalizesLeaves ==
    ASSUME LInv, NEW j \in Jobs, NEW l \in {0} \cup Leases, NEW s \in Terminal, Finalizes(j, l, s)
    PROVE  Passing /\ Leaves(j)
  <1>1. CASE FinalizeError(l, s) = "none"
    BY <1>1, FinalizedPasses, ReturnsLeaves DEF Finalizes
  <1>2. CASE FinalizeError(l, s) # "none"
    BY <1>2, LeasesStay, ThrowsLeaves DEF Finalizes
  <1> QED BY <1>1, <1>2

\* A dispatch comes to an end, or waits for its write-back.
LEMMA DispatchEnds ==
    ASSUME LInv, NEW a, NEW e, e.status \notin Live \cup {"none"},
           a \in Attempts => dis[a].status # "none", dis' = [dis EXCEPT ![a] = e]
    PROVE  Dispatching
  BY Leasing DEF Dispatching, Waits

\* A dispatch that ends or awaits its write-back is not given out again.
LEMMA StatusEndsDispatch ==
    ASSUME LInv, NEW s \in Terminal \cup {"awaiting_writeback"}, dis[cur].status # "none",
           dis' = [dis EXCEPT ![cur].status = s]
    PROVE  Dispatching
  <1> DEFINE e == [dis[cur] EXCEPT !.status = s]
  <1>1. dis' = [dis EXCEPT ![cur] = e]
    OBVIOUS
  <1>2. e.status = s
    BY Leasing DEF DisTypes
  <1> HIDE DEF e
  <1>3. e.status \notin Live \cup {"none"}
    BY <1>2 DEF Live, Terminal
  <1> QED BY <1>1, <1>3, DispatchEnds

\* Only an attempt with a dispatch is finished.
LEMMA FinishPossible ==
    ASSUME NEW s \in Terminal, FinishError(s) = "none"
    PROVE  dis[cur].status # "none"
  BY DEF FinishError, Terminal

\* The points from which no dispatch is made and no lease is read.
LEMMA OnPoints ==
    \A pc \in {"call", "write", "reject", "finish", "finalize", "reset", "enqueue", "activate", "reserve",
               "mark", "begin", "withdraw", "fence", "apply", "ask", "retried", "awaiting", "actions"} :
           pc \notin Special
  BY DEF Special, Entering

\* completeWithLease, failWithLease
LEMMA WritesLeave ==
    ASSUME LInv, NEW j \in Jobs, NEW outcome, Writes(j, outcome)
    PROVE  Passing /\ Dispatching /\ Leaves(j)
  <1>1. CASE WriteReplays(j)
    <2>1. op.state \in Terminal
      BY <1>1 DEF WriteReplays
    <2>2. CASE \E class : Throws(j, class) /\ UNCHANGED tables
      BY <2>2, TablesStay, ThrowsLeaves
    <2>3. CASE /\ Finished(op.state) /\ Finalizes(j, att[cur].lease, op.state)
               /\ dis[cur].status # "none"
      <3>1. Dispatching
        BY <2>1, <2>3, StatusEndsDispatch DEF Finished
      <3> QED BY <2>1, <2>3, <3>1, Leasing, FinalizesLeaves
    <2> QED BY <1>1, <2>1, <2>2, <2>3, FinishPossible DEF WriteReplays, Terminal
  <1>2. CASE WriteCalls(j, outcome)
    <2> DEFINE r == [job[j] EXCEPT !.pc = "call", !.attempt = cur, !.outcome = dis[cur].payload]
    <2>1. Goes(j, r) /\ UNCHANGED tables
      BY <1>2 DEF WriteCalls
    <2>2. r.pc = "call"
      BY Leasing DEF JobTypes
    <2> HIDE DEF r
    <2> QED BY <2>1, <2>2, OnPoints, GoesLeaves, TablesStay
  <1>3. CASE WriteFinalizes(j, outcome)
    <2>1. /\ Finalizes(j, att[cur].lease, dis[cur].status) /\ dis' = dis
          /\ dis[cur].status \in Terminal
      BY <1>3 DEF WriteFinalizes, Terminal
    <2> QED BY <2>1, Leasing, FinalizesLeaves, DispatchesStay
  <1>4. CASE WriteRefuses(j, outcome)
    BY <1>4, TablesStay, ThrowsLeaves DEF WriteRefuses
  <1> QED BY <1>1, <1>2, <1>3, <1>4 DEF Writes

\* forceFailedTerminal
LEMMA ForcesLeave == ASSUME LInv, NEW j \in Jobs, Forces(j) PROVE Passing /\ Dispatching /\ Leaves(j)
  <1>1. CASE op.state \in Terminal /\ Returns(j) /\ UNCHANGED tables
    BY <1>1, TablesStay, ReturnsLeaves
  <1>2. CASE ForceWithLease(j)
    <2>1. \/ /\ Finalizes(j, att[cur].lease, "failed")
             /\ \/ dis' = dis
                \/ dis[cur].status = "awaiting_writeback" /\ dis' = [dis EXCEPT ![cur].status = "failed"]
          \/ \E class : Throws(j, class) /\ UNCHANGED tables
      BY <1>2 DEF ForceWithLease
    <2>2. "failed" \in Terminal
      BY DEF Terminal
    <2>3. CASE \E class : Throws(j, class) /\ UNCHANGED tables
      BY <2>3, TablesStay, ThrowsLeaves
    <2>4. CASE /\ Finalizes(j, att[cur].lease, "failed")
               /\ \/ dis' = dis
                  \/ dis[cur].status = "awaiting_writeback" /\ dis' = [dis EXCEPT ![cur].status = "failed"]
      <3>1. Dispatching
        BY <2>2, <2>4, DispatchesStay, StatusEndsDispatch
      <3> QED BY <2>2, <2>4, <3>1, Leasing, FinalizesLeaves
    <2> QED BY <2>1, <2>3, <2>4
  <1>3. CASE ForceUnbound(j)
    <2>1. Leaves(j) /\ Dispatching /\ res' = res /\ att[cur].lease = 0
      BY <1>3, ReturnsLeaves, DispatchesStay DEF ForceUnbound
    <2>2. CASE CancelClaimed
      <3>1. Fenced(cur) /\ "cancelled" \in Terminal
        BY <2>1 DEF Fenced, Terminal
      <3> QED BY <2>1, <2>2, <3>1, EndsFenced DEF CancelClaimed
    <2>3. CASE UNCHANGED <<op, att>>
      BY <2>1, <2>3, LeasesStay
    <2> QED BY <1>3, <2>2, <2>3 DEF ForceUnbound
  <1> QED BY <1>1, <1>2, <1>3 DEF Forces

\* The step of a job that needs nothing more.
LEMMA StepLeaves ==
    ASSUME LInv, DInv', NEW j \in Jobs, Runs(j), job[j].pc \notin {"prepare", "awaiting"}, todo' = todo,
           Passing, Dispatching, Leaves(j)
    PROVE  LInv'
  BY JobLeaves DEF At

\* The tables stay, and the job goes to a point where it need hold nothing.
LEMMA StepStays ==
    ASSUME LInv, DInv', NEW j \in Jobs, Runs(j), job[j].pc \notin {"prepare", "awaiting"}, todo' = todo,
           UNCHANGED tables,
           \/ Returns(j) \/ \E class : Throws(j, class)
           \/ \E pc : pc \notin Special /\ Goto(j, pc)
           \/ \E r : r.pc \notin Special /\ Goes(j, r)
    PROVE  LInv'
  <1>1. Leaves(j)
    BY ReturnsLeaves, ThrowsLeaves, GotoLeaves, GoesLeaves
  <1> QED BY <1>1, TablesStay, StepLeaves

\* The entry of the write-back keeps LInv.
LEMMA WriteLease == ASSUME LInv, DInv', NEW j \in Jobs, Runs(j), Write(j) PROVE LInv'
  BY WritesLeave, StepLeaves DEF Write, At, NoCall, Still

\* Sealing an operation keeps LInv.
LEMMA SealLease == ASSUME LInv, DInv', NEW j \in Jobs, Runs(j), Seal(j) PROVE LInv'
  <1>1. todo' = todo /\ job[j].pc = "seal"
    BY DEF Seal, NoCall, Still, At
  <1>2. CASE Forces(j)
    BY <1>1, <1>2, ForcesLeave, StepLeaves
  <1>3. CASE \E pc \in {"reject", "write"} :
               /\ Goes(j, [job[j] EXCEPT !.pc = pc, !.attempt = cur, !.mode = "sealing",
                                         !.outcome = dis[cur].payload])
               /\ UNCHANGED tables
    <2>1. PICK pc \in {"reject", "write"} :
               /\ Goes(j, [job[j] EXCEPT !.pc = pc, !.attempt = cur, !.mode = "sealing",
                                         !.outcome = dis[cur].payload])
               /\ UNCHANGED tables
      BY <1>3
    <2>2. [job[j] EXCEPT !.pc = pc, !.attempt = cur, !.mode = "sealing", !.outcome = dis[cur].payload].pc = pc
      BY Leasing DEF JobTypes
    <2> QED BY <1>1, <2>1, <2>2, OnPoints, StepStays
  <1> QED BY <1>2, <1>3 DEF Seal

\* Forcing an operation to fail keeps LInv.
LEMMA ForceLease == ASSUME LInv, DInv', NEW j \in Jobs, Runs(j), ForceFailed(j) PROVE LInv'
  BY ForcesLeave, StepLeaves DEF ForceFailed, At, NoCall, Still

\* The end of a write-back keeps LInv.
LEMMA FinishLease == ASSUME LInv, DInv', NEW j \in Jobs, Runs(j), Finish(j) PROVE LInv'
  <1> DEFINE status == StatusOf(job[j].outcome)
             r == [job[j] EXCEPT !.pc = "finalize", !.attempt = cur, !.lease = att[cur].lease]
  <1>1. todo' = todo /\ job[j].pc = "finish" /\ UNCHANGED <<op, att, res>>
    BY DEF Finish, NoCall, Still, At
  <1>2. status \in Terminal
    BY StatusEnds
  <1>3. CASE FinishError(status) = "none" /\ Finished(status) /\ Goes(j, r)
    <2>1. r.pc = "finalize"
      BY Leasing DEF JobTypes
    <2> HIDE DEF r, status
    <2>2. Leaves(j)
      BY <1>3, <2>1, OnPoints, GoesLeaves
    <2>3. Dispatching
      BY <1>2, <1>3, FinishPossible, StatusEndsDispatch DEF Finished
    <2> QED BY <1>1, <2>2, <2>3, LeasesStay, StepLeaves
  <1>4. CASE \E class : Throws(j, class) /\ UNCHANGED dis
    BY <1>1, <1>4, StepStays DEF tables
  <1> QED BY <1>3, <1>4 DEF Finish

\* finalizeDispatch keeps LInv.
LEMMA FinalizeLease == ASSUME LInv, DInv', NEW j \in Jobs, Runs(j), Finalize(j) PROVE LInv'
  <1>1. /\ todo' = todo /\ job[j].pc = "finalize" /\ dis' = dis
        /\ Finalizes(j, job[j].lease, StatusOf(job[j].outcome))
    BY DEF Finalize, NoCall, Still, At
  <1>2. job[j].lease \in {0} \cup Leases
    BY Leasing DEF JobTypes
  <1> QED BY <1>1, <1>2, StatusEnds, FinalizesLeaves, DispatchesStay, StepLeaves

\* A binding that the runtime has lost keeps LInv.
LEMMA BindingResetLease == ASSUME LInv, DInv', NEW j \in Jobs, Runs(j), BindingReset(j) PROVE LInv'
  <1>0. todo' = todo /\ job[j].pc = "reset"
    BY DEF BindingReset, NoCall, Still, At
  <1>1. CASE ResetBeforeDispatch(j)
    <2>1. UNCHANGED <<dis, res>>
      BY <1>1 DEF ResetBeforeDispatch
    <2>2. CASE Unbound(job[j].attempt) /\ CancelClaimed /\ Returns(j)
      <3>1. att[cur].lease = 0 /\ "cancelled" \in Terminal
        BY <2>2 DEF Unbound, cur, Terminal
      <3>2. Passing
        BY <2>1, <2>2, <3>1, EndsFenced DEF CancelClaimed, Fenced
      <3> QED BY <1>0, <2>1, <2>2, <3>2, DispatchesStay, ReturnsLeaves, StepLeaves
    <2>3. CASE Throws(j, "fatal") /\ UNCHANGED <<op, att>>
      BY <1>0, <2>1, <2>3, StepStays DEF tables
    <2> QED BY <1>1, <2>2, <2>3 DEF ResetBeforeDispatch
  <1>2. CASE ResetInterrupted(j)
    <2> DEFINE a == job[j].attempt
               e == [dis[a] EXCEPT !.status = "cancelled", !.payload = "cancelled"]
    <2>1. dis' = dis \/ (dis[a].status = "interrupted" /\ dis' = [dis EXCEPT ![a] = e])
      BY <1>2 DEF ResetInterrupted
    <2>2. a \in Attempts => e.status = "cancelled"
      BY Leasing DEF DisTypes
    <2>3. a \notin Attempts => [dis EXCEPT ![a] = e] = dis
      BY Leasing
    <2> HIDE DEF a, e
    <2>4. Dispatching
      BY <2>1, <2>2, <2>3, DispatchesStay, DispatchEnds DEF Live
    <2>5. Passing /\ Leaves(j)
      <3>1. \/ Finalizes(j, job[j].lease, "cancelled")
            \/ Throws(j, "fatal") /\ UNCHANGED <<op, att, res>>
        BY <1>2 DEF ResetInterrupted
      <3>2. "cancelled" \in Terminal /\ job[j].lease \in {0} \cup Leases
        BY Leasing DEF Terminal, JobTypes
      <3> QED BY <3>1, <3>2, FinalizesLeaves, ThrowsLeaves, LeasesStay
    <2> QED BY <1>0, <2>4, <2>5, StepLeaves
  <1>3. CASE ResetOtherwise(j)
    BY <1>0, <1>3, StepStays DEF ResetOtherwise
  <1> QED BY <1>1, <1>2, <1>3 DEF BindingReset

\* RemoteCoordinatorPersistence.activate
LEMMA EnqueueLease == ASSUME LInv, DInv', NEW j \in Jobs, Runs(j), Enqueue(j) PROVE LInv'
  <1> DEFINE a == job[j].attempt
  <1>1. /\ UNCHANGED <<dis, res, todo>> /\ job[j].pc = "enqueue"
        /\ Returns(j) \/ Throws(j, "fatal")
        /\ \/ UNCHANGED <<att, op>>
           \/ /\ a = cur /\ att[a].status = "reserved"
              /\ att' = [att EXCEPT ![a] = Passed(att[a], "activated")]
              /\ op' = [op EXCEPT !.state = "activated"]
    BY DEF Enqueue, At
  <1>2. CASE UNCHANGED <<att, op>>
    BY <1>1, <1>2, StepStays DEF tables
  <1>3. CASE /\ att[cur].status = "reserved"
             /\ att' = [att EXCEPT ![cur] = Passed(att[cur], "activated")]
             /\ op' = [op EXCEPT !.state = "activated"]
    <2>1. op'.state = "activated" /\ op'.attempt = op.attempt
      BY <1>3, Leasing DEF OpTypes
    <2>2. Passing
      BY <1>1, <1>3, <2>1, PassesOn DEF AttStates, Terminal, Parked
    <2> QED BY <1>1, <2>2, DispatchesStay, ReturnsLeaves, ThrowsLeaves, StepLeaves
  <1> QED BY <1>1, <1>2, <1>3

\* Calls after which the job need hold nothing.
LEMMA CallsLease ==
    ASSUME LInv, DInv', NEW j \in Jobs, Runs(j),
           ActivateRuntime(j) \/ MarkRuntime(j) \/ CallComplete(j) \/ CallFail(j) \/ CallReject(j)
    PROVE  LInv'
  <1>1. /\ UNCHANGED tables /\ todo' = todo /\ job[j].pc \in {"activate", "mark", "call", "reject"}
        /\ \/ Returns(j) \/ \E class : Throws(j, class)
           \/ \E pc \in {"enqueue", "finish", "reject"} : Goto(j, pc)
           \/ Goes(j, [job[j] EXCEPT !.pc = "finish", !.outcome = "rejected"])
    BY DEF ActivateRuntime, MarkRuntime, CallComplete, CallFail, CallReject, Calls, Still, At
  <1>2. [job[j] EXCEPT !.pc = "finish", !.outcome = "rejected"].pc = "finish"
    BY Leasing DEF JobTypes
  <1> QED BY <1>1, <1>2, OnPoints, StepStays

-----------------------------------------------------------------------------
(* reenter: what is read before a call of the runtime, and used after it. *)

\* Job j goes on to record r and the tables stay.
LEMMA MovesOn ==
    ASSUME LInv, DInv', NEW j \in Jobs, Runs(j), job[j].pc \notin {"prepare", "awaiting"}, todo' = todo,
           UNCHANGED tables, NEW r, Goes(j, r), Fits(j)'
    PROVE  LInv'
  <1>1. act' = act /\ \A k \in Jobs \ {j} : job'[k] = job[k]
    BY Leasing DEF Goes
  <1>2. Passing /\ Dispatching
    BY TablesStay
  <1>3. AskInv'
    BY <1>1, <1>2, AsksPass DEF Asks
  <1> QED BY <1>1, <1>2, <1>3, JobMoves DEF At

\* Only the sweep, or an action it waits for, takes up a stranded operation,
\* and it stays so until the dispatch is there.
LEMMA EntersOn ==
    ASSUME LInv, DInv', NEW j \in Jobs, Runs(j), job[j].pc \in Entering \cup {"reenter"}, todo' = todo,
           UNCHANGED tables, NEW r, Goes(j, r), r.pc \in Entering, Reads(r),
           At(j, "reenter") /\ Stranded => att[cur].status \notin Parked
    PROVE  LInv'
  <1>1. job' = [job EXCEPT ![j] = r] /\ act' = act
    BY DEF Goes
  <1>2. job'[j] = r /\ \A k \in Jobs \ {j} : job'[k] = job[k]
    BY <1>1, Leasing
  <1>3. UNCHANGED <<op, att, dis, res>> /\ cur' = cur
    BY DEF tables, cur
  <1>4. Enters(j, job[j]) /\ TakenUp(j, job[j]) /\ Sweep \in Jobs
    BY Numbers DEF LInv, JobInv, Fits
  <1>5. job[j].pc \notin {"prepare", "awaiting", "recover", "resumed"}
    BY DEF Entering
  <1>6. ~Preparing
    BY <1>5 DEF Preparing, Runs, At, Unyielding
  <1>7. Prepares(job[j])' /\ r.pc \notin {"prepare", "recover", "resumed", "reenter"}
    BY <1>2 DEF Prepares, Entering
  <1>8. Reads(job[j])'
    BY <1>2, <1>3 DEF Reads
  <1>9. Enters(j, job[j])'
    <2>1. SUFFICES ASSUME Stranded PROVE att[cur].status \notin Parked /\ (j = Sweep \/ Awaited(j)')
      BY <1>2, <1>3 DEF Enters, Stranded
    <2>2. att[cur].status \notin Parked /\ (j = Sweep \/ Awaited(j))
      BY <1>4, <1>6, <2>1 DEF Enters, At
    <2>3. j # Sweep => job'[Sweep] = job[Sweep]
      BY <1>2, <1>4
    <2> QED BY <2>2, <2>3 DEF Awaited, At
  <1>10. TakenUp(j, job[j])'
    BY <1>2, <1>4, <1>7 DEF TakenUp
  <1>11. Fits(j)'
    BY <1>7, <1>8, <1>9, <1>10 DEF Fits
  <1> QED BY <1>5, <1>11, MovesOn

\* The start of reenter keeps LInv.
LEMMA ReenterLease == ASSUME LInv, DInv', NEW j \in Jobs, Runs(j), Reenter(j) PROVE LInv'
  <1>0. todo' = todo /\ job[j].pc = "reenter"
    BY DEF Reenter, NoCall, Still, At
  <1>1. CASE ReenterEnds(j)
    BY <1>0, <1>1, StepStays DEF ReenterEnds
  <1>2. CASE ReenterFinalizes(j)
    BY <1>0, <1>2, Leasing, FinalizesLeaves, DispatchesStay, StepLeaves DEF ReenterFinalizes
  <1>3. CASE ReenterDefers(j)
    BY <1>0, <1>3, StepStays DEF ReenterDefers
  <1>4. CASE ReenterAcquires(j)
    <2>1. PICK b \in BOOLEAN : Goes(j, [job[j] EXCEPT !.pc = "acquired", !.reuse = b])
      BY <1>4 DEF ReenterAcquires
    <2> DEFINE r == [job[j] EXCEPT !.pc = "acquired", !.reuse = b]
    <2>2. r.pc = "acquired"
      BY Leasing DEF JobTypes
    <2>3. Goes(j, r)
      BY <2>1
    <2> HIDE DEF r
    <2>4. r.pc \in Entering /\ Reads(r)
      BY <2>2 DEF Entering, Reads, Reading
    <2>5. UNCHANGED tables /\ (Stranded => att[cur].status \notin Parked)
      BY <1>4 DEF ReenterAcquires, Stranded
    <2> QED BY <1>0, <2>3, <2>4, <2>5, EntersOn
  <1> QED BY <1>1, <1>2, <1>3, <1>4 DEF Reenter

\* What reenter reads is so when it reads it.
LEMMA HoldingReads ==
    ASSUME LInv, NEW j \in Jobs, NEW pc \in Reading
    PROVE  Holding(j, pc).pc = pc /\ Reads(Holding(j, pc))
  <1>1. /\ Holding(j, pc).pc = pc /\ Holding(j, pc).attempt = cur
        /\ Holding(j, pc).lease = att[cur].lease
    BY Leasing DEF Holding, JobTypes
  <1> QED BY <1>1, Leasing DEF Reads

\* The acquired operation keeps LInv.
LEMMA AcquiredLease == ASSUME LInv, DInv', NEW j \in Jobs, Runs(j), Acquired(j) PROVE LInv'
  <1>0. todo' = todo /\ job[j].pc = "acquired"
    BY DEF Acquired, NoCall, Still, At
  <1>1. CASE Returns(j) /\ UNCHANGED tables
    BY <1>0, <1>1, StepStays
  <1>2. CASE Writes(j, dis[cur].payload)
    BY <1>0, <1>2, WritesLeave, StepLeaves
  <1>3. CASE \E pc \in {"reconcile", "claim"} : Goes(j, Holding(j, pc)) /\ UNCHANGED tables
    <2>1. PICK pc \in {"reconcile", "claim"} : Goes(j, Holding(j, pc)) /\ UNCHANGED tables
      BY <1>3
    <2>2. pc \in Reading /\ pc \in Entering /\ "acquired" \in Entering
      BY DEF Reading, Entering
    <2> QED BY <1>0, <2>1, <2>2, HoldingReads, EntersOn DEF At
  <1> QED BY <1>1, <1>2, <1>3 DEF Acquired

\* The claim of the block keeps LInv.
LEMMA ClaimRuntimeLease == ASSUME LInv, DInv', NEW j \in Jobs, Runs(j), ClaimRuntime(j) PROVE LInv'
  <1>1. /\ UNCHANGED tables /\ todo' = todo /\ job[j].pc = "claim"
        /\ Goes(j, Holding(j, "persisted")) \/ \E class : Throws(j, class)
    BY DEF ClaimRuntime, Calls, Still, At
  <1>2. {"persisted", "claim"} \subseteq Reading \cap Entering
    BY DEF Reading, Entering
  <1> QED BY <1>1, <1>2, HoldingReads, EntersOn, StepStays DEF At

\* The reconciliation with the block keeps LInv.
LEMMA ReconcileRuntimeLease ==
    ASSUME LInv, DInv', NEW j \in Jobs, Runs(j), ReconcileRuntime(j)
    PROVE  LInv'
  <1>1. /\ UNCHANGED tables /\ todo' = todo /\ job[j].pc = "reconcile"
        /\ \/ \E o \in {"bound", "unbound"} : Goes(j, [job[j] EXCEPT !.pc = "persisted", !.outcome = o])
           \/ Goto(j, "reset") \/ \E class : Throws(j, class)
    BY DEF ReconcileRuntime, Calls, Still, At
  <1>2. CASE Goto(j, "reset") \/ \E class : Throws(j, class)
    BY <1>1, <1>2, OnPoints, StepStays
  <1>3. CASE \E o \in {"bound", "unbound"} : Goes(j, [job[j] EXCEPT !.pc = "persisted", !.outcome = o])
    <2>1. PICK o \in {"bound", "unbound"} : Goes(j, [job[j] EXCEPT !.pc = "persisted", !.outcome = o])
      BY <1>3
    <2> DEFINE r == [job[j] EXCEPT !.pc = "persisted", !.outcome = o]
    <2>2. r.pc = "persisted" /\ r.attempt = job[j].attempt /\ r.lease = job[j].lease
      BY Leasing DEF JobTypes
    <2>3. Goes(j, r)
      BY <2>1
    <2> HIDE DEF r
    <2>4. Reads(job[j])
      BY DEF LInv, JobInv, Fits
    <2>5. Reads(r) /\ r.pc \in Entering /\ job[j].pc \in Entering
      BY <1>1, <2>2, <2>4 DEF Reads, Reading, Entering
    <2> QED BY <1>1, <2>3, <2>5, EntersOn DEF At
  <1> QED BY <1>1, <1>2, <1>3

\* To the reservation and, if it is there, to the dispatch that lacks.
LEMMA PersistedLease == ASSUME LInv, DInv', NEW j \in Jobs, Runs(j), Persisted(j) PROVE LInv'
  <1> DEFINE held == job[j]
             d == dis[held.attempt]
  <1>0. todo' = todo /\ job[j].pc = "persisted" /\ job[j].lease \in {0} \cup Leases
    BY Leasing DEF Persisted, NoCall, Still, At, JobTypes
  <1>1. \/ Returns(j) /\ UNCHANGED tables
        \/ \E pc \in {"enqueue", "activate", "reserve"} : Goto(j, pc) /\ UNCHANGED tables
        \/ \E o \in {"resumable", "manual"} :
              Goes(j, [held EXCEPT !.pc = "mark", !.outcome = o]) /\ UNCHANGED tables
        \/ Writes(j, d.payload)
        \/ d.status \in Terminal /\ Finalizes(j, held.lease, d.status) /\ UNCHANGED dis
        \/ d.status = "none" /\ held.lease # 0 /\ Goto(j, "prepare") /\ UNCHANGED tables
    BY DEF Persisted
  <1>2. CASE Returns(j) /\ UNCHANGED tables
    BY <1>0, <1>2, StepStays
  <1>3. CASE \E pc \in {"enqueue", "activate", "reserve"} : Goto(j, pc) /\ UNCHANGED tables
    BY <1>0, <1>3, OnPoints, StepStays
  <1>4. CASE \E o \in {"resumable", "manual"} :
              Goes(j, [held EXCEPT !.pc = "mark", !.outcome = o]) /\ UNCHANGED tables
    <2>1. PICK o \in {"resumable", "manual"} :
              Goes(j, [held EXCEPT !.pc = "mark", !.outcome = o]) /\ UNCHANGED tables
      BY <1>4
    <2>2. [held EXCEPT !.pc = "mark", !.outcome = o].pc = "mark"
      BY Leasing DEF JobTypes
    <2> QED BY <1>0, <2>1, <2>2, OnPoints, StepStays
  <1>5. CASE Writes(j, d.payload)
    BY <1>0, <1>5, WritesLeave, StepLeaves
  <1>6. CASE d.status \in Terminal /\ Finalizes(j, held.lease, d.status) /\ UNCHANGED dis
    BY <1>0, <1>6, FinalizesLeaves, DispatchesStay, StepLeaves
  <1>7. CASE d.status = "none" /\ held.lease # 0 /\ Goto(j, "prepare") /\ UNCHANGED tables
    <2> DEFINE r == [job[j] EXCEPT !.pc = "prepare"]
    <2>1. r.pc = "prepare" /\ r.lease = job[j].lease
      BY Leasing DEF JobTypes
    <2>2. Goes(j, r)
      BY <1>7 DEF Goto
    <2> HIDE DEF r
    <2>3. job'[j] = r
      BY <2>2, Leasing DEF Goes
    <2>4. Reads(job[j])
      BY DEF LInv, JobInv, Fits
    <2>5. job[j].lease = att[cur].lease
      BY <1>0, <1>7, <2>4 DEF Reads, Reading
    <2>6. att' = att /\ cur' = cur
      BY <1>7 DEF tables, cur
    <2>7. Prepares(job[j])'
      BY <1>7, <2>1, <2>3, <2>5, <2>6 DEF Prepares
    <2>8. Fits(j)'
      BY <2>1, <2>3, <2>7 DEF Fits, Reads, Enters, TakenUp, Entering, Reading
    <2> QED BY <1>0, <1>7, <2>2, <2>8, MovesOn
  <1> QED BY <1>1, <1>2, <1>3, <1>4, <1>5, <1>6, <1>7

-----------------------------------------------------------------------------
(* The steps that reserve, dispatch, resume and retry. *)

\* Job j moves and nobody is stranded: what the others have read is all that matters.
LEMMA RestFits ==
    ASSUME LInv, NEW j \in Jobs, Runs(j),
           \A k \in Jobs \ {j} : job'[k] = job[k] /\ (k \in Actions => act'[k].plan = act[k].plan),
           ~Stranded' \/ Preparing',
           \A k \in Jobs \ {j} : Reads(job[k])',
           Fits(j)'
    PROVE  JobInv'
  <1>1. ASSUME NEW k \in Jobs, k # j PROVE Fits(k)'
    <2>1. job'[k] = job[k] /\ job[k].pc \notin Unyielding /\ (k \in Actions => act'[k].plan = act[k].plan)
      BY <1>1 DEF Runs
    <2>2. TakenUp(k, job[k])
      BY DEF LInv, JobInv, Fits
    <2>3. Prepares(job[k])' /\ TakenUp(k, job[k])'
      BY <2>1, <2>2 DEF Prepares, TakenUp, Unyielding
    <2>4. Enters(k, job[k])'
      BY DEF Enters
    <2> QED BY <1>1, <2>3, <2>4 DEF Fits
  <1>2. Alone'
    BY DEF Alone, Runs
  <1> QED BY <1>1, <1>2 DEF JobInv

\* What was read stays true as long as the current attempt and its lease do
\* and no dispatch goes away.
LEMMA ReadsStay ==
    ASSUME LInv, NEW k \in Jobs, job'[k] = job[k], cur' = cur, att'[cur].lease = att[cur].lease,
           \A a \in Attempts : dis'[a].status = "none" => dis[a].status = "none"
    PROVE  Reads(job[k])'
  <1>1. Reads(job[k])
    BY DEF LInv, JobInv, Fits
  <1> QED BY <1>1 DEF Reads

\* HostReservationRepository.reserve: an attempt that is prepared has no lease.
LEMMA ReserveLease == ASSUME LInv, DInv', NEW j \in Jobs, Runs(j), Reserve(j) PROVE LInv'
  <1>0. todo' = todo /\ job[j].pc = "reserve" /\ dis' = dis
    BY DEF Reserve, NoCall, Still, At
  <1>1. CASE UNCHANGED <<op, att, res>> /\ (Returns(j) \/ Throws(j, "fatal"))
    BY <1>0, <1>1, StepStays DEF tables
  <1>2. CASE /\ UNCHANGED <<op, att, res>> /\ ~Fenced(cur)
             /\ Goes(j, [job[j] EXCEPT !.pc = "prepare", !.lease = att[cur].lease])
    <2> DEFINE r == [job[j] EXCEPT !.pc = "prepare", !.lease = att[cur].lease]
    <2>1. r.pc = "prepare" /\ r.lease = att[cur].lease
      BY Leasing DEF JobTypes
    <2>2. Goes(j, r)
      BY <1>2
    <2> HIDE DEF r
    <2>3. job'[j] = r
      BY <2>2, Leasing DEF Goes
    <2>4. att[cur].lease # 0 /\ att' = att /\ cur' = cur
      BY <1>2 DEF Fenced, cur
    <2>5. Fits(j)'
      BY <2>1, <2>3, <2>4 DEF Fits, Prepares, Reads, Enters, TakenUp, Entering, Reading
    <2> QED BY <1>0, <1>2, <2>2, <2>5, MovesOn DEF tables
  <1>3. CASE /\ att[cur].status = "prepared"
             /\ \E l \in FreeLeases :
                  /\ res' = [res EXCEPT ![l] = [status |-> "active", attempt |-> cur]]
                  /\ att' = [att EXCEPT ![cur] = [status |-> "reserved", version |-> att[cur].version + 1,
                                                  lease |-> l]]
                  /\ Goes(j, [job[j] EXCEPT !.pc = "prepare", !.lease = l])
                  /\ op' = [op EXCEPT !.state = "reserved"]
    <2>1. PICK l \in FreeLeases :
             /\ res' = [res EXCEPT ![l] = [status |-> "active", attempt |-> cur]]
             /\ att' = [att EXCEPT ![cur] = [status |-> "reserved", version |-> att[cur].version + 1,
                                             lease |-> l]]
             /\ Goes(j, [job[j] EXCEPT !.pc = "prepare", !.lease = l])
             /\ op' = [op EXCEPT !.state = "reserved"]
      BY <1>3
    <2> DEFINE r == [job[j] EXCEPT !.pc = "prepare", !.lease = l]
    <2>2. r.pc = "prepare" /\ r.lease = l
      BY Leasing DEF JobTypes
    <2>3. Goes(j, r)
      BY <2>1
    <2> HIDE DEF r
    <2>4. l \in Leases /\ l # 0
      BY Numbers DEF FreeLeases
    <2>5. att[cur].lease = 0 /\ dis[cur].status = "none"
      BY <1>3, Leasing DEF LInv, TableInv, Unreserved
    <2>6. \A k \in Leases : res[k].status # "active"
      BY <2>5, NoneActive DEF Fenced
    <2>7. op'.state = "reserved" /\ op'.attempt = op.attempt /\ cur' = cur
      BY <2>1, Leasing DEF OpTypes, cur
    <2>8. /\ att'[cur].status = "reserved" /\ att'[cur].version = att[cur].version + 1 /\ att'[cur].lease = l
          /\ \A a \in Attempts \ {cur} : att'[a] = att[a]
      BY <2>1, Leasing
    <2>9. /\ res'[l].status = "active" /\ res'[l].attempt = cur
          /\ \A k \in Leases \ {l} : res'[k] = res[k]
      BY <2>1, <2>4, Leasing
    <2>10. job'[j] = r /\ act' = act /\ \A k \in Jobs \ {j} : job'[k] = job[k]
      BY <2>3, Leasing DEF Goes
    <2>11. TableInv'
      <3>1. OneActive'
        BY <2>4, <2>6, <2>7, <2>8, <2>9 DEF OneActive
      <3>2. SameLease'
        BY <1>0, <2>5, <2>7 DEF SameLease, Live
      <3>3. EndsAlike'
        BY <2>7, <2>8 DEF EndsAlike, Terminal
      <3>4. Unreserved'
        BY <1>0, <2>7, <2>8, Leasing DEF Unreserved, LInv, TableInv
      <3>5. Uninterrupted'
        BY <1>0 DEF Uninterrupted, LInv, TableInv
      <3> QED BY <3>1, <3>2, <3>3, <3>4, <3>5 DEF TableInv
    <2>12. AskInv'
      <3> SUFFICES ASSUME NEW i \in Actions PROVE Refers(act[i])' /\ Reserves(act[i])'
        BY DEF AskInv
      <3>1. Reserves(act[i])'
        BY <2>7, <2>8 DEF Reserves
      <3>2. Refers(act[i])'
        BY <2>8, <2>10, RefersStay
      <3> QED BY <3>1, <3>2
    <2>13. Fits(j)'
      BY <2>2, <2>4, <2>7, <2>8, <2>10 DEF Fits, Prepares, Reads, Enters, TakenUp, Entering, Reading
    <2>14. Preparing'
      BY <2>2, <2>10 DEF Preparing, At
    <2>15. ASSUME NEW k \in Jobs \ {j} PROVE Reads(job[k])'
      <3>1. Reads(job[k]) /\ job'[k] = job[k]
        BY <2>10 DEF LInv, JobInv, Fits
      <3> QED BY <1>0, <2>5, <3>1 DEF Reads
    <2> QED BY <2>10, <2>11, <2>12, <2>13, <2>14, <2>15, RestFits DEF LInv
  <1> QED BY <1>1, <1>2, <1>3 DEF Reserve

\* The dispatch of the current attempt is given out under the attempt's lease.
LEMMA GivenOut ==
    ASSUME LInv, NEW e, dis' = [dis EXCEPT ![cur] = e], e.status = "leased", e.intr = "none",
           cur' = cur, att'[cur].lease = e.lease, att'[cur].status \notin {"none", "prepared"},
           \A a \in Attempts \ {cur} : att'[a] = att[a],
           OneActive', EndsAlike'
    PROVE  TableInv' /\ ~Stranded'
  <1>1. cur \in Attempts /\ dis'[cur] = e /\ \A a \in Attempts \ {cur} : dis'[a] = dis[a]
    BY Leasing
  <1>2. SameLease' /\ ~Stranded'
    BY <1>1 DEF SameLease, Stranded
  <1>3. Unreserved'
    BY <1>1 DEF LInv, TableInv, Unreserved
  <1>4. Uninterrupted'
    BY <1>1 DEF LInv, TableInv, Uninterrupted
  <1> QED BY <1>2, <1>3, <1>4 DEF TableInv

\* RemoteCoordinatorPersistence.prepare
LEMMA PrepareLease == ASSUME LInv, DInv', NEW j \in Jobs, Runs(j), Prepare(j) PROVE LInv'
  <1> DEFINE l == job[j].lease
             r == [job[j] EXCEPT !.pc = "activate", !.attempt = cur]
             e == [dis[cur] EXCEPT !.status = "leased", !.lease = l]
  <1>1. /\ UNCHANGED <<op, att, res, todo>> /\ job[j].pc = "prepare"
        /\ Goes(j, r) \/ Throws(j, "fatal")
        /\ \/ dis' = dis /\ dis[cur].status # "none"
           \/ dis[cur].status = "none" /\ dis' = [dis EXCEPT ![cur] = e]
    BY DEF Prepare, NoCall, Still, At
  <1>2. r.pc = "activate"
    BY Leasing DEF JobTypes
  <1>3. e.status = "leased" /\ e.lease = l /\ e.intr = dis[cur].intr
    BY Leasing DEF DisTypes
  <1> HIDE DEF r, e
  <1>4. Leaves(j) /\ cur' = cur
    BY <1>1, <1>2, OnPoints, GoesLeaves, ThrowsLeaves DEF cur
  <1>5. TableInv' /\ ~Stranded' /\ (\A a \in Attempts : dis'[a].status = "none" => dis[a].status = "none")
        /\ AskInv'
    <2>1. CASE dis' = dis /\ dis[cur].status # "none"
      <3>1. Passing /\ Dispatching
        BY <1>1, <2>1, TablesStay DEF tables
      <3> QED BY <1>4, <2>1, <3>1, TablesPass, AsksPass DEF Stranded, Leaves
    <2>2. CASE dis[cur].status = "none" /\ dis' = [dis EXCEPT ![cur] = e]
      <3>1. Prepares(job[j])
        BY DEF LInv, JobInv, Fits
      <3>2. l = att[cur].lease /\ l # 0
        BY <1>1, <2>2, <3>1 DEF Prepares
      <3>3. att[cur].status \notin {"none", "prepared"}
        BY <3>2, Leasing DEF LInv, TableInv, Unreserved
      <3>4. e.intr = "none"
        BY <1>3, <2>2, Leasing DEF LInv, TableInv, Uninterrupted
      <3>5. OneActive' /\ EndsAlike'
        BY <1>1, <1>4 DEF LInv, TableInv, OneActive, EndsAlike
      <3>6. TableInv' /\ ~Stranded'
        BY <1>1, <1>3, <1>4, <2>2, <3>2, <3>3, <3>4, <3>5, GivenOut
      <3>7. dis'[cur].status = "leased" /\ \A a \in Attempts \ {cur} : dis'[a] = dis[a]
        BY <1>3, <2>2, Leasing
      <3>8. ASSUME NEW i \in Actions PROVE Refers(act[i])' /\ Reserves(act[i])'
        <4>1. Reserves(act[i]) /\ Asks(j)
          BY <1>4 DEF LInv, AskInv, Leaves
        <4>2. Refers(act[i])'
          BY <1>1, <4>1, RefersStay DEF Asks
        <4>3. Reserves(act[i])'
          BY <1>1, <1>4, <2>2, <4>1 DEF Reserves, Asks
        <4> QED BY <4>2, <4>3
      <3> QED BY <3>6, <3>7, <3>8 DEF AskInv
    <2> QED BY <1>1, <2>1, <2>2
  <1>6. \A k \in Jobs \ {j} : Reads(job[k])'
    BY <1>1, <1>4, <1>5, ReadsStay DEF Leaves
  <1>7. Fits(j)'
    BY <1>4, FreeFits DEF Leaves
  <1> QED BY <1>4, <1>5, <1>6, <1>7, RestFits DEF LInv, Leaves, Asks

\* Every step of a job keeps LInv.
LEMMA JobStepLease == ASSUME LInv, DInv', NEW j \in Jobs, Runs(j), JobStep(j) PROVE LInv'
  BY ReenterLease, AcquiredLease, ClaimRuntimeLease, ReconcileRuntimeLease, BindingResetLease,
     PersistedLease, ReserveLease, PrepareLease, EnqueueLease, WriteLease, CallsLease, FinishLease,
     FinalizeLease, SealLease, ForceLease DEF JobStep

-----------------------------------------------------------------------------
(* The steps of actions. *)

\* The dispatch is given out again, under the lease that the resume was promised.
LEMMA GivenOutAgain ==
    ASSUME LInv, DInv', NEW i \in Actions, Runs(i), Resumable(i), EnqueueResume(i),
           cur' = cur, att'[cur].lease = act[i].fresh, att'[cur].status = "activated",
           att'[cur] = att[cur] \/ att'[cur].version = att[cur].version + 1,
           \A a \in Attempts \ {cur} : att'[a] = att[a],
           OneActive', EndsAlike'
    PROVE  LInv'
  <1> DEFINE e == [dis[cur] EXCEPT !.status = "leased", !.lease = act[i].fresh, !.intr = "none"]
  <1>1. dis' = [dis EXCEPT ![cur] = e] /\ Delivers(i)
    BY DEF EnqueueResume
  <1>2. e.status = "leased" /\ e.lease = act[i].fresh /\ e.intr = "none"
    BY Leasing DEF DisTypes
  <1> HIDE DEF e
  <1>3. Leaves(i) /\ i \in Jobs
    BY <1>1, Numbers, DeliversLeaves
  <1>4. TableInv' /\ ~Stranded'
    BY <1>1, <1>2, GivenOut
  <1>5. dis'[cur].status = "leased" /\ \A a \in Attempts \ {cur} : dis'[a] = dis[a]
    BY <1>1, <1>2, Leasing
  <1>6. ASSUME NEW k \in Actions PROVE Refers(act[k])' /\ Reserves(act[k])'
    <2>1. Refers(act[k])'
      BY <1>3, RefersStay DEF Leaves, Asks
    <2>2. Reserves(act[k])'
      BY DEF Reserves
    <2> QED BY <2>1, <2>2
  <1>7. ASSUME NEW k \in Jobs \ {i} PROVE Reads(job[k])'
    <2>1. Reads(job[k]) /\ job'[k] = job[k]
      BY <1>3 DEF LInv, JobInv, Fits, Leaves
    <2> QED BY <1>5, <2>1 DEF Reads
  <1>8. Fits(i)'
    BY <1>3, FreeFits DEF Leaves
  <1> QED BY <1>3, <1>4, <1>6, <1>7, <1>8, RestFits DEF LInv, AskInv, Leaves, Asks

\* enqueueCancel
LEMMA EnqueueCancelLeaves ==
    ASSUME LInv, NEW i \in Actions, EnqueueCancel(i)
    PROVE  Dispatching /\ Leaves(i)
  <1>1. CASE dis[cur].status \in Live
    <2> DEFINE e == [dis[cur] EXCEPT !.status = "cancelling"]
    <2>1. dis' = [dis EXCEPT ![cur] = e] /\ Delivers(i)
      BY <1>1 DEF EnqueueCancel
    <2>2. e.status = "cancelling" /\ e.lease = dis[cur].lease /\ e.intr = dis[cur].intr
      BY Leasing DEF DisTypes
    <2> HIDE DEF e
    <2>3. Dispatching
      BY <1>1, <2>1, <2>2, Leasing DEF Dispatching, Waits, Live
    <2> QED BY <2>1, <2>3, DeliversLeaves
  <1>2. CASE Throws(i, "fatal") /\ UNCHANGED dis
    BY <1>2, Numbers, ThrowsLeaves, DispatchesStay
  <1> QED BY <1>1, <1>2 DEF EnqueueCancel

\* A resume is only planned for a dispatch that was interrupted.
LEMMA DecideLease ==
    ASSUME LInv, DInv', NEW i \in Actions, Runs(i), At(i, "recover"), Decide(i), todo' = todo
    PROVE  LInv'
  <1> DEFINE plan == IF act[i].plan # "none" THEN act[i].plan ELSE Decision(act[i])
  <1>1. i \in Jobs /\ act[i] \in ActTypes /\ act[i].kind # "none" /\ UNCHANGED tables
    BY Leasing, Numbers DEF LInv, DInv, Control, Holds, At, Decide
  <1>2. CASE plan = "refuse"
    <2> DEFINE x == [act[i] EXCEPT !.claimed = FALSE]
    <2>1. job' = [job EXCEPT ![i] = [NoJob EXCEPT !.pc = "refused"]] /\ act' = [act EXCEPT ![i] = x]
      BY <1>2 DEF Decide
    <2>2. /\ x.kind = act[i].kind /\ x.attempt = act[i].attempt /\ x.version = act[i].version
          /\ x.fresh = act[i].fresh /\ x.plan = act[i].plan
      BY <1>1 DEF ActTypes
    <2> HIDE DEF x
    <2>3. Leaves(i)
      BY <2>1, <2>2, FinalPoint, WritesLeaves
    <2> QED BY <1>1, <2>3, TablesStay, StepLeaves DEF At
  <1>3. CASE plan # "refuse"
    <2> DEFINE x == [act[i] EXCEPT !.plan = plan]
    <2>1. PICK pc \in {"apply", "ask"} :
             job' = [job EXCEPT ![i] = [NoJob EXCEPT !.pc = pc, !.mode = "apply", !.attempt = cur]]
      BY <1>3 DEF Decide
    <2>2. act' = [act EXCEPT ![i] = x]
      BY <1>3 DEF Decide
    <2>3. /\ x.kind = act[i].kind /\ x.attempt = act[i].attempt /\ x.version = act[i].version
          /\ x.fresh = act[i].fresh /\ x.plan = plan
      BY <1>1 DEF ActTypes
    <2>4. act[i].plan = "none" /\ plan = "resume" => dis[cur].status \notin Live \cup {"none"}
      <3>1. SUFFICES ASSUME act[i].plan = "none", Decision(act[i]) = "resume"
                     PROVE  dis[cur].status \notin Live \cup {"none"}
        OBVIOUS
      <3>2. act[i].kind \in {"cancel", "block", "fail", "resume", "retry"}
        BY <1>1 DEF ActTypes
      <3>3. act[i].kind = "resume"
        BY <3>1, <3>2, DecisionTyped
      <3>4. dis[cur].status # "none" /\ dis[cur].intr = "resumable"
        BY <3>1, <3>3 DEF Decision
      <3> QED BY <3>4, Leasing DEF LInv, TableInv, Uninterrupted
    <2> HIDE DEF x, plan
    <2>5. [NoJob EXCEPT !.pc = pc, !.mode = "apply", !.attempt = cur].pc = pc
      BY DEF NoJob
    <2>6. /\ job'[i].pc = pc /\ \A k \in Jobs \ {i} : job'[k] = job[k]
          /\ act'[i] = x /\ \A k \in Actions \ {i} : act'[k] = act[k]
      BY <1>1, <2>1, <2>2, <2>5, Leasing
    <2>7. Passing /\ Dispatching
      BY <1>1, TablesStay
    <2>8. ASSUME NEW k \in Actions PROVE Refers(act[k])' /\ Reserves(act[k])'
      <3>1. CASE k # i
        BY <2>6, <2>7, <3>1, AskPasses
      <3>2. CASE k = i /\ ~(act[i].plan = "none" /\ plan = "resume")
        <4>1. plan = "resume" => act[i].plan = "resume"
          BY <3>2 DEF plan
        <4> QED BY <2>3, <2>6, <2>7, <3>2, <4>1, AskPasses
      <3>3. CASE k = i /\ act[i].plan = "none" /\ plan = "resume"
        <4>1. att' = att /\ dis' = dis /\ cur' = cur
          BY <1>1 DEF tables, cur
        <4>2. Reserves(act[k])'
          BY <2>4, <3>3, <4>1 DEF Reserves
        <4>3. Refers(act[k])'
          BY <2>3, <2>6, <3>3, <4>1, RefersStay
        <4> QED BY <4>2, <4>3
      <3> QED BY <3>1, <3>2, <3>3
    <2>9. Fits(i)'
      BY <2>6, OnPoints, FreeFits
    <2> QED BY <1>1, <2>6, <2>7, <2>8, <2>9, Numbers, JobMoves DEF AskInv, At
  <1> QED BY <1>2, <1>3

\* Taking up a recorded action keeps LInv.
LEMMA RecoverLease == ASSUME LInv, DInv', NEW i \in Actions, Runs(i), Recover(i) PROVE LInv'
  <1>0. i \in Jobs /\ i # Sweep /\ job[i].pc = "recover" /\ todo' = todo
    BY Numbers DEF Recover, At
  <1>1. CASE RecoverRetry(i)
    <2> DEFINE r == [job[i] EXCEPT !.pc = "reenter"]
    <2>1. Goes(i, r) /\ UNCHANGED tables /\ act[i].kind = "retry" /\ act[i].fresh = cur
      BY <1>1 DEF RecoverRetry, Goto, RetryApplied
    <2>2. r.pc = "reenter"
      BY <1>0, PointReached
    <2> HIDE DEF r
    <2>3. job'[i] = r /\ (\A k \in Jobs \ {i} : job'[k] = job[k]) /\ Sweep \in Jobs
      BY <1>0, <2>1, Numbers, Leasing DEF Goes
    <2>4. TakenUp(i, job[i])
      BY <1>0 DEF LInv, JobInv, Fits
    <2>5. Awaited(i)
      BY <1>0, <2>1, <2>4 DEF TakenUp
    <2>6. Awaited(i)'
      BY <1>0, <2>3, <2>5 DEF Awaited, At
    <2>7. Fits(i)'
      BY <2>2, <2>3, <2>6 DEF Fits, Prepares, Reads, Enters, TakenUp, Entering, Reading
    <2> QED BY <1>0, <2>1, <2>7, MovesOn
  <1>2. CASE RecoverResume(i)
    <2>1. UNCHANGED <<op, att, res>> /\ cur' = cur
      BY <1>2 DEF RecoverResume, cur
    <2>2. CASE cur = act[i].attempt /\ Resumable(i) /\ EnqueueResume(i)
      <3>1. att[cur].lease = act[i].fresh /\ att[cur].status = "activated"
        BY <1>2, <2>2 DEF RecoverResume, ResumeApplied
      <3>2. OneActive' /\ EndsAlike'
        BY <2>1 DEF LInv, TableInv, OneActive, EndsAlike
      <3> QED BY <2>1, <2>2, <3>1, <3>2, GivenOutAgain
    <2>3. CASE Throws(i, "fatal") /\ UNCHANGED dis
      BY <1>0, <2>1, <2>3, StepStays DEF tables
    <2> QED BY <1>2, <2>2, <2>3 DEF RecoverResume
  <1>3. CASE RecoverCancel(i)
    <2>1. UNCHANGED <<op, att, res>>
      BY <1>3 DEF RecoverCancel
    <2>2. CASE EnqueueCancel(i)
      BY <1>0, <2>1, <2>2, EnqueueCancelLeaves, LeasesStay, StepLeaves
    <2>3. CASE Goto(i, "settled") /\ UNCHANGED dis
      BY <1>0, <2>1, <2>3, SealPoints, StepStays DEF tables
    <2> QED BY <1>3, <2>2, <2>3 DEF RecoverCancel
  <1>4. CASE RecoverBlock(i)
    BY <1>0, <1>4, SealPoints, StepStays DEF RecoverBlock
  <1>5. CASE RecoverFail(i)
    <2>1. UNCHANGED tables
      BY <1>5 DEF RecoverFail
    <2>2. FailApplied(i) \in {"error", "yes", "no"}
      BY DEF FailApplied
    <2>3. \/ Throws(i, "fatal") \/ Goto(i, "settled")
          \/ Goes(i, [job[i] EXCEPT !.pc = "write", !.outcome = dis[cur].payload])
      BY <1>5, <2>2 DEF RecoverFail
    <2>4. [job[i] EXCEPT !.pc = "write", !.outcome = dis[cur].payload].pc = "write"
      BY <1>0, Leasing DEF JobTypes
    <2> QED BY <1>0, <2>1, <2>3, <2>4, SealPoints, OnPoints, StepStays
  <1>6. CASE Decide(i)
    BY <1>0, <1>6, DecideLease DEF At
  <1> QED BY <1>1, <1>2, <1>3, <1>4, <1>5, <1>6 DEF Recover

\* Applying an action by a command keeps LInv.
LEMMA ApplyCommandLease == ASSUME LInv, DInv', NEW i \in Actions, Runs(i), ApplyCommand(i) PROVE LInv'
  BY Numbers, EnqueueCancelLeaves, LeasesStay, StepLeaves DEF ApplyCommand, At

\* Applying a block keeps LInv.
LEMMA ApplyBlockLease == ASSUME LInv, DInv', NEW i \in Actions, Runs(i), ApplyBlock(i) PROVE LInv'
  <1>1. /\ i \in Jobs /\ job[i].pc = "apply" /\ UNCHANGED <<dis, res, todo>>
        /\ Goto(i, "settled") \/ Throws(i, "fatal")
        /\ \/ UNCHANGED <<op, att>>
           \/ /\ att[cur].status = "interrupted"
              /\ op' = [op EXCEPT !.state = "action_required"]
              /\ att' = [att EXCEPT ![cur] = Passed(att[cur], "action_required")]
    BY Numbers DEF ApplyBlock, NoCall, Still, At
  <1>2. CASE UNCHANGED <<op, att>>
    BY <1>1, <1>2, SealPoints, StepStays DEF tables
  <1>3. CASE /\ att[cur].status = "interrupted"
             /\ op' = [op EXCEPT !.state = "action_required"]
             /\ att' = [att EXCEPT ![cur] = Passed(att[cur], "action_required")]
    <2>1. op'.state = "action_required" /\ op'.attempt = op.attempt
      BY <1>3, Leasing DEF OpTypes
    <2>2. Passing
      BY <1>1, <1>3, <2>1, PassesOn DEF AttStates, Terminal, Parked
    <2> QED BY <1>1, <2>2, DispatchesStay, SealPoints, GotoLeaves, ThrowsLeaves, StepLeaves
  <1> QED BY <1>1, <1>2, <1>3

\* Applying an operator's failure keeps LInv.
LEMMA ApplyFailLease == ASSUME LInv, DInv', NEW i \in Actions, Runs(i), ApplyFail(i) PROVE LInv'
  <1>1. i \in Jobs /\ job[i].pc = "apply" /\ UNCHANGED <<op, att, res, todo>>
    BY Numbers DEF ApplyFail, NoCall, Still, At
  <1>2. CASE dis[cur].status = "interrupted"
    <2> DEFINE e == [dis[cur] EXCEPT !.status = "awaiting_writeback", !.payload = "operator"]
               r == [job[i] EXCEPT !.pc = "write", !.outcome = "operator"]
    <2>1. dis' = [dis EXCEPT ![cur] = e] /\ Goes(i, r)
      BY <1>2 DEF ApplyFail
    <2>2. e.status = "awaiting_writeback" /\ r.pc = "write"
      BY <1>1, Leasing DEF DisTypes, JobTypes
    <2> HIDE DEF e, r
    <2>3. Dispatching
      BY <1>2, <2>1, <2>2, DispatchEnds DEF Live
    <2> QED BY <1>1, <2>1, <2>2, <2>3, OnPoints, GoesLeaves, LeasesStay, StepLeaves
  <1>3. CASE Throws(i, "fatal") /\ UNCHANGED dis
    BY <1>1, <1>3, StepStays DEF tables
  <1> QED BY <1>2, <1>3 DEF ApplyFail

\* An action that calls the runtime keeps LInv.
LEMMA ApplyCallsLease ==
    ASSUME LInv, DInv', NEW i \in Actions, Runs(i),
           ApplyLocal(i) \/ LocalBegins(i) \/ LocalFails(i) \/ ApplyRetry(i) \/ Check(i)
    PROVE  LInv'
  <1>1. /\ i \in Jobs /\ job[i].pc \in {"ask", "begin", "withdraw", "check"}
        /\ UNCHANGED tables /\ todo' = todo
        /\ \/ \E class : Throws(i, class)
           \/ \E pc \in {"begin", "withdraw", "fence", "retried", "settled"} : Goto(i, pc)
    BY Numbers DEF ApplyLocal, LocalBegins, LocalFails, ApplyRetry, Check, Calls, NoCall, Still, At
  <1> QED BY <1>1, OnPoints, SealPoints, StepStays

\* finalizeFencedAttempt keeps LInv.
LEMMA FenceLease == ASSUME LInv, DInv', NEW i \in Actions, Runs(i), Fence(i) PROVE LInv'
  <1>1. i \in Jobs /\ job[i].pc = "fence" /\ UNCHANGED <<dis, todo>>
    BY Numbers DEF Fence, NoCall, Still, At
  <1>2. CASE Throws(i, "fatal") /\ UNCHANGED <<op, att, res>>
    BY <1>1, <1>2, StepStays DEF tables
  <1>3. CASE /\ FinalizeError(act[i].lease, "cancelled") = "none"
             /\ Finalized(act[i].lease, "cancelled") /\ Goto(i, "settled")
    <2>1. act[i].lease \in {0} \cup Leases /\ "cancelled" \in Terminal
      BY Leasing DEF ActTypes, Terminal
    <2> QED BY <1>1, <1>3, <2>1, FinalizedPasses, DispatchesStay, SealPoints, GotoLeaves, StepLeaves
  <1> QED BY <1>2, <1>3 DEF Fence

\* Applying a resume keeps LInv.
LEMMA ApplyResumeLease == ASSUME LInv, DInv', NEW i \in Actions, Runs(i), ApplyResume(i) PROVE LInv'
  <1>1. /\ i \in Jobs /\ job[i].pc = "ask" /\ UNCHANGED tables /\ todo' = todo /\ act[i].plan = "resume"
        /\ Goto(i, "resumed") \/ \E class : Throws(i, class)
    BY Numbers DEF ApplyResume, Calls, Still, At
  <1>2. CASE \E class : Throws(i, class)
    BY <1>1, <1>2, StepStays
  <1>3. CASE Goto(i, "resumed")
    <2> DEFINE r == [job[i] EXCEPT !.pc = "resumed"]
    <2>1. Goes(i, r) /\ r.pc = "resumed"
      BY <1>1, <1>3, PointReached DEF Goto
    <2> HIDE DEF r
    <2>2. job'[i] = r /\ act' = act
      BY <1>1, <2>1, Leasing DEF Goes
    <2>3. Fits(i)'
      BY <1>1, <2>1, <2>2 DEF Fits, Prepares, Reads, Enters, TakenUp, Entering, Reading
    <2> QED BY <1>1, <2>1, <2>3, MovesOn
  <1> QED BY <1>1, <1>2, <1>3

\* The completion of an application keeps LInv.
LEMMA CompleteApplicationLease ==
    ASSUME LInv, DInv', NEW i \in Actions, Runs(i), CompleteApplication(i)
    PROVE  LInv'
  <1> DEFINE x == [act[i] EXCEPT !.state = job[i].pc, !.claimed = FALSE, !.plan = "none"]
  <1>1. /\ i \in Jobs /\ job[i].pc \in {"settled", "delivered"} /\ UNCHANGED tables /\ todo' = todo
        /\ job' = [job EXCEPT ![i] = NoJob] /\ act' = [act EXCEPT ![i] = x]
    BY Numbers DEF CompleteApplication, NoCall, Still
  <1>2. /\ x.kind = act[i].kind /\ x.attempt = act[i].attempt /\ x.version = act[i].version
        /\ x.fresh = act[i].fresh /\ x.plan = "none"
    BY Leasing DEF ActTypes
  <1> HIDE DEF x
  <1>3. Leaves(i)
    BY <1>1, <1>2, NoJobPoint, WritesLeaves
  <1> QED BY <1>1, <1>3, TablesStay, StepLeaves

\* resumeSameAttempt: the old lease has expired, so nobody has one, and the
\* dispatch that was interrupted when the resume was planned still is.
LEMMA TakesTables ==
    ASSUME LInv, NEW i \in Actions, At(i, "resumed"), TakesLease(i), TakeLease(i)
    PROVE  /\ cur' = cur /\ att'[cur].lease = act[i].fresh /\ att'[cur].status = "activated"
           /\ att'[cur].version = att[cur].version + 1
           /\ \A a \in Attempts \ {cur} : att'[a] = att[a]
           /\ OneActive' /\ EndsAlike' /\ op'.state = "activated"
           /\ dis[cur].status \notin Live \cup {"none"}
  <1>1. act[i].fresh \in Leases /\ cur \in Attempts
    BY Leasing, Parts, ResumedKind, ActionTyped DEF Promised
  <1>2. op'.state = "activated" /\ cur' = cur
    BY Leasing DEF TakeLease, OpTypes, cur
  <1>3. /\ att'[cur].lease = act[i].fresh /\ att'[cur].status = "activated"
        /\ att'[cur].version = att[cur].version + 1
        /\ \A a \in Attempts \ {cur} : att'[a] = att[a]
    BY <1>1, Leasing DEF TakeLease
  <1>4. \A l \in Leases : res[l].status # "active"
    BY Leasing, NoneActive DEF TakesLease, Fenced
  <1>5. /\ res'[act[i].fresh].attempt = cur
        /\ \A l \in Leases \ {act[i].fresh} : res'[l] = res[l]
    BY <1>1, Leasing DEF TakeLease
  <1>6. OneActive' /\ EndsAlike'
    BY <1>2, <1>3, <1>4, <1>5 DEF OneActive, EndsAlike, Terminal
  <1>7. act[i].plan = "resume"
    BY Numbers DEF LInv, JobInv, Fits, TakenUp, At
  <1>8. dis[cur].status \notin Live \cup {"none"}
    BY <1>7 DEF LInv, AskInv, Reserves, TakesLease
  <1> QED BY <1>2, <1>3, <1>6, <1>8

\* The new lease of a resume, with the dispatch not yet restored, keeps tables and requests in agreement.
LEMMA TakenTables ==
    ASSUME LInv, NEW i \in Actions, At(i, "resumed"), TakesLease(i), TakeLease(i), dis' = dis,
           \A k \in Actions : /\ act'[k].kind = act[k].kind /\ act'[k].attempt = act[k].attempt
                              /\ act'[k].version = act[k].version
    PROVE  TableInv' /\ ~Stranded' /\ AskInv' /\ cur' = cur
  <1>1. /\ cur' = cur /\ att'[cur].lease = act[i].fresh /\ att'[cur].status = "activated"
        /\ att'[cur].version = att[cur].version + 1
        /\ \A a \in Attempts \ {cur} : att'[a] = att[a]
        /\ OneActive' /\ EndsAlike'
        /\ dis[cur].status \notin Live \cup {"none"}
    BY TakesTables
  <1>2. SameLease' /\ ~Stranded'
    BY <1>1 DEF SameLease, Stranded
  <1>3. Unreserved'
    BY <1>1 DEF LInv, TableInv, Unreserved
  <1>4. Uninterrupted'
    BY DEF LInv, TableInv, Uninterrupted
  <1>5. ASSUME NEW k \in Actions PROVE Refers(act[k])' /\ Reserves(act[k])'
    <2>1. Refers(act[k])'
      BY <1>1, RefersStay
    <2>2. Reserves(act[k])'
      BY <1>1 DEF Reserves
    <2> QED BY <2>1, <2>2
  <1> QED BY <1>1, <1>2, <1>3, <1>4, <1>5 DEF TableInv, AskInv

\* The restored dispatch of a resume keeps LInv.
LEMMA ResumeLease == ASSUME LInv, DInv', NEW i \in Actions, Runs(i), Resume(i) PROVE LInv'
  <1>0. i \in Jobs /\ At(i, "resumed") /\ todo' = todo
    BY Numbers DEF Resume
  <1>1. CASE TakesLease(i) /\ TakeLease(i) /\ Resumable(i) /\ EnqueueResume(i)
    BY <1>0, <1>1, TakesTables, GivenOutAgain
  <1>2. CASE TakesLease(i) /\ TakeLease(i) /\ Throws(i, "fatal") /\ dis' = dis
    <2>1. Leaves(i)
      BY <1>0, <1>2, ThrowsLeaves
    <2>2. TableInv' /\ ~Stranded' /\ AskInv'
      BY <1>0, <1>2, <2>1, TakenTables DEF Leaves, Asks
    <2>3. dis[cur].status # "none" /\ cur' = cur
      BY <1>0, <1>2, TakesTables
    <2>4. ASSUME NEW k \in Jobs \ {i} PROVE Reads(job[k])'
      <3>1. Reads(job[k]) /\ job'[k] = job[k]
        BY <2>1 DEF LInv, JobInv, Fits, Leaves
      <3> QED BY <1>2, <2>3, <3>1 DEF Reads
    <2>5. Fits(i)'
      BY <2>1, FreeFits DEF Leaves
    <2> QED BY <1>0, <2>1, <2>2, <2>4, <2>5, RestFits DEF LInv, Leaves, Asks
  <1>3. CASE Throws(i, "fatal") /\ UNCHANGED tables
    BY <1>0, <1>3, StepStays DEF At
  <1> QED BY <1>1, <1>2, <1>3 DEF Resume

\* A crash leaves no job.
LEMMA DiesFit == ASSUME LInv, Dies PROVE JobInv'
  <1>1. \A k \in Jobs : job'[k] = NoJob
    BY DEF Dies
  <1>2. Alone'
    BY <1>1 DEF Alone, NoJob, Unyielding
  <1> QED BY <1>1, <1>2, NoJobPoint, FreeFits DEF JobInv

\* A stop between the new lease of a resume and its dispatch keeps LInv.
LEMMA CrashInResumeLease == ASSUME LInv, DInv', NEW i \in Actions, CrashInResume(i) PROVE LInv'
  BY DiesFit, TakenTables DEF CrashInResume, Dies, LInv

\* RemoteOperationRepository.retryAttempt: the attempt is parked, so nobody who
\* would take up its reservation has read it, and its lease is over.
LEMMA RetryLease == ASSUME LInv, DInv', NEW i \in Actions, Runs(i), Retry(i) PROVE LInv'
  <1> DEFINE new == act[i].fresh
             first == [status |-> "prepared", version |-> 0, lease |-> 0]
             r == [job[i] EXCEPT !.pc = "reenter"]
  <1>0. i \in Jobs /\ job[i].pc = "retried" /\ UNCHANGED <<dis, res, todo>>
    BY Numbers DEF Retry, NoCall, Still, At
  <1>1. CASE Throws(i, "fatal") /\ UNCHANGED <<op, att>>
    BY <1>0, <1>1, StepStays DEF tables
  <1>2. CASE /\ att[cur].status \in Parked /\ att[cur].lease # 0 /\ Fenced(cur)
             /\ att[new].status = "none"
             /\ att' = [att EXCEPT ![cur] = Passed(att[cur], "superseded"), ![new] = first]
             /\ op' = [state |-> "claimed", attempt |-> new]
             /\ Goto(i, "reenter")
    <2>1. new \in Attempts /\ cur \in Attempts
      BY <1>0, Leasing, Parts, ActionTyped DEF Control, Holds, Promised
    <2>2. new # cur
      BY <1>2 DEF Parked
    <2>3. Goes(i, r) /\ r.pc = "reenter"
      BY <1>0, <1>2, PointReached DEF Goto
    <2> HIDE DEF r
    <2>4. job'[i] = r /\ act' = act /\ \A k \in Jobs \ {i} : job'[k] = job[k]
      BY <1>0, <2>3, Leasing DEF Goes
    <2>5. att'[cur] = Passed(att[cur], "superseded") /\ att'[new] = first
          /\ \A a \in Attempts \ {cur, new} : att'[a] = att[a]
      BY <1>2, <2>1, <2>2, Leasing
    <2>6. att'[cur].status = "superseded" /\ att'[cur].version = att[cur].version + 1
      BY <2>5, Leasing DEF Passed, AttTypes
    <2>7. att'[new].status = "prepared" /\ att'[new].lease = 0
      BY <2>5
    <2>8. cur' = new /\ op'.state = "claimed"
      BY <1>2 DEF cur
    <2> HIDE DEF new, first
    <2>9. dis[new].status = "none"
      BY <1>2, <2>1 DEF LInv, TableInv, Unreserved
    <2>10. \A l \in Leases : res[l].status # "active"
      BY <1>2, NoneActive
    <2>11. TableInv'
      <3>1. OneActive' /\ EndsAlike'
        BY <1>0, <2>7, <2>8, <2>10 DEF OneActive, EndsAlike, Terminal
      <3>2. SameLease'
        BY <1>0, <2>8, <2>9 DEF SameLease, Live
      <3>3. Unreserved'
        BY <1>0, <2>1, <2>5, <2>6, <2>7, <2>8, <2>9 DEF LInv, TableInv, Unreserved
      <3>4. Uninterrupted'
        BY <1>0 DEF LInv, TableInv, Uninterrupted
      <3> QED BY <3>1, <3>2, <3>3, <3>4 DEF TableInv
    <2>12. ASSUME NEW k \in Actions PROVE Refers(act[k])' /\ Reserves(act[k])'
      <3>1. \A a \in Attempts : \/ att[a].status = "none"
                                \/ att'[a] = att[a]
                                \/ att'[a].version = att[a].version + 1 /\ att'[a].status # "none"
        BY <1>2, <2>5, <2>6 DEF new
      <3>2. Refers(act[k])'
        BY <2>4, <3>1, RefersStay
      <3>3. Reserves(act[k])'
        BY <2>7, <2>8 DEF Reserves
      <3> QED BY <3>2, <3>3
    <2>13. ~Stranded'
      BY <2>7, <2>8 DEF Stranded
    <2>14. ~Preparing
      BY <1>0 DEF Preparing, Runs, At, Unyielding
    <2>15. ASSUME NEW k \in Jobs \ {i} PROVE Reads(job[k])'
      <3>1. Reads(job[k]) /\ Enters(k, job[k]) /\ job'[k] = job[k]
        BY <2>4 DEF LInv, JobInv, Fits
      <3>2. ~(/\ job[k].pc \in Reading /\ job[k].lease # 0
              /\ dis[job[k].attempt].status = "none")
        <4>1. SUFFICES ASSUME job[k].pc \in Reading, job[k].lease # 0,
                              dis[job[k].attempt].status = "none"
                       PROVE  FALSE
          OBVIOUS
        <4>2. Stranded
          BY <1>2, <3>1, <4>1 DEF Reads, Stranded
        <4>3. job[k].pc \in Entering
          BY <4>1 DEF Reading, Entering
        <4> QED BY <1>2, <2>14, <3>1, <4>2, <4>3 DEF Enters
      <3> QED BY <1>0, <3>1, <3>2 DEF Reads
    <2>16. Fits(i)'
      BY <2>3, <2>4, <2>13 DEF Fits, Prepares, Reads, Enters, TakenUp, Entering, Reading
    <2> QED BY <1>0, <2>4, <2>11, <2>12, <2>13, <2>15, <2>16, RestFits DEF LInv, AskInv
  <1> QED BY <1>1, <1>2 DEF Retry

\* Every step of an action keeps LInv.
LEMMA ActionStepLease == ASSUME LInv, DInv', NEW i \in Actions, Runs(i), ActionStep(i) PROVE LInv'
  BY RecoverLease, ApplyCommandLease, ApplyBlockLease, ApplyFailLease, ApplyCallsLease, FenceLease,
     ApplyResumeLease, ResumeLease, RetryLease, CompleteApplicationLease DEF ActionStep

-----------------------------------------------------------------------------
(* Requests of people, the sweep, events, crashes, and the whole. *)

\* A retry is promised an attempt that does not exist yet.
LEMMA SubmitLease ==
    ASSUME LInv, DInv', NEW i \in Actions, NEW kind \in Kinds, NEW stale \in 0..1, Submit(i, kind, stale)
    PROVE  LInv'
  <1> DEFINE request == [NoAction EXCEPT !.state = "recorded", !.kind = kind, !.attempt = cur,
                                         !.lease = att[cur].lease, !.version = att[cur].version - stale]
             fresh == CASE kind = "resume" -> FreeLeases [] kind = "retry" -> FreshAttempts [] OTHER -> {0}
             x == [request EXCEPT !.fresh = Least(fresh), !.claimed = TRUE]
  <1>1. /\ UNCHANGED <<tables, todo>> /\ act' = [act EXCEPT ![i] = x]
        /\ job' = [job EXCEPT ![i] = Starts] /\ Free /\ fresh # {} /\ stale <= att[cur].version
    BY DEF Submit, Starts
  <1>2. i \in Jobs /\ i # Sweep /\ job'[i] = Starts /\ \A k \in Jobs \ {i} : job'[k] = job[k]
    BY <1>1, Numbers, Leasing
  <1>3. act'[i] = x /\ \A k \in Actions \ {i} : act'[k] = act[k]
    BY <1>1, Leasing
  <1>4. kind = "retry" => att[Least(fresh)].status = "none"
    <2>1. SUFFICES ASSUME kind = "retry" PROVE Least(fresh) \in FreshAttempts
      BY DEF FreshAttempts
    <2>2. fresh = FreshAttempts /\ fresh \subseteq Nat
      BY <2>1, Numbers DEF FreshAttempts
    <2> HIDE DEF fresh
    <2> QED BY <1>1, <2>2, LeastIn
  <1> HIDE DEF fresh
  <1>5. /\ x.kind = kind /\ x.attempt = cur /\ x.version = att[cur].version - stale
        /\ x.fresh = Least(fresh) /\ x.plan = "none"
    BY DEF NoAction
  <1> HIDE DEF x
  <1>6. Starts.pc = "recover"
    BY DEF Starts, NoJob
  <1>7. att[cur].status # "none" /\ cur \in Attempts /\ cur' = cur /\ UNCHANGED <<att, dis>>
    BY <1>1, Leasing DEF LInv, TableInv, Unreserved, tables, cur
  <1>8. Passing /\ Dispatching
    BY <1>1, TablesStay
  <1>9. ASSUME NEW k \in Actions PROVE Refers(act[k])' /\ Reserves(act[k])'
    <2>1. CASE k # i
      BY <1>3, <1>8, <2>1, AskPasses
    <2>2. CASE k = i
      <3> DEFINE v == att[cur].version
      <3>1. v \in Nat
        BY Leasing DEF AttTypes
      <3> HIDE DEF v
      <3>2. v - stale <= v
        BY <3>1
      <3>3. x.version <= att[cur].version
        BY <1>5, <3>2 DEF v
      <3> QED BY <1>3, <1>5, <1>7, <2>2, <3>3 DEF Refers, Reserves
    <2> QED BY <2>1, <2>2
  <1>10. Fits(i)'
    BY <1>2, <1>3, <1>4, <1>5, <1>6, <1>7 DEF Fits, Prepares, Reads, Enters, TakenUp, Entering, Reading
  <1>11. Runs(i) /\ ~At(i, "prepare")
    BY <1>1, <1>2 DEF Free, Runs, At, Unyielding
  <1> QED BY <1>1, <1>2, <1>3, <1>8, <1>9, <1>10, <1>11, JobMoves DEF AskInv

\* The start of a sweep keeps LInv.
LEMMA SweepStartLease == ASSUME LInv, DInv', Runs(Sweep), SweepStart PROVE LInv'
  <1>1. /\ Sweep \in Jobs /\ UNCHANGED <<op, att, res, todo>> /\ job[Sweep].pc \in Ended
        /\ Goes(Sweep, [NoJob EXCEPT !.pc = "due"])
    BY Numbers DEF SweepStart, Goes, NoCall, Still
  <1>2. Leaves(Sweep) /\ job[Sweep].pc \notin {"prepare", "awaiting"}
    BY <1>1, FinalPoint, GoesLeaves DEF Ended
  <1>3. ASSUME NEW a \in Attempts PROVE Waits(dis[a], dis'[a])
    <2> DEFINE e == [dis[a] EXCEPT !.status = "interrupted", !.intr = "lease_lost", !.payload = "none"]
    <2>1. e.status = "interrupted"
      BY Leasing DEF DisTypes
    <2>2. dis'[a] = dis[a] \/ (dis[a].status \in Live /\ dis'[a] = e)
      BY DEF SweepStart, Recoverable
    <2> HIDE DEF e
    <2> QED BY <2>1, <2>2 DEF Waits, Live
  <1> QED BY <1>1, <1>2, <1>3, LeasesStay, StepLeaves DEF Dispatching

\* expireDue: the sweep is not waiting for anybody, so nobody is on the way to
\* the dispatch of the attempt that it parks.
LEMMA SweepDueLease == ASSUME LInv, DInv', Runs(Sweep), SweepDue PROVE LInv'
  <1>1. /\ Sweep \in Jobs /\ job[Sweep].pc = "due" /\ dis' = dis /\ Goto(Sweep, "actions")
        /\ Release({l \in past : res[l].status = "active"}, "expired")
    BY Numbers DEF SweepDue, At
  <1>2. {l \in past : res[l].status = "active"} \subseteq {l \in Leases : res[l].status = "active"}
    BY DEF LInv, DInv
  <1>3. Passing
    BY <1>1, <1>2, ReleasePasses DEF At
  <1>4. Leaves(Sweep)
    BY <1>1, OnPoints, GotoLeaves
  <1> QED BY <1>1, <1>3, <1>4, DispatchesStay, JobLeaves DEF At

\* The next action of the sweep keeps LInv.
LEMMA SweepActionLease == ASSUME LInv, DInv', Runs(Sweep), SweepAction PROVE LInv'
  <1> DEFINE i == Least(todo)
  <1>1. Sweep \in Jobs /\ UNCHANGED tables /\ todo' = todo /\ job[Sweep].pc = "actions"
    BY Numbers DEF SweepAction, NoCall, Still, At
  <1>2. i \in Actions
    <2>1. todo \subseteq Actions /\ todo \subseteq Nat /\ todo # {}
      BY DEF LInv, DInv, SweepAction, Actions
    <2> QED BY <2>1, LeastIn
  <1>3. CASE Goto(Sweep, "awaiting") \/ Goto(Sweep, "aborted")
    <2>1. "awaiting" \notin Special /\ "aborted" \notin Special
      BY DEF Special, Entering
    <2> QED BY <1>1, <1>3, <2>1, StepStays
  <1>4. CASE /\ job' = [job EXCEPT ![Sweep].pc = "awaiting", ![i] = Starts]
             /\ act' = [act EXCEPT ![i].claimed = TRUE]
    <2> DEFINE s == [job[Sweep] EXCEPT !.pc = "awaiting"]
               x == [act[i] EXCEPT !.claimed = TRUE]
    <2>1. s.pc = "awaiting" /\ Starts.pc = "recover"
      BY <1>1, PointReached DEF Starts, NoJob
    <2>2. /\ x.kind = act[i].kind /\ x.attempt = act[i].attempt /\ x.version = act[i].version
          /\ x.fresh = act[i].fresh /\ x.plan = act[i].plan
      BY <1>2, Leasing DEF ActTypes
    <2>3. i \in Jobs /\ i # Sweep
      BY <1>2, Numbers
    <2>4. /\ job'[Sweep] = s /\ job'[i] = Starts
          /\ \A k \in Jobs \ {Sweep, i} : job'[k] = job[k]
      BY <1>1, <1>4, <2>3, Leasing
    <2>5. act'[i] = x /\ \A k \in Actions \ {i} : act'[k] = act[k]
      BY <1>2, <1>4, Leasing
    <2>6. job'[Sweep].pc = "awaiting" /\ Least(todo') = i
      BY <1>1, <2>1, <2>4
    <2> HIDE DEF s, x, i
    <2>7. Asks(Sweep) /\ Passing /\ Dispatching
      BY <1>1, <2>2, <2>5, TablesStay DEF Asks
    <2>8. ~Preparing
      BY <1>1 DEF Preparing, Runs, At, Unyielding
    <2>9. ASSUME NEW k \in Jobs PROVE Fits(k)'
      <3>1. CASE k = Sweep
        BY <2>1, <2>4, <3>1, OnPoints, FreeFits
      <3>2. CASE k = i
        <4>1. Awaited(k)' /\ job'[k].pc = "recover" /\ k \in Actions
          BY <1>2, <2>1, <2>4, <2>6, <3>2 DEF Awaited, At
        <4> QED BY <4>1 DEF Fits, Prepares, Reads, Enters, TakenUp, Entering, Reading
      <3>3. CASE k \notin {Sweep, i}
        <4>1. /\ job'[k] = job[k] /\ job[k].pc \notin Unyielding
              /\ k \in Actions => act'[k].plan = act[k].plan
          BY <2>4, <2>5, <3>3 DEF Runs
        <4> QED BY <1>1, <2>7, <2>8, <3>3, <4>1, StaysFit DEF At
      <3> QED BY <3>1, <3>2, <3>3
    <2>10. Alone'
      <3>1. \A k \in Jobs \ {i} : job'[k].pc \notin Unyielding
        BY <2>1, <2>4 DEF Runs, Unyielding
      <3> QED BY <3>1 DEF Alone
    <2> QED BY <2>7, <2>9, <2>10, TablesPass, AsksPass DEF LInv, JobInv
  <1> QED BY <1>3, <1>4 DEF SweepAction, Starts

\* The end of an action that the sweep awaited keeps LInv.
LEMMA SweepAwaitedLease == ASSUME LInv, DInv', Runs(Sweep), SweepAwaited PROVE LInv'
  <1> DEFINE i == Least(todo)
  <1>1. /\ Sweep \in Jobs /\ UNCHANGED tables /\ job[Sweep].pc = "awaiting"
        /\ job[i].pc \in Ended
    BY Numbers DEF SweepAwaited, At
  <1>2. Leaves(Sweep)
    <2>1. CASE Goto(Sweep, "aborted")
      <3>1. "aborted" \notin Special
        BY DEF Special, Entering
      <3> QED BY <1>1, <2>1, <3>1, GotoLeaves
    <2>2. CASE /\ job' = [job EXCEPT ![Sweep].pc = "actions"]
               /\ act' = [act EXCEPT ![i].claimed = FALSE]
      <3>1. ASSUME NEW k \in Actions
            PROVE  /\ act'[k].kind = act[k].kind /\ act'[k].attempt = act[k].attempt
                   /\ act'[k].version = act[k].version /\ act'[k].fresh = act[k].fresh
                   /\ act'[k].plan = act[k].plan
        <4>1. act'[k] = act[k] \/ act'[k] = [act[k] EXCEPT !.claimed = FALSE]
          BY <2>2, Leasing
        <4> QED BY <4>1, Leasing DEF ActTypes
      <3>2. job'[Sweep].pc = "actions" /\ \A k \in Jobs \ {Sweep} : job'[k] = job[k]
        BY <1>1, <2>2, Leasing DEF JobTypes
      <3> QED BY <3>1, <3>2, OnPoints DEF Leaves, Asks
    <2> QED BY <2>1, <2>2 DEF SweepAwaited
  <1> QED BY <1>1, <1>2, TablesStay, JobLeaves DEF At

\* The sweep that takes up the operation keeps LInv.
LEMMA SweepReentersLease == ASSUME LInv, DInv', Runs(Sweep), SweepReenters PROVE LInv'
  <1> DEFINE r == [job[Sweep] EXCEPT !.pc = "reenter"]
  <1>1. /\ Sweep \in Jobs /\ Sweep \notin Actions /\ UNCHANGED tables /\ todo' = todo
        /\ job[Sweep].pc = "actions" /\ Goes(Sweep, r)
    BY Numbers DEF SweepReenters, Goto, NoCall, Still, At
  <1>2. r.pc = "reenter"
    BY <1>1, PointReached
  <1> HIDE DEF r
  <1>3. job'[Sweep] = r
    BY <1>1, Leasing DEF Goes
  <1>4. Fits(Sweep)'
    BY <1>1, <1>2, <1>3 DEF Fits, Prepares, Reads, Enters, TakenUp, Entering, Reading
  <1> QED BY <1>1, <1>4, MovesOn

\* Every step of the sweep keeps LInv.
LEMMA SweepStepLease == ASSUME LInv, DInv', Runs(Sweep), SweepStep PROVE LInv'
  BY SweepStartLease, SweepDueLease, SweepActionLease, SweepAwaitedLease, SweepReentersLease DEF SweepStep

\* An event of a host: the dispatch goes on, and a write-back may start.
LEMMA EventLease ==
    ASSUME LInv, DInv', Free, UNCHANGED <<op, att, res, todo>>, Dispatching, Asks(Sweep),
           job' = job \/ \E r : r.pc \notin Special \cup Unyielding /\ job' = [job EXCEPT ![Ws(cur)] = r]
    PROVE  LInv'
  <1>1. Ws(cur) \in Jobs /\ Ws(cur) # Sweep /\ Sweep \in Jobs /\ Sweep \notin Actions
    BY Numbers, Leasing
  <1>2. \A k \in Jobs : job'[k] = job[k] \/ (k # Sweep /\ job'[k].pc \notin Special \cup Unyielding)
    BY <1>1, Leasing
  <1>3. \A k \in Actions : act'[k].plan = act[k].plan
    BY <1>1 DEF Asks
  <1>4. ~Preparing /\ ~At(Sweep, "due")
    BY <1>1 DEF Preparing, Free, At, Unyielding
  <1>5. Passing
    BY LeasesStay
  <1>6. ASSUME NEW k \in Jobs PROVE Fits(k)'
    <2>1. CASE job'[k].pc \notin Special
      BY <2>1, FreeFits
    <2>2. CASE job'[k] = job[k]
      <3>1. job[k].pc \notin Unyielding /\ job'[Sweep] = job[Sweep]
        BY <1>1, <1>2 DEF Free
      <3> QED BY <1>3, <1>4, <1>5, <2>2, <3>1, StaysFit
    <2> QED BY <1>2, <2>1, <2>2
  <1>7. Alone'
    BY <1>2 DEF Alone, Free
  <1> QED BY <1>5, <1>6, <1>7, TablesPass, AsksPass DEF LInv, JobInv

\* Settling the commands of an attempt leaves what was asked for.
LEMMA SettleAsks ==
    ASSUME LInv, NEW a, NEW kind, SettleCommands(a, kind)
    PROVE  Asks(Sweep)
  <1>1. ASSUME NEW k \in Actions
        PROVE  /\ act'[k].kind = act[k].kind /\ act'[k].attempt = act[k].attempt
               /\ act'[k].version = act[k].version /\ act'[k].fresh = act[k].fresh
               /\ act'[k].plan = act[k].plan
    <2>1. act'[k] = act[k] \/ act'[k] = [act[k] EXCEPT !.state = "settled"]
      BY DEF SettleCommands
    <2> QED BY <2>1, Leasing DEF ActTypes
  <1> QED BY <1>1 DEF Asks

\* Every event of the host keeps LInv.
LEMMA ServerEventLease == ASSUME LInv, DInv', ServerEvent PROVE LInv'
  <1> DEFINE a == Head(toServer).attempt
             t == Head(toServer).type
  <1>1. CASE ServerAccepted
    <2> DEFINE e == [dis[a] EXCEPT !.status = "running"]
    <2>1. UNCHANGED <<op, att, res, todo, job>> /\ Free /\ SettleCommands(a, "resume")
      BY <1>1 DEF ServerAccepted, EventReady
    <2>2. dis' = dis \/ (dis[a].status = "leased" /\ dis' = [dis EXCEPT ![a] = e])
      BY <1>1 DEF ServerAccepted
    <2>3. a \in Attempts => e.status = "running" /\ e.lease = dis[a].lease /\ e.intr = dis[a].intr
      BY Leasing DEF DisTypes
    <2> HIDE DEF e, a
    <2>4. Dispatching
      BY <2>2, <2>3, Leasing DEF Dispatching, Waits, Live
    <2> QED BY <2>1, <2>4, SettleAsks, EventLease
  <1>2. CASE ServerInterrupted
    <2> DEFINE e == [dis[a] EXCEPT !.status = "interrupted", !.intr = t]
    <2>1. UNCHANGED <<op, att, res, todo, job, act>> /\ Free
      BY <1>2 DEF ServerInterrupted, EventReady
    <2>2. dis' = dis \/ (dis[a].status \in Live /\ dis' = [dis EXCEPT ![a] = e])
      BY <1>2 DEF ServerInterrupted, Live
    <2>3. a \in Attempts => e.status = "interrupted"
      BY Leasing DEF DisTypes
    <2> HIDE DEF e, a
    <2>4. Dispatching
      BY <2>2, <2>3, Leasing DEF Dispatching, Waits, Live
    <2> QED BY <2>1, <2>4, EventLease DEF Asks
  <1>3. CASE ServerTerminal
    <2> DEFINE e == [dis[a] EXCEPT !.status = "awaiting_writeback", !.payload = t, !.intr = "none"]
               r == [NoJob EXCEPT !.pc = "write", !.outcome = dis'[a].payload]
    <2>1. /\ UNCHANGED <<op, att, res, todo>> /\ Free /\ SettleCommands(a, "cancel")
          /\ job' = job \/ (a = cur /\ job' = [job EXCEPT ![Ws(a)] = r])
      BY <1>3 DEF ServerTerminal, EventReady
    <2>2. dis' = dis \/ (dis[a].status # "none" /\ dis' = [dis EXCEPT ![a] = e])
      BY <1>3 DEF ServerTerminal, Current
    <2>3. a \in Attempts => e.status = "awaiting_writeback"
      BY Leasing DEF DisTypes
    <2>4. r.pc = "write"
      BY DEF NoJob
    <2>5. r.pc \notin Special \cup Unyielding
      BY <2>4 DEF Special, Entering, Unyielding
    <2> HIDE DEF e, a, r
    <2>6. Dispatching
      BY <2>2, <2>3, Leasing DEF Dispatching, Waits, Live
    <2> QED BY <2>1, <2>5, <2>6, SettleAsks, EventLease
  <1> QED BY <1>1, <1>2, <1>3 DEF ServerEvent

\* What hosts, clocks, edits and resets do: nothing here.
LEMMA IdleLease == ASSUME LInv, DInv', UNCHANGED <<tables, act, job, todo>> PROVE LInv'
  <1>1. UNCHANGED <<op, att, dis, res, act, job, todo>> /\ cur' = cur
    BY DEF tables, cur
  <1>2. TableInv' /\ AskInv'
    BY <1>1, TablesStay, TablesPass, AsksPass DEF Asks
  <1>3. ASSUME NEW k \in Jobs PROVE Fits(k)'
    <2>1. Prepares(job[k]) /\ Reads(job[k]) /\ Enters(k, job[k]) /\ TakenUp(k, job[k])
      BY DEF LInv, JobInv, Fits
    <2>2. Prepares(job[k])' /\ Reads(job[k])'
      BY <1>1, <2>1 DEF Prepares, Reads
    <2>3. (Stranded' => Stranded) /\ (Preparing => Preparing') /\ (Awaited(k) => Awaited(k)')
      BY <1>1 DEF Stranded, Preparing, Awaited, At
    <2>4. Enters(k, job[k])' /\ TakenUp(k, job[k])'
      BY <1>1, <2>1, <2>3 DEF Enters, TakenUp
    <2> QED BY <2>2, <2>4 DEF Fits
  <1>4. Alone'
    BY <1>1 DEF LInv, JobInv, Alone
  <1> QED BY <1>2, <1>3, <1>4 DEF LInv, JobInv

\* A stop of the server keeps LInv.
LEMMA CrashLease == ASSUME LInv, DInv', Crash PROVE LInv'
  <1>1. Dies /\ UNCHANGED tables
    BY DEF Crash
  <1>2. TableInv' /\ AskInv'
    BY <1>1, TablesStay, TablesPass, AsksPass DEF Asks, Dies
  <1> QED BY <1>1, <1>2, DiesFit DEF LInv

\* Every step keeps LInv.
LEMMA NextLease == ASSUME LInv, [Next]_dvars PROVE LInv'
  <1>0. DInv'
    BY NextGood DEF LInv, StepOK
  <1>1. CASE \E j \in Jobs : Runs(j) /\ JobStep(j)
    BY <1>0, <1>1, JobStepLease
  <1>2. CASE \E i \in Actions : Runs(i) /\ ActionStep(i)
    BY <1>0, <1>2, ActionStepLease
  <1>3. CASE Runs(Sweep) /\ SweepStep
    BY <1>0, <1>3, SweepStepLease
  <1>4. CASE \E i \in Actions : CrashInResume(i)
    BY <1>0, <1>4, CrashInResumeLease
  <1>5. CASE \E i \in Actions, kind \in Kinds, stale \in 0..1 : Submit(i, kind, stale)
    BY <1>0, <1>5, SubmitLease
  <1>6. CASE ServerEvent
    BY <1>0, <1>6, ServerEventLease
  <1>7. CASE Crash
    BY <1>0, <1>7, CrashLease
  <1>8. CASE \/ HostReceive \/ HostStep
             \/ \E a \in Attempts, kind \in {"resumable", "lease_lost"} : HostExpire(a, kind)
             \/ \E kind \in {"resumable", "manual"} : HostRestart(kind)
             \/ \E l \in Leases : Tick(l)
             \/ EditPackage \/ RuntimeReset
             \/ UNCHANGED dvars
    <2>1. UNCHANGED <<tables, act, job, todo>>
      BY <1>8 DEF HostReceive, HostStep, HostStart, HostFinish, HostExpire, HostRestart, Tick, EditPackage,
                  RuntimeReset, HostOnly, server, dvars
    <2> QED BY <1>0, <2>1, IdleLease
  <1> QED BY <1>1, <1>2, <1>3, <1>4, <1>5, <1>6, <1>7, <1>8 DEF Next

\* LInv holds of the operation that was claimed.
LEMMA InitLease == Init => LInv
  <1> SUFFICES ASSUME Init PROVE LInv
    OBVIOUS
  <1>1. DInv
    BY InitGood
  <1>2. /\ cur = 1 /\ 1 \in Attempts /\ op.state = "claimed"
        /\ \A a \in Attempts : /\ att[a].status = IF a = 1 THEN "prepared" ELSE "none"
                               /\ att[a].lease = 0 /\ dis[a].status = "none" /\ dis[a].intr = "none"
        /\ \A l \in Leases : res[l].status = "unused"
    BY Numbers DEF Init, cur
  <1>3. TableInv
    BY <1>2 DEF TableInv, OneActive, SameLease, EndsAlike, Unreserved, Uninterrupted, Live, Terminal
  <1>4. AskInv
    BY DEF Init, NoAction, AskInv, Refers, Reserves
  <1>5. \A k \in Jobs : job[k].pc = "idle"
    BY DEF Init, NoJob
  <1>6. JobInv
    BY <1>5 DEF JobInv, Alone, Unyielding, Fits, Prepares, Reads, Enters, TakenUp, Entering, Reading
  <1> QED BY <1>1, <1>3, <1>4, <1>6 DEF LInv

\* LInv is inductive.
THEOREM LInvariance == Spec => []LInv
  <1>1. LInv /\ [Next]_dvars => LInv'
    BY NextLease
  <1> QED BY <1>1, InitLease, PTL DEF Spec

\* Who may work is never in doubt: the one reservation that is active belongs to
\* the current attempt and is the lease that attempt has, and a dispatch that
\* waits for its host is under the same lease.  The server may stop between
\* the reservation and the dispatch, between the new lease of a resume and the
\* dispatch that it restores, and sweep, write-back, resume, retry and cancel
\* may interleave where the coordinator calls the runtime.
THEOREM LeasesAgree == Spec => []LeaseAuthority
  <1>1. LInv => LeaseAuthority
    BY DEF LInv, TableInv, OneActive, SameLease, LeaseAuthority
  <1> QED BY <1>1, LInvariance, PTL

-----------------------------------------------------------------------------
(* An operation that has ended. *)

\* Nothing of it is in use, and its attempt has ended with it.
LEMMA OverAll ==
    ASSUME LInv, op.state \in Terminal
    PROVE  /\ cur \in Attempts /\ att[cur].status = op.state
           /\ att[cur].status \notin Parked \cup {"awaiting_writeback", "reserved", "prepared"}
           /\ op.state \notin {"claimed", "reserved"}
           /\ \A l \in Leases : res[l].status # "active"
  BY Parts DEF LInv, TableInv, EndsAlike, Terminal, Parked

\* finalizeOperationTerminal finds no lease to release and no attempt to end.
LEMMA FinalizedAgain ==
    ASSUME LInv, op.state \in Terminal, NEW l \in {0} \cup Leases, NEW s,
           FinalizeError(l, s) = "none", Finalized(l, s)
    PROVE  op' = op
  <1>1. l \in Leases
    BY DEF FinalizeError
  <1> QED BY <1>1, OverAll DEF FinalizeError, Finalized

\* And so does every job that comes to it.
LEMMA FinalizesAgain ==
    ASSUME LInv, op.state \in Terminal, NEW j, NEW l \in {0} \cup Leases, NEW s, Finalizes(j, l, s)
    PROVE  op' = op
  BY FinalizedAgain DEF Finalizes

\* The leases that jobs and actions hold.
LEMMA LeasesHeld ==
    ASSUME LInv
    PROVE  /\ att[cur].lease \in {0} \cup Leases
           /\ \A j \in Jobs : job[j].lease \in {0} \cup Leases
           /\ \A i \in Actions : i \in Jobs /\ act[i].lease \in {0} \cup Leases
  BY Parts, JobTyped, ActionTyped DEF LInv, JobTypes, ActTypes

\* A write-back that comes late ends nothing.
LEMMA WritesFinal ==
    ASSUME LInv, op.state \in Terminal, NEW j \in Jobs, NEW outcome, Writes(j, outcome)
    PROVE  op' = op
  BY LeasesHeld, FinalizesAgain
     DEF Writes, WriteReplays, WriteCalls, WriteFinalizes, WriteRefuses, tables

\* forceFailedTerminal forces nothing.
LEMMA ForcesFinal ==
    ASSUME LInv, op.state \in Terminal, NEW j \in Jobs, Forces(j)
    PROVE  op' = op
  BY DEF Forces, ForceWithLease, ForceUnbound, tables

\* recoverRuntimeBindingReset cancels nothing that has ended.
LEMMA ResetFinal ==
    ASSUME LInv, op.state \in Terminal, NEW j \in Jobs, BindingReset(j)
    PROVE  op' = op
  <1>1. CASE ResetBeforeDispatch(j)
    <2>1. ~Unbound(job[j].attempt)
      BY OverAll DEF Unbound
    <2> QED BY <1>1, <2>1 DEF ResetBeforeDispatch
  <1>2. CASE ResetInterrupted(j)
    BY <1>2, LeasesHeld, FinalizesAgain DEF ResetInterrupted
  <1>3. CASE ResetOtherwise(j)
    BY <1>3 DEF ResetOtherwise, tables
  <1> QED BY <1>1, <1>2, <1>3 DEF BindingReset

\* No step of a job reopens or changes it.
LEMMA JobStepFinal ==
    ASSUME LInv, op.state \in Terminal, NEW j \in Jobs, JobStep(j)
    PROVE  op' = op
  <1>1. CASE Reenter(j)
    BY <1>1 DEF Reenter, ReenterEnds, ReenterFinalizes, ReenterDefers, ReenterAcquires, tables
  <1>2. CASE Acquired(j) \/ Write(j) \/ Persisted(j)
    BY <1>2, WritesFinal, LeasesHeld, FinalizesAgain DEF Acquired, Write, Persisted, tables
  <1>3. CASE ClaimRuntime(j) \/ ReconcileRuntime(j) \/ ActivateRuntime(j) \/ MarkRuntime(j)
             \/ CallComplete(j) \/ CallFail(j) \/ CallReject(j)
    BY <1>3 DEF ClaimRuntime, ReconcileRuntime, ActivateRuntime, MarkRuntime, CallComplete, CallFail,
                CallReject, tables
  <1>4. CASE Reserve(j) \/ Prepare(j)
    BY <1>4, OverAll DEF Reserve, Prepare
  <1>5. CASE Enqueue(j)
    BY <1>5, OverAll DEF Enqueue
  <1>6. CASE Finish(j) \/ Finalize(j)
    BY <1>6, LeasesHeld, FinalizesAgain DEF Finish, Finalize
  <1>7. CASE Seal(j) \/ ForceFailed(j)
    BY <1>7, ForcesFinal DEF Seal, ForceFailed, tables
  <1> QED BY <1>1, <1>2, <1>3, <1>4, <1>5, <1>6, <1>7, ResetFinal DEF JobStep

\* No action does: not a resume or a retry that was decided before.
LEMMA ActionStepFinal ==
    ASSUME LInv, op.state \in Terminal, NEW i \in Actions, ActionStep(i)
    PROVE  op' = op
  <1>1. CASE Recover(i)
    BY <1>1 DEF Recover, RecoverRetry, RecoverResume, RecoverCancel, RecoverBlock, RecoverFail, Decide, tables
  <1>2. CASE ApplyCommand(i) \/ ApplyFail(i) \/ ApplyLocal(i) \/ LocalBegins(i) \/ LocalFails(i)
             \/ ApplyResume(i) \/ ApplyRetry(i) \/ Check(i) \/ CompleteApplication(i)
    BY <1>2 DEF ApplyCommand, ApplyFail, ApplyLocal, LocalBegins, LocalFails, ApplyResume, ApplyRetry,
                Check, CompleteApplication, tables
  <1>3. CASE ApplyBlock(i)
    BY <1>3, OverAll DEF ApplyBlock, Parked
  <1>4. CASE Fence(i)
    BY <1>4, LeasesHeld, FinalizedAgain DEF Fence
  <1>5. CASE Resume(i)
    <2>1. ~TakesLease(i)
      BY OverAll DEF TakesLease, Parked
    <2> QED BY <1>5, <2>1 DEF Resume, tables
  <1>6. CASE Retry(i)
    BY <1>6, OverAll DEF Retry
  <1> QED BY <1>1, <1>2, <1>3, <1>4, <1>5, <1>6 DEF ActionStep

\* The sweep finds no lease of it that is due.
LEMMA SweepStepFinal == ASSUME LInv, op.state \in Terminal, SweepStep PROVE op' = op
  <1>1. CASE SweepDue
    <2> DEFINE ls == {l \in past : res[l].status = "active"}
    <2>1. ls = {}
      BY OverAll DEF LInv, DInv
    <2>2. Release(ls, "expired")
      BY <1>1 DEF SweepDue
    <2> HIDE DEF ls
    <2> QED BY <2>1, <2>2 DEF Release
  <1>2. CASE SweepStart \/ SweepAction \/ SweepAwaited \/ SweepReenters
    BY <1>2 DEF SweepStart, SweepAction, SweepAwaited, SweepReenters, tables
  <1> QED BY <1>1, <1>2 DEF SweepStep

\* No step changes an operation that has ended.
LEMMA NextFinal == ASSUME LInv, op.state \in Terminal, [Next]_dvars PROVE op' = op
  <1>1. CASE \E j \in Jobs : Runs(j) /\ JobStep(j)
    BY <1>1, JobStepFinal
  <1>2. CASE \E i \in Actions : Runs(i) /\ ActionStep(i)
    BY <1>2, ActionStepFinal
  <1>3. CASE Runs(Sweep) /\ SweepStep
    BY <1>3, SweepStepFinal
  <1>4. CASE \E i \in Actions : CrashInResume(i)
    BY <1>4, OverAll DEF CrashInResume, TakesLease, Parked
  <1>5. CASE \E i \in Actions, kind \in Kinds, stale \in 0..1 : Submit(i, kind, stale)
    BY <1>5 DEF Submit, tables
  <1>6. CASE ServerEvent
    BY <1>6 DEF ServerEvent, ServerAccepted, ServerInterrupted, ServerTerminal
  <1>7. CASE \/ HostReceive \/ HostStep
             \/ \E a \in Attempts, kind \in {"resumable", "lease_lost"} : HostExpire(a, kind)
             \/ \E kind \in {"resumable", "manual"} : HostRestart(kind)
             \/ \E l \in Leases : Tick(l)
             \/ Crash \/ EditPackage \/ RuntimeReset
             \/ UNCHANGED dvars
    BY <1>7 DEF HostReceive, HostStep, HostStart, HostFinish, HostExpire, HostRestart, Tick, Crash,
                EditPackage, RuntimeReset, HostOnly, tables, server, dvars
  <1> QED BY <1>1, <1>2, <1>3, <1>4, <1>5, <1>6, <1>7 DEF Next

\* For any number of attempts, leases, actions and faults: an operation that has
\* ended is not reopened and keeps its outcome, whatever write-back, expired
\* lease, resume, retry or recovered action still comes to it.
THEOREM EndsOnce == Spec => TerminalIsFinal
  <1>1. LInv /\ [Next]_dvars => [op.state \in Terminal => op' = op]_dvars
    BY NextFinal
  <1> QED BY <1>1, LInvariance, PTL DEF Spec, TerminalIsFinal
=============================================================================
