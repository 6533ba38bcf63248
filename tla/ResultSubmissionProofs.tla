----------------------- MODULE ResultSubmissionProofs -----------------------
(***************************************************************************)
(* The invariant of ResultSubmission and what follows from it.             *)
(***************************************************************************)
EXTENDS ResultSubmission, FiniteSetTheorems, TLAPS

\* The identity a submission of the block runs under.
ClaimId == IF st.owner # 0 THEN st.owner ELSE st.attempt

\* What the files of one run directory say of each other.
RunOK(v) ==
    /\ v.meta => v.dir
    /\ v.attempt # 0 => v.meta /\ v.attempt <= ids
    /\ v.hash # 0 => v.meta /\ v.report = v.hash
    /\ v.attempt # 0 /\ v.hash # 0 => v.promised = v.hash
    /\ v.attempt = 0 /\ v.hash = 0 => v.report = 0

RunInv == \A r \in Runs : RunOK(runs[r])

\* A run that state.json or index.json may name: a result, or the record of a
\* remote attempt.
Recorded(r) == runs[r].meta /\ (runs[r].hash # 0 \/ runs[r].attempt = 0)

\* What state.json and index.json say of the runs.
StateInv ==
    /\ st.attempt <= ids /\ st.owner <= ids
    /\ st.reserved # 0 => runs[st.reserved].attempt = st.attempt
    /\ st.last # 0 => Recorded(st.last)
    /\ st.status = "completed" => /\ st.last # 0
                                  /\ runs[st.last].hash # 0
                                  /\ index.latest \in {0, st.last}
    /\ index.latest # 0 => Recorded(index.latest)

\* The operation that holds the lock, against the state it works on.
Alone == \A s \in Runs : s # sub.run => runs[s].attempt # sub.id

HolderInv ==
    /\ sub.pc = "idle" => sub = Idle
    /\ sub.kind = "none" => sub.pc = "idle"
    /\ sub.kind \in {"local", "remote"} =>
        /\ sub.pc \in {"identify", "mkdir", "reserve", "bind", "report", "finish", "index",
                       "reindex", "commit"}
        /\ sub.id = ClaimId
        /\ sub.report # 0
        /\ sub.kind = "local" => st.owner = 0
        /\ sub.kind = "remote" => st.owner # 0
        /\ st.status = "completed" => sub.pc \in {"reindex", "commit"} /\ sub.run = st.last
        /\ sub.kind = "local" => st.status \in {"in_progress", "completed"}
    /\ sub.kind = "prepare" => sub.pc \in {"mkdir", "prepare"} /\ st.status = "in_progress"
    /\ sub.kind \in {"failure", "interruption"} =>
        sub.pc \in {"mkdir", "record", "point", "end"} /\ sub.id = st.owner /\ st.owner # 0

WriteInv ==
    /\ sub.id <= ids
    /\ sub.pc \in {"identify", "mkdir"} => sub.run = 0
    /\ sub.pc = "identify" => sub.id = 0
    /\ sub.pc \notin {"idle", "identify", "mkdir"} => sub.run # 0
    /\ sub.pc \in {"mkdir", "reserve", "bind", "report", "finish", "prepare"} => sub.id # 0
    /\ sub.pc = "mkdir" /\ sub.kind \in {"local", "remote", "prepare"} => Alone
    /\ sub.pc \in {"reserve", "prepare"} =>
        /\ Alone
        /\ runs[sub.run].dir /\ runs[sub.run].hash = 0
        /\ runs[sub.run].attempt = sub.id \/ ~runs[sub.run].meta
    /\ sub.pc = "prepare" => ~runs[sub.run].meta
    /\ sub.pc \in {"bind", "report", "finish"} =>
        /\ runs[sub.run].attempt = sub.id
        /\ runs[sub.run].promised = sub.report
        /\ runs[sub.run].hash = 0
    /\ sub.pc = "finish" => runs[sub.run].report = sub.report
    /\ sub.pc \in {"index", "reindex", "commit"} =>
        /\ runs[sub.run].hash # 0
        /\ st.status # "completed" => runs[sub.run].attempt = sub.id
    /\ sub.pc = "commit" => index.latest = sub.run
    /\ sub.pc = "record" => runs[sub.run].dir /\ ~runs[sub.run].meta
    /\ sub.pc \in {"point", "end"} => /\ runs[sub.run].meta
                                      /\ runs[sub.run].attempt = 0

\* What a step does to submitted results, and how it completes the block: the
\* bodies of SubmittedFixed and SubmittedByItsClaim.
Kept == \A r \in Runs : runs[r].hash # 0 => runs'[r].hash = runs[r].hash
                                        /\ runs'[r].report = runs[r].report
ByClaim == sub # Idle /\ st.status # "completed" /\ st'.status = "completed" =>
               RunOfClaim(st'.last)

SInv == SubmissionTypeOK /\ RunInv /\ OneRunPerAttempt /\ StateInv /\ HolderInv /\ WriteInv

-----------------------------------------------------------------------------
\* An absent field is always one of the values its type allows.
LEMMA Absent == 0 \in 0..MaxRuns /\ 0 \in 0..MaxIds /\ Runs \subseteq 0..MaxRuns
                /\ Ids \subseteq 0..MaxIds /\ 1 \in Runs
  BY SubmissionAssumption DEF Runs, Ids

\* The initial states: an untouched block and the two left by earlier versions.
LEMMA InitGood == Init => SInv
  <1> SUFFICES ASSUME Init PROVE SInv OBVIOUS
  <1> USE SubmissionAssumption, Absent
  <1>1. /\ index = [latest |-> 0, count |-> 0] /\ ids = 0 /\ sub = Idle
    BY DEF Init
  <1>2. FreshBlock \in BlockStates BY DEF FreshBlock, BlockStates
  <1>3. NoRun \in RunStates BY DEF NoRun, RunStates
  <1>4. CASE /\ st = FreshBlock \/ st = [FreshBlock EXCEPT !.status = "in_progress"]
             /\ runs = [r \in Runs |-> NoRun]
    <2>0. st.last = 0 BY <1>4 DEF FreshBlock
    <2>1. /\ st \in BlockStates /\ st.status # "completed"
          /\ st.attempt = 0 /\ st.reserved = 0 /\ st.owner = 0 /\ st.receipt = 0
      BY <1>4, <1>2 DEF FreshBlock, BlockStates
    <2>2. runs \in [Runs -> RunStates] BY <1>4, <1>3
    <2>3. \A r \in Runs : runs[r].attempt = 0 /\ runs[r].meta = FALSE /\ runs[r].hash = 0
                          /\ runs[r].report = 0
      BY <1>4 DEF NoRun
    <2>4. SubmissionTypeOK
      BY <1>1, <2>1, <2>2 DEF SubmissionTypeOK, Subs, Pcs, Kinds, Idle
    <2>5. RunInv /\ OneRunPerAttempt BY <2>3 DEF RunInv, RunOK, OneRunPerAttempt
    <2>6. StateInv BY <1>1, <2>1, <2>0 DEF StateInv
    <2>7. HolderInv /\ WriteInv BY <1>1 DEF HolderInv, WriteInv, Idle
    <2> QED BY <2>4, <2>5, <2>6, <2>7 DEF SInv
  <1>5. ASSUME NEW h \in Reports,
               st = [FreshBlock EXCEPT !.status = "completed", !.last = 1],
               runs = [r \in Runs |-> IF r # 1 THEN NoRun
                                      ELSE [NoRun EXCEPT !.dir = TRUE, !.meta = TRUE,
                                                         !.hash = h, !.report = h]],
               1 \in Runs
        PROVE  SInv
    <2> DEFINE old == [NoRun EXCEPT !.dir = TRUE, !.meta = TRUE, !.hash = h, !.report = h]
    <2>1. /\ st \in BlockStates /\ st.last = 1
          /\ st.attempt = 0 /\ st.reserved = 0 /\ st.owner = 0 /\ st.receipt = 0
      BY <1>5, <1>2 DEF FreshBlock, BlockStates
    <2>2. old \in RunStates /\ old.attempt = 0 /\ old.dir /\ old.meta
          /\ old.hash = h /\ old.report = h
      BY <1>3 DEF NoRun, RunStates
    <2> HIDE DEF old
    <2>3. runs = [r \in Runs |-> IF r # 1 THEN NoRun ELSE old] BY <1>5 DEF old
    <2>4. runs \in [Runs -> RunStates] BY <2>2, <2>3, <1>3
    <2>5. \A r \in Runs : runs[r] \in {NoRun, old} BY <2>3
    <2>6. runs[1] = old BY <2>3, <1>5
    <2>7. SubmissionTypeOK
      BY <1>1, <2>1, <2>4 DEF SubmissionTypeOK, Subs, Pcs, Kinds, Idle
    <2>8. NoRun.attempt = 0 /\ ~NoRun.meta /\ NoRun.hash = 0 /\ NoRun.report = 0
      BY DEF NoRun
    <2>9. RunInv /\ OneRunPerAttempt BY <2>2, <2>5, <2>8 DEF RunInv, RunOK, OneRunPerAttempt
    <2>10. StateInv BY <1>1, <2>1, <2>2, <2>6 DEF StateInv, Recorded
    <2>11. HolderInv /\ WriteInv BY <1>1 DEF HolderInv, WriteInv, Idle
    <2> QED BY <2>7, <2>9, <2>10, <2>11 DEF SInv
  <1> QED BY <1>4, <1>5, Absent DEF Init

\* An operation that only writes state.json preserves the invariant if the
\* block it writes is well formed, keeps or clears the reservation together
\* with its attempt, and is not newly completed.
LEMMA AtomicGood ==
    ASSUME SInv, sub = Idle, UNCHANGED <<runs, index, sub>>,
           ids' \in {ids, ids + 1}, ids' \in 0..MaxIds,
           st' \in BlockStates,
           st'.attempt <= ids', st'.owner <= ids',
           st'.reserved = 0 \/ (st'.reserved = st.reserved /\ st'.attempt = st.attempt),
           st'.owner # 0 => st'.status \in {"in_progress", "diverged"},
           st'.receipt # 0 => st'.status \in {"completed", "blocked"},
           st'.last = st.last,
           st'.status = "completed" => st.status = "completed"
    PROVE  SInv' /\ Kept /\ ByClaim
  <1> USE SubmissionAssumption DEF SInv, Runs
  <1>1. SubmissionTypeOK' BY DEF SubmissionTypeOK, BlockStates
  <1>2. RunInv' BY DEF RunInv, RunOK, SubmissionTypeOK, RunStates
  <1>3. OneRunPerAttempt' BY DEF OneRunPerAttempt
  <1>4. StateInv' BY DEF StateInv, Recorded, SubmissionTypeOK, BlockStates
  <1>5. HolderInv' BY DEF HolderInv, Idle
  <1>6. WriteInv' BY DEF WriteInv, Idle
  <1>7. Kept /\ ByClaim BY DEF Kept, ByClaim
  <1> QED BY <1>1, <1>2, <1>3, <1>4, <1>5, <1>6, <1>7

\* Claims, and the transitions between the phases of a remote attempt.
LEMMA ClaimsGood ==
    ASSUME SInv, ClaimLocal \/ ClaimRemote \/ InterruptRemote \/ ResumeRemote \/ RetryRemote
    PROVE  SInv' /\ Kept /\ ByClaim
  <1> USE SubmissionAssumption, Absent
  <1>0. /\ st \in BlockStates /\ ids \in 0..MaxIds /\ st.attempt <= ids /\ st.owner <= ids
        /\ st.owner # 0 => st.status \in {"in_progress", "diverged"}
        /\ st.receipt # 0 => st.status \in {"completed", "blocked"}
    BY DEF SInv, SubmissionTypeOK, StateInv
  <1> DEFINE fresh == ids + 1
  <1>1. CASE ClaimLocal
    <2>1. /\ sub = Idle /\ UNCHANGED <<runs, index, sub>>
          /\ ids' = fresh /\ fresh \in 0..MaxIds /\ st.status = "ready"
          /\ st' = [st EXCEPT !.status = "in_progress", !.attempt = fresh, !.reserved = 0]
      BY <1>0, <1>1 DEF ClaimLocal, ClaimedBlock, Atomically, WriteState
    <2> HIDE DEF fresh
    <2>2. /\ st' \in BlockStates /\ st'.status = "in_progress" /\ st'.attempt = fresh
          /\ st'.reserved = 0 /\ st'.owner = st.owner /\ st'.receipt = st.receipt
          /\ st'.last = st.last
      BY <2>1, <1>0 DEF BlockStates
    <2> QED BY <2>1, <2>2, <1>0, AtomicGood DEF fresh, BlockStates
  <1>2. CASE ClaimRemote \/ RetryRemote
    <2>1. /\ sub = Idle /\ UNCHANGED <<runs, index, sub>>
          /\ ids' = fresh /\ fresh \in 0..MaxIds /\ st.status \in {"ready", "diverged"}
          /\ \/ st' = [st EXCEPT !.status = "in_progress", !.owner = fresh]
             \/ st' = [st EXCEPT !.status = "in_progress", !.intr = "none", !.owner = fresh]
      BY <1>0, <1>2 DEF ClaimRemote, RetryRemote, Atomically, WriteState
    <2> HIDE DEF fresh
    <2>2. /\ st' \in BlockStates /\ st'.status = "in_progress" /\ st'.attempt = st.attempt
          /\ st'.reserved = st.reserved /\ st'.owner = fresh /\ st'.receipt = st.receipt
          /\ st'.last = st.last
      BY <2>1, <1>0 DEF BlockStates
    <2> QED BY <2>1, <2>2, <1>0, AtomicGood DEF fresh, BlockStates
  <1>3. CASE InterruptRemote \/ ResumeRemote
    <2>1. /\ sub = Idle /\ UNCHANGED <<runs, index, sub, ids>>
          /\ st.status \in {"in_progress", "diverged"}
          /\ \/ st' = [st EXCEPT !.status = "diverged", !.intr = "resumable"]
             \/ st' = [st EXCEPT !.status = "in_progress", !.intr = "none"]
      BY <1>3 DEF InterruptRemote, ResumeRemote, Atomically, WriteState
    <2>2. /\ st' \in BlockStates /\ st'.status \in {"in_progress", "diverged"}
          /\ st'.attempt = st.attempt /\ st'.reserved = st.reserved
          /\ st'.owner = st.owner /\ st'.receipt = st.receipt /\ st'.last = st.last
      BY <2>1, <1>0 DEF BlockStates
    <2> QED BY <2>1, <2>2, <1>0, AtomicGood DEF BlockStates
  <1> QED BY <1>1, <1>2, <1>3

\* The operator's overrides, and the drift of the source evidence.
LEMMA OverridesGood ==
    ASSUME SInv,
           \/ MarkBlocked \/ MarkDiverged \/ Reopen \/ Release
           \/ \E id \in Ids : SourceDrift(id)
    PROVE  SInv' /\ Kept /\ ByClaim
  <1> USE SubmissionAssumption, Absent
  <1>0. /\ st \in BlockStates /\ ids \in 0..MaxIds /\ st.attempt <= ids /\ st.owner <= ids
        /\ st.receipt # 0 => st.status \in {"completed", "blocked"}
        /\ st.owner # 0 => st.status \in {"in_progress", "diverged"}
    BY DEF SInv, SubmissionTypeOK, StateInv
  <1>1. CASE MarkBlocked \/ Reopen \/ Release
    <2>1. /\ sub = Idle /\ UNCHANGED <<runs, index, sub, ids>>
          /\ st' = Without(st, "blocked") \/ st' = Without(st, "ready")
      BY <1>1 DEF MarkBlocked, Reopen, Release, Atomically, WriteState
    <2>2. /\ st' \in BlockStates /\ st'.status \in {"blocked", "ready"}
          /\ st'.attempt = st.attempt /\ st'.reserved = st.reserved
          /\ st'.owner = 0 /\ st'.receipt = 0 /\ st'.last = st.last
      <3>1. PICK status \in {"blocked", "ready"} :
              st' = [st EXCEPT !.status = status, !.owner = 0, !.intr = "none", !.receipt = 0]
        BY <2>1 DEF Without
      <3>2. 0 \in 0..MaxIds /\ 0 \in 0..MaxRuns
        OBVIOUS
      <3>3. st' \in BlockStates
        BY <3>1, <3>2, <1>0 DEF BlockStates
      <3>4. st'.status = status /\ st'.owner = 0 /\ st'.receipt = 0
        BY <3>1, <1>0 DEF BlockStates
      <3> QED BY <3>1, <3>3, <3>4, <1>0 DEF BlockStates
    <2> QED BY <2>1, <2>2, <1>0, AtomicGood
  <1>2. CASE MarkDiverged \/ \E id \in Ids : SourceDrift(id)
    <2>1. /\ sub = Idle /\ UNCHANGED <<runs, index, sub, ids>>
          /\ \/ st' = [st EXCEPT !.status = "diverged", !.intr = "none", !.receipt = 0]
             \/ st' = [st EXCEPT !.status = "diverged", !.intr = "none"] /\ st.owner # 0
      BY <1>2 DEF MarkDiverged, SourceDrift, Atomically, WriteState, Ids
    <2>2. /\ st' \in BlockStates /\ st'.status = "diverged"
          /\ st'.attempt = st.attempt /\ st'.reserved = st.reserved
          /\ st'.owner = st.owner /\ (st'.receipt = 0 \/ (st'.receipt = st.receipt /\ st.owner # 0))
          /\ st'.last = st.last
      BY <2>1, <1>0 DEF BlockStates
    <2> QED BY <2>1, <2>2, <1>0, AtomicGood
  <1> QED BY <1>1, <1>2

-----------------------------------------------------------------------------
\* A step that only moves the holder of the lock.
LEMMA HolderGood ==
    ASSUME SInv, UNCHANGED <<st, runs, index, ids>>, sub' \in Subs, HolderInv', WriteInv'
    PROVE  SInv' /\ Kept /\ ByClaim
  <1>1. SubmissionTypeOK' BY DEF SInv, SubmissionTypeOK
  <1>2. RunInv' /\ OneRunPerAttempt' BY DEF SInv, RunInv, RunOK, OneRunPerAttempt
  <1>3. StateInv' BY DEF SInv, StateInv, Recorded
  <1>4. Kept /\ ByClaim BY DEF Kept, ByClaim
  <1> QED BY <1>1, <1>2, <1>3, <1>4 DEF SInv

\* A step that writes one run directory which neither state.json nor index.json
\* names, and keeps the attempt if the run has one.
LEMMA RunGood ==
    ASSUME SInv, UNCHANGED <<st, index, ids>>, sub' \in Subs,
           NEW r \in Runs, NEW v \in RunStates, runs' = [runs EXCEPT ![r] = v],
           ~Recorded(r), RunOK(v),
           runs[r].attempt # 0 => v.attempt = runs[r].attempt,
           v.attempt # 0 => \A s \in Runs : s # r => runs[s].attempt # v.attempt
    PROVE  /\ SubmissionTypeOK' /\ RunInv' /\ OneRunPerAttempt' /\ StateInv'
           /\ Kept /\ ByClaim
           /\ runs'[r] = v /\ \A s \in Runs : s # r => runs'[s] = runs[s]
  <1> USE SubmissionAssumption, Absent
  <1>1. /\ runs \in [Runs -> RunStates] /\ st \in BlockStates
        /\ index \in [latest : 0..MaxRuns, count : Nat]
        /\ st.reserved # 0 => st.attempt # 0
    BY DEF SInv, SubmissionTypeOK
  <1>2. runs'[r] = v /\ \A s \in Runs : s # r => runs'[s] = runs[s] BY <1>1
  <1>3. SubmissionTypeOK' BY <1>1 DEF SInv, SubmissionTypeOK
  <1>4. RunInv' BY <1>2 DEF SInv, RunInv, RunOK
  <1>5. OneRunPerAttempt' BY <1>2 DEF SInv, OneRunPerAttempt
  <1>6. \A s \in Runs : Recorded(s) => runs'[s] = runs[s] BY <1>2
  <1>7. st.reserved \in 0..MaxRuns /\ st.last \in 0..MaxRuns /\ index.latest \in 0..MaxRuns
    BY <1>1 DEF BlockStates
  <1>8. st.last # 0 => st.last \in Runs /\ Recorded(st.last) /\ runs'[st.last] = runs[st.last]
    BY <1>6, <1>7 DEF SInv, StateInv, Runs
  <1>9. index.latest # 0 => /\ index.latest \in Runs /\ Recorded(index.latest)
                            /\ runs'[index.latest] = runs[index.latest]
    BY <1>6, <1>7 DEF SInv, StateInv, Runs
  <1>10. st.reserved # 0 => runs'[st.reserved].attempt = st.attempt
    BY <1>1, <1>2, <1>7 DEF SInv, StateInv, Runs
  <1>11. StateInv' BY <1>8, <1>9, <1>10 DEF SInv, StateInv, Recorded
  <1>12. Kept BY <1>2 DEF SInv, RunInv, RunOK, Recorded, Kept
  <1>13. ByClaim BY DEF ByClaim
  <1> QED BY <1>2, <1>3, <1>4, <1>5, <1>11, <1>12, <1>13

-----------------------------------------------------------------------------
\* The run a submission of a block that is not completed resolves to belongs
\* to its attempt, whether it was reserved, named or found on disk.
LEMMA FoundRun ==
    ASSUME SInv, NEW a \in 0..MaxIds, NEW explicit \in 0..MaxRuns,
           explicit # 0 => runs[explicit].attempt = a /\ a # 0,
           st.status # "completed",
           NEW r \in Candidates(a, explicit), r \in Runs
    PROVE  a # 0 /\ runs[r].attempt = a /\ runs[r].meta /\ runs[r].dir
  <1>1. a # 0 /\ runs[r].attempt = a
    <2>1. CASE explicit # 0 BY <2>1 DEF Candidates
    <2>2. CASE explicit = 0 /\ ReservedRun(a) # 0
      BY <2>2 DEF Candidates, ReservedRun, SInv, SubmissionTypeOK, StateInv
    <2>3. CASE explicit = 0 /\ ReservedRun(a) = 0
      BY <2>3 DEF Candidates, FindAttemptRun
    <2> QED BY <2>1, <2>2, <2>3
  <1> QED BY <1>1 DEF SInv, RunInv, RunOK

\* If it resolves to none, no run on disk belongs to the attempt.
LEMMA NoRunFound ==
    ASSUME SInv, NEW a, a # 0, Candidates(a, 0) = {}
    PROVE  \A s \in Runs : runs[s].attempt # a
  <1>1. FindAttemptRun(a) = {} BY DEF Candidates
  <1> QED BY <1>1 DEF FindAttemptRun, SInv, RunInv, RunOK

\* The start of a submission, local or remote.
LEMMA StartGood ==
    ASSUME SInv, sub = Idle, UNCHANGED <<st, runs, index, ids>>,
           NEW kind \in {"local", "remote"}, NEW a \in 0..MaxIds, a = ClaimId,
           kind = "local" => st.owner = 0 /\ st.status \in {"in_progress", "completed"},
           kind = "remote" => st.owner # 0,
           NEW explicit \in 0..MaxRuns,
           explicit # 0 => runs[explicit].attempt = a /\ a # 0,
           NEW h \in Reports, NEW found \in SUBSET Runs, NEW local,
           Resolves(found, local, a, h, explicit), Start(kind, a, h, found)
    PROVE  SInv' /\ Kept /\ ByClaim
  <1> USE SubmissionAssumption, Absent
  <1>0. /\ a <= ids /\ h # 0 /\ found = Candidates(a, explicit)
        /\ st.status = "completed" => found = {st.last}
        /\ runs \in [Runs -> RunStates]
    BY DEF SInv, StateInv, SubmissionTypeOK, ClaimId, Resolves
  <1>1. CASE found = {} /\ sub' = [pc |-> FirstWrite(a, 0), kind |-> kind, id |-> a,
                                   report |-> h, run |-> 0]
    <2>1. explicit = 0 /\ st.status # "completed" BY <1>0, <1>1 DEF Candidates
    <2>2. a # 0 => \A s \in Runs : runs[s].attempt # a BY <1>0, <1>1, <2>1, NoRunFound
    <2>3. FirstWrite(a, 0) = IF a = 0 THEN "identify" ELSE "mkdir" BY DEF FirstWrite
    <2>4. sub' \in Subs BY <1>1, <2>3 DEF Subs, Pcs, Kinds
    <2>5. /\ sub'.pc = (IF a = 0 THEN "identify" ELSE "mkdir")
          /\ sub'.kind = kind /\ sub'.id = a /\ sub'.report = h /\ sub'.run = 0
      BY <1>1, <2>3
    <2>6. HolderInv' BY <1>0, <2>1, <2>5 DEF HolderInv, ClaimId
    <2>7. WriteInv' BY <1>0, <2>2, <2>5 DEF WriteInv, Alone
    <2> QED BY <2>4, <2>6, <2>7, HolderGood
  <1>2. ASSUME NEW r \in found, HasSubmittedResult(r, h),
               sub' = [pc |-> "reindex", kind |-> kind, id |-> a, report |-> h, run |-> r]
        PROVE  SInv' /\ Kept /\ ByClaim
    <2>1. r \in Runs /\ r # 0 /\ r \in 0..MaxRuns BY DEF Runs
    <2>2. runs[r].hash = h BY <1>2 DEF HasSubmittedResult
    <2>3. st.status # "completed" => runs[r].attempt = a BY <1>0, <2>1, FoundRun
    <2>4. sub' \in Subs BY <1>2, <2>1 DEF Subs, Pcs, Kinds
    <2>5. /\ sub'.pc = "reindex" /\ sub'.kind = kind /\ sub'.id = a /\ sub'.report = h
          /\ sub'.run = r
      BY <1>2
    <2>6. HolderInv' BY <1>0, <2>5 DEF HolderInv, ClaimId
    <2>7. WriteInv' BY <1>0, <2>1, <2>2, <2>3, <2>5 DEF WriteInv
    <2> QED BY <2>4, <2>6, <2>7, HolderGood
  <1>3. ASSUME NEW r \in found, ~HasSubmittedResult(r, h), st.status # "completed",
               sub' = [pc |-> FirstWrite(a, r), kind |-> kind, id |-> a, report |-> h,
                       run |-> r]
        PROVE  SInv' /\ Kept /\ ByClaim
    <2>1. r \in Runs /\ r # 0 /\ r \in 0..MaxRuns BY DEF Runs
    <2>2. a # 0 /\ runs[r].attempt = a /\ runs[r].meta /\ runs[r].dir
      BY <1>0, <1>3, <2>1, FoundRun
    <2>3. FirstWrite(a, r) = "reserve" BY <2>1, <2>2 DEF FirstWrite
    <2>4. runs[r].hash = 0
      BY <1>3, <2>1, <2>2 DEF Resolves, ReportConflicts, HasSubmittedResult, SInv, RunInv, RunOK
    <2>5. \A s \in Runs : s # r => runs[s].attempt # a
      BY <2>1, <2>2 DEF SInv, OneRunPerAttempt
    <2>6. sub' \in Subs BY <1>3, <2>1, <2>3 DEF Subs, Pcs, Kinds
    <2>7. /\ sub'.pc = "reserve" /\ sub'.kind = kind /\ sub'.id = a /\ sub'.report = h
          /\ sub'.run = r
      BY <1>3, <2>3
    <2>8. HolderInv' BY <1>0, <1>3, <2>7 DEF HolderInv, ClaimId
    <2>9. WriteInv' BY <1>0, <2>1, <2>2, <2>4, <2>5, <2>7 DEF WriteInv, Alone
    <2> QED BY <2>6, <2>8, <2>9, HolderGood
  <1>4. kind = "remote" => st.status # "completed" BY DEF SInv, SubmissionTypeOK
  <1>5. CASE found = {} BY <1>1, <1>5 DEF Start
  <1>6. CASE found # {}
    <2>1. PICK r \in found :
            IF HasSubmittedResult(r, h)
            THEN sub' = [pc |-> "reindex", kind |-> kind, id |-> a, report |-> h, run |-> r]
            ELSE /\ kind = "local" => st.status = "in_progress"
                 /\ sub' = [pc |-> FirstWrite(a, r), kind |-> kind, id |-> a, report |-> h,
                            run |-> r]
      BY <1>6 DEF Start
    <2>2. CASE HasSubmittedResult(r, h) BY <2>1, <2>2, <1>2
    <2>3. CASE ~HasSubmittedResult(r, h) BY <2>1, <2>3, <1>3, <1>4
    <2> QED BY <2>2, <2>3
  <1> QED BY <1>5, <1>6

\* The three callers of submitBlockResultArtifact.
LEMMA SubmitGood ==
    ASSUME SInv, NEW h \in Reports,
           \/ SubmitFromCommandLine(h)
           \/ \E r \in Runs : SubmitFromExecutor(h, r)
           \/ \E id \in Ids : SubmitRemote(id, h)
    PROVE  SInv' /\ Kept /\ ByClaim
  <1> USE SubmissionAssumption, Absent
  <1>0. st \in BlockStates /\ st.attempt \in 0..MaxIds BY DEF SInv, SubmissionTypeOK, BlockStates
  <1>1. ASSUME NEW explicit \in 0..MaxRuns, NEW captured, SubmitLocal(h, explicit, captured),
               explicit # 0 => runs[explicit].attempt = st.attempt /\ st.attempt # 0
        PROVE  SInv' /\ Kept /\ ByClaim
    <2>1. PICK found \in SUBSET Runs : /\ Resolves(found, TRUE, st.attempt, h, explicit)
                                       /\ Start("local", st.attempt, h, found)
      BY <1>1 DEF SubmitLocal
    <2>2. /\ sub = Idle /\ UNCHANGED <<st, runs, index, ids>> /\ st.owner = 0
          /\ st.status \in {"in_progress", "completed"}
      BY <1>1 DEF SubmitLocal, LocalMayComplete
    <2>3. st.attempt = ClaimId BY <2>2 DEF ClaimId
    <2> QED BY <1>0, <1>1, <2>1, <2>2, <2>3, StartGood
  <1>2. CASE SubmitFromCommandLine(h) BY <1>1, <1>2 DEF SubmitFromCommandLine
  <1>3. ASSUME NEW r \in Runs, SubmitFromExecutor(h, r)
        PROVE  SInv' /\ Kept /\ ByClaim
    <2>1. SubmitLocal(h, r, runs[r].attempt) /\ runs[r].attempt # 0
      BY <1>3 DEF SubmitFromExecutor
    <2>2. runs[r].attempt = st.attempt BY <2>1 DEF SubmitLocal
    <2> QED BY <1>1, <2>1, <2>2
  <1>4. ASSUME NEW id \in Ids, SubmitRemote(id, h)
        PROVE  SInv' /\ Kept /\ ByClaim
    <2>1. PICK found \in SUBSET Runs : Resolves(found, FALSE, id, h, 0)
                                       /\ Start("remote", id, h, found)
      BY <1>4 DEF SubmitRemote
    <2>2. /\ sub = Idle /\ UNCHANGED <<st, runs, index, ids>> /\ st.owner = id
          /\ id # 0 /\ id \in 0..MaxIds
      BY <1>4 DEF SubmitRemote, RemoteMayComplete, Ids
    <2>3. id = ClaimId BY <2>2 DEF ClaimId
    <2> QED BY <2>1, <2>2, <2>3, StartGood
  <1> QED BY <1>2, <1>3, <1>4

-----------------------------------------------------------------------------
\* Identify: the attempt is new, so no run on disk has it.
LEMMA IdentifyGood ==
    ASSUME SInv, Identify
    PROVE  SInv' /\ Kept /\ ByClaim
  <1> USE SubmissionAssumption, Absent
  <1> DEFINE fresh == ids + 1
  <1>0. /\ st \in BlockStates /\ runs \in [Runs -> RunStates] /\ ids \in 0..MaxIds
        /\ sub \in Subs /\ sub.pc = "identify" /\ sub.run = 0 /\ sub.id = 0
        /\ sub.kind \in Kinds
    BY DEF SInv, SubmissionTypeOK, WriteInv, Identify, Subs
  <1>1. /\ fresh \in 0..MaxIds /\ fresh # 0 /\ ids' = fresh /\ UNCHANGED <<runs, index>>
        /\ st' = [st EXCEPT !.attempt = fresh]
        /\ sub' = [sub EXCEPT !.id = fresh, !.pc = FirstWrite(fresh, sub.run)]
    BY <1>0 DEF Identify, WriteState
  <1>2. \A n \in 0..ids : n <= fresh /\ n # fresh BY <1>0
  <1> HIDE DEF fresh
  <1>3. /\ sub.kind = "local" /\ st.owner = 0 /\ st.attempt = 0 /\ st.reserved = 0
        /\ st.status = "in_progress" /\ sub.report # 0
    BY <1>0 DEF SInv, HolderInv, ClaimId, SubmissionTypeOK, Kinds
  <1>4. /\ st' \in BlockStates /\ st'.attempt = fresh /\ st'.status = st.status
        /\ st'.owner = st.owner /\ st'.reserved = st.reserved /\ st'.last = st.last
        /\ st'.receipt = st.receipt
    BY <1>0, <1>1 DEF BlockStates
  <1>5. FirstWrite(fresh, sub.run) = "mkdir" BY <1>0, <1>1 DEF FirstWrite
  <1>6. /\ sub' \in Subs /\ sub'.pc = "mkdir" /\ sub'.kind = "local" /\ sub'.id = fresh
        /\ sub'.run = 0 /\ sub'.report = sub.report
    BY <1>0, <1>1, <1>3, <1>5 DEF Subs, Pcs
  <1>7. SubmissionTypeOK' BY <1>1, <1>3, <1>4, <1>6 DEF SInv, SubmissionTypeOK
  <1>8. \A r \in Runs : runs[r].attempt \in 0..MaxIds BY <1>0 DEF RunStates
  <1>9. \A r \in Runs : runs[r].attempt <= fresh /\ runs[r].attempt # fresh
    BY <1>0, <1>1, <1>2, <1>8 DEF SInv, RunInv, RunOK
  <1>10. RunInv' BY <1>1, <1>9 DEF SInv, RunInv, RunOK
  <1>11. OneRunPerAttempt' BY <1>1 DEF SInv, OneRunPerAttempt
  <1>12. StateInv' BY <1>0, <1>1, <1>3, <1>4 DEF SInv, StateInv, Recorded
  <1>13. HolderInv' BY <1>3, <1>4, <1>6 DEF HolderInv, ClaimId
  <1>14. WriteInv' BY <1>1, <1>6, <1>9 DEF WriteInv, Alone
  <1>15. Kept /\ ByClaim BY <1>1, <1>3, <1>4 DEF Kept, ByClaim
  <1> QED BY <1>7, <1>10, <1>11, <1>12, <1>13, <1>14, <1>15 DEF SInv

\* A new directory, which an operation of every kind makes: it is empty.
LEMMA MakeRunDirectoryGood ==
    ASSUME SInv, MakeRunDirectory
    PROVE  SInv' /\ Kept /\ ByClaim
  <1> USE SubmissionAssumption, Absent
  <1>0. /\ runs \in [Runs -> RunStates] /\ sub \in Subs
        /\ sub.pc = "mkdir" /\ sub.run = 0 /\ sub.id # 0 /\ sub.kind \in Kinds \ {"none"}
    BY DEF SInv, SubmissionTypeOK, WriteInv, HolderInv, MakeRunDirectory, Subs, Kinds
  <1> DEFINE v == [NoRun EXCEPT !.dir = TRUE]
  <1>1. PICK r \in Runs : /\ ~runs[r].dir /\ runs' = [runs EXCEPT ![r] = v]
                          /\ sub' = [sub EXCEPT !.run = r, !.pc = AfterMkdir(sub.kind)]
    BY <1>0 DEF MakeRunDirectory, Allocates, Free, WriteRun
  <1>2. UNCHANGED <<st, index, ids>> BY DEF MakeRunDirectory, WriteRun
  <1>3. /\ NoRun \in RunStates /\ v \in RunStates /\ v.dir /\ ~v.meta /\ v.attempt = 0
        /\ v.hash = 0 /\ v.report = 0
    BY DEF NoRun, RunStates
  <1> HIDE DEF v
  <1>4. ~Recorded(r) /\ runs[r].attempt = 0
    BY <1>1 DEF Recorded, SInv, RunInv, RunOK
  <1>5. /\ AfterMkdir(sub.kind) \in {"reserve", "prepare", "record"}
        /\ sub.kind \in {"local", "remote"} => AfterMkdir(sub.kind) = "reserve"
        /\ sub.kind = "prepare" => AfterMkdir(sub.kind) = "prepare"
        /\ sub.kind \in {"failure", "interruption"} => AfterMkdir(sub.kind) = "record"
    BY <1>0 DEF AfterMkdir, Kinds
  <1>6. /\ sub' \in Subs /\ sub'.pc = AfterMkdir(sub.kind) /\ sub'.kind = sub.kind
        /\ sub'.id = sub.id /\ sub'.run = r /\ sub'.report = sub.report
    BY <1>0, <1>1, <1>5 DEF Subs, Pcs
  <1>7. RunOK(v) BY <1>3 DEF RunOK
  <1>8. /\ SubmissionTypeOK' /\ RunInv' /\ OneRunPerAttempt' /\ StateInv'
        /\ Kept /\ ByClaim
        /\ runs'[r] = v /\ \A s \in Runs : s # r => runs'[s] = runs[s]
    BY <1>1, <1>2, <1>3, <1>4, <1>6, <1>7, RunGood
  <1>9. HolderInv' BY <1>0, <1>2, <1>5, <1>6 DEF SInv, HolderInv, ClaimId, Kinds
  <1>10. WriteInv' BY <1>0, <1>2, <1>3, <1>4, <1>5, <1>6, <1>8 DEF SInv, WriteInv, Alone, Kinds, Runs
  <1> QED BY <1>8, <1>9, <1>10 DEF SInv

\* What the holder of the lock knows of the run it writes: neither state.json
\* nor index.json names it.
LEMMA WrittenRun ==
    ASSUME SInv,
           sub.pc \in {"reserve", "prepare", "bind", "report", "finish", "record"}
    PROVE  /\ runs \in [Runs -> RunStates] /\ sub \in Subs /\ ids \in 0..MaxIds
           /\ sub.run \in Runs /\ sub.run \in 0..MaxRuns /\ runs[sub.run] \in RunStates
           /\ sub.id \in 0..MaxIds /\ sub.report \in Reports \cup {0} /\ sub.id <= ids
           /\ ~Recorded(sub.run) /\ RunOK(runs[sub.run]) /\ runs[sub.run].hash = 0
  <1> USE SubmissionAssumption, Absent
  <1>1. /\ runs \in [Runs -> RunStates] /\ sub \in Subs /\ ids \in 0..MaxIds
    BY DEF SInv, SubmissionTypeOK
  <1>2. /\ sub.run \in 0..MaxRuns /\ sub.id \in 0..MaxIds /\ sub.report \in Reports \cup {0}
    BY <1>1 DEF Subs
  <1>3. sub.run \in Runs /\ sub.id <= ids BY <1>2 DEF SInv, WriteInv, Runs
  <1>4. RunOK(runs[sub.run]) BY <1>3 DEF SInv, RunInv
  <1>5. ~Recorded(sub.run) /\ runs[sub.run].hash = 0
    BY <1>4 DEF SInv, WriteInv, RunOK, Recorded
  <1> QED BY <1>1, <1>2, <1>3, <1>4, <1>5

\* Reserve: nobody else has the attempt, and the run has none or this one.
LEMMA ReserveGood ==
    ASSUME SInv, Reserve
    PROVE  SInv' /\ Kept /\ ByClaim
  <1> USE SubmissionAssumption, Absent
  <1> DEFINE r == sub.run
             v == [runs[r] EXCEPT !.meta = TRUE, !.attempt = sub.id, !.promised = sub.report]
  <1>0. sub.pc = "reserve" BY DEF Reserve
  <1>1. /\ runs \in [Runs -> RunStates] /\ sub \in Subs /\ r \in Runs /\ runs[r] \in RunStates
        /\ sub.id \in 0..MaxIds /\ sub.report \in Reports \cup {0} /\ sub.id <= ids
        /\ ~Recorded(r) /\ RunOK(runs[r]) /\ runs[r].hash = 0
    BY <1>0, WrittenRun
  <1>2. /\ UNCHANGED <<st, index, ids>> /\ runs' = [runs EXCEPT ![r] = v]
        /\ sub' = [sub EXCEPT !.pc = "bind"]
    BY DEF Reserve, WriteRun, Then
  <1>3. /\ v \in RunStates /\ v.dir = runs[r].dir /\ v.meta /\ v.attempt = sub.id
        /\ v.promised = sub.report /\ v.hash = runs[r].hash /\ v.report = runs[r].report
    BY <1>1 DEF RunStates
  <1> HIDE DEF v
  <1>4. /\ sub.id # 0 /\ runs[r].dir /\ Alone
        /\ runs[r].attempt = sub.id \/ ~runs[r].meta
    BY <1>0 DEF SInv, WriteInv
  <1>5. /\ sub' \in Subs /\ sub'.pc = "bind" /\ sub'.kind = sub.kind
        /\ sub'.id = sub.id /\ sub'.run = sub.run /\ sub'.report = sub.report
    BY <1>1, <1>2 DEF Subs, Pcs
  <1>6. RunOK(v) BY <1>1, <1>3, <1>4 DEF RunOK
  <1>7. runs[r].attempt # 0 => v.attempt = runs[r].attempt BY <1>1, <1>3, <1>4 DEF RunOK
  <1>8. /\ SubmissionTypeOK' /\ RunInv' /\ OneRunPerAttempt' /\ StateInv' /\ Kept /\ ByClaim
        /\ runs'[r] = v
    <2>1. \A s \in Runs : s # r => runs[s].attempt # v.attempt BY <1>3, <1>4 DEF Alone
    <2>2. /\ UNCHANGED <<st, index, ids>> /\ runs' = [runs EXCEPT ![r] = v] /\ sub' \in Subs
          /\ r \in Runs /\ v \in RunStates /\ ~Recorded(r)
      BY <1>1, <1>2, <1>3, <1>5
    <2> HIDE DEF r
    <2> QED BY <1>6, <1>7, <2>1, <2>2, RunGood
  <1>9. HolderInv' BY <1>0, <1>2, <1>5 DEF SInv, HolderInv, ClaimId
  <1>10. WriteInv' BY <1>0, <1>1, <1>2, <1>3, <1>4, <1>5, <1>8 DEF SInv, WriteInv, Runs
  <1> QED BY <1>8, <1>9, <1>10 DEF SInv

\* PrepareMetadata: the same without a promise, and the lock is given back.
LEMMA PrepareMetadataGood ==
    ASSUME SInv, PrepareMetadata
    PROVE  SInv' /\ Kept /\ ByClaim
  <1> USE SubmissionAssumption, Absent
  <1> DEFINE r == sub.run
             v == [runs[r] EXCEPT !.meta = TRUE, !.attempt = sub.id]
  <1>0. sub.pc = "prepare" BY DEF PrepareMetadata
  <1>1. /\ runs \in [Runs -> RunStates] /\ sub \in Subs /\ r \in Runs /\ runs[r] \in RunStates
        /\ sub.id \in 0..MaxIds /\ sub.id <= ids
        /\ ~Recorded(r) /\ RunOK(runs[r]) /\ runs[r].hash = 0
    BY <1>0, WrittenRun
  <1>2. /\ UNCHANGED <<st, index, ids>> /\ runs' = [runs EXCEPT ![r] = v] /\ sub' = Idle
    BY DEF PrepareMetadata, WriteRun, Done
  <1>3. /\ v \in RunStates /\ v.dir = runs[r].dir /\ v.meta /\ v.attempt = sub.id
        /\ v.hash = runs[r].hash /\ v.report = runs[r].report
    BY <1>1 DEF RunStates
  <1> HIDE DEF v
  <1>4. sub.id # 0 /\ runs[r].dir /\ Alone /\ ~runs[r].meta BY <1>0 DEF SInv, WriteInv
  <1>5. Idle \in Subs BY DEF Idle, Subs, Pcs, Kinds
  <1>6. RunOK(v) BY <1>1, <1>3, <1>4 DEF RunOK
  <1>7. runs[r].attempt # 0 => v.attempt = runs[r].attempt BY <1>1, <1>4 DEF RunOK
  <1>8. SubmissionTypeOK' /\ RunInv' /\ OneRunPerAttempt' /\ StateInv' /\ Kept /\ ByClaim
    BY <1>1, <1>2, <1>3, <1>4, <1>5, <1>6, <1>7, RunGood DEF Alone
  <1>9. HolderInv' /\ WriteInv' BY <1>1, <1>2 DEF HolderInv, WriteInv, Idle, SInv, SubmissionTypeOK
  <1> QED BY <1>8, <1>9 DEF SInv

\* RecordMetadata: a run without an attempt.
LEMMA RecordMetadataGood ==
    ASSUME SInv, RecordMetadata
    PROVE  SInv' /\ Kept /\ ByClaim
  <1> USE SubmissionAssumption, Absent
  <1> DEFINE r == sub.run
             v == [runs[r] EXCEPT !.meta = TRUE]
  <1>0. sub.pc = "record" BY DEF RecordMetadata
  <1>1. /\ runs \in [Runs -> RunStates] /\ sub \in Subs /\ r \in Runs /\ runs[r] \in RunStates
        /\ sub.id <= ids /\ ~Recorded(r) /\ RunOK(runs[r]) /\ runs[r].hash = 0
    BY <1>0, WrittenRun
  <1>2. /\ UNCHANGED <<st, index, ids>> /\ runs' = [runs EXCEPT ![r] = v]
        /\ sub' = [sub EXCEPT !.pc = "point"]
    BY DEF RecordMetadata, WriteRun, Then
  <1>3. /\ v \in RunStates /\ v.dir = runs[r].dir /\ v.meta /\ v.attempt = runs[r].attempt
        /\ v.hash = runs[r].hash /\ v.report = runs[r].report
    BY <1>1 DEF RunStates
  <1> HIDE DEF v
  <1>4. runs[r].dir /\ runs[r].attempt = 0 BY <1>0, <1>1 DEF SInv, WriteInv, RunOK
  <1>5. /\ sub' \in Subs /\ sub'.pc = "point" /\ sub'.kind = sub.kind
        /\ sub'.id = sub.id /\ sub'.run = sub.run
    BY <1>1, <1>2 DEF Subs, Pcs
  <1>6. RunOK(v) BY <1>1, <1>3, <1>4 DEF RunOK
  <1>7. /\ SubmissionTypeOK' /\ RunInv' /\ OneRunPerAttempt' /\ StateInv' /\ Kept /\ ByClaim
        /\ runs'[r] = v
    BY <1>1, <1>2, <1>3, <1>4, <1>5, <1>6, RunGood
  <1>8. HolderInv' BY <1>0, <1>2, <1>5 DEF SInv, HolderInv, ClaimId
  <1>9. WriteInv' BY <1>0, <1>1, <1>2, <1>3, <1>4, <1>5, <1>7 DEF SInv, WriteInv, Runs
  <1> QED BY <1>7, <1>8, <1>9 DEF SInv

\* WriteReport: the report, whole or torn, in a run that promised it.
LEMMA WriteReportGood ==
    ASSUME SInv, WriteReport \/ TearReport
    PROVE  SInv' /\ Kept /\ ByClaim
  <1> USE SubmissionAssumption, Absent
  <1>0. sub.pc = "report" BY DEF WriteReport, TearReport
  <1> DEFINE r == sub.run
  <1>1. /\ runs \in [Runs -> RunStates] /\ sub \in Subs /\ r \in Runs /\ runs[r] \in RunStates
        /\ sub.report \in Reports \cup {0} /\ sub.id <= ids
        /\ ~Recorded(r) /\ RunOK(runs[r]) /\ runs[r].hash = 0
    BY <1>0, WrittenRun
  <1>2. PICK w \in {sub.report, Torn} :
          /\ UNCHANGED <<st, index, ids>>
          /\ runs' = [runs EXCEPT ![r] = [runs[r] EXCEPT !.report = w]]
          /\ sub' = Idle \/ (sub' = [sub EXCEPT !.pc = "finish"] /\ w = sub.report)
    BY DEF WriteReport, TearReport, WriteRun, Then, Done
  <1> DEFINE v == [runs[r] EXCEPT !.report = w]
  <1>3. /\ v \in RunStates /\ v.dir = runs[r].dir /\ v.meta = runs[r].meta
        /\ v.attempt = runs[r].attempt /\ v.promised = runs[r].promised
        /\ v.hash = runs[r].hash /\ v.report = w
    BY <1>1, <1>2 DEF RunStates
  <1>4. runs' = [runs EXCEPT ![r] = v] BY <1>2
  <1> HIDE DEF v
  <1>5. sub.id # 0 /\ runs[r].attempt = sub.id /\ runs[r].promised = sub.report
    BY <1>0 DEF SInv, WriteInv
  <1>6. Idle \in Subs BY DEF Idle, Subs, Pcs, Kinds
  <1>7. sub' = [sub EXCEPT !.pc = "finish"] =>
          /\ sub' \in Subs /\ sub'.pc = "finish" /\ sub'.kind = sub.kind
          /\ sub'.id = sub.id /\ sub'.run = sub.run /\ sub'.report = sub.report
    BY <1>1 DEF Subs, Pcs
  <1>8. RunOK(v) BY <1>1, <1>3, <1>5 DEF RunOK
  <1>9. \A s \in Runs : s # r => runs[s].attempt # v.attempt
    <2>1. \A s \in Runs : s # r => runs[s].attempt # runs[r].attempt
      BY <1>1, <1>5 DEF SInv, OneRunPerAttempt
    <2> QED BY <2>1, <1>3
  <1>10. /\ SubmissionTypeOK' /\ RunInv' /\ OneRunPerAttempt' /\ StateInv' /\ Kept /\ ByClaim
         /\ runs'[r] = v
    BY <1>1, <1>2, <1>3, <1>4, <1>6, <1>7, <1>8, <1>9, RunGood
  <1>11. CASE sub' = Idle
    <2>1. HolderInv' /\ WriteInv'
      BY <1>2, <1>11 DEF HolderInv, WriteInv, Idle, SInv, SubmissionTypeOK
    <2> QED BY <1>10, <2>1 DEF SInv
  <1>12. CASE sub' = [sub EXCEPT !.pc = "finish"] /\ w = sub.report
    <2>1. HolderInv' BY <1>0, <1>2, <1>7, <1>12 DEF SInv, HolderInv, ClaimId
    <2>2. WriteInv' BY <1>1, <1>2, <1>3, <1>5, <1>7, <1>10, <1>12 DEF SInv, WriteInv, Runs
    <2> QED BY <1>10, <2>1, <2>2 DEF SInv
  <1> QED BY <1>2, <1>11, <1>12

\* FinishMetadata: the hash of the report that was written before.
LEMMA FinishMetadataGood ==
    ASSUME SInv, FinishMetadata
    PROVE  SInv' /\ Kept /\ ByClaim
  <1> USE SubmissionAssumption, Absent
  <1>0. sub.pc = "finish" BY DEF FinishMetadata
  <1> DEFINE r == sub.run
             v == [runs[r] EXCEPT !.hash = sub.report]
  <1>1. /\ runs \in [Runs -> RunStates] /\ sub \in Subs /\ r \in Runs /\ runs[r] \in RunStates
        /\ sub.report \in Reports \cup {0} /\ sub.id <= ids
        /\ ~Recorded(r) /\ RunOK(runs[r]) /\ runs[r].hash = 0
    BY <1>0, WrittenRun
  <1>2. /\ UNCHANGED <<st, index, ids>> /\ runs' = [runs EXCEPT ![r] = v]
        /\ sub' = [sub EXCEPT !.pc = "index"]
    BY DEF FinishMetadata, WriteRun, Then
  <1>3. /\ v \in RunStates /\ v.dir = runs[r].dir /\ v.meta = runs[r].meta
        /\ v.attempt = runs[r].attempt /\ v.promised = runs[r].promised
        /\ v.hash = sub.report /\ v.report = runs[r].report
    BY <1>1 DEF RunStates
  <1> HIDE DEF v
  <1>4. /\ sub.id # 0 /\ runs[r].attempt = sub.id /\ runs[r].promised = sub.report
        /\ runs[r].report = sub.report
    BY <1>0 DEF SInv, WriteInv
  <1>5. sub.kind \in {"local", "remote"} /\ sub.report # 0
    BY <1>0, <1>1 DEF SInv, HolderInv, Subs, Kinds
  <1>6. /\ sub' \in Subs /\ sub'.pc = "index" /\ sub'.kind = sub.kind
        /\ sub'.id = sub.id /\ sub'.run = sub.run /\ sub'.report = sub.report
    BY <1>1, <1>2 DEF Subs, Pcs
  <1>7. RunOK(v) BY <1>1, <1>3, <1>4 DEF RunOK
  <1>8. \A s \in Runs : s # r => runs[s].attempt # v.attempt
    BY <1>1, <1>3, <1>4 DEF SInv, OneRunPerAttempt
  <1>9. /\ SubmissionTypeOK' /\ RunInv' /\ OneRunPerAttempt' /\ StateInv' /\ Kept /\ ByClaim
        /\ runs'[r] = v
    <2>1. /\ UNCHANGED <<st, index, ids>> /\ runs' = [runs EXCEPT ![r] = v] /\ sub' \in Subs
          /\ r \in Runs /\ v \in RunStates /\ ~Recorded(r) /\ v.attempt = runs[r].attempt
      BY <1>1, <1>2, <1>3, <1>6
    <2> HIDE DEF r
    <2> QED BY <1>7, <1>8, <2>1, RunGood
  <1>10. HolderInv' BY <1>0, <1>2, <1>6 DEF SInv, HolderInv, ClaimId
  <1>11. WriteInv' BY <1>1, <1>2, <1>3, <1>4, <1>5, <1>6, <1>9 DEF SInv, WriteInv, Runs
  <1> QED BY <1>9, <1>10, <1>11 DEF SInv

-----------------------------------------------------------------------------
\* A step that gives the lock back leaves nothing to say of the holder.
LEMMA IdleGood ==
    ASSUME SInv, sub' = Idle, UNCHANGED ids
    PROVE  sub' \in Subs /\ HolderInv' /\ WriteInv'
  <1>1. sub' \in Subs BY SubmissionAssumption, Absent DEF Idle, Subs, Pcs, Kinds
  <1>2. HolderInv' BY DEF HolderInv, Idle
  <1>3. WriteInv' BY DEF SInv, SubmissionTypeOK, WriteInv, Idle
  <1> QED BY <1>1, <1>2, <1>3

\* A crash, and a first metadata.json that cannot be written.
LEMMA FaultGood ==
    ASSUME SInv, Fault
    PROVE  SInv' /\ Kept /\ ByClaim
  <1>1. CASE Crash
    BY <1>1, IdleGood, HolderGood DEF Crash, Done
  <1>2. CASE ReserveFails
    <2> DEFINE r == sub.run
    <2>1. /\ sub' = Idle /\ UNCHANGED <<st, index, ids>> /\ runs' = [runs EXCEPT ![r] = NoRun]
          /\ sub.pc \in {"reserve", "prepare"} /\ ~runs[r].meta
      BY <1>2 DEF ReserveFails, WriteRun, Done
    <2>2. r \in Runs /\ ~Recorded(r) /\ RunOK(runs[r]) BY <2>1, WrittenRun
    <2>3. /\ NoRun \in RunStates /\ NoRun.attempt = 0 /\ RunOK(NoRun) /\ runs[r].attempt = 0
      BY <2>1, <2>2, SubmissionAssumption, Absent DEF NoRun, RunStates, RunOK
    <2>4. sub' \in Subs /\ HolderInv' /\ WriteInv' BY <2>1, IdleGood
    <2> HIDE DEF r
    <2>5. SubmissionTypeOK' /\ RunInv' /\ OneRunPerAttempt' /\ StateInv' /\ Kept /\ ByClaim
      BY <2>1, <2>2, <2>3, <2>4, RunGood
    <2> QED BY <2>4, <2>5 DEF SInv
  <1>3. CASE TearReport BY <1>3, WriteReportGood
  <1> QED BY <1>1, <1>2, <1>3 DEF Fault

\* Bind: the claim gets the run that has its attempt.
LEMMA BindGood ==
    ASSUME SInv, Bind
    PROVE  SInv' /\ Kept /\ ByClaim
  <1> USE SubmissionAssumption, Absent
  <1>0. sub.pc = "bind" BY DEF Bind
  <1>1. /\ sub \in Subs /\ sub.run \in Runs /\ sub.run \in 0..MaxRuns
        /\ sub.id \in 0..MaxIds /\ sub.id <= ids
    BY <1>0, WrittenRun
  <1>2. st \in BlockStates BY DEF SInv, SubmissionTypeOK
  <1>3. /\ UNCHANGED <<runs, index, ids>> /\ st' = [st EXCEPT !.attempt = sub.id, !.reserved = sub.run]
        /\ sub' = [sub EXCEPT !.pc = "report"]
    BY DEF Bind, WriteState, Then
  <1>4. /\ st' \in BlockStates /\ st'.attempt = sub.id /\ st'.reserved = sub.run
        /\ st'.status = st.status /\ st'.owner = st.owner /\ st'.last = st.last
        /\ st'.receipt = st.receipt
    BY <1>1, <1>2, <1>3 DEF BlockStates
  <1>5. /\ sub' \in Subs /\ sub'.pc = "report" /\ sub'.kind = sub.kind
        /\ sub'.id = sub.id /\ sub'.run = sub.run /\ sub'.report = sub.report
    BY <1>1, <1>3 DEF Subs, Pcs
  <1>6. /\ sub.id # 0 /\ sub.run # 0 /\ runs[sub.run].attempt = sub.id
        /\ runs[sub.run].promised = sub.report /\ runs[sub.run].hash = 0
    BY <1>0 DEF SInv, WriteInv
  <1>7. UNCHANGED <<runs, index, ids>> BY <1>3
  <1>8. SubmissionTypeOK' BY <1>4, <1>5, <1>6, <1>7 DEF SInv, SubmissionTypeOK
  <1>9. RunInv' /\ OneRunPerAttempt' BY <1>7 DEF SInv, RunInv, RunOK, OneRunPerAttempt
  <1>10. StateInv' BY <1>1, <1>4, <1>6, <1>7 DEF SInv, StateInv, Recorded
  <1>11. sub.kind \in {"local", "remote"} BY <1>0, <1>1 DEF SInv, HolderInv, Subs, Kinds
  <1>12. HolderInv' BY <1>0, <1>4, <1>5, <1>11 DEF SInv, HolderInv, ClaimId
  <1>13. WriteInv' BY <1>1, <1>4, <1>5, <1>6, <1>7 DEF WriteInv
  <1>14. Kept /\ ByClaim BY <1>4, <1>7 DEF Kept, ByClaim
  <1> QED BY <1>8, <1>9, <1>10, <1>12, <1>13, <1>14 DEF SInv

\* UpdateIndex and RecountIndex: the index names the submitted run.
LEMMA IndexGood ==
    ASSUME SInv, UpdateIndex \/ RecountIndex
    PROVE  SInv' /\ Kept /\ ByClaim
  <1> USE SubmissionAssumption, Absent
  <1>0. sub.pc \in {"index", "reindex"} BY DEF UpdateIndex, RecountIndex
  <1>1. /\ sub \in Subs /\ sub.run \in Runs /\ sub.run \in 0..MaxRuns /\ sub.id <= ids
        /\ index \in [latest : 0..MaxRuns, count : Nat] /\ sub.run # 0
    BY <1>0 DEF SInv, SubmissionTypeOK, WriteInv, Subs, Runs
  <1>2. /\ UNCHANGED <<st, runs, ids>> /\ sub' = [sub EXCEPT !.pc = "commit"]
        /\ index' \in [latest : 0..MaxRuns, count : Nat] /\ index'.latest = sub.run
    BY <1>1 DEF UpdateIndex, RecountIndex, WriteIndex, Then
  <1>3. UNCHANGED <<st, runs, ids>> BY <1>2
  <1>4. /\ sub' \in Subs /\ sub'.pc = "commit" /\ sub'.kind = sub.kind
        /\ sub'.id = sub.id /\ sub'.run = sub.run /\ sub'.report = sub.report
    BY <1>1, <1>2 DEF Subs, Pcs
  <1>5. /\ runs[sub.run].hash # 0
        /\ st.status # "completed" => runs[sub.run].attempt = sub.id
    BY <1>0 DEF SInv, WriteInv
  <1>6. Recorded(sub.run) BY <1>1, <1>5 DEF SInv, RunInv, RunOK, Recorded
  <1>7. sub.kind \in {"local", "remote"} BY <1>0, <1>1 DEF SInv, HolderInv, Subs, Kinds
  <1>8. st.status = "completed" => sub.run = st.last BY <1>7 DEF SInv, HolderInv
  <1>9. SubmissionTypeOK' BY <1>2, <1>3, <1>4 DEF SInv, SubmissionTypeOK
  <1>10. RunInv' /\ OneRunPerAttempt' BY <1>3 DEF SInv, RunInv, RunOK, OneRunPerAttempt
  <1>11. StateInv' BY <1>2, <1>3, <1>6, <1>8 DEF SInv, StateInv, Recorded
  <1>12. HolderInv' BY <1>0, <1>3, <1>4, <1>7 DEF SInv, HolderInv, ClaimId
  <1>13. WriteInv' BY <1>1, <1>2, <1>3, <1>4, <1>5 DEF WriteInv
  <1>14. Kept /\ ByClaim BY <1>3 DEF Kept, ByClaim
  <1> QED BY <1>9, <1>10, <1>11, <1>12, <1>13, <1>14 DEF SInv

\* CommitResult: the block is completed by a run of its own claim.
LEMMA CommitGood ==
    ASSUME SInv, CommitResult
    PROVE  SInv' /\ Kept /\ ByClaim
  <1> USE SubmissionAssumption, Absent
  <1>0. sub.pc = "commit" BY DEF CommitResult
  <1>1. /\ sub \in Subs /\ sub.run \in Runs /\ sub.run \in 0..MaxRuns /\ sub.run # 0
        /\ sub.id \in 0..MaxIds /\ st \in BlockStates
    BY <1>0 DEF SInv, SubmissionTypeOK, WriteInv, Subs, Runs
  <1> DEFINE done == IF sub.kind = "remote" THEN sub.id ELSE 0
  <1>2. /\ UNCHANGED <<runs, index, ids>> /\ sub' = Idle /\ done \in 0..MaxIds
        /\ st' = [[st EXCEPT !.status = "completed", !.owner = 0, !.intr = "none", !.receipt = 0]
                     EXCEPT !.last = sub.run, !.receipt = done]
    BY <1>1 DEF CommitResult, WriteState, Done, Without
  <1> HIDE DEF done
  <1>3. /\ st' \in BlockStates /\ st'.attempt = st.attempt /\ st'.reserved = st.reserved
        /\ st'.status = "completed" /\ st'.owner = 0 /\ st'.last = sub.run
    BY <1>1, <1>2 DEF BlockStates
  <1>4. UNCHANGED <<runs, index, ids>> BY <1>2
  <1>5. /\ runs[sub.run].hash # 0 /\ index.latest = sub.run
        /\ st.status # "completed" => runs[sub.run].attempt = sub.id
    BY <1>0 DEF SInv, WriteInv
  <1>6. sub.id = ClaimId BY <1>0, <1>1 DEF SInv, HolderInv, Subs, Kinds
  <1>7. Recorded(sub.run) BY <1>1, <1>5 DEF SInv, RunInv, RunOK, Recorded
  <1>8. sub' \in Subs /\ HolderInv' /\ WriteInv' BY <1>2, IdleGood
  <1>9. SubmissionTypeOK' BY <1>3, <1>4, <1>8 DEF SInv, SubmissionTypeOK
  <1>10. RunInv' /\ OneRunPerAttempt' BY <1>4 DEF SInv, RunInv, RunOK, OneRunPerAttempt
  <1>11. StateInv' BY <1>1, <1>3, <1>4, <1>5, <1>7 DEF SInv, SubmissionTypeOK, StateInv, Recorded
  <1>12. Kept BY <1>4 DEF Kept
  <1>13. ByClaim BY <1>3, <1>5, <1>6 DEF ByClaim, RunOfClaim, ClaimId
  <1> QED BY <1>8, <1>9, <1>10, <1>11, <1>12, <1>13 DEF SInv

-----------------------------------------------------------------------------
\* The start of a preparation and of the record of a remote attempt.
LEMMA MkdirGood ==
    ASSUME SInv,
           \/ \E captured \in Ids : Prepare(captured)
           \/ \E id \in Ids : RecordRemote(id, "failure") \/ RecordRemote(id, "interruption")
    PROVE  SInv' /\ Kept /\ ByClaim
  <1> USE SubmissionAssumption, Absent
  <1>0. Idle.report = 0 /\ Idle.run = 0 /\ Idle \in Subs BY DEF Idle, Subs, Pcs, Kinds
  <1>1. PICK id \in Ids, kind \in {"prepare", "failure", "interruption"} :
          /\ UNCHANGED <<st, runs, index, ids>>
          /\ sub' = [Idle EXCEPT !.pc = "mkdir", !.kind = kind, !.id = id]
          /\ kind = "prepare" => st.status = "in_progress" /\ st.attempt = id
                                 /\ FindAttemptRun(id) = {}
          /\ kind # "prepare" => st.owner = id
    BY DEF Prepare, RecordRemote
  <1>2. id # 0 /\ id \in 0..MaxIds BY DEF Ids
  <1>3. id <= ids BY <1>1 DEF SInv, StateInv
  <1>4. /\ sub' \in Subs /\ sub'.pc = "mkdir" /\ sub'.kind = kind /\ sub'.id = id /\ sub'.run = 0
    BY <1>0, <1>1, <1>2 DEF Subs, Pcs, Kinds
  <1>5. kind = "prepare" => \A s \in Runs : runs[s].attempt # id
    BY <1>1, <1>2 DEF FindAttemptRun, SInv, RunInv, RunOK
  <1>6. UNCHANGED <<st, runs, index, ids>> BY <1>1
  <1>7. HolderInv' BY <1>1, <1>2, <1>4 DEF HolderInv, ClaimId
  <1>8. WriteInv' BY <1>2, <1>3, <1>4, <1>5, <1>6 DEF WriteInv, Alone
  <1> QED BY <1>4, <1>6, <1>7, <1>8, HolderGood

\* The holder that records a remote attempt.
LEMMA Recorder ==
    ASSUME SInv, sub.pc \in {"point", "end"}
    PROVE  /\ sub \in Subs /\ sub.run \in Runs /\ sub.run \in 0..MaxRuns /\ sub.run # 0
           /\ sub.id \in 0..MaxIds /\ sub.id <= ids /\ sub.id = st.owner /\ st.owner # 0
           /\ sub.kind \in {"failure", "interruption"} /\ st.status # "completed"
           /\ Recorded(sub.run) /\ st.receipt = 0 /\ st \in BlockStates
           /\ runs[sub.run].meta /\ runs[sub.run].attempt = 0
  <1>1. sub \in Subs /\ sub.run \in 0..MaxRuns /\ sub.id \in 0..MaxIds /\ sub.kind \in Kinds
        /\ st \in BlockStates
    BY DEF SInv, SubmissionTypeOK, Subs
  <1>2. sub.run # 0 /\ sub.id <= ids BY DEF SInv, WriteInv
  <1>3. sub.kind \in {"failure", "interruption"} BY <1>1 DEF SInv, HolderInv, Kinds
  <1>4. sub.id = st.owner /\ st.owner # 0 BY <1>3 DEF SInv, HolderInv
  <1>5. st.status # "completed" /\ st.receipt = 0 BY <1>4 DEF SInv, SubmissionTypeOK
  <1>6. Recorded(sub.run) /\ runs[sub.run].meta /\ runs[sub.run].attempt = 0
    BY DEF SInv, WriteInv, Recorded
  <1>7. sub.run \in Runs BY <1>1, <1>2, SubmissionAssumption DEF Runs
  <1> QED BY <1>1, <1>2, <1>3, <1>4, <1>5, <1>6, <1>7

\* PointIndex: the index may name the record, which has no attempt.
LEMMA PointIndexGood ==
    ASSUME SInv, PointIndex
    PROVE  SInv' /\ Kept /\ ByClaim
  <1> USE SubmissionAssumption, Absent
  <1>0. sub.pc = "point" BY DEF PointIndex
  <1>1. /\ sub \in Subs /\ sub.run \in 0..MaxRuns /\ sub.run # 0 /\ sub.id <= ids
        /\ sub.id = st.owner /\ st.owner # 0 /\ st.status # "completed"
        /\ sub.kind \in {"failure", "interruption"} /\ Recorded(sub.run)
        /\ runs[sub.run].meta /\ runs[sub.run].attempt = 0
        /\ index \in [latest : 0..MaxRuns, count : Nat]
    BY <1>0, Recorder DEF SInv, SubmissionTypeOK
  <1>2. /\ UNCHANGED <<st, runs, ids>> /\ sub' = [sub EXCEPT !.pc = "end"]
        /\ index' \in [latest : 0..MaxRuns, count : Nat] /\ index'.latest = sub.run
    BY <1>1 DEF PointIndex, WriteIndex, Then
  <1>3. UNCHANGED <<st, runs, ids>> BY <1>2
  <1>4. /\ sub' \in Subs /\ sub'.pc = "end" /\ sub'.kind = sub.kind
        /\ sub'.id = sub.id /\ sub'.run = sub.run
    BY <1>1, <1>2 DEF Subs, Pcs
  <1>5. SubmissionTypeOK' BY <1>2, <1>3, <1>4 DEF SInv, SubmissionTypeOK
  <1>6. RunInv' /\ OneRunPerAttempt' BY <1>3 DEF SInv, RunInv, RunOK, OneRunPerAttempt
  <1>7. StateInv' BY <1>1, <1>2, <1>3 DEF SInv, StateInv, Recorded
  <1>8. HolderInv' BY <1>1, <1>3, <1>4 DEF HolderInv
  <1>9. WriteInv' BY <1>1, <1>3, <1>4 DEF WriteInv
  <1>10. Kept /\ ByClaim BY <1>3 DEF Kept, ByClaim
  <1> QED BY <1>5, <1>6, <1>7, <1>8, <1>9, <1>10 DEF SInv

\* A step that writes the block with the record as its last run.
LEMMA EndGood ==
    ASSUME SInv, EndFailed \/ EndInterrupted
    PROVE  SInv' /\ Kept /\ ByClaim
  <1> USE SubmissionAssumption, Absent
  <1>0. sub.pc = "end" BY DEF EndFailed, EndInterrupted
  <1>1. /\ sub.run \in Runs /\ sub.run \in 0..MaxRuns /\ sub.run # 0 /\ sub.id \in 0..MaxIds
        /\ sub.id = st.owner /\ Recorded(sub.run) /\ st \in BlockStates
        /\ st.status # "completed" /\ st.receipt = 0
    BY <1>0, Recorder
  <1>2. sub' = Idle /\ UNCHANGED <<runs, index, ids>>
    BY DEF EndFailed, EndInterrupted, WriteState, Done
  <1>3. sub' \in Subs /\ HolderInv' /\ WriteInv' BY <1>2, IdleGood
  <1>4. CASE UNCHANGED <<st, runs, index>> BY <1>2, <1>3, <1>4, HolderGood
  <1>5. ASSUME /\ st' \in BlockStates /\ st'.attempt = st.attempt /\ st'.reserved = st.reserved
               /\ st'.last = sub.run /\ st'.status # "completed" /\ st'.owner \in {0, st.owner}
               /\ st'.owner # 0 => st'.status \in {"in_progress", "diverged"}
               /\ st'.receipt # 0 => st'.status \in {"completed", "blocked"}
        PROVE  SInv' /\ Kept /\ ByClaim
    <2>1. SubmissionTypeOK' BY <1>2, <1>3, <1>5 DEF SInv, SubmissionTypeOK
    <2>2. RunInv' /\ OneRunPerAttempt' BY <1>2 DEF SInv, RunInv, RunOK, OneRunPerAttempt
    <2>3. StateInv' BY <1>1, <1>2, <1>5 DEF SInv, SubmissionTypeOK, StateInv, Recorded
    <2>4. Kept /\ ByClaim BY <1>2, <1>5 DEF Kept, ByClaim
    <2> QED BY <1>3, <2>1, <2>2, <2>3, <2>4 DEF SInv
  <1>6. CASE EndFailed
    <2>1. st' = [[st EXCEPT !.status = "blocked", !.owner = 0, !.intr = "none", !.receipt = 0]
                   EXCEPT !.last = sub.run, !.receipt = sub.id]
      BY <1>6 DEF EndFailed, WriteState, Without
    <2>2. /\ st' \in BlockStates /\ st'.attempt = st.attempt /\ st'.reserved = st.reserved
          /\ st'.last = sub.run /\ st'.status = "blocked" /\ st'.owner = 0
      BY <1>1, <2>1 DEF BlockStates
    <2> QED BY <1>5, <2>2
  <1>7. CASE EndInterrupted /\ ~UNCHANGED <<st, runs, index>>
    <2>1. st' = [st EXCEPT !.status = "diverged", !.intr = "manual", !.last = sub.run]
      BY <1>7 DEF EndInterrupted, WriteState
    <2>2. /\ st' \in BlockStates /\ st'.attempt = st.attempt /\ st'.reserved = st.reserved
          /\ st'.last = sub.run /\ st'.status = "diverged" /\ st'.owner = st.owner
          /\ st'.receipt = st.receipt
      BY <1>1, <2>1 DEF BlockStates
    <2> QED BY <1>1, <1>5, <2>2
  <1> QED BY <1>4, <1>6, <1>7

\* doctor --repair: the run the index names has a result if it has a report,
\* so the repaired block is one a submission could have completed; but it need
\* not be a run of the claim the block is under.
LEMMA RepairGood ==
    ASSUME SInv, RepairState \/ RepairIndex
    PROVE  SInv' /\ Kept /\ ByClaim
  <1> USE SubmissionAssumption, Absent
  <1>0. /\ st \in BlockStates /\ index \in [latest : 0..MaxRuns, count : Nat]
        /\ st.last \in 0..MaxRuns /\ index.latest \in 0..MaxRuns
    BY DEF SInv, SubmissionTypeOK, BlockStates
  <1>1. CASE RepairState
    <2> DEFINE r == index.latest
    <2>1. /\ r \in Runs /\ r # 0 /\ Recorded(r) /\ runs[r].report # 0
      BY <1>0, <1>1 DEF RepairState, RunMatches, SInv, StateInv, Runs
    <2>2. runs[r].hash # 0 BY <2>1 DEF Recorded, SInv, RunInv, RunOK
    <2>3. /\ sub = Idle /\ UNCHANGED <<runs, index, sub, ids>>
          /\ st' = [FreshBlock EXCEPT !.status = "completed", !.last = r]
      BY <1>1 DEF RepairState, Atomically, WriteState, RepairedBlock
    <2> HIDE DEF r
    <2>4. /\ st' \in BlockStates /\ st'.status = "completed" /\ st'.last = r /\ st'.attempt = 0
          /\ st'.reserved = 0 /\ st'.owner = 0 /\ st'.receipt = 0
      BY <2>1, <2>3 DEF FreshBlock, BlockStates
    <2>5. UNCHANGED <<runs, index, sub, ids>> BY <2>3
    <2>6. SubmissionTypeOK' BY <2>4, <2>5 DEF SInv, SubmissionTypeOK
    <2>7. RunInv' /\ OneRunPerAttempt' BY <2>5 DEF SInv, RunInv, RunOK, OneRunPerAttempt
    <2>8. ids \in 0..MaxIds BY DEF SInv, SubmissionTypeOK
    <2>9. StateInv' BY <2>1, <2>2, <2>4, <2>5, <2>8 DEF r, SInv, StateInv, Recorded
    <2>10. HolderInv' /\ WriteInv' BY <2>3, IdleGood
    <2>11. Kept /\ ByClaim BY <2>3, <2>5 DEF Kept, ByClaim
    <2> QED BY <2>6, <2>7, <2>9, <2>10, <2>11 DEF SInv
  <1>2. CASE RepairIndex
    <2>1. /\ sub = Idle /\ UNCHANGED <<st, runs, sub, ids>> /\ st.last # 0
          /\ index' = [index EXCEPT !.latest = st.last]
      BY <1>2 DEF RepairIndex, WriteIndex
    <2>2. index' \in [latest : 0..MaxRuns, count : Nat] /\ index'.latest = st.last
      BY <1>0, <2>1
    <2>3. UNCHANGED <<st, runs, sub, ids>> BY <2>1
    <2>4. SubmissionTypeOK' BY <2>2, <2>3 DEF SInv, SubmissionTypeOK
    <2>5. RunInv' /\ OneRunPerAttempt' BY <2>3 DEF SInv, RunInv, RunOK, OneRunPerAttempt
    <2>6. StateInv' BY <2>1, <2>2, <2>3 DEF SInv, StateInv, Recorded
    <2>7. HolderInv' /\ WriteInv' BY <2>1, IdleGood
    <2>8. Kept /\ ByClaim BY <2>1, <2>3 DEF Kept, ByClaim
    <2> QED BY <2>4, <2>5, <2>6, <2>7, <2>8 DEF SInv
  <1> QED BY <1>1, <1>2

-----------------------------------------------------------------------------
\* Every step of the protocol.
LEMMA StepGood ==
    ASSUME SInv, [SubmissionNext]_svars
    PROVE  SInv' /\ Kept /\ ByClaim
  <1>1. CASE LocalNext
    <2>1. CASE \E h \in Reports : \/ SubmitFromCommandLine(h)
                                  \/ \E r \in Runs : SubmitFromExecutor(h, r)
      BY <2>1, SubmitGood
    <2>2. CASE Submission
      BY <2>2, IdentifyGood, MakeRunDirectoryGood, ReserveGood, BindGood, WriteReportGood,
         FinishMetadataGood, IndexGood, CommitGood
      DEF Submission
    <2>3. CASE (\E captured \in Ids : Prepare(captured)) \/ PrepareMetadata
      BY <2>3, MkdirGood, PrepareMetadataGood
    <2>4. CASE ClaimLocal BY <2>4, ClaimsGood
    <2>5. CASE MarkBlocked \/ MarkDiverged \/ Reopen \/ Release BY <2>5, OverridesGood
    <2> QED BY <1>1, <2>1, <2>2, <2>3, <2>4, <2>5 DEF LocalNext
  <1>2. CASE RemoteNext
    BY <1>2, SubmitGood, MkdirGood, RecordMetadataGood, PointIndexGood, EndGood, ClaimsGood,
       OverridesGood
    DEF RemoteNext, Record
  <1>3. CASE Fault BY <1>3, FaultGood
  <1>4. CASE RepairState \/ RepairIndex BY <1>4, RepairGood
  <1>5. CASE UNCHANGED svars
    <2>1. UNCHANGED <<st, runs, index, ids, sub>> BY <1>5 DEF svars
    <2>2. sub' \in Subs /\ HolderInv' /\ WriteInv'
      BY <2>1 DEF SInv, SubmissionTypeOK, HolderInv, ClaimId, WriteInv, Alone
    <2> QED BY <2>1, <2>2, HolderGood
  <1> QED BY <1>1, <1>2, <1>3, <1>4, <1>5 DEF SubmissionNext

\* The inductive invariant holds in every reachable state, with crashes,
\* remote attempts and repairs: what the directories, the index and the state
\* say of each other, and what the holder of the lock may rely on.
THEOREM SubmissionInvariance == SubmissionSpec => []SInv
  <1>1. ASSUME SInv, [SubmissionNext]_svars PROVE SInv' BY <1>1, StepGood
  <1> QED BY InitGood, <1>1, PTL DEF SubmissionSpec

\* SubmissionTypeOK: a block never has a reservation without its attempt, an
\* owner outside its phases or a receipt outside a terminal status.
THEOREM SubmissionTypes == SubmissionSpec => []SubmissionTypeOK
  <1>1. SInv => SubmissionTypeOK BY DEF SInv
  <1> QED BY SubmissionInvariance, <1>1, PTL

\* OneRunPerAttempt: findAttemptRun never meets two runs of one attempt.
THEOREM AttemptsUnique == SubmissionSpec => []OneRunPerAttempt
  <1>1. SInv => OneRunPerAttempt BY DEF SInv
  <1> QED BY SubmissionInvariance, <1>1, PTL

\* CompletedEvidence: a completed block has its report on disk, as its
\* metadata says, and the index does not contradict it.
THEOREM CompletionHasEvidence == SubmissionSpec => []CompletedEvidence
  <1>1. ASSUME SInv PROVE CompletedEvidence
    <2>1. st.last \in 0..MaxRuns BY <1>1 DEF SInv, SubmissionTypeOK, BlockStates
    <2>2. st.last # 0 => st.last \in Runs BY <2>1, SubmissionAssumption DEF Runs
    <2> QED BY <1>1, <2>2 DEF SInv, StateInv, RunInv, RunOK, CompletedEvidence
  <1> QED BY SubmissionInvariance, <1>1, PTL

\* SubmittedFixed: no step replaces the report or the hash of a submitted run.
THEOREM ResultsKept == SubmissionSpec => SubmittedFixed
  <1>1. ASSUME SInv, [SubmissionNext]_svars PROVE [Kept]_svars BY <1>1, StepGood
  <1> QED BY SubmissionInvariance, <1>1, PTL DEF SubmissionSpec, SubmittedFixed, Kept

\* SubmittedByItsClaim: a submission completes the block only by a run of the
\* claim the block is under.
THEOREM CompletionByClaim == SubmissionSpec => SubmittedByItsClaim
  <1>1. ASSUME SInv, [SubmissionNext]_svars PROVE [ByClaim]_svars BY <1>1, StepGood
  <1> QED BY SubmissionInvariance, <1>1, PTL DEF SubmissionSpec, SubmittedByItsClaim, ByClaim

\* RetryAccepted: a claim that has a run finds it again and may complete it with
\* the report it promised; a claim that has none may be given one, exactly when
\* every directory beside it can be attributed.
THEOREM RetryPossible == SubmissionSpec => []RetryAccepted
  <1>1. ASSUME SInv PROVE RetryAccepted
    <2> DEFINE a == st.attempt
    <2> SUFFICES ASSUME NEW h \in Reports, st.status = "in_progress", a # 0,
                        \A r \in FindAttemptRun(a) : runs[r].promised \in {0, h}
                 PROVE  Accepts(h) <=> FindAttemptRun(a) # {} \/ Attributable
      BY DEF RetryAccepted
    <2>1. st.reserved \in 0..MaxRuns BY <1>1 DEF SInv, SubmissionTypeOK, BlockStates
    <2>2. st.reserved # 0 => st.reserved \in FindAttemptRun(a)
      BY <1>1, <2>1, SubmissionAssumption
      DEF SInv, StateInv, RunInv, RunOK, FindAttemptRun, Runs
    <2>3. CASE FindAttemptRun(a) # {}
      <3>1. PICK r \in FindAttemptRun(a) : TRUE BY <2>3
      <3>2. r \in Runs /\ runs[r].attempt = a BY <3>1 DEF FindAttemptRun
      <3>3. RunOK(runs[r]) /\ h # 0 BY <1>1, <3>2, SubmissionAssumption DEF SInv, RunInv
      <3>4. FindAttemptRun(a) = {r}
        BY <1>1, <3>1, <3>2 DEF FindAttemptRun, SInv, OneRunPerAttempt
      <3>5. st.reserved # 0 => st.reserved = r BY <2>2, <3>4
      <3>6. {r} = Candidates(a, 0) BY <3>4, <3>5 DEF Candidates, ReservedRun
      <3>7. Cardinality({r}) <= 1
        <4>1. Cardinality({r}) = 1 BY FS_Singleton, Zenon
        <4> QED BY <4>1
      <3>8. ~AttemptConflicts(r, a) /\ ~Ambiguous(r, a)
        BY <3>2 DEF AttemptConflicts, Ambiguous
      <3>9. runs[r].promised \in {0, h} BY <3>1
      <3>10. runs[r].hash \in {0, h} BY <3>2, <3>3, <3>9 DEF RunOK
      <3>11. ~ReportConflicts(r, h) BY <3>9, <3>10 DEF ReportConflicts
      <3>12. HasSubmittedResult(r, h) => runs[r].report = h
        BY <3>3 DEF HasSubmittedResult, RunOK
      <3>13. Resolves({r}, TRUE, a, h, 0)
        BY <3>6, <3>7, <3>8, <3>11, <3>12 DEF Resolves
      <3>14. {r} \in SUBSET Runs BY <3>2
      <3> QED BY <2>3, <3>13, <3>14 DEF Accepts
    <2>4. CASE FindAttemptRun(a) = {}
      <3>1. st.reserved = 0 BY <2>2, <2>4
      <3>2. Candidates(a, 0) = {} BY <2>4, <3>1 DEF Candidates, ReservedRun
      <3>3. Cardinality({}) <= 1 BY FS_EmptySet, SMT
      <3>4. ASSUME NEW found PROVE Resolves(found, TRUE, a, h, 0) <=> found = {} /\ Attributable
        BY <3>2, <3>3 DEF Resolves
      <3> QED BY <2>4, <3>4 DEF Accepts
    <2> QED BY <2>3, <2>4
  <1> QED BY SubmissionInvariance, <1>1, PTL

-----------------------------------------------------------------------------
(* The count of the index. *)

Results == {r \in Runs : runs[r].hash # 0}
IsRecord(run) == run.meta /\ run.attempt = 0 /\ run.hash = 0
NoRecord == \A r \in Runs : ~IsRecord(runs[r])

\* The runs the index may have counted: a result of the present claim only if
\* the index names it, and never the one that is about to be counted.
OfPresentClaim(r) == runs[r].attempt # 0 /\ runs[r].attempt \in {st.attempt, st.owner}
Countable ==
    {r \in Results : /\ r = index.latest \/ ~OfPresentClaim(r)
                     /\ ~(sub.pc = "index" /\ r = sub.run)}

\* The claim is bound to the attempt whose result it has, or is about to have.
BoundInv ==
    /\ sub.pc \in {"report", "finish", "index"} => st.attempt = sub.id
    /\ sub.pc \in {"index", "reindex"} /\ st.status # "completed" => sub.id # 0
    /\ \A r \in Results : st.owner # 0 /\ runs[r].attempt = st.owner => st.attempt = st.owner
    /\ sub.pc = "point" => IsRecord(runs[sub.run])

CountInv ==
    NoRecord => /\ index.latest = 0 => index.count = 0
                /\ index.count <= Cardinality(Countable)

\* What a step that leaves the index alone may do.
Steady ==
    /\ index' = index
    /\ \A r \in Runs : /\ runs[r].hash # 0 => /\ runs'[r].hash # 0
                                              /\ runs'[r].attempt = runs[r].attempt
                       /\ IsRecord(runs[r]) => IsRecord(runs'[r])
    /\ {st'.attempt, st'.owner} \subseteq {st.attempt, st.owner, 0, ids + 1}
    /\ sub'.pc = "index" => sub'.run \in Runs /\ runs[sub'.run].hash = 0

\* There are finitely many runs.
LEMMA RunsFinite ==
    ASSUME NEW S, S \subseteq Runs
    PROVE  /\ IsFiniteSet(S) /\ Cardinality(S) \in Nat
           /\ \A T \in SUBSET S : Cardinality(T) \in Nat /\ Cardinality(T) <= Cardinality(S)
  <1>1. IsFiniteSet(Runs) BY FS_Interval, SubmissionAssumption DEF Runs
  <1>2. IsFiniteSet(S) BY <1>1, FS_Subset
  <1> QED BY <1>2, FS_Subset, FS_CardinalityType

\* If the index stays, nothing it may have counted ceases to be countable.
LEMMA SteadyCounts ==
    ASSUME SInv, CountInv, Steady
    PROVE  CountInv'
  <1> SUFFICES ASSUME NoRecord' PROVE /\ index'.latest = 0 => index'.count = 0
                                      /\ index'.count <= Cardinality(Countable')
    BY DEF CountInv
  <1>1. NoRecord BY DEF NoRecord, Steady
  <1>2. ASSUME NEW r \in Countable PROVE r \in Countable'
    <2>1. /\ r \in Runs /\ runs[r].hash # 0 /\ runs'[r].hash # 0
          /\ runs'[r].attempt = runs[r].attempt
          /\ r = index.latest \/ ~OfPresentClaim(r)
      BY <1>2 DEF Countable, Results, Steady
    <2>2. ~(sub'.pc = "index" /\ r = sub'.run) BY <2>1 DEF Steady
    <2>3. runs[r].attempt # 0 => runs[r].attempt <= ids BY <2>1 DEF SInv, RunInv, RunOK
    <2>4. runs[r].attempt \in 0..MaxIds /\ ids \in 0..MaxIds
      BY <2>1 DEF SInv, SubmissionTypeOK, RunStates
    <2>5. ids \in Nat /\ runs[r].attempt \in Nat BY <2>4, SubmissionAssumption
    <2>6. runs[r].attempt # 0 => runs[r].attempt # ids + 1 BY <2>3, <2>5
    <2>7. OfPresentClaim(r)' => OfPresentClaim(r)
      BY <2>1, <2>6 DEF OfPresentClaim, Steady
    <2> QED BY <2>1, <2>2, <2>7 DEF Countable, Results, Steady
  <1>3. Countable \subseteq Countable' BY <1>2
  <1>4. Countable' \subseteq Runs BY DEF Countable, Results
  <1>5. /\ Cardinality(Countable) <= Cardinality(Countable')
        /\ Cardinality(Countable) \in Nat /\ Cardinality(Countable') \in Nat
    BY <1>3, <1>4, RunsFinite
  <1>6. index \in [latest : 0..MaxRuns, count : Nat] /\ index' = index
    BY DEF SInv, SubmissionTypeOK, Steady
  <1> QED BY <1>1, <1>5, <1>6 DEF CountInv

\* UpdateIndex and RecountIndex: a run that is counted was not countable before,
\* since it is the one result of the claim and the index does not name it.
LEMMA IndexCounts ==
    ASSUME SInv, BoundInv, CountInv, UpdateIndex \/ RecountIndex
    PROVE  CountInv'
  <1> DEFINE s == sub.run
  <1>0. sub.pc \in {"index", "reindex"} BY DEF UpdateIndex, RecountIndex
  <1>1. /\ sub \in Subs /\ s \in Runs /\ s # 0
        /\ index \in [latest : 0..MaxRuns, count : Nat] /\ index.count \in Nat
    BY <1>0, SubmissionAssumption DEF SInv, SubmissionTypeOK, WriteInv, Subs, Runs
  <1>2. /\ UNCHANGED <<st, runs, ids>> /\ sub' = [sub EXCEPT !.pc = "commit"]
        /\ \/ index' = index
           \/ /\ index' = [latest |-> s, count |-> index.count + 1]
              /\ sub.pc = "index" \/ index.latest # s
    BY <1>1 DEF UpdateIndex, RecountIndex, WriteIndex, Then
  <1>3. sub'.pc = "commit" /\ UNCHANGED <<st, runs, ids>> BY <1>1, <1>2 DEF Subs
  <1>4. CASE index' = index
    <2>1. Steady BY <1>3, <1>4 DEF Steady, IsRecord
    <2> QED BY <2>1, SteadyCounts
  <1>5. CASE /\ index' = [latest |-> s, count |-> index.count + 1]
             /\ sub.pc = "index" \/ index.latest # s
    <2> SUFFICES ASSUME NoRecord' PROVE index'.count <= Cardinality(Countable')
      BY <1>1, <1>5 DEF CountInv
    <2>1. NoRecord BY <1>3 DEF NoRecord, IsRecord
    <2>2. /\ index.latest = 0 => index.count = 0
          /\ index.count <= Cardinality(Countable)
      BY <2>1 DEF CountInv
    <2>3. runs[s].hash # 0 BY <1>0 DEF SInv, WriteInv
    <2>4. s \in Countable' /\ Countable' \subseteq Runs
      BY <1>1, <1>3, <1>5, <2>3 DEF Countable, Results
    <2>5. sub.kind \in {"local", "remote"} BY <1>0, <1>1 DEF SInv, HolderInv, Subs, Kinds
    <2>6. CASE st.status = "completed"
      <3>1. sub.pc = "reindex" /\ index.latest \in {0, s}
        BY <1>0, <2>5, <2>6 DEF SInv, HolderInv, StateInv
      <3>2. index'.count = 1 BY <1>1, <1>5, <2>2, <3>1
      <3>3. Cardinality({s}) <= Cardinality(Countable') BY <2>4, RunsFinite
      <3> QED BY <3>2, <3>3, FS_Singleton
    <2>7. CASE st.status # "completed"
      <3>1. /\ sub.id # 0 /\ sub.id = ClaimId /\ runs[s].attempt = sub.id
        BY <1>0, <2>5, <2>7 DEF SInv, HolderInv, WriteInv, BoundInv
      <3>2. s \in Results BY <1>1, <2>3 DEF Results
      <3>3. {st.attempt, st.owner} \subseteq {0, sub.id} /\ sub.id \in {st.attempt, st.owner}
        BY <3>1, <3>2 DEF ClaimId, BoundInv
      <3>4. s \notin Countable
        BY <1>5, <3>1, <3>3 DEF Countable, OfPresentClaim
      <3>5. ASSUME NEW r \in Countable PROVE r \in Countable'
        <4>1. r \in Runs /\ runs[r].hash # 0 /\ r # s BY <3>4, <3>5 DEF Countable, Results
        <4>2. ~OfPresentClaim(r)
          BY <1>1, <3>1, <3>3, <4>1 DEF OfPresentClaim, SInv, OneRunPerAttempt
        <4> QED BY <1>3, <4>1, <4>2 DEF Countable, Results, OfPresentClaim
      <3>6. Countable \cup {s} \subseteq Countable' BY <2>4, <3>5
      <3>7. IsFiniteSet(Countable) /\ Cardinality(Countable) \in Nat
        BY RunsFinite DEF Countable, Results
      <3>8. Cardinality(Countable \cup {s}) = Cardinality(Countable) + 1
        BY <3>4, <3>7, FS_AddElement
      <3>9. Cardinality(Countable) + 1 <= Cardinality(Countable') /\ Cardinality(Countable') \in Nat
        BY <2>4, <3>6, <3>8, RunsFinite
      <3>10. index'.count = index.count + 1 BY <1>5
      <3> QED BY <1>1, <2>2, <3>7, <3>9, <3>10
    <2> QED BY <2>6, <2>7
  <1> QED BY <1>2, <1>4, <1>5

\* PointIndex moves the index to a record; RepairIndex fills an index that has
\* counted nothing.
LEMMA OtherIndexCounts ==
    ASSUME SInv, BoundInv, CountInv, PointIndex \/ RepairIndex
    PROVE  CountInv'
  <1>1. CASE PointIndex
    <2>1. sub.pc = "point" /\ runs' = runs BY <1>1 DEF PointIndex, WriteIndex
    <2>2. sub.run \in Runs
      BY <2>1, SubmissionAssumption DEF SInv, SubmissionTypeOK, Subs, WriteInv, Runs
    <2> QED BY <2>1, <2>2 DEF BoundInv, CountInv, NoRecord
  <1>2. CASE RepairIndex
    <2>1. /\ index.latest = 0 /\ st.last # 0 /\ runs' = runs
          /\ index' = [index EXCEPT !.latest = st.last]
      BY <1>2 DEF RepairIndex, WriteIndex
    <2>2. index'.latest = st.last /\ index'.count = index.count
      BY <2>1 DEF SInv, SubmissionTypeOK
    <2>3. Cardinality(Countable') \in Nat BY RunsFinite DEF Countable, Results
    <2> QED BY <2>1, <2>2, <2>3 DEF CountInv, NoRecord
  <1> QED BY <1>1, <1>2

\* A step that writes state.json: the claim keeps its identities, loses them,
\* gets a fresh one, or is bound to the attempt of its owner.
LEMMA StateCounts ==
    ASSUME SInv, BoundInv, UNCHANGED <<runs, index>>,
           \/ st'.owner = 0 /\ st'.attempt \in {st.attempt, 0, ids + 1}
           \/ st'.owner = ids + 1 /\ st'.attempt = st.attempt
           \/ st'.owner = st.owner /\ st'.attempt \in {st.attempt, st.owner},
           sub'.pc \notin {"finish", "index", "reindex", "point"},
           sub'.pc = "report" => st'.attempt = sub'.id
    PROVE  BoundInv' /\ Steady
  <1>1. Steady BY DEF Steady
  <1>2. ASSUME NEW r \in Runs PROVE runs[r].attempt # ids + 1
    <2>1. runs[r].attempt # 0 => runs[r].attempt <= ids BY DEF SInv, RunInv, RunOK
    <2>2. runs[r].attempt \in 0..MaxIds /\ ids \in 0..MaxIds
      BY DEF SInv, SubmissionTypeOK, RunStates
    <2> QED BY <2>1, <2>2, SubmissionAssumption
  <1>3. \A r \in Results' : st'.owner # 0 /\ runs'[r].attempt = st'.owner => st'.attempt = st'.owner
    BY <1>2 DEF BoundInv, Results
  <1> QED BY <1>1, <1>3 DEF BoundInv

\* A step that writes one run directory which has no result and is no record.
LEMMA RunCounts ==
    ASSUME SInv, BoundInv, UNCHANGED <<st, index, ids>>,
           NEW r \in Runs, NEW v, runs' = [runs EXCEPT ![r] = v],
           ~Recorded(r), runs[r].hash = 0,
           v.hash # 0 => v.attempt = st.attempt,
           sub'.pc = "index" => sub'.run = r,
           sub'.pc \in {"report", "finish", "index"} => st.attempt = sub'.id,
           sub'.pc \in {"index", "reindex"} => sub'.id # 0,
           sub'.pc = "point" => sub'.run = r /\ IsRecord(v)
    PROVE  BoundInv' /\ Steady
  <1>1. runs'[r] = v /\ \A s \in Runs : s # r => runs'[s] = runs[s]
    BY DEF SInv, SubmissionTypeOK
  <1>2. ~IsRecord(runs[r]) BY DEF IsRecord, Recorded
  <1>3. Steady BY <1>1, <1>2 DEF Steady
  <1>4. \A s \in Results' : st'.owner # 0 /\ runs'[s].attempt = st'.owner => st'.attempt = st'.owner
    BY <1>1 DEF BoundInv, Results
  <1> QED BY <1>1, <1>3, <1>4 DEF BoundInv

\* A step that only moves the holder of the lock.
LEMMA HolderCounts ==
    ASSUME SInv, BoundInv, UNCHANGED <<st, runs, index, ids>>,
           sub'.pc \notin {"report", "finish", "index", "point"},
           sub'.pc = "reindex" /\ st.status # "completed" => sub'.id # 0
    PROVE  BoundInv' /\ Steady
  <1>1. Steady BY DEF Steady
  <1>2. BoundInv' BY DEF BoundInv, Results
  <1> QED BY <1>1, <1>2

\* Claims, overrides and the other operations that only write state.json.
LEMMA BlockCounts ==
    ASSUME SInv, BoundInv,
           \/ ClaimLocal \/ ClaimRemote \/ InterruptRemote \/ ResumeRemote \/ RetryRemote
           \/ MarkBlocked \/ MarkDiverged \/ Reopen \/ Release \/ RepairState
           \/ \E id \in Ids : SourceDrift(id)
    PROVE  BoundInv' /\ Steady
  <1>1. /\ sub' = Idle /\ UNCHANGED <<runs, index>>
    BY DEF ClaimLocal, ClaimRemote, InterruptRemote, ResumeRemote, RetryRemote, MarkBlocked,
           MarkDiverged, Reopen, Release, RepairState, SourceDrift, Atomically, WriteState
  <1>2. st \in BlockStates /\ (st.owner # 0 => st.status \in {"in_progress", "diverged"})
    BY DEF SInv, SubmissionTypeOK
  <1>3. \/ st'.owner = 0 /\ st'.attempt \in {st.attempt, 0, ids + 1}
        \/ st'.owner = ids + 1 /\ st'.attempt = st.attempt
        \/ st'.owner = st.owner /\ st'.attempt \in {st.attempt, st.owner}
    <2>1. CASE ClaimLocal
      <3>1. st.owner = 0 BY <1>2, <2>1 DEF ClaimLocal
      <3> QED BY <1>2, <2>1, <3>1 DEF ClaimLocal, ClaimedBlock, Atomically, WriteState, BlockStates
    <2>2. CASE ClaimRemote \/ RetryRemote
      BY <1>2, <2>2 DEF ClaimRemote, RetryRemote, Atomically, WriteState, BlockStates
    <2>3. CASE InterruptRemote \/ ResumeRemote \/ MarkDiverged \/ \E id \in Ids : SourceDrift(id)
      BY <1>2, <2>3 DEF InterruptRemote, ResumeRemote, MarkDiverged, SourceDrift, Atomically,
                        WriteState, BlockStates
    <2>4. CASE MarkBlocked \/ Reopen \/ Release
      BY <1>2, <2>4 DEF MarkBlocked, Reopen, Release, Without, Atomically, WriteState, BlockStates
    <2>5. CASE RepairState
      BY <2>5 DEF RepairState, RepairedBlock, FreshBlock, Atomically, WriteState
    <2> QED BY <2>1, <2>2, <2>3, <2>4, <2>5
  <1>4. sub'.pc = "idle" BY <1>1 DEF Idle
  <1> QED BY <1>1, <1>3, <1>4, StateCounts

\* The start of a submission finds a result only under an attempt, unless the
\* block is completed.
LEMMA StartCounts ==
    ASSUME SInv, BoundInv, UNCHANGED <<st, runs, index, ids>>,
           NEW kind, NEW a \in 0..MaxIds, NEW explicit \in 0..MaxRuns,
           explicit # 0 => runs[explicit].attempt = a /\ a # 0,
           NEW h, NEW found \in SUBSET Runs, NEW local,
           Resolves(found, local, a, h, explicit), Start(kind, a, h, found)
    PROVE  BoundInv' /\ Steady
  <1>1. found = Candidates(a, explicit) BY DEF Resolves
  <1>2. \A r : FirstWrite(a, r) \in {"identify", "reserve", "mkdir"} BY DEF FirstWrite
  <1>3. /\ sub'.pc \in {"identify", "reserve", "mkdir", "reindex"} /\ sub'.id = a
        /\ sub'.pc = "reindex" => found # {}
    BY <1>2 DEF Start
  <1>4. found # {} /\ st.status # "completed" => a # 0 BY <1>1, FoundRun
  <1> QED BY <1>3, <1>4, HolderCounts

\* The holder of the lock begins, or dies.
LEMMA BeginCounts ==
    ASSUME SInv, BoundInv,
           \/ \E h \in Reports : \/ SubmitFromCommandLine(h)
                                 \/ \E r \in Runs : SubmitFromExecutor(h, r)
                                 \/ \E id \in Ids : SubmitRemote(id, h)
           \/ \E captured \in Ids : Prepare(captured)
           \/ \E id \in Ids : \/ RecordRemote(id, "failure")
                              \/ RecordRemote(id, "interruption")
           \/ Crash
    PROVE  BoundInv' /\ Steady
  <1> USE SubmissionAssumption, Absent
  <1>0. st.attempt \in 0..MaxIds BY DEF SInv, SubmissionTypeOK, BlockStates
  <1>1. ASSUME NEW h, NEW explicit \in 0..MaxRuns, NEW captured,
               SubmitLocal(h, explicit, captured),
               explicit # 0 => runs[explicit].attempt = st.attempt /\ st.attempt # 0
        PROVE  BoundInv' /\ Steady
    <2>1. PICK found \in SUBSET Runs : /\ Resolves(found, TRUE, st.attempt, h, explicit)
                                       /\ Start("local", st.attempt, h, found)
      BY <1>1 DEF SubmitLocal
    <2>2. UNCHANGED <<st, runs, index, ids>> BY <1>1 DEF SubmitLocal
    <2> QED BY <1>0, <1>1, <2>1, <2>2, StartCounts
  <1>2. ASSUME NEW h \in Reports, SubmitFromCommandLine(h) PROVE BoundInv' /\ Steady
    BY <1>1, <1>2 DEF SubmitFromCommandLine
  <1>3. ASSUME NEW h \in Reports, NEW r \in Runs, SubmitFromExecutor(h, r)
        PROVE  BoundInv' /\ Steady
    <2>1. SubmitLocal(h, r, runs[r].attempt) /\ runs[r].attempt # 0
      BY <1>3 DEF SubmitFromExecutor
    <2>2. runs[r].attempt = st.attempt BY <2>1 DEF SubmitLocal
    <2> QED BY <1>1, <2>1, <2>2
  <1>4. ASSUME NEW h \in Reports, NEW id \in Ids, SubmitRemote(id, h)
        PROVE  BoundInv' /\ Steady
    <2>1. PICK found \in SUBSET Runs : Resolves(found, FALSE, id, h, 0)
                                       /\ Start("remote", id, h, found)
      BY <1>4 DEF SubmitRemote
    <2>2. UNCHANGED <<st, runs, index, ids>> BY <1>4 DEF SubmitRemote
    <2> QED BY <2>1, <2>2, StartCounts
  <1>5. CASE \/ \E captured \in Ids : Prepare(captured)
             \/ \E id \in Ids : \/ RecordRemote(id, "failure")
                                \/ RecordRemote(id, "interruption")
    <2>1. UNCHANGED <<st, runs, index, ids>> /\ sub'.pc = "mkdir"
      BY <1>5 DEF Prepare, RecordRemote, Idle
    <2> QED BY <2>1, HolderCounts
  <1>6. CASE Crash
    <2>1. UNCHANGED <<st, runs, index, ids>> /\ sub'.pc = "idle"
      BY <1>6 DEF Crash, Done, Idle
    <2> QED BY <2>1, HolderCounts
  <1> QED BY <1>2, <1>3, <1>4, <1>5, <1>6

\* The writes of a submission or a record to state.json.
LEMMA HeldStateCounts ==
    ASSUME SInv, BoundInv, Identify \/ Bind \/ CommitResult \/ EndFailed \/ EndInterrupted
    PROVE  BoundInv' /\ Steady
  <1>0. st \in BlockStates /\ sub \in Subs BY DEF SInv, SubmissionTypeOK
  <1>1. CASE Identify
    <2>1. /\ UNCHANGED <<runs, index>> /\ sub.pc = "identify"
          /\ st' = [st EXCEPT !.attempt = ids + 1]
          /\ sub' = [sub EXCEPT !.id = ids + 1, !.pc = FirstWrite(ids + 1, sub.run)]
      BY <1>1 DEF Identify, WriteState
    <2>2. st.owner = 0
      BY <1>0, <2>1 DEF SInv, HolderInv, WriteInv, ClaimId, Subs, Kinds
    <2>3. st'.owner = 0 /\ st'.attempt = ids + 1 BY <1>0, <2>1, <2>2 DEF BlockStates
    <2>4. sub'.pc \in {"identify", "reserve", "mkdir"} BY <1>0, <2>1 DEF FirstWrite, Subs
    <2> QED BY <2>1, <2>3, <2>4, StateCounts
  <1>2. CASE Bind
    <2>1. /\ UNCHANGED <<runs, index>> /\ sub.pc = "bind"
          /\ st' = [st EXCEPT !.attempt = sub.id, !.reserved = sub.run]
          /\ sub' = [sub EXCEPT !.pc = "report"]
      BY <1>2 DEF Bind, WriteState, Then
    <2>2. sub.id = ClaimId BY <1>0, <2>1 DEF SInv, HolderInv, Subs, Kinds
    <2>3. st'.owner = st.owner /\ st'.attempt = sub.id /\ sub'.pc = "report" /\ sub'.id = sub.id
      BY <1>0, <2>1 DEF BlockStates, Subs
    <2> QED BY <2>1, <2>2, <2>3, StateCounts DEF ClaimId
  <1>3. CASE CommitResult \/ EndFailed \/ EndInterrupted
    <2>1. /\ UNCHANGED <<runs, index>> /\ sub'.pc = "idle"
      BY <1>3 DEF CommitResult, EndFailed, EndInterrupted, WriteState, Done, Idle
    <2>2. st'.owner \in {0, st.owner} /\ st'.attempt = st.attempt
      BY <1>0, <1>3 DEF CommitResult, EndFailed, EndInterrupted, WriteState, Without, BlockStates
    <2> QED BY <2>1, <2>2, StateCounts
  <1> QED BY <1>1, <1>2, <1>3

\* The writes of a submission, a preparation or a record to the run directory.
LEMMA RunWriteCounts ==
    ASSUME SInv, BoundInv,
           \/ MakeRunDirectory \/ Reserve \/ WriteReport \/ FinishMetadata
           \/ PrepareMetadata \/ RecordMetadata \/ ReserveFails \/ TearReport
    PROVE  BoundInv' /\ Steady
  <1>0. sub \in Subs /\ runs \in [Runs -> RunStates] BY DEF SInv, SubmissionTypeOK
  <1>1. CASE MakeRunDirectory
    <2> DEFINE v == [NoRun EXCEPT !.dir = TRUE]
    <2>1. sub.run = 0 BY <1>1 DEF MakeRunDirectory, SInv, WriteInv
    <2>2. PICK r \in Runs : /\ ~runs[r].dir /\ runs' = [runs EXCEPT ![r] = v]
                            /\ sub' = [sub EXCEPT !.run = r, !.pc = AfterMkdir(sub.kind)]
      BY <1>1, <2>1 DEF MakeRunDirectory, Allocates, Free, WriteRun
    <2>3. UNCHANGED <<st, index, ids>> BY <1>1 DEF MakeRunDirectory, WriteRun
    <2>4. v.hash = 0 BY DEF NoRun
    <2>5. ~Recorded(r) /\ runs[r].hash = 0 BY <2>2 DEF Recorded, SInv, RunInv, RunOK
    <2>6. sub'.pc \in {"reserve", "prepare", "record"} BY <1>0, <2>2 DEF AfterMkdir, Subs
    <2> HIDE DEF v
    <2> QED BY <2>2, <2>3, <2>4, <2>5, <2>6, RunCounts
  <1>2. ASSUME NEW v, WriteRun(sub.run, v), v.hash = 0, UNCHANGED ids,
               sub.pc \in {"reserve", "prepare", "bind", "report", "finish", "record"},
               \/ sub'.pc \in {"bind", "idle"}
               \/ sub'.pc = "finish" /\ sub.pc = "report" /\ sub'.id = sub.id
               \/ sub'.pc = "point" /\ sub'.run = sub.run /\ IsRecord(v)
        PROVE  BoundInv' /\ Steady
    <2> DEFINE r == sub.run
    <2>1. r \in Runs /\ ~Recorded(r) /\ runs[r].hash = 0 BY <1>2, WrittenRun
    <2>2. UNCHANGED <<st, index, ids>> /\ runs' = [runs EXCEPT ![r] = v]
      BY <1>2 DEF WriteRun
    <2>3. sub'.pc = "finish" => st.attempt = sub'.id BY <1>2 DEF BoundInv
    <2>4. sub'.pc = "point" => sub'.run = r /\ IsRecord(v) BY <1>2
    <2>5. sub'.pc \notin {"report", "index", "reindex"} BY <1>2
    <2> HIDE DEF r
    <2> QED BY <1>2, <2>1, <2>2, <2>3, <2>4, <2>5, RunCounts
  <1>3. ASSUME sub.pc \in {"reserve", "prepare", "bind", "report", "finish", "record"}
        PROVE  runs[sub.run] \in RunStates /\ runs[sub.run].hash = 0 /\ RunOK(runs[sub.run])
    BY <1>3, WrittenRun
  <1>4. CASE Reserve
    <2> DEFINE v == [runs[sub.run] EXCEPT !.meta = TRUE, !.attempt = sub.id,
                                          !.promised = sub.report]
    <2>1. sub.pc = "reserve" /\ WriteRun(sub.run, v) /\ UNCHANGED ids /\ sub'.pc = "bind"
      BY <1>0, <1>4 DEF Reserve, Then, Subs
    <2>2. v.hash = 0 BY <1>3, <2>1 DEF RunStates
    <2> HIDE DEF v
    <2> QED BY <1>2, <2>1, <2>2
  <1>5. CASE WriteReport
    <2> DEFINE v == [runs[sub.run] EXCEPT !.report = sub.report]
    <2>1. /\ sub.pc = "report" /\ WriteRun(sub.run, v) /\ UNCHANGED ids
          /\ sub'.pc = "finish" /\ sub'.id = sub.id
      BY <1>0, <1>5 DEF WriteReport, Then, Subs
    <2>2. v.hash = 0 BY <1>3, <2>1 DEF RunStates
    <2> HIDE DEF v
    <2> QED BY <1>2, <2>1, <2>2
  <1>6. CASE TearReport
    <2> DEFINE v == [runs[sub.run] EXCEPT !.report = Torn]
    <2>1. /\ sub.pc = "report" /\ WriteRun(sub.run, v) /\ UNCHANGED ids /\ sub'.pc = "idle"
      BY <1>6 DEF TearReport, Done, Idle
    <2>2. v.hash = 0 BY <1>3, <2>1 DEF RunStates
    <2> HIDE DEF v
    <2> QED BY <1>2, <2>1, <2>2
  <1>7. CASE PrepareMetadata
    <2> DEFINE v == [runs[sub.run] EXCEPT !.meta = TRUE, !.attempt = sub.id]
    <2>1. /\ sub.pc = "prepare" /\ WriteRun(sub.run, v) /\ UNCHANGED ids /\ sub'.pc = "idle"
      BY <1>7 DEF PrepareMetadata, Done, Idle
    <2>2. v.hash = 0 BY <1>3, <2>1 DEF RunStates
    <2> HIDE DEF v
    <2> QED BY <1>2, <2>1, <2>2
  <1>8. CASE RecordMetadata
    <2> DEFINE v == [runs[sub.run] EXCEPT !.meta = TRUE]
    <2>1. /\ sub.pc = "record" /\ WriteRun(sub.run, v) /\ UNCHANGED ids
          /\ sub'.pc = "point" /\ sub'.run = sub.run
      BY <1>0, <1>8 DEF RecordMetadata, Then, Subs
    <2>2. ~runs[sub.run].meta BY <2>1 DEF SInv, WriteInv
    <2>3. v.hash = 0 /\ IsRecord(v) BY <1>3, <2>1, <2>2 DEF RunStates, RunOK, IsRecord
    <2> HIDE DEF v
    <2> QED BY <1>2, <2>1, <2>3
  <1>9. CASE ReserveFails
    <2>1. /\ sub.pc \in {"reserve", "prepare"} /\ WriteRun(sub.run, NoRun) /\ UNCHANGED ids
          /\ sub'.pc = "idle" /\ NoRun.hash = 0
      BY <1>9 DEF ReserveFails, Done, Idle, NoRun
    <2> QED BY <1>2, <2>1
  <1>10. CASE FinishMetadata
    <2> DEFINE r == sub.run
               v == [runs[r] EXCEPT !.hash = sub.report]
    <2>1. /\ sub.pc = "finish" /\ UNCHANGED <<st, index, ids>> /\ runs' = [runs EXCEPT ![r] = v]
          /\ sub'.pc = "index" /\ sub'.id = sub.id /\ sub'.run = r
      BY <1>0, <1>10 DEF FinishMetadata, WriteRun, Then, Subs
    <2>2. r \in Runs /\ ~Recorded(r) /\ runs[r].hash = 0 BY <2>1, WrittenRun
    <2>3. v.attempt = runs[r].attempt BY <1>3, <2>1 DEF RunStates
    <2>4. st.attempt = sub.id /\ v.attempt = st.attempt /\ sub.id # 0
      BY <2>1, <2>3 DEF BoundInv, SInv, WriteInv
    <2> HIDE DEF r, v
    <2> QED BY <2>1, <2>2, <2>4, RunCounts
  <1> QED BY <1>1, <1>4, <1>5, <1>6, <1>7, <1>8, <1>9, <1>10

\* The writes to the index bind nothing.
LEMMA IndexBound ==
    ASSUME SInv, BoundInv, UpdateIndex \/ RecountIndex \/ PointIndex \/ RepairIndex
    PROVE  BoundInv'
  <1>1. sub \in Subs BY DEF SInv, SubmissionTypeOK
  <1>2. UNCHANGED <<st, runs>>
    BY DEF UpdateIndex, RecountIndex, PointIndex, RepairIndex, WriteIndex
  <1>3. sub'.pc \in {"commit", "end", "idle"}
    BY <1>1 DEF UpdateIndex, RecountIndex, PointIndex, RepairIndex, Then, Idle, Subs
  <1> QED BY <1>2, <1>3 DEF BoundInv, Results

\* Every step keeps the count within the countable results.
LEMMA StepCounts ==
    ASSUME SInv, BoundInv, CountInv, [SubmissionNext]_svars
    PROVE  BoundInv' /\ CountInv'
  <1>1. CASE UpdateIndex \/ RecountIndex BY <1>1, IndexBound, IndexCounts
  <1>2. CASE PointIndex \/ RepairIndex BY <1>2, IndexBound, OtherIndexCounts
  <1>3. CASE BoundInv' /\ Steady BY <1>3, SteadyCounts
  <1>4. CASE UNCHANGED svars
    <2>1. UNCHANGED <<st, runs, index, ids, sub>> BY <1>4 DEF svars
    <2> QED BY <2>1 DEF BoundInv, CountInv, NoRecord, Countable, Results, OfPresentClaim
  <1>5. CASE LocalNext
    <2>1. CASE Submission
      BY <1>1, <1>3, <2>1, HeldStateCounts, RunWriteCounts DEF Submission
    <2>2. CASE ~Submission
      BY <1>3, <1>5, <2>2, BeginCounts, BlockCounts, RunWriteCounts DEF LocalNext
    <2> QED BY <2>1, <2>2
  <1>6. CASE RemoteNext
    <2>1. CASE Record
      BY <1>2, <1>3, <2>1, HeldStateCounts, RunWriteCounts DEF Record
    <2>2. CASE ~Record
      BY <1>3, <1>6, <2>2, BeginCounts, BlockCounts DEF RemoteNext
    <2> QED BY <2>1, <2>2
  <1>7. CASE Fault BY <1>3, <1>7, BeginCounts, RunWriteCounts DEF Fault
  <1>8. CASE RepairState \/ RepairIndex BY <1>2, <1>3, <1>8, BlockCounts
  <1> QED BY <1>4, <1>5, <1>6, <1>7, <1>8 DEF SubmissionNext

\* CountsOnce: without a record of a remote attempt the index counts no run
\* twice, however often submissions are cut off, repeated, superseded by other
\* claims and repaired: at most the result of the present claim is uncounted,
\* and only that one is counted when it is submitted again.
THEOREM CountedOnce == SubmissionSpec => []CountsOnce
  <1>1. Init => BoundInv /\ CountInv
    <2> SUFFICES ASSUME Init PROVE BoundInv /\ CountInv OBVIOUS
    <2>1. index = [latest |-> 0, count |-> 0] /\ sub = Idle BY DEF Init
    <2>2. st.owner = 0
      <3>1. \/ st = FreshBlock \/ st = [FreshBlock EXCEPT !.status = "in_progress"]
            \/ st = [FreshBlock EXCEPT !.status = "completed", !.last = 1]
        BY DEF Init
      <3>2. FreshBlock \in BlockStates /\ FreshBlock.owner = 0
        BY SubmissionAssumption, Absent DEF FreshBlock, BlockStates
      <3> QED BY <3>1, <3>2 DEF BlockStates
    <2>3. Cardinality(Countable) \in Nat BY RunsFinite DEF Countable, Results
    <2> QED BY <2>1, <2>2, <2>3 DEF BoundInv, CountInv, Idle
  <1>2. SInv /\ BoundInv /\ CountInv /\ [SubmissionNext]_svars => BoundInv' /\ CountInv'
    BY StepCounts
  <1>3. ASSUME SInv, CountInv PROVE CountsOnce
    <2> SUFFICES ASSUME \A r \in Runs : runs[r].meta => runs[r].attempt # 0 \/ runs[r].hash # 0
                 PROVE  index.count <= Cardinality(Results)
      BY DEF CountsOnce, Results
    <2>1. index.count <= Cardinality(Countable) BY <1>3 DEF CountInv, NoRecord, IsRecord
    <2>2. /\ Cardinality(Countable) <= Cardinality(Results)
          /\ Cardinality(Countable) \in Nat /\ Cardinality(Results) \in Nat
      BY RunsFinite DEF Countable, Results
    <2>3. index.count \in Nat BY <1>3 DEF SInv, SubmissionTypeOK
    <2> QED BY <2>1, <2>2, <2>3
  <1> QED BY <1>1, <1>2, <1>3, SubmissionInvariance, PTL DEF SubmissionSpec

=============================================================================
