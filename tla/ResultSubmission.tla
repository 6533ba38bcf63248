-------------------------- MODULE ResultSubmission --------------------------
(***************************************************************************)
(* How the result of one implementation block reaches the disk             *)
(* (runtime/src/taskManager/blockSubmission.ts).  TaskRuntime takes a      *)
(* submission as one step on state.json; here it is the sequence of file   *)
(* writes it really is: the run directory, its metadata.json and report.md,*)
(* the task's index.json and state.json, with a crash possible between any *)
(* two of them.  The same directory is written by the preparation of an    *)
(* executor's run and by the record of a failed remote attempt.            *)
(*                                                                         *)
(* Run directories are RUN-001, RUN-002, ... as numbers; submission        *)
(* attempts and remote execution identities are numbers handed out in      *)
(* order, a report is its hash.  0 stands for an absent field everywhere.  *)
(***************************************************************************)
EXTENDS Naturals, FiniteSets

CONSTANTS
    Reports,     \* the hashes of the reports that may be submitted
    Torn,        \* a report.md whose write did not finish
    MaxRuns,     \* bound: run directories
    MaxIds       \* bound: submission attempts and remote identities

ASSUME SubmissionAssumption ==
    /\ MaxRuns \in Nat \ {0}
    /\ MaxIds \in Nat
    /\ 0 \notin Reports
    /\ Torn \notin Reports \cup {0}

VARIABLES
    st,      \* the block in state.json
    runs,    \* the run directories of the block
    index,   \* the block's part of the task's index.json
    ids,     \* how many identities were handed out
    sub      \* the operation that holds the canvas lock, and its next write

svars == <<st, runs, index, ids, sub>>

Runs == 1..MaxRuns
Ids == 1..MaxIds
Idle == [pc |-> "idle", kind |-> "none", id |-> 0, report |-> 0, run |-> 0]

Pcs == {"idle", "identify", "mkdir", "reserve", "bind", "report", "finish", "index",
        "reindex", "commit", "prepare", "record", "point", "end"}
Kinds == {"none", "local", "remote", "prepare", "failure", "interruption"}
Subs == [pc : Pcs, kind : Kinds, id : 0..MaxIds, report : Reports \cup {0}, run : 0..MaxRuns]

BlockStates ==
    [status : {"ready", "in_progress", "completed", "blocked", "diverged"},
     attempt : 0..MaxIds,        \* submissionAttemptId
     reserved : 0..MaxRuns,      \* submissionRunId
     last : 0..MaxRuns,          \* lastRunId
     owner : 0..MaxIds,          \* remoteOwnership, by its identity
     intr : {"none", "resumable", "manual"},
     receipt : 0..MaxIds]        \* remoteOperationReceipt, by its identity

\* dir: the directory exists; meta: metadata.json does, with the fields
\* submissionAttemptId, submissionReportHash and reportHash.
RunStates ==
    [dir : BOOLEAN, meta : BOOLEAN, attempt : 0..MaxIds,
     promised : Reports \cup {0}, hash : Reports \cup {0},
     report : Reports \cup {0, Torn}]

NoRun == [dir |-> FALSE, meta |-> FALSE, attempt |-> 0, promised |-> 0, hash |-> 0,
          report |-> 0]

FreshBlock == [status |-> "ready", attempt |-> 0, reserved |-> 0, last |-> 0,
               owner |-> 0, intr |-> "none", receipt |-> 0]

\* A block this version has not touched, one that an earlier version claimed
\* without a submissionAttemptId, or one it completed and whose index is lost.
Init ==
    /\ \/ st = FreshBlock /\ runs = [r \in Runs |-> NoRun]
       \/ st = [FreshBlock EXCEPT !.status = "in_progress"] /\ runs = [r \in Runs |-> NoRun]
       \/ \E h \in Reports :
            /\ st = [FreshBlock EXCEPT !.status = "completed", !.last = 1]
            /\ runs = [r \in Runs |-> IF r # 1 THEN NoRun
                                      ELSE [NoRun EXCEPT !.dir = TRUE, !.meta = TRUE,
                                                         !.hash = h, !.report = h]]
    /\ index = [latest |-> 0, count |-> 0]
    /\ ids = 0
    /\ sub = Idle

-----------------------------------------------------------------------------
(* Writes.  Each changes one file; the lock keeps other operations out.    *)

WriteState(s) == st' = s /\ UNCHANGED <<runs, index>>
WriteRun(r, run) == runs' = [runs EXCEPT ![r] = run] /\ UNCHANGED <<st, index>>
WriteIndex(i) == index' = i /\ UNCHANGED <<st, runs>>

Then(pc) == sub' = [sub EXCEPT !.pc = pc] /\ UNCHANGED ids
Done == sub' = Idle /\ UNCHANGED ids

\* An operation that only writes state.json.
Atomically(s) == sub = Idle /\ WriteState(s) /\ UNCHANGED sub

\* withoutRemoteBlockOwnership
Without(s, status) == [s EXCEPT !.status = status, !.owner = 0, !.intr = "none", !.receipt = 0]

\* allocateRunId: the count of the directories is where the search begins.
Free(r) == ~runs[r].dir /\ r > Cardinality({d \in Runs : runs[d].dir})
CanAllocate == \E r \in Runs : Free(r)
Allocates(r) == Free(r) /\ \A s \in Runs : Free(s) => r <= s

-----------------------------------------------------------------------------
(* Finding the run of a submission.  a is the submission attempt: the      *)
(* block's own for a local submission, the remote identity for a remote one*)

\* Mutant of FindAttemptRun: the directories are not searched.
FindAttemptRunNever(a) == {}

\* findAttemptRun
FindAttemptRun(a) == {r \in Runs : a # 0 /\ runs[r].meta /\ runs[r].attempt = a}

ReservedRun(a) == IF st.attempt = a THEN st.reserved ELSE 0

Candidates(a, explicit) ==
    IF explicit # 0 THEN {explicit}
    ELSE IF ReservedRun(a) # 0 THEN {ReservedRun(a)}
    ELSE IF st.status = "completed" /\ st.last # 0 THEN {st.last}
    ELSE FindAttemptRun(a)

AttemptConflicts(r, a) ==
    /\ runs[r].attempt \notin {0, a}
    /\ ~(a = 0 /\ st.status = "completed" /\ r = st.last)

\* A run without an attempt that the claim has not reserved.
Ambiguous(r, a) ==
    /\ runs[r].attempt = 0
    /\ st.status = "in_progress"
    /\ \/ runs[r].dir /\ ReservedRun(a) # r
       \/ runs[r].hash # 0 /\ r = st.last

\* A new local run is refused beside directories nobody can attribute.
Attributable ==
    \A r \in Runs : runs[r].dir /\ r # st.last => runs[r].meta /\ runs[r].attempt # 0

\* Mutant of ReportConflicts: another report replaces the one on disk.
ReportConflictsNever(r, h) == FALSE

ReportConflicts(r, h) == runs[r].hash \notin {0, h} \/ runs[r].promised \notin {0, h}

\* Mutant of HasSubmittedResult: a report on disk is enough.
HasSubmittedResultByReport(r, h) == runs[r].meta /\ runs[r].report # 0

\* runHasSubmittedResult
HasSubmittedResult(r, h) == runs[r].meta /\ runs[r].report # 0 /\ runs[r].hash = h

\* resolveSubmissionRun: found is {} or the one run to use, none is an error.
Resolves(found, local, a, h, explicit) ==
    /\ found = Candidates(a, explicit)
    /\ Cardinality(found) <= 1
    /\ explicit # 0 /\ ReservedRun(a) # 0 => explicit = ReservedRun(a)
    /\ found = {} /\ local /\ st.status = "in_progress" => Attributable
    /\ \A r \in found : /\ ~AttemptConflicts(r, a)
                        /\ ~Ambiguous(r, a)
                        /\ ~ReportConflicts(r, h)
                        /\ HasSubmittedResult(r, h) => runs[r].report = h
    /\ st.status = "completed" => found = {st.last}

-----------------------------------------------------------------------------
(* submitBlockResultArtifact. *)

\* The first write of a submission that has to make its result.
FirstWrite(a, r) ==
    IF a = 0 THEN "identify" ELSE IF r # 0 /\ runs[r].dir THEN "reserve" ELSE "mkdir"

\* Where a submission goes on: in a new run, in the run that was found, or, if
\* the same result is there already, with the index.
Start(kind, a, h, found) ==
    LET begin(pc, r) == [pc |-> pc, kind |-> kind, id |-> a, report |-> h, run |-> r]
    IN  \/ found = {} /\ CanAllocate /\ sub' = begin(FirstWrite(a, 0), 0)
        \/ \E r \in found :
            IF HasSubmittedResult(r, h) THEN sub' = begin("reindex", r)
            ELSE /\ kind = "local" => st.status = "in_progress"
                 /\ sub' = begin(FirstWrite(a, r), r)

LocalMayComplete == st.owner = 0 /\ st.receipt = 0 /\ st.status \in {"in_progress", "completed"}

\* explicit and captured are the run id and the submission attempt a caller
\* passes, 0 for none.
SubmitLocal(h, explicit, captured) ==
    /\ sub = Idle
    /\ LocalMayComplete
    /\ captured \in {0, st.attempt}
    /\ \E found \in SUBSET Runs :
        /\ Resolves(found, TRUE, st.attempt, h, explicit)
        /\ Start("local", st.attempt, h, found)
    /\ UNCHANGED <<st, runs, index, ids>>

SubmitFromCommandLine(h) == SubmitLocal(h, 0, 0)

\* Auto Run names the run it prepared and the attempt it was given with the
\* claim, which may have been superseded.
SubmitFromExecutor(h, r) ==
    /\ runs[r].meta
    /\ runs[r].attempt # 0
    /\ SubmitLocal(h, r, runs[r].attempt)

\* A host may write its result while working, or late after a resumable
\* interruption.
RemoteMayComplete(id) ==
    /\ st.receipt = 0
    /\ st.owner = id
    /\ st.status = "in_progress" \/ (st.status = "diverged" /\ st.intr = "resumable")

SubmitRemote(id, h) ==
    /\ sub = Idle
    /\ RemoteMayComplete(id)
    /\ \E found \in SUBSET Runs :
        /\ Resolves(found, FALSE, id, h, 0)
        /\ Start("remote", id, h, found)
    /\ UNCHANGED <<st, runs, index, ids>>

\* Any call of the owner that finds the source evidence changed.
SourceDrift(id) ==
    /\ st.owner = id
    /\ Atomically([st EXCEPT !.status = "diverged", !.intr = "none"])
    /\ UNCHANGED ids

\* A claim of an earlier version gets its attempt now.
Identify ==
    /\ sub.pc = "identify"
    /\ ids < MaxIds
    /\ WriteState([st EXCEPT !.attempt = ids + 1])
    /\ ids' = ids + 1
    /\ sub' = [sub EXCEPT !.id = ids + 1, !.pc = FirstWrite(ids + 1, sub.run)]

AfterMkdir(kind) ==
    CASE kind \in {"local", "remote"} -> "reserve"
      [] kind = "prepare" -> "prepare"
      [] OTHER -> "record"

MakeRunDirectory ==
    /\ sub.pc = "mkdir"
    /\ \E r \in Runs :
        /\ IF sub.run = 0 THEN Allocates(r) ELSE r = sub.run
        /\ WriteRun(r, [NoRun EXCEPT !.dir = TRUE])
        /\ sub' = [sub EXCEPT !.run = r, !.pc = AfterMkdir(sub.kind)]
    /\ UNCHANGED ids

\* Mutant of Reserve: a remote submission runs under the block's own attempt.
ReserveBlockAttempt ==
    /\ sub.pc = "reserve"
    /\ WriteRun(sub.run, [runs[sub.run] EXCEPT !.meta = TRUE, !.attempt = st.attempt,
                                               !.promised = sub.report])
    /\ Then("bind")

\* The first metadata.json of the run promises the report.
Reserve ==
    /\ sub.pc = "reserve"
    /\ WriteRun(sub.run, [runs[sub.run] EXCEPT !.meta = TRUE, !.attempt = sub.id,
                                               !.promised = sub.report])
    /\ Then("bind")

\* It cannot be written; a directory that was made for it is removed again.
ReserveFails ==
    /\ sub.pc \in {"reserve", "prepare"}
    /\ ~runs[sub.run].meta
    /\ WriteRun(sub.run, NoRun)
    /\ Done

Bind ==
    /\ sub.pc = "bind"
    /\ WriteState([st EXCEPT !.attempt = sub.id, !.reserved = sub.run])
    /\ Then("report")

WriteReport ==
    /\ sub.pc = "report"
    /\ WriteRun(sub.run, [runs[sub.run] EXCEPT !.report = sub.report])
    /\ Then("finish")

\* A report of the command line is written in place, so a crash can tear it;
\* a verified artifact is renamed into place.
TearReport ==
    /\ sub.pc = "report"
    /\ sub.kind = "local"
    /\ WriteRun(sub.run, [runs[sub.run] EXCEPT !.report = Torn])
    /\ Done

FinishMetadata ==
    /\ sub.pc = "finish"
    /\ WriteRun(sub.run, [runs[sub.run] EXCEPT !.hash = sub.report])
    /\ Then("index")

UpdateIndex ==
    /\ sub.pc = "index"
    /\ WriteIndex([latest |-> sub.run, count |-> index.count + 1])
    /\ Then("commit")

\* Mutant of RecountIndex: the run is counted whenever it is submitted again.
RecountIndexAlways ==
    /\ sub.pc = "reindex"
    /\ WriteIndex([latest |-> sub.run, count |-> index.count + 1])
    /\ Then("commit")

\* The result was on disk already: it is counted unless the index names it.
RecountIndex ==
    /\ sub.pc = "reindex"
    /\ WriteIndex([latest |-> sub.run,
                   count |-> IF index.latest = sub.run THEN index.count ELSE index.count + 1])
    /\ Then("commit")

CommitResult ==
    /\ sub.pc = "commit"
    /\ WriteState([Without(st, "completed") EXCEPT
                        !.last = sub.run,
                        !.receipt = IF sub.kind = "remote" THEN sub.id ELSE 0])
    /\ Done

Submission == Identify \/ MakeRunDirectory \/ Reserve \/ Bind \/ WriteReport
              \/ FinishMetadata \/ UpdateIndex \/ RecountIndex \/ CommitResult

-----------------------------------------------------------------------------
(* prepareBlockRun: the directory of an executor's run, made before it     *)
(* starts.  A run that the attempt has already is taken again, which       *)
(* changes no field of the model; that the block is in currentRefs is what *)
(* LocalWorkTracked of TaskRuntime says of local work.                     *)

Prepare(captured) ==
    /\ sub = Idle
    /\ captured # 0
    /\ st.status = "in_progress"
    /\ st.attempt = captured
    /\ st.owner = 0
    /\ FindAttemptRun(captured) = {}
    /\ CanAllocate
    /\ sub' = [Idle EXCEPT !.pc = "mkdir", !.kind = "prepare", !.id = captured]
    /\ UNCHANGED <<st, runs, index, ids>>

PrepareMetadata ==
    /\ sub.pc = "prepare"
    /\ WriteRun(sub.run, [runs[sub.run] EXCEPT !.meta = TRUE, !.attempt = sub.id])
    /\ Done

-----------------------------------------------------------------------------
(* The record of a remote attempt that failed, or was interrupted and      *)
(* cannot be resumed: a run whose metadata names no submission attempt.    *)

RecordRemote(id, kind) ==
    /\ sub = Idle
    /\ st.owner = id
    /\ CanAllocate
    /\ sub' = [Idle EXCEPT !.pc = "mkdir", !.kind = kind, !.id = id]
    /\ UNCHANGED <<st, runs, index, ids>>

RecordMetadata ==
    /\ sub.pc = "record"
    /\ WriteRun(sub.run, [runs[sub.run] EXCEPT !.meta = TRUE])
    /\ Then("point")

\* latestRunByBlock moves to the record; the count does not.
PointIndex ==
    /\ sub.pc = "point"
    /\ WriteIndex([index EXCEPT !.latest = sub.run])
    /\ Then("end")

EndFailed ==
    /\ sub.pc = "end"
    /\ sub.kind = "failure"
    /\ WriteState([Without(st, "blocked") EXCEPT !.last = sub.run, !.receipt = sub.id])
    /\ Done

\* interruptRemoteBlockOwnership: a block diverged for another reason is an
\* error, and the record that was just made remains.
EndInterrupted ==
    /\ sub.pc = "end"
    /\ sub.kind = "interruption"
    /\ IF st.status = "in_progress" \/ (st.status = "diverged" /\ st.intr = "manual")
       THEN WriteState([st EXCEPT !.status = "diverged", !.intr = "manual", !.last = sub.run])
       ELSE UNCHANGED <<st, runs, index>>
    /\ Done

Record == RecordMetadata \/ PointIndex \/ EndFailed \/ EndInterrupted

-----------------------------------------------------------------------------
(* The operations on state.json that stand around a submission.            *)

\* Mutant of ClaimedBlock: the reservation of the last claim stays.
ClaimedBlockReserved(s, a) == [s EXCEPT !.status = "in_progress", !.attempt = a]

\* claimedBlockState
ClaimedBlock(s, a) == [s EXCEPT !.status = "in_progress", !.attempt = a, !.reserved = 0]

ClaimLocal ==
    /\ st.status = "ready"
    /\ ids < MaxIds
    /\ ids' = ids + 1
    /\ Atomically(ClaimedBlock(st, ids + 1))

\* claim and activate: the block is bound to one remote identity.
ClaimRemote ==
    /\ st.status = "ready"
    /\ ids < MaxIds
    /\ ids' = ids + 1
    /\ Atomically([st EXCEPT !.status = "in_progress", !.owner = ids + 1])

InterruptRemote ==
    /\ st.owner # 0
    /\ st.status = "in_progress"
    /\ Atomically([st EXCEPT !.status = "diverged", !.intr = "resumable"])
    /\ UNCHANGED ids

ResumeRemote ==
    /\ st.status = "diverged"
    /\ st.intr = "resumable"
    /\ Atomically([st EXCEPT !.status = "in_progress", !.intr = "none"])
    /\ UNCHANGED ids

RetryRemote ==
    /\ st.status = "diverged"
    /\ st.intr = "manual"
    /\ ids < MaxIds
    /\ ids' = ids + 1
    /\ Atomically([st EXCEPT !.status = "in_progress", !.intr = "none", !.owner = ids + 1])

MarkBlocked == Atomically(Without(st, "blocked")) /\ UNCHANGED ids

MarkDiverged ==
    Atomically([st EXCEPT !.status = "diverged", !.intr = "none", !.receipt = 0])
    /\ UNCHANGED ids

\* unblock and resolve-divergence.
Reopen ==
    /\ st.status \in {"blocked", "diverged"}
    /\ Atomically(Without(st, "ready"))
    /\ UNCHANGED ids

Release ==
    /\ st.status = "in_progress"
    /\ st.owner = 0
    /\ Atomically(Without(st, "ready"))
    /\ UNCHANGED ids

\* The process dies; the next operation finds the lock stale.
Crash == sub # Idle /\ Done /\ UNCHANGED <<st, runs, index>>

Fault == Crash \/ ReserveFails \/ TearReport

LocalNext ==
    \/ \E h \in Reports : SubmitFromCommandLine(h) \/ \E r \in Runs : SubmitFromExecutor(h, r)
    \/ Submission
    \/ \E captured \in Ids : Prepare(captured)
    \/ PrepareMetadata
    \/ ClaimLocal \/ MarkBlocked \/ MarkDiverged \/ Reopen \/ Release

RemoteNext ==
    \/ \E id \in Ids : \/ \E h \in Reports : SubmitRemote(id, h)
                       \/ SourceDrift(id)
                       \/ RecordRemote(id, "failure")
                       \/ RecordRemote(id, "interruption")
    \/ Record
    \/ ClaimRemote \/ InterruptRemote \/ ResumeRemote \/ RetryRemote

-----------------------------------------------------------------------------
(* doctor --repair. *)

\* resultRunMatchesIndex
RunMatches(r) == runs[r].meta /\ runs[r].report # 0

\* Mutant of RepairedBlock: only the attempt is forgotten.
RepairedBlockReserved(r) == [FreshBlock EXCEPT !.status = "completed", !.last = r,
                                               !.reserved = st.reserved]

RepairedBlock(r) == [FreshBlock EXCEPT !.status = "completed", !.last = r]

\* repairStateRunMismatch: the run the index names completes the block.
RepairState ==
    /\ index.latest \notin {0, st.last}
    /\ st.owner = 0
    /\ st.receipt = 0
    /\ RunMatches(index.latest)
    /\ Atomically(RepairedBlock(index.latest))
    /\ UNCHANGED ids

\* repairIndexRunMismatch: the index gets the run the state names.
RepairIndex ==
    /\ sub = Idle
    /\ index.latest = 0
    /\ st.last # 0
    /\ RunMatches(st.last)
    /\ WriteIndex([index EXCEPT !.latest = st.last])
    /\ UNCHANGED <<sub, ids>>

SubmissionNext == LocalNext \/ RemoteNext \/ Fault \/ RepairState \/ RepairIndex

SubmissionSpec == Init /\ [][SubmissionNext]_svars

-----------------------------------------------------------------------------
(* Properties. *)

\* Types, with the rules of blockStateSchema between the fields.
SubmissionTypeOK ==
    /\ st \in BlockStates
    /\ runs \in [Runs -> RunStates]
    /\ index \in [latest : 0..MaxRuns, count : Nat]
    /\ ids \in 0..MaxIds
    /\ sub \in Subs
    /\ st.reserved # 0 => st.attempt # 0
    /\ st.owner # 0 => st.status \in {"in_progress", "diverged"}
    /\ st.receipt # 0 => st.status \in {"completed", "blocked"}

\* However often a submission or a preparation is cut off and repeated, an
\* attempt has one run directory; with two, findAttemptRun would throw "Multiple
\* RUN records belong to the same submission attempt" for ever.
OneRunPerAttempt ==
    \A r, s \in Runs : runs[r].attempt # 0 /\ runs[r].attempt = runs[s].attempt => r = s

\* A completed block names a run whose report is on disk and is the one its
\* metadata has the hash of, and the index names no other run.
CompletedEvidence ==
    st.status = "completed" =>
        /\ st.last # 0
        /\ runs[st.last].hash # 0
        /\ runs[st.last].report = runs[st.last].hash
        /\ index.latest \in {0, st.last}

\* A run's submitted report never changes, whoever submits what afterwards.
SubmittedFixed ==
    [][\A r \in Runs : runs[r].hash # 0 => runs'[r].hash = runs[r].hash
                                        /\ runs'[r].report = runs[r].report]_svars

\* What the resolution of a local submission without a run id would accept.
Accepts(h) ==
    \E found \in SUBSET Runs : Resolves(found, TRUE, st.attempt, h, 0)

\* Wherever a submission is cut off, submit-result may be repeated for the claim
\* exactly when it has a run, or no directory is left that nobody can attribute:
\* the run is found again and takes the report it promised, or any report if it
\* promised none; a claim without a run gets one.  A crash between making the
\* directory and its metadata.json is the other case: "its owning claim must be
\* proven before retrying" (resolveSubmissionRun).
RetryAccepted ==
    \A h \in Reports :
        /\ st.status = "in_progress"
        /\ st.owner = 0
        /\ st.attempt # 0
        /\ \A r \in FindAttemptRun(st.attempt) : runs[r].promised \in {0, h}
        => (Accepts(h) <=> FindAttemptRun(st.attempt) # {} \/ Attributable)

\* The index counts a run once, however often its submission is repeated, as
\* long as no record of a remote attempt has moved latestRunByBlock in between.
CountsOnce ==
    (\A r \in Runs : runs[r].meta => runs[r].attempt # 0 \/ runs[r].hash # 0)
    => index.count <= Cardinality({r \in Runs : runs[r].hash # 0})

\* The last run is one of the claim the block is under: the attempt of the local
\* claim, or the identity of the remote one.
RunOfClaim(r) == runs[r].attempt = IF st.owner # 0 THEN st.owner ELSE st.attempt

\* A submission completes the block by a run of the claim it is under, however
\* many claims, executors and hosts there were since it was prepared.
SubmittedByItsClaim ==
    [][sub # Idle /\ st.status # "completed" /\ st'.status = "completed" =>
            RunOfClaim(st'.last)]_svars
==============================================================================
