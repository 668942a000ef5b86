---------------------------- MODULE SourceIntake ----------------------------
(***************************************************************************)
(* One run from start to the analysis its gate G04 waits on: the durable   *)
(* source-intake jobs and the threads that work on them, the snapshot, the *)
(* gates G02 and G03, the baseline with its npm ci command, discovery,     *)
(* parity and analysis, a restart of the backend at any point.             *)
(*                                                                         *)
(* Every service call checks the state version its caller read earlier.    *)
(* What a thread carries is abstracted to how it relates to the version of *)
(* the run: "current"; "old"; or the step whose acceptance superseded it,  *)
(* which makes the thread's request equal to the recorded one (a replay).  *)
(***************************************************************************)
EXTENDS MigrationRun

CONSTANTS Main,             \* the run that is started; the others only compete for targets
          Threads,          \* slots for intake threads and for requests that outlast a step
          Pids,             \* process ids a restart may get, the old one included
          Kinds,            \* number of validation kinds
          MaxAttempts,      \* bound on intake jobs
          MaxInterference   \* bound on restarts, source changes, second decisions, repeated
                            \*   captures and cancellations of the run

ASSUME IntakeAssumption ==
  /\ Main \in Runs
  /\ {Kinds, MaxInterference} \subseteq Nat /\ MaxAttempts \in Nat \ {0}
  /\ Threads # {} /\ Pids # {} /\ Threads \cap {"npm", Nil} = {}

VARIABLES job,     \* source_intake_jobs by attempt
          thr,     \* the threads
          seen,    \* what the version a thread carries is to the run's
          ev,      \* evidence rows, approvals and events of the run
          pid,     \* the backend's process
          budget   \* interferences so far

workVars == <<job, thr, seen, ev, pid, budget>>
intakeVars == <<runVars, workVars>>

Jobs == 1..MaxAttempts
Carriers == Threads \cup {"npm"}
Idle == [pc |-> "idle", on |-> 0, code |-> Nil, row |-> 0]
NoJob == [status |-> Nil, pid |-> Nil, startedBy |-> Nil, code |-> Nil, failed |-> FALSE]

Claimable == {"queued", "waiting_g02", "waiting_g03"}

\* The steps before which the version is read in a transaction of its own.
ReadsVersion == {"resolve", "ws", "validate", "parity", "qualify", "dparity", "analysis"}

IntakePc == ReadsVersion \cup
  {"idle", "handoff", "resume_call", "claim", "take", "take_g03", "started", "snapshot", "copy",
   "completed", "g02", "set_waiting", "poll", "authorize", "prequalify", "authorize_install",
   "accept", "sandbox", "installing", "validating", "capture", "wait_g03", "resume", "discovery", "scan",
   "block", "build", "model", "finish", "fail"}

JobRow == [status : Claimable \cup {Nil, "running", "waiting_retry", "completed", "failed",
                                    "cancelled"},
           pid : Pids \cup {Nil}, startedBy : Pids \cup {Nil},
           code : {Nil, "retryable", "other"}, failed : BOOLEAN]

\* A thread: where it is, the job it works on (0 for a request of the API), the outcome it will
\* report and the analysis attempt it makes.
IntakeThread == [pc : IntakePc, on : Jobs \cup {0}, row : Nat,
                 code : {Nil, "retryable", "other", "completed", "retry", "failed"}]

Analyses == {"in_progress", "completed", "failed", "failed_retryable"}

Evidence ==
  [snapshot : [Jobs -> {Nil, "created", "failed"}], done : BOOLEAN, drifted : BOOLEAN,
   g02 : {Nil, "pending", "approved", "rejected", "stale"}, verified : BOOLEAN,
   refused : BOOLEAN, profile : {Nil, "resolved", "blocked", "stale"}, workspace : BOOLEAN,
   command : {Nil, "pending", "running", "succeeded", "failed"}, kinds : Nat,
   parity : BOOLEAN, assessment : {Nil, "qualified", "blocked", "stale"},
   g03 : {Nil, "approved", "stale"}, approvedG03 : BOOLEAN,
   discovery : {Nil, "completed", "blocked"}, dparity : {Nil, "completed", "blocked"},
   analysis : Seq(Analyses), g04 : {Nil, "pending"}]

IntakeTypeOK ==
  /\ RunTypeOK
  /\ job \in [Jobs -> JobRow]
  /\ thr \in [Threads -> IntakeThread]
  /\ seen \in [Carriers -> {"current", "old", "discovery", "dparity", "analysis"}]
  /\ pid \in Pids
  /\ budget \in 0..MaxInterference
  /\ ev \in Evidence

IntakeInit ==
  /\ RunInit
  /\ job = [j \in Jobs |-> NoJob]
  /\ thr = [w \in Threads |-> Idle]
  /\ seen = [c \in Carriers |-> "old"]
  /\ ev = [snapshot |-> [j \in Jobs |-> Nil], done |-> FALSE, drifted |-> FALSE,
           g02 |-> Nil, verified |-> FALSE, refused |-> FALSE, profile |-> Nil,
           workspace |-> FALSE, command |-> Nil, kinds |-> 0, parity |-> FALSE,
           assessment |-> Nil, g03 |-> Nil, approvedG03 |-> FALSE, discovery |-> Nil,
           dparity |-> Nil, analysis |-> <<>>, g04 |-> Nil]
  /\ pid \in Pids
  /\ budget = 0

-----------------------------------------------------------------------------
(* Versions and the shape of a step                                        *)

\* A transition by w supersedes what everyone else carries.
Superseded(w, mark) ==
  [c \in Carriers |-> IF c = w THEN "current" ELSE IF seen[c] = "current" THEN mark ELSE seen[c]]

MovesRun(w) == seen' = Superseded(w, "old")
Reads(w) == seen' = [seen EXCEPT ![w] = "current"]
Current(w) == seen[w] = "current"

At(w, p) == thr[w].pc = p
Goto(w, p) == thr' = [thr EXCEPT ![w].pc = p]
Failing(w, c) == thr' = [thr EXCEPT ![w].pc = "fail", ![w].code = c]
Leaves(w) == thr' = [thr EXCEPT ![w] = Idle] /\ seen' = [seen EXCEPT ![w] = "old"]
RunTo(s) == status' = [status EXCEPT ![Main] = s]

Kept == UNCHANGED <<claim, reservation, creating, pid, budget>>
OnlyThread == UNCHANGED <<status, job, ev>> /\ Kept
Interferes == budget < MaxInterference /\ budget' = budget + 1

\* A call refused before it wrote anything: the exception reaches _run.
Refused(w, c) == Failing(w, c) /\ UNCHANGED seen /\ OnlyThread

\* The version is read again between two steps; a request of the API keeps its own.
Reread(w) ==
  /\ thr[w].pc \in ReadsVersion /\ seen[w] = "old" /\ thr[w].on # 0
  /\ Reads(w) /\ UNCHANGED thr /\ OnlyThread

-----------------------------------------------------------------------------
(* Start, retry, cancel: MigrationRunService                               *)

NoActiveJob == \A j \in Jobs : job[j].status \notin {"queued", "running", "waiting_g02"}

Queued(j, w) ==
  /\ job' = [job EXCEPT ![j].status = "queued"]
  /\ thr' = [thr EXCEPT ![w] = [Idle EXCEPT !.pc = "handoff", !.on = j]]
  /\ RunTo("SOURCE_VALIDATION_RUNNING")
  /\ seen' = Superseded(Nil, "old")
  /\ UNCHANGED ev /\ Kept

Start(w) ==
  /\ thr[w] = Idle /\ status[Main] = "CREATED" /\ OwnsTarget(Main) /\ NoActiveJob
  /\ Queued(1, w)

\* A failed attempt whose error code allows it is followed by a new job.  A create that takes
\* the target over between the check of the claim and the write ends like one that read the
\* claim before the retry and commits after it.
RetryIntake(w) ==
  /\ thr[w] = Idle /\ status[Main] = "FAILED" /\ OwnsTarget(Main) /\ NoActiveJob
  /\ \E j \in Jobs \ {MaxAttempts} :
       /\ job[j].status = "failed" /\ job[j].code = "retryable"
       /\ job[j + 1].status = Nil
       /\ Queued(j + 1, w)

\* Mutant: the run is left as it is when the dispatch failed.
DispatchFailedQuietly == status[Main]

\* What a failed dispatch makes of the run.
DispatchFailed == "FAILED"

\* graph.start after the commit, or _record_dispatch_failure.
Handoff(w) ==
  /\ At(w, "handoff")
  /\ \/ /\ thr' = [thr EXCEPT ![w] = [Idle EXCEPT !.pc = "claim"]]
        /\ UNCHANGED <<seen, status, job>>
     \/ /\ job' = [job EXCEPT ![thr[w].on].status = "failed", ![thr[w].on].code = "retryable"]
        /\ RunTo(DispatchFailed)
        /\ thr' = [thr EXCEPT ![w] = Idle]
        /\ seen' = Superseded(Nil, "old")
  /\ UNCHANGED ev /\ Kept

CancelMain ==
  /\ ev.command \notin {"pending", "running"}
  /\ CancelRun(Main) /\ Interferes
  /\ seen' = Superseded(Nil, "old")
  /\ UNCHANGED <<job, thr, ev, pid>>

\* Requests for the other runs.
Compete ==
  /\ \/ \E r \in Runs : CreateChecks(r) \/ (r # Main /\ CancelRun(r))
     \/ \E c \in creating : CreateRun(c)
  /\ UNCHANGED workVars

-----------------------------------------------------------------------------
(* The thread up to G02: _claim, _run                                      *)

\* _claim reads the newest claimable job ...
Claim(w) ==
  /\ At(w, "claim")
  /\ LET claimable == {j \in Jobs : job[j].status \in Claimable}
         newest == CHOOSE j \in claimable : \A i \in claimable : i <= j
     IN  \/ claimable = {} /\ Leaves(w)
         \/ /\ claimable # {}
            /\ thr' = [thr EXCEPT ![w].on = newest,
                         ![w].pc = IF job[newest].status = "waiting_g03" THEN "take_g03" ELSE "take"]
            /\ UNCHANGED seen
  /\ OnlyThread

\* ... and its commit writes it, whatever became of the row meanwhile.
Take(w) ==
  /\ thr[w].pc \in {"take", "take_g03"}
  /\ job' = [job EXCEPT ![thr[w].on].status = "running", ![thr[w].on].pid = pid]
  /\ Goto(w, IF At(w, "take") THEN "started" ELSE "resume")
  /\ UNCHANGED <<seen, status, ev>> /\ Kept

\* The audit event names the worker: another process is refused its key.
Started(w) ==
  /\ At(w, "started")
  /\ LET j == thr[w].on IN
       IF job[j].startedBy \in {Nil, pid}
         THEN /\ job' = [job EXCEPT ![j].startedBy = pid]
              /\ Goto(w, "snapshot") /\ Reads(w)
              /\ UNCHANGED <<status, ev>> /\ Kept
         ELSE Refused(w, "other")

Snapshot(w) ==
  /\ At(w, "snapshot")
  /\ LET row == ev.snapshot[thr[w].on]
         allowed == /\ row = Nil /\ Current(w)
                    /\ status[Main] \in {"CREATED", "SOURCE_VALIDATION_RUNNING"}
     IN  \/ row = "created" /\ Goto(w, "completed") /\ UNCHANGED seen /\ OnlyThread
         \/ /\ allowed
            /\ RunTo("SOURCE_VALIDATION_RUNNING") /\ MovesRun(w) /\ Goto(w, "copy")
            /\ UNCHANGED <<job, ev>> /\ Kept
         \/ /\ row # "created" /\ ~allowed
            /\ Refused(w, IF row = "failed" THEN "retryable" ELSE "other")

\* The files are copied outside a transaction; success takes the version it finds.
Copy(w) ==
  /\ At(w, "copy")
  /\ \/ /\ RunTo("SOURCE_VALIDATED")
        /\ ev' = [ev EXCEPT !.snapshot[thr[w].on] = "created"]
        /\ Goto(w, "completed")
     \/ /\ Current(w)
        /\ ev' = [ev EXCEPT !.snapshot[thr[w].on] = "failed"]
        /\ Failing(w, "retryable") /\ UNCHANGED status
  /\ MovesRun(w) /\ UNCHANGED job /\ Kept

Completed(w) ==
  /\ At(w, "completed")
  /\ ev' = [ev EXCEPT !.done = TRUE]
  /\ Reads(w) /\ Goto(w, "g02")
  /\ UNCHANGED <<status, job>> /\ Kept

LatestSnapshotCreated ==
  \E j \in Jobs : ev.snapshot[j] = "created" /\ \A i \in Jobs : i > j => ev.snapshot[i] = Nil

\* initialize: the package records whether the source still matches the snapshot.
InitializeG02(w) ==
  /\ At(w, "g02")
  /\ \/ ev.g02 # Nil /\ Goto(w, "set_waiting") /\ UNCHANGED seen /\ OnlyThread
     \/ /\ ev.g02 = Nil /\ Current(w) /\ LatestSnapshotCreated
        /\ ev' = [ev EXCEPT !.g02 = "pending", !.verified = ~ev.drifted]
        /\ MovesRun(w) /\ Goto(w, "set_waiting")
        /\ UNCHANGED <<status, job>> /\ Kept
     \/ ev.g02 = Nil /\ ~Current(w) /\ Refused(w, "other")

SetWaiting(w) ==
  /\ At(w, "set_waiting")
  /\ job' = [job EXCEPT ![thr[w].on].status = "waiting_g02"]
  /\ Goto(w, "poll") /\ UNCHANGED <<seen, status, ev>> /\ Kept

Ended(j) == job[j].status \in {"failed", "cancelled"}

\* One round of _wait_for_g02; a rejection counts whenever it was recorded.
PollG02(w) ==
  /\ At(w, "poll")
  /\ \/ /\ Ended(thr[w].on) \/ status[Main] = "CANCELLED"
        /\ job' = [job EXCEPT ![thr[w].on].status = IF Ended(thr[w].on) THEN @ ELSE "cancelled"]
        /\ Leaves(w) /\ UNCHANGED <<status, ev>> /\ Kept
     \/ /\ ~Ended(thr[w].on) /\ status[Main] # "CANCELLED"
        /\ \/ ev.g02 = "approved" /\ Goto(w, "authorize")
           \/ ev.g02 # "approved" /\ ev.refused /\ Failing(w, "other")
        /\ UNCHANGED seen /\ OnlyThread

-----------------------------------------------------------------------------
(* The baseline: _continue_after_g02_once                                  *)

\* authorize_baseline: approved, and the source still matches the snapshot.
AuthorizeBaseline == ev.g02 = "approved" /\ ev.verified /\ ~ev.drifted

Authorize(w) ==
  /\ At(w, "authorize")
  /\ \/ AuthorizeBaseline /\ Goto(w, "resolve") /\ Reads(w) /\ OnlyThread
     \/ ~AuthorizeBaseline /\ Refused(w, "other")

\* A second resolution for the job differs in its time stamp and is refused.
ResolveProfile(w) ==
  /\ At(w, "resolve")
  /\ \/ /\ ev.profile = Nil /\ ev.g02 = "approved" /\ Current(w)
        /\ \/ ev' = [ev EXCEPT !.profile = "resolved"] /\ Goto(w, "ws")
           \/ ev' = [ev EXCEPT !.profile = "blocked"] /\ Failing(w, "other")
        /\ MovesRun(w) /\ UNCHANGED <<status, job>> /\ Kept
     \/ /\ ev.profile # Nil \/ ev.g02 # "approved" \/ ~Current(w)
        /\ Refused(w, "retryable")

\* create_workspace: the approval and the profile are checked again, each in a session of its
\* own; a profile that is no longer installed is marked stale and committed.
CreateWorkspace(w) ==
  /\ At(w, "ws")
  /\ \/ /\ Current(w) /\ AuthorizeBaseline /\ ev.profile = "resolved"
        /\ \/ Goto(w, "sandbox") /\ OnlyThread /\ UNCHANGED seen
           \/ /\ ev' = [ev EXCEPT !.profile = "stale"] /\ Failing(w, "other")
              /\ MovesRun(w) /\ UNCHANGED <<status, job>> /\ Kept
     \/ Refused(w, "other")

\* The transaction that takes the version, copies the snapshot and records the sandbox; a copy
\* that fails rolls it back.
MakeSandbox(w) ==
  /\ At(w, "sandbox")
  /\ \/ /\ Current(w)
        /\ ev' = [ev EXCEPT !.workspace = TRUE]
        /\ MovesRun(w) /\ Goto(w, "prequalify") /\ UNCHANGED <<status, job>> /\ Kept
     \/ Refused(w, "other")

\* prequalify and authorize_install.
Prequalify(w) ==
  /\ At(w, "prequalify")
  /\ \/ /\ Current(w)
        /\ Goto(w, "authorize_install") \/ Failing(w, "other")
        /\ MovesRun(w) /\ UNCHANGED <<status, job, ev>> /\ Kept
     \/ ~Current(w) /\ Refused(w, "other")

AuthorizeInstall(w) ==
  /\ At(w, "authorize_install")
  /\ \/ Current(w) /\ Goto(w, "accept") /\ MovesRun(w) /\ UNCHANGED <<status, job, ev>> /\ Kept
     \/ ~Current(w) /\ Refused(w, "other")

\* accept: npm ci is recorded and handed to a thread of its own with the new version.
AcceptInstall(w) ==
  /\ At(w, "accept")
  /\ \/ /\ Current(w) /\ ev.g02 = "approved" /\ ev.profile = "resolved"
        /\ ev' = [ev EXCEPT !.command = "pending"]
        /\ seen' = [Superseded(w, "old") EXCEPT !["npm"] = "current"]
        /\ Goto(w, "installing") /\ UNCHANGED <<status, job>> /\ Kept
     \/ ~(Current(w) /\ ev.g02 = "approved" /\ ev.profile = "resolved") /\ Refused(w, "other")

NpmMoves(s) ==
  /\ ev' = [ev EXCEPT !.command = s]
  /\ MovesRun("npm") /\ UNCHANGED <<thr, status, job>> /\ Kept

\* _execute: both the start and the end of the command need the version its row holds;
\* otherwise the row stays as it is, since _finalize_failure needs it too.
NpmStart == ev.command = "pending" /\ Current("npm") /\ NpmMoves("running")
NpmEnd ==
  /\ ev.command = "running" /\ Current("npm")
  /\ \E s \in {"succeeded", "failed"} : NpmMoves(s)

\* _output_chunk takes the run's version, which brings the row up to date.
NpmOutput == ev.command = "running" /\ ~Current("npm") /\ NpmMoves("running")

Installing(w) ==
  /\ At(w, "installing")
  /\ \/ ev.command = "succeeded" /\ Goto(w, "validate") /\ Reads(w) /\ OnlyThread
     \/ ev.command = "failed" /\ Refused(w, "other")

KindsLeft == ev.kinds < Kinds

\* execute, per configured kind: its commands run between two transactions and their rows
\* are inserted by the second.
ValidateKind(w) ==
  /\ At(w, "validate")
  /\ \/ /\ KindsLeft /\ Current(w)
        /\ Goto(w, "validating") /\ MovesRun(w) /\ UNCHANGED <<status, job, ev>> /\ Kept
     \/ /\ KindsLeft
        /\ ev' = [ev EXCEPT !.kinds = @ + 1]
        /\ Reads(w) /\ UNCHANGED <<thr, status, job>> /\ Kept
     \/ KindsLeft /\ ~Current(w) /\ Refused(w, "other")
     \/ ev.kinds = Kinds /\ Goto(w, "parity") /\ Reads(w) /\ OnlyThread

Validated(w) ==
  /\ At(w, "validating")
  /\ ev' = [ev EXCEPT !.kinds = @ + 1]
  /\ MovesRun(w) /\ Goto(w, "validate") /\ UNCHANGED <<status, job>> /\ Kept

\* capture: the prerequisites, then files, then the rows under the same version.
Parity(w) ==
  /\ At(w, "parity")
  /\ \/ Current(w) /\ Goto(w, "capture") /\ UNCHANGED seen /\ OnlyThread
     \/ ~Current(w) /\ Refused(w, "other")

Capture(w) ==
  /\ At(w, "capture")
  /\ \/ /\ Current(w)
        /\ ev' = [ev EXCEPT !.parity = TRUE]
        /\ MovesRun(w) /\ Goto(w, "qualify") /\ UNCHANGED <<status, job>> /\ Kept
     \/ ~Current(w) /\ Refused(w, "other")

\* qualify moves the run to BASELINE_QUALIFIED from any status; a blocked baseline is
\* recorded and leaves the status.
Qualified ==
  \/ ev' = [ev EXCEPT !.assessment = "qualified"] /\ RunTo("BASELINE_QUALIFIED")
  \/ ev' = [ev EXCEPT !.assessment = "blocked"] /\ UNCHANGED status

Qualify(w) ==
  /\ At(w, "qualify")
  /\ \/ Current(w) /\ Qualified /\ MovesRun(w) /\ Goto(w, "wait_g03") /\ UNCHANGED job /\ Kept
     \/ ~Current(w) /\ Refused(w, "other")

WaitG03(w) ==
  /\ At(w, "wait_g03")
  /\ job' = [job EXCEPT ![thr[w].on].status = "waiting_g03"]
  /\ Leaves(w) /\ UNCHANGED <<status, ev>> /\ Kept

-----------------------------------------------------------------------------
(* Discovery, parity and analysis: _continue_after_g03                     *)

Resume(w) ==
  /\ At(w, "resume")
  /\ \/ ev.g03 = "approved" /\ Goto(w, "discovery") /\ Reads(w) /\ OnlyThread
     \/ ev.g03 # "approved" /\ Refused(w, "other")

\* A step accepted under the version the thread carries.
Accepts(w, step, next) ==
  /\ Current(w) /\ ev.g03 = "approved"
  /\ seen' = Superseded(w, step)
  /\ Goto(w, next)

\* capture replays a recorded request that equals this one; every refusal is answered by
\* recording a blocked discovery.
Discovery(w) ==
  /\ At(w, "discovery")
  /\ \/ /\ ev.discovery = Nil
        /\ Accepts(w, "discovery", "scan") /\ OnlyThread
     \/ /\ ev.discovery # Nil /\ seen[w] = "discovery"
        /\ \/ ev.discovery = "completed" /\ Goto(w, "dparity") /\ Reads(w)
           \/ ev.discovery = "blocked" /\ Failing(w, "other") /\ UNCHANGED seen
        /\ OnlyThread
     \/ /\ IF ev.discovery = Nil THEN ~Current(w) \/ ev.g03 # "approved"
                                  ELSE seen[w] # "discovery"
        /\ Goto(w, "block") /\ UNCHANGED seen /\ OnlyThread

\* The scan's result is recorded under the run's version; a second row is refused.
Scan(w) ==
  /\ At(w, "scan")
  /\ \/ /\ ev.discovery = Nil
        /\ \/ /\ ev' = [ev EXCEPT !.discovery = "completed"]
              /\ Goto(w, "dparity") /\ UNCHANGED status
           \/ /\ ev' = [ev EXCEPT !.discovery = "blocked"]
              /\ Failing(w, "other") /\ RunTo("DIAGNOSTIC_HOLD")
        /\ MovesRun(w) /\ UNCHANGED job /\ Kept
     \/ ev.discovery # Nil /\ Goto(w, "block") /\ UNCHANGED seen /\ OnlyThread

Block(w) ==
  /\ At(w, "block")
  /\ \/ /\ ev.discovery = Nil
        /\ ev' = [ev EXCEPT !.discovery = "blocked"]
        /\ RunTo("DIAGNOSTIC_HOLD") /\ Failing(w, "other")
        /\ MovesRun(w) /\ UNCHANGED job /\ Kept
     \/ ev.discovery # Nil /\ Refused(w, "other")

ParityBaseline(w) ==
  /\ At(w, "dparity")
  /\ \/ ev.dparity = Nil /\ Accepts(w, "dparity", "build") /\ OnlyThread
     \/ /\ ev.dparity = "completed" /\ seen[w] = "dparity"
        /\ Goto(w, "analysis") /\ Reads(w) /\ OnlyThread
     \/ /\ IF ev.dparity = Nil THEN ~Current(w) \/ ev.g03 # "approved"
                                ELSE ev.dparity = "blocked" \/ seen[w] # "dparity"
        /\ Refused(w, "other")

BuildParity(w) ==
  /\ At(w, "build")
  /\ \/ /\ ev.dparity = Nil
        /\ \/ ev' = [ev EXCEPT !.dparity = "completed"] /\ Goto(w, "analysis")
           \/ ev' = [ev EXCEPT !.dparity = "blocked"] /\ Failing(w, "other")
        /\ MovesRun(w) /\ UNCHANGED <<status, job>> /\ Kept
     \/ ev.dparity # Nil /\ Refused(w, "other")

\* A thread without a job is a retry through the API, whose key is new; the job's own key
\* made the first attempt.
Replays(w) == ev.analysis # <<>> /\ thr[w].on # 0

\* What an attempt that ended in s makes its caller report.
Reported(s) ==
  CASE s = "completed" -> "completed" [] s = "failed_retryable" -> "retry" [] OTHER -> "failed"

\* generate up to the model call: an attempt is added to the ones there are.
Analysis(w) ==
  /\ At(w, "analysis")
  /\ \/ /\ ~Replays(w) /\ ev.discovery = "completed" /\ ev.dparity = "completed"
        /\ Current(w) /\ ev.g03 = "approved"
        /\ seen' = Superseded(w, IF thr[w].on = 0 THEN "old" ELSE "analysis")
        /\ ev' = [ev EXCEPT !.analysis = Append(@, "in_progress")]
        /\ thr' = [thr EXCEPT ![w].pc = "model", ![w].row = Len(ev.analysis) + 1]
        /\ UNCHANGED <<status, job>> /\ Kept
     \/ /\ Replays(w) /\ seen[w] = "analysis" /\ ev.g03 = "approved"
        /\ thr' = [thr EXCEPT ![w].pc = "finish", ![w].code = Reported(ev.analysis[1])]
        /\ UNCHANGED seen /\ OnlyThread
     \/ /\ ev.g03 # "approved" \/ (IF Replays(w) THEN seen[w] # "analysis" ELSE ~Current(w))
        /\ Refused(w, "other")

\* _complete or _fail of the attempt, under the run's version.
Model(w) ==
  /\ At(w, "model")
  /\ \E s \in Analyses \ {"in_progress"} :
       /\ ev' = [ev EXCEPT !.analysis[thr[w].row] = s,
                          !.g04 = IF s = "completed" THEN "pending" ELSE @]
       /\ thr' = [thr EXCEPT ![w].pc = "finish", ![w].code = Reported(s)]
  /\ MovesRun(w) /\ UNCHANGED <<status, job>> /\ Kept

\* Mutant: only a failed analysis keeps the job from completing.
OutcomeUnlessRetry(w) == IF thr[w].code = "retry" THEN "waiting_retry" ELSE "completed"

Outcome(w) ==
  CASE thr[w].code = "completed" -> "completed"
    [] thr[w].code = "retry" -> "waiting_retry"
    [] OTHER -> "failed"

\* The job follows the analysis; the run is left alone.
FinishJob(w) ==
  /\ At(w, "finish") /\ thr[w].on # 0
  /\ job' = [job EXCEPT ![thr[w].on].status = Outcome(w),
                        ![thr[w].on].code = IF thr[w].code = "completed" THEN @ ELSE "other"]
  /\ Leaves(w) /\ UNCHANGED <<status, ev>> /\ Kept

\* The end of retry: a running job completes with the analysis.
FinishRetry(w) ==
  /\ At(w, "finish") /\ thr[w].on = 0
  /\ job' = [j \in Jobs |-> IF job[j].status = "running" /\ thr[w].code = "completed"
                              THEN [job[j] EXCEPT !.status = "completed"] ELSE job[j]]
  /\ Leaves(w) /\ UNCHANGED <<status, ev>> /\ Kept

-----------------------------------------------------------------------------
(* _fail                                                                   *)

\* The run is moved whatever its status; a job fails under one key, so a second report
\* either replays the first or is refused as a whole.
Fail(w) ==
  /\ At(w, "fail") /\ thr[w].on # 0
  /\ LET j == thr[w].on IN
       \/ /\ ~job[j].failed
          /\ job' = [job EXCEPT ![j].status = "failed", ![j].code = thr[w].code, ![j].failed = TRUE]
          /\ RunTo(IF ev.done THEN "DIAGNOSTIC_HOLD" ELSE "FAILED")
          /\ thr' = [thr EXCEPT ![w] = Idle]
          /\ seen' = [Superseded(Nil, "old") EXCEPT ![w] = "old"]
       \/ /\ job[j].failed
          /\ job' = [job EXCEPT ![j].status = "failed", ![j].code = thr[w].code]
          /\ Leaves(w) /\ UNCHANGED status
       \/ job[j].failed /\ Leaves(w) /\ UNCHANGED <<status, job>>
  /\ UNCHANGED ev /\ Kept

\* An error of the API's retry reaches its caller only.
FailRetry(w) == At(w, "fail") /\ thr[w].on = 0 /\ Leaves(w) /\ OnlyThread

-----------------------------------------------------------------------------
(* Decisions and repeated captures through the API                         *)

\* Mutant: a decision does not take the version of the run.
UserLeavesVersion == UNCHANGED seen

UserMoves == seen' = Superseded(Nil, "old")

\* A first decision is expected; what comes after it counts as interference.
FirstOrInterferes(first) == IF first THEN UNCHANGED budget ELSE Interferes

\* decide looks at the evidence, not at the status of the run or of the record.
DecideG02(approve) ==
  /\ ev.g02 # Nil \/ LatestSnapshotCreated
  /\ FirstOrInterferes(ev.g02 \in {Nil, "pending"})
  /\ IF ev.g02 # Nil /\ ~(ev.verified /\ ~ev.drifted)
       THEN /\ ev.g02 # "stale"
            /\ ev' = [ev EXCEPT !.g02 = "stale"]
            /\ RunTo("DIAGNOSTIC_HOLD")
       ELSE /\ ev' = [ev EXCEPT !.verified = ~ev.drifted,
                                !.g02 = IF approve THEN IF ev.drifted THEN "stale" ELSE "approved"
                                                   ELSE "rejected",
                                !.refused = @ \/ ~approve]
            /\ UNCHANGED status
  /\ UserMoves /\ UNCHANGED <<job, thr, claim, reservation, creating, pid>>

\* decide, then resume_after_g03 outside the transaction.
ApproveG03(w) ==
  /\ thr[w] = Idle /\ ev.assessment = "qualified"
  /\ FirstOrInterferes(~ev.approvedG03)
  /\ ev' = [ev EXCEPT !.g03 = "approved", !.approvedG03 = TRUE]
  /\ RunTo("BASELINE_QUALIFIED") /\ UserMoves
  /\ thr' = [thr EXCEPT ![w] = [Idle EXCEPT !.pc = "resume_call"]]
  /\ UNCHANGED <<job, claim, reservation, creating, pid>>

ResumeCall(w) ==
  /\ At(w, "resume_call")
  /\ \/ /\ \E j \in Jobs : job[j].status = "waiting_g03"
        /\ Goto(w, "claim") /\ UNCHANGED seen
     \/ /\ \A j \in Jobs : job[j].status # "waiting_g03"
        /\ Leaves(w)
  /\ OnlyThread

\* A rejection adds a row and withdraws nothing.
RejectG03 ==
  /\ ev.assessment \in {"qualified", "blocked"}
  /\ Interferes /\ UserMoves
  /\ UNCHANGED <<status, ev, job, thr, claim, reservation, creating, pid>>

\* Parity captured again: the assessment and the approvals become stale in its first
\* transaction, the second refuses the artifacts that are already registered.
Recapture ==
  /\ ev.parity /\ Interferes
  /\ ev' = [ev EXCEPT !.assessment = IF @ = Nil THEN Nil ELSE "stale",
                      !.g03 = IF @ = "approved" THEN "stale" ELSE @]
  /\ UNCHANGED <<status, seen, job, thr, claim, reservation, creating, pid>>

Requalify ==
  /\ ev.parity /\ Interferes /\ Qualified /\ UserMoves
  /\ UNCHANGED <<job, thr, claim, reservation, creating, pid>>

\* retry of any attempt that may be retried, whatever the later ones do: a waiting job runs
\* again, then generate is called with the request's version.
RetryAnalysis(w) ==
  /\ thr[w] = Idle /\ ev.g04 = Nil
  /\ \E i \in DOMAIN ev.analysis : ev.analysis[i] = "failed_retryable"
  /\ Interferes
  /\ job' = [j \in Jobs |-> IF job[j].status = "waiting_retry"
                              THEN [job[j] EXCEPT !.status = "running"] ELSE job[j]]
  /\ thr' = [thr EXCEPT ![w] = [Idle EXCEPT !.pc = "analysis"]]
  /\ Reads(w) /\ UNCHANGED <<status, ev, claim, reservation, creating, pid>>

-----------------------------------------------------------------------------
(* The environment                                                         *)

\* Someone edits the source directory.
Drift ==
  /\ ~ev.drifted /\ Interferes
  /\ ev' = [ev EXCEPT !.drifted = TRUE]
  /\ UNCHANGED <<runVars, job, thr, seen, pid>>

LatestAnalysis == IF ev.analysis = <<>> THEN Nil ELSE ev.analysis[Len(ev.analysis)]

\* recover: work of another process is queued again, or waits for what it last needed.
Recovered(j, p) ==
  IF job[j].status = "running" /\ job[j].pid # p
    THEN [job[j] EXCEPT !.status = CASE LatestAnalysis = "failed_retryable" -> "waiting_retry"
                                     [] LatestAnalysis = "failed" -> "failed"
                                     [] OTHER -> IF ev.approvedG03 THEN "waiting_g03" ELSE "queued"]
    ELSE job[j]

\* The process dies and another one starts: reconcile_orphans fails the npm ci command,
\* recover dispatches the jobs.
Restart(p) ==
  /\ Interferes
  /\ pid' = p
  /\ job' = [j \in Jobs |-> Recovered(j, p)]
  /\ ev' = [ev EXCEPT !.command = IF @ \in {"pending", "running"} THEN "failed" ELSE @]
  /\ LET first == CHOOSE w \in Threads : TRUE
         dispatched == \E j \in Jobs : job'[j].status \in Claimable
     IN  thr' = [w \in Threads |-> IF w = first /\ dispatched THEN [Idle EXCEPT !.pc = "claim"]
                                                               ELSE Idle]
  /\ seen' = [c \in Carriers |-> "old"]
  /\ creating' = {}
  /\ UNCHANGED <<status, claim, reservation>>

-----------------------------------------------------------------------------
ThreadStep(w) ==
  \/ Reread(w) \/ Handoff(w) \/ Claim(w) \/ Take(w) \/ Started(w) \/ Snapshot(w) \/ Copy(w)
  \/ Completed(w) \/ InitializeG02(w) \/ SetWaiting(w) \/ PollG02(w)
  \/ Authorize(w) \/ ResolveProfile(w) \/ CreateWorkspace(w) \/ MakeSandbox(w) \/ Prequalify(w)
  \/ AuthorizeInstall(w) \/ AcceptInstall(w) \/ Installing(w) \/ ValidateKind(w) \/ Validated(w)
  \/ Parity(w) \/ Capture(w) \/ Qualify(w) \/ WaitG03(w)
  \/ Resume(w) \/ Discovery(w) \/ Scan(w) \/ Block(w) \/ ParityBaseline(w) \/ BuildParity(w)
  \/ Analysis(w) \/ Model(w) \/ FinishJob(w) \/ FinishRetry(w) \/ Fail(w) \/ FailRetry(w)
  \/ ResumeCall(w)

IntakeRequest ==
  \/ Compete \/ CancelMain
  \/ \E w \in Threads : Start(w) \/ RetryIntake(w) \/ ApproveG03(w) \/ RetryAnalysis(w)
  \/ \E approve \in BOOLEAN : DecideG02(approve)
  \/ RejectG03 \/ Recapture \/ Requalify

IntakeNext ==
  \/ \E w \in Threads : ThreadStep(w)
  \/ NpmStart \/ NpmOutput \/ NpmEnd
  \/ IntakeRequest \/ Drift
  \/ \E p \in Pids : Restart(p)

IntakeSpec == IntakeInit /\ [][IntakeNext]_intakeVars

-----------------------------------------------------------------------------
\* The run has been retried.
Retried(r) == r = Main /\ \E j \in Jobs \ {1} : job[j].status # Nil

\* A run that is at work owns its target, whatever requests cross: of two creates for one
\* target only the first to commit gets it, and start needs the run's own claim.  A run that
\* has been retried is excepted: a create that found it failed deletes its claim.
MutatingRunOwnsTarget ==
  \A r \in Runs : status[r] \in Mutating => OwnsTarget(r) \/ Retried(r)

\* A thread has an active job in hand, or goes to fetch one that is queued.
WorkedOn ==
  \E w \in Threads :
    \/ thr[w].on \in Jobs /\ job[thr[w].on].status \in {"queued", "running"}
    \/ thr[w].pc = "claim" /\ \E j \in Jobs : job[j].status = "queued"

\* recover takes a job of the process that died for its own.
UnderOldPid == \E p \in Pids : Restart(p) /\ \E j \in Jobs : job[j].status = "running" /\ job[j].pid = p

\* A run in source validation is worked on: no failure, refused call, restart or retry leaves
\* it moving on paper only (_fail, _record_dispatch_failure, recover), but for a restart under
\* the process id that an active job names.
ValidationIsWorkedOn ==
  [][(status[Main] = "SOURCE_VALIDATION_RUNNING" => WorkedOn) =>
       (status'[Main] = "SOURCE_VALIDATION_RUNNING" => WorkedOn') \/ UnderOldPid]_intakeVars

\* The baseline sandbox is recorded only while the approval at G02 it was checked against
\* stands: no decision comes between the check and the commit.  (The source may change in
\* between; what is copied is the snapshot.)
BaselineOnStandingApproval ==
  [][~ev.workspace /\ ev'.workspace => ev.g02 = "approved" /\ ev.verified]_intakeVars

\* A completed intake has its whole chain of evidence: an analysis that came to its end and
\* the gate G04 that decides on it, parity and discovery under it.
CompletedIntakeHasEvidence ==
  \A j \in Jobs : job[j].status = "completed" =>
    /\ \E i \in DOMAIN ev.analysis : ev.analysis[i] = "completed"
    /\ ev.g04 = "pending" /\ ev.discovery = "completed" /\ ev.dparity = "completed"
=============================================================================
