---------------------------- MODULE PlanningProofs ---------------------------
(***************************************************************************)
(* Proofs about Planning, for any packages, any number of attempts of a    *)
(* job and any number of restarts, expired leases, revisions and requests. *)
(***************************************************************************)
EXTENDS Planning, TLAPS, FiniteSetTheorems, SequenceTheorems, WellFoundedInduction

-----------------------------------------------------------------------------
(* What the rows are. *)

Pkg == Packages \cup {"blocked"}
JobStep == Steps \cup HumanWaits \cup {"completed"}
Ver == {"current", "old"}

Resolution == [pkg : Pkg, job : Nat]
Feasibility == [pkg : Pkg, status : {"pending", "blocked", "approved", "rejected", "stale"}]
Job == [status : NonTerminal \cup Terminal, step : JobStep, attempt : 0 .. MaxAttempts,
        leased : BOOLEAN, key : Pkg \cup {None}, outcomes : SUBSET Nat]
Plan == [pkg : Pkg, key : Pkg \cup {None}]
ReviewRow == [plan : Nat, auto : BOOLEAN, ver : Ver,
              status : {"in_progress", "completed", "not_accepted", "failed"},
              answer : Answers \cup {None}]
PlanGate == [plan : Nat, status : {"pending", "approved", "rejected", "stale"}, ver : Ver]
Pcs == Steps \cup {"idle", "claim", "dispatch", "resolve", "resolved", "plan", "planned", "review",
                   "model", "failing"}
Thread == [pc : Pcs, job : Nat, step : JobStep \cup {None}, ver : Ver, pkg : Pkg \cup {None},
           gate : Pkg \cup {None}, row : Nat]

RunTyped ==
  /\ status \in {"BASELINE_QUALIFIED", "PLANNING_RUNNING", "WAITING_PLAN_APPROVAL", "FAILED",
                 "WAITING_STAGE_PREPARATION"}
  /\ g04 \in {"pending", "approved", "rejected", "stale"}
  /\ res \in Seq(Resolution) /\ g05 \in Seq(Feasibility)
  /\ cont \in [status : {None, "queued", "started", "blocked"}, plan : Nat, gate : Nat]
  /\ extra \in 0 .. MaxExtra

\* A planner that has claimed a job has it; one that is beyond the dispatch knows its step.
ThreadsTyped ==
  /\ jobs \in Seq(Job) /\ thr \in [Callers -> Thread]
  /\ \A c \in Planners :
       /\ thr[c].pc \notin {"idle", "claim"} => thr[c].job \in 1 .. Len(jobs)
       /\ thr[c].pc \notin {"idle", "claim", "dispatch"} => thr[c].step # None
  /\ \A c \in Callers : thr[c].job \in 0 .. Len(jobs)
  /\ thr["user"].pc \in {"idle", "model"}

PlansTyped ==
  /\ plans \in Seq(Plan) /\ rows \in Seq(ReviewRow) /\ g06 \in Seq(PlanGate)
  /\ \A i \in 1 .. Len(rows) : rows[i].plan \in 1 .. Len(plans)
  /\ \A i \in 1 .. Len(g06) : g06[i].plan \in 1 .. Len(plans)
  /\ \A c \in Callers : thr[c].row \in 0 .. Len(rows)

-----------------------------------------------------------------------------
(* The inductive invariant. *)

\* A call to the model has a row of its own, which nobody else ends.
CallsHold ==
  /\ \A c \in Callers : At(c, "model") =>
       thr[c].row \in 1 .. Len(rows) /\ rows[thr[c].row].status = "in_progress"
  /\ \A c, d \in Callers : At(c, "model") /\ At(d, "model") /\ thr[c].row = thr[d].row => c = d

\* The planner's review of a plan is one row, and a completed row accepted its plan.
ReviewsHold ==
  /\ \A i, j \in 1 .. Len(rows) :
       rows[i].auto /\ rows[j].auto /\ rows[i].plan = rows[j].plan => i = j
  /\ \A i \in 1 .. Len(rows) : rows[i].status = "completed" => rows[i].answer = "accept"

\* The transformer was handed a plan that a completed review accepted.
ContinuationReviewed ==
  cont.status # None => \E i \in 1 .. Len(rows) : rows[i].plan = cont.plan
                                                  /\ rows[i].status = "completed"

PlanningInv ==
  /\ RunTyped /\ ThreadsTyped /\ PlansTyped
  /\ CallsHold /\ ReviewsHold /\ ContinuationReviewed
  /\ OldApprovalBehindStaleGate

-----------------------------------------------------------------------------
(* The newest of some rows, and rows that are rewritten one by one. *)

\* Newest is well defined for a set of row numbers that is not empty.
LEMMA NewestIn ==
  ASSUME NEW n \in Nat, NEW S, S \subseteq 1 .. n, S # {}
  PROVE  Newest(S) \in S /\ \A k \in S : k <= Newest(S)
<1> DEFINE T == {n - i : i \in S}
<1>1. T \subseteq Nat /\ T # {}
  <2>1. \A i \in S : n - i \in Nat
    OBVIOUS
  <2>2. PICK i \in S : TRUE
    OBVIOUS
  <2>3. n - i \in T
    OBVIOUS
  <2> QED
    BY <2>1, <2>3
<1>2. PICK x \in T : \A y \in T : ~ (<<y, x>> \in OpToRel(<, Nat))
  BY <1>1, NatLessThanWellFounded, WFMin
<1>3. \A y \in T : x <= y
  <2> TAKE y \in T
  <2>1. x \in Nat /\ y \in Nat
    BY <1>1, <1>2
  <2>2. <<y, x>> \in Nat \X Nat /\ <<y, x>>[1] = y /\ <<y, x>>[2] = x
    BY <2>1
  <2>3. ~ (y < x)
    BY <1>2, <2>2 DEF OpToRel
  <2> QED
    BY <2>1, <2>3
<1>4. PICK i \in S : x = n - i
  BY <1>2
<1>5. \A k \in S : k <= i
  <2> TAKE k \in S
  <2>1. n - i <= n - k
    BY <1>3, <1>4
  <2> QED
    BY <2>1
<1> QED
  BY <1>5 DEF Newest

\* A function on the positions of a sequence is a sequence.
LEMMA Rewritten ==
  ASSUME NEW S, NEW T, NEW s \in Seq(S), NEW t \in [DOMAIN s -> T]
  PROVE  t \in Seq(T) /\ Len(t) = Len(s) /\ DOMAIN t = 1 .. Len(s)
<1>1. Len(s) \in Nat /\ DOMAIN s = 1 .. Len(s)
  BY LenProperties
<1>2. t \in [1 .. Len(s) -> T]
  BY <1>1
<1>3. t \in Seq(T)
  BY <1>1, <1>2, SeqDef
<1> QED
  BY <1>1, <1>2, <1>3, LenProperties

\* Versions grow old, nothing else of a row changes.
LEMMA AgedRows ==
  ASSUME rows \in Seq(ReviewRow)
  PROVE  /\ Aged(rows) \in Seq(ReviewRow) /\ Len(Aged(rows)) = Len(rows)
         /\ \A i \in 1 .. Len(rows) : Aged(rows)[i] = [rows[i] EXCEPT !.ver = "old"]
<1>1. DOMAIN rows = 1 .. Len(rows) /\ Len(rows) \in Nat
  BY LenProperties
<1>2. ASSUME NEW i \in 1 .. Len(rows)
      PROVE  [rows[i] EXCEPT !.ver = "old"] \in ReviewRow
  <2>1. rows[i] \in ReviewRow
    BY ElementOfSeq
  <2> QED
    BY <2>1 DEF ReviewRow, Ver
<1>3. Aged(rows) \in [DOMAIN rows -> ReviewRow]
  BY <1>1, <1>2 DEF Aged
<1>4. \A i \in 1 .. Len(rows) : Aged(rows)[i] = [rows[i] EXCEPT !.ver = "old"]
  BY <1>1 DEF Aged
<1> QED
  BY <1>3, <1>4, Rewritten

\* The same for the gates of the plans.
LEMMA AgedGates ==
  ASSUME g06 \in Seq(PlanGate)
  PROVE  /\ Aged(g06) \in Seq(PlanGate) /\ Len(Aged(g06)) = Len(g06)
         /\ \A i \in 1 .. Len(g06) : Aged(g06)[i] = [g06[i] EXCEPT !.ver = "old"]
<1>1. DOMAIN g06 = 1 .. Len(g06) /\ Len(g06) \in Nat
  BY LenProperties
<1>2. ASSUME NEW i \in 1 .. Len(g06)
      PROVE  [g06[i] EXCEPT !.ver = "old"] \in PlanGate
  <2>1. g06[i] \in PlanGate
    BY ElementOfSeq
  <2> QED
    BY <2>1 DEF PlanGate, Ver
<1>3. Aged(g06) \in [DOMAIN g06 -> PlanGate]
  BY <1>1, <1>2 DEF Aged
<1>4. \A i \in 1 .. Len(g06) : Aged(g06)[i] = [g06[i] EXCEPT !.ver = "old"]
  BY <1>1 DEF Aged
<1> QED
  BY <1>3, <1>4, Rewritten

\* One caller goes on, and the versions the others carry may grow old.
LEMMA ThreadsGo ==
  ASSUME thr \in [Callers -> Thread], NEW c \in Callers \cup {None}, NEW t \in Thread,
         thr' = OthersOld(c, t) \/ (Goes(c, t) /\ c \in Callers)
  PROVE  /\ thr' \in [Callers -> Thread]
         /\ c \in Callers => thr'[c] = t
         /\ \A x \in Callers \ {c} :
              /\ thr'[x].pc = thr[x].pc /\ thr'[x].job = thr[x].job
              /\ thr'[x].step = thr[x].step /\ thr'[x].row = thr[x].row
<1>1. \A x \in Callers : [thr[x] EXCEPT !.ver = "old"] \in Thread
  BY DEF Thread, Ver
<1>2. \A x \in Callers : /\ [thr[x] EXCEPT !.ver = "old"].pc = thr[x].pc
                         /\ [thr[x] EXCEPT !.ver = "old"].job = thr[x].job
                         /\ [thr[x] EXCEPT !.ver = "old"].step = thr[x].step
                         /\ [thr[x] EXCEPT !.ver = "old"].row = thr[x].row
  BY DEF Thread
<1>3. CASE thr' = OthersOld(c, t)
  BY <1>1, <1>2, <1>3 DEF OthersOld
<1>4. CASE Goes(c, t) /\ c \in Callers
  BY <1>4 DEF Goes
<1> QED
  BY <1>3, <1>4

-----------------------------------------------------------------------------
(* The types of the jobs and of the threads that work on them. *)

JobsGrow == jobs' \in Seq(Job) /\ Len(jobs') >= Len(jobs)

\* What a thread may become.
Fits(c, t, n) ==
  /\ t.job \in 0 .. n
  /\ c = "user" => t.pc \in {"idle", "model"}
  /\ c \in Planners /\ t.pc \notin {"idle", "claim"} => t.job \in 1 .. n
  /\ c \in Planners /\ t.pc \notin {"idle", "claim", "dispatch"} => t.step # None

\* A thread that becomes what fits it leaves the others as they are.
LEMMA ThreadsStep ==
  ASSUME ThreadsTyped, JobsGrow, NEW c \in Callers \cup {None}, NEW t \in Thread,
         thr' = OthersOld(c, t) \/ (Goes(c, t) /\ c \in Callers),
         c \in Callers => Fits(c, t, Len(jobs'))
  PROVE  ThreadsTyped'
<1>1. thr \in [Callers -> Thread] /\ Len(jobs) \in Nat /\ Len(jobs') \in Nat
      /\ Len(jobs') >= Len(jobs)
  BY LenProperties DEF ThreadsTyped, JobsGrow
<1>2. /\ thr' \in [Callers -> Thread]
      /\ c \in Callers => thr'[c] = t
      /\ \A x \in Callers \ {c} : thr'[x].pc = thr[x].pc /\ thr'[x].job = thr[x].job
                                  /\ thr'[x].step = thr[x].step
  BY <1>1, ThreadsGo
<1>3. Planners \subseteq Callers /\ "user" \in Callers /\ "user" \notin Planners
  BY DEF Planners, Callers
<1>4. ASSUME NEW x \in Callers
      PROVE  Fits(x, thr'[x], Len(jobs'))
  <2>1. CASE x = c
    BY <1>2, <2>1
  <2>2. CASE x # c
    BY <1>1, <1>2, <1>3, <1>4, <2>2 DEF ThreadsTyped, Fits
  <2> QED
    BY <2>1, <2>2
<1> QED
  BY <1>2, <1>3, <1>4 DEF ThreadsTyped, JobsGrow, Fits

\* An idle thread fits every caller.
LEMMA IdleFits ==
  ASSUME NEW c, NEW n \in Nat
  PROVE  Idle \in Thread /\ Fits(c, Idle, n)
BY DEF Idle, Thread, Fits, Pcs, Ver, None

\* A planner that is beyond the dispatch stays with its job and its step.
LEMMA PlannerGoesOn ==
  ASSUME ThreadsTyped, JobsGrow, NEW c \in Planners, NEW t \in Thread,
         thr' = OthersOld(c, t) \/ Goes(c, t),
         thr[c].pc \notin {"idle", "claim", "dispatch"},
         t.job = thr[c].job, t.step = thr[c].step
  PROVE  ThreadsTyped'
<1>1. Len(jobs) \in Nat /\ Len(jobs') \in Nat /\ Len(jobs') >= Len(jobs)
  BY LenProperties DEF ThreadsTyped, JobsGrow
<1>2. thr[c].job \in 1 .. Len(jobs) /\ thr[c].step # None
  BY DEF ThreadsTyped
<1>3. c \in Callers /\ c # "user"
  BY DEF Planners, Callers
<1>4. Fits(c, t, Len(jobs'))
  BY <1>1, <1>2, <1>3 DEF Fits
<1> QED
  BY <1>3, <1>4, ThreadsStep

\* A caller may always become idle.
LEMMA CallerRests ==
  ASSUME ThreadsTyped, JobsGrow, NEW c \in Callers \cup {None},
         thr' = OthersOld(c, Idle) \/ (Goes(c, Idle) /\ c \in Callers)
  PROVE  ThreadsTyped'
<1>1. Len(jobs') \in Nat
  BY LenProperties DEF JobsGrow
<1> QED
  BY <1>1, IdleFits, ThreadsStep

\* What a user does makes the versions of the threads old.
LEMMA UserMovesAll ==
  ASSUME thr \in [Callers -> Thread], UserMoves
  PROVE  /\ thr' \in [Callers -> Thread]
         /\ \A x \in Callers :
              /\ thr'[x].pc = thr[x].pc /\ thr'[x].job = thr[x].job
              /\ thr'[x].step = thr[x].step /\ thr'[x].row = thr[x].row
<1>1. \A x \in Callers : thr'[x] = [thr[x] EXCEPT !.ver = "old"]
  BY DEF UserMoves, OthersOld, Callers, Planners, None
<1>2. ASSUME NEW x \in Callers
      PROVE  /\ thr'[x] \in Thread
             /\ thr'[x].pc = thr[x].pc /\ thr'[x].job = thr[x].job
             /\ thr'[x].step = thr[x].step /\ thr'[x].row = thr[x].row
  <2>1. thr[x] \in Thread /\ thr'[x] = [thr[x] EXCEPT !.ver = "old"]
    BY <1>1
  <2> QED
    BY <2>1 DEF Thread, Ver
<1>3. thr' \in [Callers -> Thread]
  BY <1>2 DEF UserMoves, OthersOld
<1> QED
  BY <1>2, <1>3

\* A user's transaction leaves every thread with its job and its step.
LEMMA UserActs ==
  ASSUME ThreadsTyped, JobsGrow, UserMoves
  PROVE  ThreadsTyped'
<1>1. Len(jobs) \in Nat /\ Len(jobs') \in Nat /\ Len(jobs') >= Len(jobs)
  BY LenProperties DEF ThreadsTyped, JobsGrow
<1>2. Planners \subseteq Callers /\ "user" \in Callers
  BY DEF Planners, Callers
<1>3. thr \in [Callers -> Thread]
  BY DEF ThreadsTyped
<1>4. /\ thr' \in [Callers -> Thread]
      /\ \A x \in Callers : /\ thr'[x].pc = thr[x].pc /\ thr'[x].job = thr[x].job
                             /\ thr'[x].step = thr[x].step
  BY <1>3, UserMovesAll
<1> QED
  BY <1>1, <1>2, <1>4 DEF ThreadsTyped, JobsGrow

\* A step that raises leads to _mark_retry with the same job.
LEMMA PlannerRaises ==
  ASSUME ThreadsTyped, jobs' = jobs, NEW c \in Planners, Raises(c),
         thr[c].pc \notin {"idle", "claim", "dispatch"}
  PROVE  ThreadsTyped'
<1> DEFINE t == [thr[c] EXCEPT !.pc = "failing", !.ver = "old", !.pkg = None, !.gate = None]
<1>1. thr[c] \in Thread
  BY DEF ThreadsTyped, Planners, Callers
<1>2. t \in Thread /\ t.job = thr[c].job /\ t.step = thr[c].step
  BY <1>1 DEF Thread, Pcs, Ver
<1>3. Goes(c, t) /\ JobsGrow
  BY LenProperties DEF Raises, JobsGrow, ThreadsTyped
<1> HIDE DEF t
<1> QED
  BY <1>2, <1>3, PlannerGoesOn

\* A job that is rewritten stays a job.
LEMMA JobWritten ==
  ASSUME jobs \in Seq(Job), NEW j \in 1 .. Len(jobs), NEW x \in Job,
         jobs' = [jobs EXCEPT ![j] = x]
  PROVE  JobsGrow
<1>1. Len(jobs) \in Nat
  BY LenProperties
<1> QED
  BY <1>1, ExceptSeq DEF JobsGrow

\* A job that is read is a job.
LEMMA JobRead ==
  ASSUME ThreadsTyped, NEW j \in 1 .. Len(jobs)
  PROVE  /\ jobs[j] \in Job /\ DOMAIN jobs = 1 .. Len(jobs) /\ Len(jobs) \in Nat
         /\ jobs \in [1 .. Len(jobs) -> Job]
BY ElementOfSeq, LenProperties DEF ThreadsTyped

\* The job a planner works on.
LEMMA PlannersJob ==
  ASSUME ThreadsTyped, NEW c \in Planners, thr[c].pc \notin {"idle", "claim"}
  PROVE  /\ thr[c] \in Thread /\ thr[c].job \in 1 .. Len(jobs) /\ jobs[thr[c].job] \in Job
         /\ c \in Callers
<1>1. c \in Callers
  BY DEF Planners, Callers
<1> QED
  BY <1>1, JobRead DEF ThreadsTyped

\* The jobs that are not over, and the newest of them.
LEMMA OpenJobs ==
  ASSUME ThreadsTyped
  PROVE  Open(jobs) \subseteq 1 .. Len(jobs)
         /\ (Open(jobs) # {} => Newest(Open(jobs)) \in 1 .. Len(jobs))
<1>1. DOMAIN jobs = 1 .. Len(jobs) /\ Len(jobs) \in Nat
  BY LenProperties DEF ThreadsTyped
<1>2. Open(jobs) \subseteq 1 .. Len(jobs)
  BY <1>1 DEF Open
<1> QED
  BY <1>1, <1>2, NewestIn

\* _complete_explanation and decide_g06 write a job that is one.
LEMMA OpenJobWritten ==
  ASSUME ThreadsTyped, NEW s \in {"waiting_g06", "review_not_accepted", "completed"},
         OpenJobTo(s)
  PROVE  JobsGrow
<1>1. CASE Open(jobs) = {}
  BY <1>1, LenProperties DEF OpenJobTo, JobsGrow, ThreadsTyped
<1>2. CASE Open(jobs) # {}
  <2> DEFINE j == Newest(Open(jobs))
             x == [jobs[j] EXCEPT !.status = s, !.step = s,
                                  !.attempt = IF s = "completed" THEN jobs[j].attempt ELSE 0]
  <2>1. j \in 1 .. Len(jobs)
    BY <1>2, OpenJobs
  <2>2. jobs[j] \in Job /\ DOMAIN jobs = 1 .. Len(jobs) /\ jobs \in [1 .. Len(jobs) -> Job]
    BY <2>1, JobRead
  <2>3. x \in Job
    <3>1. 0 \in 0 .. MaxAttempts
      BY PlanningAssumption
    <3>2. (IF s = "completed" THEN jobs[j].attempt ELSE 0) \in 0 .. MaxAttempts
      BY <2>2, <3>1 DEF Job
    <3> QED
      BY <2>2, <3>2 DEF Job, JobStep, HumanWaits, NonTerminal, Terminal
  <2>4. jobs' = [jobs EXCEPT ![j] = x]
    BY <1>2, <2>1, <2>2 DEF OpenJobTo, Job
  <2> HIDE DEF j, x
  <2> QED
    BY <2>1, <2>3, <2>4, JobWritten DEF ThreadsTyped
<1> QED
  BY <1>1, <1>2

\* A job that is added is one.
LEMMA NewJobAdded ==
  ASSUME ThreadsTyped, NEW k \in Pkg \cup {None}
  PROVE  /\ NewJob(k) \in Job
         /\ Append(jobs, NewJob(k)) \in Seq(Job)
         /\ Len(Append(jobs, NewJob(k))) = Len(jobs) + 1
         /\ Len(jobs) \in Nat
<1>1. NewJob(k) \in Job
  BY PlanningAssumption DEF NewJob, Job, NonTerminal, Claimable, JobStep, Steps
<1> QED
  BY <1>1, AppendProperties, LenProperties DEF ThreadsTyped

\* One job for an open G04, or the job that is open already.
LEMMA JobIfNoneOpen ==
  ASSUME ThreadsTyped,
         jobs' \in {jobs, Append(jobs, NewJob(None))}
  PROVE  JobsGrow
<1>1. Len(jobs) \in Nat /\ jobs \in Seq(Job)
  BY LenProperties DEF ThreadsTyped
<1> QED
  BY <1>1, NewJobAdded DEF JobsGrow

\* claim_planning_job counts an attempt that is still allowed.
LEMMA ClaimKeepsTypes ==
  ASSUME ThreadsTyped, NEW c \in Planners, Claim(c)
  PROVE  ThreadsTyped'
<1> DEFINE due == {j \in DOMAIN jobs : MayClaim(j)}
           j == Newest(due)
           x == [jobs[j] EXCEPT !.attempt = jobs[j].attempt + 1, !.leased = TRUE]
           t == [Idle EXCEPT !.pc = "dispatch", !.job = j]
<1>1. Len(jobs) \in Nat /\ DOMAIN jobs = 1 .. Len(jobs)
  BY LenProperties DEF ThreadsTyped
<1>2. CASE due # {}
  <2>1. j \in due
    BY <1>1, <1>2, NewestIn
  <2>2. j \in 1 .. Len(jobs) /\ MayClaim(j)
    BY <1>1, <2>1
  <2>3. jobs[j] \in Job /\ jobs \in [1 .. Len(jobs) -> Job]
    BY <2>2, JobRead
  <2>4. jobs[j].attempt + 1 \in 0 .. MaxAttempts
    BY <2>2, <2>3, PlanningAssumption DEF MayClaim, Job
  <2>5. x \in Job
    BY <2>3, <2>4 DEF Job
  <2>6. jobs' = [jobs EXCEPT ![j] = x]
    BY <1>2, <2>2, <2>3 DEF Claim, Job
  <2>7. Goes(c, t)
    BY <1>2 DEF Claim
  <2> HIDE DEF j, x
  <2>8. t \in Thread /\ t.job = j /\ t.pc = "dispatch"
    <3>1. Idle \in Thread /\ j \in Nat
      BY <1>1, <2>2, IdleFits
    <3> QED
      BY <3>1 DEF Thread, Pcs
  <2> HIDE DEF t
  <2>9. JobsGrow
    BY <2>2, <2>5, <2>6, JobWritten DEF ThreadsTyped
  <2>10. Len(jobs') \in Nat /\ Len(jobs') >= Len(jobs)
    BY <2>9, LenProperties DEF JobsGrow
  <2>11. Fits(c, t, Len(jobs'))
    BY <1>1, <2>2, <2>8, <2>10 DEF Fits, Planners
  <2> QED
    BY <2>7, <2>8, <2>9, <2>11, ThreadsStep DEF Callers
<1>3. CASE due = {}
  <2>1. Goes(c, Idle) /\ jobs' = jobs /\ c \in Callers
    BY <1>3 DEF Claim, Planners, Callers
  <2> QED
    BY <1>1, <2>1, CallerRests DEF JobsGrow, ThreadsTyped
<1> QED
  BY <1>2, <1>3

\* _mark_retry writes the step the planner knows.
LEMMA FailKeepsTypes ==
  ASSUME ThreadsTyped, NEW c \in Planners, Fail(c)
  PROVE  ThreadsTyped'
<1> DEFINE j == thr[c].job
           x == [jobs[j] EXCEPT !.status = "technical_failed", !.step = thr[c].step,
                                !.leased = FALSE,
                                !.outcomes = jobs[j].outcomes \cup {jobs[j].attempt}]
<1>1. /\ thr[c] \in Thread /\ j \in 1 .. Len(jobs) /\ jobs[j] \in Job /\ c \in Callers
      /\ thr[c].step # None
  BY PlannersJob DEF Fail, At, ThreadsTyped
<1>2. JobsGrow
  <2>1. CASE jobs[j].attempt \notin jobs[j].outcomes
    <3>1. jobs[j].attempt \in Nat
      BY <1>1, PlanningAssumption DEF Job
    <3>2. x \in Job
      BY <1>1, <3>1 DEF Job, Thread, Terminal
    <3>3. jobs \in [1 .. Len(jobs) -> Job]
      BY <1>1, JobRead
    <3>4. jobs' = [jobs EXCEPT ![j] = x]
      BY <1>1, <2>1, <3>3 DEF Fail, Job
    <3> HIDE DEF j, x
    <3> QED
      BY <1>1, <3>2, <3>4, JobWritten DEF ThreadsTyped
  <2>2. CASE jobs[j].attempt \in jobs[j].outcomes
    <3>1. jobs' = jobs
      BY <2>2 DEF Fail
    <3> QED
      BY <3>1, LenProperties DEF JobsGrow, ThreadsTyped
  <2> QED
    BY <2>1, <2>2
<1>3. thr' = OthersOld(c, Idle) \/ Goes(c, Idle)
  BY DEF Fail
<1> QED
  BY <1>1, <1>2, <1>3, CallerRests

\* The second transaction of a planner's step writes the job and lets go of it.
LEMMA JobOfStepWritten ==
  ASSUME ThreadsTyped, NEW c \in Planners, thr[c].pc \notin {"idle", "claim"},
         NEW s \in NonTerminal \cup Terminal, NEW p \in JobStep,
         jobs' = [jobs EXCEPT ![thr[c].job].status = s, ![thr[c].job].step = p,
                              ![thr[c].job].attempt = 0, ![thr[c].job].leased = FALSE],
         Goes(c, Idle)
  PROVE  ThreadsTyped'
<1> DEFINE j == thr[c].job
           x == [jobs[j] EXCEPT !.status = s, !.step = p, !.attempt = 0, !.leased = FALSE]
<1>1. j \in 1 .. Len(jobs) /\ jobs[j] \in Job /\ c \in Callers
  BY PlannersJob
<1>2. jobs \in [1 .. Len(jobs) -> Job]
  BY <1>1, JobRead
<1>3. 0 \in 0 .. MaxAttempts
  BY PlanningAssumption
<1>4. x \in Job
  BY <1>1, <1>3 DEF Job
<1>5. jobs' = [jobs EXCEPT ![j] = x]
  BY <1>1, <1>2 DEF Job
<1> HIDE DEF j, x
<1>6. JobsGrow
  BY <1>1, <1>4, <1>5, JobWritten DEF ThreadsTyped
<1> QED
  BY <1>1, <1>6, CallerRests

\* decide_g05 wakes a job that exists or the one it adds.
LEMMA DecisionKeepsTypes ==
  ASSUME ThreadsTyped, RunTyped, NEW approve \in BOOLEAN, DecideG05(approve)
  PROVE  ThreadsTyped'
<1> DEFINE p == Last(g05).pkg
           j == WokenJob(p)
           all == IF j > Len(jobs) THEN Append(jobs, NewJob(p)) ELSE jobs
           x == [all[j] EXCEPT !.status = "generating_plan", !.step = "generating_plan",
                               !.attempt = 0, !.leased = FALSE]
<1>1. p \in Pkg
  <2>1. g05 \in Seq(Feasibility) /\ g05 # <<>>
    BY DEF DecideG05, RunTyped
  <2>2. Len(g05) \in 1 .. Len(g05)
    BY <2>1, EmptySeq, LenProperties
  <2>3. g05[Len(g05)] \in Feasibility
    BY <2>1, <2>2, ElementOfSeq
  <2> QED
    BY <2>3 DEF Last, Feasibility
<1>2. Len(jobs) \in Nat /\ DOMAIN jobs = 1 .. Len(jobs) /\ jobs \in Seq(Job)
  BY LenProperties DEF ThreadsTyped
<1>3. j \in 1 .. Len(jobs) + 1
  <2> DEFINE mine == {i \in DOMAIN jobs : jobs[i].key = p}
  <2>1. mine # {} => Newest(mine) \in 1 .. Len(jobs)
    BY <1>2, NewestIn
  <2>2. Open(jobs) # {} => Newest(Open(jobs)) \in 1 .. Len(jobs)
    BY OpenJobs
  <2>3. \/ Open(jobs) # {} /\ j = Newest(Open(jobs))
        \/ mine # {} /\ j = Newest(mine)
        \/ j = Len(jobs) + 1
    BY DEF WokenJob
  <2> HIDE DEF j, mine
  <2> QED
    BY <1>2, <2>1, <2>2, <2>3
<1> HIDE DEF j, p
<1>4. NewJob(p) \in Job /\ Append(jobs, NewJob(p)) \in Seq(Job)
      /\ Len(Append(jobs, NewJob(p))) = Len(jobs) + 1
  BY <1>1, NewJobAdded
<1>5. all \in Seq(Job) /\ Len(all) >= Len(jobs) /\ j \in 1 .. Len(all)
  BY <1>2, <1>3, <1>4
<1>6. all[j] \in Job /\ all \in [1 .. Len(all) -> Job]
  BY <1>5, ElementOfSeq, LenProperties
<1>7. x \in Job
  <2>1. 0 \in 0 .. MaxAttempts
    BY PlanningAssumption
  <2> QED
    BY <1>6, <2>1 DEF Job, NonTerminal, Claimable, JobStep, Steps
<1>8. JobsGrow
  <2>1. CASE approve
    <3>1. jobs' = [all EXCEPT ![j].status = "generating_plan", ![j].step = "generating_plan",
                              ![j].attempt = 0, ![j].leased = FALSE]
      BY <2>1 DEF DecideG05, j, p
    <3> HIDE DEF all
    <3>2. jobs' = [all EXCEPT ![j] = x]
      BY <1>5, <1>6, <3>1 DEF Job
    <3> HIDE DEF x
    <3>3. jobs' \in Seq(Job) /\ Len(jobs') = Len(all)
      BY <1>5, <1>7, <3>2, ExceptSeq
    <3> QED
      BY <1>5, <3>3 DEF JobsGrow
  <2>2. CASE ~ approve
    <3>1. jobs' = jobs
      BY <2>2 DEF DecideG05
    <3> QED
      BY <1>2, <3>1 DEF JobsGrow
  <2> QED
    BY <2>1, <2>2
<1> QED
  BY <1>8, UserActs DEF DecideG05

\* A restart ends every thread; what it does to the jobs keeps them jobs.
LEMMA RestartKeepsTypes ==
  ASSUME ThreadsTyped, Restart
  PROVE  ThreadsTyped'
<1>1. PICK expired \in BOOLEAN : jobs' = [j \in DOMAIN jobs |-> Recovered(jobs[j], expired)]
  BY DEF Restart
<1>2. DOMAIN jobs = 1 .. Len(jobs) /\ jobs \in Seq(Job) /\ Len(jobs) \in Nat
  BY LenProperties DEF ThreadsTyped
<1>3. ASSUME NEW j \in 1 .. Len(jobs)
      PROVE  Recovered(jobs[j], expired) \in Job
  <2>1. jobs[j] \in Job
    BY JobRead
  <2> QED
    BY <2>1 DEF Recovered, Job, NonTerminal, Claimable
<1>4. jobs' \in [DOMAIN jobs -> Job]
  BY <1>1, <1>2, <1>3
<1>5. jobs' \in Seq(Job) /\ Len(jobs') = Len(jobs)
  BY <1>2, <1>4, Rewritten
<1>6. thr' = [c \in Callers |-> Idle]
  BY DEF Restart
<1>7. Idle \in Thread /\ Idle.pc = "idle" /\ Idle.job = 0
  BY IdleFits DEF Idle
<1>8. thr' \in [Callers -> Thread]
      /\ \A c \in Callers : thr'[c].pc = "idle" /\ thr'[c].job = 0
  BY <1>6, <1>7
<1> QED
  BY <1>2, <1>5, <1>8 DEF ThreadsTyped, Planners, Callers

\* A lease that ran out changes only the lease.
LEMMA ExpiryKeepsTypes ==
  ASSUME ThreadsTyped, LeaseExpires
  PROVE  ThreadsTyped'
<1>1. DOMAIN jobs = 1 .. Len(jobs) /\ jobs \in Seq(Job) /\ Len(jobs) \in Nat
  BY LenProperties DEF ThreadsTyped
<1>2. PICK j \in 1 .. Len(jobs) : jobs' = [jobs EXCEPT ![j].leased = FALSE]
  BY <1>1 DEF LeaseExpires
<1>3. jobs[j] \in Job
  BY JobRead
<1>4. [jobs[j] EXCEPT !.leased = FALSE] \in Job
  BY <1>3 DEF Job
<1>5. jobs' \in Seq(Job) /\ Len(jobs') = Len(jobs)
  BY <1>1, <1>2, <1>4, ExceptSeq
<1>6. thr' = thr
  BY DEF LeaseExpires
<1> QED
  BY <1>5, <1>6 DEF ThreadsTyped

-----------------------------------------------------------------------------
(* The steps of the planners keep the types of the threads. *)

\* Jobs that stay are jobs.
LEMMA NoJobWritten ==
  ASSUME ThreadsTyped, jobs' = jobs
  PROVE  JobsGrow
BY LenProperties DEF ThreadsTyped, JobsGrow

\* A sequence that is not empty has a last entry, which belongs to it.
LEMMA LastIn ==
  ASSUME NEW S, NEW s \in Seq(S), s # <<>>
  PROVE  Len(s) \in 1 .. Len(s) /\ Last(s) \in S
<1>1. Len(s) \in 1 .. Len(s)
  BY EmptySeq, LenProperties
<1> QED
  BY <1>1, ElementOfSeq DEF Last

\* The newest approved gate is one of the gates.
LEMMA ApprovedIn ==
  ASSUME RunTyped, ApprovedG05 # {}
  PROVE  /\ Newest(ApprovedG05) \in ApprovedG05
         /\ Newest(ApprovedG05) \in DOMAIN g05
         /\ g05[Newest(ApprovedG05)] \in Feasibility
<1>1. g05 \in Seq(Feasibility) /\ Len(g05) \in Nat /\ DOMAIN g05 = 1 .. Len(g05)
  BY LenProperties DEF RunTyped
<1>2. ApprovedG05 \subseteq 1 .. Len(g05)
  BY <1>1 DEF ApprovedG05
<1>3. Newest(ApprovedG05) \in ApprovedG05
  BY <1>1, <1>2, NewestIn
<1> QED
  BY <1>1, <1>2, <1>3, ElementOfSeq

\* dispatch_planning_job gives the planner the step of its job.
LEMMA DispatchKeepsTypes ==
  ASSUME ThreadsTyped, NEW c \in Planners, Dispatch(c)
  PROVE  ThreadsTyped'
<1> DEFINE s == jobs[thr[c].job].step
           t == [thr[c] EXCEPT !.pc = IF s \in Steps THEN s ELSE "failing", !.step = s]
<1>1. thr[c] \in Thread /\ thr[c].job \in 1 .. Len(jobs) /\ jobs[thr[c].job] \in Job
      /\ c \in Callers
  BY PlannersJob DEF Dispatch, At
<1>2. s \in JobStep /\ s # None
  BY <1>1 DEF Job, JobStep, Steps, HumanWaits, None
<1>3. t \in Thread /\ t.job = thr[c].job /\ t.step = s
  BY <1>1, <1>2 DEF Thread, Pcs
<1>4. Goes(c, t) /\ jobs' = jobs
  BY DEF Dispatch, OnlyThread
<1> HIDE DEF s, t
<1>5. Fits(c, t, Len(jobs'))
  <2>1. c # "user" /\ Len(jobs) \in Nat
    BY LenProperties DEF Planners, ThreadsTyped
  <2> QED
    BY <1>1, <1>2, <1>3, <1>4, <2>1 DEF Fits
<1> QED
  BY <1>1, <1>3, <1>4, <1>5, NoJobWritten, ThreadsStep

\* The beginning of the feasibility step keeps the types.
LEMMA BeginKeepsTypes ==
  ASSUME ThreadsTyped, NEW c \in Planners, Begin(c)
  PROVE  ThreadsTyped'
<1> DEFINE t == [thr[c] EXCEPT !.pc = "resolve", !.ver = "current"]
<1>1. thr[c] \in Thread /\ thr[c].pc = "resolving_feasibility"
  BY PlannersJob DEF Begin, At
<1>2. t \in Thread /\ t.job = thr[c].job /\ t.step = thr[c].step
  BY <1>1 DEF Thread, Pcs, Ver
<1>3. Goes(c, t) /\ jobs' = jobs
  BY DEF Begin, OnlyThread
<1> HIDE DEF t
<1> QED
  BY <1>1, <1>2, <1>3, NoJobWritten, PlannerGoesOn

\* The resolution of feasibility keeps the types.
LEMMA ResolveKeepsTypes ==
  ASSUME ThreadsTyped, NEW c \in Planners, ResolveFeasibility(c)
  PROVE  ThreadsTyped'
<1>1. thr[c] \in Thread /\ thr[c].pc = "resolve"
  BY PlannersJob DEF ResolveFeasibility, At
<1>2. CASE Raises(c) /\ OnlyThread
  BY <1>1, <1>2, PlannerRaises DEF OnlyThread
<1>3. CASE ~ (Raises(c) /\ OnlyThread)
  <2>1. PICK p \in Pkg : /\ thr' = OthersOld(c, [thr[c] EXCEPT !.pc = "resolved", !.ver = "old",
                                                               !.pkg = p])
                         /\ jobs' = jobs
    BY <1>3 DEF ResolveFeasibility, Resolved, Pkg
  <2> DEFINE t == [thr[c] EXCEPT !.pc = "resolved", !.ver = "old", !.pkg = p]
  <2>2. t \in Thread /\ t.job = thr[c].job /\ t.step = thr[c].step
    BY <1>1 DEF Thread, Pcs, Ver
  <2>3. thr' = OthersOld(c, t)
    BY <2>1
  <2> HIDE DEF t
  <2> QED
    BY <1>1, <2>1, <2>2, <2>3, NoJobWritten, PlannerGoesOn
<1> QED
  BY <1>2, <1>3

\* _approved_plan_request puts together packages that are some.
LEMMA RequestKeepsTypes ==
  ASSUME ThreadsTyped, RunTyped, NEW c \in Planners, PlanRequest(c)
  PROVE  ThreadsTyped'
<1>1. thr[c] \in Thread /\ thr[c].pc \in {"generating_plan", "running_planning_review"}
  BY PlannersJob DEF PlanRequest
<1>2. jobs' = jobs
  BY DEF PlanRequest, OnlyThread
<1>3. CASE Raises(c)
  BY <1>1, <1>2, <1>3, PlannerRaises
<1>4. CASE ~ Raises(c)
  <2> DEFINE pkg == IF At(c, "generating_plan") THEN Last(res).pkg ELSE None
             gate == IF At(c, "generating_plan") THEN g05[Newest(ApprovedG05)].pkg ELSE None
             t == [thr[c] EXCEPT !.pc = IF thr[c].pc = "generating_plan" THEN "plan" ELSE "review",
                                 !.ver = "current", !.pkg = pkg, !.gate = gate]
  <2>1. res # <<>> /\ ApprovedG05 # {} /\ Goes(c, t)
    BY <1>1, <1>4 DEF PlanRequest, Thread
  <2>2. Last(res) \in Resolution /\ g05[Newest(ApprovedG05)] \in Feasibility
    BY <2>1, LastIn, ApprovedIn DEF RunTyped
  <2>3. pkg \in Pkg \cup {None} /\ gate \in Pkg \cup {None}
    BY <2>2 DEF Resolution, Feasibility
  <2> HIDE DEF pkg, gate
  <2>4. t \in Thread /\ t.job = thr[c].job /\ t.step = thr[c].step
    BY <1>1, <2>3 DEF Thread, Pcs, Ver
  <2> HIDE DEF t
  <2> QED
    BY <1>1, <1>2, <2>1, <2>4, NoJobWritten, PlannerGoesOn
<1> QED
  BY <1>3, <1>4

\* The generation of the plan keeps the types of the threads.
LEMMA GenerateKeepsTypes ==
  ASSUME ThreadsTyped, NEW c \in Planners, GeneratePlan(c)
  PROVE  ThreadsTyped'
<1> DEFINE t == [thr[c] EXCEPT !.pc = "planned", !.ver = "old", !.pkg = None, !.gate = None]
<1>1. thr[c] \in Thread /\ thr[c].pc = "plan"
  BY PlannersJob DEF GeneratePlan, At
<1>2. jobs' = jobs
  BY DEF GeneratePlan, OnlyThread, Created
<1>3. CASE Raises(c)
  BY <1>1, <1>2, <1>3, PlannerRaises
<1>4. CASE ~ Raises(c)
  <2>1. Goes(c, t) \/ thr' = OthersOld(c, t)
    BY <1>4 DEF GeneratePlan
  <2>2. t \in Thread /\ t.job = thr[c].job /\ t.step = thr[c].step
    BY <1>1 DEF Thread, Pcs, Ver
  <2> HIDE DEF t
  <2> QED
    BY <1>1, <1>2, <2>1, <2>2, NoJobWritten, PlannerGoesOn
<1> QED
  BY <1>3, <1>4

\* The beginning of a review keeps the types of the threads.
LEMMA ReviewKeepsTypes ==
  ASSUME ThreadsTyped, rows \in Seq(ReviewRow), NEW c \in Planners, Review(c)
  PROVE  ThreadsTyped'
<1> DEFINE t == [thr[c] EXCEPT !.pc = "model", !.ver = "old", !.row = Len(rows) + 1]
<1>1. thr[c] \in Thread /\ thr[c].pc = "review" /\ c \in Callers
  BY PlannersJob DEF Review, At
<1>2. jobs' = jobs
  BY DEF Review
<1>3. CASE Raises(c)
  BY <1>1, <1>2, <1>3, PlannerRaises
<1>4. CASE Goes(c, Idle)
  BY <1>1, <1>2, <1>4, NoJobWritten, CallerRests
<1>5. CASE Goes(c, t)
  <2>1. t \in Thread /\ t.job = thr[c].job /\ t.step = thr[c].step
    <3>1. Len(rows) + 1 \in Nat
      BY LenProperties
    <3> QED
      BY <1>1, <3>1 DEF Thread, Pcs, Ver
  <2> HIDE DEF t
  <2> QED
    BY <1>1, <1>2, <1>5, <2>1, NoJobWritten, PlannerGoesOn
<1> QED
  BY <1>3, <1>4, <1>5 DEF Review

\* The end of a review keeps the types of the jobs and of the threads.
LEMMA ModelKeepsTypes ==
  ASSUME ThreadsTyped, NEW c \in Callers, Model(c)
  PROVE  ThreadsTyped'
<1>1. CASE \E answer \in Answers : CompleteExplanation(c, answer)
                                   \/ CompleteNonacceptedReview(c, answer)
  <2>1. thr' = OthersOld(c, Idle)
    BY <1>1 DEF CompleteExplanation, CompleteNonacceptedReview, ReviewEnds
  <2>2. OpenJobTo("waiting_g06") \/ OpenJobTo("review_not_accepted")
    BY <1>1 DEF CompleteExplanation, CompleteNonacceptedReview
  <2>3. JobsGrow
    BY <2>2, OpenJobWritten
  <2> QED
    BY <2>1, <2>3, CallerRests
<1>2. CASE MarkPlanningFailed(c)
  <2>1. jobs' = jobs
    BY <1>2 DEF MarkPlanningFailed
  <2>2. CASE c = "user"
    BY <1>2, <2>1, <2>2, NoJobWritten, CallerRests DEF MarkPlanningFailed
  <2>3. CASE c # "user"
    <3> DEFINE t == [thr[c] EXCEPT !.pc = "failing", !.row = 0]
    <3>1. c \in Planners
      BY <2>3 DEF Callers
    <3>2. thr[c] \in Thread /\ thr[c].pc = "model"
      BY <3>1, PlannersJob DEF Model, At
    <3>3. t \in Thread /\ t.job = thr[c].job /\ t.step = thr[c].step
      BY <3>2 DEF Thread, Pcs
    <3>4. Goes(c, t)
      BY <1>2, <2>3 DEF MarkPlanningFailed
    <3> HIDE DEF t
    <3> QED
      BY <2>1, <3>1, <3>2, <3>3, <3>4, NoJobWritten, PlannerGoesOn
  <2> QED
    BY <2>2, <2>3
<1> QED
  BY <1>1, <1>2 DEF Model

\* The feasibility command makes a job at most and goes on to claim one.
LEMMA EnqueueKeepsTypes ==
  ASSUME ThreadsTyped, Enqueue
  PROVE  ThreadsTyped'
<1> DEFINE t == [Idle EXCEPT !.pc = "claim"]
<1>1. JobsGrow
  BY JobIfNoneOpen DEF Enqueue
<1>2. Goes("command", t) /\ "command" \in Callers
  BY DEF Enqueue, Callers, Planners
<1>3. t \in Thread /\ t.job = 0 /\ t.pc = "claim"
  BY DEF Idle, Thread, Pcs, Ver, None
<1> HIDE DEF t
<1>4. Fits("command", t, Len(jobs'))
  <2>1. Len(jobs') \in Nat
    BY <1>1, LenProperties DEF JobsGrow
  <2> QED
    BY <1>3, <2>1 DEF Fits
<1> QED
  BY <1>1, <1>2, <1>3, <1>4, ThreadsStep

\* A user's request for a review has no job.
LEMMA ReviewRequestKeepsTypes ==
  ASSUME ThreadsTyped, rows \in Seq(ReviewRow), RequestReview
  PROVE  ThreadsTyped'
<1> DEFINE t == [Idle EXCEPT !.pc = "model", !.row = Len(rows) + 1]
<1>1. Len(rows) + 1 \in Nat
  BY LenProperties
<1>2. t \in Thread /\ t.job = 0 /\ t.pc = "model"
  <2>1. Idle \in Thread /\ Idle.job = 0
    BY IdleFits DEF Idle
  <2> QED
    BY <1>1, <2>1 DEF Thread, Pcs
<1>3. Goes("user", t) /\ "user" \in Callers /\ jobs' = jobs
  BY DEF RequestReview, Callers
<1> HIDE DEF t
<1>4. Fits("user", t, Len(jobs'))
  <2>1. Len(jobs') \in Nat
    BY <1>3, LenProperties DEF ThreadsTyped
  <2> QED
    BY <1>2, <2>1 DEF Fits, Planners
<1> QED
  BY <1>2, <1>3, <1>4, NoJobWritten, ThreadsStep

\* A request of a user that touches no job but the open one.
LEMMA DecisionsKeepTypes ==
  ASSUME ThreadsTyped, NEW approve \in BOOLEAN, DecideG04(approve) \/ DecideG06(approve)
  PROVE  ThreadsTyped'
<1>1. JobsGrow
  <2>1. CASE DecideG04(approve)
    BY <2>1, JobIfNoneOpen DEF DecideG04
  <2>2. CASE DecideG06(approve)
    BY <2>2, NoJobWritten, OpenJobWritten DEF DecideG06
  <2> QED
    BY <2>1, <2>2
<1> QED
  BY <1>1, UserActs DEF DecideG04, DecideG06

\* Every step of the planning keeps the types of the jobs and of the threads.
LEMMA StepKeepsThreads ==
  ASSUME RunTyped, ThreadsTyped, rows \in Seq(ReviewRow), [Next]_vars
  PROVE  ThreadsTyped'
<1>1. ASSUME NEW c \in Planners, PlannerStep(c)
      PROVE  ThreadsTyped'
  <2>1. CASE ResolvedJob(c)
    <3> DEFINE s == IF thr[c].pkg = "blocked" THEN "completed_blocked" ELSE "waiting_g05"
               p == IF thr[c].pkg = "blocked" THEN "resolving_feasibility" ELSE "waiting_g05"
    <3>1. s \in NonTerminal \cup Terminal /\ p \in JobStep
      BY DEF NonTerminal, Terminal, HumanWaits, JobStep, Steps
    <3>2. /\ thr[c].pc \notin {"idle", "claim"} /\ Goes(c, Idle)
          /\ jobs' = [jobs EXCEPT ![thr[c].job].status = s, ![thr[c].job].step = p,
                                  ![thr[c].job].attempt = 0, ![thr[c].job].leased = FALSE]
      BY <2>1 DEF ResolvedJob, At
    <3> HIDE DEF s, p
    <3> QED
      BY <3>1, <3>2, JobOfStepWritten
  <2>2. CASE PlannedJob(c)
    <3>1. "running_planning_review" \in NonTerminal /\ "running_planning_review" \in JobStep
      BY DEF NonTerminal, Claimable, JobStep, Steps
    <3>2. thr[c].pc \notin {"idle", "claim"} /\ Goes(c, Idle)
      BY <2>2 DEF PlannedJob, At
    <3> QED
      BY <2>2, <3>1, <3>2, JobOfStepWritten DEF PlannedJob
  <2> QED
    BY <1>1, <2>1, <2>2, ClaimKeepsTypes, DispatchKeepsTypes, BeginKeepsTypes,
       ResolveKeepsTypes, RequestKeepsTypes, GenerateKeepsTypes, ReviewKeepsTypes,
       FailKeepsTypes DEF PlannerStep
<1>2. ASSUME NEW approve \in BOOLEAN,
             DecideG04(approve) \/ DecideG05(approve) \/ DecideG06(approve)
      PROVE  ThreadsTyped'
  BY <1>2, DecisionsKeepTypes, DecisionKeepsTypes
<1>3. CASE RequestFeasibility \/ ExpiredG05 \/ RequestPlan \/ Revise
  <2>1. jobs' = jobs /\ UserMoves
    BY <1>3 DEF RequestFeasibility, ExpiredG05, RequestPlan, Revise, Resolved, Created
  <2> QED
    BY <2>1, NoJobWritten, UserActs
<1>4. CASE MarkGateStale \/ ValidateG06 \/ UNCHANGED vars
  <2>1. jobs' = jobs /\ thr' = thr
    BY <1>4 DEF MarkGateStale, ValidateG06, vars
  <2> QED
    BY <2>1 DEF ThreadsTyped
<1>5. CASE Request
  BY <1>2, <1>3, <1>4, <1>5, EnqueueKeepsTypes, ReviewRequestKeepsTypes DEF Request
<1> QED
  BY <1>1, <1>4, <1>5, ModelKeepsTypes, ExpiryKeepsTypes, RestartKeepsTypes DEF Next

-----------------------------------------------------------------------------
(* The types of the run, its resolutions and approvals. *)

\* The bound on extra steps holds.
LEMMA ExtraGrows ==
  ASSUME RunTyped, Extra
  PROVE  extra' \in 0 .. MaxExtra
BY PlanningAssumption DEF Extra, RunTyped

\* A resolution and its gate are rows of their tables.
LEMMA ResolvedKeepsTypes ==
  ASSUME RunTyped, NEW p \in Pkg, NEW j \in Nat, Resolved(p, j), extra' \in 0 .. MaxExtra
  PROVE  RunTyped'
<1>1. [pkg |-> p, job |-> j] \in Resolution
      /\ [pkg |-> p, status |-> IF p = "blocked" THEN "blocked" ELSE "pending"] \in Feasibility
  BY DEF Resolution, Feasibility
<1>2. res' \in Seq(Resolution) /\ g05' \in Seq(Feasibility)
  BY <1>1, AppendProperties DEF Resolved, RunTyped
<1> QED
  BY <1>2 DEF Resolved, RunTyped

\* A revision leaves the approvals of feasibility what they are, or stale.
LEMMA StaleG05 ==
  ASSUME g05 \in Seq(Feasibility)
  PROVE  StaleNewest(g05, {"approved"}) \in Seq(Feasibility)
<1> DEFINE due == {i \in DOMAIN g05 : g05[i].status \in {"approved"}}
<1>1. DOMAIN g05 = 1 .. Len(g05) /\ Len(g05) \in Nat
  BY LenProperties
<1>2. CASE due = {}
  BY <1>2 DEF StaleNewest
<1>3. CASE due # {}
  <2>1. Newest(due) \in 1 .. Len(g05)
    BY <1>1, <1>3, NewestIn
  <2>2. g05[Newest(due)] \in Feasibility
    BY <2>1, ElementOfSeq
  <2>3. [g05[Newest(due)] EXCEPT !.status = "stale"] \in Feasibility
    BY <2>2 DEF Feasibility
  <2>4. StaleNewest(g05, {"approved"})
          = [g05 EXCEPT ![Newest(due)] = [g05[Newest(due)] EXCEPT !.status = "stale"]]
    BY <1>3 DEF StaleNewest
  <2> HIDE DEF due
  <2> QED
    BY <2>1, <2>3, <2>4, ExceptSeq
<1> QED
  BY <1>2, <1>3

\* Every step of the planning keeps the types of the run and its approvals.
LEMMA StepKeepsRun ==
  ASSUME RunTyped, ThreadsTyped, PlansTyped, [Next]_vars
  PROVE  RunTyped'
<1>1. ASSUME NEW c \in Planners, PlannerStep(c)
      PROVE  RunTyped'
  <2>1. CASE ResolveFeasibility(c)
    <3>1. CASE OnlyThread
      BY <3>1 DEF OnlyThread, RunTyped
    <3>2. CASE ~ OnlyThread
      <4>1. PICK p \in Pkg : Resolved(p, thr[c].job)
        BY <2>1, <3>2 DEF ResolveFeasibility, Pkg
      <4>2. extra' = extra
        BY <2>1, <3>2 DEF ResolveFeasibility
      <4>3. thr[c].job \in Nat
        BY <2>1, PlannersJob DEF ResolveFeasibility, At, Thread
      <4> QED
        BY <4>1, <4>2, <4>3, ResolvedKeepsTypes DEF RunTyped
    <3> QED
      BY <3>1, <3>2
  <2>2. CASE Fail(c)
    BY <2>2 DEF Fail, RunTyped
  <2>3. CASE Claim(c) \/ Dispatch(c) \/ Begin(c) \/ ResolvedJob(c) \/ PlanRequest(c)
             \/ GeneratePlan(c) \/ PlannedJob(c) \/ Review(c)
    BY <2>3 DEF Claim, Dispatch, Begin, ResolvedJob, PlanRequest, GeneratePlan, Created,
       PlannedJob, Review, OnlyThread, RunTyped
  <2> QED
    BY <1>1, <2>1, <2>2, <2>3 DEF PlannerStep
<1>2. ASSUME NEW c \in Callers, Model(c)
      PROVE  RunTyped'
  BY <1>2 DEF Model, CompleteExplanation, CompleteNonacceptedReview, ReviewEnds,
     MarkPlanningFailed, RunTyped
<1>3. ASSUME NEW approve \in BOOLEAN, DecideG04(approve)
      PROVE  RunTyped'
  BY <1>3 DEF DecideG04, RunTyped
<1>4. ASSUME NEW approve \in BOOLEAN, DecideG05(approve)
      PROVE  RunTyped'
  <2>1. Last(g05) \in Feasibility
    BY <1>4, LastIn DEF DecideG05, RunTyped
  <2>2. [pkg |-> Last(g05).pkg, status |-> IF approve THEN "approved" ELSE "rejected"]
          \in Feasibility
    BY <2>1 DEF Feasibility
  <2>3. g05' \in Seq(Feasibility)
    BY <1>4, <2>2, AppendProperties DEF DecideG05, RunTyped
  <2>4. extra' \in 0 .. MaxExtra
    BY <1>4, ExtraGrows DEF DecideG05, RunTyped
  <2> QED
    BY <1>4, <2>3, <2>4 DEF DecideG05, RunTyped
<1>5. ASSUME NEW approve \in BOOLEAN, DecideG06(approve)
      PROVE  RunTyped'
  <2>1. Len(plans) \in Nat /\ Len(g06) \in Nat
    BY LenProperties DEF PlansTyped
  <2>2. cont' \in [status : {None, "queued", "started", "blocked"}, plan : Nat, gate : Nat]
    BY <1>5, <2>1 DEF DecideG06, Continued, ActivePlan, RunTyped
  <2> QED
    BY <1>5, <2>2 DEF DecideG06, RunTyped
<1>6. CASE RequestFeasibility
  <2>1. PICK p \in Pkg : Resolved(p, 0)
    BY <1>6 DEF RequestFeasibility, Pkg
  <2>2. 0 \in Nat /\ extra' \in 0 .. MaxExtra
    BY <1>6, ExtraGrows DEF RequestFeasibility
  <2> QED
    BY <2>1, <2>2, ResolvedKeepsTypes
<1>7. CASE ExpiredG05
  <2>1. Len(g05) \in 1 .. Len(g05) /\ g05[Len(g05)] \in Feasibility
    BY <1>7, LastIn DEF ExpiredG05, RunTyped, Last
  <2>2. [g05[Len(g05)] EXCEPT !.status = "stale"] \in Feasibility
    BY <2>1 DEF Feasibility
  <2>3. g05' \in Seq(Feasibility)
    BY <1>7, <2>1, <2>2, ExceptSeq DEF ExpiredG05, RunTyped
  <2> QED
    BY <1>7, <2>3, ExtraGrows DEF ExpiredG05, RunTyped
<1>8. CASE Revise
  <2>1. g05' \in Seq(Feasibility)
    BY <1>8, StaleG05 DEF Revise, RunTyped
  <2> QED
    BY <1>8, <2>1, ExtraGrows DEF Revise, RunTyped
<1>9. CASE Enqueue \/ RequestReview \/ LeaseExpires \/ Restart
  BY <1>9, ExtraGrows DEF Enqueue, RequestReview, LeaseExpires, Restart, RunTyped
<1>10. CASE RequestPlan
  BY <1>10, ExtraGrows DEF RequestPlan, Created, RunTyped
<1>11. CASE MarkGateStale \/ ValidateG06 \/ UNCHANGED vars
  BY <1>11 DEF MarkGateStale, ValidateG06, vars, RunTyped
<1>12. CASE Request
  BY <1>3, <1>4, <1>5, <1>6, <1>7, <1>8, <1>9, <1>10, <1>11, <1>12 DEF Request
<1> QED
  BY <1>1, <1>2, <1>9, <1>11, <1>12 DEF Next

-----------------------------------------------------------------------------
(* Plans, reviews and gates: the steps that leave them as they are. *)

ReviewInv ==
  PlansTyped /\ CallsHold /\ ReviewsHold /\ ContinuationReviewed /\ OldApprovalBehindStaleGate

RowsKept ==
  /\ rows' \in Seq(ReviewRow) /\ Len(rows') = Len(rows)
  /\ \A i \in 1 .. Len(rows) : /\ rows'[i].plan = rows[i].plan /\ rows'[i].auto = rows[i].auto
                               /\ rows'[i].status = rows[i].status
                               /\ rows'[i].answer = rows[i].answer

GatesKept ==
  /\ g06' \in Seq(PlanGate) /\ Len(g06') = Len(g06)
  /\ \A i \in 1 .. Len(g06) : /\ g06'[i].plan = g06[i].plan
                              /\ g06'[i].status = "approved" => g06[i].status = "approved"
                              /\ g06[i].status = "stale" => g06'[i].status = "stale"

CallKept(c) ==
  /\ thr'[c].row \in {0, thr[c].row}
  /\ thr'[c].pc = "model" => thr[c].pc = "model" /\ thr'[c].row = thr[c].row

CallsStay == \A c \in Callers : CallKept(c)

\* A plan is only ever made where there is none, or stays.
PlansKept == plans' = plans \/ (plans = <<>> /\ plans' \in Seq(Plan))

ContKept == cont'.status # None => cont.status # None /\ cont'.plan = cont.plan

\* A step that writes no plan.
LEMMA PlansStay ==
  ASSUME plans' = plans
  PROVE  PlansKept
BY DEF PlansKept

\* A row that is read is a row, of a plan that exists.
LEMMA RowRead ==
  ASSUME PlansTyped, NEW i \in 1 .. Len(rows)
  PROVE  rows[i] \in ReviewRow /\ rows[i].plan \in 1 .. Len(plans)
BY ElementOfSeq DEF PlansTyped

\* The tables have lengths.
LEMMA Lengths ==
  ASSUME PlansTyped
  PROVE  /\ Len(rows) \in Nat /\ DOMAIN rows = 1 .. Len(rows)
         /\ Len(plans) \in Nat /\ DOMAIN plans = 1 .. Len(plans)
         /\ Len(g06) \in Nat /\ DOMAIN g06 = 1 .. Len(g06)
BY LenProperties DEF PlansTyped

\* Gates that are approved only while they name the active plan, and that stay stale once
\* they are, leave every older approval behind a stale gate.
LEMMA ApprovalsCovered ==
  ASSUME PlansTyped, OldApprovalBehindStaleGate, plans' = plans,
         g06' \in Seq(PlanGate), Len(g06') >= Len(g06),
         \A i \in 1 .. Len(g06) :
           /\ g06'[i].plan = g06[i].plan
           /\ g06'[i].status = "approved" => g06[i].status = "approved" \/ g06[i].plan = ActivePlan
           /\ g06[i].status = "stale" => g06'[i].status = "stale",
         \A i \in 1 .. Len(g06') : i \in 1 .. Len(g06) \/ g06'[i].status # "approved"
  PROVE  OldApprovalBehindStaleGate'
<1>1. /\ DOMAIN g06 = 1 .. Len(g06) /\ Len(g06) \in Nat
      /\ DOMAIN g06' = 1 .. Len(g06') /\ Len(g06') \in Nat
  BY LenProperties DEF PlansTyped
<1>2. ASSUME NEW i \in 1 .. Len(g06'), g06'[i].status = "approved", g06'[i].plan # ActivePlan
      PROVE  \E j \in 1 .. Len(g06') : j > i /\ g06'[j].status = "stale"
  <2>1. i \in DOMAIN g06 /\ g06[i].status = "approved" /\ g06[i].plan # ActivePlan
    BY <1>1, <1>2
  <2>2. PICK j \in DOMAIN g06 : j > i /\ g06[j].status = "stale"
    BY <2>1 DEF OldApprovalBehindStaleGate
  <2> QED
    BY <1>1, <2>2
<1> QED
  BY <1>1, <1>2 DEF OldApprovalBehindStaleGate, ActivePlan

\* A step that leaves plans, rows, gates and calls as they are keeps the invariant.
LEMMA QuietStep ==
  ASSUME ReviewInv, RowsKept, GatesKept, ContKept, CallsStay, PlansKept
  PROVE  ReviewInv'
<1> USE DEF ReviewInv, CallsStay, PlansKept
<1>1. /\ Len(rows) \in Nat /\ Len(plans) \in Nat /\ Len(g06) \in Nat
      /\ DOMAIN g06 = 1 .. Len(g06)
  BY Lengths
<1>2. /\ plans' \in Seq(Plan)
      /\ plans' # plans => Len(rows) = 0 /\ Len(g06) = 0
  <2>1. CASE plans' = plans
    BY <2>1 DEF PlansTyped
  <2>2. CASE plans = <<>> /\ plans' \in Seq(Plan)
    <3>1. Len(plans) = 0
      BY <2>2, EmptySeq
    <3> QED
      BY <1>1, <2>2, <3>1 DEF PlansTyped
  <2> QED
    BY <2>1, <2>2
<1>3. PlansTyped'
  <2>1. /\ rows' \in Seq(ReviewRow) /\ g06' \in Seq(PlanGate)
        /\ Len(rows') = Len(rows) /\ Len(g06') = Len(g06)
    BY DEF RowsKept, GatesKept
  <2>2. \A i \in 1 .. Len(rows) : rows'[i].plan \in 1 .. Len(plans')
    BY <1>1, <1>2 DEF PlansTyped, RowsKept
  <2>3. \A i \in 1 .. Len(g06) : g06'[i].plan \in 1 .. Len(plans')
    BY <1>1, <1>2 DEF PlansTyped, GatesKept
  <2>4. ASSUME NEW c \in Callers
        PROVE  thr'[c].row \in 0 .. Len(rows)
    <3>1. thr[c].row \in 0 .. Len(rows)
      BY DEF PlansTyped
    <3>2. thr'[c].row = 0 \/ thr'[c].row = thr[c].row
      BY DEF CallKept
    <3> QED
      BY <1>1, <3>1, <3>2
  <2> QED
    BY <1>2, <2>1, <2>2, <2>3, <2>4 DEF PlansTyped
<1>4. CallsHold'
  <2>1. ASSUME NEW c \in Callers, thr'[c].pc = "model"
        PROVE  /\ thr[c].pc = "model" /\ thr'[c].row = thr[c].row
               /\ thr'[c].row \in 1 .. Len(rows') /\ rows'[thr'[c].row].status = "in_progress"
    BY <2>1 DEF CallKept, CallsHold, At, RowsKept
  <2> QED
    BY <2>1 DEF CallsHold, At
<1>5. ReviewsHold'
  BY DEF ReviewsHold, RowsKept
<1>6. ContinuationReviewed'
  BY DEF ContinuationReviewed, RowsKept, ContKept
<1>7. OldApprovalBehindStaleGate'
  <2>1. CASE Len(g06) = 0
    <3>1. g06' = <<>>
      BY <2>1, EmptySeq DEF GatesKept
    <3> QED
      BY <3>1 DEF OldApprovalBehindStaleGate
  <2>2. CASE Len(g06) # 0
    <3>1. plans' = plans
      BY <1>2, <2>2
    <3> QED
      BY <1>1, <3>1, ApprovalsCovered DEF GatesKept
  <2> QED
    BY <2>1, <2>2
<1> QED
  BY <1>3, <1>4, <1>5, <1>6, <1>7

\* Rows and gates that stay or grow old are kept.
LEMMA AgedAreKept ==
  ASSUME PlansTyped
  PROVE  /\ rows' \in {rows, Aged(rows)} => RowsKept
         /\ g06' \in {g06, Aged(g06)} => GatesKept
<1>1. rows \in Seq(ReviewRow) /\ g06 \in Seq(PlanGate)
  BY DEF PlansTyped
<1>2. ASSUME rows' \in {rows, Aged(rows)}
      PROVE  RowsKept
  <2>1. ASSUME NEW i \in 1 .. Len(rows)
        PROVE  /\ rows'[i].plan = rows[i].plan /\ rows'[i].auto = rows[i].auto
               /\ rows'[i].status = rows[i].status /\ rows'[i].answer = rows[i].answer
    <3>1. rows[i] \in ReviewRow
      BY RowRead
    <3>2. rows'[i] \in {rows[i], [rows[i] EXCEPT !.ver = "old"]}
      BY <1>1, <1>2, AgedRows
    <3> QED
      BY <3>1, <3>2 DEF ReviewRow
  <2> QED
    BY <1>1, <1>2, <2>1, AgedRows DEF RowsKept
<1>3. ASSUME g06' \in {g06, Aged(g06)}
      PROVE  GatesKept
  <2>1. ASSUME NEW i \in 1 .. Len(g06)
        PROVE  g06'[i].plan = g06[i].plan /\ g06'[i].status = g06[i].status
    <3>1. g06[i] \in PlanGate
      BY <1>1, ElementOfSeq
    <3>2. g06'[i] \in {g06[i], [g06[i] EXCEPT !.ver = "old"]}
      BY <1>1, <1>3, AgedGates
    <3> QED
      BY <3>1, <3>2 DEF PlanGate
  <2> QED
    BY <1>1, <1>3, <2>1, AgedGates DEF GatesKept
<1> QED
  BY <1>2, <1>3

\* A caller goes on without entering a call.
LEMMA OthersKeepCalls ==
  ASSUME thr \in [Callers -> Thread], NEW c \in Callers, NEW t,
         thr' = OthersOld(c, t) \/ Goes(c, t)
  PROVE  /\ thr'[c] = t
         /\ \A x \in Callers \ {c} : thr'[x].pc = thr[x].pc /\ thr'[x].row = thr[x].row
<1>1. \A x \in Callers : /\ [thr[x] EXCEPT !.ver = "old"].pc = thr[x].pc
                         /\ [thr[x] EXCEPT !.ver = "old"].row = thr[x].row
  BY DEF Thread
<1>2. CASE thr' = OthersOld(c, t)
  BY <1>1, <1>2 DEF OthersOld
<1>3. CASE Goes(c, t)
  BY <1>3 DEF Goes
<1> QED
  BY <1>2, <1>3

\* A caller that goes on outside the model leaves every call as it is.
LEMMA CallsKept ==
  ASSUME thr \in [Callers -> Thread], NEW c \in Callers, NEW t,
         thr' = OthersOld(c, t) \/ Goes(c, t), t.pc # "model", t.row \in {0, thr[c].row}
  PROVE  CallsStay
BY OthersKeepCalls DEF CallsStay, CallKept

\* A plan is made only of what the newest approved gate has, and only the first one.
LEMMA FirstPlan ==
  ASSUME RunTyped, NEW p, NEW k \in Pkg \cup {None}, Created(p, k)
  PROVE  /\ plans = <<>> /\ plans' \in Seq(Plan) /\ plans'[1].pkg = p
         /\ \E i \in DOMAIN g05 : g05[i].status = "approved" /\ g05[i].pkg = p
<1>1. ApprovedG05 # {} /\ p = g05[Newest(ApprovedG05)].pkg
  BY DEF Created, PackageApproved
<1>2. /\ g05[Newest(ApprovedG05)] \in Feasibility
      /\ Newest(ApprovedG05) \in DOMAIN g05 /\ Newest(ApprovedG05) \in ApprovedG05
  BY <1>1, ApprovedIn
<1>3. p \in Pkg
  BY <1>1, <1>2 DEF Feasibility
<1>4. [pkg |-> p, key |-> k] \in Plan
  BY <1>3 DEF Plan
<1> DEFINE plan == [pkg |-> p, key |-> k]
<1>5. plans' = <<plan>> /\ plans = <<>>
  BY DEF Created
<1>6. plan.pkg = p
  OBVIOUS
<1> HIDE DEF plan
<1>7. plans' \in Seq(Plan) /\ plans'[1].pkg = p
  BY <1>4, <1>5, <1>6 DEF plan
<1>8. \E i \in DOMAIN g05 : g05[i].status = "approved" /\ g05[i].pkg = p
  BY <1>1, <1>2 DEF ApprovedG05
<1> QED
  BY <1>5, <1>7, <1>8

\* A planner's step that calls for no review is quiet.
LEMMA PlannerIsQuiet ==
  ASSUME RunTyped, ThreadsTyped, ReviewInv, NEW c \in Planners, PlannerStep(c),
         ~ \E t : rows' = Append(rows, t)
  PROVE  ReviewInv'
<1>1. thr \in [Callers -> Thread] /\ c \in Callers /\ PlansTyped
  BY DEF ThreadsTyped, Planners, Callers, ReviewInv
<1>2. thr[c] \in Thread
  BY <1>1
<1>3. ASSUME RowsKept, GatesKept, ContKept, PlansKept,
             NEW t, t.pc # "model", t.row \in {0, thr[c].row},
             thr' = OthersOld(c, t) \/ Goes(c, t)
      PROVE  ReviewInv'
  <2>1. CallsStay
    BY <1>1, <1>3, CallsKept
  <2> QED
    BY <1>3, <2>1, QuietStep
<1>4. ASSUME UNCHANGED <<plans, rows, g06, cont>>
      PROVE  RowsKept /\ GatesKept /\ ContKept /\ PlansKept
  BY <1>1, <1>4, AgedAreKept, PlansStay DEF ContKept
<1>5. Idle.pc # "model" /\ Idle.row = 0
  BY DEF Idle
<1>6. ASSUME Raises(c), UNCHANGED <<plans, rows, g06, cont>>
      PROVE  ReviewInv'
  <2> DEFINE t == [thr[c] EXCEPT !.pc = "failing", !.ver = "old", !.pkg = None, !.gate = None]
  <2>1. Goes(c, t) /\ t.pc # "model" /\ t.row = thr[c].row
    BY <1>2, <1>6 DEF Raises, Thread
  <2> HIDE DEF t
  <2> QED
    BY <1>3, <1>4, <1>6, <2>1
<1>7. CASE Claim(c)
  <2>1. UNCHANGED <<plans, rows, g06, cont>>
    BY <1>7 DEF Claim
  <2> DEFINE t == [Idle EXCEPT !.pc = "dispatch",
                               !.job = Newest({j \in DOMAIN jobs : MayClaim(j)})]
  <2>2. Goes(c, t) \/ Goes(c, Idle)
    BY <1>7 DEF Claim
  <2>3. t.pc # "model" /\ t.row = 0
    BY DEF Idle
  <2> HIDE DEF t
  <2> QED
    BY <1>3, <1>4, <1>5, <2>1, <2>2, <2>3
<1>8. CASE Dispatch(c)
  <2> DEFINE s == jobs[thr[c].job].step
             t == [thr[c] EXCEPT !.pc = IF s \in Steps THEN s ELSE "failing", !.step = s]
  <2>1. UNCHANGED <<plans, rows, g06, cont>> /\ Goes(c, t)
    BY <1>8 DEF Dispatch, OnlyThread
  <2>2. t.pc # "model" /\ t.row = thr[c].row
    BY <1>2 DEF Thread, Steps
  <2> HIDE DEF t
  <2> QED
    BY <1>3, <1>4, <2>1, <2>2
<1>9. CASE Begin(c)
  <2> DEFINE t == [thr[c] EXCEPT !.pc = "resolve", !.ver = "current"]
  <2>1. UNCHANGED <<plans, rows, g06, cont>> /\ Goes(c, t)
    BY <1>9 DEF Begin, OnlyThread
  <2>2. t.pc # "model" /\ t.row = thr[c].row
    BY <1>2 DEF Thread
  <2> HIDE DEF t
  <2> QED
    BY <1>3, <1>4, <2>1, <2>2
<1>10. CASE ResolveFeasibility(c)
  <2>1. CASE Raises(c) /\ OnlyThread
    BY <1>6, <2>1 DEF OnlyThread
  <2>2. CASE ~ (Raises(c) /\ OnlyThread)
    <3>1. PICK p \in Packages \cup {"blocked"} :
            /\ Resolved(p, thr[c].job)
            /\ thr' = OthersOld(c, [thr[c] EXCEPT !.pc = "resolved", !.ver = "old", !.pkg = p])
      BY <1>10, <2>2 DEF ResolveFeasibility
    <3> DEFINE t == [thr[c] EXCEPT !.pc = "resolved", !.ver = "old", !.pkg = p]
    <3>2. RowsKept /\ GatesKept /\ ContKept /\ PlansKept
      BY <1>1, <3>1, AgedAreKept, PlansStay DEF Resolved, Ages, ContKept
    <3>3. thr' = OthersOld(c, t) /\ t.pc # "model" /\ t.row = thr[c].row
      BY <1>2, <3>1 DEF Thread
    <3> HIDE DEF t
    <3> QED
      BY <1>3, <3>2, <3>3
  <2> QED
    BY <2>1, <2>2
<1>11. CASE ResolvedJob(c) \/ PlannedJob(c)
  <2>1. UNCHANGED <<plans, rows, g06, cont>> /\ Goes(c, Idle)
    BY <1>11 DEF ResolvedJob, PlannedJob
  <2> QED
    BY <1>3, <1>4, <1>5, <2>1
<1>12. CASE PlanRequest(c)
  <2>1. UNCHANGED <<plans, rows, g06, cont>>
    BY <1>12 DEF PlanRequest, OnlyThread
  <2>2. CASE Raises(c)
    BY <1>6, <2>1, <2>2
  <2>3. CASE ~ Raises(c)
    <3> DEFINE pkg == IF At(c, "generating_plan") THEN Last(res).pkg ELSE None
               gate == IF At(c, "generating_plan") THEN g05[Newest(ApprovedG05)].pkg ELSE None
               t == [thr[c] EXCEPT !.pc = IF thr[c].pc = "generating_plan" THEN "plan"
                                          ELSE "review",
                                   !.ver = "current", !.pkg = pkg, !.gate = gate]
    <3>1. Goes(c, t)
      BY <1>2, <1>12, <2>3 DEF PlanRequest, Thread
    <3>2. t.pc # "model" /\ t.row = thr[c].row
      BY <1>2 DEF Thread
    <3> HIDE DEF t
    <3> QED
      BY <1>3, <1>4, <2>1, <3>1, <3>2
  <2> QED
    BY <2>2, <2>3
<1>13. CASE GeneratePlan(c)
  <2> DEFINE t == [thr[c] EXCEPT !.pc = "planned", !.ver = "old", !.pkg = None, !.gate = None]
  <2>1. t.pc # "model" /\ t.row = thr[c].row
    BY <1>2 DEF Thread
  <2>2. CASE Raises(c) /\ OnlyThread
    BY <1>6, <2>2 DEF OnlyThread
  <2>3. CASE Goes(c, t) /\ OnlyThread
    <3>1. UNCHANGED <<plans, rows, g06, cont>> /\ Goes(c, t)
      BY <2>3 DEF OnlyThread
    <3> HIDE DEF t
    <3> QED
      BY <1>3, <1>4, <2>1, <3>1
  <2>4. CASE Created(thr[c].pkg, thr[c].gate) /\ thr' = OthersOld(c, t)
    <3>1. PlansKept
      BY <1>2, <2>4, FirstPlan DEF Thread, PlansKept
    <3>2. RowsKept /\ GatesKept /\ ContKept
      BY <1>1, <2>4, AgedAreKept DEF Created, Ages, ContKept
    <3> HIDE DEF t
    <3> QED
      BY <1>3, <2>1, <2>4, <3>1, <3>2
  <2> QED
    BY <1>13, <2>2, <2>3, <2>4 DEF GeneratePlan
<1>14. CASE Review(c)
  <2>1. rows' = rows /\ UNCHANGED <<plans, g06, cont>>
    BY <1>14 DEF Review, NewReview
  <2>2. Raises(c) \/ Goes(c, Idle)
    BY <1>14 DEF Review, NewReview
  <2> QED
    BY <1>3, <1>4, <1>5, <1>6, <2>1, <2>2
<1>15. CASE Fail(c)
  <2>1. RowsKept /\ GatesKept /\ ContKept /\ PlansKept
    BY <1>1, <1>15, AgedAreKept, PlansStay DEF Fail, Ages, ContKept
  <2>2. thr' = OthersOld(c, Idle) \/ Goes(c, Idle)
    BY <1>15 DEF Fail
  <2> QED
    BY <1>3, <1>5, <2>1, <2>2
<1> QED
  BY <1>7, <1>8, <1>9, <1>10, <1>11, <1>12, <1>13, <1>14, <1>15 DEF PlannerStep

-----------------------------------------------------------------------------
(* The steps that write plans, reviews and gates. *)

\* A review that is called for: its row is new, and only the caller knows it.
LEMMA ReviewBegins ==
  ASSUME ThreadsTyped, ReviewInv, NEW c \in Callers, NEW t, NEW auto \in BOOLEAN,
         NewReview(auto), auto => AutoReviews(ActivePlan) = {}, plans # <<>>,
         Goes(c, t), t.row = Len(rows) + 1, UNCHANGED <<plans, g06, cont>>
  PROVE  ReviewInv'
<1> USE DEF ReviewInv
<1> DEFINE n == Len(rows) + 1
           row == [plan |-> ActivePlan, auto |-> auto, ver |-> "current",
                   status |-> "in_progress", answer |-> None]
<1>1. /\ Len(rows) \in Nat /\ Len(plans) \in Nat /\ DOMAIN rows = 1 .. Len(rows)
      /\ Len(plans) \in 1 .. Len(plans) /\ thr \in [Callers -> Thread]
  BY Lengths, LastIn DEF PlansTyped, ThreadsTyped
<1>2. /\ row \in ReviewRow /\ row.plan = Len(plans) /\ row.auto = auto
      /\ row.status = "in_progress"
  BY <1>1 DEF ReviewRow, Ver, ActivePlan
<1>3. rows' = Append(rows, row)
  BY DEF NewReview
<1> HIDE DEF row
<1>4. /\ rows' \in Seq(ReviewRow) /\ Len(rows') = n /\ rows'[n] = row
      /\ \A i \in 1 .. Len(rows) : rows'[i] = rows[i]
  BY <1>2, <1>3, AppendProperties DEF PlansTyped
<1>5. \A i \in 1 .. n : i \in 1 .. Len(rows) \/ i = n
  BY <1>1
<1>6. /\ thr'[c] = t
      /\ \A x \in Callers \ {c} : thr'[x].pc = thr[x].pc /\ thr'[x].row = thr[x].row
  BY <1>1, OthersKeepCalls
<1>7. PlansTyped'
  <2>1. \A i \in 1 .. n : rows'[i].plan \in 1 .. Len(plans)
    BY <1>1, <1>2, <1>4, <1>5 DEF PlansTyped
  <2>2. ASSUME NEW x \in Callers
        PROVE  thr'[x].row \in 0 .. n
    <3>1. thr[x].row \in 0 .. Len(rows)
      BY DEF PlansTyped
    <3>2. thr'[x].row = n \/ thr'[x].row = thr[x].row
      BY <1>6
    <3> QED
      BY <1>1, <3>1, <3>2
  <2> QED
    BY <1>4, <2>1, <2>2 DEF PlansTyped
<1>8. CallsHold'
  <2>1. ASSUME NEW x \in Callers, thr'[x].pc = "model"
        PROVE  thr'[x].row \in 1 .. n /\ rows'[thr'[x].row].status = "in_progress"
    <3>1. CASE x = c
      BY <1>1, <1>2, <1>4, <1>6, <3>1
    <3>2. CASE x # c
      <4>1. /\ thr'[x].row = thr[x].row /\ thr[x].row \in 1 .. Len(rows)
            /\ rows[thr[x].row].status = "in_progress"
        BY <1>6, <2>1, <3>2 DEF CallsHold, At
      <4> QED
        BY <1>1, <1>4, <4>1
    <3> QED
      BY <3>1, <3>2
  <2>2. ASSUME NEW x \in Callers \ {c}, thr'[x].pc = "model"
        PROVE  thr'[x].row # n
    <3>1. thr'[x].row = thr[x].row /\ thr[x].row \in 1 .. Len(rows)
      BY <1>6, <2>2 DEF CallsHold, At
    <3> QED
      BY <1>1, <3>1
  <2>3. ASSUME NEW x \in Callers, NEW y \in Callers, thr'[x].pc = "model", thr'[y].pc = "model",
               thr'[x].row = thr'[y].row
        PROVE  x = y
    <3>1. CASE x = c \/ y = c
      BY <1>6, <2>2, <2>3, <3>1
    <3>2. CASE x # c /\ y # c
      BY <1>6, <2>3, <3>2 DEF CallsHold, At
    <3> QED
      BY <3>1, <3>2
  <2> QED
    BY <1>4, <2>1, <2>3 DEF CallsHold, At
<1>9. ReviewsHold'
  <2>1. ASSUME NEW i \in 1 .. Len(rows)
        PROVE  ~ (auto /\ rows[i].auto /\ rows[i].plan = Len(plans))
    BY <1>1 DEF AutoReviews, ActivePlan
  <2>2. ASSUME NEW i \in 1 .. n, NEW j \in 1 .. n, rows'[i].auto, rows'[j].auto,
               rows'[i].plan = rows'[j].plan
        PROVE  i = j
    <3>1. CASE i \in 1 .. Len(rows) /\ j \in 1 .. Len(rows)
      BY <1>4, <2>2, <3>1 DEF ReviewsHold
    <3>2. CASE i = n /\ j \in 1 .. Len(rows)
      BY <1>2, <1>4, <2>1, <2>2, <3>2
    <3>3. CASE i \in 1 .. Len(rows) /\ j = n
      BY <1>2, <1>4, <2>1, <2>2, <3>3
    <3> QED
      BY <1>5, <3>1, <3>2, <3>3
  <2>3. \A i \in 1 .. n : rows'[i].status = "completed" => rows'[i].answer = "accept"
    BY <1>2, <1>4, <1>5 DEF ReviewsHold
  <2> QED
    BY <1>4, <2>2, <2>3 DEF ReviewsHold
<1>10. ContinuationReviewed'
  BY <1>1, <1>4 DEF ContinuationReviewed
<1>11. OldApprovalBehindStaleGate'
  BY DEF OldApprovalBehindStaleGate, ActivePlan
<1> QED
  BY <1>7, <1>8, <1>9, <1>10, <1>11

\* A call that ends writes the row it holds; every other row keeps what counts.
LEMMA ReviewIsOver ==
  ASSUME ThreadsTyped, ReviewInv, NEW c \in Callers, At(c, "model"), NEW t,
         thr' = OthersOld(c, t) \/ Goes(c, t), t.pc # "model", t.row \in {0, thr[c].row},
         NEW x \in ReviewRow, x.plan = rows[thr[c].row].plan, x.auto = rows[thr[c].row].auto,
         x.status = "completed" => x.answer = "accept",
         rows' \in Seq(ReviewRow), Len(rows') = Len(rows), rows'[thr[c].row] = x,
         \A i \in 1 .. Len(rows) : i # thr[c].row =>
           /\ rows'[i].plan = rows[i].plan /\ rows'[i].auto = rows[i].auto
           /\ rows'[i].status = rows[i].status /\ rows'[i].answer = rows[i].answer,
         UNCHANGED <<plans, cont>>, g06' \in Seq(PlanGate),
         \A i \in 1 .. Len(g06') : g06'[i].plan \in 1 .. Len(plans),
         OldApprovalBehindStaleGate'
  PROVE  ReviewInv'
<1> USE DEF ReviewInv
<1> DEFINE r == thr[c].row
<1>1. r \in 1 .. Len(rows) /\ rows[r].status = "in_progress" /\ Len(rows) \in Nat
      /\ thr \in [Callers -> Thread]
  BY Lengths DEF CallsHold, ThreadsTyped
<1>2. \A i \in 1 .. Len(rows) : rows'[i].plan = rows[i].plan /\ rows'[i].auto = rows[i].auto
  OBVIOUS
<1>3. CallsStay
  BY <1>1, CallsKept
<1>4. PlansTyped'
  <2>1. ASSUME NEW d \in Callers
        PROVE  thr'[d].row \in 0 .. Len(rows)
    <3>1. thr[d].row \in 0 .. Len(rows)
      BY DEF PlansTyped
    <3>2. thr'[d].row = 0 \/ thr'[d].row = thr[d].row
      BY <1>3 DEF CallsStay, CallKept
    <3> QED
      BY <1>1, <3>1, <3>2
  <2> QED
    BY <1>2, <2>1 DEF PlansTyped
<1>5. ASSUME NEW d \in Callers, thr'[d].pc = "model"
      PROVE  /\ thr[d].pc = "model" /\ thr'[d].row = thr[d].row /\ d # c
             /\ thr'[d].row \in 1 .. Len(rows) /\ rows'[thr'[d].row].status = "in_progress"
  <2>1. thr[d].pc = "model" /\ thr'[d].row = thr[d].row
    BY <1>3, <1>5 DEF CallsStay, CallKept
  <2>2. d # c
    BY <1>1, <1>5, OthersKeepCalls
  <2>3. thr[d].row # r
    BY <2>1, <2>2 DEF CallsHold, At
  <2>4. thr[d].row \in 1 .. Len(rows) /\ rows[thr[d].row].status = "in_progress"
    BY <2>1 DEF CallsHold, At
  <2> QED
    BY <2>1, <2>2, <2>3, <2>4
<1>6. CallsHold'
  BY <1>5 DEF CallsHold, At
<1>7. ReviewsHold'
  <2>1. \A i \in 1 .. Len(rows) : rows'[i].status = "completed" => rows'[i].answer = "accept"
    BY DEF ReviewsHold
  <2> QED
    BY <1>2, <2>1 DEF ReviewsHold
<1>8. ContinuationReviewed'
  <2>1. CASE cont.status # None
    <3>1. PICK i \in 1 .. Len(rows) : rows[i].plan = cont.plan /\ rows[i].status = "completed"
      BY <2>1 DEF ContinuationReviewed
    <3>2. i # r
      BY <1>1, <3>1
    <3> QED
      BY <3>1, <3>2 DEF ContinuationReviewed
  <2>2. CASE cont.status = None
    BY <2>2 DEF ContinuationReviewed
  <2> QED
    BY <2>1, <2>2
<1> QED
  BY <1>4, <1>6, <1>7, <1>8

\* _complete_explanation and its counterpart write the row of the call.
LEMMA AnswerEndsReview ==
  ASSUME ThreadsTyped, ReviewInv, NEW c \in Callers, At(c, "model"), NEW answer \in Answers,
         NEW s \in {"completed", "not_accepted"}, s = "completed" => answer = "accept",
         ReviewEnds(c, answer, s), UNCHANGED <<plans, cont>>, g06' \in Seq(PlanGate),
         \A i \in 1 .. Len(g06') : g06'[i].plan \in 1 .. Len(plans),
         OldApprovalBehindStaleGate'
  PROVE  ReviewInv'
<1> DEFINE r == thr[c].row
           old == Aged(rows)
           x == [old[r] EXCEPT !.status = s, !.answer = answer]
<1>1. /\ r \in 1 .. Len(rows) /\ rows \in Seq(ReviewRow) /\ PlansTyped
      /\ \A i \in 1 .. Len(rows) : rows[i] \in ReviewRow
  BY RowRead DEF ReviewInv, CallsHold, PlansTyped
<1>2. /\ old \in Seq(ReviewRow) /\ Len(old) = Len(rows)
      /\ \A i \in 1 .. Len(rows) : old[i] = [rows[i] EXCEPT !.ver = "old"]
  BY <1>1, AgedRows
<1>3. \A i \in 1 .. Len(rows) :
        /\ old[i].plan = rows[i].plan /\ old[i].auto = rows[i].auto
        /\ old[i].status = rows[i].status /\ old[i].answer = rows[i].answer
  BY <1>1, <1>2 DEF ReviewRow
<1>4. rows' = [old EXCEPT ![r].status = s, ![r].answer = answer] /\ thr' = OthersOld(c, Idle)
  BY DEF ReviewEnds
<1> HIDE DEF old
<1>5. old[r] \in ReviewRow /\ DOMAIN old = 1 .. Len(rows) /\ old \in [1 .. Len(rows) -> ReviewRow]
  BY <1>1, <1>2, ElementOfSeq, LenProperties
<1>6. /\ x \in ReviewRow /\ x.plan = old[r].plan /\ x.auto = old[r].auto
      /\ x.status = s /\ x.answer = answer
  BY <1>5 DEF ReviewRow
<1>7. rows' = [old EXCEPT ![r] = x]
  BY <1>1, <1>4, <1>5 DEF ReviewRow
<1> HIDE DEF x, r
<1>8. /\ rows' \in Seq(ReviewRow) /\ Len(rows') = Len(rows) /\ rows'[r] = x
      /\ \A i \in 1 .. Len(rows) : i # r => rows'[i] = old[i]
  BY <1>1, <1>2, <1>6, <1>7, ExceptSeq
<1>9. Idle.pc # "model" /\ Idle.row = 0
  BY DEF Idle
<1>10. /\ x.plan = rows[r].plan /\ x.auto = rows[r].auto
       /\ x.status = "completed" => x.answer = "accept"
  BY <1>1, <1>3, <1>6
<1>11. \A i \in 1 .. Len(rows) : i # r =>
         /\ rows'[i].plan = rows[i].plan /\ rows'[i].auto = rows[i].auto
         /\ rows'[i].status = rows[i].status /\ rows'[i].answer = rows[i].answer
  BY <1>3, <1>8
<1> QED
  BY <1>4, <1>6, <1>8, <1>9, <1>10, <1>11, ReviewIsOver DEF r

\* mark_planning_failed writes the row of the call.
LEMMA FailureEndsReview ==
  ASSUME ThreadsTyped, ReviewInv, NEW c \in Callers, At(c, "model"), MarkPlanningFailed(c),
         UNCHANGED <<plans, cont>>
  PROVE  ReviewInv'
<1> DEFINE r == thr[c].row
           x == [rows[r] EXCEPT !.status = "failed"]
           t == IF c = "user" THEN Idle ELSE [thr[c] EXCEPT !.pc = "failing", !.row = 0]
<1>1. /\ r \in 1 .. Len(rows) /\ rows \in Seq(ReviewRow) /\ rows[r] \in ReviewRow
      /\ thr[c] \in Thread
  BY RowRead DEF ReviewInv, CallsHold, PlansTyped, ThreadsTyped
<1>2. Goes(c, t) /\ t.pc # "model" /\ t.row = 0
  BY <1>1 DEF MarkPlanningFailed, Thread, Idle
<1>3. rows' = [rows EXCEPT ![r] = x] /\ g06' = g06
  BY DEF MarkPlanningFailed
<1>4. x \in ReviewRow /\ x.plan = rows[r].plan /\ x.auto = rows[r].auto /\ x.status # "completed"
  BY <1>1 DEF ReviewRow
<1> HIDE DEF x, t, r
<1>5. /\ rows' \in Seq(ReviewRow) /\ Len(rows') = Len(rows) /\ rows'[r] = x
      /\ \A i \in 1 .. Len(rows) : i # r => rows'[i] = rows[i]
  BY <1>1, <1>3, <1>4, ExceptSeq
<1>6. /\ g06' \in Seq(PlanGate) /\ \A i \in 1 .. Len(g06') : g06'[i].plan \in 1 .. Len(plans)
      /\ OldApprovalBehindStaleGate'
  BY <1>3 DEF ReviewInv, PlansTyped, OldApprovalBehindStaleGate, ActivePlan
<1> QED
  BY <1>2, <1>4, <1>5, <1>6, ReviewIsOver DEF r

\* Gates that only grow old approve what they approved.
LEMMA AgedGatesApprove ==
  ASSUME PlansTyped, OldApprovalBehindStaleGate, g06' = Aged(g06), plans' = plans
  PROVE  /\ OldApprovalBehindStaleGate'
         /\ \A i \in 1 .. Len(g06') : g06'[i].plan \in 1 .. Len(plans)
         /\ g06' \in Seq(PlanGate)
<1>1. GatesKept /\ Len(g06) \in Nat
  BY AgedAreKept, Lengths
<1>2. OldApprovalBehindStaleGate'
  BY <1>1, ApprovalsCovered DEF GatesKept
<1> QED
  BY <1>1, <1>2 DEF GatesKept, PlansTyped

\* What a call to the model ends with keeps the invariant: the new gate is pending.
LEMMA ModelKeepsReviews ==
  ASSUME ThreadsTyped, ReviewInv, NEW c \in Callers, Model(c)
  PROVE  ReviewInv'
<1> USE DEF ReviewInv
<1>1. At(c, "model") /\ UNCHANGED <<plans, cont>>
  BY DEF Model
<1>2. ASSUME NEW answer \in Answers, GivesPackage(answer), CompleteExplanation(c, answer)
      PROVE  ReviewInv'
  <2> DEFINE gate == [plan |-> rows[thr[c].row].plan, status |-> "pending", ver |-> "current"]
  <2>1. rows[thr[c].row].plan \in 1 .. Len(plans) /\ Len(plans) \in Nat
    BY <1>1, RowRead, Lengths DEF CallsHold
  <2>2. gate \in PlanGate /\ gate.plan \in 1 .. Len(plans) /\ gate.status = "pending"
    BY <2>1 DEF PlanGate, Ver
  <2>3. /\ Aged(g06) \in Seq(PlanGate) /\ Len(Aged(g06)) = Len(g06) /\ Len(g06) \in Nat
        /\ \A i \in 1 .. Len(g06) : /\ Aged(g06)[i].plan \in 1 .. Len(plans)
                                   /\ Aged(g06)[i].plan = g06[i].plan
                                   /\ Aged(g06)[i].status = g06[i].status
    <3>1. \A i \in 1 .. Len(g06) : g06[i] \in PlanGate
      BY ElementOfSeq DEF PlansTyped
    <3> QED
      BY <3>1, AgedGates, Lengths DEF PlansTyped, PlanGate
  <2>4. g06' = Append(Aged(g06), gate)
    BY <1>2 DEF CompleteExplanation
  <2> HIDE DEF gate
  <2>5. /\ g06' \in Seq(PlanGate) /\ Len(g06') = Len(g06) + 1 /\ g06'[Len(g06) + 1] = gate
        /\ \A i \in 1 .. Len(g06) : g06'[i] = Aged(g06)[i]
    BY <2>2, <2>3, <2>4, AppendProperties
  <2>6. \A i \in 1 .. Len(g06') : g06'[i].plan \in 1 .. Len(plans)
    <3>1. \A i \in 1 .. Len(g06') : i \in 1 .. Len(g06) \/ i = Len(g06) + 1
      BY <2>3, <2>5
    <3> QED
      BY <2>2, <2>3, <2>5, <3>1
  <2>7. OldApprovalBehindStaleGate'
    <3>1. \A i \in 1 .. Len(g06') : i \in 1 .. Len(g06) \/ g06'[i].status # "approved"
      BY <2>2, <2>3, <2>5
    <3> QED
      BY <1>1, <2>3, <2>5, <3>1, ApprovalsCovered
  <2>8. answer = "accept" /\ ReviewEnds(c, answer, "completed")
    BY <1>2 DEF GivesPackage, CompleteExplanation
  <2> QED
    BY <1>1, <2>5, <2>6, <2>7, <2>8, AnswerEndsReview
<1>3. ASSUME NEW answer \in Answers, CompleteNonacceptedReview(c, answer)
      PROVE  ReviewInv'
  <2>1. g06' = Aged(g06) /\ ReviewEnds(c, answer, "not_accepted")
    BY <1>3 DEF CompleteNonacceptedReview
  <2>2. /\ g06' \in Seq(PlanGate) /\ OldApprovalBehindStaleGate'
        /\ \A i \in 1 .. Len(g06') : g06'[i].plan \in 1 .. Len(plans)
    BY <1>1, <2>1, AgedGatesApprove
  <2> QED
    BY <1>1, <2>1, <2>2, AnswerEndsReview
<1> QED
  BY <1>1, <1>2, <1>3, FailureEndsReview DEF Model

\* A revision makes the newest gate that is pending or approved stale, which every other
\* approval is older than.
LEMMA ReviseKeepsReviews ==
  ASSUME ThreadsTyped, ReviewInv, Revise
  PROVE  ReviewInv'
<1> USE DEF ReviewInv
<1> DEFINE old == Aged(g06)
           due == {i \in DOMAIN old : old[i].status \in {"pending", "approved"}}
<1>1. /\ Len(plans) \in Nat /\ Len(g06) \in Nat /\ plans # <<>> /\ Last(plans) \in Plan
      /\ plans \in Seq(Plan) /\ thr \in [Callers -> Thread]
  BY Lengths, LastIn DEF Revise, PlansTyped, ThreadsTyped
<1>2. plans' \in Seq(Plan) /\ Len(plans') = Len(plans) + 1
  <2>1. [Last(plans) EXCEPT !.key = None] \in Plan
    BY <1>1 DEF Plan
  <2> QED
    BY <1>1, <2>1, AppendProperties DEF Revise, NewVersion
<1>3. /\ old \in Seq(PlanGate) /\ Len(old) = Len(g06) /\ DOMAIN old = 1 .. Len(g06)
      /\ \A i \in 1 .. Len(g06) : old[i].plan = g06[i].plan
  <2>1. \A i \in 1 .. Len(g06) : g06[i] \in PlanGate
    BY ElementOfSeq DEF PlansTyped
  <2> QED
    BY <2>1, AgedGates, LenProperties DEF PlansTyped, PlanGate
<1>4. g06' = IF due = {} THEN old ELSE [old EXCEPT ![Newest(due)].status = "stale"]
  BY DEF Revise, StaleNewest
<1> HIDE DEF old
<1>5. /\ g06' \in Seq(PlanGate) /\ Len(g06') = Len(g06)
      /\ \A i \in 1 .. Len(g06) : g06'[i].plan = g06[i].plan
      /\ \A i \in 1 .. Len(g06) : g06'[i].status = "approved" =>
           \E j \in 1 .. Len(g06) : j > i /\ g06'[j].status = "stale"
  <2>1. CASE due = {}
    BY <1>3, <1>4, <2>1
  <2>2. CASE due # {}
    <3> DEFINE n == Newest(due)
               x == [old[n] EXCEPT !.status = "stale"]
    <3>1. due \subseteq 1 .. Len(g06)
      BY <1>3
    <3>2. n \in due /\ n \in 1 .. Len(g06) /\ \A k \in due : k <= n
      BY <1>1, <2>2, <3>1, NewestIn
    <3>3. \A i \in 1 .. Len(g06) : old[i].status = "approved" => i <= n
      BY <1>3, <3>2
    <3>4. g06' = [old EXCEPT ![n].status = "stale"]
      BY <1>4, <2>2
    <3> HIDE DEF due, n
    <3>5. old[n] \in PlanGate
      BY <1>3, <3>2, ElementOfSeq
    <3>6. x \in PlanGate /\ x.plan = old[n].plan /\ x.status = "stale"
      BY <3>5 DEF PlanGate
    <3>7. g06' = [old EXCEPT ![n] = x]
      BY <3>4
    <3> HIDE DEF x
    <3>8. /\ g06' \in Seq(PlanGate) /\ Len(g06') = Len(g06) /\ g06'[n] = x
          /\ \A i \in 1 .. Len(g06) : i # n => g06'[i] = old[i]
      BY <1>3, <3>2, <3>6, <3>7, ExceptSeq
    <3>9. ASSUME NEW i \in 1 .. Len(g06), g06'[i].status = "approved"
          PROVE  n > i /\ g06'[n].status = "stale"
      <4>1. i # n /\ g06'[i] = old[i]
        BY <3>6, <3>8, <3>9
      <4> QED
        BY <3>2, <3>3, <3>6, <3>8, <3>9, <4>1
    <3> QED
      BY <1>3, <3>2, <3>6, <3>8, <3>9
  <2> QED
    BY <2>1, <2>2
<1>6. RowsKept /\ cont' = cont
  BY AgedAreKept DEF Revise
<1>7. /\ thr' \in [Callers -> Thread]
      /\ \A c \in Callers : thr'[c].pc = thr[c].pc /\ thr'[c].row = thr[c].row
  BY <1>1, UserMovesAll DEF Revise
<1>8. PlansTyped'
  <2>1. \A i \in 1 .. Len(rows) : rows'[i].plan \in 1 .. Len(plans')
    <3>1. \A i \in 1 .. Len(rows) : rows[i].plan \in 1 .. Len(plans)
      BY DEF PlansTyped
    <3>2. /\ Len(rows') = Len(rows)
          /\ \A i \in 1 .. Len(rows) : rows'[i].plan = rows[i].plan
      BY <1>6 DEF RowsKept
    <3> QED
      BY <1>1, <1>2, <3>1, <3>2
  <2>2. \A i \in 1 .. Len(g06) : g06'[i].plan \in 1 .. Len(plans')
    BY <1>1, <1>2, <1>5 DEF PlansTyped
  <2>3. \A c \in Callers : thr'[c].row \in 0 .. Len(rows)
    BY <1>7 DEF PlansTyped
  <2> QED
    BY <1>2, <1>5, <1>6, <2>1, <2>2, <2>3 DEF PlansTyped, RowsKept
<1>9. CallsHold'
  BY <1>6, <1>7 DEF CallsHold, At, RowsKept
<1>10. ReviewsHold'
  BY <1>6 DEF ReviewsHold, RowsKept
<1>11. ContinuationReviewed'
  BY <1>6 DEF ContinuationReviewed, RowsKept
<1>12. OldApprovalBehindStaleGate'
  BY <1>5, LenProperties DEF OldApprovalBehindStaleGate
<1> QED
  BY <1>8, <1>9, <1>10, <1>11, <1>12

\* An approval of G06 is for the active plan, which a review has accepted.
LEMMA DecisionKeepsReviews ==
  ASSUME ThreadsTyped, ReviewInv, NEW approve \in BOOLEAN, DecideG06(approve)
  PROVE  ReviewInv'
<1> USE DEF ReviewInv
<1> DEFINE n == Len(g06)
           s == IF approve THEN "approved" ELSE "rejected"
           old == Aged(g06)
           x == [old[n] EXCEPT !.status = s]
<1>1. /\ n \in 1 .. n /\ g06 \in Seq(PlanGate) /\ plans' = plans
      /\ thr \in [Callers -> Thread]
  BY LastIn DEF DecideG06, PlansTyped, ThreadsTyped
<1>2. /\ g06[n].plan = ActivePlan /\ g06[n].status = "pending"
      /\ \E i \in 1 .. Len(rows) : rows[i].status = "completed" /\ rows[i].plan = ActivePlan
  BY Lengths DEF DecideG06, Decidable, Last
<1>3. /\ old \in Seq(PlanGate) /\ Len(old) = n
      /\ \A i \in 1 .. n : old[i].plan = g06[i].plan /\ old[i].status = g06[i].status
  <2>1. \A i \in 1 .. Len(g06) : g06[i] \in PlanGate
    BY <1>1, ElementOfSeq
  <2> QED
    BY <1>1, <2>1, AgedGates DEF PlanGate
<1>4. g06' = [old EXCEPT ![n].status = s]
  BY DEF DecideG06
<1>5. old[n] \in PlanGate
  BY <1>1, <1>3, ElementOfSeq
<1> HIDE DEF old
<1>6. x \in PlanGate /\ x.plan = old[n].plan
  BY <1>5 DEF PlanGate
<1>7. g06' = [old EXCEPT ![n] = x]
  BY <1>4
<1> HIDE DEF x, s
<1>8. /\ g06' \in Seq(PlanGate) /\ Len(g06') = n /\ g06'[n] = x
      /\ \A i \in 1 .. n : i # n => g06'[i] = old[i]
  BY <1>1, <1>3, <1>6, <1>7, ExceptSeq
<1>9. \A i \in 1 .. n : g06'[i].plan = g06[i].plan
  BY <1>1, <1>3, <1>6, <1>8
<1>10. RowsKept
  BY AgedAreKept DEF DecideG06
<1>11. /\ thr' \in [Callers -> Thread]
       /\ \A c \in Callers : thr'[c].pc = thr[c].pc /\ thr'[c].row = thr[c].row
  BY <1>1, UserMovesAll DEF DecideG06
<1>12. PlansTyped'
  <2>1. \A i \in 1 .. Len(rows) : rows'[i].plan \in 1 .. Len(plans)
    BY <1>10 DEF PlansTyped, RowsKept
  <2>2. \A i \in 1 .. n : g06'[i].plan \in 1 .. Len(plans)
    BY <1>9 DEF PlansTyped
  <2>3. \A c \in Callers : thr'[c].row \in 0 .. Len(rows)
    BY <1>11 DEF PlansTyped
  <2> QED
    BY <1>1, <1>8, <1>10, <2>1, <2>2, <2>3 DEF PlansTyped, RowsKept
<1>13. CallsHold'
  BY <1>10, <1>11 DEF CallsHold, At, RowsKept
<1>14. ReviewsHold'
  BY <1>10 DEF ReviewsHold, RowsKept
<1>15. ContinuationReviewed'
  <2>1. CASE cont' = cont
    BY <1>10, <2>1 DEF ContinuationReviewed, RowsKept
  <2>2. CASE cont'.plan = ActivePlan
    BY <1>2, <1>10, <2>2 DEF ContinuationReviewed, RowsKept
  <2> QED
    BY <2>1, <2>2 DEF DecideG06, Continued
<1>16. OldApprovalBehindStaleGate'
  <2>1. \A i \in 1 .. n :
          /\ g06'[i].status = "approved" => g06[i].status = "approved" \/ g06[i].plan = ActivePlan
          /\ g06[i].status = "stale" => g06'[i].status = "stale"
    BY <1>2, <1>3, <1>8
  <2> QED
    BY <1>1, <1>8, <1>9, <2>1, ApprovalsCovered
<1> QED
  BY <1>12, <1>13, <1>14, <1>15, <1>16

\* The gate that is marked is not approved any more.
LEMMA MarkKeepsReviews ==
  ASSUME ReviewInv, MarkGateStale
  PROVE  ReviewInv'
<1> DEFINE n == Len(g06)
           x == [g06[n] EXCEPT !.status = "stale"]
<1>1. n \in 1 .. n /\ g06 \in Seq(PlanGate) /\ PlansTyped
  BY LastIn DEF ReviewInv, PlansTyped, MarkGateStale
<1>2. g06[n] \in PlanGate
  BY <1>1, ElementOfSeq
<1>3. x \in PlanGate /\ x.plan = g06[n].plan /\ x.status = "stale"
  BY <1>2 DEF PlanGate
<1>4. g06' = [g06 EXCEPT ![n] = x]
  BY DEF MarkGateStale
<1> HIDE DEF x
<1>5. GatesKept
  BY <1>1, <1>3, <1>4, ExceptSeq DEF GatesKept
<1>6. RowsKept /\ ContKept /\ PlansKept
  BY <1>1, AgedAreKept, PlansStay DEF MarkGateStale, ContKept
<1>7. CallsStay
  BY DEF MarkGateStale, CallsStay, CallKept
<1> QED
  BY <1>5, <1>6, <1>7, QuietStep

\* A user's transaction that only makes versions old is quiet.
LEMMA UserIsQuiet ==
  ASSUME ThreadsTyped, ReviewInv, UserMoves, rows' \in {rows, Aged(rows)},
         g06' \in {g06, Aged(g06)}, cont' = cont, PlansKept
  PROVE  ReviewInv'
<1>1. RowsKept /\ GatesKept /\ ContKept
  BY AgedAreKept DEF ReviewInv, ContKept
<1>2. CallsStay
  <2>1. thr \in [Callers -> Thread]
    BY DEF ThreadsTyped
  <2>2. \A x \in Callers : thr'[x].pc = thr[x].pc /\ thr'[x].row = thr[x].row
    BY <2>1, UserMovesAll
  <2> QED
    BY <2>2 DEF CallsStay, CallKept
<1> QED
  BY <1>1, <1>2, QuietStep


\* Only the call of a review adds a row.
LEMMA RowsOfOthers ==
  ASSUME PlansTyped, rows' \in {rows, Aged(rows)}
  PROVE  ~ \E t : rows' = Append(rows, t)
<1>1. Len(rows') = Len(rows) /\ rows \in Seq(ReviewRow) /\ Len(rows) \in Nat
  BY AgedAreKept, Lengths DEF RowsKept, PlansTyped
<1>2. ASSUME NEW t
      PROVE  Len(Append(rows, t)) = Len(rows) + 1
  <2> DEFINE S == ReviewRow \cup {t}
  <2>1. rows \in Seq(S)
    BY <1>1
  <2>2. t \in S
    OBVIOUS
  <2> HIDE DEF S
  <2> QED
    BY <2>1, <2>2, AppendProperties
<1> QED
  BY <1>1, <1>2

\* A planner calls for a review of the active plan when no row has its key.
LEMMA PlannerKeepsReviews ==
  ASSUME RunTyped, ThreadsTyped, ReviewInv, NEW c \in Planners, PlannerStep(c)
  PROVE  ReviewInv'
<1>1. PlansTyped /\ c \in Callers /\ thr[c] \in Thread
  BY DEF ReviewInv, Planners, Callers, ThreadsTyped
<1>2. CASE Review(c) /\ ~ (rows' = rows)
  <2> DEFINE t == [thr[c] EXCEPT !.pc = "model", !.ver = "old", !.row = Len(rows) + 1]
  <2>1. plans # <<>> /\ AutoReviews(ActivePlan) = {} /\ NewReview(TRUE) /\ Goes(c, t)
    BY <1>2 DEF Review
  <2>2. UNCHANGED <<plans, g06, cont>>
    BY <1>2 DEF Review
  <2>3. t.row = Len(rows) + 1
    <3>1. Len(rows) + 1 \in Nat
      BY <1>1, Lengths
    <3> QED
      BY <1>1, <3>1 DEF Thread
  <2> HIDE DEF t
  <2> QED
    BY <1>1, <2>1, <2>2, <2>3, ReviewBegins
<1>3. CASE Review(c) /\ rows' = rows
  BY <1>1, <1>3, RowsOfOthers, PlannerIsQuiet
<1>4. CASE ~ Review(c)
  <2>1. ASSUME Claim(c) \/ Dispatch(c) \/ Begin(c) \/ ResolvedJob(c) \/ PlanRequest(c)
               \/ PlannedJob(c)
        PROVE  rows' = rows
    BY <2>1 DEF Claim, Dispatch, Begin, ResolvedJob, PlanRequest, PlannedJob, OnlyThread
  <2>2. ASSUME ResolveFeasibility(c) \/ GeneratePlan(c) \/ Fail(c)
        PROVE  rows' = rows \/ rows' = Aged(rows)
    BY <2>2 DEF ResolveFeasibility, GeneratePlan, Fail, Resolved, Created, Ages, OnlyThread
  <2>3. rows' \in {rows, Aged(rows)}
    BY <1>4, <2>1, <2>2 DEF PlannerStep
  <2> QED
    BY <1>1, <2>3, RowsOfOthers, PlannerIsQuiet
<1> QED
  BY <1>2, <1>3, <1>4

\* Every request of a user keeps the invariant.
LEMMA RequestKeepsReviews ==
  ASSUME RunTyped, ThreadsTyped, ReviewInv, Request
  PROVE  ReviewInv'
<1>1. PlansTyped /\ thr \in [Callers -> Thread]
  BY DEF ReviewInv, ThreadsTyped
<1>2. ASSUME NEW approve \in BOOLEAN, DecideG04(approve)
      PROVE  ReviewInv'
  BY <1>2, UserIsQuiet, PlansStay DEF DecideG04, Ages
<1>3. ASSUME NEW approve \in BOOLEAN, DecideG05(approve)
      PROVE  ReviewInv'
  BY <1>3, UserIsQuiet, PlansStay DEF DecideG05, Ages
<1>4. CASE RequestFeasibility \/ ExpiredG05
  BY <1>4, UserIsQuiet, PlansStay DEF RequestFeasibility, Resolved, ExpiredG05, Ages
<1>5. CASE RequestPlan
  <2>1. PICK p \in Packages : Created(p, None)
    BY <1>5 DEF RequestPlan
  <2>2. PlansKept
    BY <2>1, FirstPlan DEF PlansKept
  <2>3. UserMoves /\ rows' = Aged(rows) /\ g06' = Aged(g06) /\ cont' = cont
    BY <1>5, <2>1 DEF RequestPlan, Created, Ages
  <2> QED
    BY <2>2, <2>3, UserIsQuiet
<1>6. CASE RequestReview
  <2> DEFINE t == [Idle EXCEPT !.pc = "model", !.row = Len(rows) + 1]
  <2>1. /\ plans # <<>> /\ NewReview(FALSE) /\ Goes("user", t) /\ "user" \in Callers
        /\ UNCHANGED <<plans, g06, cont>>
    BY <1>6 DEF RequestReview, Callers
  <2>2. t.row = Len(rows) + 1
    BY DEF Idle
  <2> HIDE DEF t
  <2> QED
    BY <2>1, <2>2, ReviewBegins
<1>7. CASE Enqueue
  <2> DEFINE t == [Idle EXCEPT !.pc = "claim"]
  <2>1. t.pc # "model" /\ t.row = 0 /\ Goes("command", t) /\ "command" \in Callers
    BY <1>7 DEF Enqueue, Idle, Callers, Planners
  <2> HIDE DEF t
  <2>2. CallsStay
    BY <1>1, <2>1, CallsKept
  <2>3. RowsKept /\ GatesKept /\ ContKept /\ PlansKept
    BY <1>1, <1>7, AgedAreKept, PlansStay DEF Enqueue, ContKept
  <2> QED
    BY <2>2, <2>3, QuietStep
<1> QED
  BY <1>2, <1>3, <1>4, <1>5, <1>6, <1>7, DecisionKeepsReviews, ReviseKeepsReviews,
     MarkKeepsReviews DEF Request

\* Every step of the planning keeps the invariant of plans, reviews and gates.
LEMMA StepKeepsReviews ==
  ASSUME RunTyped, ThreadsTyped, ReviewInv, [Next]_vars
  PROVE  ReviewInv'
<1>1. PlansTyped
  BY DEF ReviewInv
<1>2. CASE ValidateG06 \/ LeaseExpires \/ UNCHANGED vars
  <2>1. RowsKept /\ GatesKept /\ PlansKept
    BY <1>1, <1>2, AgedAreKept, PlansStay DEF ValidateG06, LeaseExpires, vars
  <2>2. ContKept
    BY <1>2 DEF ValidateG06, LeaseExpires, vars, ContKept, RunTyped, None
  <2>3. CallsStay
    BY <1>2 DEF ValidateG06, LeaseExpires, vars, CallsStay, CallKept
  <2> QED
    BY <2>1, <2>2, <2>3, QuietStep
<1>3. CASE Restart
  <2>1. RowsKept /\ GatesKept /\ PlansKept /\ ContKept
    BY <1>1, <1>3, AgedAreKept, PlansStay DEF Restart, ContKept
  <2>2. CallsStay
    BY <1>3 DEF Restart, CallsStay, CallKept, Idle
  <2> QED
    BY <2>1, <2>2, QuietStep
<1> QED
  BY <1>2, <1>3, PlannerKeepsReviews, ModelKeepsReviews, RequestKeepsReviews DEF Next


-----------------------------------------------------------------------------
(* The theorems. *)

\* A run whose analysis waits for G04 has the invariant.
LEMMA StartsRight == Init => PlanningInv
<1> SUFFICES ASSUME Init
             PROVE  PlanningInv
  OBVIOUS
<1>1. /\ res = <<>> /\ g05 = <<>> /\ jobs = <<>> /\ plans = <<>> /\ rows = <<>> /\ g06 = <<>>
      /\ Len(jobs) = 0 /\ Len(plans) = 0 /\ Len(rows) = 0 /\ Len(g06) = 0
  BY EmptySeq DEF Init
<1>2. /\ res \in Seq(Resolution) /\ g05 \in Seq(Feasibility) /\ jobs \in Seq(Job)
      /\ plans \in Seq(Plan) /\ rows \in Seq(ReviewRow) /\ g06 \in Seq(PlanGate)
  BY <1>1, EmptySeq
<1>3. RunTyped
  BY <1>2, PlanningAssumption DEF Init, RunTyped
<1>4. /\ thr \in [Callers -> Thread]
      /\ \A c \in Callers : thr[c].pc = "idle" /\ thr[c].job = 0 /\ thr[c].row = 0
  <2>1. Idle \in Thread /\ Idle.pc = "idle" /\ Idle.job = 0 /\ Idle.row = 0
    BY DEF Idle, Thread, Pcs, Ver
  <2> HIDE DEF Idle
  <2> QED
    BY <2>1 DEF Init
<1>5. Planners \subseteq Callers /\ "user" \in Callers
  BY DEF Planners, Callers
<1>6. ThreadsTyped /\ PlansTyped /\ CallsHold
  BY <1>1, <1>2, <1>4, <1>5 DEF ThreadsTyped, PlansTyped, CallsHold, At
<1>7. ReviewsHold /\ ContinuationReviewed /\ OldApprovalBehindStaleGate
  BY <1>1 DEF Init, ReviewsHold, ContinuationReviewed, OldApprovalBehindStaleGate
<1> QED
  BY <1>3, <1>6, <1>7 DEF PlanningInv

\* Every step keeps the whole invariant.
LEMMA StepKeepsInv == PlanningInv /\ [Next]_vars => PlanningInv'
<1> SUFFICES ASSUME PlanningInv, [Next]_vars
             PROVE  PlanningInv'
  OBVIOUS
<1>1. RunTyped /\ ThreadsTyped /\ PlansTyped /\ ReviewInv /\ rows \in Seq(ReviewRow)
  BY DEF PlanningInv, ReviewInv, PlansTyped
<1>2. RunTyped' /\ ThreadsTyped' /\ ReviewInv'
  BY <1>1, StepKeepsRun, StepKeepsThreads, StepKeepsReviews
<1> QED
  BY <1>2 DEF PlanningInv, ReviewInv

\* Every state the planning of a run reaches has the invariant: whoever waits for the model
\* holds a review row of its own, the planner's review of a plan is one row, a completed row
\* accepted its plan, the continuation's plan has such a row, and the newest decision on a
\* plan does not outlive the plan.
THEOREM PlanningCorrect == Spec => []PlanningInv
<1>1. Init => PlanningInv
  BY StartsRight
<1>2. PlanningInv /\ [Next]_vars => PlanningInv'
  BY StepKeepsInv
<1> QED
  BY <1>1, <1>2, PTL DEF Spec

\* Every job, gate, review and thread of the planning code keeps its shape.
THEOREM TypeCorrect == Spec => []TypeOK
<1>1. PlanningInv => TypeOK
  <2> SUFFICES ASSUME PlanningInv
               PROVE  TypeOK
    OBVIOUS
  <2>1. RunTyped /\ ThreadsTyped /\ PlansTyped
    BY DEF PlanningInv
  <2>2. /\ status \in {"BASELINE_QUALIFIED", "PLANNING_RUNNING", "WAITING_PLAN_APPROVAL",
                       "FAILED", "WAITING_STAGE_PREPARATION"}
        /\ g04 \in {"pending", "approved", "rejected", "stale"}
        /\ cont.status \in {None, "queued", "started", "blocked"}
        /\ extra \in 0 .. MaxExtra
    BY <2>1 DEF RunTyped
  <2>3. \A i \in DOMAIN g05 :
          g05[i].status \in {"pending", "blocked", "approved", "rejected", "stale"}
    <3>1. \A i \in DOMAIN g05 : g05[i] \in Feasibility
      BY <2>1, ElementOfSeq, LenProperties DEF RunTyped
    <3> QED
      BY <3>1 DEF Feasibility
  <2>4. \A j \in DOMAIN jobs : /\ jobs[j].status \in NonTerminal \cup Terminal
                               /\ jobs[j].attempt \in 0 .. MaxAttempts
                               /\ jobs[j].step \in Steps \cup HumanWaits \cup {"completed"}
    <3>1. \A j \in DOMAIN jobs : jobs[j] \in Job
      BY <2>1, ElementOfSeq, LenProperties DEF ThreadsTyped
    <3> QED
      BY <3>1 DEF Job, JobStep
  <2>5. \A i \in DOMAIN rows :
          /\ rows[i].status \in {"in_progress", "completed", "not_accepted", "failed"}
          /\ rows[i].plan \in DOMAIN plans
    <3>1. \A i \in 1 .. Len(rows) : rows[i] \in ReviewRow
      BY <2>1, RowRead
    <3> QED
      BY <2>1, <3>1, Lengths DEF PlansTyped, ReviewRow
  <2>6. \A i \in DOMAIN g06 : /\ g06[i].status \in {"pending", "approved", "rejected", "stale"}
                              /\ g06[i].plan \in DOMAIN plans
    <3>1. \A i \in 1 .. Len(g06) : g06[i] \in PlanGate
      BY <2>1, ElementOfSeq DEF PlansTyped
    <3> QED
      BY <2>1, <3>1, Lengths DEF PlansTyped, PlanGate
  <2>7. \A c \in Callers :
          /\ thr[c].pc \in Steps \cup {"idle", "claim", "dispatch", "resolve", "resolved",
                                       "plan", "planned", "review", "model", "failing"}
          /\ thr[c].job \in 0 .. Len(jobs) /\ thr[c].row \in 0 .. Len(rows)
    <3>1. \A c \in Callers : thr[c] \in Thread
      BY <2>1 DEF ThreadsTyped
    <3>2. \A c \in Callers : thr[c].pc \in Pcs
      BY <3>1 DEF Thread
    <3> QED
      BY <2>1, <3>2 DEF ThreadsTyped, PlansTyped, Pcs
  <2> QED
    BY <2>2, <2>3, <2>4, <2>5, <2>6, <2>7 DEF TypeOK
<1> QED
  BY <1>1, PlanningCorrect, PTL

\* However planners are late, crash or take over from each other, the automatic review of a
\* plan is called for once: explain finds the row recorded under the key of the plan.
THEOREM OneReviewPerPlanAlways == Spec => []OneReviewPerPlan
<1>1. PlanningInv => OneReviewPerPlan
  <2> SUFFICES ASSUME PlanningInv, NEW p \in DOMAIN plans
               PROVE  Cardinality({i \in DOMAIN rows : rows[i].auto /\ rows[i].plan = p}) <= 1
    BY DEF OneReviewPerPlan
  <2> DEFINE S == {i \in DOMAIN rows : rows[i].auto /\ rows[i].plan = p}
  <2>1. \A i, j \in S : i = j
    BY Lengths DEF PlanningInv, ReviewsHold
  <2>2. CASE S = {}
    BY <2>2, FS_EmptySet
  <2>3. CASE S # {}
    <3>1. PICK i \in S : TRUE
      BY <2>3
    <3>2. S = {i}
      BY <2>1, <3>1
    <3>3. Cardinality({i}) = 1
      BY FS_Singleton
    <3> HIDE DEF S
    <3>4. Cardinality(S) <= 1
      BY <3>2, <3>3
    <3> QED
      BY <3>4 DEF S
  <2> QED
    BY <2>2, <2>3
<1> QED
  BY <1>1, PlanningCorrect, PTL

\* An approval of G06 that outlives its plan is older than a gate that was made stale: a
\* revision makes the newest pending or approved gate stale, and a review that ends late can
\* have added one after the approval.
THEOREM OldApprovalsBehindStaleGates == Spec => []OldApprovalBehindStaleGate
<1>1. PlanningInv => OldApprovalBehindStaleGate
  BY DEF PlanningInv
<1> QED
  BY <1>1, PlanningCorrect, PTL

\* The first plan of a run is made of a feasibility package that G05 approved, whatever was
\* resolved and decided between the planner's reading and its write.
THEOREM PlanFollowsApprovalAlways == Spec => PlanFollowsApproval
<1> DEFINE A == plans = <<>> /\ plans' # <<>> =>
       \E i \in DOMAIN g05 : g05[i].status = "approved" /\ g05[i].pkg = plans'[1].pkg
<1>1. PlanningInv /\ [Next]_vars => A
  <2> SUFFICES ASSUME PlanningInv, [Next]_vars, plans = <<>>, plans' # <<>>
               PROVE  \E i \in DOMAIN g05 :
                        g05[i].status = "approved" /\ g05[i].pkg = plans'[1].pkg
    OBVIOUS
  <2>1. RunTyped /\ thr \in [Callers -> Thread]
    BY DEF PlanningInv, ThreadsTyped
  <2>2. \E p : \E k \in Pkg \cup {None} : Created(p, k)
    <3>1. ASSUME NEW c \in Planners, PlannerStep(c)
          PROVE  \E p : \E k \in Pkg \cup {None} : Created(p, k)
      <4> USE DEF OnlyThread
      <4>1. ~ (Claim(c) \/ Dispatch(c) \/ Begin(c) \/ ResolveFeasibility(c) \/ ResolvedJob(c))
        BY <3>1 DEF Claim, Dispatch, Begin, ResolveFeasibility, Resolved, ResolvedJob
      <4>2. ~ (PlanRequest(c) \/ PlannedJob(c) \/ Review(c) \/ Fail(c))
        BY <3>1 DEF PlanRequest, PlannedJob, Review, Fail
      <4>3. GeneratePlan(c)
        BY <3>1, <4>1, <4>2 DEF PlannerStep
      <4>4. Created(thr[c].pkg, thr[c].gate)
        BY <4>3 DEF GeneratePlan, OnlyThread
      <4>5. thr[c].gate \in Pkg \cup {None}
        BY <2>1 DEF Thread, Planners, Callers
      <4> QED
        BY <4>4, <4>5
    <3>2. ASSUME NEW c \in Callers, Model(c)
          PROVE  FALSE
      BY <3>2 DEF Model
    <3>3. CASE Request
      <4>1. ASSUME NEW approve \in BOOLEAN,
                   DecideG04(approve) \/ DecideG05(approve) \/ DecideG06(approve)
            PROVE  FALSE
        BY <4>1 DEF DecideG04, DecideG05, DecideG06
      <4>2. ~ (\/ Enqueue \/ RequestFeasibility \/ ExpiredG05 \/ RequestReview \/ Revise
               \/ MarkGateStale)
        BY DEF Enqueue, RequestFeasibility, Resolved, ExpiredG05, RequestReview, Revise,
           MarkGateStale
      <4>3. RequestPlan
        BY <3>3, <4>1, <4>2 DEF Request
      <4> QED
        BY <4>3 DEF RequestPlan
    <3>4. ~ (ValidateG06 \/ LeaseExpires \/ Restart \/ UNCHANGED vars)
      BY DEF ValidateG06, LeaseExpires, Restart, vars
    <3> QED
      BY <3>1, <3>2, <3>3, <3>4 DEF Next
  <2> QED
    BY <2>1, <2>2, FirstPlan
<1>2. Spec => [][A]_vars
  BY <1>1, PlanningCorrect, PTL DEF Spec
<1> QED
  BY <1>2 DEF PlanFollowsApproval

\* The transformer starts on the plan the pointers name, and only when a review accepted
\* that plan: the continuation was made for a plan with a completed review.
THEOREM StartsOnReviewedPlanAlways == Spec => StartsOnReviewedPlan
<1> DEFINE A == cont.status = "queued" /\ cont'.status = "started" =>
       /\ cont.plan = ActivePlan
       /\ \E i \in DOMAIN rows : rows[i].plan = cont.plan /\ rows[i].answer = "accept"
<1>1. PlanningInv /\ [Next]_vars => A
  <2> SUFFICES ASSUME PlanningInv, [Next]_vars, cont.status = "queued", cont'.status = "started"
               PROVE  /\ cont.plan = ActivePlan
                      /\ \E i \in DOMAIN rows : rows[i].plan = cont.plan
                                                /\ rows[i].answer = "accept"
    OBVIOUS
  <2>1. ValidateG06
    <3>1. ASSUME NEW c \in Planners, PlannerStep(c)
          PROVE  FALSE
      <4> USE DEF OnlyThread
      <4>1. ~ (Claim(c) \/ Dispatch(c) \/ Begin(c) \/ ResolveFeasibility(c) \/ ResolvedJob(c))
        BY DEF Claim, Dispatch, Begin, ResolveFeasibility, Resolved, ResolvedJob
      <4>2. ~ (PlanRequest(c) \/ GeneratePlan(c) \/ PlannedJob(c) \/ Review(c) \/ Fail(c))
        BY DEF PlanRequest, GeneratePlan, Created, PlannedJob, Review, Fail
      <4> QED
        BY <3>1, <4>1, <4>2 DEF PlannerStep
    <3>2. ASSUME NEW c \in Callers, Model(c)
          PROVE  FALSE
      BY <3>2 DEF Model
    <3>3. ~ Request
      <4>1. ASSUME NEW approve \in BOOLEAN,
                   DecideG04(approve) \/ DecideG05(approve) \/ DecideG06(approve)
            PROVE  FALSE
        BY <4>1 DEF DecideG04, DecideG05, DecideG06, Continued, None
      <4>2. ~ (Enqueue \/ RequestFeasibility \/ ExpiredG05)
        BY DEF Enqueue, RequestFeasibility, Resolved, ExpiredG05
      <4>3. ~ (RequestPlan \/ RequestReview \/ Revise \/ MarkGateStale)
        BY DEF RequestPlan, Created, RequestReview, Revise, MarkGateStale
      <4> QED
        BY <4>1, <4>2, <4>3 DEF Request
    <3>4. ~ (LeaseExpires \/ Restart \/ UNCHANGED vars)
      BY DEF LeaseExpires, Restart, vars
    <3> QED
      BY <3>1, <3>2, <3>3, <3>4 DEF Next
  <2>2. cont.plan = ActivePlan
    BY <2>1 DEF ValidateG06, BindingStands, PlanningInv, RunTyped
  <2>3. \E i \in 1 .. Len(rows) : rows[i].plan = cont.plan /\ rows[i].status = "completed"
    BY DEF PlanningInv, ContinuationReviewed, None
  <2> QED
    BY <2>2, <2>3, Lengths DEF PlanningInv, ReviewsHold
<1>2. Spec => [][A]_vars
  BY <1>1, PlanningCorrect, PTL DEF Spec
<1> QED
  BY <1>2 DEF StartsOnReviewedPlan
==============================================================================
