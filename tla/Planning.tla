------------------------------ MODULE Planning ------------------------------
(***************************************************************************)
(* From the analysis that gate G04 decides on to the continuation of the   *)
(* transformer: the planning jobs and the two planners that work on them   *)
(* (the worker loop and the feasibility command, which dispatches in the   *)
(* request's own thread), feasibility and G05, the plan, its revisions and *)
(* reviews, G06, the first check of the transformer, a restart.            *)
(*                                                                         *)
(* A step is one transaction or one call to a model.  Requests of users    *)
(* carry the current state version, those with another are refused and     *)
(* change nothing.  Planners carry the version they read at the beginning  *)
(* of their step, abstracted to "current" or "old".  A feasibility package *)
(* is its content: the package of the same input has the same checksum.    *)
(***************************************************************************)
EXTENDS Integers, Sequences, FiniteSets

CONSTANTS Packages,        \* feasibility packages that are not blocked
          MaxAttempts,     \* PlanningJobModel.max_attempts
          MaxExtra         \* bound on what is not part of the straight way: expired leases and
                           \*   packages, restarts, revisions, requests made directly or again

ASSUME PlanningAssumption ==
  /\ Packages # {} /\ {"none", "blocked"} \cap Packages = {}
  /\ MaxAttempts \in Nat \ {0} /\ MaxExtra \in Nat

None == "none"

VARIABLES status,  \* status of the run
          g04,     \* the newest G04 row
          res,     \* compatibility_resolutions: package, and the job whose key it has
          g05,     \* g05_approvals
          jobs,    \* planning_jobs
          plans,   \* migration_plans, the newest is the active one
          rows,    \* planning_reviews
          g06,     \* g06_approvals
          cont,    \* the continuation made for the approved plan
          thr,     \* the planners and a user's review request
          extra    \* extra steps so far

vars == <<status, g04, res, g05, jobs, plans, rows, g06, cont, thr, extra>>

Planners == {"loop", "command"}
Callers == Planners \cup {"user"}

Terminal == {"completed", "completed_blocked", "technical_failed"}
HumanWaits == {"waiting_g05", "waiting_g06", "review_not_accepted"}
Claimable == {"queued_after_g04", "generating_plan", "running_planning_review", "waiting_retry"}
NonTerminal == Claimable \cup HumanWaits

Steps == {"resolving_feasibility", "generating_plan", "running_planning_review"}

Idle == [pc |-> "idle", job |-> 0, step |-> None, ver |-> "old", pkg |-> None, gate |-> None,
         row |-> 0]

TypeOK ==
  /\ status \in {"BASELINE_QUALIFIED", "PLANNING_RUNNING", "WAITING_PLAN_APPROVAL", "FAILED",
                 "WAITING_STAGE_PREPARATION"}
  /\ g04 \in {"pending", "approved", "rejected", "stale"}
  /\ \A i \in DOMAIN g05 : g05[i].status \in {"pending", "blocked", "approved", "rejected", "stale"}
  /\ \A j \in DOMAIN jobs : /\ jobs[j].status \in NonTerminal \cup Terminal
                            /\ jobs[j].attempt \in 0..MaxAttempts
                            /\ jobs[j].step \in Steps \cup HumanWaits \cup {"completed"}
  /\ \A i \in DOMAIN rows : /\ rows[i].status \in {"in_progress", "completed", "not_accepted", "failed"}
                            /\ rows[i].plan \in DOMAIN plans
  /\ \A i \in DOMAIN g06 : /\ g06[i].status \in {"pending", "approved", "rejected", "stale"}
                           /\ g06[i].plan \in DOMAIN plans
  /\ cont.status \in {None, "queued", "started", "blocked"}
  /\ \A c \in Callers : /\ thr[c].pc \in Steps \cup {"idle", "claim", "dispatch", "resolve", "resolved",
                                                     "plan", "planned", "review", "model", "failing"}
                        /\ thr[c].job \in 0..Len(jobs) /\ thr[c].row \in 0..Len(rows)
  /\ extra \in 0..MaxExtra

Init ==
  /\ status = "BASELINE_QUALIFIED" /\ g04 = "pending"
  /\ res = <<>> /\ g05 = <<>> /\ jobs = <<>> /\ plans = <<>> /\ rows = <<>> /\ g06 = <<>>
  /\ cont = [status |-> None, plan |-> 0, gate |-> 0]
  /\ thr = [c \in Callers |-> Idle]
  /\ extra = 0

-----------------------------------------------------------------------------
(* Versions and rows                                                       *)

Last(s) == s[Len(s)]
ActivePlan == Len(plans)

\* What a transition by c does to the versions others carry; c goes on as t.
OthersOld(c, t) == [x \in Callers |-> IF x = c THEN t ELSE [thr[x] EXCEPT !.ver = "old"]]
Aged(s) == [i \in DOMAIN s |-> [s[i] EXCEPT !.ver = "old"]]
Ages == rows' = Aged(rows) /\ g06' = Aged(g06)
UserMoves == thr' = OthersOld(None, Idle)

Extra == extra < MaxExtra /\ extra' = extra + 1

OnlyThread == UNCHANGED <<status, g04, res, g05, jobs, plans, rows, g06, cont, extra>>
Goes(c, t) == thr' = [thr EXCEPT ![c] = t]
At(c, p) == thr[c].pc = p
Current(c) == thr[c].ver = "current"

\* An exception inside a step: _mark_retry follows in a transaction of its own.
Raises(c) == Goes(c, [thr[c] EXCEPT !.pc = "failing", !.ver = "old", !.pkg = None, !.gate = None])

Newest(S) == CHOOSE i \in S : \A k \in S : k <= i
Open(js) == {j \in DOMAIN js : js[j].status \in NonTerminal}
NewJob(k) == [status |-> "queued_after_g04", step |-> "resolving_feasibility", attempt |-> 0,
              leased |-> FALSE, key |-> k, outcomes |-> {}]

\* The newest job that is not over, as _complete_explanation and decide_g06 update it.
OpenJobTo(s) ==
  jobs' = IF Open(jobs) = {} THEN jobs
          ELSE [jobs EXCEPT ![Newest(Open(jobs))].status = s, ![Newest(Open(jobs))].step = s,
                            ![Newest(Open(jobs))].attempt = IF s = "completed" THEN @ ELSE 0]

-----------------------------------------------------------------------------
(* The jobs: claim_planning_job, dispatch_planning_job, _mark_retry        *)

MayClaim(j) ==
  /\ jobs[j].status \in Claimable
  /\ jobs[j].attempt < MaxAttempts
  /\ ~jobs[j].leased

Claim(c) ==
  /\ At(c, IF c = "loop" THEN "idle" ELSE "claim") /\ c \in Planners
  /\ LET due == {j \in DOMAIN jobs : MayClaim(j)} IN
       \/ /\ due # {}
          /\ jobs' = [jobs EXCEPT ![Newest(due)].attempt = @ + 1, ![Newest(due)].leased = TRUE]
          /\ Goes(c, [Idle EXCEPT !.pc = "dispatch", !.job = Newest(due)])
       \/ /\ due = {} /\ c = "command"
          /\ Goes(c, Idle) /\ UNCHANGED jobs
  /\ UNCHANGED <<status, g04, res, g05, plans, rows, g06, cont, extra>>

\* The step is read after the claim is committed: what is not a step of the planner fails.
Dispatch(c) ==
  /\ At(c, "dispatch")
  /\ LET s == jobs[thr[c].job].step IN
       Goes(c, [thr[c] EXCEPT !.pc = IF s \in Steps THEN s ELSE "failing", !.step = s])
  /\ OnlyThread

\* _mark_retry.  No failure has one of the retryable codes, so every one is final.  A job
\* that failed at this attempt number before has used the key of the event: the exception
\* leaves the job as it is.
Fail(c) ==
  /\ At(c, "failing")
  /\ LET j == thr[c].job
         a == jobs[j].attempt
     IN  \/ /\ a \notin jobs[j].outcomes
            /\ jobs' = [jobs EXCEPT ![j].status = "technical_failed", ![j].step = thr[c].step,
                                    ![j].leased = FALSE, ![j].outcomes = @ \cup {a}]
            /\ status' = "FAILED"
            /\ thr' = OthersOld(c, Idle) /\ Ages
         \/ /\ a \in jobs[j].outcomes
            /\ Goes(c, Idle) /\ UNCHANGED <<status, jobs, rows, g06>>
  /\ UNCHANGED <<g04, res, g05, plans, cont, extra>>

-----------------------------------------------------------------------------
(* Feasibility                                                             *)

Begin(c) ==
  /\ At(c, "resolving_feasibility")
  /\ Goes(c, [thr[c] EXCEPT !.pc = "resolve", !.ver = "current"])
  /\ OnlyThread

\* CompatibilityEvidenceApplicationService.resolve: the resolution and its gate.
Resolved(p, j) ==
  /\ res' = Append(res, [pkg |-> p, job |-> j])
  /\ g05' = Append(g05, [pkg |-> p, status |-> IF p = "blocked" THEN "blocked" ELSE "pending"])
  /\ status' = IF p = "blocked" THEN status ELSE "WAITING_PLAN_APPROVAL"
  /\ Ages /\ UNCHANGED <<g04, jobs, plans, cont>>

\* The key of a job is used once: another attempt has another resolved_at.
ResolvedBefore(j) == \E i \in DOMAIN res : res[i].job = j

\* PlanningInputResolver.resolve; what else it asks for was made with the baseline.
InputsBound == g04 = "approved"

\* Any of the evidence may also be missing or changed on disk.
ResolveFeasibility(c) ==
  /\ At(c, "resolve")
  /\ \/ Raises(c) /\ OnlyThread
     \/ /\ InputsBound /\ Current(c) /\ ~ResolvedBefore(thr[c].job)
        /\ \E p \in Packages \cup {"blocked"} :
             /\ Resolved(p, thr[c].job) /\ UNCHANGED extra
             /\ thr' = OthersOld(c, [thr[c] EXCEPT !.pc = "resolved", !.ver = "old", !.pkg = p])

\* The job is written after the resolution is committed, whatever happened to it meanwhile.
ResolvedJob(c) ==
  /\ At(c, "resolved")
  /\ LET blocked == thr[c].pkg = "blocked" IN
       jobs' = [jobs EXCEPT ![thr[c].job].status = IF blocked THEN "completed_blocked" ELSE "waiting_g05",
                            ![thr[c].job].step = IF blocked THEN "resolving_feasibility" ELSE "waiting_g05",
                            ![thr[c].job].attempt = 0, ![thr[c].job].leased = FALSE]
  /\ Goes(c, Idle)
  /\ UNCHANGED <<status, g04, res, g05, plans, rows, g06, cont, extra>>

-----------------------------------------------------------------------------
(* The plan                                                                *)

ApprovedG05 == {i \in DOMAIN g05 : g05[i].status = "approved"}

\* _approved_plan_request: the newest resolution with the newest approved gate.
PlanRequest(c) ==
  /\ thr[c].pc \in {"generating_plan", "running_planning_review"}
  /\ \/ /\ res # <<>> /\ ApprovedG05 # {}
        /\ Goes(c, [thr[c] EXCEPT !.pc = IF @ = "generating_plan" THEN "plan" ELSE "review",
                                  !.ver = "current",
                                  !.pkg = IF At(c, "generating_plan") THEN Last(res).pkg ELSE None,
                                  !.gate = IF At(c, "generating_plan")
                                             THEN g05[Newest(ApprovedG05)].pkg ELSE None])
     \/ (res = <<>> \/ ApprovedG05 = {}) /\ Raises(c)
  /\ OnlyThread

\* Mutant: the request is not compared with the approved package.
PackageApprovedAny(p) == ApprovedG05 # {}

\* _require_approved_feasibility: what is planned is what the newest approved gate has.
PackageApproved(p) == ApprovedG05 # {} /\ g05[Newest(ApprovedG05)].pkg = p

\* PlanningEvidenceApplicationService.create.
Created(p, k) ==
  /\ plans = <<>>
  /\ PackageApproved(p)
  /\ plans' = <<[pkg |-> p, key |-> k]>>
  /\ Ages /\ UNCHANGED <<status, g04, res, g05, jobs, cont>>

\* A second request under the key of a package is the recorded one only when it carries the
\* version of that one, which is not the current version any more.
GeneratePlan(c) ==
  /\ At(c, "plan")
  /\ LET planned == [thr[c] EXCEPT !.pc = "planned", !.ver = "old", !.pkg = None, !.gate = None]
         existing == \E i \in DOMAIN plans : plans[i].key = thr[c].gate
     IN  \/ Raises(c) /\ OnlyThread
         \/ existing /\ ~Current(c) /\ Goes(c, planned) /\ OnlyThread
         \/ /\ ~existing /\ Current(c)
            /\ Created(thr[c].pkg, thr[c].gate) /\ UNCHANGED extra
            /\ thr' = OthersOld(c, planned)

PlannedJob(c) ==
  /\ At(c, "planned")
  /\ jobs' = [jobs EXCEPT ![thr[c].job].status = "running_planning_review",
                          ![thr[c].job].step = "running_planning_review",
                          ![thr[c].job].attempt = 0, ![thr[c].job].leased = FALSE]
  /\ Goes(c, Idle)
  /\ UNCHANGED <<status, g04, res, g05, plans, rows, g06, cont, extra>>

-----------------------------------------------------------------------------
(* The review of a plan: explain                                           *)

\* Mutant: the review recorded under the key is not looked up.
ReviewsUnknown(p) == {}

\* The reviews recorded under the key the planner uses for plan p.
AutoReviews(p) == {i \in DOMAIN rows : rows[i].auto /\ rows[i].plan = p}

NewReview(auto) ==
  rows' = Append(rows, [plan |-> ActivePlan, auto |-> auto, ver |-> "current",
                        status |-> "in_progress", answer |-> None])

\* explain up to the call.  A replay returns the row as it is and nobody touches the job.
Review(c) ==
  /\ At(c, "review")
  /\ LET known == AutoReviews(ActivePlan)
         same == \E i \in known : rows[i].ver = thr[c].ver
         modelCall == [thr[c] EXCEPT !.pc = "model", !.ver = "old", !.row = Len(rows) + 1]
     IN  \/ Raises(c) /\ UNCHANGED rows
         \/ known # {} /\ same /\ Goes(c, Idle) /\ UNCHANGED rows
         \/ /\ plans # <<>> /\ known = {} /\ Current(c)
            /\ NewReview(TRUE) /\ Goes(c, modelCall)
  /\ UNCHANGED <<status, g04, res, g05, jobs, plans, g06, cont, extra>>

\* Only an accepting review has a package for G06.
GivesPackage(answer) == answer = "accept"

\* What the agent's rounds of proposal and review end with, when they end at all.
Answers == {"accept", "other"}

ReviewEnds(c, answer, s) ==
  /\ rows' = [Aged(rows) EXCEPT ![thr[c].row].status = s, ![thr[c].row].answer = answer]
  /\ status' = "WAITING_PLAN_APPROVAL"
  /\ thr' = OthersOld(c, Idle)

\* The answer is written under the run's version of that moment; the gate names the plan that
\* was sent, which may not be the active one any more.
CompleteExplanation(c, answer) ==
  /\ ReviewEnds(c, answer, "completed")
  /\ g06' = Append(Aged(g06), [plan |-> rows[thr[c].row].plan, status |-> "pending",
                               ver |-> "current"])
  /\ OpenJobTo("waiting_g06")

CompleteNonacceptedReview(c, answer) ==
  /\ ReviewEnds(c, answer, "not_accepted")
  /\ g06' = Aged(g06)
  /\ OpenJobTo("review_not_accepted")

\* A planner raises after it, a user's request is over.
MarkPlanningFailed(c) ==
  /\ rows' = [rows EXCEPT ![thr[c].row].status = "failed"]
  /\ Goes(c, IF c = "user" THEN Idle ELSE [thr[c] EXCEPT !.pc = "failing", !.row = 0])
  /\ UNCHANGED <<status, jobs, g06>>

Model(c) ==
  /\ At(c, "model")
  /\ \/ \E answer \in Answers : IF GivesPackage(answer) THEN CompleteExplanation(c, answer)
                                                        ELSE CompleteNonacceptedReview(c, answer)
     \/ MarkPlanningFailed(c)
  /\ UNCHANGED <<g04, res, g05, plans, cont, extra>>

-----------------------------------------------------------------------------
(* Requests of users                                                       *)

\* decide_g04 makes the first job.
DecideG04(approve) ==
  /\ g04 = "pending"
  /\ g04' = IF approve THEN "approved" ELSE "rejected"
  /\ status' = IF approve THEN "PLANNING_RUNNING" ELSE status
  /\ jobs' = IF approve /\ Open(jobs) = {} THEN Append(jobs, NewJob(None)) ELSE jobs
  /\ UserMoves /\ Ages
  /\ UNCHANGED <<res, g05, plans, cont, extra>>

\* enqueue_planning_job, then dispatch_planning_job in the thread of the request.
Enqueue ==
  /\ g04 = "approved" /\ At("command", "idle") /\ Extra
  /\ jobs' = IF Open(jobs) = {} THEN Append(jobs, NewJob(None)) ELSE jobs
  /\ Goes("command", [Idle EXCEPT !.pc = "claim"])
  /\ UNCHANGED <<status, g04, res, g05, plans, rows, g06, cont>>

\* POST feasibility with the user's own inputs; no job and no G04 is asked for.
RequestFeasibility ==
  /\ \E p \in Packages \cup {"blocked"} : Resolved(p, 0)
  /\ UserMoves /\ Extra

\* The job an approval of package p wakes: the open one, else the one that was made for this
\* package before, finished or not, else a new one.
WokenJob(p) ==
  LET mine == {j \in DOMAIN jobs : jobs[j].key = p}
  IN  IF Open(jobs) # {} THEN Newest(Open(jobs))
      ELSE IF mine # {} THEN Newest(mine) ELSE Len(jobs) + 1

\* decide_g05 looks at the newest row and refuses only a blocked one.
DecideG05(approve) ==
  /\ g05 # <<>> /\ Last(g05).status # "blocked"
  /\ IF Last(g05).status = "pending" THEN UNCHANGED extra ELSE Extra
  /\ LET p == Last(g05).pkg
         j == WokenJob(p)
         all == IF j > Len(jobs) THEN Append(jobs, NewJob(p)) ELSE jobs
     IN  /\ g05' = Append(g05, [pkg |-> p, status |-> IF approve THEN "approved" ELSE "rejected"])
         /\ status' = IF approve THEN "PLANNING_RUNNING" ELSE "WAITING_PLAN_APPROVAL"
         /\ jobs' = IF approve
                      THEN [all EXCEPT ![j].status = "generating_plan", ![j].step = "generating_plan",
                                       ![j].attempt = 0, ![j].leased = FALSE]
                      ELSE jobs
         /\ UserMoves /\ Ages
  /\ UNCHANGED <<g04, res, plans, cont>>

\* A decision after the package expired only marks the row.
ExpiredG05 ==
  /\ g05 # <<>> /\ Last(g05).status \in {"pending", "approved"} /\ Extra
  /\ g05' = [g05 EXCEPT ![Len(g05)].status = "stale"]
  /\ UserMoves /\ Ages
  /\ UNCHANGED <<status, g04, res, jobs, plans, cont>>

\* POST plans.
RequestPlan == (\E p \in Packages : Created(p, None)) /\ UserMoves /\ Extra

\* POST plan/explanation: the call outlasts the request's first transaction.
RequestReview ==
  /\ At("user", "idle") /\ plans # <<>> /\ Extra
  /\ NewReview(FALSE)
  /\ Goes("user", [Idle EXCEPT !.pc = "model", !.row = Len(rows) + 1])
  /\ UNCHANGED <<status, g04, res, g05, jobs, plans, g06, cont>>

\* Mutant: approvals of the replaced plan are left as they are.
KeepsApprovals(s, kinds) == s

\* _stale_dependent_approvals: the newest row of these kinds becomes stale, older ones stay.
StaleNewest(s, kinds) ==
  LET due == {i \in DOMAIN s : s[i].status \in kinds}
  IN  IF due = {} THEN s ELSE [s EXCEPT ![Newest(due)].status = "stale"]

\* _persist_plan_version: the pointers move to the new version.
NewVersion == Append(plans, [Last(plans) EXCEPT !.key = None])

\* revise: any time, also after the transformer was handed the old plan.
Revise ==
  /\ plans # <<>> /\ Extra
  /\ plans' = NewVersion
  /\ g04' = IF g04 = "approved" THEN "stale" ELSE g04
  /\ g05' = StaleNewest(g05, {"approved"})
  /\ g06' = StaleNewest(Aged(g06), {"pending", "approved"})
  /\ rows' = Aged(rows) /\ UserMoves
  /\ UNCHANGED <<status, res, jobs, cont>>

\* The gate, the plan and the review decide_g06 puts together.
Decidable(gate) ==
  /\ gate.status = "pending" /\ gate.plan = ActivePlan
  /\ gate.ver = "current"
  /\ \E i \in DOMAIN rows : rows[i].status = "completed" /\ rows[i].plan = gate.plan

\* ensure_created_in_session: a continuation is bound to its first gate for good, a second
\* approval is refused and undone with the transaction.
Continued ==
  /\ cont.status = None
  /\ cont' = [status |-> "queued", plan |-> ActivePlan, gate |-> Len(g06)]

\* decide_g06 for the newest gate.
DecideG06(approve) ==
  /\ g06 # <<>> /\ Decidable(Last(g06))
  /\ g06' = [Aged(g06) EXCEPT ![Len(g06)].status = IF approve THEN "approved" ELSE "rejected"]
  /\ status' = IF approve THEN "WAITING_STAGE_PREPARATION" ELSE "WAITING_PLAN_APPROVAL"
  /\ IF approve THEN OpenJobTo("completed") /\ Continued ELSE UNCHANGED <<jobs, cont>>
  /\ rows' = Aged(rows) /\ UserMoves
  /\ UNCHANGED <<g04, res, g05, plans, extra>>

\* A decision for a gate that does not name the active plan marks the gate.
MarkGateStale ==
  /\ g06 # <<>> /\ Last(g06).status = "pending" /\ Last(g06).plan # ActivePlan
  /\ g06' = [g06 EXCEPT ![Len(g06)].status = "stale"]
  /\ UNCHANGED <<status, g04, res, g05, jobs, plans, rows, cont, thr, extra>>

-----------------------------------------------------------------------------
(* The transformer, time and crashes                                       *)

\* Mutant: the pointer to the active plan is not compared.
GateStands == g06[cont.gate].status = "approved"

\* What _validate_g06 compares: the approval and the pointer to the active plan.
BindingStands == g06[cont.gate].status = "approved" /\ cont.plan = ActivePlan

\* _validate_g06: the first node of the transformer.
ValidateG06 ==
  /\ cont.status = "queued"
  /\ cont' = [cont EXCEPT !.status = IF BindingStands THEN "started" ELSE "blocked"]
  /\ UNCHANGED <<status, g04, res, g05, jobs, plans, rows, g06, thr, extra>>

\* A step that takes longer than its lease.
LeaseExpires ==
  /\ Extra
  /\ \E j \in DOMAIN jobs : jobs[j].leased /\ jobs' = [jobs EXCEPT ![j].leased = FALSE]
  /\ UNCHANGED <<status, g04, res, g05, plans, rows, g06, cont, thr>>

\* recover_planning_jobs: work whose lease ran out is to be tried again.
Recovered(job, expired) ==
  IF job.status \in Claimable \ {"queued_after_g04"} /\ (expired \/ ~job.leased)
    THEN [job EXCEPT !.status = "waiting_retry", !.leased = FALSE]
    ELSE [job EXCEPT !.leased = @ /\ ~expired]

Restart ==
  /\ Extra
  /\ thr' = [c \in Callers |-> Idle]
  /\ \E expired \in BOOLEAN : jobs' = [j \in DOMAIN jobs |-> Recovered(jobs[j], expired)]
  /\ UNCHANGED <<status, g04, res, g05, plans, rows, g06, cont>>

-----------------------------------------------------------------------------
PlannerStep(c) ==
  \/ Claim(c) \/ Dispatch(c) \/ Begin(c) \/ ResolveFeasibility(c) \/ ResolvedJob(c)
  \/ PlanRequest(c) \/ GeneratePlan(c) \/ PlannedJob(c) \/ Review(c) \/ Fail(c)

Request ==
  \/ \E approve \in BOOLEAN : DecideG04(approve) \/ DecideG05(approve) \/ DecideG06(approve)
  \/ Enqueue \/ RequestFeasibility \/ ExpiredG05 \/ RequestPlan \/ RequestReview \/ Revise
  \/ MarkGateStale

Next ==
  \/ \E c \in Planners : PlannerStep(c)
  \/ \E c \in Callers : Model(c)
  \/ Request \/ ValidateG06 \/ LeaseExpires \/ Restart

Spec == Init /\ [][Next]_vars

-----------------------------------------------------------------------------
\* What is planned is a package G05 approved, although the planner puts the newest resolution
\* and the newest approval together and both may change under it.
PlanFollowsApproval ==
  [][plans = <<>> /\ plans' # <<>> =>
       \E i \in DOMAIN g05 : g05[i].status = "approved" /\ g05[i].pkg = plans'[1].pkg]_vars

\* Whatever planners are late, crash or take over from each other, the model is asked once for
\* the planner's review of a plan.
OneReviewPerPlan == \A p \in DOMAIN plans : Cardinality({i \in DOMAIN rows : rows[i].auto /\ rows[i].plan = p}) <= 1

\* A revision makes one gate of G06 stale, the newest that is pending or approved, so an
\* approval may outlive its plan, but never alone: a newer gate, of a review that ended after
\* the approval, was made stale in its place.
OldApprovalBehindStaleGate ==
  \A i \in DOMAIN g06 : g06[i].status = "approved" /\ g06[i].plan # ActivePlan =>
    \E j \in DOMAIN g06 : j > i /\ g06[j].status = "stale"

\* The transformer starts only on the active plan, and only when a reviewer accepted exactly
\* that plan, also when an older approval survived a revision.
StartsOnReviewedPlan ==
  [][cont.status = "queued" /\ cont'.status = "started" =>
       /\ cont.plan = ActivePlan
       /\ \E i \in DOMAIN rows : rows[i].plan = cont.plan /\ rows[i].answer = "accept"]_vars
=============================================================================
