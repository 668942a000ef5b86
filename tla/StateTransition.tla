--------------------------- MODULE StateTransition ---------------------------
(***************************************************************************)
(* StateTransitionService and the event sequencer, for one migration run.  *)
(*                                                                         *)
(* Every service call is a database session.  SQLite runs the SELECTs that *)
(* precede the first write outside a transaction, so a call is three       *)
(* separate steps that other sessions interleave with:                     *)
(*   FindIdempotentEvent  look the idempotency key up in the event log;    *)
(*   Validate             read the run, compare versions, check the move;  *)
(*   Write                the write transaction: compare-and-set on        *)
(*                        state_version, stage and step, event, commit.    *)
(* A session may die, or its caller roll back, before Write commits.       *)
(*                                                                         *)
(* A request is its canonical checksum: two requests have the same         *)
(* checksum exactly when they are the same record.  occurred_at is not     *)
(* part of the checksum and is kept in the session.                        *)
(***************************************************************************)
EXTENDS Integers, Sequences, FiniteSets

CONSTANTS Sessions,     \* concurrent callers (API requests, worker, threads)
          Requests,     \* the requests they may submit: a subset of Request
          Keys,         \* idempotency keys
          Workers,      \* worker ids
          LeaseIds,     \* rows available in worker_leases
          Stages,       \* stages that belong to the run
          Steps,        \* stage steps that belong to the run
          LeaseSeconds, \* lease duration in clock units
          MaxTime,      \* bound: the clock stops here
          LegacyLogs,   \* event logs a run may have had before the counter table
          None          \* Python's None

\* The status create gives a run, and the statuses apply_transition can produce.
RunStatuses ==
  {"CREATED", "SOURCE_VALIDATION_RUNNING", "SOURCE_VALIDATED", "BASELINE_QUALIFIED",
   "DIAGNOSTIC_HOLD", "WAITING_PLAN_APPROVAL", "PLANNING_RUNNING",
   "WAITING_STAGE_PREPARATION", "STAGE_CREATED", "RUNNING", "CANCELLING",
   "CANCELLED", "FAILED", "COMPLETED"}

\* _LEGAL_RUN_TRANSITIONS: the next statuses an event type may produce.
LegalRunTransitions(e) ==
  CASE e = "RUN_STATE_CHANGED" ->
         {"SOURCE_VALIDATION_RUNNING", "RUNNING", "CANCELLING", "CANCELLED"}
    [] e \in {"RUN_START_ACCEPTED", "SNAPSHOT_STARTED"} -> {"SOURCE_VALIDATION_RUNNING"}
    [] e = "RUN_CANCEL_REQUESTED" -> {"CANCELLING"}
    [] e = "RUN_CANCELLED" -> {"CANCELLED"}
    [] e \in {"SOURCE_INTAKE_FAILED", "PLANNING_FAILED"} -> {"FAILED"}
    [] e = "SNAPSHOT_CREATED" -> {"SOURCE_VALIDATED"}
    [] e \in {"BASELINE_QUALIFIED", "G03_APPROVED"} -> {"BASELINE_QUALIFIED"}
    [] e \in {"BASELINE_BLOCKED", "DISCOVERY_BLOCKED", "G02_STALE",
              "EXECUTION_PROFILE_BLOCKED"} -> {"DIAGNOSTIC_HOLD"}
    [] e = "G04_APPROVED" -> {"PLANNING_RUNNING"}
    [] e = "G05_APPROVED" -> {"PLANNING_RUNNING", "WAITING_PLAN_APPROVAL"}
    [] e \in {"COMPATIBILITY_RESOLUTION_COMPLETED", "G05_REJECTED",
              "G05_MODIFICATION_REQUESTED", "G06_REJECTED",
              "G06_MODIFICATION_REQUESTED", "PLANNING_AGENT_COMPLETED",
              "PLANNING_REVIEW_REVISION_REQUIRED", "PLANNING_REVIEW_REJECTED",
              "PLANNING_REVIEW_INSUFFICIENT_CONTEXT"} -> {"WAITING_PLAN_APPROVAL"}
    [] e = "G06_APPROVED" -> {"WAITING_STAGE_PREPARATION"}
    [] e = "STAGED_MIGRATION_COMPLETED" -> {"COMPLETED"}
    [] e = "STAGE_CREATED" -> {"STAGE_CREATED"}
    [] OTHER -> {}

\* Step statuses a worker may only record under a current lease.
TerminalStepStatuses == {"PASSED", "FAILED", "CANCELLED"}
StepStatuses ==
  {"PENDING", "QUEUED", "RUNNING", "BLOCKED", "WAITING_APPROVAL", "SKIPPED", "MANUAL",
   "DEFERRED", "ACCEPTED_RISK"} \cup TerminalStepStatuses
StageStatuses ==
  {"PENDING", "preparing", "RUNNING", "WAITING_APPROVAL", "REPAIRING", "PASSED",
   "passed_with_known_baseline_failures", "passed_with_manual_items", "FAILED",
   "ROLLED_BACK", "CANCELLED", "DIAGNOSTIC_HOLD"}

\* TransitionRequest ("transition"), an append_audit_event call ("audit"), and a
\* direct append_workflow_event by another service ("raw"), which has no checksum.
Request ==
  [kind : {"transition", "audit", "raw"}, key : Keys, expected : Nat, event : STRING,
   to : RunStatuses \cup {None},
   stage : Stages \cup {None, "foreign"}, stageTo : StageStatuses \cup {None},
   step : Steps \cup {None, "foreign"}, stepTo : StepStatuses \cup {None},
   worker : Workers \cup {None}]

\* A row of workflow_events.  checksum is None for raw events; from and to are the
\* payload's previous_run_status and next_run_status.
Event ==
  [seq : Nat, key : Keys, checksum : Request \cup {None},
   kind : {"transition", "audit", "raw"}, prev : Nat, next : Nat,
   from : RunStatuses \cup {None}, to : RunStatuses \cup {None}]

Run == [status : RunStatuses, version : Nat]

Lease == [worker : Workers, expires : Nat]

Outcomes == {"none", "applied", "replayed", "stale", "mismatch", "illegal",
             "lease_required", "conflict"}

ASSUME ConstantsAssumption ==
  /\ Requests \subseteq Request
  /\ LeaseSeconds \in Nat /\ MaxTime \in Nat
  /\ None \notin Request /\ None \notin RunStatuses /\ None \notin Lease
  /\ LegacyLogs \subseteq Seq(Event)
  /\ \A l \in LegacyLogs : \A i, j \in 1 .. Len(l) :
       /\ l[i].kind = "raw" /\ l[i].checksum = None
       /\ l[i].prev = 0 /\ l[i].next = 0 /\ l[i].from = None /\ l[i].to = None
       /\ i < j => l[i].seq < l[j].seq /\ l[i].key # l[j].key

VARIABLES run,         \* migration_runs row: status and state_version
          stageStatus, \* migration_stages: status of each stage
          stepStatus,  \* stage_steps: status of each step
          events,      \* workflow_events, in commit order
          counter,     \* run_event_sequences.last_sequence, or None if no row
          leases,      \* worker_leases rows
          clock,       \* wall clock
          sess         \* per session: program counter, request and what it read

vars == <<run, stageStatus, stepStatus, events, counter, leases, clock, sess>>

Session ==
  [pc : {"idle", "lookup", "validate", "write"}, req : Request \cup {None},
   now : Nat, seen : Run \cup {None}, outcome : Outcomes, result : Nat]

IdleSession ==
  [pc |-> "idle", req |-> None, now |-> 0, seen |-> None, outcome |-> "none",
   result |-> 0]

TypeOK ==
  /\ run \in Run
  /\ stageStatus \in [Stages -> StageStatuses]
  /\ stepStatus \in [Steps -> StepStatuses]
  /\ events \in Seq(Event)
  /\ counter \in Nat \cup {None}
  /\ leases \in [LeaseIds -> Lease \cup {None}]
  /\ clock \in Nat
  /\ sess \in [Sessions -> Session]

\* A run as MigrationRunService.create leaves it, or an older one whose events
\* predate run_event_sequences (no counter row).
Init ==
  /\ run = [status |-> "CREATED", version |-> 0]
  /\ stageStatus = [g \in Stages |-> "PENDING"]
  /\ stepStatus = [p \in Steps |-> "RUNNING"]
  /\ events \in LegacyLogs
  /\ counter = None
  /\ leases = [l \in LeaseIds |-> None]
  /\ clock = 0
  /\ sess = [s \in Sessions |-> IdleSession]

-----------------------------------------------------------------------------
(* Helpers over the stored rows. *)

\* func.max over the events of the run, 0 when it has none.
MaxSequence(log) ==
  IF log = << >> THEN 0
  ELSE CHOOSE m \in {log[i].seq : i \in 1 .. Len(log)} :
         \A i \in 1 .. Len(log) : log[i].seq <= m

\* Mutant: the counter row is trusted and never seeded from the events.
AllocatedSequenceUnseeded == IF counter = None THEN 1 ELSE counter + 1

\* allocate_event_sequence: seed the counter row if missing, then
\* last_sequence = max(last_sequence + 1, MAX(sequence) + 1).
AllocatedSequence ==
  LET seeded == IF counter = None THEN MaxSequence(events) ELSE counter
      top    == MaxSequence(events)
  IN  IF seeded >= top THEN seeded + 1 ELSE top + 1

\* uq_workflow_events_run_key admits the key.
KeyFree(k) == \A i \in 1 .. Len(events) : events[i].key # k

\* The row append_workflow_event builds for a call.
EventRow(r, checksum, prev, next, from, to) ==
  [seq |-> AllocatedSequence, key |-> r.key, checksum |-> checksum, kind |-> r.kind,
   prev |-> prev, next |-> next, from |-> from, to |-> to]

\* append_workflow_event: insert the row under the sequence just allocated.
AppendEvent(r, checksum, prev, next, from, to) ==
  /\ KeyFree(r.key)
  /\ events' = Append(events, EventRow(r, checksum, prev, next, from, to))
  /\ counter' = AllocatedSequence

\* _has_current_lease at the caller's occurred_at.
HasCurrentLease(w, now) ==
  \E l \in LeaseIds : /\ leases[l] # None
                      /\ leases[l].worker = w
                      /\ leases[l].expires > now

\* _validate_stage_status and _validate_step_status: the target belongs to the run.
TargetsBelong(r) ==
  /\ r.stageTo # None => r.stage \in Stages
  /\ r.stepTo # None => r.step \in Steps

\* _validate_step_status: a terminal step status needs a current lease.
LeaseHeld(r, now) ==
  r.stepTo \in TerminalStepStatuses =>
    r.worker # None /\ HasCurrentLease(r.worker, now)

\* The run-level move is in the closed table.
StatusLegal(r) == r.to # None => r.to \in LegalRunTransitions(r.event)

Finish(s, outcome, result) ==
  sess' = [sess EXCEPT ![s].pc = "idle", ![s].outcome = outcome,
                       ![s].result = result]

-----------------------------------------------------------------------------
(* The steps of a call. *)

\* A caller issues a request; append_workflow_event goes straight to its write.
Submit(s, r) ==
  /\ sess[s].pc = "idle"
  /\ sess' = [sess EXCEPT ![s] =
       [IdleSession EXCEPT !.pc = IF r.kind = "raw" THEN "write" ELSE "lookup",
                           !.req = r, !.now = clock]]
  /\ UNCHANGED <<run, stageStatus, stepStatus, events, counter, leases, clock>>

\* Mutant: any event stored under the key answers the request.
AnswersByKey(e, r) == TRUE

\* The stored event answers the request: same checksum, or, for an audit event
\* only, a stored event that carries no checksum.
Answers(e, r) ==
  \/ e.checksum = r
  \/ r.kind = "audit" /\ e.checksum = None

\* _find_idempotent_event and the replay branch that follows it.
FindIdempotentEvent(s) ==
  LET r == sess[s].req IN
  /\ sess[s].pc = "lookup"
  /\ \/ /\ KeyFree(r.key)
        /\ sess' = [sess EXCEPT ![s].pc = "validate"]
     \/ \E i \in 1 .. Len(events) :
          /\ events[i].key = r.key
          /\ IF Answers(events[i], r)
               THEN Finish(s, "replayed", i)
               ELSE Finish(s, "mismatch", 0)
  /\ UNCHANGED <<run, stageStatus, stepStatus, events, counter, leases, clock>>

\* The checks apply_transition makes before its first write, in its order.
Refusal(r, now) ==
  CASE run.version # r.expected -> "stale"
    [] run.version = r.expected /\ ~ (StatusLegal(r) /\ TargetsBelong(r)) -> "illegal"
    [] run.version = r.expected /\ StatusLegal(r) /\ TargetsBelong(r)
       /\ ~ LeaseHeld(r, now) -> "lease_required"
    [] OTHER -> "none"

\* Read the run and validate; what was read is kept for the event's payload.
Validate(s) ==
  LET r == sess[s].req IN
  /\ sess[s].pc = "validate"
  /\ IF r.kind = "transition" /\ Refusal(r, sess[s].now) # "none"
       THEN Finish(s, Refusal(r, sess[s].now), 0)
       ELSE sess' = [sess EXCEPT ![s].pc = "write", ![s].seen = run]
  /\ UNCHANGED <<run, stageStatus, stepStatus, events, counter, leases, clock>>

\* Mutant: the UPDATE has no WHERE state_version clause.
VersionUnchecked(r) == TRUE

\* UPDATE migration_runs ... WHERE state_version = expected: one row matched.
VersionStillExpected(r) == run.version = r.expected

\* Mutant: the lease is not looked at again inside the write transaction.
LeaseNotRechecked(r, now) == TRUE

\* _apply_step_status validates the lease again, inside the write transaction.
LeaseStillHeld(r, now) == LeaseHeld(r, now)

\* run_values gets a status only when the request names one.
NextRunStatus(r) == IF r.to = None THEN run.status ELSE r.to

\* The write transaction of apply_transition, committed by the caller.
WriteTransition(s) ==
  LET r == sess[s].req IN
  /\ sess[s].pc = "write" /\ r.kind = "transition"
  /\ VersionStillExpected(r)
  /\ LeaseStillHeld(r, sess[s].now)
  /\ AppendEvent(r, r, sess[s].seen.version, sess[s].seen.version + 1,
                 IF r.to = None THEN None ELSE sess[s].seen.status, r.to)
  /\ run' = [status |-> NextRunStatus(r),
             version |-> sess[s].seen.version + 1]
  /\ stageStatus' = IF r.stageTo = None THEN stageStatus
                    ELSE [stageStatus EXCEPT ![r.stage] = r.stageTo]
  /\ stepStatus' = IF r.stepTo = None THEN stepStatus
                   ELSE [stepStatus EXCEPT ![r.step] = r.stepTo]
  /\ Finish(s, "applied", Len(events) + 1)
  /\ UNCHANGED <<leases, clock>>

\* The write transaction of append_audit_event: the version recorded is the one
\* that was read, the run is not touched.
WriteAudit(s) ==
  LET r == sess[s].req IN
  /\ sess[s].pc = "write" /\ r.kind = "audit"
  /\ AppendEvent(r, r, sess[s].seen.version, sess[s].seen.version, None, None)
  /\ Finish(s, "applied", Len(events) + 1)
  /\ UNCHANGED <<run, stageStatus, stepStatus, leases, clock>>

\* append_workflow_event by a service that keeps no versions in the payload.
WriteRaw(s) ==
  LET r == sess[s].req IN
  /\ sess[s].pc = "write" /\ r.kind = "raw"
  /\ AppendEvent(r, None, 0, 0, None, None)
  /\ Finish(s, "applied", Len(events) + 1)
  /\ UNCHANGED <<run, stageStatus, stepStatus, leases, clock>>

\* The write transaction fails and rolls back: a consumed version, a lease lost
\* since Validate, or the unique index on the key.
WriteRefused(s) ==
  LET r == sess[s].req IN
  /\ sess[s].pc = "write"
  /\ \/ /\ r.kind = "transition" /\ ~ VersionStillExpected(r)
        /\ Finish(s, "stale", 0)
     \/ /\ r.kind = "transition" /\ VersionStillExpected(r)
        /\ ~ LeaseStillHeld(r, sess[s].now)
        /\ Finish(s, "lease_required", 0)
     \/ /\ r.kind = "transition" => VersionStillExpected(r) /\ LeaseStillHeld(r, sess[s].now)
        /\ ~ KeyFree(r.key)
        /\ Finish(s, "conflict", 0)
  /\ UNCHANGED <<run, stageStatus, stepStatus, events, counter, leases, clock>>

\* The process dies, or the caller rolls back, before the commit.
Abort(s) ==
  /\ sess[s].pc # "idle"
  /\ sess' = [sess EXCEPT ![s] = IdleSession]
  /\ UNCHANGED <<run, stageStatus, stepStatus, events, counter, leases, clock>>

-----------------------------------------------------------------------------
(* Leases and time. *)

\* acquire_lease: no check that the run is free.
AcquireLease(l, w) ==
  /\ leases[l] = None
  /\ leases' = [leases EXCEPT ![l] = [worker |-> w, expires |-> clock + LeaseSeconds]]
  /\ UNCHANGED <<run, stageStatus, stepStatus, events, counter, clock, sess>>

\* renew_lease: refused for a missing, foreign or expired lease.
RenewLease(l, w) ==
  /\ leases[l] # None
  /\ leases[l].worker = w /\ leases[l].expires > clock
  /\ leases' = [leases EXCEPT ![l].expires = clock + LeaseSeconds]
  /\ UNCHANGED <<run, stageStatus, stepStatus, events, counter, clock, sess>>

\* release_lease deletes the row.
ReleaseLease(l, w) ==
  /\ leases[l] # None
  /\ leases[l].worker = w
  /\ leases' = [leases EXCEPT ![l] = None]
  /\ UNCHANGED <<run, stageStatus, stepStatus, events, counter, clock, sess>>

Tick ==
  /\ clock < MaxTime
  /\ clock' = clock + 1
  /\ UNCHANGED <<run, stageStatus, stepStatus, events, counter, leases, sess>>

SessionStep(s) ==
  \/ FindIdempotentEvent(s) \/ Validate(s)
  \/ WriteTransition(s) \/ WriteAudit(s) \/ WriteRaw(s) \/ WriteRefused(s)

LeaseStep(l, w) == AcquireLease(l, w) \/ RenewLease(l, w) \/ ReleaseLease(l, w)

Next ==
  \/ \E s \in Sessions : \/ \E r \in Requests : Submit(s, r)
                         \/ SessionStep(s)
                         \/ Abort(s)
  \/ \E l \in LeaseIds, w \in Workers : LeaseStep(l, w)
  \/ Tick

Spec == Init /\ [][Next]_vars

-----------------------------------------------------------------------------
(* Correctness. *)

Transitions == {i \in 1 .. Len(events) : events[i].kind = "transition"}

\* Each state_version is consumed by exactly one transition event: the events of
\* apply_transition, in log order, step the version from 0 to the run's version
\* without a gap or a repetition, whatever sessions raced for a version.
VersionsConsumedOnce ==
  /\ \A i \in Transitions : /\ events[i].next = events[i].prev + 1
                            /\ events[i].next <= run.version
  /\ \A i, j \in Transitions : i < j => events[i].next <= events[j].prev
  /\ \A v \in 0 .. (run.version - 1) : \E i \in Transitions : events[i].prev = v

Moves == {i \in Transitions : events[i].to # None}

\* The payloads of the events reconstruct the run: the last event that names a
\* next_run_status names the run's status, and every previous_run_status is the
\* status the move before it left, although it was read before the write began.
TrailExplainsStatus ==
  /\ Moves = {} => run.status = "CREATED"
  /\ \A i \in Moves :
       /\ (\A j \in Moves : j <= i) => run.status = events[i].to
       /\ (\A j \in Moves : j >= i) => events[i].from = "CREATED"
       /\ \A j \in Moves :
            (i < j /\ \A k \in Moves : k <= i \/ k >= j) => events[j].from = events[i].to

\* A caller told that its request was applied or replayed is told so about an
\* event that was stored for that very request (for append_audit_event and
\* append_workflow_event: for its key), however often and by whomever it was retried.
SuccessIsRecorded ==
  \A s \in Sessions :
    sess[s].outcome \in {"applied", "replayed"} =>
      /\ sess[s].result \in 1 .. Len(events)
      /\ events[sess[s].result].key = sess[s].req.key
      /\ sess[s].req.kind = "transition" =>
           /\ events[sess[s].result].checksum = sess[s].req
           /\ events[sess[s].result].prev = sess[s].req.expected

\* Sequence numbers follow commit order for every writer, the unique index on
\* (run, sequence) is never hit, and a legacy log without a counter row is healed.
SequencesFollowCommits ==
  /\ \A i, j \in 1 .. Len(events) : i < j => events[i].seq < events[j].seq
  /\ counter # None => \A i \in 1 .. Len(events) : events[i].seq <= counter

\* Nothing about the run, its stages or its steps changes without consuming one
\* version: no session overwrites a state it has not validated.
EveryChangeConsumesAVersion ==
  [][ \/ run'.version = run.version + 1
      \/ run' = run /\ stageStatus' = stageStatus /\ stepStatus' = stepStatus ]_vars

\* A step is completed only by a worker whose lease row is still there when the
\* completion commits: a release between validation and write is noticed.
StepsCompletedUnderLease ==
  [][ \A p \in Steps :
        (stepStatus[p] # stepStatus'[p] /\ stepStatus'[p] \in TerminalStepStatuses) =>
          \E l \in LeaseIds, s \in Sessions :
            /\ sess[s].pc = "write" /\ sess[s].req.step = p
            /\ leases[l] # None /\ leases[l].worker = sess[s].req.worker
            /\ leases[l].expires > sess[s].now ]_vars

\* What lets a session write on what it read earlier: the run it saw is not ahead
\* of the run, and is the run as long as the version has not been consumed.
ReadsStayValid ==
  \A s \in Sessions :
    /\ sess[s].pc # "idle" => sess[s].req \in Requests
    /\ (sess[s].pc = "write" /\ sess[s].req.kind # "raw") =>
         /\ sess[s].seen \in Run
         /\ sess[s].seen.version <= run.version
         /\ sess[s].seen.version = run.version => sess[s].seen = run
    /\ (sess[s].pc = "write" /\ sess[s].req.kind = "transition") =>
         sess[s].seen.version = sess[s].req.expected

\* What a stored event is in the abstract log.
AbstractEntry(e) ==
  [key |-> e.key, kind |-> IF e.kind = "transition" THEN "transition" ELSE "audit",
   at |-> e.prev, to |-> e.to]

RunLogView ==
  INSTANCE RunLog WITH
    LogKeys <- Keys, Statuses <- RunStatuses, Same <- None,
    status <- run.status, version <- run.version,
    log <- [i \in 1 .. Len(events) |-> AbstractEntry(events[i])]

\* Sessions that look up, validate and write in separate steps, die and retry,
\* implement a register whose transitions are indivisible.
RefinesRunLog == RunLogView!LogSpec
=============================================================================
