# A TLA+ development of the Angular migration factory

The repository is a *migration factory*: a FastAPI backend that takes an Angular
application, analyses it, plans a staged upgrade and executes the stages, asking a
human at numbered gates (G02 … G11). Everything durable is in one SQLite database;
the processes that work on it (API requests, the Transformer worker, the planning
worker, background threads, supervised `npm`/`ng` subprocesses) share nothing else.
The difficult part of the system is therefore what happens when several of them
read and write the same rows, and when one of them dies in between.

This directory holds TLA+ modules of that part, the TLC configurations that check
them on small instances, and TLAPS proofs. Line references are to `src/`; the
abbreviations used below are

| short | file |
|---|---|
| TS | `backend/app/state/transition_service.py` |
| SEQ | `backend/app/state/event_sequencer.py` |
| CE | `backend/app/services/command_executor_service.py` |
| JS | `backend/app/services/job_supervisor_service.py` |
| TW | `backend/app/orchestration/transformer_worker.py` |
| TC | `backend/app/services/transformation_continuation_service.py` |
| TG | `backend/app/orchestration/transformer_graph.py` |
| SG | `backend/app/services/stage_gate_service.py` |
| ST | `backend/app/services/transformer_stage_service.py` |
| RT | `backend/app/api/routes/transformation.py` |
| RA | `backend/app/services/repair_application_service.py` |
| PLAN | `TRANSFORMER_PRODUCTION_IMPLEMENTATION_PLAN.md` |

## 1. Inventory

A run goes through the parts in the order of the list; the first two serve all others.

**State transition service and event log** (TS, SEQ). State: the `migration_runs`
row (status, phase, `state_version`), stages, steps, `workflow_events` with a unique
idempotency key per run, `run_event_sequences`, `worker_leases`. Operations:
`apply_transition` (compare-and-set on `state_version`, legality table, stage and step
writes, one event), `append_audit_event`, `append_workflow_event` used directly by other
services, lease acquire, renew, release. Hard: sessions that validated the same
version, retries with the same key and another payload, legacy logs whose counter row
does not exist yet, leases lost before a step is completed. Correct when a version is
consumed once, the log explains the state, a reported success is in the log, and
sequence numbers follow commit order.

**Command executor and job supervisor** (CE, JS, `command_execution/worker.py`). State:
`command_executions` (status, claim, attempt counters, evidence), execution leases,
the partial unique index that allows one active command per run. Operations: queue,
retry, claim, start, heartbeat, process end, evidence, terminal transition, cancel,
reconciliation of expired claims, start-up sweep. Hard: a claim lost at each of these
points, a stale ORM flush over a newer row, evidence committed without the status.
Correct when an execution spawns at most one process, an uncertain mutation is not
rerun, success has evidence and every command comes to rest.

**Command registry and policy** (`command_execution/policy.py`, `registry.py`, CE). State:
authorization decisions with their keys, plan approvals. Operations: validate, queue,
authorize and queue inside a node, retry, supersede a template. Hard: a request reads
the run once and acts on it later; plans are revised meanwhile. Correct when a queued
command was authorized for what it runs against, a decision yields one execution and
retries stay bounded.

**Run creation, ownership and source intake** (`services/migration_run_service.py`,
`source_intake.py`, snapshot, baseline, discovery, analysis services). State: the runs,
the claim on a target directory, durable intake jobs, G02 and G03 packages, the baseline
workspace and its `npm ci` command, parity and analysis rows. Operations: create, cancel,
dispatch, claim, each step of the thread, decisions, retries, restart. Hard: threads that
carry a state version they read long ago, a claim without compare-and-set, a source that
changes underneath. Correct when one mutating run owns a directory and a completed intake
has the evidence of the decisions that still stand.

**Planning** (`orchestration/planning.py`, planning services). State: jobs with leases,
feasibility packages, plans and revisions, reviews, G04–G06. Operations: dispatch, the
planner's steps, decisions, revision, the first check of the transformer. Hard: two kinds
of planner over one job, decisions committed between a planner's two transactions.
Correct when a plan is made from what was approved, reviewed once, and the transformer
starts only on the plan a standing approval names.

**Transformer worker, continuation, gates, orchestrator** (TW, TC, SG, TG, ST, RT).
State: one `transformation_continuations` row per run (node, status, owner and lease,
version, command waited for, cancel request, wake counter), gate packages and
decisions, stage steps. Operations: poll, wake, claim, one node, fail; requests to
decide, cancel, restart. Hard: no version check on most writes, no heartbeat on the
continuation lease, wake-ups from three places, a crash between a command's end and
the wake-up. Correct when the stage order holds on every path, waiters are released
and the continuation comes to rest.

**Stage, repair, sealing** (TG, ST, RA, `repair_*_service.py`, `stage_sealing_service.py`).
State: the stage's commands and steps, checkpoints with fingerprints, failure evidence,
repair attempts with their generations, invocation rows of model calls, G08, G10, G11.
Operations: update, prompt, validate, classify, propose, review, apply, verify,
revalidate, seal, next stage. Hard: an apply in several transactions around file writes,
model calls that may or may not have been answered, recoveries by operators, retries
from checkpoints. Correct when what is sealed is what was validated, a repair is written
once and as approved, and a call is never repeated blindly.

**Dependency transition** (`dependency_transition_runner.py`, closure and policy services).
State: none of its own: phases are derived from command rows. Hard: derived phases after
failures and restarts. Correct when the phases keep their order and the closure holds of
the tree it was verified on.

**Artifact store and workspaces, assistant, quality services, delivery, API layer,
frontend**: file-system I/O, stateless checks, remote calls and projections, without
workflow state of their own.

`PROJECT.json` lists every part with its status, and under `hazards` what is hard to
test, at the line where it bites.

## 2. Modules

| module | what it models |
|---|---|
| `RunLog` | abstract specification: a versioned register with an append-only log, one indivisible step per transition |
| `StateTransition` | TS and SEQ as interleaved sessions; refines `RunLog` |
| `CommandLifecycle` | CE, JS and the command half of TW: one command from the queue to its terminal status |
| `CommandPolicy` | how a command comes to be queued: authorization, queue, retry budget, template replacement |
| `Continuation` | TC, the waiter half of TW, the G07 part of SG, the nodes of TG and ST up to the verified bootstrap install |
| `StageWorkflow` | the nodes after it: update, prompts, validation, the repair loop, sealing, next stage, end of the run |
| `RepairCalls` | how a repair attempt obtains its proposal and review from the model; composes `RepairProposals` |
| `RepairProposals` | what a proposal is and what binding, validating, showing and applying it do: pure operators |
| `DependencyTransition` | the operation of that name of an applied repair |
| `MigrationRun` | creation, cancellation and target ownership of runs |
| `SourceIntake` | extends `MigrationRun`: one run from its start to gate G04 |
| `Planning` | from G04 to the continuation of the transformer |
| `…Proofs` | the TLAPS theorems about the module of that name |
| `RunProofs` | the theorems about `StateTransition`, and about `SourceIntake` with `MigrationRun` |
| `MC_…` | instances for TLC |

The modules are connected the way the code is: each one's header says which part of a
neighbour it takes as a choice of the environment. `Continuation` and `StageWorkflow` see
a command as its status, whose life is `CommandLifecycle`'s; `StageWorkflow` sees a
proposal or review as the answer of a node, which `RepairCalls` produces; the
transitions of the intake and the planner are requests of the kind `StateTransition`
treats one by one.

### How a database session is modelled

The engine (`repositories/session.py`) is SQLite through SQLAlchemy with the driver's
default transaction handling: SELECTs before the first write run outside a
transaction, writes are serialized. A session flushes an ORM object as `UPDATE … WHERE
id` over the *columns that changed relative to what it read*; no model declares a
version column. So

* an operation whose write carries its own condition (`apply_transition`,
  `claim_next_execution`, `claim_next`, `persist_pid`, the heartbeat) is one step at
  its write, guarded by that condition;
* every other operation is a *Read* step that copies the row and a *Write* step that
  flushes the changed attributes over whatever the row holds by then (`Flush` in
  `Continuation`, `See` and the `seen` copies in `CommandLifecycle`, the split reads of
  `CommandPolicy`, `RecoverExhaustedRead` and `RecoverExhaustedWrite` in `RepairCalls`);
* where a module is not about that race, a transaction is one step, and its header says
  so (`StageWorkflow`, `DependencyTransition`: a node whose owner is settled by
  `Continuation`).

Time is abstract except in `StateTransition`: a live claim or lease may run out at any
moment, a renewal makes it live again. `StateTransition` has a clock, because there
`occurred_at` is compared with an expiry.

### StateTransition

One run; each session is at `lookup`, `validate` or `write`. `FindIdempotentEvent` is
the first SELECT, `Validate` the checks of `apply_transition` in their order (version,
legality table, stage, step and lease), `WriteTransition` the conditional UPDATE, the
stage and step writes with the lease looked up again, the event and the commit;
`WriteRefused` its failure, `Abort` a rollback or a death before the commit.
`WriteAudit` is `append_audit_event`, `WriteRaw` a direct `append_workflow_event`.
A request stands for its canonical checksum. The counter row may be missing and is then
seeded from the log, as `allocate_event_sequence` does. Left out: run phase, phase
status and approval status, which are written and logged exactly as the status is.

### CommandLifecycle

Workers have a program counter through `_run_execution`; the API process queues,
retries, cancels and sweeps. The keys `queued`, `started`, `completed`, `failed` and
`reconcile:<n>` of the command events are modelled, because their uniqueness decides
what can happen. Authorization data, artifacts and diagnostics are abstracted to "the
inputs are accepted or not". The retry budget and `_CLAIM_RETRY_THRESHOLD` are
constants.

### CommandPolicy

A request of a user is `ValidateBegin`/`ValidateEnd` or `QueueBegin`/`QueueEnd`: the read
of the run and, later, everything after it, because the session's identity map keeps the
run as first read. A node's pass is `NodeBegin`, then `NodeQueue`, `NodeTransition`,
`NodeRetry` or a raise. `NodeRecover` queues the check of the target version a second
time, under a decision of its own, and makes it the successor of the corrupted one with no look
at the budget (`transformer_stage_service.py:981–989`). Such a check is a read-only row that
requires a reconstruction: this release sets that flag on mutating commands only (CE:449–452,
1457–1461), an earlier one left such rows (`tests/test_target_inspection_generation.py`), so
"corrupted" is one of the ends of a check. Decisions are rows with their key and the version
they were made for; `RevisePlan`, `ApprovePlan`, `RunEnds`, `Repair` and `TransitionEnds` move the world.
A command that is not exactly the command of its authority stands for every broken
stateless rule. The registry is assumed seeded.

### Continuation

The row, the G07 package, the bootstrap step, two commands (the bootstrap install and
its one retry), the wake events with their payloads, one program counter per worker
and one slot per kind of request. Nodes before G07 that only validate something may go
on, block or raise. `angular_update` is where `StageWorkflow` takes over: the
continuation of this module stops there.

### StageWorkflow

Every node from `angular_update` to `complete_run` is an action or a group of actions with
a common guard (`AngularUpdate` and `UpdateSucceeded`/`UpdateFailed`, `Validate`, the four
`Classify…`, `ProposeRepair`, `ReviewRepair`, `CreateG10`, `ClaimApply` → `ApplyPatch` →
`CommitApply`, `LockfileGeneration`, `StartRevalidation`, `CopySeal` → `CommitSeal`,
`MaterializeNextStage`, `CompleteRun`). Several transactions of one node are several
steps, told apart by `pc`; `Crash` and `Restart` come between them. The workspace is a
number that grows with every change, so a fingerprint is the number it was taken of;
checkpoints are lightweight rows whose snapshot is the workspace itself.

### RepairCalls and RepairProposals

A pass of a worker is `ClaimPropose`/`ClaimReview`, `Load` (its snapshot), `Start` (opens
or takes over the invocation row of its key), `MarkTransportStarted`, `PostAgain` (the
gateway sends the same request once more, `azure_gateway.py:479–524`: after a lost answer, a
timeout or a status that may pass up to `MaxPostRetries` times, after an incomplete first
answer once), one of the outcomes of the call (`Answered`, `ProviderFailure`,
`ProtocolFailure`, or `OutcomeUnknown` when the last POST got no response either), then
`PersistCall` or a refusal, and `End`. `Expire`, `Crash`, `Restart` and `RunChange`
disturb it (at most `MaxFaults` times together); operators recover uncertain and
exhausted calls. A request is what distinguishes its checksum.

`RepairProposals` has no variables. A text is a sequence of lines (a word of the constant
`Word` and its line ending); manifest entries are triples. `Operation`, `PatchFile`,
`Candidate` and `Context` are the kinds of what the constants hold; the loops of the code
(`Documents`, `Replacements`, `Writes`) are recursive functions, so that they can be reasoned
about. `Bind`, `Validate`, `Judge` and `Outcome` follow
`_bind_proposal_candidate`, `validate_proposal` and the causal gate; `Prepare`,
`ApplyLocked` and `RollBack` the patch service, with a foreign writer that may change any
file before any write, a superset of what the Windows file locks admit. Results of one
stage are handed to the next as parameters, in the order the code computes them.

### DependencyTransition

A pass of the node is one transaction; `Phase` is recomputed from the command rows as the
runner does, and `PhaseUninstall` … `PhaseClosure` are what it then does. The workspace is
declared and installed version per member, the core version and the consistency of the
installed tree; its fingerprint excludes `node_modules`. The bundle is resolved anew at
each pass. `HandlePrompt` is the share of that node in the transition, `Drift` a change of
the workspace from outside.

### MigrationRun and SourceIntake

`CreateChecks` is `create` up to its first write, `CreateRun` the rest. A request carries the
owner of the claim it has found and found at rest; its first write deletes that claim, whatever
the owner has become since, and the second look at the claim sees only one that came later.
Only one run is started, the others compete for the directory. A thread is a program counter and how the
version it carries relates to the run's: current, old, or superseded by the acceptance of
the very step it is about to repeat (then the transition service answers it as a replay).
Steps are named as the services are: `Take`, `Snapshot`, `Copy`, `InitializeG02`,
`PollG02`, `Authorize`, `ResolveProfile`, `CreateWorkspace` (what it checks) and `MakeSandbox`
(the copy it records), `Prequalify`, …, `Parity`,
`Capture`, `Qualify`, `WaitG03`, `Discovery`, `Scan`, `ParityBaseline`, `Analysis`,
`Model`, `FinishJob`. The attempts of the analysis are rows: a retry through the API adds one,
may name any earlier attempt that can be retried, and carries the version of its request to
the end, while a thread of a job reads the version again between two steps. The baseline's
steps also exist as routes, of which repeated capture
and qualify are modelled. The drift of the source is one way.

### Planning

Two planners (the worker loop, and the feasibility command, which dispatches in the
request's thread) with the same steps `Begin`, `ResolveFeasibility`, `ResolvedJob`,
`GeneratePlan`, `PlannedJob`, `Review`, `Model`, `ReviewEnds`, `Fail`; the two transactions
of resolving and of planning are two steps each, because decisions commit in between.
Retryable error codes are raised nowhere, so every failure is final. A package is its
content. The three ways a review can stop are one.

### The shape of the state

`TypeOK` (in `RepairCalls` also `StateTyped`) documents the state of each module. It is not
among the properties of the runs, where it would say little; it is proved where there is
a proof module.

## 3. Runs

| run | instance | shows |
|---|---|---|
| `transition_race` | two sessions, seven requests over three keys, a worker with a lease, a clock to 1, with and without a legacy log | `VersionsConsumedOnce`, `TrailExplainsStatus`, `SuccessIsRecorded`, `SequencesFollowCommits`, `StepsCompletedUnderLease`, refinement of `RunLog` |
| `command_race` | two workers, one command, one crash, one cancel or sweep, claim threshold 2 | `SpawnedOnce`, `SuccessHasEvidence`, `MutationsNotRequeued` |
| `command_retry` | one worker, a command and its retry, one crash, fairness | `EventuallySettled` |
| `command_policy` | user and node requests for an update and a version check, two plans, the first of an earlier release, budget 2, four run versions, four executions | `QueuedAsApproved`, `OneExecutionPerDecision`, `SuccessorsBounded` |
| `source_intake` | two runs on one target, two threads, two process numbers, two attempts, two interferences | `MutatingRunOwnsTarget`, `CompletedIntakeHasEvidence`, `ValidationIsWorkedOn`, `BaselineOnStandingApproval` |
| `planning` | two packages, two attempts, two extra events | `OneReviewPerPlan`, `OldApprovalBehindStaleGate`, `PlanFollowsApproval`, `StartsOnReviewedPlan` |
| `continuation_workers` | two workers, one lease lost under a live worker, one restart, one decision | `InstallAfterApproval`, `UpdateAfterVerifiedInstall` |
| `continuation_live` | one worker, one crash, one cancel, one decision, old and new rows, fairness | `WokenAfterCommand`, `WaiterReleased`, `ComesToRest` |
| `stage_repair` | two stages, one failing command kind, source and dependency repairs, two applied, one prompt, one crash, one request | `SealedWasValidated`, `ApprovedStaysUntouched`, `RepairAppliedOnce`, `SealLeavesNothingOpen` |
| `stage_update_success` | one stage, nothing fails | the disagreement of section 4 |
| `repair_calls` | two workers, two operators, three attempts, one repeated POST, one fault, one restart | `RetryCalledOnce`, `AnswersAreCompleted`, `OneOpenAttempt`, `AppliedAsProposed`, `ApplyIsAllOrNothing`, `NoBlindRepeat` |
| `dependency_phases` | a bundle of three packages (a companion, an optional member, the blocking package), one request, one drift | `UpdateRunsDetached`, `InstallRetriedOnce`, `ClosedOnExactTree`, `AcceptedAsClosed` |

**Bounds.** Two sessions, workers, threads or operators are enough for every pairwise
race on one row, and the operations modelled never involve a third party other than a
request, of which each run allows the kinds its question is about. The requests of
`transition_race` were chosen so that a version race, a replay, a key reused with
another payload, a key shared between a transition and an audit or raw event, and each
refusal happen. One crash per run lets a worker die at every point of its program. A
claim threshold of 2 lets a claim be lost, retaken and exhausted. Three attempts are the
least with which a recovered attempt can be superseded and recovered again, two applied
repairs the least for a repair of a repair, two stages the least for a next stage.
`repair_calls` uses one class of rejected answer (`Rejections`), since the classes differ
only in what the request of the retry is worded from; that every answer a run gives a
proposer is what some candidate leads to (`AnswersOccur`) is an assumption TLC evaluates.
`MaxPostRetries`, 2 by default in the code (`core/config.py:100`), is 1 there: one repetition
is enough for a repeated POST to be answered, to fail or to be lost, and the proof is for any
number. `FirstTemplates` of `command_policy` makes the first plan one of an earlier release, so
that its update has a version it is superseded by.
`MaxClaims` of the continuation is needed because a late write of a slow worker can send
the row round again; with one worker (`continuation_live`) the bound of 30 is never met,
so it does not help the liveness properties; with two workers it may stop the model,
which is why deadlock is not checked there. Nor is it where the modelled part has an end:
a continuation that is blocked or complete, a run that stopped at its last modelled gate,
requests that are used up (`command_policy`, `planning`, `source_intake`, `stage_repair`,
`repair_calls`, `dependency_phases`).

**Fairness** is assumed in `command_retry` and `continuation_live` only. `run_forever`
(TW:337) loops and swallows exceptions: weak fairness of each worker's steps. Supervised
processes have a deadline after which their tree is killed, so a running command ends. A
request that began is a function call that returns. Time passes, so the claim or lease of
something nobody works on runs out; a lease under a live worker is only *allowed* to run
out. Nobody is bound to queue, retry, cancel, restart or decide, and crashes are never
required.

**What liveness depends on.** `EventuallySettled` is checked with one worker and no
cancellation: with two workers, or with a cancellation that races a start, a
reconciliation working from an old read clears `worker_id` of a command that has just
started (CE:436); if that worker dies, no sweep selects the row again and it occupies the
run's active-command index. `WaiterReleased` is checked without restart requests: a
restart that read the row before a gate decision and a wake-up writes `wake_sequence` back
to its old value; the next wake-up then uses the key `wake:<n>` of an event that exists
with another payload, `append_audit_event` raises (TS:261–271) and the poll's session
rolls back, again on every poll. Likewise two workers that read the same waiter both write
`queued`: the second event is accepted as a replay, so a continuation that was already
claimed goes back to the queue, although PLAN:700 says that "A duplicate wake-up only
changes a waiting continuation to queued once."

## 4. Where the code differs from what the repository says

`stage_update_success` is a finding with a run: when the Angular update succeeds without a
prompt, `_handle_prompt` sets the step to PASSED and then asks for the latest repair
attempt (TG:437), which does not exist; the transaction is undone and the continuation is
blocked. `tests/test_command_terminal_lifecycle.py:1143` expects `target_inspection`.

The following were met while translating the code. The modules contain the behaviour; the
properties are stated so that they hold of it, and no run is spent on the disagreement.

*Commands and continuation.* A cancellation that commits between a worker's read of a
queued command and its start write is overwritten (CE:1135). A read-only command requeued
after its worker died cannot start again, because the event `<id>:started` exists
(CE:1137); it is claimed and rolled back until the claim budget fails it. A cancel request
that commits while a worker is inside a node loses its status and node to the node's flush
(TG:3837); a second cancel is taken for a replay of the first. A restart of a continuation
that waits at G07 moves the version away from the one bound in the package, and `wait_g07`
has no branch in `advance` (TG:249), so the pending package cannot be decided.

*Command policy.* `_check_plan_membership` says it verifies "every client-supplied binding
against the current approved plan" but never consults the active plan; after a revision
the commands of the earlier plan are still accepted. A plain retry checks neither version
nor run status. The recovery of a corrupted target-version check is made a successor with the
next attempt number without a look at the repair budget
(`transformer_stage_service.py:981–989`); `SuccessorsBounded` says that it happens at most
once per check, and keeps the budget for every other successor.

*Intake.* `_claim` has no compare-and-set although its comment says exactly one worker takes
the row: two quick approvals of G03 start two threads, and the second fails the job the
first completes. `docs/authoritative-angular18-baseline-flow.md:100` says that start-up
re-dispatches approval-waiting jobs; a re-dispatched `waiting_g02` job fails on the
payload of its `:started` event and the run goes to DIAGNOSTIC_HOLD. After the poll of G02
nothing in `_continue_after_g02_once` looks at the run's status (`source_intake.py:300`),
so a run cancelled during its baseline goes on (`docs/mvp_overview.md:4035`). Statuses from
BASELINE_QUALIFIED on do not count as mutating, so another create on the same target takes
over the claim (`migration_run_service.py:94`, `docs/features/s1-f06/progress.md:26`: "Only one
mutating run and one active target claim may exist at a time."). A create deletes the claim of
a run whose status it read before its transaction (`migration_run_service.py:99–106`): a failed
run that is retried in between is at work again without its claim, beside the new run.
`MutatingRunOwnsTarget` therefore excepts a run that has been retried. `recover` is to
"Re-dispatch jobs left queued, running, or waiting at restart."
(`orchestration/source_intake.py:78`), but a job that names the process id of the new process is
taken for its own (`orchestration/source_intake.py:61`, `86`): after a restart under the same
id it is neither requeued nor claimed again, and the run stays in validation with nobody at
work. `ValidationIsWorkedOn` excepts that step and no other. The source may change between the
check of G02 and the commit of the sandbox; what is copied is the snapshot, so
`BaselineOnStandingApproval` is about the decision only.

*Planning.* A G05 approval that commits between resolve's commit and the write of the job
is overwritten with `waiting_g05` (`planning.py:106`). A crash after resolve's commit makes
the retry mismatch and fail; a crash during the review's model call leaves a row in
progress that every replay returns silently. The `planning-outcome` key is used again
after an attempt reset, and `_mark_retry` then raises and leaves the job leased. `decide_g06`
does not ask whether G04 and G05 are still approved after a revision. A revision makes only the
newest pending or approved G06 stale
(`planning_review_evidence_application_service.py:935–942`): when a later review has opened a
second gate, the first one stays approved for a plan that is no longer active, although
`docs/sprint2.md:1716` says that a revision "marks dependent approvals stale".
`OldApprovalBehindStaleGate` says what is left of it, and `StartsOnReviewedPlan` that the
transformer does not start on such an approval.

*Stage and repair.* A restart while the update command runs leads, through a repair, to a
seal without G08 (PLAN:2025). Repairs made after a retry are not counted against the
budget (`causal_review.py:550`, PLAN:1124). A prompt captured on a retry makes the failure
path raise (`_block` lacks an argument, TG:461): the row is reclaimed for ever. A crash
in the middle of an apply, prompt answers and transient failures differ from PLAN:1117,
:732 and :1012. The semantic-retry loop of `propose` does not look at ownership again, so
"one open call per attempt" does not hold and is not among the properties.

*Model calls.* A started call is never made again under its key, but the call itself repeats its
POST after a timeout or a lost connection (`azure_gateway.py:511–524`), so a provider may be
asked twice where its first answer was lost; `docs/sprint2.md:578` names that "transport
retry" without saying what it does to a call in doubt. `NoBlindRepeat` and `RetryCalledOnce` are
about calls of the gateway and say so. When an error response follows a lost POST the row ends
as failed, not as uncertain, although the lost POST may have been answered.

*Proposals.* Two `dependency_add` operations of one package are coalesced to one without
fields, which the second coalescing always refuses; a `dependency_change` without fields is
a free edit of `package.json` that the check for `--force` does not see; a unified diff that
creates a file passes validation and fails at apply, one that deletes a file empties it
instead; rolling back after "create target appeared" removes the foreign file.

*Dependency transition.* The runner and the classifier send a transition that nobody can
complete round in a circle (`dependency_transition_runner.py:262–271`, `768–781`); the
installed core is computed outside the `try`, so a ValueError escapes the node.

## 5. Proofs

Each theorem holds for every value of its module's constants that satisfies the module's
named assumption, which says no more than that the constants are of their kind: counts are
naturals, at least one worker, special values are none of the ordinary ones, a legacy log
has increasing numbers and distinct keys. Each proof module defines an inductive
invariant, which TLC checked on an instance before it was proved; one lemma per action
shows that it is preserved. Most properties are not inductive by themselves; what follows
is what had to be added and why.

**`RunProofs`**, on `StateTransition` (any sessions, requests, keys, workers, leases,
stages, steps).
`Safety`: `SafetyInv` is `TypeOK`, `SequencesFollowCommits`, `VersionsConsumedOnce` and
`ReadsStayValid`. A session in its write step carries a copy of the run taken some time
ago, and nothing in `VersionsConsumedOnce` says what that copy is worth. `ReadsStayValid`
does: the copy is never ahead of the run, equals the run as long as its version has not
been consumed, and for a transition its version is the one the request expects. With it
the WHERE clause of the UPDATE implies that the payload written describes the run at that
moment. `SequencesFollowCommits` needs the counter to be at least every stored number,
which holds before the counter row exists because it is seeded from the maximum. From the
invariant: `TypeCorrect`, `EachVersionConsumedOnce`, `EventOrder`, `ChangesAreVersioned`
(run, stages and steps change only in a step that consumes a version),
`TrailAlwaysExplains` (only the write of a transition adds a move, and its `from` is the
status of the run because the run it writes is the run it validated),
`SuccessAlwaysRecorded` (rows are never rewritten, and the row a replay accepts carries
the checksum of its own request), `CompletedUnderLease` (the lease is read again inside
the write). `Refinement` shows that the service implements `RunLog`: the log is mapped
entry by entry (`AbstractEntry`), `WriteTransition` is a `LogTransition`, an audit or raw
write a `LogAudit`, every other step stutters.

**`RunProofs`**, on `SourceIntake` with `MigrationRun` (any runs and directories, threads,
attempts, validation kinds, process ids, restarts, source changes and decisions).
`IntakeInvariant`, `IntakeTypeCorrect`, `RunsOwnTheirTargets`, `ValidationStaysWorkedOn`,
`CompletionHasEvidence`, `BaselineStandsOnApproval`. That a run in
validation is worked on is not inductive, and for a reason: the services move the run
and the jobs without looking at each other. `_fail` moves the run whatever its status, the
commit of `_claim` writes a row whatever became of it, `qualify` qualifies from any status. What
makes this harmless is the phase the intake is in, and `PhaseInv` says what a phase admits.

* Until the intake is completed (`Early`) nothing of what comes later is there, at most one
  thread is at work, on a job that stays live as long as the thread needs it, and at most
  one job is live, the last. Two threads can exist only once G03 or a retry of the analysis
  has made a second one, and both need evidence that comes later.
* Before a snapshot is taken (`BeforeSnapshot`) the run is in validation exactly while a job
  is live, and a thread of the intake goes for a queued job or has a live one in hand
  (`Works`): what is left of `ValidationIsWorkedOn` is that no step but a restart takes the
  thread away. After it (`AfterSnapshot`) the run is never in validation again, not even by
  `RetryIntake`: a failure after the snapshot has a code that forbids the retry, and a
  failure after the end of the intake does not put the run into `FAILED`.
* `MutatingRunOwnsTarget` needs that a request past `create`'s reads is for a run that is not
  written yet (`RequestsAreNew`), that the owner it has found is at rest and stays so unless it
  is retried (`OwnersAtRest`), so that only a retried run can lose its claim to the request, and,
  for the failures and qualifications that move a run whatever its status, that the run has been
  owner since it started.

`BaselineStandsOnApproval` is about a gap in time: the thread that copies the snapshot was let
through earlier. It records the sandbox only with the version it read then, and every decision at
G02 moves the version (`CheckStands`).

`EvidenceInv` is about the second half. A job is completed by whoever reports the end of an
analysis, and a retry through the API completes jobs it does not work on. So a report of
completion, wherever a thread holds it, must itself stand on the evidence (`ReportsStand`);
an attempt is only made over completed discovery and parity, neither of which is rewritten
(`AnalysesStand`); and a thread that waits for the model has an attempt of its own in
progress, so that no late answer rewrites a completed one (`AttemptsHaveRows`). Each action
is shown once to be a move of a kind (`LateMove`, `EarlyMove`), and the kinds to keep the
invariant.

**`CommandLifecycleProofs`** (any commands, workers, retries, crashes). `SafetyCorrect`,
`TypeCorrect`, `StartsOnce`, `EvidenceFirst`, `UncertainNotRequeued`. The status of the row
says little, for flushes overwrite it; the unique key of the `started` event does the work.
It admits one supervisor per command (`OneSupervisor`), who alone may start a process
(`ProcessesStarted`); it commits the evidence before the terminal status that it holds in
memory (`EvidenceCommitted`); a reconciliation acts only on a row that it read as active
(`ReadsWereActive`).

**`CommandPolicyProofs`** (any commands, plans, keys, revisions). `PolicyCorrect`,
`QueuedAsApprovedAlways`, `DecisionsExecutedOnce`, `SuccessorsStayBounded`. A decision
accepted for version *v* has its plan approved in *v*, or *v* has passed; a request to
queue that read *v* therefore sees it approved; approvals only grow; a session in the
middle of a retry knows a parent that failed and stays failed. A recovery has a corrupted
check as its parent, which is never the parent of a retry, and its decision is executed once;
so it has no budget to keep and is still the only successor.

**`RepairCallsProofs`** (any workers, operators, attempts, faults). `RepairCorrect`,
`RetryCalledOnceAlways`, `NeverRepeatsBlindly`, `AnswersStayCompleted`, `OneAttemptOpen`.
The version of an invocation row tells who opened it; that a call in flight sends its POST again
changes neither the row nor who holds it, so every further POST is of the call that holds its row
or has been given up. A worker whose call is out holds its
row unless it was abandoned; the row of a lost call stays in transport with nobody holding
it, or abandoned; an attempt whose retry is spent makes no call any more. While an attempt
has no answer the generation of its call only grows, so a worker whose snapshot is still
current opened the very call that the attempt names.

`ApplyAllOrNothing` and `AppliedAsWasProposed` are about `RepairProposals`: that no accepted
proposal is misapplied (`NothingMisapplied`) or applied in part (`NothingPartlyApplied`),
for any workspaces, contexts and candidates, texts and groups of every length, and any
foreign write. Whatever the code does in a loop is a recursive function on the
positions of a sequence; that a statement holds at every position follows from
well-foundedness of `<` on `Nat` (`InductiveSet`: a set of naturals that has 0 and with
each element its successor is `Nat`), applied to the set of positions at which it holds.

* *Applying.* Through all the writes a file that is not to be changed is as it was or as the
  foreign write left it (`WritesUnchanged`); the files to be changed are, in the end, found as
  expected or put back (`AppliedOrPutBack`). So a foreign write survives a rollback only on a
  file that is not to be changed.
* *Binding.* The replacements of a group, and the dependency operations of a document, are
  what the operations mean one after the other (`ReplacementsMeant`, `DocumentsMeant`): an
  operation's meaning touches its own path only, so it may be followed through the whole
  candidate (`MeantOfGroup`). What a group is bound to replaces the whole text by the
  whole text (`GroupBound`), and a text occurs exactly once in itself (`WholeReplaced`).
* *Three coalescings.* After the first there is one operation per path (`OnePerPath`), so
  each group of the second and the third is a single operation, which they leave as it is
  (`BoundStays`, `CoalescedBound`). The third counts the lockfile command as part of
  the plan; that only decides acceptance, not the operation (`LockfileOnlyDecides`).
* *Line endings.* What is written has the dominant line ending of the file, of which
  normalizing again makes the same (`DominantOfText`).

The assumption says that workspaces, contexts and candidates are of their kind; a unified
diff is within `ApplyAllOrNothing` but not within `AppliedAsWasProposed`, for the reason
under *Proposals* in section 4.

**`PlanningProofs`** (any packages, attempts, expired leases, restarts, revisions).
`PlanningCorrect`, `TypeCorrect`, `OneReviewPerPlanAlways`, `OldApprovalsBehindStaleGates`,
`PlanFollowsApprovalAlways`, `StartsOnReviewedPlanAlways`. Whoever waits for the model holds a
row in progress of its own (`CallsHold`): that is why a call that ends late writes no row
but its own, and with it that a completed row is one that accepted its plan
(`ReviewsHold`). An approval of G06 asks for such a row of the active plan, which the
continuation then keeps (`ContinuationReviewed`). A revision makes the newest of the pending and approved
gates stale, so every approval that it leaves is older than a stale gate, and stale gates stay
stale (`ApprovalsCovered`); that a set of rows has a newest one
(`NewestIn`) is shown with the well-foundedness of `<` on `Nat`.

**`ContinuationProofs`** (any workers, rows, requests, crashes, leases that run out).
`ContinuationCorrect`, `TypeCorrect`, `InstallAfterApprovalAlways`,
`UpdateAfterVerifiedInstallAlways`, `WokenAfterCommandAlone`. What makes the guarantees
survive flushes of stale copies is that approvals and passed steps are never taken back:
the row, and every copy of it that a worker or a request still holds however old, stands
behind G07 only after an approval and at the update only after a passed install
(`Reached`). A flush writes the attributes that changed (`FlushRow`), so the node it leaves
is the row's own or one that the writer had reached. `WokenAfterCommandAlone` assumes one
worker (`Alone`), as the run that checks it does: with two, a node's late write can change
the command of a row that the other has parked, and nothing in the code excludes it.

**`StageWorkflowProofs`** (any route, failures, prompts, crashes, restarts, revisions).
`StageCorrect`, `TypeCorrect`, `SealedWasValidatedAlways`, `SealLeavesNothingOpenAlways`,
`RepairAppliedOnceAlways`, `ApprovedStaysUntouchedAlways`. None of the four is inductive: a
seal is right because of what G11 was asked about, which is right because every group passed
on the same sources, which depends on where the row was queued from. `StageInv` says it in
three parts.

* `Lasting` holds wherever the row stands. A patch leaves the workspace behind that its
  attempt was made for (`PatchesSpent`), so that the node, entered again, can tell by the
  fingerprint that it has applied it; once something is validated only validation commands run
  (`CommandsBound`); what passed has passed on the sources the binding names
  (`SourcesStay`); checkpoints are of the past, and the checkpoint of an update that was
  given up is not the present workspace (`CheckpointsPast`), so that the update is not
  retried from it; validation keys carry the number of an attempt that exists
  (`KeysNumbered`), so that those of a new attempt are fresh; the seals are right.
  `SourcesStay` is suspended while a validation command has failed (`Spoiled`), for it may
  have changed the sources it failed on.
* `Fits(cont.node)` says what each kind of node may find: the last attempt settled outside
  the repair nodes (`AttemptsFit`), nothing validated before the validation
  (`ValidationFits`), fresh keys (`KeysFit`), the groups passed in their order (`OrderFits`),
  the approved workspace from the approval of G11 to the end of the stage (`JudgedFits`).
* `RowFits` is about the row itself and the nodes that take several transactions.

One lemma per action shows that it is preserved; most rest on a few that say what a kind of
step may change (`Stays`, `LastsUnvalidated`, `FitsUnvalidated`, `MarkMoves`,
`AggregateKeeps`, `CommandMoves`).

**`DependencyTransitionProofs`** (any bundle, failures, restarts, foreign changes).
`DependencyCorrect`, `TypeCorrect`, `UpdateRunsDetachedAlways`, `InstallRetriedOnceAlways`,
`ClosedOnExactTreeAlways`, `AcceptedAsClosedAlways`. The phase is derived from rows, so the
invariant is about the rows: each key is requested once and at most one command runs
(`Recorded`); the second install of a member was requested after its first, so that the
latest of its commands tells whether there has been a second (`InstallsInOrder`,
`SecondTry`); until the update is retried, the binding is that of the verified uninstall,
and the retry is queued at most once because the node is entered again only after it has
passed (`UpdateFits`); from the closure to the verdict the binding stays that of the
closure (`ClosureBound`). The module assumes that a bundle with optional members has a
required companion, as the repository's only such bundle does: the code gives the installs of
a bundle of one member keys of another form, so a bundle must not shrink to one on the way.

### What is only model-checked

* All liveness (`EventuallySettled`, `WaiterReleased`, `ComesToRest`): fairness and ENABLED
  are outside the prover.
* That the answers a run gives a proposer occur (`AnswersOccur`), an assumption about the
  instance.

## 6. Not modelled, and the plan

Not modelled, and why:

* *Legacy paths*: rows and attempts from before the present columns
  (`transformer_graph.py:1533–1687`, `2824–2868`, `3451–3539`, the `recover_legacy_*` part of
  `repair_application_service.py:3838–4650`), `_resume_stale_g08_validation`,
  `_recover_pre_materialization_revalidation`. `Continuation` has the one legacy shape that
  the waiter sweep still meets.
* *Without a caller*: packages of G09 and G12, `retrieve` of a lost model answer
  (`repair_application_service.py:4809–4862`), v1 keys of model calls.
* *Data*: the text of prompts, reports and log messages, checksums other than as equality of
  content, JSON layout, artifact files, the merge of registry answers.
* *Operating system*: process trees, pipes, byte-range locks.
* *Read-only or outer parts*: projections, the assistant, the frontend, routes that only call
  one service, the transport inside the model gateway.
* *Delivery and promotion*, the rollback chain of stages, the recovery lineage of a stage's
  parent (`stage_gate_service.py:397–502`), `waiting_retry` of the continuation.

What remains to be done: delivery and promotion as a module of their own if the coverage of
the core stays complete.
