-------------------------- MODULE CommandLifecycle --------------------------
(***************************************************************************)
(* The life of the command executions of one run: CommandExecutorService,  *)
(* JobSupervisorService and the command half of TransformerWorker.         *)
(*                                                                         *)
(* Processes: Transformer workers (poll, claim, run a subprocess, record   *)
(* the result), each with a heartbeat thread; the API process (queue,      *)
(* retry, cancel, start-up orphan sweep).  They share the database only.   *)
(*                                                                         *)
(* A database session reads outside a transaction and writes inside one,   *)
(* and an ORM flush is UPDATE ... WHERE id over the columns that differ    *)
(* from what the session read.  Operations whose read can be stale when    *)
(* they write are a Read step, which takes a copy of the row, and a Write  *)
(* step.  Operations that are one conditional UPDATE are one step.         *)
(*                                                                         *)
(* Time is abstract: a claim or a lease that is live may expire at any     *)
(* moment, a renewal makes it live again.                                  *)
(***************************************************************************)
EXTENDS Integers, FiniteSets

CONSTANTS Workers,             \* Transformer worker processes
          Execs,               \* ids of command_executions rows
          ClaimRetryThreshold, \* _CLAIM_RETRY_THRESHOLD
          RetryBudget,         \* max_attempts of the stage plan's repair policy
          RunStatus,           \* status of the run when its commands are queued
          MaxCrashes,          \* bound on worker crashes
          MaxRequests,         \* bound on cancel_command calls and start-up sweeps
          None

ASSUME ConstantsAssumption ==
  /\ ClaimRetryThreshold \in Nat \ {0} /\ RetryBudget \in Nat \ {0}
  /\ RunStatus \in {"CREATED", "STAGE_CREATED"}
  /\ MaxCrashes \in Nat /\ MaxRequests \in Nat
  /\ None \notin Workers /\ None \notin Execs

VARIABLES exec,     \* command_executions: one row per id
          leases,   \* worker_leases rows of executions
          keys,     \* idempotency keys of the run's command events
          run,      \* status of the migration run
          wk,       \* per worker: its program counter and local variables
          api,      \* the API's cancel and sweep sessions, between read and write
          spawned,  \* history: processes started per execution
          budget    \* crashes, and cancels and sweeps, so far

vars == <<exec, leases, keys, run, wk, api, spawned, budget>>

Active == {"queued", "running"}
Final == {"succeeded", "failed", "timed_out", "cancelled"}
Statuses == {"absent", "interrupted"} \cup Active \cup Final

\* NULL is no status.
ASSUME NoneAssumption == None \notin Statuses

\* _LEGAL_EXECUTION_TRANSITIONS; no row is ever created "pending".
LegalTransitions(s) ==
  CASE s = "queued" -> {"running", "failed", "cancelled"}
    [] s = "running" -> {"succeeded", "failed", "timed_out", "cancelled", "interrupted"}
    [] s = "interrupted" -> {"queued", "failed"}
    [] OTHER -> {}

\* claim_attempt counts claims of this row, tries is attempt_number over retries,
\* exit is the recorded result (commit 1 of _finish_execution).
Row ==
  [status : Statuses, mutating : BOOLEAN, worker : Workers \cup {None},
   claim : {"none", "live", "expired"}, attempt : Nat, cancelReq : BOOLEAN,
   pid : BOOLEAN, exit : Final \cup {None}, recon : BOOLEAN,
   parent : Execs \cup {None}, tries : Nat]

NoRow ==
  [status |-> "absent", mutating |-> FALSE, worker |-> None, claim |-> "none",
   attempt |-> 0, cancelReq |-> FALSE, pid |-> FALSE, exit |-> None,
   recon |-> FALSE, parent |-> None, tries |-> 0]

WorkerPcs ==
  {"idle", "poll", "start", "startWrite", "inputs", "spawn", "running", "finish",
   "evidence", "terminal", "runCancel", "fail", "failWrite", "release"}

IdleWorker ==
  [pc |-> "idle", e |-> None, snap |-> << >>, event |-> FALSE, beat |-> FALSE,
   lease |-> FALSE, res |-> None]

\* What a session keeps of a row it has read; a row has a claim time exactly when it
\* has a worker.
Seen == [status : Statuses, attempt : Nat, owned : BOOLEAN]

See(row) == [status |-> row.status, attempt |-> row.attempt, owned |-> row.worker # None]

\* Copies of some of the rows.
Snapshots == UNION {[S -> Seen] : S \in SUBSET Execs}

Worker == [pc : WorkerPcs, e : Execs \cup {None}, snap : Snapshots, event : BOOLEAN,
           beat : BOOLEAN, lease : BOOLEAN, res : Final \cup {None}]

Api == [cancel : Execs \cup {None}, seen : Seen, sweep : Snapshots, sweeping : BOOLEAN]

IdleApi == [cancel |-> None, seen |-> See(NoRow), sweep |-> << >>, sweeping |-> FALSE]

LeaseRow == [e : Execs, worker : Workers, live : BOOLEAN]

TypeOK ==
  /\ exec \in [Execs -> Row]
  /\ leases \subseteq LeaseRow
  /\ keys \subseteq (Execs \X {"started", "completed", "failed", "reconcile"} \X Nat)
  /\ run \in {"CREATED", "STAGE_CREATED", "CANCELLING", "CANCELLED"}
  /\ wk \in [Workers -> Worker] /\ api \in Api
  /\ spawned \in [Execs -> Nat]
  /\ budget \in [crashes : Nat, requests : Nat]

\* The run as it is when commands are queued; CREATED is the one status of those that
\* cancel_command turns into CANCELLING.
Init ==
  /\ exec = [e \in Execs |-> NoRow]
  /\ leases = {}
  /\ keys = {}
  /\ run = RunStatus
  /\ wk = [w \in Workers |-> IdleWorker]
  /\ api = IdleApi
  /\ spawned = [e \in Execs |-> 0]
  /\ budget = [crashes |-> 0, requests |-> 0]

-----------------------------------------------------------------------------
(* Rows, keys and leases. *)

\* uq_command_executions_active_run: the run has no other active row.
NoOtherActive(e) == \A x \in Execs \ {e} : exec[x].status \notin Active

\* Mutant: the unique index on the event key is missing.
KeyAlwaysFree(k) == TRUE

\* uq_workflow_events_run_key admits an event.
KeyFree(k) == k \notin keys

\* Unexpired leases of the run, of any execution.
LiveLeases == {l \in leases : l.live}

\* acquire_lease refuses while any lease of the run is live; a claim's own is reused.
LeaseAvailable(own) == own \in leases \/ LiveLeases = {}

\* renew_lease accepts the lease: it exists, is this worker's and has not expired.
Renewable(own) == own \in leases

\* release_lease: the lease a worker knows of, expired or not.
HeldLeases(w) == {l \in leases : wk[w].lease /\ l.e = wk[w].e /\ l.worker = w}

Goto(w, pc) == wk' = [wk EXCEPT ![w].pc = pc]

\* ExecutionWorker._record: the result of the call, handed to _finish_execution.
Report(w, r) == wk' = [wk EXCEPT ![w].pc = "finish", ![w].res = r]

-----------------------------------------------------------------------------
(* The API: queue, retry. *)

\* queue_authorized_command, authorization and versions accepted: a fresh row.
QueueCommand(e, mutating) ==
  /\ exec[e].status = "absent"
  /\ NoOtherActive(e)
  /\ exec' = [exec EXCEPT ![e] = [NoRow EXCEPT !.status = "queued",
                                               !.mutating = mutating, !.tries = 1]]
  /\ UNCHANGED <<leases, keys, run, wk, api, spawned, budget>>

\* _retry_budget: the plan's repair policy leaves attempts.
RetriesLeft(f) == f.tries < RetryBudget

\* queue_retry_execution accepts a successor of f.
Retryable(f, recovered) ==
  /\ \/ f.status = "failed"
     \/ f.status \in {"interrupted", "timed_out"} /\ f.recon
  /\ RetriesLeft(f)
  /\ (f.pid \/ f.exit # None) => recovered

\* queue_retry_execution; workspace_recovered is the caller's evidence.
QueueRetry(f, e, recovered) ==
  /\ exec[e].status = "absent" /\ exec[f].status # "absent"
  /\ Retryable(exec[f], recovered)
  /\ \A x \in Execs : exec[x].status \notin Active
  /\ exec' = [exec EXCEPT ![e] = [NoRow EXCEPT !.status = "queued",
                                               !.mutating = exec[f].mutating,
                                               !.parent = f,
                                               !.tries = exec[f].tries + 1]]
  /\ UNCHANGED <<leases, keys, run, wk, api, spawned, budget>>

-----------------------------------------------------------------------------
(* reconcile_expired_executions. *)

\* Mutant: claims lost before the command started are not looked for.
ExpiredRunningOnly == {e \in Execs : /\ exec[e].status = "running"
                                     /\ exec[e].worker # None
                                     /\ exec[e].claim = "expired"}

\* Rows a reconciliation selects.
Expired == {e \in Execs : /\ exec[e].status \in Active
                          /\ exec[e].worker # None
                          /\ exec[e].claim = "expired"}

Snapshot(S) == [e \in S |-> See(exec[e])]

\* The claim-loss budget of the row is used up.
ClaimsExhausted(seen) == seen.attempt >= ClaimRetryThreshold

\* Mutant: a lost mutating command is requeued like a read-only one.
RecoveredAsReadOnly(seen, mutating) ==
  IF ClaimsExhausted(seen) THEN "failed" ELSE "queued"

\* Status given to a row whose claim was lost.
RecoveredStatus(seen, mutating) ==
  CASE ClaimsExhausted(seen) -> "failed"
    [] ~ ClaimsExhausted(seen) /\ seen.status = "running" /\ mutating -> "interrupted"
    [] OTHER -> "queued"

\* The flush: only columns that differ from the copy are written.
Recovered(row, seen) ==
  LET to == RecoveredStatus(seen, row.mutating) IN
  [row EXCEPT !.worker = None, !.claim = "none",
              !.status = IF to = seen.status THEN row.status ELSE to,
              !.recon = IF to = "interrupted" THEN TRUE ELSE row.recon]

ReconcileKeys(snap) == {<<e, "reconcile", snap[e].attempt>> : e \in DOMAIN snap}

ReconciledRows(snap) ==
  [e \in Execs |-> IF e \in DOMAIN snap THEN Recovered(exec[e], snap[e]) ELSE exec[e]]

ReconciledLeases(snap) == {l \in leases : l.live \/ l.e \notin DOMAIN snap}

\* A flush that would give the run a second active row breaks the index.
IndexHolds(rows) ==
  \A e, f \in Execs : (rows[e].status \in Active /\ rows[f].status \in Active) => e = f

\* recover_command_orphans when the API starts: read ...
SweepRead ==
  /\ budget.requests < MaxRequests /\ ~ api.sweeping
  /\ api' = [api EXCEPT !.sweep = Snapshot(Expired), !.sweeping = TRUE]
  /\ budget' = [budget EXCEPT !.requests = @ + 1]
  /\ UNCHANGED <<exec, leases, keys, run, wk, spawned>>

\* ... and write; a key or index conflict rolls the transaction back.
SweepWrite ==
  /\ api.sweeping
  /\ api' = [api EXCEPT !.sweep = << >>, !.sweeping = FALSE]
  /\ IF /\ \A k \in ReconcileKeys(api.sweep) : KeyFree(k)
        /\ IndexHolds(ReconciledRows(api.sweep))
       THEN /\ exec' = ReconciledRows(api.sweep)
            /\ leases' = ReconciledLeases(api.sweep)
            /\ keys' = keys \cup ReconcileKeys(api.sweep)
       ELSE UNCHANGED <<exec, leases, keys>>
  /\ UNCHANGED <<run, wk, spawned, budget>>

-----------------------------------------------------------------------------
(* TransformerWorker.run_once: reconcile, then claim the queued command. *)

PollRead(w) ==
  /\ wk[w].pc = "idle"
  /\ wk' = [wk EXCEPT ![w].pc = "poll", ![w].snap = Snapshot(Expired)]
  /\ UNCHANGED <<exec, leases, keys, run, api, spawned, budget>>

\* claim_next_execution's WHERE clause.  Its alternative, a claim expired at the time
\* run_once began, never holds here: the reconciliation of the same run_once used the
\* same time and has cleared every such claim.
Claimable(row) == row.status = "queued" /\ row.worker = None

\* claim_next_execution on the rows the reconciliation left.
Claimed(row, w) ==
  [row EXCEPT !.worker = w, !.claim = "live", !.attempt = @ + 1]

\* The poll's transaction: reconcile the rows read, claim the oldest queued row.
PollWrite(w) ==
  LET snap == wk[w].snap
      rows == ReconciledRows(snap)
      kept == ReconciledLeases(snap)
  IN
  /\ wk[w].pc = "poll"
  /\ \A k \in ReconcileKeys(snap) : KeyFree(k)
  /\ IndexHolds(rows)
  /\ keys' = keys \cup ReconcileKeys(snap)
  /\ \/ /\ \A e \in Execs : ~ Claimable(rows[e])
        /\ exec' = rows
        /\ leases' = kept
        /\ wk' = [wk EXCEPT ![w] = IdleWorker]
     \/ \E e \in Execs :
          /\ Claimable(rows[e])
          /\ exec' = [rows EXCEPT ![e] = Claimed(rows[e], w)]
          /\ leases' = {l \in kept : l.live \/ l.e # e}
                       \cup {[e |-> e, worker |-> w, live |-> TRUE]}
          /\ wk' = [wk EXCEPT ![w] = [IdleWorker EXCEPT !.pc = "start", !.e = e]]
  /\ UNCHANGED <<run, api, spawned, budget>>

\* The poll's transaction fails and rolls back; run_forever tries again.
PollConflict(w) ==
  /\ wk[w].pc = "poll"
  /\ \/ \E k \in ReconcileKeys(wk[w].snap) : ~ KeyFree(k)
     \/ ~ IndexHolds(ReconciledRows(wk[w].snap))
  /\ wk' = [wk EXCEPT ![w] = IdleWorker]
  /\ UNCHANGED <<exec, leases, keys, run, api, spawned, budget>>

-----------------------------------------------------------------------------
(* _run_execution. *)

\* First transaction, read: the row must still be queued and claimed by w.
StartRead(w) ==
  LET e == wk[w].e IN
  /\ wk[w].pc = "start"
  /\ IF exec[e].status = "queued" /\ exec[e].worker = w
       THEN Goto(w, "startWrite")
       ELSE wk' = [wk EXCEPT ![w] = IdleWorker]
  /\ UNCHANGED <<exec, leases, keys, run, api, spawned, budget>>

\* First transaction, write: status and the started event; worker_id equals what
\* was read, so the flush does not write it.
StartWrite(w) ==
  LET e == wk[w].e IN
  /\ wk[w].pc = "startWrite"
  /\ KeyFree(<<e, "started", 0>>) /\ NoOtherActive(e)
  /\ exec' = [exec EXCEPT ![e].status = "running"]
  /\ keys' = keys \cup {<<e, "started", 0>>}
  /\ Goto(w, "inputs")
  /\ UNCHANGED <<leases, run, api, spawned, budget>>

\* The started event or the active-run index is refused: the exception leaves
\* run_once, the claim stays.
StartConflict(w) ==
  LET e == wk[w].e IN
  /\ wk[w].pc = "startWrite"
  /\ ~ (KeyFree(<<e, "started", 0>>) /\ NoOtherActive(e))
  /\ wk' = [wk EXCEPT ![w] = IdleWorker]
  /\ UNCHANGED <<exec, leases, keys, run, api, spawned, budget>>

\* Second transaction: reuse the claim's lease or acquire one, note a cancellation.
ReadInputs(w) ==
  LET e == wk[w].e
      own == [e |-> e, worker |-> w, live |-> TRUE]
  IN
  /\ wk[w].pc = "inputs"
  /\ LeaseAvailable(own)
  /\ leases' = leases \cup {own}
  /\ wk' = [wk EXCEPT ![w].pc = "spawn", ![w].event = exec[e].cancelReq,
                      ![w].beat = TRUE, ![w].lease = TRUE]
  /\ UNCHANGED <<exec, keys, run, api, spawned, budget>>

\* Another lease of the run is live, or the profile or run root is not usable.
InputsRejected(w) ==
  /\ wk[w].pc = "inputs"
  /\ Goto(w, "fail")
  /\ UNCHANGED <<exec, leases, keys, run, api, spawned, budget>>

\* Popen and persist_pid: recorded only while the row is running and claimed by w;
\* otherwise the process tree is terminated and the claim reported stale.
Spawn(w) ==
  LET e == wk[w].e
      owned == exec[e].status = "running" /\ exec[e].worker = w
  IN
  /\ wk[w].pc = "spawn"
  /\ spawned' = [spawned EXCEPT ![e] = @ + 1]
  /\ exec' = IF owned THEN [exec EXCEPT ![e].pid = TRUE] ELSE exec
  /\ Goto(w, IF owned THEN "running" ELSE "fail")
  /\ UNCHANGED <<leases, keys, run, api, budget>>

\* The executables of the profile cannot be resolved: the exception path.
RuntimeUnbound(w) ==
  /\ wk[w].pc = "spawn"
  /\ Goto(w, "fail")
  /\ UNCHANGED <<exec, leases, keys, run, api, spawned, budget>>

\* CommandPolicy.validate refuses the command: the worker reports a rejected result,
\* which _finish_execution records as failed.
PolicyRejects(w) ==
  /\ wk[w].pc = "spawn"
  /\ Report(w, "failed")
  /\ UNCHANGED <<exec, leases, keys, run, api, spawned, budget>>

\* The bound executable changed since it was validated, Popen fails, or the job object
\* cannot take the started process, which is killed: an OSError, which the worker
\* reports as a failed result.
SpawnFails(w) ==
  LET e == wk[w].e IN
  /\ wk[w].pc = "spawn"
  /\ spawned' \in {spawned, [spawned EXCEPT ![e] = @ + 1]}
  /\ Report(w, "failed")
  /\ UNCHANGED <<exec, leases, keys, run, api, budget>>

\* One turn of the heartbeat thread: renew the lease, extend the claim with a
\* conditional UPDATE, pass a cancellation on; any failure cancels and ends it.
Heartbeat(w) ==
  LET e == wk[w].e
      own == [e |-> e, worker |-> w, live |-> TRUE]
  IN
  /\ wk[w].beat
  /\ \/ /\ Renewable(own)
        /\ exec' = IF exec[e].worker = w /\ exec[e].status = "running"
                     THEN [exec EXCEPT ![e].claim = "live"] ELSE exec
        /\ wk' = [wk EXCEPT ![w].event = @ \/ exec[e].cancelReq]
     \/ /\ ~ Renewable(own)
        /\ wk' = [wk EXCEPT ![w].event = TRUE, ![w].beat = FALSE]
        /\ UNCHANGED exec
  /\ UNCHANGED <<leases, keys, run, api, spawned, budget>>

\* An interactive Angular prompt was captured: the process is stopped.
CapturePrompt(w) ==
  /\ wk[w].pc = "running" /\ exec[wk[w].e].mutating
  /\ exec[wk[w].e].status \notin Final
  /\ wk' = [wk EXCEPT ![w].event = TRUE]
  /\ UNCHANGED <<exec, leases, keys, run, api, spawned, budget>>

\* Output of a process whose row is already final is refused by append_chunk.
OutputRefused(w) ==
  /\ wk[w].pc = "running" /\ exec[wk[w].e].status \in Final
  /\ Goto(w, "fail")
  /\ UNCHANGED <<exec, leases, keys, run, api, spawned, budget>>

\* The supervised process ends: by itself, at its deadline, or cancelled.
ProcessEnds(w) ==
  /\ wk[w].pc = "running"
  /\ \E r \in Final :
       /\ r = "cancelled" => wk[w].event
       /\ Report(w, r)
  /\ UNCHANGED <<exec, leases, keys, run, api, spawned, budget>>

-----------------------------------------------------------------------------
(* _finish_execution and the exception path. *)

\* The row is read once; a final row must carry this very result.
FinishRead(w) ==
  LET e == wk[w].e IN
  /\ wk[w].pc = "finish"
  /\ wk' = CASE exec[e].status \in Final /\ exec[e].exit = wk[w].res
                  /\ exec[e].status = wk[w].res -> [wk EXCEPT ![w].pc = "release"]
             [] exec[e].status \in Final /\ ~ (exec[e].exit = wk[w].res
                  /\ exec[e].status = wk[w].res) -> [wk EXCEPT ![w].pc = "fail"]
             [] OTHER -> [wk EXCEPT ![w].pc = "evidence", ![w].snap = Snapshot({e})]
  /\ UNCHANGED <<exec, leases, keys, run, api, spawned, budget>>

\* Mutant: the evidence is written together with a later transaction that may fail.
EvidenceNotCommitted(w) ==
  /\ wk[w].pc = "evidence"
  /\ Goto(w, "terminal")
  /\ UNCHANGED <<exec, leases, keys, run, api, spawned, budget>>

\* The row with the command log, its artifacts and the exit code of result r; a
\* mutating command that was cut short needs reconstruction.
WithEvidence(row, r) ==
  [row EXCEPT !.exit = r,
              !.recon = row.recon \/ (r \in {"timed_out", "cancelled"} /\ row.mutating)]

\* Commit 1: the evidence of the result.
CommitEvidence(w) ==
  LET e == wk[w].e IN
  /\ wk[w].pc = "evidence"
  /\ exec' = [exec EXCEPT ![e] = WithEvidence(exec[e], wk[w].res)]
  /\ Goto(w, "terminal")
  /\ UNCHANGED <<leases, keys, run, api, spawned, budget>>

\* Commit 2: the terminal transition, judged on the row read at FinishRead (the
\* session keeps it across commit 1), and the completed event.
CommitTerminal(w) ==
  LET e == wk[w].e
      legal == wk[w].res \in LegalTransitions(wk[w].snap[e].status)
  IN
  /\ wk[w].pc = "terminal"
  /\ IF legal /\ KeyFree(<<e, "completed", 0>>)
       THEN /\ exec' = [exec EXCEPT ![e].status = wk[w].res]
            /\ keys' = keys \cup {<<e, "completed", 0>>}
            /\ Goto(w, IF wk[w].res \in {"cancelled", "timed_out"}
                         THEN "runCancel" ELSE "release")
       ELSE Goto(w, "fail") /\ UNCHANGED <<exec, keys>>
  /\ UNCHANGED <<leases, run, api, spawned, budget>>

\* The run's own compare-and-set, in a transaction of its own; a stale version is
\* swallowed.
CancelRun(w) ==
  /\ wk[w].pc = "runCancel"
  /\ run' \in IF run = "CANCELLING" THEN {"CANCELLED", run} ELSE {run}
  /\ Goto(w, "release")
  /\ UNCHANGED <<exec, leases, keys, api, spawned, budget>>

\* The except block: re-read the row; a final row is left alone.
FailRead(w) ==
  LET e == wk[w].e IN
  /\ wk[w].pc = "fail"
  /\ IF exec[e].status \in Final
       THEN Goto(w, "release")
       ELSE Goto(w, "failWrite")
  /\ UNCHANGED <<exec, leases, keys, run, api, spawned, budget>>

\* _fail_execution: queued, running and interrupted rows may all become failed.
FailWrite(w) ==
  LET e == wk[w].e IN
  /\ wk[w].pc = "failWrite"
  /\ IF KeyFree(<<e, "failed", 0>>)
       THEN /\ exec' = [exec EXCEPT ![e].status = "failed"]
            /\ keys' = keys \cup {<<e, "failed", 0>>}
       ELSE UNCHANGED <<exec, keys>>
  /\ Goto(w, "release")
  /\ UNCHANGED <<leases, run, api, spawned, budget>>

\* The finally block: stop the heartbeat, delete the lease this call knows of.
\* run_once then wakes the command's waiter (module Continuation) and polls again.
Release(w) ==
  /\ wk[w].pc = "release"
  /\ leases' = leases \ HeldLeases(w)
  /\ wk' = [wk EXCEPT ![w] = IdleWorker]
  /\ UNCHANGED <<exec, keys, run, api, spawned, budget>>

-----------------------------------------------------------------------------
(* cancel_command, crashes and time. *)

CancelRead(e) ==
  /\ api.cancel = None /\ budget.requests < MaxRequests
  /\ exec[e].status \in Active
  /\ api' = [api EXCEPT !.cancel = e, !.seen = See(exec[e])]
  /\ budget' = [budget EXCEPT !.requests = @ + 1]
  /\ UNCHANGED <<exec, leases, keys, run, wk, spawned>>

\* A row read as queued is cancelled on the spot; one read as running is marked,
\* and the run moves to CANCELLING if its status allows.  The in-process signal
\* does not reach a worker in another process.
CancelWrite ==
  LET e == api.cancel
      queued == api.seen.status = "queued"
  IN
  /\ e # None
  /\ exec' = IF queued
       THEN [exec EXCEPT ![e].status = "cancelled", ![e].cancelReq = TRUE,
               ![e].worker = IF api.seen.owned THEN None ELSE @,
               ![e].claim = IF api.seen.owned THEN "none" ELSE @]
       ELSE [exec EXCEPT ![e].cancelReq = TRUE]
  /\ run' = IF ~ queued /\ run = "CREATED" THEN "CANCELLING" ELSE run
  /\ api' = [api EXCEPT !.cancel = None, !.seen = See(NoRow)]
  /\ UNCHANGED <<leases, keys, wk, spawned, budget>>

\* A worker process dies; a new one takes its place with nothing in memory.
Crash(w) ==
  /\ budget.crashes < MaxCrashes /\ wk[w].pc # "idle"
  /\ wk' = [wk EXCEPT ![w] = IdleWorker]
  /\ budget' = [budget EXCEPT !.crashes = @ + 1]
  /\ UNCHANGED <<exec, leases, keys, run, api, spawned>>

ExpireClaim(e) ==
  /\ exec[e].claim = "live"
  /\ exec' = [exec EXCEPT ![e].claim = "expired"]
  /\ UNCHANGED <<leases, keys, run, wk, api, spawned, budget>>

\* A lease never ends before the claim taken or renewed with it.
ExpireLease(l) ==
  /\ l.live /\ ~ (exec[l.e].worker = l.worker /\ exec[l.e].claim = "live")
  /\ leases' = (leases \ {l}) \cup {[l EXCEPT !.live = FALSE]}
  /\ UNCHANGED <<exec, keys, run, wk, api, spawned, budget>>

-----------------------------------------------------------------------------
RunExecution(w) ==
  \/ StartRead(w) \/ StartWrite(w) \/ StartConflict(w)
  \/ ReadInputs(w) \/ InputsRejected(w) \/ Spawn(w)
  \/ RuntimeUnbound(w) \/ PolicyRejects(w) \/ SpawnFails(w)
  \/ CapturePrompt(w) \/ OutputRefused(w) \/ ProcessEnds(w)
  \/ FinishRead(w) \/ CommitEvidence(w) \/ CommitTerminal(w) \/ CancelRun(w)
  \/ FailRead(w) \/ FailWrite(w) \/ Release(w)

Poll(w) == PollRead(w) \/ PollWrite(w) \/ PollConflict(w)

ApiStep ==
  \/ \E e \in Execs, m \in BOOLEAN : QueueCommand(e, m)
  \/ \E f, e \in Execs, recovered \in BOOLEAN : QueueRetry(f, e, recovered)
  \/ SweepRead \/ SweepWrite
  \/ \E e \in Execs : CancelRead(e)
  \/ CancelWrite

Next ==
  \/ ApiStep
  \/ \E w \in Workers : Poll(w) \/ RunExecution(w) \/ Heartbeat(w) \/ Crash(w)
  \/ \E e \in Execs : ExpireClaim(e)
  \/ \E l \in leases : ExpireLease(l)

Spec == Init /\ [][Next]_vars

\* No worker is working on e; its claim can only run out.
Abandoned(e) == \A w \in Workers : wk[w].e # e

\* A worker process keeps looping and every supervised process ends (it has a
\* deadline); time passes, so an abandoned claim runs out.  Users queue, retry and
\* cancel, processes crash and print as they like.
Fairness ==
  /\ \A w \in Workers : WF_vars(Poll(w)) /\ WF_vars(RunExecution(w))
  /\ \A e \in Execs : WF_vars(ExpireClaim(e) /\ Abandoned(e))
  /\ WF_vars(SweepWrite) /\ WF_vars(CancelWrite)

FairSpec == Spec /\ Fairness

-----------------------------------------------------------------------------
(* Properties. *)

\* However often an execution's claim is lost, reconciled and taken again, by
\* however many workers, _run_execution starts at most one process for it.
SpawnedOnce == \A e \in Execs : spawned[e] <= 1

\* "Command evidence is durable before the terminal transition": an execution that
\* succeeded has the evidence of that success, whichever worker recorded it and
\* whatever crashed in between.
SuccessHasEvidence ==
  \A e \in Execs : exec[e].status = "succeeded" => exec[e].exit = "succeeded"

\* A mutating command for which a process was started never returns to the queue,
\* so an uncertain mutation is not rerun: reconcile_expired_executions and the
\* exception paths leave it for reconstruction or fail it.
MutationsNotRequeued ==
  [][\A e \in Execs : (exec[e].mutating /\ spawned[e] > 0
                         /\ exec[e].status # "queued")
                       => exec'[e].status # "queued"]_vars

\* Every queued or running command comes to rest: it reaches a final status or is
\* left interrupted for reconstruction, although workers crash and claims run out.
EventuallySettled ==
  \A e \in Execs : exec[e].status \in Active
                    ~> exec[e].status \in Final \cup {"interrupted"}
=============================================================================
