----------------------- MODULE CommandLifecycleProofs -----------------------
(***************************************************************************)
(* Proofs about CommandLifecycle, for any number of workers, executions,   *)
(* crashes and requests.                                                   *)
(***************************************************************************)
EXTENDS CommandLifecycle, TLAPS

-----------------------------------------------------------------------------
(* Rows, copies of rows and what a reconciliation makes of them. *)

\* What a session has read is typed.
LEMMA SeeType ==
  ASSUME NEW row \in Row
  PROVE  See(row) \in Seen
  BY DEF See, Seen, Row

\* A copy of some rows is typed.
LEMMA SnapshotType ==
  ASSUME exec \in [Execs -> Row], NEW S \in SUBSET Execs
  PROVE  /\ Snapshot(S) \in Snapshots
         /\ DOMAIN Snapshot(S) = S
         /\ \A e \in S : Snapshot(S)[e] = See(exec[e])
<1>1. Snapshot(S) \in [S -> Seen]
  BY SeeType DEF Snapshot
<1> QED
  BY <1>1 DEF Snapshot, Snapshots

\* The domain of a copy, and its rows.
LEMMA SnapshotFields ==
  ASSUME NEW snap \in Snapshots
  PROVE  /\ DOMAIN snap \subseteq Execs
         /\ \A e \in DOMAIN snap : snap[e] \in Seen
  BY DEF Snapshots

LEMMA NoSnapshot == << >> \in Snapshots
<1>1. << >> \in [{} -> Seen]
  OBVIOUS
<1> QED
  BY <1>1 DEF Snapshots

LEMMA IdleWorkerType == IdleWorker \in Worker
  BY NoSnapshot DEF IdleWorker, Worker, WorkerPcs

LEMMA NoRowType == NoRow \in Row
  BY DEF NoRow, Row, Statuses

\* A recovered row keeps what its process has left, and only a row that was queued, or
\* one read as running that does not mutate, ends up in the queue.
LEMMA RecoveredFacts ==
  ASSUME NEW row \in Row, NEW seen \in Seen
  PROVE  /\ Recovered(row, seen) \in Row
         /\ Recovered(row, seen).exit = row.exit
         /\ Recovered(row, seen).mutating = row.mutating
         /\ Recovered(row, seen).status \in {row.status, "failed", "interrupted", "queued"}
         /\ (Recovered(row, seen).status = "queued" /\ row.status # "queued"
                /\ seen.status \in Active) => ~ row.mutating
<1> DEFINE to == RecoveredStatus(seen, row.mutating)
           r == Recovered(row, seen)
<1>1. to \in {"failed", "interrupted", "queued"}
  BY DEF RecoveredStatus
<1>2. r = [row EXCEPT !.worker = None, !.claim = "none",
              !.status = IF to = seen.status THEN row.status ELSE to,
              !.recon = IF to = "interrupted" THEN TRUE ELSE row.recon]
  BY DEF Recovered
<1>3. to = "queued" /\ seen.status = "running" => ~ row.mutating
  BY DEF RecoveredStatus
<1> HIDE DEF to
<1>4. r.status = IF to = seen.status THEN row.status ELSE to
  BY <1>2 DEF Row
<1>5. r \in Row
  BY <1>1, <1>2 DEF Row, Statuses, Active, Final
<1>6. r.exit = row.exit /\ r.mutating = row.mutating
  BY <1>2 DEF Row
<1>7. (r.status = "queued" /\ row.status # "queued" /\ seen.status \in Active)
        => ~ row.mutating
  BY <1>1, <1>3, <1>4 DEF Active
<1> QED
  BY <1>1, <1>4, <1>5, <1>6, <1>7

\* Reconciled rows are recovered rows or as they were.
LEMMA ReconciledFacts ==
  ASSUME exec \in [Execs -> Row], NEW snap \in Snapshots
  PROVE  /\ ReconciledRows(snap) \in [Execs -> Row]
         /\ \A e \in Execs :
              /\ ReconciledRows(snap)[e].exit = exec[e].exit
              /\ ReconciledRows(snap)[e].mutating = exec[e].mutating
              /\ ReconciledRows(snap)[e].status
                   \in {exec[e].status, "failed", "interrupted", "queued"}
              /\ (ReconciledRows(snap)[e].status = "queued" /\ exec[e].status # "queued"
                    /\ \A x \in DOMAIN snap : snap[x].status \in Active)
                   => ~ exec[e].mutating
  BY RecoveredFacts, SnapshotFields DEF ReconciledRows

-----------------------------------------------------------------------------
(* The inductive invariant. *)

\* The started event of e is in the log.
Started(e) == <<e, "started", 0>> \in keys

\* The worker has started e and has not yet recorded how it ended.
Supervises(w) ==
  wk[w].pc \in {"inputs", "spawn", "running", "finish", "evidence", "terminal"}

\* Whoever works on a command knows which.
WorkHasCommand ==
  \A w \in Workers : wk[w].pc \notin {"idle", "poll"} \/ wk[w].beat => wk[w].e \in Execs

\* A reconciliation acts on rows it has read as queued or running.
ReadsWereActive ==
  /\ \A w \in Workers : wk[w].pc = "poll" =>
       \A e \in DOMAIN wk[w].snap : wk[w].snap[e].status \in Active
  /\ \A e \in DOMAIN api.sweep : api.sweep[e].status \in Active

\* The started event admits one worker per command, however often it is claimed.
OneSupervisor ==
  \A w \in Workers : Supervises(w) =>
    /\ Started(wk[w].e) /\ exec[wk[w].e].status # "absent"
    /\ \A v \in Workers \ {w} : Supervises(v) => wk[v].e # wk[w].e

\* That worker starts the only process.
ProcessesStarted ==
  /\ \A w \in Workers : wk[w].pc \in {"inputs", "spawn"} => spawned[wk[w].e] = 0
  /\ SpawnedOnce
  /\ \A e \in Execs : spawned[e] > 0 => Started(e) /\ exec[e].status # "absent"

\* The evidence a worker is about to act on is the one it has committed.
EvidenceCommitted ==
  /\ \A w \in Workers : wk[w].pc = "terminal" => exec[wk[w].e].exit = wk[w].res
  /\ \A e \in Execs : exec[e].status = "succeeded" =>
       /\ exec[e].exit = "succeeded" /\ Started(e)
       /\ \A w \in Workers : Supervises(w) => wk[w].e # e

SafetyInv ==
  /\ TypeOK /\ WorkHasCommand /\ ReadsWereActive
  /\ OneSupervisor /\ ProcessesStarted /\ EvidenceCommitted

-----------------------------------------------------------------------------
(* Type correctness. *)

\* The fields of a worker's state.
LEMMA WorkerFields ==
  ASSUME TypeOK, NEW w \in Workers
  PROVE  /\ wk[w] \in Worker /\ wk[w].pc \in WorkerPcs /\ wk[w].e \in Execs \cup {None}
         /\ wk[w].snap \in Snapshots /\ wk[w].res \in Final \cup {None}
         /\ wk[w].event \in BOOLEAN /\ wk[w].beat \in BOOLEAN /\ wk[w].lease \in BOOLEAN
  BY DEF TypeOK, Worker

\* Moving a worker to another program counter.
LEMMA GotoType ==
  ASSUME TypeOK, NEW w \in Workers, NEW pc \in WorkerPcs, Goto(w, pc)
  PROVE  wk' \in [Workers -> Worker]
  BY DEF TypeOK, Goto, Worker

LEMMA ReportType ==
  ASSUME TypeOK, NEW w \in Workers, NEW r \in Final, Report(w, r)
  PROVE  wk' \in [Workers -> Worker]
<1>1. wk' = [wk EXCEPT ![w] = [wk[w] EXCEPT !.pc = "finish", !.res = r]]
  BY DEF Report
<1>2. [wk[w] EXCEPT !.pc = "finish", !.res = r] \in Worker
  BY WorkerFields DEF Worker, WorkerPcs
<1> QED
  BY <1>1, <1>2 DEF TypeOK

LEMMA IdleType ==
  ASSUME TypeOK, NEW w \in Workers, wk' = [wk EXCEPT ![w] = IdleWorker]
  PROVE  wk' \in [Workers -> Worker]
  BY IdleWorkerType DEF TypeOK

\* The rows a reconciliation reads are rows.
LEMMA ExpiredRows == Expired \subseteq Execs
  BY DEF Expired

\* The keys and leases a reconciliation writes are typed.
LEMMA ReconciledSets ==
  ASSUME TypeOK, NEW snap \in Snapshots
  PROVE  /\ ReconcileKeys(snap)
              \subseteq (Execs \X {"started", "completed", "failed", "reconcile"} \X Nat)
         /\ ReconciledLeases(snap) \subseteq LeaseRow
<1>1. \A e \in DOMAIN snap : e \in Execs /\ snap[e].attempt \in Nat
  BY SnapshotFields DEF Seen
<1>2. \A k \in ReconcileKeys(snap) :
        k \in (Execs \X {"started", "completed", "failed", "reconcile"} \X Nat)
  BY <1>1 DEF ReconcileKeys
<1> QED
  BY <1>2 DEF ReconciledLeases, TypeOK

\* Every step keeps the state well typed.
LEMMA TypeStep ==
  ASSUME TypeOK, WorkHasCommand, Next
  PROVE  TypeOK'
<1> USE ConstantsAssumption
<1>0. /\ exec \in [Execs -> Row] /\ wk \in [Workers -> Worker] /\ api \in Api
      /\ leases \subseteq LeaseRow /\ spawned \in [Execs -> Nat]
  BY DEF TypeOK
<1>1. ASSUME NEW e \in Execs, NEW m \in BOOLEAN, QueueCommand(e, m) PROVE TypeOK'
  <2>1. exec' \in [Execs -> Row]
    BY <1>0, <1>1 DEF QueueCommand, NoRow, Row, Statuses, Active
  <2> QED
    BY <1>1, <2>1 DEF QueueCommand, TypeOK
<1>2. ASSUME NEW f \in Execs, NEW e \in Execs, NEW r \in BOOLEAN, QueueRetry(f, e, r)
      PROVE  TypeOK'
  <2>1. exec[f] \in Row /\ exec[f].tries + 1 \in Nat /\ exec[f].mutating \in BOOLEAN
    BY <1>0 DEF Row
  <2>2. exec' \in [Execs -> Row]
    BY <1>0, <1>2, <2>1 DEF QueueRetry, NoRow, Row, Statuses, Active
  <2> QED
    BY <1>2, <2>2 DEF QueueRetry, TypeOK
<1>3. ASSUME SweepRead PROVE TypeOK'
  <2>1. Snapshot(Expired) \in Snapshots
    BY <1>0, ExpiredRows, SnapshotType
  <2>2. api' \in Api
    BY <1>0, <1>3, <2>1 DEF SweepRead, Api
  <2>3. budget' \in [crashes : Nat, requests : Nat]
    BY <1>3 DEF SweepRead, TypeOK
  <2> QED
    BY <1>3, <2>2, <2>3 DEF SweepRead, TypeOK
<1>4. ASSUME SweepWrite PROVE TypeOK'
  <2>1. api.sweep \in Snapshots
    BY <1>0 DEF Api
  <2>2. api' \in Api
    BY <1>0, <1>4, NoSnapshot DEF SweepWrite, Api
  <2>3. exec' \in [Execs -> Row]
    BY <1>0, <1>4, <2>1, ReconciledFacts DEF SweepWrite
  <2>4. /\ leases' \subseteq LeaseRow
        /\ keys' \subseteq (Execs \X {"started", "completed", "failed", "reconcile"} \X Nat)
    BY <1>4, <2>1, ReconciledSets DEF SweepWrite, TypeOK
  <2> QED
    BY <1>4, <2>2, <2>3, <2>4 DEF SweepWrite, TypeOK
<1>5. ASSUME NEW e \in Execs, CancelRead(e) PROVE TypeOK'
  <2>1. api' \in Api
    BY <1>0, <1>5, SeeType DEF CancelRead, Api
  <2>2. budget' \in [crashes : Nat, requests : Nat]
    BY <1>5 DEF CancelRead, TypeOK
  <2> QED
    BY <1>5, <2>1, <2>2 DEF CancelRead, TypeOK
<1>6. ASSUME CancelWrite PROVE TypeOK'
  <2>1. api' \in Api
    BY <1>0, <1>6, SeeType, NoRowType DEF CancelWrite, Api
  <2>2. api.cancel \in Execs
    BY <1>0, <1>6 DEF CancelWrite, Api
  <2>3. exec' \in [Execs -> Row]
    <3> DEFINE c == api.cancel
               asked == [exec[c] EXCEPT !.cancelReq = TRUE]
               ended == [exec[c] EXCEPT !.status = "cancelled", !.cancelReq = TRUE,
                           !.worker = IF api.seen.owned THEN None ELSE @,
                           !.claim = IF api.seen.owned THEN "none" ELSE @]
    <3>1. exec[c] \in Row
      BY <1>0, <2>2
    <3>2. asked \in Row
      BY <3>1 DEF Row
    <3>3. ended \in Row
      BY <3>1 DEF Row, Statuses, Final
    <3>4. exec' = [exec EXCEPT ![c] = ended] \/ exec' = [exec EXCEPT ![c] = asked]
      BY <1>6 DEF CancelWrite
    <3> HIDE DEF c, asked, ended
    <3> QED
      BY <1>0, <2>2, <3>2, <3>3, <3>4 DEF c
  <2>4. run' \in {"CREATED", "STAGE_CREATED", "CANCELLING", "CANCELLED"}
    BY <1>6 DEF CancelWrite, TypeOK
  <2> QED
    BY <1>6, <2>1, <2>3, <2>4 DEF CancelWrite, TypeOK
<1>7. ASSUME NEW w \in Workers, Poll(w) PROVE TypeOK'
  <2>1. CASE PollRead(w)
    <3>1. Snapshot(Expired) \in Snapshots
      BY <1>0, ExpiredRows, SnapshotType
    <3>2. wk' \in [Workers -> Worker]
      <4>1. wk' = [wk EXCEPT ![w] = [wk[w] EXCEPT !.pc = "poll", !.snap = Snapshot(Expired)]]
        BY <2>1 DEF PollRead
      <4>2. [wk[w] EXCEPT !.pc = "poll", !.snap = Snapshot(Expired)] \in Worker
        BY <3>1, WorkerFields DEF Worker, WorkerPcs
      <4> QED
        BY <1>0, <4>1, <4>2
    <3> QED
      BY <2>1, <3>2 DEF PollRead, TypeOK
  <2>2. CASE PollWrite(w)
    <3> DEFINE snap == wk[w].snap
               rows == ReconciledRows(snap)
               kept == ReconciledLeases(snap)
    <3>1. snap \in Snapshots
      BY WorkerFields
    <3>2. rows \in [Execs -> Row] /\ kept \subseteq LeaseRow
      BY <1>0, <3>1, ReconciledFacts, ReconciledSets
    <3>3. keys' \subseteq (Execs \X {"started", "completed", "failed", "reconcile"} \X Nat)
      BY <2>2, <3>1, ReconciledSets DEF PollWrite, TypeOK
    <3> HIDE DEF snap, rows, kept
    <3>4. CASE exec' = rows /\ leases' = kept /\ wk' = [wk EXCEPT ![w] = IdleWorker]
      BY <2>2, <3>2, <3>3, <3>4, IdleType DEF PollWrite, TypeOK
    <3>5. CASE \E e \in Execs :
                 /\ exec' = [rows EXCEPT ![e] = Claimed(rows[e], w)]
                 /\ leases' = {l \in kept : l.live \/ l.e # e}
                              \cup {[e |-> e, worker |-> w, live |-> TRUE]}
                 /\ wk' = [wk EXCEPT ![w] = [IdleWorker EXCEPT !.pc = "start", !.e = e]]
      <4>1. PICK e \in Execs :
              /\ exec' = [rows EXCEPT ![e] = Claimed(rows[e], w)]
              /\ leases' = {l \in kept : l.live \/ l.e # e}
                           \cup {[e |-> e, worker |-> w, live |-> TRUE]}
              /\ wk' = [wk EXCEPT ![w] = [IdleWorker EXCEPT !.pc = "start", !.e = e]]
        BY <3>5
      <4>2. Claimed(rows[e], w) \in Row
        <5>1. rows[e] \in Row
          BY <3>2
        <5>2. rows[e].attempt + 1 \in Nat
          BY <5>1 DEF Row
        <5> QED
          BY <5>1, <5>2 DEF Claimed, Row
      <4>3. exec' \in [Execs -> Row]
        BY <3>2, <4>1, <4>2
      <4>4. leases' \subseteq LeaseRow
        <5>1. [e |-> e, worker |-> w, live |-> TRUE] \in LeaseRow
          BY DEF LeaseRow
        <5> QED
          BY <3>2, <4>1, <5>1
      <4>5. [IdleWorker EXCEPT !.pc = "start", !.e = e] \in Worker
        BY NoSnapshot DEF IdleWorker, Worker, WorkerPcs
      <4>6. wk' \in [Workers -> Worker]
        BY <1>0, <4>1, <4>5
      <4> QED
        BY <2>2, <3>3, <4>3, <4>4, <4>6 DEF PollWrite, TypeOK
    <3> QED
      BY <2>2, <3>4, <3>5 DEF PollWrite, snap, rows, kept
  <2>3. CASE PollConflict(w)
    BY <2>3, IdleType DEF PollConflict, TypeOK
  <2> QED
    BY <1>7, <2>1, <2>2, <2>3 DEF Poll
<1>8. ASSUME NEW w \in Workers, RunExecution(w) PROVE TypeOK'
  <2> DEFINE e == wk[w].e
  <2>0. wk[w].pc \notin {"idle", "poll"} => e \in Execs
    BY DEF WorkHasCommand
  <2> HIDE DEF e
  <2>1. CASE StartRead(w)
    BY <2>1, IdleType, GotoType DEF StartRead, TypeOK, WorkerPcs
  <2>2. CASE StartWrite(w)
    <3>1. e \in Execs
      BY <2>0, <2>2 DEF StartWrite
    <3>2. exec' \in [Execs -> Row]
      BY <1>0, <2>2, <3>1 DEF StartWrite, Row, Statuses, Active, e
    <3>3. wk' \in [Workers -> Worker]
      BY <2>2, GotoType DEF StartWrite, WorkerPcs
    <3>4. <<e, "started", 0>> \in Execs \X {"started", "completed", "failed", "reconcile"} \X Nat
      BY <3>1
    <3> QED
      BY <2>2, <3>2, <3>3, <3>4 DEF StartWrite, TypeOK, e
  <2>3. CASE StartConflict(w)
    BY <2>3, IdleType DEF StartConflict, TypeOK
  <2>4. CASE ReadInputs(w)
    <3>1. e \in Execs
      BY <2>0, <2>4 DEF ReadInputs
    <3>2. exec[e].cancelReq \in BOOLEAN
      BY <1>0, <3>1 DEF Row
    <3>3. wk' \in [Workers -> Worker]
      <4> DEFINE x == [wk[w] EXCEPT !.pc = "spawn", !.event = exec[e].cancelReq,
                                    !.beat = TRUE, !.lease = TRUE]
      <4>1. wk' = [wk EXCEPT ![w] = x]
        BY <2>4 DEF ReadInputs, e
      <4>2. x \in Worker
        BY <3>2, WorkerFields DEF Worker, WorkerPcs
      <4> QED
        BY <1>0, <4>1, <4>2
    <3>4. leases' \subseteq LeaseRow
      <4>1. [e |-> e, worker |-> w, live |-> TRUE] \in LeaseRow
        BY <3>1 DEF LeaseRow
      <4> QED
        BY <1>0, <2>4, <4>1 DEF ReadInputs, e
    <3> QED
      BY <2>4, <3>3, <3>4 DEF ReadInputs, TypeOK
  <2>5. CASE InputsRejected(w)
    BY <2>5, GotoType DEF InputsRejected, TypeOK, WorkerPcs
  <2>6. CASE Spawn(w)
    <3>1. e \in Execs
      BY <2>0, <2>6 DEF Spawn
    <3>2. exec' \in [Execs -> Row]
      <4>0. exec[e] \in Row
        BY <1>0, <3>1
      <4>1. [exec[e] EXCEPT !.pid = TRUE] \in Row
        BY <4>0 DEF Row
      <4>2. exec' = [exec EXCEPT ![e] = [exec[e] EXCEPT !.pid = TRUE]] \/ exec' = exec
        BY <2>6 DEF Spawn, e
      <4> QED
        BY <1>0, <3>1, <4>1, <4>2
    <3>3. spawned' \in [Execs -> Nat]
      BY <1>0, <2>6, <3>1 DEF Spawn, e
    <3>4. wk' \in [Workers -> Worker]
      BY <2>6, GotoType DEF Spawn, WorkerPcs
    <3> QED
      BY <2>6, <3>2, <3>3, <3>4 DEF Spawn, TypeOK
  <2>7. CASE RuntimeUnbound(w)
    BY <2>7, GotoType DEF RuntimeUnbound, TypeOK, WorkerPcs
  <2>8. CASE PolicyRejects(w)
    BY <2>8, ReportType DEF PolicyRejects, TypeOK, Final
  <2>9. CASE SpawnFails(w)
    <3>1. e \in Execs
      BY <2>0, <2>9 DEF SpawnFails
    <3>2. spawned' \in [Execs -> Nat]
      BY <1>0, <2>9, <3>1 DEF SpawnFails, e
    <3>3. wk' \in [Workers -> Worker]
      BY <2>9, ReportType DEF SpawnFails, Final
    <3> QED
      BY <2>9, <3>2, <3>3 DEF SpawnFails, TypeOK
  <2>10. CASE CapturePrompt(w)
    <3>1. wk' \in [Workers -> Worker]
      <4>1. wk' = [wk EXCEPT ![w] = [wk[w] EXCEPT !.event = TRUE]]
        BY <2>10 DEF CapturePrompt
      <4>2. [wk[w] EXCEPT !.event = TRUE] \in Worker
        BY WorkerFields DEF Worker
      <4> QED
        BY <1>0, <4>1, <4>2
    <3> QED
      BY <2>10, <3>1 DEF CapturePrompt, TypeOK
  <2>11. CASE OutputRefused(w)
    BY <2>11, GotoType DEF OutputRefused, TypeOK, WorkerPcs
  <2>12. CASE ProcessEnds(w)
    BY <2>12, ReportType DEF ProcessEnds, TypeOK
  <2>13. CASE FinishRead(w)
    <3>1. e \in Execs
      BY <2>0, <2>13 DEF FinishRead
    <3>2. Snapshot({e}) \in Snapshots
      BY <1>0, <3>1, SnapshotType
    <3>3. wk' \in [Workers -> Worker]
      <4> DEFINE x(pc) == [wk[w] EXCEPT !.pc = pc]
                 y == [wk[w] EXCEPT !.pc = "evidence", !.snap = Snapshot({e})]
      <4>1. \/ \E pc \in {"release", "fail"} : wk' = [wk EXCEPT ![w] = x(pc)]
            \/ wk' = [wk EXCEPT ![w] = y]
        BY <2>13 DEF FinishRead, e
      <4>2. \A pc \in {"release", "fail"} : x(pc) \in Worker
        BY WorkerFields DEF Worker, WorkerPcs
      <4>3. y \in Worker
        BY <3>2, WorkerFields DEF Worker, WorkerPcs
      <4> HIDE DEF x, y
      <4> QED
        BY <1>0, <4>1, <4>2, <4>3
    <3> QED
      BY <2>13, <3>3 DEF FinishRead, TypeOK
  <2>14. CASE CommitEvidence(w)
    <3>1. e \in Execs
      BY <2>0, <2>14 DEF CommitEvidence
    <3>2. WithEvidence(exec[e], wk[w].res) \in Row
      <4>1. wk[w].res \in Final \cup {None} /\ exec[e] \in Row
        BY <1>0, <3>1, WorkerFields
      <4>2. (exec[e].recon \/ (wk[w].res \in {"timed_out", "cancelled"} /\ exec[e].mutating))
               \in BOOLEAN
        OBVIOUS
      <4> QED
        BY <4>1, <4>2 DEF WithEvidence, Row
    <3>3. exec' \in [Execs -> Row]
      BY <1>0, <2>14, <3>1, <3>2 DEF CommitEvidence, e
    <3>4. wk' \in [Workers -> Worker]
      BY <2>14, GotoType DEF CommitEvidence, WorkerPcs
    <3> QED
      BY <2>14, <3>3, <3>4 DEF CommitEvidence, TypeOK
  <2>15. CASE CommitTerminal(w)
    <3>1. e \in Execs
      BY <2>0, <2>15 DEF CommitTerminal
    <3>2. wk' \in [Workers -> Worker]
      BY <2>15, GotoType DEF CommitTerminal, WorkerPcs
    <3>3. <<e, "completed", 0>> \in Execs \X {"started", "completed", "failed", "reconcile"} \X Nat
      BY <3>1
    <3>4. exec' \in [Execs -> Row]
      <4>1. CASE UNCHANGED exec
        BY <1>0, <4>1
      <4>2. CASE /\ exec' = [exec EXCEPT ![e].status = wk[w].res]
                 /\ wk[w].res \in LegalTransitions(wk[w].snap[e].status)
        <5>1. wk[w].res \in Statuses
          BY <4>2 DEF LegalTransitions, Statuses, Active, Final
        <5> QED
          BY <1>0, <3>1, <4>2, <5>1 DEF Row
      <4> QED
        BY <2>15, <4>1, <4>2 DEF CommitTerminal, e
    <3>5. keys' \subseteq (Execs \X {"started", "completed", "failed", "reconcile"} \X Nat)
      BY <2>15, <3>3 DEF CommitTerminal, TypeOK, e
    <3> QED
      BY <2>15, <3>2, <3>4, <3>5 DEF CommitTerminal, TypeOK
  <2>16. CASE CancelRun(w)
    <3>1. run' \in {"CREATED", "STAGE_CREATED", "CANCELLING", "CANCELLED"}
      BY <2>16 DEF CancelRun, TypeOK
    <3> QED
      BY <2>16, <3>1, GotoType DEF CancelRun, TypeOK, WorkerPcs
  <2>17. CASE FailRead(w)
    BY <2>17, GotoType DEF FailRead, TypeOK, WorkerPcs
  <2>18. CASE FailWrite(w)
    <3>1. e \in Execs
      BY <2>0, <2>18 DEF FailWrite
    <3>2. exec' \in [Execs -> Row]
      BY <1>0, <2>18, <3>1 DEF FailWrite, Row, Statuses, Final, e
    <3>3. wk' \in [Workers -> Worker]
      BY <2>18, GotoType DEF FailWrite, WorkerPcs
    <3>4. <<e, "failed", 0>> \in Execs \X {"started", "completed", "failed", "reconcile"} \X Nat
      BY <3>1
    <3>5. keys' \subseteq (Execs \X {"started", "completed", "failed", "reconcile"} \X Nat)
      BY <2>18, <3>4 DEF FailWrite, TypeOK, e
    <3> QED
      BY <2>18, <3>2, <3>3, <3>5 DEF FailWrite, TypeOK
  <2>19. CASE Release(w)
    BY <2>19, IdleType DEF Release, TypeOK
  <2> QED
    BY <1>8, <2>1, <2>2, <2>3, <2>4, <2>5, <2>6, <2>7, <2>8, <2>9, <2>10, <2>11, <2>12,
       <2>13, <2>14, <2>15, <2>16, <2>17, <2>18, <2>19 DEF RunExecution
<1>9. ASSUME NEW w \in Workers, Heartbeat(w) PROVE TypeOK'
  <2>1. wk[w].e \in Execs
    BY <1>9 DEF Heartbeat, WorkHasCommand
  <2>2. exec[wk[w].e].cancelReq \in BOOLEAN
    BY <1>0, <2>1 DEF Row
  <2>3. exec' \in [Execs -> Row]
    BY <1>0, <1>9, <2>1 DEF Heartbeat, Row
  <2>4. wk' \in [Workers -> Worker]
    BY <1>0, <1>9, <2>2 DEF Heartbeat, Worker
  <2> QED
    BY <1>9, <2>3, <2>4 DEF Heartbeat, TypeOK
<1>10. ASSUME NEW w \in Workers, Crash(w) PROVE TypeOK'
  <2>1. budget' \in [crashes : Nat, requests : Nat]
    BY <1>10 DEF Crash, TypeOK
  <2> QED
    BY <1>10, <2>1, IdleType DEF Crash, TypeOK
<1>11. ASSUME NEW e \in Execs, ExpireClaim(e) PROVE TypeOK'
  <2>1. exec' \in [Execs -> Row]
    BY <1>0, <1>11 DEF ExpireClaim, Row
  <2> QED
    BY <1>11, <2>1 DEF ExpireClaim, TypeOK
<1>12. ASSUME NEW l \in leases, ExpireLease(l) PROVE TypeOK'
  <2>1. leases' \subseteq LeaseRow
    BY <1>0, <1>12 DEF ExpireLease, LeaseRow
  <2> QED
    BY <1>12, <2>1 DEF ExpireLease, TypeOK
<1> QED
  BY <1>1, <1>2, <1>3, <1>4, <1>5, <1>6, <1>7, <1>8, <1>9, <1>10, <1>11, <1>12
     DEF Next, ApiStep

-----------------------------------------------------------------------------
(* The steps that start nothing and record no success. *)

\* The worker does not begin to supervise, and does not get to the terminal commit.
LocalStep(w) ==
  /\ Supervises(w)' => Supervises(w) /\ wk'[w].e = wk[w].e
  /\ wk'[w].pc \in {"inputs", "spawn"} => wk[w].pc \in {"inputs", "spawn"}
  /\ wk'[w].pc = "terminal" => wk[w].pc = "terminal" /\ wk'[w].res = wk[w].res

\* The row stays, with its evidence, and does not become a success.
RowStep(e) ==
  /\ exec[e].status # "absent" =>
       exec'[e].status # "absent" /\ exec'[e].exit = exec[e].exit
  /\ exec'[e].status = "succeeded" => exec[e].status = "succeeded"

\* Such steps preserve the invariant.
LEMMA QuietStep ==
  ASSUME SafetyInv, TypeOK', WorkHasCommand', ReadsWereActive',
         spawned' = spawned, keys \subseteq keys',
         \A w \in Workers : LocalStep(w), \A e \in Execs : RowStep(e)
  PROVE  SafetyInv'
<1> USE DEF SafetyInv
<1>0. \A w \in Workers : Supervises(w) => wk[w].e \in Execs
  BY DEF Supervises, WorkHasCommand
<1>1. \A e \in Execs : Started(e) => Started(e)'
  BY DEF Started
<1>2. OneSupervisor'
  <2> SUFFICES ASSUME NEW w \in Workers, Supervises(w)'
               PROVE  /\ Started(wk[w].e)' /\ exec'[wk'[w].e].status # "absent"
                      /\ \A v \in Workers \ {w} : Supervises(v)' => wk'[v].e # wk'[w].e
    BY DEF OneSupervisor
  <2>1. Supervises(w) /\ wk'[w].e = wk[w].e /\ wk[w].e \in Execs
    BY <1>0 DEF LocalStep
  <2>2. Started(wk[w].e) /\ exec[wk[w].e].status # "absent"
    BY <2>1 DEF OneSupervisor
  <2>3. Started(wk[w].e)'
    BY <2>1, <2>2 DEF Started
  <2>4. exec'[wk'[w].e].status # "absent"
    BY <2>1, <2>2 DEF RowStep
  <2>5. \A v \in Workers \ {w} : Supervises(v)' => wk'[v].e # wk'[w].e
    BY <2>1 DEF LocalStep, OneSupervisor
  <2> QED
    BY <2>3, <2>4, <2>5
<1>3. ProcessesStarted'
  <2>1. ASSUME NEW w \in Workers, wk'[w].pc \in {"inputs", "spawn"}
        PROVE  spawned'[wk'[w].e] = 0
    BY <2>1 DEF LocalStep, ProcessesStarted, Supervises
  <2>2. \A e \in Execs : spawned'[e] > 0 => Started(e)' /\ exec'[e].status # "absent"
    BY <1>1 DEF RowStep, ProcessesStarted
  <2>3. SpawnedOnce'
    BY DEF ProcessesStarted, SpawnedOnce
  <2> QED
    BY <2>1, <2>2, <2>3 DEF ProcessesStarted
<1>4. EvidenceCommitted'
  <2>1. ASSUME NEW w \in Workers, wk'[w].pc = "terminal"
        PROVE  exec'[wk'[w].e].exit = wk'[w].res
    <3>1. Supervises(w)' /\ wk[w].pc = "terminal" /\ wk'[w].res = wk[w].res
      BY <2>1 DEF LocalStep, Supervises
    <3>2. wk'[w].e = wk[w].e /\ wk[w].e \in Execs /\ exec[wk[w].e].status # "absent"
      BY <1>0, <3>1 DEF LocalStep, OneSupervisor
    <3> QED
      BY <3>1, <3>2 DEF RowStep, EvidenceCommitted
  <2>2. ASSUME NEW e \in Execs, exec'[e].status = "succeeded"
        PROVE  /\ exec'[e].exit = "succeeded" /\ Started(e)'
               /\ \A w \in Workers : Supervises(w)' => wk'[w].e # e
    <3>1. exec[e].status = "succeeded"
      BY <2>2 DEF RowStep
    <3>2. exec'[e].exit = "succeeded"
      BY <3>1 DEF RowStep, EvidenceCommitted
    <3>3. Started(e)'
      BY <1>1, <3>1 DEF EvidenceCommitted
    <3>4. \A w \in Workers : Supervises(w)' => wk'[w].e # e
      BY <3>1 DEF LocalStep, EvidenceCommitted
    <3> QED
      BY <3>2, <3>3, <3>4
  <2> QED
    BY <2>1, <2>2 DEF EvidenceCommitted
<1> QED
  BY <1>2, <1>3, <1>4

\* A worker that is where it was takes no part in a step.
LEMMA LocalStays ==
  ASSUME NEW w \in Workers, wk'[w] = wk[w]
  PROVE  LocalStep(w)
  BY DEF LocalStep, Supervises

\* A worker that goes where it does not supervise.
LEMMA LocalLeaves ==
  ASSUME NEW w \in Workers,
         wk'[w].pc \notin {"inputs", "spawn", "running", "finish", "evidence", "terminal"}
  PROVE  LocalStep(w)
  BY DEF LocalStep, Supervises

\* A row that is as it was.
LEMMA RowStays ==
  ASSUME NEW e \in Execs, exec'[e] = exec[e]
  PROVE  RowStep(e)
  BY DEF RowStep

\* A step of the worker w alone, which reads rows of commands that may be reconciled
\* or none, and goes on supervising at most what it supervised.
LEMMA WorkerStep ==
  ASSUME SafetyInv, TypeOK', NEW w \in Workers, NEW x,
         wk' = [wk EXCEPT ![w] = x],
         LocalStep(w),
         x.pc \notin {"idle", "poll"} \/ x.beat => x.e \in Execs,
         x.pc = "poll" => \A e \in DOMAIN x.snap : x.snap[e].status \in Active,
         \A e \in Execs : RowStep(e),
         UNCHANGED <<api, spawned>>, keys \subseteq keys'
  PROVE  SafetyInv'
<1> USE DEF SafetyInv
<1>1. wk \in [Workers -> Worker]
  BY DEF TypeOK
<1>2. wk'[w] = x /\ \A v \in Workers \ {w} : wk'[v] = wk[v]
  BY <1>1
<1>3. \A v \in Workers : LocalStep(v)
  BY <1>2, LocalStays
<1>4. WorkHasCommand'
  BY <1>2 DEF WorkHasCommand
<1>5. ReadsWereActive'
  BY <1>2 DEF ReadsWereActive
<1> QED
  BY <1>3, <1>4, <1>5, QuietStep

-----------------------------------------------------------------------------
(* The steps that start a process or record its end. *)

\* The started event goes to one worker: nobody supervises the command, no process
\* of it has been started and it has not succeeded.
LEMMA StartWritePreserves ==
  ASSUME SafetyInv, TypeOK', NEW w \in Workers, StartWrite(w)
  PROVE  SafetyInv'
<1> USE DEF SafetyInv
<1>e. PICK e : e = wk[w].e
  OBVIOUS
<1>0. e \in Execs
  BY <1>e DEF StartWrite, WorkHasCommand
<1>1. ~ Started(e) /\ Started(e)' /\ keys \subseteq keys'
  BY <1>e DEF StartWrite, KeyFree, Started
<1>2. wk \in [Workers -> Worker] /\ exec \in [Execs -> Row] /\ spawned \in [Execs -> Nat]
  BY DEF TypeOK
<1>3. /\ wk'[w] = [wk[w] EXCEPT !.pc = "inputs"]
      /\ \A v \in Workers \ {w} : wk'[v] = wk[v]
  BY <1>2 DEF StartWrite, Goto
<1>4. wk'[w].pc = "inputs" /\ wk'[w].e = e
  BY <1>e, <1>2, <1>3 DEF Worker
<1>5. /\ exec'[e].status = "running"
      /\ \A x \in Execs : exec'[x].exit = exec[x].exit
      /\ \A x \in Execs \ {e} : exec'[x] = exec[x]
  BY <1>e, <1>0, <1>2 DEF StartWrite, Row
<1>6. \A v \in Workers \ {w} : Supervises(v)' <=> Supervises(v)
  BY <1>3 DEF Supervises
<1>7. spawned' = spawned /\ api' = api
  BY DEF StartWrite
<1>8. spawned[e] = 0
  BY <1>0, <1>1, <1>2 DEF ProcessesStarted
<1>9. \A v \in Workers \ {w} : Supervises(v) => wk[v].e # e /\ wk[v].e \in Execs
  BY <1>1 DEF OneSupervisor, Supervises, WorkHasCommand
<1>10. WorkHasCommand'
  BY <1>0, <1>3, <1>4 DEF WorkHasCommand
<1>11. ReadsWereActive'
  BY <1>3, <1>4, <1>7 DEF ReadsWereActive
<1>12. OneSupervisor'
  <2>1. ASSUME NEW v \in Workers, Supervises(v)'
        PROVE  /\ Started(wk[v].e)' /\ exec'[wk'[v].e].status # "absent"
               /\ \A u \in Workers \ {v} : Supervises(u)' => wk'[u].e # wk'[v].e
    <3>1. CASE v = w
      <4>1. Started(wk[v].e)' /\ exec'[wk'[v].e].status # "absent"
        BY <1>1, <1>4, <1>5, <3>1 DEF Started
      <4>2. \A u \in Workers \ {v} : Supervises(u)' => wk'[u].e # wk'[v].e
        BY <1>3, <1>4, <1>6, <1>9, <3>1
      <4> QED
        BY <4>1, <4>2
    <3>2. CASE v # w
      <4>1. Supervises(v) /\ wk'[v] = wk[v] /\ wk[v].e # e /\ wk[v].e \in Execs
        BY <1>3, <1>6, <1>9, <2>1, <3>2
      <4>2. Started(wk[v].e)' /\ exec'[wk'[v].e].status # "absent"
        BY <1>1, <1>5, <4>1 DEF OneSupervisor, Started
      <4>3. \A u \in Workers \ {v} : Supervises(u)' => wk'[u].e # wk'[v].e
        BY <1>3, <1>4, <1>6, <4>1 DEF OneSupervisor
      <4> QED
        BY <4>2, <4>3
    <3> QED
      BY <3>1, <3>2
  <2> QED
    BY <2>1 DEF OneSupervisor, Started
<1>13. ProcessesStarted'
  BY <1>1, <1>3, <1>4, <1>5, <1>7, <1>8 DEF ProcessesStarted, SpawnedOnce, Started
<1>14. EvidenceCommitted'
  <2>1. ASSUME NEW v \in Workers, wk'[v].pc = "terminal"
        PROVE  exec'[wk'[v].e].exit = wk'[v].res
    <3>1. v # w /\ wk'[v] = wk[v] /\ wk[v].e \in Execs
      BY <1>3, <1>4, <2>1 DEF WorkHasCommand
    <3> QED
      BY <1>5, <2>1, <3>1 DEF EvidenceCommitted
  <2>2. ASSUME NEW x \in Execs, exec'[x].status = "succeeded"
        PROVE  /\ exec'[x].exit = "succeeded" /\ Started(x)'
               /\ \A v \in Workers : Supervises(v)' => wk'[v].e # x
    <3>1. x # e /\ exec[x].status = "succeeded"
      BY <1>5, <2>2
    <3>2. exec'[x].exit = "succeeded" /\ Started(x)'
      BY <1>1, <1>5, <3>1 DEF EvidenceCommitted, Started
    <3>3. \A v \in Workers : Supervises(v)' => wk'[v].e # x
      <4>1. wk'[w].e # x
        BY <1>4, <3>1
      <4>2. ASSUME NEW v \in Workers \ {w}, Supervises(v)' PROVE wk'[v].e # x
        BY <1>3, <1>6, <3>1, <4>2 DEF EvidenceCommitted
      <4> QED
        BY <4>1, <4>2
    <3> QED
      BY <3>2, <3>3
  <2> QED
    BY <2>1, <2>2 DEF EvidenceCommitted, Started
<1> QED
  BY <1>10, <1>11, <1>12, <1>13, <1>14

\* The one supervisor may start a process, and gives up the right to when it moves on.
LEMMA SpawnPreserves ==
  ASSUME SafetyInv, TypeOK', NEW w \in Workers, NEW x \in Worker,
         wk[w].pc = "spawn", wk' = [wk EXCEPT ![w] = x],
         x.e = wk[w].e, x.pc \in {"running", "fail", "finish"},
         spawned' \in {spawned, [spawned EXCEPT ![wk[w].e] = @ + 1]},
         \A f \in Execs : RowStep(f),
         UNCHANGED <<keys, api>>
  PROVE  SafetyInv'
<1> USE DEF SafetyInv
<1> DEFINE e == wk[w].e
<1>0. e \in Execs /\ Supervises(w)
  BY DEF WorkHasCommand, Supervises
<1>2. wk \in [Workers -> Worker] /\ exec \in [Execs -> Row] /\ spawned \in [Execs -> Nat]
  BY DEF TypeOK
<1>3. wk'[w] = x /\ \A v \in Workers \ {w} : wk'[v] = wk[v]
  BY <1>2
<1>4. \A v \in Workers \ {w} : Supervises(v)' <=> Supervises(v)
  BY <1>3 DEF Supervises
<1>5. Started(e) /\ exec[e].status # "absent" /\ spawned[e] = 0
  BY <1>0 DEF OneSupervisor, ProcessesStarted
<1>6. \A f \in Execs : Started(f)' <=> Started(f)
  BY DEF Started
<1>7. \A v \in Workers \ {w} : Supervises(v) => wk[v].e # e
  BY <1>0 DEF OneSupervisor
<1>8. \A f \in Execs : f # e => spawned'[f] = spawned[f]
  BY <1>0, <1>2
<1>9. spawned'[e] \in {0, 1}
  BY <1>0, <1>2, <1>5
<1> HIDE DEF e
<1>10. WorkHasCommand'
  BY <1>0, <1>3 DEF WorkHasCommand, e
<1>11. ReadsWereActive'
  BY <1>3 DEF ReadsWereActive
<1>12. OneSupervisor'
  <2>1. ASSUME NEW v \in Workers, Supervises(v)'
        PROVE  /\ Started(wk[v].e)' /\ exec'[wk'[v].e].status # "absent"
               /\ \A u \in Workers \ {v} : Supervises(u)' => wk'[u].e # wk'[v].e
    <3>1. Supervises(v) /\ wk'[v].e = wk[v].e /\ wk[v].e \in Execs
      BY <1>0, <1>3, <1>4, <2>1 DEF e, WorkHasCommand, Supervises
    <3>2. Started(wk[v].e)' /\ exec'[wk'[v].e].status # "absent"
      BY <1>6, <3>1 DEF OneSupervisor, RowStep
    <3>3. \A u \in Workers \ {v} : Supervises(u)' => Supervises(u) /\ wk'[u].e = wk[u].e
      BY <1>0, <1>3, <1>4 DEF e
    <3> QED
      BY <3>1, <3>2, <3>3 DEF OneSupervisor
  <2> QED
    BY <2>1 DEF OneSupervisor, Started
<1>13. ProcessesStarted'
  <2>1. ASSUME NEW v \in Workers, wk'[v].pc \in {"inputs", "spawn"}
        PROVE  spawned'[wk'[v].e] = 0
    <3>1. v # w /\ wk'[v] = wk[v] /\ wk[v].e \in Execs /\ Supervises(v)
      BY <1>3, <2>1 DEF WorkHasCommand, Supervises
    <3> QED
      BY <1>7, <1>8, <2>1, <3>1 DEF ProcessesStarted
  <2>2. ASSUME NEW f \in Execs PROVE spawned'[f] <= 1
    BY <1>8, <1>9 DEF ProcessesStarted, SpawnedOnce
  <2>3. ASSUME NEW f \in Execs, spawned'[f] > 0
        PROVE  Started(f)' /\ exec'[f].status # "absent"
    BY <1>5, <1>6, <1>8, <2>3 DEF ProcessesStarted, RowStep
  <2> QED
    BY <2>1, <2>2, <2>3 DEF ProcessesStarted, SpawnedOnce
<1>14. EvidenceCommitted'
  <2>1. ASSUME NEW v \in Workers, wk'[v].pc = "terminal"
        PROVE  exec'[wk'[v].e].exit = wk'[v].res
    <3>1. v # w /\ wk'[v] = wk[v] /\ wk[v].e \in Execs /\ Supervises(v)
      BY <1>3, <2>1 DEF WorkHasCommand, Supervises
    <3>2. exec[wk[v].e].status # "absent"
      BY <3>1 DEF OneSupervisor
    <3> QED
      BY <2>1, <3>1, <3>2 DEF EvidenceCommitted, RowStep
  <2>2. ASSUME NEW f \in Execs, exec'[f].status = "succeeded"
        PROVE  /\ exec'[f].exit = "succeeded" /\ Started(f)'
               /\ \A v \in Workers : Supervises(v)' => wk'[v].e # f
    <3>1. exec[f].status = "succeeded" /\ exec'[f].exit = exec[f].exit
      BY <2>2 DEF RowStep
    <3>2. \A v \in Workers : Supervises(v)' => Supervises(v) /\ wk'[v].e = wk[v].e
      BY <1>0, <1>3, <1>4 DEF e
    <3> QED
      BY <1>6, <3>1, <3>2 DEF EvidenceCommitted
  <2> QED
    BY <2>1, <2>2 DEF EvidenceCommitted, Started
<1> QED
  BY <1>10, <1>11, <1>12, <1>13, <1>14

\* The one supervisor writes the evidence of the result it holds.
LEMMA CommitEvidencePreserves ==
  ASSUME SafetyInv, TypeOK', NEW w \in Workers, CommitEvidence(w)
  PROVE  SafetyInv'
<1> USE DEF SafetyInv
<1> DEFINE e == wk[w].e
<1>0. e \in Execs /\ Supervises(w)
  BY DEF CommitEvidence, WorkHasCommand, Supervises
<1>2. wk \in [Workers -> Worker] /\ exec \in [Execs -> Row] /\ spawned \in [Execs -> Nat]
  BY DEF TypeOK
<1>3. /\ wk'[w] = [wk[w] EXCEPT !.pc = "terminal"]
      /\ \A v \in Workers \ {w} : wk'[v] = wk[v]
  BY <1>2 DEF CommitEvidence, Goto
<1>4. wk'[w].pc = "terminal" /\ wk'[w].e = e /\ wk'[w].res = wk[w].res
  BY <1>2, <1>3 DEF Worker
<1>5. /\ exec'[e].exit = wk[w].res /\ exec'[e].status = exec[e].status
      /\ \A x \in Execs \ {e} : exec'[x] = exec[x]
  BY <1>0, <1>2 DEF CommitEvidence, WithEvidence, Row
<1>6. \A v \in Workers : (Supervises(v)' <=> Supervises(v)) /\ wk'[v].e = wk[v].e
  BY <1>0, <1>3, <1>4 DEF Supervises
<1>7. UNCHANGED <<keys, spawned, api>>
  BY DEF CommitEvidence
<1>8. \A f \in Execs : Started(f)' <=> Started(f)
  BY <1>7 DEF Started
<1>9. \A f \in Execs : exec'[f].status = exec[f].status
  BY <1>5
<1>10. \A v \in Workers : Supervises(v) => wk[v].e \in Execs
  BY DEF WorkHasCommand, Supervises
<1>11. \A v \in Workers \ {w} : Supervises(v) => wk[v].e # e
  BY <1>0 DEF OneSupervisor
<1> HIDE DEF e
<1>12. WorkHasCommand'
  BY <1>0, <1>3, <1>4 DEF WorkHasCommand
<1>13. ReadsWereActive'
  BY <1>3, <1>4, <1>7 DEF ReadsWereActive
<1>14. OneSupervisor'
  <2>1. ASSUME NEW v \in Workers, Supervises(v)'
        PROVE  /\ Started(wk[v].e)' /\ exec'[wk'[v].e].status # "absent"
               /\ \A u \in Workers \ {v} : Supervises(u)' => wk'[u].e # wk'[v].e
    <3>1. Supervises(v) /\ wk'[v].e = wk[v].e /\ wk[v].e \in Execs
      BY <1>6, <1>10, <2>1
    <3> QED
      BY <1>6, <1>8, <1>9, <3>1 DEF OneSupervisor
  <2> QED
    BY <2>1 DEF OneSupervisor, Started
<1>15. ProcessesStarted'
  <2>1. \A v \in Workers : wk'[v].pc \in {"inputs", "spawn"} => wk[v].pc \in {"inputs", "spawn"}
    BY <1>3, <1>4
  <2> QED
    BY <1>6, <1>7, <1>8, <1>9, <2>1 DEF ProcessesStarted, SpawnedOnce, Started
<1>16. EvidenceCommitted'
  <2>1. ASSUME NEW v \in Workers, wk'[v].pc = "terminal"
        PROVE  exec'[wk'[v].e].exit = wk'[v].res
    <3>1. CASE v = w
      BY <1>4, <1>5, <3>1
    <3>2. CASE v # w
      <4>1. wk'[v] = wk[v] /\ Supervises(v) /\ wk[v].e \in Execs /\ wk[v].e # e
        BY <1>3, <1>10, <1>11, <2>1, <3>2 DEF Supervises
      <4> QED
        BY <1>5, <2>1, <4>1 DEF EvidenceCommitted
    <3> QED
      BY <3>1, <3>2
  <2>2. ASSUME NEW f \in Execs, exec'[f].status = "succeeded"
        PROVE  /\ exec'[f].exit = "succeeded" /\ Started(f)'
               /\ \A v \in Workers : Supervises(v)' => wk'[v].e # f
    <3>1. exec[f].status = "succeeded" /\ f # e
      BY <1>0, <1>9, <2>2 DEF EvidenceCommitted, e
    <3> QED
      BY <1>5, <1>6, <1>8, <3>1 DEF EvidenceCommitted
  <2> QED
    BY <2>1, <2>2 DEF EvidenceCommitted, Started
<1> QED
  BY <1>12, <1>13, <1>14, <1>15, <1>16

\* The terminal status rests on evidence already committed.
LEMMA CommitTerminalPreserves ==
  ASSUME SafetyInv, TypeOK', NEW w \in Workers, CommitTerminal(w)
  PROVE  SafetyInv'
<1> USE DEF SafetyInv
<1>e. PICK e : e = wk[w].e
  OBVIOUS
<1>0. e \in Execs /\ Supervises(w) /\ wk[w].pc = "terminal"
  BY <1>e DEF CommitTerminal, WorkHasCommand, Supervises
<1>2. wk \in [Workers -> Worker] /\ exec \in [Execs -> Row] /\ spawned \in [Execs -> Nat]
  BY DEF TypeOK
<1>3. PICK pc \in {"runCancel", "release", "fail"} :
        wk' = [wk EXCEPT ![w] = [wk[w] EXCEPT !.pc = pc]]
  BY DEF CommitTerminal, Goto
<1>4. /\ wk'[w].pc = pc /\ wk'[w].e = e
      /\ \A v \in Workers \ {w} : wk'[v] = wk[v]
  BY <1>e, <1>2, <1>3 DEF Worker
<1>5. UNCHANGED <<spawned, api>> /\ keys \subseteq keys'
  BY DEF CommitTerminal
<1>6. /\ exec'[e].status = exec[e].status
           \/ (exec'[e].status = wk[w].res /\ wk[w].res # "absent")
      /\ exec'[e].exit = exec[e].exit
      /\ \A x \in Execs \ {e} : exec'[x] = exec[x]
  <2>1. CASE UNCHANGED exec
    BY <2>1
  <2>2. CASE /\ exec' = [exec EXCEPT ![e].status = wk[w].res]
             /\ wk[w].res \in LegalTransitions(wk[w].snap[e].status)
    <3>1. wk[w].res # "absent"
      BY <2>2 DEF LegalTransitions, Final
    <3> QED
      BY <1>0, <1>2, <2>2, <3>1 DEF Row
  <2> QED
    BY <1>e, <2>1, <2>2 DEF CommitTerminal
<1>7. \A v \in Workers : Supervises(v)' =>
        v # w /\ wk'[v] = wk[v] /\ Supervises(v) /\ wk[v].e \in Execs /\ wk[v].e # e
  <2>1. ASSUME NEW v \in Workers, Supervises(v)' PROVE v # w
    BY <1>4, <2>1 DEF Supervises
  <2>2. ASSUME NEW v \in Workers \ {w}, Supervises(v)' PROVE Supervises(v) /\ wk[v].e \in Execs
    BY <1>4, <2>2 DEF Supervises, WorkHasCommand
  <2>3. \A v \in Workers \ {w} : Supervises(v) => wk[v].e # e
    BY <1>e, <1>0 DEF OneSupervisor
  <2> QED
    BY <1>4, <2>1, <2>2, <2>3
<1>8. \A x \in Execs : Started(x) => Started(x)'
  BY <1>5 DEF Started
<1>9. Started(e) /\ exec[e].status # "absent" /\ exec[e].exit = wk[w].res
  BY <1>e, <1>0 DEF OneSupervisor, EvidenceCommitted
<1>10. WorkHasCommand'
  <2>1. ASSUME NEW v \in Workers, wk'[v].pc \notin {"idle", "poll"} \/ wk'[v].beat
        PROVE  wk'[v].e \in Execs
    BY <1>0, <1>4, <2>1 DEF WorkHasCommand
  <2> QED
    BY <2>1 DEF WorkHasCommand
<1>11. ReadsWereActive'
  BY <1>4, <1>5 DEF ReadsWereActive
<1>12. OneSupervisor'
  <2>1. ASSUME NEW v \in Workers, Supervises(v)'
        PROVE  /\ Started(wk[v].e)' /\ exec'[wk'[v].e].status # "absent"
               /\ \A u \in Workers \ {v} : Supervises(u)' => wk'[u].e # wk'[v].e
    <3>1. wk'[v] = wk[v] /\ Supervises(v) /\ wk[v].e \in Execs /\ wk[v].e # e
      BY <1>7, <2>1
    <3>2. Started(wk[v].e)' /\ exec'[wk'[v].e].status # "absent"
      BY <1>5, <1>6, <3>1 DEF OneSupervisor, Started
    <3> QED
      BY <1>7, <3>1, <3>2 DEF OneSupervisor
  <2> QED
    BY <2>1 DEF OneSupervisor, Started
<1>13. ProcessesStarted'
  <2>1. ASSUME NEW v \in Workers, wk'[v].pc \in {"inputs", "spawn"}
        PROVE  spawned'[wk'[v].e] = 0
    <3>1. Supervises(v)'
      BY <2>1 DEF Supervises
    <3> QED
      BY <1>5, <1>7, <2>1, <3>1 DEF ProcessesStarted
  <2>2. ASSUME NEW f \in Execs, spawned'[f] > 0 PROVE Started(f)' /\ exec'[f].status # "absent"
    BY <1>5, <1>6, <1>8, <1>9, <2>2 DEF ProcessesStarted
  <2> QED
    BY <1>5, <2>1, <2>2 DEF ProcessesStarted, SpawnedOnce, Started
<1>14. EvidenceCommitted'
  <2>1. ASSUME NEW v \in Workers, wk'[v].pc = "terminal"
        PROVE  exec'[wk'[v].e].exit = wk'[v].res
    <3>1. Supervises(v)'
      BY <2>1 DEF Supervises
    <3> QED
      BY <1>6, <1>7, <2>1, <3>1 DEF EvidenceCommitted
  <2>2. ASSUME NEW f \in Execs, exec'[f].status = "succeeded"
        PROVE  /\ exec'[f].exit = "succeeded" /\ Started(f)'
               /\ \A v \in Workers : Supervises(v)' => wk'[v].e # f
    <3>1. CASE f = e
      <4>1. exec[e].exit = "succeeded"
        BY <1>6, <1>9, <2>2, <3>1 DEF EvidenceCommitted
      <4> QED
        BY <1>6, <1>7, <1>8, <1>9, <3>1, <4>1
    <3>2. CASE f # e
      <4>1. exec'[f] = exec[f]
        BY <1>6, <3>2
      <4> QED
        BY <1>7, <1>8, <2>2, <4>1 DEF EvidenceCommitted
    <3> QED
      BY <3>1, <3>2
  <2> QED
    BY <2>1, <2>2 DEF EvidenceCommitted, Started
<1> QED
  BY <1>10, <1>11, <1>12, <1>13, <1>14

-----------------------------------------------------------------------------
(* Every step preserves the invariant. *)

\* A worker that becomes idle, whatever it worked on.
LEMMA IdlePreserves ==
  ASSUME SafetyInv, TypeOK', NEW w \in Workers,
         wk' = [wk EXCEPT ![w] = IdleWorker],
         \A e \in Execs : RowStep(e),
         UNCHANGED <<api, spawned>>, keys \subseteq keys'
  PROVE  SafetyInv'
<1>1. wk'[w] = IdleWorker
  BY DEF SafetyInv, TypeOK
<1>2. LocalStep(w)
  BY <1>1, LocalLeaves DEF IdleWorker
<1> QED
  BY <1>2, WorkerStep DEF IdleWorker

\* A worker that goes on: where it went, nothing is started or newly supervised.
LEMMA GotoPreserves ==
  ASSUME SafetyInv, TypeOK', NEW w \in Workers, NEW x \in Worker,
         wk' = [wk EXCEPT ![w] = x], x.e = wk[w].e, wk[w].pc \notin {"idle", "poll"},
         x.pc \notin {"poll", "inputs", "terminal"},
         x.pc = "spawn" => wk[w].pc \in {"inputs", "spawn"},
         x.pc \in {"running", "finish", "evidence"} => Supervises(w),
         \A e \in Execs : RowStep(e),
         UNCHANGED <<api, spawned>>, keys \subseteq keys'
  PROVE  SafetyInv'
<1>1. wk'[w] = x
  BY DEF SafetyInv, TypeOK
<1>2. wk[w].e \in Execs
  BY DEF SafetyInv, WorkHasCommand
<1>3. LocalStep(w)
  BY <1>1 DEF LocalStep, Supervises
<1> QED
  BY <1>2, <1>3, WorkerStep

\* Reconciled rows are steps of rows.
LEMMA ReconciledSteps ==
  ASSUME TypeOK, NEW snap \in Snapshots, exec' = ReconciledRows(snap)
  PROVE  \A e \in Execs : RowStep(e)
<1>1. exec \in [Execs -> Row]
  BY DEF TypeOK
<1>2. \A e \in Execs : /\ exec'[e].exit = exec[e].exit
                      /\ exec'[e].status \in {exec[e].status, "failed", "interrupted", "queued"}
  BY <1>1, ReconciledFacts
<1> QED
  BY <1>2 DEF RowStep

\* The API and time.
LEMMA ApiPreserves ==
  ASSUME SafetyInv, TypeOK', wk' = wk, spawned' = spawned, keys \subseteq keys',
         api' = api \/ api'.sweep = << >> \/ api'.sweep = Snapshot(Expired)
                    \/ api'.sweep = api.sweep,
         \A e \in Execs : RowStep(e)
  PROVE  SafetyInv'
<1> USE DEF SafetyInv
<1>1. \A e \in DOMAIN Snapshot(Expired) : Snapshot(Expired)[e].status \in Active
  BY DEF Snapshot, Expired, See
<1>2. WorkHasCommand'
  BY DEF WorkHasCommand
<1>3. ReadsWereActive'
  BY <1>1 DEF ReadsWereActive
<1>4. \A w \in Workers : LocalStep(w)
  BY LocalStays
<1> QED
  BY <1>2, <1>3, <1>4, QuietStep

LEMMA PollPreserves ==
  ASSUME SafetyInv, TypeOK', NEW w \in Workers, Poll(w)
  PROVE  SafetyInv'
<1>0. TypeOK
  BY DEF SafetyInv
<1>1. CASE PollRead(w)
  <2> DEFINE x == [wk[w] EXCEPT !.pc = "poll", !.snap = Snapshot(Expired)]
  <2>1. wk' = [wk EXCEPT ![w] = x] /\ wk[w].pc = "idle"
    BY <1>1 DEF PollRead
  <2>2. /\ x.pc = "poll" /\ x.snap = Snapshot(Expired)
        /\ x.beat = wk[w].beat /\ x.e = wk[w].e
    BY <1>0, WorkerFields DEF Worker
  <2>3. wk'[w] = x
    BY <1>0, <2>1 DEF TypeOK
  <2>4. LocalStep(w)
    BY <2>2, <2>3, LocalLeaves
  <2>5. \A e \in DOMAIN x.snap : x.snap[e].status \in Active
    BY <2>2 DEF Snapshot, Expired, See
  <2>6. x.beat => x.e \in Execs
    BY <2>2 DEF SafetyInv, WorkHasCommand
  <2>7. /\ UNCHANGED <<api, spawned, keys>>
        /\ \A e \in Execs : RowStep(e)
    BY <1>1, RowStays DEF PollRead
  <2> HIDE DEF x
  <2> QED
    BY <2>1, <2>2, <2>4, <2>5, <2>6, <2>7, WorkerStep
<1>2. CASE PollWrite(w)
  <2> DEFINE rows == ReconciledRows(wk[w].snap)
  <2>1. wk[w].snap \in Snapshots /\ exec \in [Execs -> Row]
    BY <1>0, WorkerFields DEF TypeOK
  <2>2. rows \in [Execs -> Row]
    BY <2>1, ReconciledFacts
  <2>3. \A e \in Execs : /\ rows[e].exit = exec[e].exit
                        /\ rows[e].status \in {exec[e].status, "failed", "interrupted", "queued"}
    BY <2>1, ReconciledFacts
  <2>4. UNCHANGED <<api, spawned>> /\ keys \subseteq keys'
    BY <1>2 DEF PollWrite
  <2> HIDE DEF rows
  <2>5. CASE exec' = rows /\ wk' = [wk EXCEPT ![w] = IdleWorker]
    <3>1. \A e \in Execs : RowStep(e)
      BY <2>3, <2>5 DEF RowStep
    <3> QED
      BY <2>4, <2>5, <3>1, IdlePreserves
  <2>6. CASE \E e \in Execs :
               /\ exec' = [rows EXCEPT ![e] = Claimed(rows[e], w)]
               /\ wk' = [wk EXCEPT ![w] = [IdleWorker EXCEPT !.pc = "start", !.e = e]]
    <3>1. PICK e \in Execs :
               /\ exec' = [rows EXCEPT ![e] = Claimed(rows[e], w)]
               /\ wk' = [wk EXCEPT ![w] = [IdleWorker EXCEPT !.pc = "start", !.e = e]]
      BY <2>6
    <3>2. /\ exec'[e].exit = rows[e].exit /\ exec'[e].status = rows[e].status
          /\ \A f \in Execs \ {e} : exec'[f] = rows[f]
      BY <2>2, <3>1 DEF Claimed, Row
    <3>3. \A f \in Execs : RowStep(f)
      BY <2>3, <3>2 DEF RowStep
    <3> DEFINE x == [IdleWorker EXCEPT !.pc = "start", !.e = e]
    <3>4. x.pc = "start" /\ x.e = e
      BY DEF IdleWorker
    <3>5. wk' = [wk EXCEPT ![w] = x] /\ wk'[w] = x
      BY <1>0, <3>1 DEF TypeOK
    <3>6. LocalStep(w)
      BY <3>4, <3>5, LocalLeaves
    <3> HIDE DEF x
    <3> QED
      BY <2>4, <3>3, <3>4, <3>5, <3>6, WorkerStep
  <2> QED
    BY <1>2, <2>5, <2>6 DEF PollWrite, rows
<1>3. CASE PollConflict(w)
  <2>1. \A e \in Execs : RowStep(e)
    BY <1>3, RowStays DEF PollConflict
  <2> QED
    BY <1>3, <2>1, IdlePreserves DEF PollConflict
<1> QED
  BY <1>1, <1>2, <1>3 DEF Poll

\* The row of a command that ends other than in success.
LEMMA EndsOtherwise ==
  ASSUME TypeOK, NEW e \in Execs, NEW s \in {"failed", "cancelled"},
         exec' = [exec EXCEPT ![e].status = s]
  PROVE  \A f \in Execs : RowStep(f)
<1>1. exec \in [Execs -> Row]
  BY DEF TypeOK
<1>2. /\ exec'[e].status = s /\ exec'[e].exit = exec[e].exit
      /\ \A f \in Execs \ {e} : exec'[f] = exec[f]
  BY <1>1 DEF Row
<1> QED
  BY <1>2 DEF RowStep

LEMMA RunPreserves ==
  ASSUME SafetyInv, TypeOK', NEW w \in Workers, RunExecution(w)
  PROVE  SafetyInv'
<1>0. TypeOK /\ exec \in [Execs -> Row] /\ wk \in [Workers -> Worker]
  BY DEF SafetyInv, TypeOK
<1> DEFINE At(pc) == [wk[w] EXCEPT !.pc = pc]
           Reported(r) == [wk[w] EXCEPT !.pc = "finish", !.res = r]
<1>a. \A pc \in WorkerPcs : At(pc) \in Worker /\ At(pc).pc = pc /\ At(pc).e = wk[w].e
  BY <1>0, WorkerFields DEF Worker
<1>b. \A r \in Final : /\ Reported(r) \in Worker /\ Reported(r).pc = "finish"
                      /\ Reported(r).e = wk[w].e
  BY <1>0, WorkerFields DEF Worker, WorkerPcs
<1>c. \A pc : Goto(w, pc) <=> wk' = [wk EXCEPT ![w] = At(pc)]
  BY DEF Goto
<1>d. \A r : Report(w, r) <=> wk' = [wk EXCEPT ![w] = Reported(r)]
  BY DEF Report
<1>e. exec' = exec => \A e \in Execs : RowStep(e)
  BY RowStays
<1>f. ASSUME NEW pc \in {"startWrite", "fail", "failWrite", "release"}, Goto(w, pc),
             wk[w].pc \notin {"idle", "poll"}, \A e \in Execs : RowStep(e),
             UNCHANGED <<api, spawned>>, keys \subseteq keys'
      PROVE  SafetyInv'
  <2>1. pc \in WorkerPcs
    BY DEF WorkerPcs
  <2>2. At(pc) \in Worker /\ At(pc).pc = pc /\ At(pc).e = wk[w].e
    BY <1>a, <2>1
  <2>3. wk' = [wk EXCEPT ![w] = At(pc)]
    BY <1>c, <1>f
  <2> HIDE DEF At
  <2> QED
    BY <1>f, <2>2, <2>3, GotoPreserves
<1>g. ASSUME NEW r \in Final, Report(w, r), wk[w].pc \in {"spawn", "running"},
             UNCHANGED <<exec, keys, api, spawned>>
      PROVE  SafetyInv'
  <2>1. Reported(r) \in Worker /\ Reported(r).pc = "finish" /\ Reported(r).e = wk[w].e
    BY <1>b
  <2>2. wk' = [wk EXCEPT ![w] = Reported(r)]
    BY <1>d, <1>g
  <2>3. Supervises(w)
    BY <1>g DEF Supervises
  <2> HIDE DEF Reported
  <2> QED
    BY <1>e, <1>g, <2>1, <2>2, <2>3, GotoPreserves
<1> HIDE DEF At, Reported
<1>1. CASE StartRead(w)
  BY <1>1, <1>e, <1>f, IdlePreserves DEF StartRead
<1>2. CASE StartWrite(w)
  BY <1>2, StartWritePreserves
<1>3. CASE StartConflict(w)
  BY <1>3, <1>e, IdlePreserves DEF StartConflict
<1>4. CASE ReadInputs(w)
  <2> DEFINE x == [wk[w] EXCEPT !.pc = "spawn", !.event = exec[wk[w].e].cancelReq,
                                !.beat = TRUE, !.lease = TRUE]
  <2>1. wk' = [wk EXCEPT ![w] = x] /\ wk[w].pc = "inputs"
    BY <1>4 DEF ReadInputs
  <2>2. wk[w].e \in Execs
    BY <2>1 DEF SafetyInv, WorkHasCommand
  <2>3. exec[wk[w].e].cancelReq \in BOOLEAN
    BY <1>0, <2>2 DEF Row
  <2>4. x \in Worker /\ x.pc = "spawn" /\ x.e = wk[w].e
    BY <1>0, <2>3, WorkerFields DEF Worker, WorkerPcs
  <2>5. UNCHANGED <<exec, keys, api, spawned>>
    BY <1>4 DEF ReadInputs
  <2> HIDE DEF x
  <2> QED
    BY <1>e, <2>1, <2>4, <2>5, GotoPreserves
<1>5. CASE InputsRejected(w)
  BY <1>5, <1>e, <1>f DEF InputsRejected
<1>6. CASE Spawn(w)
  <2>1. PICK pc \in {"running", "fail"} : Goto(w, pc)
    BY <1>6 DEF Spawn
  <2>2. pc \in WorkerPcs
    BY DEF WorkerPcs
  <2>3. wk' = [wk EXCEPT ![w] = At(pc)]
    BY <1>c, <2>1
  <2>4. wk[w].pc = "spawn" /\ UNCHANGED <<keys, api>>
    BY <1>6 DEF Spawn
  <2>5. wk[w].e \in Execs
    BY <2>4 DEF SafetyInv, WorkHasCommand
  <2>6. \A f \in Execs : RowStep(f)
    <3>1. CASE exec' = exec
      BY <1>e, <3>1
    <3>2. CASE exec' = [exec EXCEPT ![wk[w].e].pid = TRUE]
      <4>1. \A f \in Execs : exec'[f].status = exec[f].status /\ exec'[f].exit = exec[f].exit
        BY <1>0, <2>5, <3>2 DEF Row
      <4> QED
        BY <4>1 DEF RowStep
    <3> QED
      BY <1>6, <3>1, <3>2 DEF Spawn
  <2>7. spawned' = [spawned EXCEPT ![wk[w].e] = @ + 1]
    BY <1>6 DEF Spawn
  <2> QED
    BY <1>a, <2>2, <2>3, <2>4, <2>6, <2>7, SpawnPreserves
<1>7. CASE RuntimeUnbound(w)
  BY <1>7, <1>e, <1>f DEF RuntimeUnbound
<1>8. CASE PolicyRejects(w)
  BY <1>8, <1>g DEF PolicyRejects, Final
<1>9. CASE SpawnFails(w)
  <2>1. "failed" \in Final
    BY DEF Final
  <2>2. wk' = [wk EXCEPT ![w] = Reported("failed")]
    BY <1>9, <1>d DEF SpawnFails
  <2>3. wk[w].pc = "spawn" /\ UNCHANGED <<exec, keys, api>>
    BY <1>9 DEF SpawnFails
  <2>4. spawned' \in {spawned, [spawned EXCEPT ![wk[w].e] = @ + 1]}
    BY <1>9 DEF SpawnFails
  <2> QED
    BY <1>b, <1>e, <2>1, <2>2, <2>3, <2>4, SpawnPreserves
<1>10. CASE CapturePrompt(w)
  <2> DEFINE x == [wk[w] EXCEPT !.event = TRUE]
  <2>1. wk' = [wk EXCEPT ![w] = x] /\ wk[w].pc = "running"
    BY <1>10 DEF CapturePrompt
  <2>2. x \in Worker /\ x.pc = "running" /\ x.e = wk[w].e
    BY <1>0, <2>1, WorkerFields DEF Worker
  <2>3. Supervises(w) /\ UNCHANGED <<exec, keys, api, spawned>>
    BY <1>10, <2>1 DEF CapturePrompt, Supervises
  <2> HIDE DEF x
  <2> QED
    BY <1>e, <2>1, <2>2, <2>3, GotoPreserves
<1>11. CASE OutputRefused(w)
  BY <1>11, <1>e, <1>f DEF OutputRefused
<1>12. CASE ProcessEnds(w)
  BY <1>12, <1>g DEF ProcessEnds
<1>13. CASE FinishRead(w)
  <2>0. wk[w].pc = "finish" /\ UNCHANGED <<exec, keys, api, spawned>>
    BY <1>13 DEF FinishRead
  <2>1. CASE Goto(w, "release") \/ Goto(w, "fail")
    BY <1>e, <1>f, <2>0, <2>1
  <2> DEFINE x == [wk[w] EXCEPT !.pc = "evidence", !.snap = Snapshot({wk[w].e})]
  <2>2. CASE wk' = [wk EXCEPT ![w] = x]
    <3>1. wk[w].e \in Execs /\ Supervises(w)
      BY <2>0 DEF SafetyInv, WorkHasCommand, Supervises
    <3>2. Snapshot({wk[w].e}) \in Snapshots
      BY <1>0, <3>1, SnapshotType
    <3>3. x \in Worker /\ x.pc = "evidence" /\ x.e = wk[w].e
      BY <1>0, <3>2, WorkerFields DEF Worker, WorkerPcs
    <3> HIDE DEF x
    <3> QED
      BY <1>e, <2>0, <2>2, <3>1, <3>3, GotoPreserves
  <2> QED
    BY <1>13, <2>1, <2>2 DEF FinishRead, Goto
<1>14. CASE CommitEvidence(w)
  BY <1>14, CommitEvidencePreserves
<1>15. CASE CommitTerminal(w)
  BY <1>15, CommitTerminalPreserves
<1>16. CASE CancelRun(w)
  BY <1>16, <1>e, <1>f DEF CancelRun
<1>17. CASE FailRead(w)
  BY <1>17, <1>e, <1>f DEF FailRead
<1>18. CASE FailWrite(w)
  <2>1. wk[w].pc = "failWrite" /\ UNCHANGED <<api, spawned>> /\ Goto(w, "release")
        /\ keys \subseteq keys'
    BY <1>18 DEF FailWrite
  <2>2. wk[w].e \in Execs
    BY <2>1 DEF SafetyInv, WorkHasCommand
  <2>3. exec' = exec \/ exec' = [exec EXCEPT ![wk[w].e].status = "failed"]
    BY <1>18 DEF FailWrite
  <2>4. \A f \in Execs : RowStep(f)
    BY <1>0, <1>e, <2>2, <2>3, EndsOtherwise
  <2> QED
    BY <1>f, <2>1, <2>4
<1>19. CASE Release(w)
  BY <1>19, <1>e, IdlePreserves DEF Release
<1> QED
  BY <1>1, <1>2, <1>3, <1>4, <1>5, <1>6, <1>7, <1>8, <1>9, <1>10, <1>11, <1>12,
     <1>13, <1>14, <1>15, <1>16, <1>17, <1>18, <1>19 DEF RunExecution

\* A heartbeat renews or gives up, whatever the worker does meanwhile.
LEMMA HeartbeatPreserves ==
  ASSUME SafetyInv, TypeOK', NEW w \in Workers, Heartbeat(w)
  PROVE  SafetyInv'
<1>0. TypeOK /\ exec \in [Execs -> Row] /\ wk \in [Workers -> Worker]
  BY DEF SafetyInv, TypeOK
<1>1. wk[w].e \in Execs /\ wk[w].beat
  BY DEF Heartbeat, SafetyInv, WorkHasCommand
<1>2. /\ wk'[w].pc = wk[w].pc /\ wk'[w].e = wk[w].e /\ wk'[w].res = wk[w].res
      /\ wk'[w].snap = wk[w].snap
      /\ wk' = [wk EXCEPT ![w] = wk'[w]]
  BY <1>0 DEF Heartbeat, Worker
<1>3. \A e \in Execs : exec'[e].status = exec[e].status /\ exec'[e].exit = exec[e].exit
  BY <1>0, <1>1 DEF Heartbeat, Row
<1>4. \A e \in Execs : RowStep(e)
  BY <1>3 DEF RowStep
<1>5. LocalStep(w)
  BY <1>2 DEF LocalStep, Supervises
<1>6. UNCHANGED <<api, spawned, keys>>
  BY DEF Heartbeat
<1>7. wk'[w].pc = "poll" => \A e \in DOMAIN wk'[w].snap : wk'[w].snap[e].status \in Active
  BY <1>2 DEF SafetyInv, ReadsWereActive
<1> QED
  BY <1>1, <1>2, <1>4, <1>5, <1>6, <1>7, WorkerStep

\* Every step preserves the invariant.
LEMMA SafetyStep == SafetyInv /\ [Next]_vars => SafetyInv'
<1> SUFFICES ASSUME SafetyInv, [Next]_vars PROVE SafetyInv'
  OBVIOUS
<1>0. TypeOK /\ exec \in [Execs -> Row] /\ api \in Api
  BY DEF SafetyInv, TypeOK
<1>t. Next => TypeOK'
  BY TypeStep DEF SafetyInv
<1>r. exec' = exec => \A e \in Execs : RowStep(e)
  BY RowStays
<1>n. Next => ApiStep \/ (\E w \in Workers : Poll(w) \/ RunExecution(w) \/ Heartbeat(w) \/ Crash(w))
              \/ (\E e \in Execs : ExpireClaim(e)) \/ (\E l \in leases : ExpireLease(l))
  BY DEF Next
<1>1. ASSUME Next, ApiStep PROVE SafetyInv'
  <2>1. ASSUME NEW e \in Execs, NEW m \in BOOLEAN, QueueCommand(e, m) PROVE SafetyInv'
    <3>1. /\ exec[e].status = "absent" /\ exec'[e].status = "queued"
          /\ \A f \in Execs \ {e} : exec'[f] = exec[f]
      BY <1>0, <2>1 DEF QueueCommand, NoRow
    <3>2. \A f \in Execs : RowStep(f)
      BY <3>1 DEF RowStep
    <3> QED
      BY <1>1, <1>t, <2>1, <3>2, ApiPreserves DEF QueueCommand
  <2>2. ASSUME NEW f \in Execs, NEW e \in Execs, NEW r \in BOOLEAN, QueueRetry(f, e, r)
        PROVE  SafetyInv'
    <3>1. /\ exec[e].status = "absent" /\ exec'[e].status = "queued"
          /\ \A x \in Execs \ {e} : exec'[x] = exec[x]
      BY <1>0, <2>2 DEF QueueRetry, NoRow
    <3>2. \A x \in Execs : RowStep(x)
      BY <3>1 DEF RowStep
    <3> QED
      BY <1>1, <1>t, <2>2, <3>2, ApiPreserves DEF QueueRetry
  <2>3. CASE SweepRead
    <3>1. api'.sweep = Snapshot(Expired)
      BY <1>0, <2>3 DEF SweepRead, Api
    <3> QED
      BY <1>1, <1>r, <1>t, <2>3, <3>1, ApiPreserves DEF SweepRead
  <2>4. CASE SweepWrite
    <3>1. api'.sweep = << >> /\ api.sweep \in Snapshots
      BY <1>0, <2>4 DEF SweepWrite, Api
    <3>2. \A e \in Execs : RowStep(e)
      BY <1>0, <1>r, <2>4, <3>1, ReconciledSteps DEF SweepWrite
    <3>3. UNCHANGED <<wk, spawned>> /\ keys \subseteq keys'
      BY <2>4 DEF SweepWrite
    <3> QED
      BY <1>1, <1>t, <3>1, <3>2, <3>3, ApiPreserves
  <2>5. ASSUME NEW e \in Execs, CancelRead(e) PROVE SafetyInv'
    <3>1. api'.sweep = api.sweep
      BY <1>0, <2>5 DEF CancelRead, Api
    <3> QED
      BY <1>1, <1>r, <1>t, <2>5, <3>1, ApiPreserves DEF CancelRead
  <2>6. CASE CancelWrite
    <3>1. api'.sweep = api.sweep
      BY <1>0, <2>6 DEF CancelWrite, Api
    <3>2. PICK e : e = api.cancel
      OBVIOUS
    <3>3. e \in Execs
      BY <1>0, <2>6, <3>2 DEF CancelWrite, Api
    <3>4. /\ exec'[e].status \in {exec[e].status, "cancelled"} /\ exec'[e].exit = exec[e].exit
          /\ \A x \in Execs \ {e} : exec'[x] = exec[x]
      <4> DEFINE ended == [exec[e] EXCEPT !.status = "cancelled", !.cancelReq = TRUE,
                             !.worker = IF api.seen.owned THEN None ELSE @,
                             !.claim = IF api.seen.owned THEN "none" ELSE @]
                 asked == [exec[e] EXCEPT !.cancelReq = TRUE]
      <4>1. exec' = [exec EXCEPT ![e] = ended] \/ exec' = [exec EXCEPT ![e] = asked]
        BY <2>6, <3>2 DEF CancelWrite
      <4>2. exec[e] \in Row
        BY <1>0, <3>3
      <4>3. ended.status = "cancelled" /\ ended.exit = exec[e].exit
        BY <4>2 DEF Row
      <4>4. asked.status = exec[e].status /\ asked.exit = exec[e].exit
        BY <4>2 DEF Row
      <4> HIDE DEF ended, asked
      <4> QED
        BY <1>0, <3>3, <4>1, <4>3, <4>4
    <3>5. \A x \in Execs : RowStep(x)
      BY <3>4 DEF RowStep
    <3>6. UNCHANGED <<wk, spawned, keys>>
      BY <2>6 DEF CancelWrite
    <3> QED
      BY <1>1, <1>t, <3>1, <3>5, <3>6, ApiPreserves
  <2> QED
    BY <1>1, <2>1, <2>2, <2>3, <2>4, <2>5, <2>6 DEF ApiStep
<1>2. ASSUME Next, NEW w \in Workers, Poll(w) \/ RunExecution(w) \/ Heartbeat(w) \/ Crash(w)
      PROVE  SafetyInv'
  <2>1. CASE Crash(w)
    BY <1>2, <1>r, <1>t, <2>1, IdlePreserves DEF Crash
  <2> QED
    BY <1>2, <1>t, <2>1, PollPreserves, RunPreserves, HeartbeatPreserves
<1>3. ASSUME Next, NEW e \in Execs, ExpireClaim(e) PROVE SafetyInv'
  <2>1. \A f \in Execs : exec'[f].status = exec[f].status /\ exec'[f].exit = exec[f].exit
    BY <1>0, <1>3 DEF ExpireClaim, Row
  <2>2. \A f \in Execs : RowStep(f)
    BY <2>1 DEF RowStep
  <2> QED
    BY <1>3, <1>t, <2>2, ApiPreserves DEF ExpireClaim
<1>4. ASSUME Next, NEW l \in leases, ExpireLease(l) PROVE SafetyInv'
  BY <1>4, <1>r, <1>t, ApiPreserves DEF ExpireLease
<1>5. CASE UNCHANGED vars
  <2>1. UNCHANGED <<exec, keys, wk, api, spawned>>
    BY <1>5 DEF vars
  <2>2. TypeOK'
    BY <1>0, <1>5 DEF vars, TypeOK
  <2> QED
    BY <1>r, <2>1, <2>2, ApiPreserves
<1> QED
  BY <1>1, <1>2, <1>3, <1>4, <1>5, <1>n

LEMMA SafetyInit == Init => SafetyInv
<1> SUFFICES ASSUME Init PROVE SafetyInv
  OBVIOUS
<1> USE ConstantsAssumption
<1>1. TypeOK
  <2>1. exec \in [Execs -> Row]
    BY NoRowType DEF Init
  <2>2. wk \in [Workers -> Worker]
    BY IdleWorkerType DEF Init
  <2>3. api \in Api
    BY NoSnapshot, NoRowType, SeeType DEF Init, IdleApi, Api
  <2> QED
    BY <2>1, <2>2, <2>3 DEF Init, TypeOK
<1>2. \A w \in Workers : wk[w].pc = "idle" /\ ~ wk[w].beat
  BY DEF Init, IdleWorker
<1>3. \A e \in Execs : exec[e].status = "absent" /\ spawned[e] = 0
  BY DEF Init, NoRow
<1>4. WorkHasCommand /\ OneSupervisor
  BY <1>2 DEF WorkHasCommand, OneSupervisor, Supervises
<1>5. ReadsWereActive
  BY <1>2 DEF ReadsWereActive, Init, IdleApi
<1>6. ProcessesStarted
  BY <1>2, <1>3 DEF ProcessesStarted, SpawnedOnce
<1>7. EvidenceCommitted
  BY <1>2, <1>3 DEF EvidenceCommitted
<1> QED
  BY <1>1, <1>4, <1>5, <1>6, <1>7 DEF SafetyInv

-----------------------------------------------------------------------------
(* What the invariant shows. *)

\* The invariant holds of every state the executor, its workers and the API reach.
THEOREM SafetyCorrect == Spec => []SafetyInv
  BY SafetyInit, SafetyStep, PTL DEF Spec

\* Rows, leases, event keys and the workers' local variables keep their types.
THEOREM TypeCorrect == Spec => []TypeOK
<1>1. SafetyInv => TypeOK
  BY DEF SafetyInv
<1> QED
  BY <1>1, SafetyCorrect, PTL

\* However often a claim is lost, reconciled and taken again, by however many
\* workers, _run_execution starts at most one process for a command.
THEOREM StartsOnce == Spec => []SpawnedOnce
<1>1. SafetyInv => SpawnedOnce
  BY DEF SafetyInv, ProcessesStarted
<1> QED
  BY <1>1, SafetyCorrect, PTL

\* A command that succeeded has the evidence of that success (_finish_execution's
\* first commit), whichever worker recorded it and whatever crashed in between.
THEOREM EvidenceFirst == Spec => []SuccessHasEvidence
<1>1. SafetyInv => SuccessHasEvidence
  BY DEF SafetyInv, EvidenceCommitted, SuccessHasEvidence
<1> QED
  BY <1>1, SafetyCorrect, PTL

\* No step puts a mutating command with a started process back into the queue.
LEMMA MutationStep ==
  ASSUME SafetyInv, [Next]_vars, NEW e \in Execs,
         exec[e].mutating, spawned[e] > 0, exec[e].status # "queued"
  PROVE  exec'[e].status # "queued"
<1>0. /\ TypeOK /\ exec \in [Execs -> Row] /\ api \in Api
      /\ \A x \in Execs : exec[x] \in Row
  BY DEF SafetyInv, TypeOK
<1>p. exec[e].status # "absent"
  BY DEF SafetyInv, ProcessesStarted
<1>r. ASSUME NEW snap \in Snapshots, \A x \in DOMAIN snap : snap[x].status \in Active
      PROVE  ReconciledRows(snap)[e].status # "queued"
  BY <1>0, <1>r, ReconciledFacts
<1>s. ASSUME NEW x \in Execs, NEW s, s # "queued", exec' = [exec EXCEPT ![x].status = s]
      PROVE  exec'[e].status # "queued"
  BY <1>0, <1>s DEF Row
<1>1. ASSUME ApiStep PROVE exec'[e].status # "queued"
  <2>1. ASSUME NEW f \in Execs, NEW m \in BOOLEAN, QueueCommand(f, m)
        PROVE  exec'[e].status # "queued"
    BY <1>0, <1>p, <2>1 DEF QueueCommand
  <2>2. ASSUME NEW f \in Execs, NEW x \in Execs, NEW r \in BOOLEAN, QueueRetry(f, x, r)
        PROVE  exec'[e].status # "queued"
    BY <1>0, <1>p, <2>2 DEF QueueRetry
  <2>3. CASE SweepWrite
    <3>1. api.sweep \in Snapshots /\ \A x \in DOMAIN api.sweep : api.sweep[x].status \in Active
      BY <1>0 DEF Api, SafetyInv, ReadsWereActive
    <3>2. ReconciledRows(api.sweep)[e].status # "queued"
      BY <1>r, <3>1
    <3> QED
      BY <2>3, <3>2 DEF SweepWrite
  <2>4. CASE CancelWrite
    <3>1. PICK c : c = api.cancel
      OBVIOUS
    <3>2. c \in Execs
      BY <1>0, <2>4, <3>1 DEF CancelWrite, Api
    <3> DEFINE ended == [exec[c] EXCEPT !.status = "cancelled", !.cancelReq = TRUE,
                           !.worker = IF api.seen.owned THEN None ELSE @,
                           !.claim = IF api.seen.owned THEN "none" ELSE @]
               asked == [exec[c] EXCEPT !.cancelReq = TRUE]
    <3>3. exec' = [exec EXCEPT ![c] = ended] \/ exec' = [exec EXCEPT ![c] = asked]
      BY <2>4, <3>1 DEF CancelWrite
    <3>4. ended.status = "cancelled" /\ asked.status = exec[c].status
      BY <1>0, <3>2 DEF Row
    <3> HIDE DEF ended, asked
    <3> QED
      BY <1>0, <3>2, <3>3, <3>4
  <2>5. CASE SweepRead \/ \E x \in Execs : CancelRead(x)
    BY <2>5 DEF SweepRead, CancelRead
  <2> QED
    BY <1>1, <2>1, <2>2, <2>3, <2>4, <2>5 DEF ApiStep
<1>2. ASSUME NEW w \in Workers, Poll(w) PROVE exec'[e].status # "queued"
  <2>1. CASE PollWrite(w)
    <3> DEFINE rows == ReconciledRows(wk[w].snap)
    <3>1. wk[w].snap \in Snapshots /\ \A x \in DOMAIN wk[w].snap : wk[w].snap[x].status \in Active
      BY <1>0, <2>1, WorkerFields DEF PollWrite, SafetyInv, ReadsWereActive
    <3>2. rows[e].status # "queued" /\ rows \in [Execs -> Row]
      BY <1>0, <1>r, <3>1, ReconciledFacts
    <3> HIDE DEF rows
    <3>3. exec' = rows \/ \E x \in Execs : exec' = [rows EXCEPT ![x] = Claimed(rows[x], w)]
      BY <2>1 DEF PollWrite, rows
    <3>4. \A x \in Execs : Claimed(rows[x], w).status = rows[x].status
      BY <3>2 DEF Claimed, Row
    <3> QED
      BY <3>2, <3>3, <3>4
  <2>2. CASE PollRead(w) \/ PollConflict(w)
    BY <2>2 DEF PollRead, PollConflict
  <2> QED
    BY <1>2, <2>1, <2>2 DEF Poll
<1>3. ASSUME NEW w \in Workers, RunExecution(w) PROVE exec'[e].status # "queued"
  <2>0. wk[w].pc \notin {"idle", "poll"} => wk[w].e \in Execs
    BY DEF SafetyInv, WorkHasCommand
  <2>1. CASE StartWrite(w)
    BY <1>s, <2>0, <2>1 DEF StartWrite
  <2>2. CASE Spawn(w)
    <3>1. exec' = exec \/ exec' = [exec EXCEPT ![wk[w].e].pid = TRUE]
      BY <2>2 DEF Spawn
    <3> QED
      BY <1>0, <3>1 DEF Row
  <2>3. CASE CommitEvidence(w)
    <3>1. wk[w].e \in Execs
      BY <2>0, <2>3 DEF CommitEvidence
    <3>2. WithEvidence(exec[wk[w].e], wk[w].res).status = exec[wk[w].e].status
      BY <1>0, <3>1 DEF WithEvidence, Row
    <3>3. exec' = [exec EXCEPT ![wk[w].e] = WithEvidence(exec[wk[w].e], wk[w].res)]
      BY <2>3 DEF CommitEvidence
    <3> QED
      BY <1>0, <3>1, <3>2, <3>3
  <2>4. CASE CommitTerminal(w)
    <3>1. wk[w].e \in Execs /\ wk[w].res \in Final \cup {None}
      BY <1>0, <2>0, <2>4, WorkerFields DEF CommitTerminal
    <3>2. exec' = exec \/ (/\ exec' = [exec EXCEPT ![wk[w].e].status = wk[w].res]
                          /\ wk[w].res \in LegalTransitions(wk[w].snap[wk[w].e].status))
      BY <2>4 DEF CommitTerminal
    <3>3. wk[w].res # "queued"
      BY <3>1, NoneAssumption DEF Final, Statuses, Active
    <3> QED
      BY <1>s, <3>1, <3>2, <3>3
  <2>5. CASE FailWrite(w)
    <3>1. exec' = exec \/ exec' = [exec EXCEPT ![wk[w].e].status = "failed"]
      BY <2>5 DEF FailWrite
    <3>2. wk[w].e \in Execs
      BY <2>0, <2>5 DEF FailWrite
    <3> QED
      BY <1>s, <3>1, <3>2
  <2>6. CASE exec' = exec
    BY <2>6
  <2> QED
    BY <1>3, <2>1, <2>2, <2>3, <2>4, <2>5, <2>6
       DEF RunExecution, StartRead, StartConflict, ReadInputs, InputsRejected, RuntimeUnbound,
           PolicyRejects, SpawnFails, CapturePrompt, OutputRefused, ProcessEnds, FinishRead,
           CancelRun, FailRead, Release
<1>4. ASSUME NEW w \in Workers, Heartbeat(w) PROVE exec'[e].status # "queued"
  BY <1>0, <1>4 DEF Heartbeat, Row
<1>5. ASSUME NEW x \in Execs, ExpireClaim(x) PROVE exec'[e].status # "queued"
  BY <1>0, <1>5 DEF ExpireClaim, Row
<1>6. ASSUME NEW l \in leases, ExpireLease(l) PROVE exec'[e].status # "queued"
  BY <1>6 DEF ExpireLease
<1>7. CASE UNCHANGED vars
  BY <1>7 DEF vars
<1> QED
  BY <1>1, <1>2, <1>3, <1>4, <1>5, <1>6, <1>7 DEF Next, Crash

\* A mutating command for which a process was started never returns to the queue:
\* reconciliation leaves it for reconstruction or fails it, so an uncertain mutation
\* is not rerun.
THEOREM UncertainNotRequeued == Spec => MutationsNotRequeued
<1>1. SafetyInv /\ [Next]_vars =>
        [\A e \in Execs : (exec[e].mutating /\ spawned[e] > 0 /\ exec[e].status # "queued")
                            => exec'[e].status # "queued"]_vars
  BY MutationStep
<1> QED
  BY <1>1, SafetyCorrect, PTL DEF Spec, MutationsNotRequeued
=============================================================================
