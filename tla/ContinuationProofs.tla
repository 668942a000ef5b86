-------------------------- MODULE ContinuationProofs -------------------------
(***************************************************************************)
(* Proofs about Continuation, for any set of workers, rows old and new and *)
(* any number of requests, crashes, claims and leases that run out.        *)
(***************************************************************************)
EXTENDS Continuation, TLAPS, FiniteSetTheorems

-----------------------------------------------------------------------------
(* The inductive invariant. *)

Worker == [pc : Pcs, seen : Row \cup {None}, cmd : Cmds \cup {0},
           verdict : {"keep", "wake", "block"}]

\* The points at which a worker holds a copy of the row.
Holding == {"poll", "wakeWrite", "write", "failWrite"}

\* The nodes behind gate G07.
AfterGate == {"bootstrap_install", "verify_bootstrap", "angular_update"}

\* What must have happened when a row or a copy of it stands at node n.
Reached(n) ==
  /\ n \in AfterGate => gate.approvals > 0
  /\ n = "angular_update" => step.passed

WorkerFits(t) ==
  /\ t \in Worker
  /\ t.pc \in Holding => t.seen \in Row /\ Reached(t.seen.node)
  /\ t.pc \in {"exec", "woken", "wakeWrite"} => t.cmd \in Cmds
  /\ t.pc = "poll" /\ t.verdict = "wake" => t.cmd \in Cmds

WorkersFit == wk \in [Workers -> Worker] /\ \A w \in Workers : WorkerFits(wk[w])

\* Copies are behind the gate only after an approval, like the row itself.
RowsReached ==
  /\ cont \in Row /\ Reached(cont.node)
  /\ api \in [Requests -> Row \cup {None}]
  /\ \A r \in Requests : api[r] # None => Reached(api[r].node)

\* The step names a command only after an approval, and has passed only on success.
StepProven ==
  /\ step \in [cmd : Cmds \cup {0}, passed : BOOLEAN]
  /\ step.cmd # 0 => gate.approvals > 0
  /\ step.passed => step.cmd # 0 /\ cmd[step.cmd] = "succeeded"

RestTyped ==
  /\ cmd \in [Cmds -> {"none"} \cup ActiveCmd \cup TerminalCmd]
  /\ stop \in [Cmds -> BOOLEAN]
  /\ gate \in [status : {"none", "pending", "approved", "rejected", "cancelled"},
               version : Nat, approvals : Nat]
  /\ woke \subseteq [n : Nat, cmd : Cmds, version : Nat]

ContinuationInv == RestTyped /\ StepProven /\ RowsReached /\ WorkersFit

-----------------------------------------------------------------------------
(* Rows and what the services make of them. *)

\* A flush writes a row, attribute by attribute.
LEMMA FlushRow ==
  ASSUME NEW row \in Row, NEW seen \in Row, NEW new \in Row
  PROVE  /\ Flush(row, seen, new) \in Row
         /\ Flush(row, seen, new).node = IF new.node = seen.node THEN row.node ELSE new.node
         /\ Flush(row, seen, new).status
              = IF new.status = seen.status THEN row.status ELSE new.status
         /\ Flush(row, seen, new).waiting
              = IF new.waiting = seen.waiting THEN row.waiting ELSE new.waiting
<1>1. DOMAIN row = {"status", "node", "worker", "lease", "version", "waiting", "cancelReq",
                    "wakes"}
  BY DEF Row
<1> DEFINE f == Flush(row, seen, new)
<1>2. f = [status |-> IF new.status = seen.status THEN row.status ELSE new.status,
           node |-> IF new.node = seen.node THEN row.node ELSE new.node,
           worker |-> IF new.worker = seen.worker THEN row.worker ELSE new.worker,
           lease |-> IF new.lease = seen.lease THEN row.lease ELSE new.lease,
           version |-> IF new.version = seen.version THEN row.version ELSE new.version,
           waiting |-> IF new.waiting = seen.waiting THEN row.waiting ELSE new.waiting,
           cancelReq |-> IF new.cancelReq = seen.cancelReq THEN row.cancelReq ELSE new.cancelReq,
           wakes |-> IF new.wakes = seen.wakes THEN row.wakes ELSE new.wakes]
  BY <1>1 DEF Flush
<1> HIDE DEF f
<1>3. f \in Row
  BY <1>2 DEF Row
<1> QED
  BY <1>2, <1>3 DEF f

\* _queue, _block and the blocks that park a row give rows.
LEMMA ReleasedRow ==
  ASSUME NEW row \in Row
  PROVE  /\ Released(row) \in Row /\ Released(row).node = row.node
         /\ Released(row).waiting = row.waiting
<1>1. row.version + 1 \in Nat
  BY DEF Row
<1> QED
  BY <1>1 DEF Released, Row

\* A node that goes on queues its successor.
LEMMA QueuedRow ==
  ASSUME NEW row \in Row, NEW n \in Nodes
  PROVE  Queued(row, n) \in Row /\ Queued(row, n).node = n
BY ReleasedRow DEF Queued, Row, Statuses

\* A blocked row stays where it is, with the command it names.
LEMMA BlockedRow ==
  ASSUME NEW row \in Row
  PROVE  /\ Blocked(row) \in Row /\ Blocked(row).node = row.node
         /\ Blocked(row).status = "blocked" /\ Blocked(row).waiting = row.waiting
BY ReleasedRow DEF Blocked, Row, Statuses

\* A row that waits for a command stands at the node that will look at it.
LEMMA WaitingRow ==
  ASSUME NEW row \in Row, NEW n \in Nodes, NEW c \in Cmds
  PROVE  WaitingFor(row, c, n) \in Row /\ WaitingFor(row, c, n).node = n
BY ReleasedRow DEF WaitingFor, Row, Statuses

\* A wake-up leaves the row at its node.
LEMMA WokenRow ==
  ASSUME NEW row \in Row, NEW c \in Cmds
  PROVE  Woken(row, c) \in Row /\ Woken(row, c).node = row.node
<1>1. row.version + 1 \in Nat /\ row.wakes + 1 \in Nat
  BY DEF Row
<1> QED
  BY <1>1 DEF Woken, Row, Statuses

-----------------------------------------------------------------------------
(* What a step may do to rows, copies and workers. *)

ReachedNext(n) ==
  /\ n \in AfterGate => gate'.approvals > 0
  /\ n = "angular_update" => step'.passed

FitsNext(t) ==
  /\ t \in Worker
  /\ t.pc \in Holding => t.seen \in Row /\ ReachedNext(t.seen.node)
  /\ t.pc \in {"exec", "woken", "wakeWrite"} => t.cmd \in Cmds
  /\ t.pc = "poll" /\ t.verdict = "wake" => t.cmd \in Cmds

\* No step takes an approval or a passed step back.
Grows ==
  /\ gate.approvals > 0 => gate'.approvals > 0
  /\ step.passed => step'.passed

RowGoesOn == cont' \in Row /\ ReachedNext(cont'.node)

Goes(w, t) == wk' = [wk EXCEPT ![w] = t]

\* A step that takes no fact back, whose row and whose copies are where they may be, keeps the
\* invariant.
LEMMA StepKeepsRows ==
  ASSUME ContinuationInv, RestTyped', StepProven', Grows, RowGoesOn,
         NEW w, NEW t, wk' = wk \/ (w \in Workers /\ FitsNext(t) /\ Goes(w, t)),
         api' \in [Requests -> Row \cup {None}],
         \A r \in Requests : api'[r] \in {api[r], cont, None}
  PROVE  ContinuationInv'
<1>1. \A n : Reached(n) => ReachedNext(n)
  BY DEF Reached, ReachedNext, Grows
<1>2. \A x \in Workers : FitsNext(wk[x])
  BY <1>1 DEF ContinuationInv, WorkersFit, WorkerFits, FitsNext
<1>3. wk' \in [Workers -> Worker] /\ \A x \in Workers : FitsNext(wk'[x])
  <2>1. CASE wk' = wk
    BY <1>2, <2>1 DEF ContinuationInv, WorkersFit
  <2>2. CASE w \in Workers /\ FitsNext(t) /\ Goes(w, t)
    <3>1. t \in Worker
      BY <2>2 DEF FitsNext
    <3> QED
      BY <1>2, <2>2, <3>1 DEF Goes, ContinuationInv, WorkersFit
  <2> QED
    BY <2>1, <2>2
<1>4. WorkersFit'
  BY <1>3 DEF WorkersFit, WorkerFits, FitsNext, Reached, ReachedNext
<1>5. \A r \in Requests : api'[r] # None => ReachedNext(api'[r].node)
  BY <1>1 DEF ContinuationInv, RowsReached
<1>6. RowsReached'
  BY <1>5 DEF RowsReached, RowGoesOn, Reached, ReachedNext
<1> QED
  BY <1>4, <1>6 DEF ContinuationInv

\* A flush of a copy that goes where the step leads goes on.
LEMMA FlushGoesOn ==
  ASSUME ContinuationInv, Grows, NEW seen \in Row, NEW new \in Row,
         cont' = Flush(cont, seen, new), new.node = seen.node \/ ReachedNext(new.node)
  PROVE  RowGoesOn
<1>1. cont \in Row /\ Reached(cont.node)
  BY DEF ContinuationInv, RowsReached
<1>2. cont' \in Row /\ cont'.node \in {cont.node} \cup
                         (IF new.node = seen.node THEN {} ELSE {new.node})
  BY <1>1, FlushRow
<1> QED
  BY <1>1, <1>2 DEF RowGoesOn, Reached, ReachedNext, Grows

\* A row that is left alone stays where it may be.
LEMMA RowStays ==
  ASSUME ContinuationInv, Grows, cont' = cont
  PROVE  RowGoesOn
BY DEF ContinuationInv, RowsReached, RowGoesOn, Reached, ReachedNext, Grows

\* The points a worker is at without a copy or a command.
Free == {"idle", "claim", "node", "fail"}

\* A worker without a copy and without a command fits.
LEMMA FreeFits ==
  ASSUME NEW pc \in Free
  PROVE  FitsNext([IdleWorker EXCEPT !.pc = pc])
BY DEF Free, FitsNext, IdleWorker, Worker, Pcs, Holding

\* A worker's step that ends without a copy.
LEMMA WorkerMovesOn ==
  ASSUME ContinuationInv, RestTyped', StepProven', Grows, RowGoesOn,
         NEW w \in Workers, NEW pc \in Free, Step(w, pc), api' = api
  PROVE  ContinuationInv'
<1>1. \A r \in Requests : api'[r] \in {api[r], cont, None}
  OBVIOUS
<1>2. api' \in [Requests -> Row \cup {None}]
  BY DEF ContinuationInv, RowsReached
<1>3. Goes(w, [IdleWorker EXCEPT !.pc = pc])
  BY DEF Step, Goes
<1> QED
  BY <1>1, <1>2, <1>3, FreeFits, StepKeepsRows

\* Commands, gates, steps and events that stay.
LEMMA RestStays ==
  ASSUME ContinuationInv, UNCHANGED <<cmd, stop, gate, step>>
  PROVE  StepProven' /\ Grows /\ (woke' = woke => RestTyped')
BY DEF ContinuationInv, RestTyped, StepProven, Grows

\* A worker that holds a copy writes it back.
LEMMA Held ==
  ASSUME ContinuationInv, NEW w \in Workers, wk[w].pc \in Holding
  PROVE  wk[w].seen \in Row /\ wk[w] \in Worker
BY DEF ContinuationInv, WorkersFit, WorkerFits

\* Blocking a row from a copy moves it nowhere.
LEMMA Blocks ==
  ASSUME ContinuationInv, Grows, NEW w \in Workers, wk[w].pc \in Holding,
         Write(w, Blocked(wk[w].seen))
  PROVE  RowGoesOn
BY Held, BlockedRow, FlushGoesOn DEF Write

-----------------------------------------------------------------------------
(* The worker's polls, its commands and the wake-ups. *)

\* A wake-up names a command that has ended.
LEMMA TargetEnded ==
  ASSUME ContinuationInv
  PROVE  /\ WaiterVerdict \in {"keep", "wake", "block"}
         /\ WakeTarget \in Cmds \cup {0}
         /\ WaiterVerdict = "wake" => WakeTarget \in Cmds /\ cmd[WakeTarget] \in TerminalCmd
<1>1. cont.waiting \in Cmds \cup {0}
  BY DEF ContinuationInv, RowsReached, Row
<1>2. CASE cont.status # "waiting_command"
  <2>1. WaiterVerdict = "keep"
    BY <1>2 DEF WaiterVerdict
  <2>2. WakeTarget = 0
    BY <2>1 DEF WakeTarget
  <2> QED
    BY <2>1, <2>2
<1>3. CASE cont.status = "waiting_command" /\ cont.waiting # 0
  BY <1>1, <1>3 DEF WaiterVerdict, WakeTarget
<1>4. CASE cont.status = "waiting_command" /\ cont.waiting = 0
  <2>1. CASE EndedCmds = {}
    <3>1. Cardinality(EndedCmds) = 0
      BY <2>1, FS_EmptySet
    <3> QED
      BY <1>4, <3>1 DEF WaiterVerdict, WakeTarget
  <2>2. CASE EndedCmds # {}
    <3>1. (CHOOSE c \in EndedCmds : TRUE) \in EndedCmds
      BY <2>2
    <3>2. WaiterVerdict \in {"keep", "wake", "block"}
      BY <1>4 DEF WaiterVerdict
    <3>3. WakeTarget = IF WaiterVerdict # "wake" THEN 0 ELSE (CHOOSE c \in EndedCmds : TRUE)
      BY <1>4 DEF WakeTarget
    <3> QED
      BY <3>1, <3>2, <3>3 DEF EndedCmds
  <2> QED
    BY <2>1, <2>2
<1> QED
  BY <1>2, <1>3, <1>4

\* The sweep names a command only if it decides to wake.
LEMMA PollReads ==
  ASSUME ContinuationInv, NEW w \in Workers, PollRead(w)
  PROVE  ContinuationInv'
<1> DEFINE t == [pc |-> "poll", seen |-> cont, cmd |-> WakeTarget, verdict |-> WaiterVerdict]
<1>1. StepProven' /\ Grows /\ RestTyped' /\ RowGoesOn
  BY RestStays, RowStays DEF PollRead
<1>2. cont \in Row /\ Reached(cont.node) /\ api \in [Requests -> Row \cup {None}]
  BY DEF ContinuationInv, RowsReached
<1>3. ReachedNext(cont.node)
  BY <1>1, <1>2 DEF Reached, ReachedNext, Grows
<1>4. t \in Worker /\ t.pc = "poll" /\ t.seen = cont
  BY <1>2, TargetEnded DEF Worker, Pcs
<1>5. FitsNext(t)
  BY <1>2, <1>3, <1>4, TargetEnded DEF FitsNext
<1>6. Goes(w, t) /\ api' = api
  BY DEF PollRead, Goes
<1> HIDE DEF t
<1> QED
  BY <1>1, <1>2, <1>5, <1>6, StepKeepsRows

\* The event of a wake-up is one, and the flush leaves the row where it stands.
LEMMA WakeWrites ==
  ASSUME ContinuationInv, NEW w \in Workers, wk[w].pc \in Holding, wk[w].cmd \in Cmds,
         Wake(w), Grows
  PROVE  RowGoesOn /\ woke' \subseteq [n : Nat, cmd : Cmds, version : Nat]
<1>1. wk[w].seen \in Row
  BY Held
<1>2. RowGoesOn
  BY <1>1, WokenRow, FlushGoesOn DEF Wake, Write
<1>3. wk[w].seen.wakes + 1 \in Nat /\ wk[w].seen.version \in Nat
  BY <1>1 DEF Row
<1>4. WakeEvent(w) \in [n : Nat, cmd : Cmds, version : Nat]
  BY <1>3 DEF WakeEvent
<1> QED
  BY <1>2, <1>4 DEF Wake, ContinuationInv, RestTyped

\* Commands that have succeeded stay so.
CmdsGoOn ==
  /\ cmd' \in [Cmds -> {"none"} \cup ActiveCmd \cup TerminalCmd]
  /\ \A c \in Cmds : cmd[c] = "succeeded" => cmd'[c] = "succeeded"

\* Commands that go on leave a passed step proven.
LEMMA CmdsStep ==
  ASSUME ContinuationInv, CmdsGoOn, UNCHANGED step, Grows
  PROVE  StepProven'
BY DEF ContinuationInv, StepProven, CmdsGoOn, Grows

\* Commands that are left alone go on.
LEMMA CmdsStay ==
  ASSUME ContinuationInv, UNCHANGED cmd
  PROVE  CmdsGoOn
BY DEF ContinuationInv, RestTyped, CmdsGoOn

\* The sweep's flush and the claim of a queued command.
LEMMA PollWrites ==
  ASSUME ContinuationInv, NEW w \in Workers, PollWrite(w)
  PROVE  ContinuationInv'
<1>1. wk[w].pc = "poll" /\ UNCHANGED <<stop, gate, step, api>>
  BY DEF PollWrite
<1>2. Grows
  BY <1>1 DEF Grows
<1>3. wk[w].pc \in Holding /\ (wk[w].verdict = "wake" => wk[w].cmd \in Cmds)
  BY <1>1 DEF Holding, ContinuationInv, WorkersFit, WorkerFits
<1>4. RowGoesOn /\ woke' \subseteq [n : Nat, cmd : Cmds, version : Nat]
  <2>1. CASE wk[w].verdict = "wake" /\ Wake(w)
    BY <1>2, <1>3, <2>1, WakeWrites
  <2>2. CASE Write(w, Blocked(wk[w].seen)) /\ UNCHANGED woke
    BY <1>2, <1>3, <2>2, Blocks DEF ContinuationInv, RestTyped
  <2>3. CASE UNCHANGED <<cont, woke>>
    BY <1>2, <2>3, RowStays DEF ContinuationInv, RestTyped
  <2> QED
    BY <2>1, <2>2, <2>3 DEF PollWrite
<1>5. CmdsGoOn
  <2>1. CASE cmd' = cmd
    BY <2>1, CmdsStay
  <2>2. CASE \E c \in Cmds : cmd[c] = "queued" /\ cmd' = [cmd EXCEPT ![c] = "running"]
    BY <2>2 DEF CmdsGoOn, ContinuationInv, RestTyped, ActiveCmd
  <2> QED
    BY <2>1, <2>2 DEF PollWrite
<1>6. StepProven' /\ RestTyped'
  BY <1>1, <1>2, <1>4, <1>5, CmdsStep DEF RestTyped, CmdsGoOn, ContinuationInv
<1>7. CASE Step(w, "claim")
  BY <1>1, <1>2, <1>4, <1>6, <1>7, WorkerMovesOn DEF Free
<1>8. CASE \E c \in Cmds : wk' = [wk EXCEPT ![w] = [IdleWorker EXCEPT !.pc = "exec", !.cmd = c]]
  <2>1. PICK c \in Cmds : Goes(w, [IdleWorker EXCEPT !.pc = "exec", !.cmd = c])
    BY <1>8 DEF Goes
  <2>2. FitsNext([IdleWorker EXCEPT !.pc = "exec", !.cmd = c])
    BY DEF FitsNext, IdleWorker, Worker, Pcs, Holding
  <2>3. api' \in [Requests -> Row \cup {None}]
    BY <1>1 DEF ContinuationInv, RowsReached
  <2> QED
    BY <1>1, <1>2, <1>4, <1>6, <2>1, <2>2, <2>3, StepKeepsRows
<1> QED
  BY <1>7, <1>8 DEF PollWrite

\* A worker whose program counter or copy changes, commands at most change otherwise.
LEMMA CommandsEnd ==
  ASSUME ContinuationInv, NEW w \in Workers, CommandEnds(w)
  PROVE  ContinuationInv'
<1> DEFINE t == [wk[w] EXCEPT !.pc = "woken"]
<1>1. UNCHANGED <<cont, stop, gate, step, woke, api>> /\ wk[w].pc = "exec"
  BY DEF CommandEnds
<1>2. Grows
  BY <1>1 DEF Grows
<1>3. wk[w] \in Worker /\ wk[w].cmd \in Cmds
  BY <1>1 DEF ContinuationInv, WorkersFit, WorkerFits
<1>4. CmdsGoOn
  <2>1. PICK s \in TerminalCmd :
          cmd' = [cmd EXCEPT ![wk[w].cmd] = IF @ = "running" THEN s ELSE @]
    BY DEF CommandEnds
  <2> QED
    BY <1>3, <2>1 DEF CmdsGoOn, ContinuationInv, RestTyped
<1>5. StepProven' /\ RestTyped'
  BY <1>1, <1>2, <1>4, CmdsStep DEF RestTyped, CmdsGoOn, ContinuationInv
<1>6. t \in Worker /\ t.pc = "woken" /\ t.cmd \in Cmds
  BY <1>3 DEF Worker, Pcs
<1>7. Goes(w, t)
  BY DEF CommandEnds, Goes
<1> HIDE DEF t
<1>8. FitsNext(t)
  BY <1>6 DEF FitsNext, Holding
<1>9. api' \in [Requests -> Row \cup {None}]
  BY <1>1 DEF ContinuationInv, RowsReached
<1> QED
  BY <1>1, <1>2, <1>5, <1>7, <1>8, <1>9, RowStays, StepKeepsRows

\* The worker that ran a command copies the row that waits for it.
LEMMA WakeReads ==
  ASSUME ContinuationInv, NEW w \in Workers, WakeRead(w)
  PROVE  ContinuationInv'
<1> DEFINE t == [wk[w] EXCEPT !.pc = "wakeWrite", !.seen = cont, !.verdict = "wake"]
<1>1. UNCHANGED <<cont, cmd, stop, gate, step, woke, api>> /\ wk[w].pc = "woken"
  BY DEF WakeRead
<1>2. StepProven' /\ Grows /\ RestTyped' /\ RowGoesOn
  BY <1>1, RestStays, RowStays
<1>3. CASE Step(w, "idle")
  BY <1>1, <1>2, <1>3, WorkerMovesOn DEF Free
<1>4. CASE Goes(w, t)
  <2>1. wk[w] \in Worker /\ wk[w].cmd \in Cmds
    BY <1>1 DEF ContinuationInv, WorkersFit, WorkerFits
  <2>2. cont \in Row /\ ReachedNext(cont.node) /\ api' \in [Requests -> Row \cup {None}]
    BY <1>1, <1>2 DEF ContinuationInv, RowsReached, RowGoesOn
  <2>3. t \in Worker /\ t.pc = "wakeWrite" /\ t.cmd \in Cmds /\ t.seen = cont
    BY <2>1, <2>2 DEF Worker, Pcs
  <2> HIDE DEF t
  <2>4. FitsNext(t)
    BY <2>2, <2>3 DEF FitsNext
  <2> QED
    BY <1>1, <1>2, <1>4, <2>2, <2>4, StepKeepsRows
<1> QED
  BY <1>3, <1>4 DEF WakeRead, Goes

\* A wake-up is written, or refused as a replay of another.
LEMMA WakeEnds ==
  ASSUME ContinuationInv, NEW w \in Workers, WakeWrite(w) \/ WakeRefused(w)
  PROVE  ContinuationInv'
<1>1. UNCHANGED <<cmd, stop, gate, step, api>> /\ Step(w, "idle")
  BY DEF WakeWrite, WakeRefused
<1>2. StepProven' /\ Grows
  BY <1>1, RestStays
<1>3. CASE WakeWrite(w)
  <2>1. wk[w].pc \in Holding /\ wk[w].cmd \in Cmds /\ Wake(w)
    BY <1>3 DEF WakeWrite, Holding, ContinuationInv, WorkersFit, WorkerFits
  <2>2. RowGoesOn /\ RestTyped'
    BY <1>1, <1>2, <2>1, WakeWrites DEF RestTyped, ContinuationInv
  <2> QED
    BY <1>1, <1>2, <2>2, WorkerMovesOn DEF Free
<1>4. CASE WakeRefused(w)
  <2>1. RowGoesOn /\ RestTyped'
    BY <1>1, <1>2, <1>4, RowStays, RestStays DEF WakeRefused
  <2> QED
    BY <1>1, <1>2, <2>1, WorkerMovesOn DEF Free
<1> QED
  BY <1>3, <1>4

\* A command that is given up had not succeeded.
LEMMA LossKeeps ==
  ASSUME ContinuationInv, NEW c \in Cmds, CommandLost(c)
  PROVE  ContinuationInv'
<1>1. UNCHANGED <<cont, stop, gate, step, woke, wk, api>>
      /\ cmd[c] = "running" /\ cmd' = [cmd EXCEPT ![c] = "failed"]
  BY DEF CommandLost, LostStatus
<1>2. Grows /\ CmdsGoOn
  BY <1>1 DEF Grows, CmdsGoOn, ContinuationInv, RestTyped, TerminalCmd
<1>3. StepProven' /\ RestTyped'
  BY <1>1, <1>2, CmdsStep DEF RestTyped, CmdsGoOn, ContinuationInv
<1>4. RowsReached'
  BY <1>1 DEF RowsReached, Reached, ContinuationInv
<1>5. WorkersFit'
  BY <1>1 DEF WorkersFit, WorkerFits, Reached, ContinuationInv
<1> QED
  BY <1>3, <1>4, <1>5 DEF ContinuationInv

-----------------------------------------------------------------------------
(* The nodes. *)

\* A claim changes who owns the row, and not where it stands.
LEMMA Claims ==
  ASSUME ContinuationInv, NEW w \in Workers, ClaimNext(w)
  PROVE  ContinuationInv'
<1>1. UNCHANGED <<cmd, stop, gate, step, woke, api>>
  BY DEF ClaimNext
<1>2. StepProven' /\ Grows /\ RestTyped'
  BY <1>1, RestStays
<1>3. CASE cont' = cont
  BY <1>1, <1>2, <1>3, RowStays, WorkerMovesOn DEF ClaimNext, Free
<1>4. CASE cont' = [cont EXCEPT !.status = "running", !.worker = w, !.lease = "live",
                                !.version = @ + 1] /\ Step(w, "node")
  <2>1. cont \in Row /\ Reached(cont.node)
    BY DEF ContinuationInv, RowsReached
  <2>2. cont.version + 1 \in Nat
    BY <2>1 DEF Row
  <2>3. cont' \in Row /\ cont'.node = cont.node
    BY <1>4, <2>1, <2>2 DEF Row, Statuses
  <2>4. RowGoesOn
    BY <1>2, <2>1, <2>3 DEF RowGoesOn, Reached, ReachedNext, Grows
  <2> QED
    BY <1>1, <1>2, <1>4, <2>4, WorkerMovesOn DEF Free
<1> QED
  BY <1>3, <1>4 DEF ClaimNext

\* A copy is taken of the row as it is.
LEMMA CopyKeeps ==
  ASSUME ContinuationInv, NEW w \in Workers, NEW pc \in {"write", "failWrite"},
         wk[w].pc \in {"node", "fail"}, Copy(w, pc) \/ Step(w, "idle"),
         UNCHANGED <<cont, cmd, stop, gate, step, woke, api>>
  PROVE  ContinuationInv'
<1> DEFINE t == [wk[w] EXCEPT !.pc = pc, !.seen = cont]
<1>1. StepProven' /\ Grows /\ RestTyped' /\ RowGoesOn
  BY RestStays, RowStays
<1>2. CASE Step(w, "idle")
  BY <1>1, <1>2, WorkerMovesOn DEF Free
<1>3. CASE Goes(w, t)
  <2>1. wk[w] \in Worker /\ cont \in Row /\ ReachedNext(cont.node)
    BY <1>1 DEF ContinuationInv, WorkersFit, WorkerFits, RowsReached, RowGoesOn
  <2>2. t \in Worker /\ t.pc = pc /\ t.seen = cont
    BY <2>1 DEF Worker, Pcs
  <2> HIDE DEF t
  <2>3. FitsNext(t) /\ api' \in [Requests -> Row \cup {None}]
    BY <2>1, <2>2 DEF FitsNext, ContinuationInv, RowsReached
  <2> QED
    BY <1>1, <1>3, <2>3, StepKeepsRows
<1> QED
  BY <1>2, <1>3 DEF Copy, Goes

\* A node and fail() copy the row as it is.
LEMMA ReadsKeep ==
  ASSUME ContinuationInv, NEW w \in Workers, NodeRead(w) \/ FailRead(w)
  PROVE  ContinuationInv'
BY CopyKeeps DEF NodeRead, FailRead

\* Whatever a node does, it does with a copy that stands at it.
LEMMA AtNode ==
  ASSUME ContinuationInv, NEW w \in Workers, NEW n, At(w, n)
  PROVE  /\ wk[w].seen \in Row /\ wk[w].seen.node = n /\ Reached(n)
         /\ wk[w].pc \in Holding
BY DEF At, ContinuationInv, WorkersFit, WorkerFits, Holding

\* A node that goes on writes the next node, which the stage has reached.
LEMMA NodeGoesOn ==
  ASSUME ContinuationInv, Grows, NEW w \in Workers, wk[w].pc \in Holding,
         NEW new \in Row, Write(w, new),
         new.node = wk[w].seen.node \/ ReachedNext(new.node)
  PROVE  RowGoesOn
BY Held, FlushGoesOn DEF Write

\* The nodes before the gate lead to no node behind it.
LEMMA PlainKeeps ==
  ASSUME ContinuationInv, NEW w \in Workers, PlainNode(w)
  PROVE  ContinuationInv'
<1>1. UNCHANGED <<cmd, stop, gate, step, woke, api>>
  BY DEF PlainNode
<1>2. StepProven' /\ Grows /\ RestTyped'
  BY <1>1, RestStays
<1>3. PICK n \in PlainNodes :
        /\ At(w, n)
        /\ \/ Write(w, Queued(wk[w].seen, NextNode[n])) /\ Step(w, "idle")
           \/ Write(w, Blocked(wk[w].seen)) /\ Step(w, "idle")
           \/ Raise(w)
  BY DEF PlainNode
<1>4. wk[w].seen \in Row /\ wk[w].pc \in Holding
  BY <1>3, AtNode
<1>5. CASE Write(w, Queued(wk[w].seen, NextNode[n])) /\ Step(w, "idle")
  <2>1. NextNode[n] \in Nodes \ AfterGate
    BY DEF PlainNodes, NextNode, Nodes, AfterGate
  <2>2. RowGoesOn
    BY <1>2, <1>4, <1>5, <2>1, QueuedRow, NodeGoesOn DEF ReachedNext, AfterGate
  <2> QED
    BY <1>1, <1>2, <1>5, <2>2, WorkerMovesOn DEF Free
<1>6. CASE Write(w, Blocked(wk[w].seen)) /\ Step(w, "idle")
  BY <1>1, <1>2, <1>4, <1>6, Blocks, WorkerMovesOn DEF Free
<1>7. CASE Raise(w)
  BY <1>1, <1>2, <1>7, RowStays, WorkerMovesOn DEF Raise, Free
<1> QED
  BY <1>3, <1>5, <1>6, <1>7

\* A new G07 package takes no approval back.
LEMMA GateKeeps ==
  ASSUME ContinuationInv, NEW w \in Workers, CreateG07(w)
  PROVE  ContinuationInv'
<1> DEFINE new == [Released(wk[w].seen) EXCEPT !.status = "waiting_gate", !.node = "wait_g07"]
<1>1. UNCHANGED <<cmd, stop, step, woke, api>> /\ At(w, "create_g07")
  BY DEF CreateG07
<1>2. wk[w].seen \in Row /\ wk[w].pc \in Holding
  BY <1>1, AtNode
<1>3. CASE UNCHANGED <<cont, gate>>
  <2>1. StepProven' /\ Grows /\ RestTyped' /\ RowGoesOn
    BY <1>1, <1>3, RestStays, RowStays
  <2> QED
    BY <1>1, <2>1, WorkerMovesOn DEF CreateG07, Raise, Free
<1>4. CASE /\ gate' = [gate EXCEPT !.status = "pending", !.version = wk[w].seen.version + 1]
           /\ Write(w, new) /\ Step(w, "idle")
  <2>1. wk[w].seen.version + 1 \in Nat
    BY <1>2 DEF Row
  <2>2. /\ gate' \in [status : {"none", "pending", "approved", "rejected", "cancelled"},
                      version : Nat, approvals : Nat]
        /\ gate'.approvals = gate.approvals
    BY <1>4, <2>1 DEF ContinuationInv, RestTyped
  <2>3. Grows /\ RestTyped' /\ StepProven'
    BY <1>1, <2>2 DEF Grows, RestTyped, StepProven, ContinuationInv
  <2>4. new \in Row /\ new.node = "wait_g07"
    BY <1>2, ReleasedRow DEF Row, Statuses, Nodes
  <2> HIDE DEF new
  <2>5. RowGoesOn
    BY <1>2, <1>4, <2>3, <2>4, NodeGoesOn DEF ReachedNext, AfterGate
  <2> QED
    BY <1>1, <1>4, <2>3, <2>5, WorkerMovesOn DEF Free
<1> QED
  BY <1>3, <1>4 DEF CreateG07, Raise

\* A command is queued, or the one its key names stays what it is.
LEMMA CommandQueued ==
  ASSUME ContinuationInv, NEW c \in Cmds,
         cmd' = [cmd EXCEPT ![c] = IF @ = "none" THEN "queued" ELSE @]
  PROVE  CmdsGoOn
BY DEF CmdsGoOn, ContinuationInv, RestTyped, ActiveCmd

\* The install node is behind the gate, so a command is queued only after an approval.
LEMMA InstallKeeps ==
  ASSUME ContinuationInv, NEW w \in Workers, BootstrapInstall(w)
  PROVE  ContinuationInv'
<1>1. UNCHANGED <<stop, gate, woke, api>> /\ At(w, "bootstrap_install")
  BY DEF BootstrapInstall
<1>2. /\ wk[w].seen \in Row /\ wk[w].pc \in Holding /\ gate.approvals > 0
      /\ wk[w].seen.node = "bootstrap_install"
  BY <1>1, AtNode DEF Reached, AfterGate
<1>3. step \in [cmd : Cmds \cup {0}, passed : BOOLEAN]
  BY DEF ContinuationInv, StepProven
<1>4. CASE UNCHANGED <<cmd, step>>
  <2>1. StepProven' /\ Grows /\ RestTyped'
    BY <1>1, <1>4, RestStays
  <2>2. RowGoesOn
    <3>1. CASE cont' = cont
      BY <2>1, <3>1, RowStays
    <3>2. CASE Write(w, Queued(wk[w].seen, "verify_bootstrap"))
      <4>1. "verify_bootstrap" \in Nodes /\ ReachedNext("verify_bootstrap")
        BY <1>1, <1>2 DEF Nodes, ReachedNext
      <4> QED
        BY <1>2, <2>1, <3>2, <4>1, QueuedRow, NodeGoesOn
    <3>3. CASE Write(w, WaitingFor(wk[w].seen, 1, "verify_bootstrap"))
      <4>1. "verify_bootstrap" \in Nodes /\ ReachedNext("verify_bootstrap") /\ 1 \in Cmds
        BY <1>1, <1>2 DEF Nodes, ReachedNext, Cmds
      <4> QED
        BY <1>2, <2>1, <3>3, <4>1, WaitingRow, NodeGoesOn
    <3> QED
      BY <3>1, <3>2, <3>3 DEF BootstrapInstall, Raise
  <2> QED
    BY <1>1, <2>1, <2>2, WorkerMovesOn DEF BootstrapInstall, Raise, Free
<1>5. CASE /\ ~ step.passed
           /\ cmd' = [cmd EXCEPT ![1] = IF @ = "none" THEN "queued" ELSE @]
           /\ step' = [step EXCEPT !.cmd = 1]
           /\ Write(w, WaitingFor(wk[w].seen, 1, "verify_bootstrap"))
           /\ Step(w, "idle")
  <2>1. 1 \in Cmds
    BY DEF Cmds
  <2>2. step' \in [cmd : Cmds \cup {0}, passed : BOOLEAN] /\ ~ step'.passed
    BY <1>3, <1>5, <2>1
  <2>3. CmdsGoOn /\ Grows
    BY <1>1, <1>5, <2>1, CommandQueued DEF Grows
  <2>4. StepProven' /\ RestTyped'
    BY <1>1, <1>2, <2>2, <2>3 DEF StepProven, RestTyped, CmdsGoOn, ContinuationInv
  <2>5. "verify_bootstrap" \in Nodes /\ ReachedNext("verify_bootstrap")
    BY <1>1, <1>2 DEF Nodes, ReachedNext
  <2>6. RowGoesOn
    BY <1>2, <1>5, <2>1, <2>3, <2>5, WaitingRow, NodeGoesOn
  <2> QED
    BY <1>1, <1>5, <2>3, <2>4, <2>6, WorkerMovesOn DEF Free
<1> QED
  BY <1>4, <1>5 DEF BootstrapInstall

\* The retry is queued only for an install that failed, which no passed step has.
LEMMA VerifyKeeps ==
  ASSUME ContinuationInv, NEW w \in Workers, VerifyBootstrap(w)
  PROVE  ContinuationInv'
<1> DEFINE seen == wk[w].seen
           c == step.cmd
<1>1. UNCHANGED <<stop, gate, woke, api>> /\ At(w, "verify_bootstrap")
  BY DEF VerifyBootstrap
<1>2. /\ seen \in Row /\ wk[w].pc \in Holding /\ gate.approvals > 0
      /\ seen.node = "verify_bootstrap" /\ seen.node \in Nodes
  BY <1>1, AtNode DEF Reached, AfterGate, Row
<1>3. step \in [cmd : Cmds \cup {0}, passed : BOOLEAN] /\ StepProven
  BY DEF ContinuationInv, StepProven
<1>4. CASE UNCHANGED <<cmd, step>>
  <2>1. StepProven' /\ Grows /\ RestTyped'
    BY <1>1, <1>4, RestStays
  <2>2. CASE Raise(w)
    BY <1>1, <2>1, <2>2, RowStays, WorkerMovesOn DEF Raise, Free
  <2>3. CASE c # 0 /\ Write(w, WaitingFor(seen, c, seen.node)) /\ Step(w, "idle")
    <3>1. c \in Cmds
      BY <1>3, <2>3
    <3>2. RowGoesOn
      BY <1>2, <2>1, <2>3, <3>1, WaitingRow, NodeGoesOn
    <3> QED
      BY <1>1, <2>1, <2>3, <3>2, WorkerMovesOn DEF Free
  <2>4. CASE Passes(c) /\ step' = [step EXCEPT !.passed = TRUE]
             /\ Write(w, Queued(seen, "angular_update")) /\ Step(w, "idle")
    <3>1. step'.passed
      BY <1>3, <2>4
    <3>2. "angular_update" \in Nodes /\ ReachedNext("angular_update")
      BY <1>1, <1>2, <3>1 DEF Nodes, ReachedNext
    <3>3. RowGoesOn
      BY <1>2, <2>1, <2>4, <3>2, QueuedRow, NodeGoesOn
    <3> QED
      BY <1>1, <2>1, <2>4, <3>3, WorkerMovesOn DEF Free
  <2>5. CASE /\ c = 1 /\ cmd[c] = "failed"
             /\ step' = [step EXCEPT !.cmd = 2]
    BY <1>3, <1>4, <2>5
  <2> QED
    BY <2>2, <2>3, <2>4, <2>5 DEF VerifyBootstrap
<1>5. CASE /\ c = 1 /\ cmd[c] = "failed"
           /\ cmd' = [cmd EXCEPT ![2] = IF @ = "none" THEN "queued" ELSE @]
           /\ step' = [step EXCEPT !.cmd = 2]
           /\ Write(w, WaitingFor(seen, 2, seen.node))
           /\ Step(w, "idle")
  <2>1. 2 \in Cmds
    BY DEF Cmds
  <2>2. ~ step.passed
    BY <1>3, <1>5 DEF StepProven
  <2>3. step' \in [cmd : Cmds \cup {0}, passed : BOOLEAN] /\ ~ step'.passed
    BY <1>3, <1>5, <2>1, <2>2
  <2>4. CmdsGoOn /\ Grows
    BY <1>1, <1>5, <2>1, <2>2, CommandQueued DEF Grows
  <2>5. StepProven' /\ RestTyped'
    BY <1>1, <1>2, <2>3, <2>4 DEF StepProven, RestTyped, CmdsGoOn, ContinuationInv
  <2>6. RowGoesOn
    BY <1>2, <1>5, <2>1, <2>4, WaitingRow, NodeGoesOn
  <2> QED
    BY <1>1, <1>5, <2>4, <2>5, <2>6, WorkerMovesOn DEF Free
<1>6. CASE /\ Passes(c) /\ step' = [step EXCEPT !.passed = TRUE] /\ cmd' = cmd
           /\ Write(w, Queued(seen, "angular_update")) /\ Step(w, "idle")
  <2>1. c # 0 /\ cmd[c] = "succeeded"
    BY <1>6 DEF Passes
  <2>2. /\ step' \in [cmd : Cmds \cup {0}, passed : BOOLEAN]
        /\ step'.cmd = c /\ step'.passed
    BY <1>3, <1>6
  <2>3. Grows /\ StepProven' /\ RestTyped'
    BY <1>1, <1>2, <1>6, <2>1, <2>2 DEF Grows, StepProven, RestTyped, ContinuationInv
  <2>4. "angular_update" \in Nodes /\ ReachedNext("angular_update")
    BY <1>1, <1>2, <2>2 DEF Nodes, ReachedNext
  <2>5. RowGoesOn
    BY <1>2, <1>6, <2>3, <2>4, QueuedRow, NodeGoesOn
  <2> QED
    BY <1>1, <1>6, <2>3, <2>5, WorkerMovesOn DEF Free
<1> QED
  BY <1>4, <1>5, <1>6 DEF VerifyBootstrap

\* A cancelled stage keeps what was approved.
LEMMA CancelKeeps ==
  ASSUME ContinuationInv, NEW w \in Workers, CancelNode(w)
  PROVE  ContinuationInv'
<1> DEFINE new == [Released(wk[w].seen) EXCEPT !.status = "cancelled", !.node = "terminal"]
<1>1. UNCHANGED <<cmd, step, woke, api>> /\ At(w, "cancel") /\ Step(w, "idle") /\ Write(w, new)
  BY DEF CancelNode
<1>2. wk[w].seen \in Row /\ wk[w].pc \in Holding
  BY <1>1, AtNode
<1>3. stop' \in [Cmds -> BOOLEAN]
  BY DEF CancelNode, ContinuationInv, RestTyped
<1>4. /\ gate' \in [status : {"none", "pending", "approved", "rejected", "cancelled"},
                    version : Nat, approvals : Nat]
      /\ gate'.approvals = gate.approvals
  BY DEF CancelNode, ContinuationInv, RestTyped
<1>5. Grows /\ RestTyped' /\ StepProven'
  BY <1>1, <1>3, <1>4 DEF Grows, RestTyped, StepProven, ContinuationInv
<1>6. new \in Row /\ new.node = "terminal"
  BY <1>2, ReleasedRow DEF Row, Statuses, Nodes
<1> HIDE DEF new
<1>7. RowGoesOn
  BY <1>1, <1>2, <1>5, <1>6, NodeGoesOn DEF ReachedNext, AfterGate
<1> QED
  BY <1>1, <1>5, <1>7, WorkerMovesOn DEF Free

\* The end of a failed node, a node nobody handles, a crash.
LEMMA FailuresKeep ==
  ASSUME ContinuationInv, NEW w \in Workers, UnsupportedNode(w) \/ FailWrite(w) \/ Crash(w)
  PROVE  ContinuationInv'
<1>1. UNCHANGED <<cmd, stop, gate, step, woke, api>>
  BY DEF UnsupportedNode, FailWrite, Crash
<1>2. StepProven' /\ Grows /\ RestTyped'
  BY <1>1, RestStays
<1>3. CASE FailWrite(w)
  <2>1. wk[w].pc \in Holding /\ Write(w, Blocked(wk[w].seen)) /\ Step(w, "idle")
    BY <1>3 DEF FailWrite, Holding
  <2>2. RowGoesOn
    BY <1>2, <2>1, Blocks
  <2> QED
    BY <1>1, <1>2, <2>1, <2>2, WorkerMovesOn DEF Free
<1>4. CASE UnsupportedNode(w) \/ Crash(w)
  BY <1>1, <1>2, <1>4, RowStays, WorkerMovesOn DEF UnsupportedNode, Raise, Crash, Free
<1> QED
  BY <1>3, <1>4

\* A lease that runs out leaves the row where it stands.
LEMMA ExpiryKeeps ==
  ASSUME ContinuationInv, ExpireAbandoned \/ ExpireBusy
  PROVE  ContinuationInv'
<1>1. /\ UNCHANGED <<cmd, stop, gate, step, woke, wk, api>>
      /\ cont' = [cont EXCEPT !.lease = "expired"]
  BY DEF ExpireAbandoned, ExpireBusy
<1>2. StepProven' /\ Grows /\ RestTyped'
  BY <1>1, RestStays
<1>3. cont \in Row /\ Reached(cont.node) /\ api' \in [Requests -> Row \cup {None}]
  BY <1>1 DEF ContinuationInv, RowsReached
<1>4. RowGoesOn
  BY <1>1, <1>2, <1>3 DEF RowGoesOn, Row, Reached, ReachedNext, Grows
<1> QED
  BY <1>1, <1>2, <1>3, <1>4, StepKeepsRows

-----------------------------------------------------------------------------
(* The requests. *)

\* A request copies the row.
LEMMA BeginKeeps ==
  ASSUME ContinuationInv, NEW r \in Requests, NEW counter, NEW max, Begin(r, counter, max)
  PROVE  ContinuationInv'
<1>1. UNCHANGED <<cont, cmd, stop, gate, step, woke, wk>> /\ api' = [api EXCEPT ![r] = cont]
  BY DEF Begin
<1>2. StepProven' /\ Grows /\ RestTyped' /\ RowGoesOn
  BY <1>1, RestStays, RowStays
<1>3. cont \in Row /\ api \in [Requests -> Row \cup {None}]
  BY DEF ContinuationInv, RowsReached
<1>4. api' \in [Requests -> Row \cup {None}] /\ \A q \in Requests : api'[q] \in {api[q], cont}
  BY <1>1, <1>3
<1> QED
  BY <1>1, <1>2, <1>4, StepKeepsRows

\* A request copies the row as it is.
LEMMA RequestsBegin ==
  ASSUME ContinuationInv, RequestBegins
  PROVE  ContinuationInv'
<1>1. {"cancel", "cancelCommand", "restart", "approve", "reject"} \subseteq Requests
  BY DEF Requests
<1> QED
  BY <1>1, BeginKeeps DEF RequestBegins, CancelRead, CancelCommandRead, RestartRead, DecideRead

\* A request that ends flushes its copy.
LEMMA EndKeeps ==
  ASSUME ContinuationInv, Grows, RestTyped', StepProven', NEW r \in Requests, NEW new \in Row,
         End(r, new), new.node = api[r].node \/ ReachedNext(new.node)
  PROVE  ContinuationInv'
<1>1. api[r] \in Row /\ api \in [Requests -> Row \cup {None}]
  BY DEF End, ContinuationInv, RowsReached
<1>2. RowGoesOn
  BY <1>1, FlushGoesOn DEF End
<1>3. /\ api' = [api EXCEPT ![r] = None] /\ wk' = wk
  BY DEF End
<1>4. api' \in [Requests -> Row \cup {None}] /\ \A q \in Requests : api'[q] \in {api[q], None}
  BY <1>1, <1>3
<1> QED
  BY <1>2, <1>3, <1>4, StepKeepsRows

\* What a cancellation does to the commands.
LEMMA CancelledCommands ==
  ASSUME ContinuationInv, CancelActiveCommand, UNCHANGED <<gate, step, woke>>
  PROVE  Grows /\ RestTyped' /\ StepProven'
<1>1. Grows
  BY DEF Grows
<1>2. CmdsGoOn
  BY DEF CancelActiveCommand, CmdsGoOn, ContinuationInv, RestTyped, TerminalCmd
<1>3. stop' \in [Cmds -> BOOLEAN]
  BY DEF CancelActiveCommand, ContinuationInv, RestTyped
<1> QED
  BY <1>1, <1>2, <1>3, CmdsStep DEF RestTyped, CmdsGoOn, ContinuationInv

\* A request's copy is a row.
LEMMA CopyOf ==
  ASSUME ContinuationInv, NEW r \in Requests, api[r] # None
  PROVE  api[r] \in Row /\ Reached(api[r].node)
         /\ api[r].wakes + 1 \in Nat /\ api[r].version + 1 \in Nat
<1>1. api[r] \in Row /\ Reached(api[r].node)
  BY DEF ContinuationInv, RowsReached
<1> QED
  BY <1>1 DEF Row

\* A cancellation, whole or of the command alone, cancels no command that succeeded.
LEMMA CancelsKeep ==
  ASSUME ContinuationInv, CancelWrite \/ CancelCommandWrite
  PROVE  ContinuationInv'
<1>1. CASE CancelWrite
  <2> DEFINE new == [Released(api["cancel"]) EXCEPT !.cancelReq = TRUE,
                       !.status = "cancelling", !.node = "cancel"]
  <2>1. End("cancel", new) /\ CancelActiveCommand /\ UNCHANGED gate /\ "cancel" \in Requests
    BY <1>1 DEF CancelWrite, Requests
  <2>2. UNCHANGED <<step, woke>> /\ api["cancel"] # None
    BY <2>1 DEF End
  <2>3. api["cancel"] \in Row
    BY <2>1, <2>2, CopyOf
  <2>4. new \in Row /\ new.node = "cancel"
    BY <2>3, ReleasedRow DEF Row, Statuses, Nodes
  <2> HIDE DEF new
  <2> QED
    BY <2>1, <2>2, <2>4, CancelledCommands, EndKeeps DEF ReachedNext, AfterGate
<1>2. CASE CancelCommandWrite
  <2> DEFINE seen == api["cancelCommand"]
             woken == [seen EXCEPT !.status = "queued", !.wakes = @ + 1, !.version = @ + 1]
  <2>1. PICK new \in {seen, woken} :
          End("cancelCommand", new) /\ CancelActiveCommand /\ UNCHANGED gate
    BY <1>2 DEF CancelCommandWrite
  <2>2. UNCHANGED <<step, woke>> /\ seen # None /\ "cancelCommand" \in Requests
    BY <2>1 DEF End, Requests
  <2>3. seen \in Row /\ seen.wakes + 1 \in Nat /\ seen.version + 1 \in Nat
    BY <2>2, CopyOf
  <2>4. new \in Row /\ new.node = seen.node
    BY <2>1, <2>3 DEF Row, Statuses
  <2> QED
    BY <2>1, <2>2, <2>4, CancelledCommands, EndKeeps
<1> QED
  BY <1>1, <1>2

\* A restart queues the row where it stands.
LEMMA RestartKeeps ==
  ASSUME ContinuationInv, RestartWrite
  PROVE  ContinuationInv'
<1> DEFINE seen == api["restart"]
           queued == [Released(seen) EXCEPT !.status = "queued", !.wakes = @ + 1]
<1>1. PICK new \in {seen, queued} : End("restart", new) /\ UNCHANGED <<cmd, stop, gate>>
  BY DEF RestartWrite
<1>2. UNCHANGED <<step, woke>> /\ seen # None /\ "restart" \in Requests
  BY <1>1 DEF End, Requests
<1>3. seen \in Row
  BY <1>2, CopyOf
<1>4. Released(seen) \in Row /\ Released(seen).node = seen.node
  BY <1>3, ReleasedRow
<1>5. Released(seen).wakes + 1 \in Nat
  BY <1>4 DEF Row
<1>6. new \in Row /\ new.node = seen.node
  BY <1>1, <1>3, <1>4, <1>5 DEF Row, Statuses
<1> QED
  BY <1>1, <1>2, <1>6, RestStays, EndKeeps

\* An approval is what opens the nodes behind the gate.
LEMMA DecisionsKeep ==
  ASSUME ContinuationInv, ApproveWrite \/ RejectWrite
  PROVE  ContinuationInv'
<1>1. UNCHANGED <<cmd, stop, step, woke>>
  BY DEF ApproveWrite, RejectWrite, End
<1>2. CASE ApproveWrite
  <2> DEFINE seen == api["approve"]
             new == [seen EXCEPT !.status = "queued", !.wakes = @ + 1,
                                 !.node = "bootstrap_install", !.version = @ + 1]
  <2>1. /\ End("approve", new) /\ seen # None /\ "approve" \in Requests
        /\ gate' = [gate EXCEPT !.status = "approved", !.approvals = @ + 1]
    BY <1>2 DEF ApproveWrite, End, Requests
  <2>2. gate.approvals \in Nat /\ gate.approvals + 1 \in Nat /\ gate.approvals + 1 > 0
    BY DEF ContinuationInv, RestTyped
  <2>3. /\ gate' \in [status : {"none", "pending", "approved", "rejected", "cancelled"},
                      version : Nat, approvals : Nat]
        /\ gate'.approvals > 0
    BY <2>1, <2>2 DEF ContinuationInv, RestTyped
  <2>4. Grows /\ RestTyped' /\ StepProven'
    BY <1>1, <2>3 DEF Grows, RestTyped, StepProven, ContinuationInv
  <2>5. seen \in Row /\ seen.wakes + 1 \in Nat /\ seen.version + 1 \in Nat
    BY <2>1, CopyOf
  <2>6. new \in Row /\ new.node = "bootstrap_install"
    BY <2>5 DEF Row, Statuses, Nodes
  <2> HIDE DEF new
  <2> QED
    BY <2>1, <2>3, <2>4, <2>6, EndKeeps DEF ReachedNext
<1>3. CASE RejectWrite
  <2> DEFINE seen == api["reject"]
             new == [seen EXCEPT !.status = "blocked", !.version = @ + 1]
  <2>1. /\ End("reject", new) /\ seen # None /\ "reject" \in Requests
        /\ gate' = [gate EXCEPT !.status = "rejected"]
    BY <1>3 DEF RejectWrite, End, Requests
  <2>2. /\ gate' \in [status : {"none", "pending", "approved", "rejected", "cancelled"},
                      version : Nat, approvals : Nat]
        /\ gate'.approvals = gate.approvals
    BY <2>1 DEF ContinuationInv, RestTyped
  <2>3. Grows /\ RestTyped' /\ StepProven'
    BY <1>1, <2>2 DEF Grows, RestTyped, StepProven, ContinuationInv
  <2>4. seen \in Row /\ seen.version + 1 \in Nat
    BY <2>1, CopyOf
  <2>5. new \in Row /\ new.node = seen.node
    BY <2>4 DEF Row, Statuses
  <2> HIDE DEF new
  <2> QED
    BY <2>1, <2>3, <2>5, EndKeeps
<1> QED
  BY <1>2, <1>3

-----------------------------------------------------------------------------
(* The theorems. *)

\* A fresh row stands before the gate, a legacy row behind an approval.
LEMMA StartsRight == Init => ContinuationInv
<1> SUFFICES ASSUME Init
             PROVE  ContinuationInv
  OBVIOUS
<1>1. RestTyped
  <2>1. CASE FreshRow
    BY <2>1 DEF Init, FreshRow, RestTyped
  <2>2. CASE LegacyRow
    <3>1. cmd \in [Cmds -> {"none"} \cup ActiveCmd \cup TerminalCmd]
      BY <2>2 DEF LegacyRow, Cmds, TerminalCmd
    <3> QED
      BY <2>2, <3>1 DEF Init, LegacyRow, RestTyped
  <2> QED
    BY <2>1, <2>2 DEF Init
<1>2. StepProven
  <2>1. CASE FreshRow
    BY <2>1 DEF FreshRow, StepProven
  <2>2. CASE LegacyRow
    <3>1. step \in [cmd : Cmds \cup {0}, passed : BOOLEAN] /\ ~ step.passed
      <4>1. \E c \in {0, 1, 2} : step = [cmd |-> c, passed |-> FALSE]
        BY <2>2 DEF LegacyRow
      <4>2. PICK c \in Cmds \cup {0} : step = [cmd |-> c, passed |-> FALSE]
        BY <4>1 DEF Cmds
      <4> QED
        BY <4>2
    <3>2. gate.approvals > 0
      BY <2>2 DEF LegacyRow
    <3> QED
      BY <3>1, <3>2 DEF StepProven
  <2> QED
    BY <2>1, <2>2 DEF Init
<1>3. RowsReached
  <2>1. cont \in Row /\ Reached(cont.node)
    <3>1. CASE FreshRow
      <4>1. FirstNode \in Nodes \ AfterGate
        BY ConstantsAssumption DEF Nodes, PlainNodes, AfterGate
      <4> QED
        BY <3>1, <4>1 DEF FreshRow, Row, Statuses, Reached, AfterGate
    <3>2. CASE LegacyRow
      BY <3>2 DEF LegacyRow, Row, Statuses, Nodes, Reached
    <3> QED
      BY <3>1, <3>2 DEF Init
  <2> QED
    BY <2>1 DEF Init, RowsReached
<1>4. WorkersFit
  <2>1. /\ IdleWorker \in Worker /\ IdleWorker.pc = "idle"
    BY DEF IdleWorker, Worker, Pcs
  <2>2. WorkerFits(IdleWorker)
    BY <2>1 DEF WorkerFits, Holding
  <2> HIDE DEF IdleWorker
  <2> QED
    BY <2>1, <2>2 DEF Init, WorkersFit
<1> QED
  BY <1>1, <1>2, <1>3, <1>4 DEF ContinuationInv

\* Every step of a worker, a request or the clock keeps the invariant.
LEMMA StepKeepsInv == ContinuationInv /\ [Next]_vars => ContinuationInv'
<1> SUFFICES ASSUME ContinuationInv, [Next]_vars
             PROVE  ContinuationInv'
  OBVIOUS
<1>1. ASSUME NEW w \in Workers, RunOnce(w)
      PROVE  ContinuationInv'
  <2>1. CASE PollRead(w) \/ PollWrite(w) \/ CommandEnds(w) \/ WakeRead(w) \/ WakeWrite(w)
             \/ WakeRefused(w) \/ ClaimNext(w)
    BY <2>1, PollReads, PollWrites, CommandsEnd, WakeReads, WakeEnds, Claims
  <2>2. CASE NodeRead(w) \/ PlainNode(w) \/ CreateG07(w) \/ BootstrapInstall(w)
             \/ VerifyBootstrap(w) \/ CancelNode(w)
    BY <2>2, ReadsKeep, PlainKeeps, GateKeeps, InstallKeeps, VerifyKeeps, CancelKeeps
  <2>3. CASE UnsupportedNode(w) \/ FailRead(w) \/ FailWrite(w)
    BY <2>3, ReadsKeep, FailuresKeep
  <2> QED
    BY <1>1, <2>1, <2>2, <2>3 DEF RunOnce
<1>2. ASSUME NEW w \in Workers, Crash(w)
      PROVE  ContinuationInv'
  BY <1>2, FailuresKeep
<1>3. CASE UNCHANGED vars
  <2>1. StepProven' /\ Grows /\ RestTyped' /\ RowGoesOn
    BY <1>3, RestStays, RowStays DEF vars
  <2> QED
    BY <1>3, <2>1, StepKeepsRows DEF vars, ContinuationInv, RowsReached
<1> QED
  BY <1>1, <1>2, <1>3, LossKeeps, RequestsBegin, CancelsKeep, RestartKeeps, DecisionsKeep,
     ExpiryKeeps DEF Next, RequestEnds

\* Every state a continuation reaches has the invariant: the row and every copy of it stand
\* where an approval and a verified install allow, however old the copy is.
THEOREM ContinuationCorrect == Spec => []ContinuationInv
<1>1. Init => ContinuationInv
  BY StartsRight
<1>2. ContinuationInv /\ [Next]_vars => ContinuationInv'
  BY StepKeepsInv
<1> QED
  BY <1>1, <1>2, PTL DEF Spec

\* The row, the commands, the gate and the workers keep their shapes.
THEOREM TypeCorrect == Spec => []TypeOK
<1>1. ContinuationInv => TypeOK
  BY DEF ContinuationInv, RestTyped, StepProven, RowsReached, WorkersFit, Worker, TypeOK
<1> QED
  BY <1>1, ContinuationCorrect, PTL

\* The step of the bootstrap install names a command only after an approval of G07, through
\* lost claims, restarts, cancellations and writes of stale copies.
THEOREM InstallAfterApprovalAlways == Spec => []InstallAfterApproval
<1>1. ContinuationInv => InstallAfterApproval
  BY DEF ContinuationInv, StepProven, InstallAfterApproval
<1> QED
  BY <1>1, ContinuationCorrect, PTL

\* A row that stands at the Angular update has an install that passed and whose command
\* succeeded, and no stale verification takes that back.
THEOREM UpdateAfterVerifiedInstallAlways == Spec => []UpdateAfterVerifiedInstall
<1>1. ContinuationInv => UpdateAfterVerifiedInstall
  BY DEF ContinuationInv, StepProven, RowsReached, Reached, UpdateAfterVerifiedInstall
<1> QED
  BY <1>1, ContinuationCorrect, PTL

-----------------------------------------------------------------------------
(* One worker: the wake-ups.  A second worker can write a stale node over   *)
(* the row between a sweep's read and its write, so this needs the          *)
(* deployment with one Transformer worker.                                  *)

Alone == \A v, w \in Workers : v = w

\* The points at which a worker owns a node.
AtWork == {"node", "write", "fail", "failWrite"}

\* A wake-up under way is that of a command that has ended, and a row whose node is
\* worked on is not parked.
WakeFits(w) ==
  /\ wk[w].pc \in AtWork => cont.status # "waiting_command"
  /\ (wk[w].pc = "poll" /\ wk[w].verdict = "wake" /\ cont.status = "waiting_command"
        /\ cont.waiting # 0)
     => cmd[cont.waiting] \in TerminalCmd
  /\ wk[w].pc = "exec" => cmd[wk[w].cmd] \in {"running"} \cup TerminalCmd
  /\ wk[w].pc \in {"woken", "wakeWrite"} => cmd[wk[w].cmd] \in TerminalCmd
  /\ (wk[w].pc = "wakeWrite" /\ cont.status = "waiting_command")
     => cont.waiting \in {0, wk[w].cmd}

WakesFit == \A w \in Workers : WakeFits(w)

\* Commands only end, and what has ended stays.
CmdsOnward ==
  \A c \in Cmds : /\ cmd[c] \in TerminalCmd => cmd'[c] = cmd[c]
                  /\ cmd[c] = "running" => cmd'[c] \in {"running"} \cup TerminalCmd

\* The row names the same command and is not parked anew.
ParksOnward ==
  /\ cont'.waiting = cont.waiting
  /\ cont'.status = "waiting_command" => cont.status = "waiting_command"

\* A step in which the worker only looks on keeps its wake-up right.
LEMMA OthersKeepWakes ==
  ASSUME ContinuationInv, WakesFit, CmdsOnward, ParksOnward, wk' = wk
  PROVE  WakesFit'
<1> SUFFICES ASSUME NEW w \in Workers
             PROVE  WakeFits(w)'
  BY DEF WakesFit
<1>1. WakeFits(w) /\ wk'[w] = wk[w]
  BY DEF WakesFit
<1>2. /\ wk[w].pc \in {"exec", "woken", "wakeWrite"} => wk[w].cmd \in Cmds
      /\ cont.waiting \in Cmds \cup {0}
  BY DEF ContinuationInv, WorkersFit, WorkerFits, RowsReached, Row
<1>3. wk[w].pc \in AtWork => cont'.status # "waiting_command"
  BY <1>1 DEF WakeFits, ParksOnward
<1>4. (wk[w].pc = "poll" /\ wk[w].verdict = "wake" /\ cont'.status = "waiting_command"
         /\ cont'.waiting # 0)
      => cmd'[cont'.waiting] \in TerminalCmd
  BY <1>1, <1>2 DEF WakeFits, ParksOnward, CmdsOnward
<1>5. /\ wk[w].pc = "exec" => cmd'[wk[w].cmd] \in {"running"} \cup TerminalCmd
      /\ wk[w].pc \in {"woken", "wakeWrite"} => cmd'[wk[w].cmd] \in TerminalCmd
  BY <1>1, <1>2 DEF WakeFits, CmdsOnward
<1>6. (wk[w].pc = "wakeWrite" /\ cont'.status = "waiting_command")
      => cont'.waiting \in {0, wk[w].cmd}
  BY <1>1 DEF WakeFits, ParksOnward
<1> QED
  BY <1>1, <1>3, <1>4, <1>5, <1>6 DEF WakeFits

\* A worker alone that ends a step without a copy is no longer waking anybody.
LEMMA FreeKeepsWakes ==
  ASSUME ContinuationInv, Alone, NEW w \in Workers, NEW pc \in Free, Step(w, pc),
         pc \in AtWork => cont'.status # "waiting_command"
  PROVE  WakesFit'
<1> SUFFICES ASSUME NEW v \in Workers
             PROVE  WakeFits(v)'
  BY DEF WakesFit
<1>1. v = w
  BY DEF Alone
<1>2. wk'[v] = [IdleWorker EXCEPT !.pc = pc]
  BY <1>1 DEF Step, ContinuationInv, WorkersFit
<1>3. wk'[v].pc = pc
  BY <1>2 DEF IdleWorker
<1> QED
  BY <1>3 DEF WakeFits, Free

\* A request that ends parks nothing, whatever the copy it flushes.
LEMMA EndParksNothing ==
  ASSUME ContinuationInv, NEW r \in Requests, NEW new \in Row, End(r, new),
         new.waiting = api[r].waiting, new.status # "waiting_command" \/ new = api[r]
  PROVE  ParksOnward
<1>1. api[r] \in Row /\ cont \in Row /\ cont' = Flush(cont, api[r], new)
  BY DEF End, ContinuationInv, RowsReached
<1> QED
  BY <1>1, FlushRow DEF ParksOnward

\* A worker's write that leaves the status to the row, or sets another.
LEMMA WriteParksNothing ==
  ASSUME ContinuationInv, NEW w \in Workers, wk[w].pc \in Holding, NEW new \in Row,
         Write(w, new), new.waiting = wk[w].seen.waiting, new.status # "waiting_command"
  PROVE  ParksOnward
<1>1. wk[w].seen \in Row /\ cont \in Row /\ cont' = Flush(cont, wk[w].seen, new)
  BY Held DEF Write, ContinuationInv, RowsReached
<1> QED
  BY <1>1, FlushRow DEF ParksOnward

\* A worker alone: what a step does to wk[w] decides.
LEMMA OwnWakeFits ==
  ASSUME Alone, NEW w \in Workers, WakeFits(w)'
  PROVE  WakesFit'
BY DEF Alone, WakesFit

\* The sweeps and what follows a command: a wake-up begins for a command that has ended, and
\* the row still names it when it is read.
LEMMA WakeStepsFit ==
  ASSUME ContinuationInv, WakesFit, Alone, NEW w \in Workers,
         PollRead(w) \/ PollWrite(w) \/ CommandEnds(w) \/ WakeRead(w) \/ WakeWrite(w)
           \/ WakeRefused(w)
  PROVE  WakesFit'
<1>1. WakeFits(w) /\ wk \in [Workers -> Worker] /\ WorkerFits(wk[w])
  BY DEF WakesFit, ContinuationInv, WorkersFit
<1>2. CASE PollRead(w)
  <2>1. /\ wk'[w].pc = "poll" /\ wk'[w].verdict = WaiterVerdict
        /\ UNCHANGED <<cont, cmd>>
    BY <1>1, <1>2 DEF PollRead
  <2>2. cont.status = "waiting_command" /\ cont.waiting # 0 /\ WaiterVerdict = "wake"
        => cmd[cont.waiting] \in TerminalCmd
    BY DEF WaiterVerdict
  <2>3. WakeFits(w)'
    BY <2>1, <2>2 DEF WakeFits, AtWork
  <2> QED
    BY <2>3, OwnWakeFits
<1>3. CASE PollWrite(w)
  <2>1. CASE Step(w, "claim")
    BY <2>1, FreeKeepsWakes DEF Free, AtWork
  <2>2. CASE \E c \in Cmds :
               /\ cmd[c] = "queued" /\ cmd' = [cmd EXCEPT ![c] = "running"]
               /\ wk' = [wk EXCEPT ![w] = [IdleWorker EXCEPT !.pc = "exec", !.cmd = c]]
    <3>1. PICK c \in Cmds :
            /\ cmd' = [cmd EXCEPT ![c] = "running"]
            /\ wk' = [wk EXCEPT ![w] = [IdleWorker EXCEPT !.pc = "exec", !.cmd = c]]
      BY <2>2
    <3>2. wk'[w].pc = "exec" /\ wk'[w].cmd = c /\ cmd'[c] = "running"
      BY <1>1, <3>1 DEF IdleWorker, ContinuationInv, RestTyped
    <3>3. WakeFits(w)'
      BY <3>2 DEF WakeFits, AtWork
    <3> QED
      BY <3>3, OwnWakeFits
  <2> QED
    BY <1>3, <2>1, <2>2 DEF PollWrite
<1>4. CASE CommandEnds(w)
  <2>1. PICK s \in TerminalCmd :
          cmd' = [cmd EXCEPT ![wk[w].cmd] = IF @ = "running" THEN s ELSE @]
    BY <1>4 DEF CommandEnds
  <2>2. /\ wk[w].pc = "exec" /\ wk[w].cmd \in Cmds
        /\ wk' = [wk EXCEPT ![w].pc = "woken"]
    BY <1>1, <1>4 DEF CommandEnds, WorkerFits
  <2>3. cmd'[wk[w].cmd] \in TerminalCmd
    BY <1>1, <2>1, <2>2 DEF WakeFits, ContinuationInv, RestTyped
  <2>4. wk'[w].pc = "woken" /\ wk'[w].cmd = wk[w].cmd
    BY <1>1, <2>2 DEF Worker
  <2>5. WakeFits(w)'
    BY <2>3, <2>4 DEF WakeFits, AtWork
  <2> QED
    BY <2>5, OwnWakeFits
<1>5. CASE WakeRead(w)
  <2>1. CASE Step(w, "idle")
    BY <2>1, FreeKeepsWakes DEF Free, AtWork
  <2>2. CASE /\ cont.waiting \in {0, wk[w].cmd}
             /\ wk' = [wk EXCEPT ![w].pc = "wakeWrite", ![w].seen = cont,
                                 ![w].verdict = "wake"]
    <3>1. wk[w].pc = "woken" /\ UNCHANGED <<cont, cmd>>
      BY <1>5 DEF WakeRead
    <3>2. wk'[w].pc = "wakeWrite" /\ wk'[w].cmd = wk[w].cmd
      BY <1>1, <2>2 DEF Worker
    <3>3. WakeFits(w)'
      BY <1>1, <2>2, <3>1, <3>2 DEF WakeFits, AtWork
    <3> QED
      BY <3>3, OwnWakeFits
  <2> QED
    BY <1>5, <2>1, <2>2 DEF WakeRead
<1>6. CASE WakeWrite(w) \/ WakeRefused(w)
  BY <1>6, FreeKeepsWakes DEF WakeWrite, WakeRefused, Free, AtWork
<1> QED
  BY <1>2, <1>3, <1>4, <1>5, <1>6

\* A node is worked on only while the row is claimed, and its end lets go of it.
LEMMA NodeStepsFit ==
  ASSUME ContinuationInv, WakesFit, Alone, NEW w \in Workers,
         \/ ClaimNext(w) \/ NodeRead(w) \/ FailRead(w) \/ FailWrite(w) \/ Crash(w)
         \/ PlainNode(w) \/ CreateG07(w) \/ BootstrapInstall(w) \/ VerifyBootstrap(w)
         \/ CancelNode(w) \/ UnsupportedNode(w)
  PROVE  WakesFit'
<1>1. WakeFits(w) /\ wk \in [Workers -> Worker] /\ cont \in Row
  BY DEF WakesFit, ContinuationInv, WorkersFit, RowsReached
<1>2. CASE Step(w, "idle")
  BY <1>2, FreeKeepsWakes DEF Free, AtWork
<1>3. CASE ClaimNext(w)
  <2>1. CASE cont' = [cont EXCEPT !.status = "running", !.worker = w, !.lease = "live",
                                  !.version = @ + 1] /\ Step(w, "node")
    <3>1. cont'.status = "running"
      BY <1>1, <2>1 DEF Row
    <3> QED
      BY <2>1, <3>1, FreeKeepsWakes DEF Free
  <2> QED
    BY <1>2, <1>3, <2>1 DEF ClaimNext
<1>4. CASE NodeRead(w) \/ FailRead(w)
  <2>1. UNCHANGED <<cont, cmd>>
    BY <1>4 DEF NodeRead, FailRead
  <2>2. CASE Owned(w) /\ (Copy(w, "write") \/ Copy(w, "failWrite"))
    <3>1. wk'[w].pc \in {"write", "failWrite"}
      BY <1>1, <2>2 DEF Copy, Worker
    <3>2. cont'.status # "waiting_command"
      BY <2>1, <2>2 DEF Owned
    <3>3. WakeFits(w)'
      BY <3>1, <3>2 DEF WakeFits
    <3> QED
      BY <3>3, OwnWakeFits
  <2> QED
    BY <1>2, <1>4, <2>2 DEF NodeRead, FailRead
<1>5. CASE wk[w].pc = "write" /\ Raise(w)
  <2>1. cont'.status # "waiting_command"
    BY <1>1, <1>5 DEF WakeFits, AtWork, Raise
  <2> QED
    BY <1>5, <2>1, FreeKeepsWakes DEF Raise, Free
<1>6. CASE PlainNode(w) \/ CreateG07(w) \/ UnsupportedNode(w)
  BY <1>2, <1>5, <1>6 DEF PlainNode, CreateG07, UnsupportedNode, At
<1>7. CASE BootstrapInstall(w) \/ VerifyBootstrap(w)
  BY <1>2, <1>5, <1>7 DEF BootstrapInstall, VerifyBootstrap, At
<1>8. CASE FailWrite(w) \/ Crash(w) \/ CancelNode(w)
  BY <1>2, <1>8 DEF FailWrite, Crash, CancelNode
<1> QED
  BY <1>3, <1>4, <1>6, <1>7, <1>8

\* A request that begins or ends, a lost command and a lease that runs out park nothing.
LEMMA OthersParkNothing ==
  ASSUME ContinuationInv,
         \/ RequestBegins \/ RequestEnds \/ ExpireAbandoned \/ ExpireBusy
         \/ \E c \in Cmds : CommandLost(c)
  PROVE  CmdsOnward /\ ParksOnward /\ wk' = wk
<1>1. CASE RequestBegins \/ ExpireAbandoned \/ ExpireBusy
  <2>1. UNCHANGED <<cmd, wk>> /\ (cont' = cont \/ cont' = [cont EXCEPT !.lease = "expired"])
    BY <1>1 DEF RequestBegins, CancelRead, CancelCommandRead, RestartRead, DecideRead, Begin,
                ExpireAbandoned, ExpireBusy
  <2>2. cont'.waiting = cont.waiting /\ cont'.status = cont.status
    BY <2>1 DEF ContinuationInv, RowsReached, Row
  <2> QED
    BY <2>1, <2>2 DEF CmdsOnward, ParksOnward
<1>2. CASE \E c \in Cmds : CommandLost(c)
  <2>1. PICK c \in Cmds : /\ cmd[c] = "running" /\ cmd' = [cmd EXCEPT ![c] = "failed"]
                          /\ UNCHANGED <<cont, wk>>
    BY <1>2 DEF CommandLost, LostStatus
  <2> QED
    BY <2>1 DEF CmdsOnward, ParksOnward, ContinuationInv, RestTyped, TerminalCmd
<1>3. CASE CancelWrite
  <2> DEFINE new == [Released(api["cancel"]) EXCEPT !.cancelReq = TRUE,
                       !.status = "cancelling", !.node = "cancel"]
  <2>1. End("cancel", new) /\ CancelActiveCommand /\ "cancel" \in Requests
    BY <1>3 DEF CancelWrite, Requests
  <2>2. api["cancel"] \in Row /\ wk' = wk
    BY <2>1, CopyOf DEF End
  <2>3. new \in Row /\ new.waiting = api["cancel"].waiting /\ new.status = "cancelling"
    BY <2>2, ReleasedRow DEF Row, Statuses, Nodes
  <2> HIDE DEF new
  <2>4. ParksOnward
    BY <2>1, <2>3, EndParksNothing
  <2>5. CmdsOnward
    BY <2>1 DEF CancelActiveCommand, CmdsOnward, TerminalCmd
  <2> QED
    BY <2>2, <2>4, <2>5
<1>4. CASE CancelCommandWrite
  <2> DEFINE seen == api["cancelCommand"]
             woken == [seen EXCEPT !.status = "queued", !.wakes = @ + 1, !.version = @ + 1]
  <2>1. PICK new \in {seen, woken} :
          End("cancelCommand", new) /\ CancelActiveCommand
    BY <1>4 DEF CancelCommandWrite
  <2>2. seen # None /\ "cancelCommand" \in Requests /\ wk' = wk
    BY <2>1 DEF End, Requests
  <2>3. seen \in Row /\ seen.wakes + 1 \in Nat /\ seen.version + 1 \in Nat
    BY <2>2, CopyOf
  <2>4. new \in Row /\ new.waiting = seen.waiting /\ (new = seen \/ new.status = "queued")
    BY <2>1, <2>3 DEF Row, Statuses
  <2>5. ParksOnward
    BY <2>1, <2>2, <2>4, EndParksNothing
  <2>6. CmdsOnward
    BY <2>1 DEF CancelActiveCommand, CmdsOnward, TerminalCmd
  <2> QED
    BY <2>2, <2>5, <2>6
<1>5. CASE RestartWrite
  <2> DEFINE seen == api["restart"]
             queued == [Released(seen) EXCEPT !.status = "queued", !.wakes = @ + 1]
  <2>1. PICK new \in {seen, queued} : End("restart", new) /\ UNCHANGED cmd
    BY <1>5 DEF RestartWrite
  <2>2. seen # None /\ "restart" \in Requests /\ wk' = wk
    BY <2>1 DEF End, Requests
  <2>3. Released(seen) \in Row /\ Released(seen).waiting = seen.waiting /\ seen \in Row
    BY <2>2, CopyOf, ReleasedRow
  <2>4. Released(seen).wakes + 1 \in Nat
    BY <2>3 DEF Row
  <2>5. new \in Row /\ new.waiting = seen.waiting /\ (new = seen \/ new.status = "queued")
    BY <2>1, <2>3, <2>4 DEF Row, Statuses
  <2>6. ParksOnward
    BY <2>1, <2>2, <2>5, EndParksNothing
  <2> QED
    BY <2>1, <2>2, <2>6 DEF CmdsOnward
<1>6. CASE ApproveWrite
  <2> DEFINE seen == api["approve"]
             new == [seen EXCEPT !.status = "queued", !.wakes = @ + 1,
                                 !.node = "bootstrap_install", !.version = @ + 1]
  <2>1. End("approve", new) /\ UNCHANGED cmd
    BY <1>6 DEF ApproveWrite
  <2>2. seen # None /\ "approve" \in Requests /\ wk' = wk
    BY <2>1 DEF End, Requests
  <2>3. seen \in Row /\ seen.wakes + 1 \in Nat /\ seen.version + 1 \in Nat
    BY <2>2, CopyOf
  <2>4. new \in Row /\ new.waiting = seen.waiting /\ new.status = "queued"
    BY <2>3 DEF Row, Statuses, Nodes
  <2> HIDE DEF new
  <2>5. ParksOnward
    BY <2>1, <2>2, <2>4, EndParksNothing
  <2> QED
    BY <2>1, <2>2, <2>5 DEF CmdsOnward
<1>7. CASE RejectWrite
  <2> DEFINE seen == api["reject"]
             new == [seen EXCEPT !.status = "blocked", !.version = @ + 1]
  <2>1. End("reject", new) /\ UNCHANGED cmd
    BY <1>7 DEF RejectWrite
  <2>2. seen # None /\ "reject" \in Requests /\ wk' = wk
    BY <2>1 DEF End, Requests
  <2>3. seen \in Row /\ seen.version + 1 \in Nat
    BY <2>2, CopyOf
  <2>4. new \in Row /\ new.waiting = seen.waiting /\ new.status = "blocked"
    BY <2>3 DEF Row, Statuses
  <2> HIDE DEF new
  <2>5. ParksOnward
    BY <2>1, <2>2, <2>4, EndParksNothing
  <2> QED
    BY <2>1, <2>2, <2>5 DEF CmdsOnward
<1> QED
  BY <1>1, <1>2, <1>3, <1>4, <1>5, <1>6, <1>7 DEF RequestEnds

\* A worker alone keeps its wake-ups right, whatever requests and the clock do.
LEMMA StepKeepsWakes ==
  ASSUME ContinuationInv, WakesFit, Alone, [Next]_vars
  PROVE  WakesFit'
<1>1. ASSUME NEW w \in Workers, RunOnce(w) \/ Crash(w)
      PROVE  WakesFit'
  BY <1>1, WakeStepsFit, NodeStepsFit DEF RunOnce
<1>2. CASE UNCHANGED vars
  BY <1>2, OthersKeepWakes DEF vars, CmdsOnward, ParksOnward
<1> QED
  BY <1>1, <1>2, OthersParkNothing, OthersKeepWakes DEF Next

\* A parked row that a step of the worker queues had a command that has ended.
WakesOnce ==
  (cont.status = "waiting_command" /\ cont.waiting # 0 /\ cont'.status = "queued"
     /\ api' = api)
  => cmd[cont.waiting] \in TerminalCmd

\* The sweep's wake-up and the worker's own are for the command the row names.
LEMMA WorkerWakes ==
  ASSUME ContinuationInv, WakesFit, NEW w \in Workers, RunOnce(w) \/ Crash(w)
  PROVE  WakesOnce
<1>1. WakeFits(w) /\ cont \in Row
  BY DEF WakesFit, ContinuationInv, RowsReached
<1>2. CASE cont' = cont
  BY <1>2 DEF WakesOnce
<1>3. CASE wk[w].pc \in AtWork
  BY <1>1, <1>3 DEF WakesOnce, WakeFits
<1>4. CASE PollWrite(w)
  <2>1. wk[w].pc = "poll"
    BY <1>4 DEF PollWrite
  <2>2. CASE wk[w].verdict = "wake"
    BY <1>1, <2>1, <2>2 DEF WakesOnce, WakeFits
  <2>3. CASE Write(w, Blocked(wk[w].seen))
    <3>1. wk[w].seen \in Row /\ wk[w].pc \in Holding
      BY <2>1, Held DEF Holding
    <3>2. cont'.status \in {cont.status, "blocked"}
      BY <1>1, <2>3, <3>1, BlockedRow, FlushRow DEF Write
    <3> QED
      BY <3>2 DEF WakesOnce
  <2> QED
    BY <1>2, <1>4, <2>2, <2>3 DEF PollWrite
<1>5. CASE WakeWrite(w)
  BY <1>1, <1>5 DEF WakeWrite, WakesOnce, WakeFits
<1>6. CASE ClaimNext(w)
  <2>1. CASE cont' = [cont EXCEPT !.status = "running", !.worker = w, !.lease = "live",
                                  !.version = @ + 1]
    BY <1>1, <2>1 DEF WakesOnce, Row
  <2> QED
    BY <1>2, <1>6, <2>1 DEF ClaimNext
<1>7. CASE PollRead(w) \/ CommandEnds(w) \/ WakeRead(w) \/ WakeRefused(w) \/ NodeRead(w)
           \/ FailRead(w) \/ UnsupportedNode(w) \/ Crash(w)
  BY <1>2, <1>7 DEF PollRead, CommandEnds, WakeRead, WakeRefused, NodeRead, FailRead,
                    UnsupportedNode, Raise, Crash
<1>8. CASE PlainNode(w) \/ CreateG07(w) \/ BootstrapInstall(w) \/ VerifyBootstrap(w)
           \/ CancelNode(w) \/ FailWrite(w)
  BY <1>3, <1>8 DEF PlainNode, CreateG07, BootstrapInstall, VerifyBootstrap, CancelNode,
                    FailWrite, At, AtWork
<1> QED
  BY <1>4, <1>5, <1>6, <1>7, <1>8 DEF RunOnce

\* With one Transformer worker, a continuation parked on a command it names is put back in
\* the queue by that worker only once the command has ended: neither the sweep's old read nor
\* a crash between a command and its wake-up brings it back early.
THEOREM WokenAfterCommandAlone == Alone => (Spec => WokenAfterCommand)
<1> SUFFICES ASSUME Alone
             PROVE  Spec => WokenAfterCommand
  OBVIOUS
<1>1. Init => WakesFit
  BY DEF Init, WakesFit, WakeFits, IdleWorker, AtWork
<1>2. ContinuationInv /\ WakesFit /\ [Next]_vars => WakesFit'
  BY StepKeepsWakes
<1>3. ContinuationInv /\ WakesFit /\ [Next]_vars => [WakesOnce]_vars
  <2> SUFFICES ASSUME ContinuationInv, WakesFit, Next
               PROVE  WakesOnce
    BY DEF vars
  <2>1. CASE RequestBegins \/ ExpireAbandoned \/ ExpireBusy \/ (\E c \in Cmds : CommandLost(c))
    <3>1. ParksOnward /\ (cont' = cont \/ cont' = [cont EXCEPT !.lease = "expired"])
      BY <2>1, OthersParkNothing
         DEF RequestBegins, CancelRead, CancelCommandRead, RestartRead, DecideRead, Begin,
             ExpireAbandoned, ExpireBusy, CommandLost
    <3> QED
      BY <3>1 DEF WakesOnce, ContinuationInv, RowsReached, Row
  <2>2. CASE RequestEnds
    <3>1. PICK r \in Requests : api[r] # None /\ api' = [api EXCEPT ![r] = None]
      BY <2>2 DEF RequestEnds, CancelWrite, CancelCommandWrite, RestartWrite, ApproveWrite,
                  RejectWrite, End, Requests
    <3>2. api' # api
      BY <3>1 DEF ContinuationInv, RowsReached
    <3> QED
      BY <3>2 DEF WakesOnce
  <2> QED
    BY <2>1, <2>2, WorkerWakes DEF Next
<1> QED
  BY <1>1, <1>2, <1>3, ContinuationCorrect, PTL DEF Spec, WokenAfterCommand, WakesOnce
==============================================================================
