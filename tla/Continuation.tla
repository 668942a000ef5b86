---------------------------- MODULE Continuation ----------------------------
(***************************************************************************)
(* The durable Transformer continuation of one run: the row that says      *)
(* which node of the stage workflow is next, who works on it and what it   *)
(* waits for.  TransformationContinuationService, the waiter half of       *)
(* TransformerWorker, the gate decisions of StageGateService and the nodes *)
(* of TransformerOrchestrator up to the verified bootstrap install.        *)
(*                                                                         *)
(* Workers poll, wake waiters, run commands and advance the continuation;  *)
(* API requests cancel, restart and decide gates.  claim_next is a         *)
(* compare-and-set on state_version.  Every other operation reads the row, *)
(* assigns attributes and lets the session flush them: UPDATE ... WHERE id *)
(* over the attributes that changed, whatever the row holds by then.  Such *)
(* an operation is a Read step that copies the row and a Write step.       *)
(*                                                                         *)
(* Commands are CommandLifecycle's; here a command is its status.          *)
(***************************************************************************)
EXTENDS Integers, FiniteSets

CONSTANTS Workers,      \* Transformer worker processes
          FirstNode,    \* node the continuation stands at in the initial state
          LegacyRows,   \* does the row date from before waiting_execution_id: the choices
          MaxCancels,   \* bounds on cancel, restart and decision requests, on
          MaxRestarts,  \*   worker crashes and on leases that run out under a
          MaxDecisions, \*   live worker
          MaxCrashes,
          MaxExpiries,
          MaxClaims,    \* bound on claims of the continuation
          None

\* Nodes that validate something and go on to the next node.
PlainNodes ==
  {"validate_g06", "prepare_workspace", "resolve_runtime", "dependency_preflight",
   "collect_known_decisions"}

ASSUME ConstantsAssumption ==
  /\ FirstNode \in PlainNodes /\ LegacyRows \subseteq BOOLEAN /\ None \notin Workers
  /\ {MaxCancels, MaxRestarts, MaxDecisions, MaxCrashes, MaxExpiries,
      MaxClaims} \subseteq Nat

VARIABLES cont,     \* the transformation_continuations row
          cmd,      \* status of the bootstrap command and of its one retry
          stop,     \* cancel_requested_at of the two commands
          gate,     \* the stage's G07 package
          step,     \* stage step bootstrap_install-0: its command and its verdict
          woke,     \* the events wake:<n> appended, with the payload each records
          wk,       \* per worker: program counter, row copied, command, wake decision
          api,      \* per kind of request: the row copied, or no request
          budget    \* requests, crashes and expiries so far

vars == <<cont, cmd, stop, gate, step, woke, wk, api, budget>>

Nodes ==
  PlainNodes \cup {"create_g07", "wait_g07", "bootstrap_install", "verify_bootstrap",
                   "angular_update", "cancel", "terminal"}
Statuses ==
  {"queued", "running", "waiting_command", "waiting_gate", "cancelling", "cancelled",
   "blocked"}

\* Statuses no operation may leave; "completed" lies beyond the modelled nodes.
TerminalStatuses == {"cancelled"}

\* 0 stands for no command.
Cmds == {1, 2}
ActiveCmd == {"queued", "running"}
TerminalCmd == {"succeeded", "failed", "timed_out", "cancelled"}

Row ==
  [status : Statuses, node : Nodes, worker : Workers \cup {None},
   lease : {"none", "live", "expired"}, version : Nat, waiting : Cmds \cup {0},
   cancelReq : BOOLEAN, wakes : Nat]

Requests == {"cancel", "cancelCommand", "restart", "approve", "reject"}
Pcs == {"idle", "poll", "exec", "woken", "wakeWrite", "claim", "node", "write", "fail",
        "failWrite"}

TypeOK ==
  /\ cont \in Row
  /\ cmd \in [Cmds -> {"none"} \cup ActiveCmd \cup TerminalCmd]
  /\ stop \in [Cmds -> BOOLEAN]
  /\ gate \in [status : {"none", "pending", "approved", "rejected", "cancelled"},
               version : Nat, approvals : Nat]
  /\ step \in [cmd : Cmds \cup {0}, passed : BOOLEAN]
  /\ woke \subseteq [n : Nat, cmd : Cmds, version : Nat]
  /\ wk \in [Workers -> [pc : Pcs, seen : Row \cup {None}, cmd : Cmds \cup {0},
                         verdict : {"keep", "wake", "block"}]]
  /\ api \in [Requests -> Row \cup {None}]

IdleWorker == [pc |-> "idle", seen |-> None, cmd |-> 0, verdict |-> "keep"]

\* ensure_created_in_session made the row.
FreshRow ==
  /\ cont = [status |-> "queued", node |-> FirstNode, worker |-> None, lease |-> "none",
             version |-> 1, waiting |-> 0, cancelReq |-> FALSE, wakes |-> 0]
  /\ cmd = [c \in Cmds |-> "none"]
  /\ step = [cmd |-> 0, passed |-> FALSE]
  /\ gate = [status |-> "none", version |-> 0, approvals |-> 0]

\* A legacy row is parked on the bootstrap command of an approved stage without naming
\* it; the command, its retry or neither was recorded.
LegacyRow ==
  /\ cont = [status |-> "waiting_command", node |-> "verify_bootstrap", worker |-> None,
             lease |-> "none", version |-> 1, waiting |-> 0, cancelReq |-> FALSE, wakes |-> 0]
  /\ \/ cmd = <<"none", "none">> /\ step = [cmd |-> 0, passed |-> FALSE]
     \/ \E s \in ActiveCmd \cup TerminalCmd :
          \/ cmd = <<s, "none">> /\ step = [cmd |-> 1, passed |-> FALSE]
          \/ cmd = <<"failed", s>> /\ step = [cmd |-> 2, passed |-> FALSE]
  /\ gate = [status |-> "approved", version |-> 0, approvals |-> 1]

Init ==
  /\ \E legacy \in LegacyRows : IF legacy THEN LegacyRow ELSE FreshRow
  /\ stop = [c \in Cmds |-> FALSE]
  /\ woke = {}
  /\ wk = [w \in Workers |-> IdleWorker]
  /\ api = [r \in Requests |-> None]
  /\ budget = [cancels |-> 0, restarts |-> 0, decisions |-> 0, crashes |-> 0,
               expiries |-> 0, claims |-> 0]

-----------------------------------------------------------------------------
(* The row. *)

\* Session flush: attributes of the copy that were changed are written.
Flush(row, seen, new) ==
  [f \in DOMAIN row |-> IF new[f] = seen[f] THEN row[f] ELSE new[f]]

\* Every assignment block of the services gives the row up and counts a version.
Released(row) ==
  [row EXCEPT !.worker = None, !.lease = "none", !.version = @ + 1]

\* _queue
Queued(row, node) == [Released(row) EXCEPT !.status = "queued", !.node = node]

\* _block
Blocked(row) == [Released(row) EXCEPT !.status = "blocked"]

\* _wait_for_command, _queue_group
WaitingFor(row, c, node) ==
  [Released(row) EXCEPT !.status = "waiting_command", !.node = node, !.waiting = c]

\* _wake_continuation for command c
Woken(row, c) ==
  [row EXCEPT !.status = "queued", !.waiting = IF @ = c THEN 0 ELSE @,
              !.wakes = @ + 1, !.version = @ + 1]

Owned(w) == cont.status = "running" /\ cont.worker = w

ActiveCmds == {c \in Cmds : cmd[c] \in ActiveCmd}
EndedCmds == {c \in Cmds : cmd[c] \in TerminalCmd}
QueuedCmds == {c \in Cmds : cmd[c] # "none"}

Step(w, pc) == wk' = [wk EXCEPT ![w] = [IdleWorker EXCEPT !.pc = pc]]
Copy(w, pc) == wk' = [wk EXCEPT ![w].pc = pc, ![w].seen = cont]
Write(w, new) == cont' = Flush(cont, wk[w].seen, new)

-----------------------------------------------------------------------------
(* run_once, first session: reconcile_stuck_command_waiters,                *)
(* _wake_terminal_command_waiters and the claim of a queued command.        *)

\* Mutant: only rows that do not name their command are looked at.
VerdictWithoutLinkage ==
  CASE cont.status # "waiting_command" \/ cont.waiting # 0 -> "keep"
    [] OTHER -> IF Cardinality(EndedCmds) = 1 THEN "wake" ELSE "keep"

\* Mutant: a linked waiter is woken whatever its command does.
VerdictTooEarly ==
  IF cont.status = "waiting_command" /\ cont.waiting # 0 THEN "wake" ELSE "keep"

\* What the two sweeps decide about the continuation, from what they read.
WaiterVerdict ==
  CASE cont.status # "waiting_command" -> "keep"
    [] cont.status = "waiting_command" /\ cont.waiting # 0 ->
         IF cmd[cont.waiting] \in TerminalCmd THEN "wake" ELSE "keep"
    [] OTHER -> CASE Cardinality(EndedCmds) = 1 -> "wake"
                  [] Cardinality(EndedCmds) > 1 \/ QueuedCmds = {} -> "block"
                  [] OTHER -> "keep"

\* The command whose end the wake-up records.
WakeTarget ==
  CASE WaiterVerdict # "wake" -> 0
    [] WaiterVerdict = "wake" /\ cont.waiting # 0 -> cont.waiting
    [] OTHER -> CHOOSE c \in EndedCmds : TRUE

PollRead(w) ==
  /\ wk[w].pc = "idle"
  /\ wk' = [wk EXCEPT ![w] = [pc |-> "poll", seen |-> cont, cmd |-> WakeTarget,
                              verdict |-> WaiterVerdict]]
  /\ UNCHANGED <<cont, cmd, stop, gate, step, woke, api, budget>>

\* The event of w's wake-up, named wake:<n>; append_audit_event takes an event that
\* exists for a replay if its payload is the same, and raises if it is not.
WakeEvent(w) ==
  [n |-> wk[w].seen.wakes + 1, cmd |-> wk[w].cmd, version |-> wk[w].seen.version]
WakeReplayable(w) == \A e \in woke : e.n = WakeEvent(w).n => e = WakeEvent(w)
Wake(w) ==
  /\ WakeReplayable(w)
  /\ Write(w, Woken(wk[w].seen, wk[w].cmd))
  /\ woke' = woke \cup {WakeEvent(w)}

\* The sweep's flush, then claim_next_execution; a claimed command is started.
PollWrite(w) ==
  /\ wk[w].pc = "poll"
  /\ \/ wk[w].verdict = "wake" /\ Wake(w)
     \/ wk[w].verdict = "block" /\ Write(w, Blocked(wk[w].seen)) /\ UNCHANGED woke
     \/ wk[w].verdict = "keep" /\ UNCHANGED <<cont, woke>>
  /\ \/ \E c \in Cmds :
          /\ cmd[c] = "queued"
          /\ cmd' = [cmd EXCEPT ![c] = "running"]
          /\ wk' = [wk EXCEPT ![w] = [IdleWorker EXCEPT !.pc = "exec", !.cmd = c]]
     \/ /\ \A c \in Cmds : cmd[c] # "queued"
        /\ Step(w, "claim")
        /\ UNCHANGED cmd
  /\ UNCHANGED <<stop, gate, step, api, budget>>

\* The wake-up's event exists with another payload: the session rolls back.
WakeRefused(w) ==
  /\ wk[w].pc \in {"poll", "wakeWrite"} /\ wk[w].verdict = "wake"
  /\ ~ WakeReplayable(w)
  /\ Step(w, "idle")
  /\ UNCHANGED <<cont, cmd, stop, gate, step, woke, api, budget>>

-----------------------------------------------------------------------------
(* run_once with a command: execute it, then _wake_command_waiter.          *)

\* The command reaches a final status; it is cancelled only on request.
CommandEnds(w) ==
  LET c == wk[w].cmd IN
  /\ wk[w].pc = "exec"
  /\ \E s \in TerminalCmd :
       /\ s = "cancelled" => stop[c]
       /\ cmd' = [cmd EXCEPT ![c] = IF @ = "running" THEN s ELSE @]
  /\ wk' = [wk EXCEPT ![w].pc = "woken"]
  /\ UNCHANGED <<cont, stop, gate, step, woke, api, budget>>

WakeRead(w) ==
  LET c == wk[w].cmd IN
  /\ wk[w].pc = "woken"
  /\ IF cont.status = "waiting_command" /\ cont.waiting \in {0, c}
       THEN wk' = [wk EXCEPT ![w].pc = "wakeWrite", ![w].seen = cont, ![w].verdict = "wake"]
       ELSE Step(w, "idle")
  /\ UNCHANGED <<cont, cmd, stop, gate, step, woke, api, budget>>

WakeWrite(w) ==
  /\ wk[w].pc = "wakeWrite"
  /\ Wake(w)
  /\ Step(w, "idle")
  /\ UNCHANGED <<cmd, stop, gate, step, api, budget>>

\* A mutating command whose worker died is interrupted, to be reconstructed;
\* verify_bootstrap treats that as a failure.
LostStatus == "failed"

\* reconcile_expired_executions: the command of a worker that died is given up.
CommandLost(c) ==
  /\ cmd[c] = "running" /\ \A w \in Workers : wk[w].cmd # c
  /\ cmd' = [cmd EXCEPT ![c] = LostStatus]
  /\ UNCHANGED <<cont, stop, gate, step, woke, wk, api, budget>>

-----------------------------------------------------------------------------
(* run_once without a command: claim_next, then one node.                   *)

\* Mutant: a row that a dead worker left running is never taken over.
ClaimableUnlessRunning ==
  cont.status \in {"queued", "cancelling"} /\ cont.node # "angular_update"

\* claim_next's WHERE clause; angular_update is the first node not modelled.
Claimable ==
  /\ cont.node # "angular_update"
  /\ \/ cont.status \in {"queued", "cancelling"}
     \/ cont.status = "running" /\ cont.lease = "expired"

ClaimNext(w) ==
  /\ wk[w].pc = "claim"
  /\ \/ /\ Claimable /\ budget.claims < MaxClaims
        /\ cont' = [cont EXCEPT !.status = "running", !.worker = w, !.lease = "live",
                                !.version = @ + 1]
        /\ budget' = [budget EXCEPT !.claims = @ + 1]
        /\ Step(w, "node")
     \/ ~ Claimable /\ Step(w, "idle") /\ UNCHANGED <<cont, budget>>
  /\ UNCHANGED <<cmd, stop, gate, step, woke, api>>

\* _owned at the start of the node's writing session; a claim that was lost raises,
\* and fail() finds nothing to do.
NodeRead(w) ==
  /\ wk[w].pc = "node"
  /\ IF Owned(w) THEN Copy(w, "write") ELSE Step(w, "idle")
  /\ UNCHANGED <<cont, cmd, stop, gate, step, woke, api, budget>>

At(w, node) == wk[w].pc = "write" /\ wk[w].seen.node = node

NextNode ==
  [validate_g06 |-> "prepare_workspace", prepare_workspace |-> "resolve_runtime",
   resolve_runtime |-> "dependency_preflight",
   dependency_preflight |-> "collect_known_decisions",
   collect_known_decisions |-> "create_g07"]

\* A node raises: the session rolls back and fail() runs in another.
Raise(w) == Step(w, "fail") /\ UNCHANGED cont

\* _validate_g06, prepare, _resolve_runtime, _preflight, _collect_decisions: go on,
\* block, or raise.
PlainNode(w) ==
  /\ \E n \in PlainNodes :
       /\ At(w, n)
       /\ \/ Write(w, Queued(wk[w].seen, NextNode[n])) /\ Step(w, "idle")
          \/ Write(w, Blocked(wk[w].seen)) /\ Step(w, "idle")
          \/ Raise(w)
  /\ UNCHANGED <<cmd, stop, gate, step, woke, api, budget>>

\* _create_g07: a pending package is returned as it is and the row is left alone, or
\* raises when it was bound to something else.
CreateG07(w) ==
  LET seen == wk[w].seen IN
  /\ At(w, "create_g07")
  /\ \/ gate.status = "pending" /\ Step(w, "idle") /\ UNCHANGED <<cont, gate>>
     \/ /\ gate.status # "pending"
        /\ gate' = [gate EXCEPT !.status = "pending", !.version = seen.version + 1]
        /\ Write(w, [Released(seen) EXCEPT !.status = "waiting_gate", !.node = "wait_g07"])
        /\ Step(w, "idle")
     \/ Raise(w) /\ UNCHANGED gate
  /\ UNCHANGED <<cmd, stop, step, woke, api, budget>>

\* bootstrap_install: a passed step goes on; otherwise the command is queued, or the
\* one its idempotency key names is waited for again.
BootstrapInstall(w) ==
  LET seen == wk[w].seen IN
  /\ At(w, "bootstrap_install")
  /\ \/ /\ step.passed
        /\ Write(w, Queued(seen, "verify_bootstrap"))
        /\ Step(w, "idle")
        /\ UNCHANGED <<cmd, step>>
     \/ /\ ~ step.passed
        /\ cmd[1] # "none" \/ ActiveCmds = {}
        /\ cmd' = [cmd EXCEPT ![1] = IF @ = "none" THEN "queued" ELSE @]
        /\ step' = [step EXCEPT !.cmd = 1]
        /\ Write(w, WaitingFor(seen, 1, "verify_bootstrap"))
        /\ Step(w, "idle")
     \/ ~ step.passed /\ Raise(w) /\ UNCHANGED <<cmd, step>>  \* not authorized
  /\ UNCHANGED <<stop, gate, woke, api, budget>>

\* Mutant: a command that timed out or was cancelled counts as installed.
PassesUnlessFailed(c) == c # 0 /\ cmd[c] \notin ActiveCmd \cup {"failed", "none"}

\* The bootstrap command is proof of an installed workspace.
Passes(c) == c # 0 /\ cmd[c] = "succeeded"

\* verify_bootstrap: still running, wait; failed once, reconstruct and retry;
\* succeeded, go on; anything else raises, and so do a retry or a workspace that does
\* not verify.
VerifyBootstrap(w) ==
  LET seen == wk[w].seen
      c == step.cmd
  IN
  /\ At(w, "verify_bootstrap")
  /\ \/ /\ c # 0 /\ cmd[c] \in ActiveCmd
        /\ Write(w, WaitingFor(seen, c, seen.node))
        /\ Step(w, "idle")
        /\ UNCHANGED <<cmd, step>>
     \/ /\ c = 1 /\ cmd[c] = "failed"
        /\ cmd[2] # "none" \/ ActiveCmds = {}
        /\ cmd' = [cmd EXCEPT ![2] = IF @ = "none" THEN "queued" ELSE @]
        /\ step' = [step EXCEPT !.cmd = 2]
        /\ Write(w, WaitingFor(seen, 2, seen.node))
        /\ Step(w, "idle")
     \/ /\ Passes(c)
        /\ step' = [step EXCEPT !.passed = TRUE]
        /\ Write(w, Queued(seen, "angular_update"))
        /\ Step(w, "idle")
        /\ UNCHANGED cmd
     \/ /\ c # 0 => cmd[c] \in TerminalCmd
        /\ Raise(w)
        /\ UNCHANGED <<cmd, step>>
  /\ UNCHANGED <<stop, gate, woke, api, budget>>

\* _cancel
CancelNode(w) ==
  /\ At(w, "cancel")
  /\ stop' = [c \in Cmds |-> stop[c] \/ c \in ActiveCmds]
  /\ gate' = [gate EXCEPT !.status = IF @ = "pending" THEN "cancelled" ELSE @]
  /\ Write(w, [Released(wk[w].seen) EXCEPT !.status = "cancelled", !.node = "terminal"])
  /\ Step(w, "idle")
  /\ UNCHANGED <<cmd, step, woke, api, budget>>

\* advance: no branch for a node that only waits, or for terminal.
UnsupportedNode(w) ==
  /\ At(w, "wait_g07") \/ At(w, "terminal")
  /\ Raise(w)
  /\ UNCHANGED <<cmd, stop, gate, step, woke, api, budget>>

\* fail(): block the continuation if the worker still owns it.
FailRead(w) ==
  /\ wk[w].pc = "fail"
  /\ IF Owned(w) THEN Copy(w, "failWrite") ELSE Step(w, "idle")
  /\ UNCHANGED <<cont, cmd, stop, gate, step, woke, api, budget>>

FailWrite(w) ==
  /\ wk[w].pc = "failWrite"
  /\ Write(w, Blocked(wk[w].seen))
  /\ Step(w, "idle")
  /\ UNCHANGED <<cmd, stop, gate, step, woke, api, budget>>

-----------------------------------------------------------------------------
(* API requests; a client sends the state_version it has just been shown.   *)

Begin(r, counter, max) ==
  /\ api[r] = None /\ budget[counter] < max
  /\ api' = [api EXCEPT ![r] = cont]
  /\ budget' = [budget EXCEPT ![counter] = @ + 1]
  /\ UNCHANGED <<cont, cmd, stop, gate, step, woke, wk>>

End(r, new) ==
  /\ api[r] # None
  /\ cont' = Flush(cont, api[r], new)
  /\ api' = [api EXCEPT ![r] = None]
  /\ UNCHANGED <<step, woke, wk, budget>>

\* A queued command is cancelled on the spot, a running one is told.
CancelActiveCommand ==
  /\ cmd' = [c \in Cmds |-> IF cmd[c] = "queued" THEN "cancelled" ELSE cmd[c]]
  /\ stop' = [c \in Cmds |-> stop[c] \/ cmd[c] = "running"]

\* cancel_transformation: request_cancel, then the active command.
CancelRead ==
  /\ ~ cont.cancelReq /\ cont.status \notin TerminalStatuses
  /\ Begin("cancel", "cancels", MaxCancels)

CancelWrite ==
  /\ End("cancel", [Released(api["cancel"]) EXCEPT !.cancelReq = TRUE,
                      !.status = "cancelling", !.node = "cancel"])
  /\ CancelActiveCommand
  /\ UNCHANGED gate

\* cancel_command: the waiter of a command cancelled in the queue is woken.
CancelCommandRead ==
  /\ ActiveCmds # {}
  /\ Begin("cancelCommand", "cancels", MaxCancels)

CancelCommandWrite ==
  LET seen == api["cancelCommand"] IN
  /\ End("cancelCommand",
         IF seen.status = "waiting_command" /\ \E c \in Cmds : cmd[c] = "queued"
           THEN [seen EXCEPT !.status = "queued", !.wakes = @ + 1, !.version = @ + 1]
           ELSE seen)
  /\ CancelActiveCommand
  /\ UNCHANGED gate

\* restart_transformation: wake().
RestartRead ==
  /\ cont.status \notin TerminalStatuses
  /\ Begin("restart", "restarts", MaxRestarts)

RestartWrite ==
  LET seen == api["restart"] IN
  /\ End("restart", IF seen.status = "queued" THEN seen
                      ELSE [Released(seen) EXCEPT !.status = "queued", !.wakes = @ + 1])
  /\ UNCHANGED <<cmd, stop, gate>>

\* decide: the package is pending and the version is the one it was created at.
Decidable == gate.status = "pending" /\ cont.version = gate.version

DecideRead(r) ==
  /\ Decidable
  /\ Begin(r, "decisions", MaxDecisions)

ApproveWrite ==
  /\ End("approve", [api["approve"] EXCEPT !.status = "queued", !.wakes = @ + 1,
                       !.node = "bootstrap_install", !.version = @ + 1])
  /\ gate' = [gate EXCEPT !.status = "approved", !.approvals = @ + 1]
  /\ UNCHANGED <<cmd, stop>>

\* Mutant: a rejected gate lets the stage go on.
RejectAsApproval ==
  /\ End("reject", [api["reject"] EXCEPT !.status = "queued",
                      !.node = "bootstrap_install", !.version = @ + 1])
  /\ gate' = [gate EXCEPT !.status = "rejected"]
  /\ UNCHANGED <<cmd, stop>>

RejectWrite ==
  /\ End("reject", [api["reject"] EXCEPT !.status = "blocked", !.version = @ + 1])
  /\ gate' = [gate EXCEPT !.status = "rejected"]
  /\ UNCHANGED <<cmd, stop>>

-----------------------------------------------------------------------------
(* Crashes and time. *)

\* The worker dies, or an exception that invoke does not catch ends its run_once.
Crash(w) ==
  /\ budget.crashes < MaxCrashes /\ wk[w].pc # "idle"
  /\ Step(w, "idle")
  /\ budget' = [budget EXCEPT !.crashes = @ + 1]
  /\ UNCHANGED <<cont, cmd, stop, gate, step, woke, api>>

\* The owner is still working on the node it claimed.
OwnerBusy == \E w \in Workers : cont.worker = w /\ wk[w].pc \in {"node", "write", "fail", "failWrite"}

\* The lease of an abandoned row runs out.
ExpireAbandoned ==
  /\ cont.lease = "live" /\ ~ OwnerBusy
  /\ cont' = [cont EXCEPT !.lease = "expired"]
  /\ UNCHANGED <<cmd, stop, gate, step, woke, wk, api, budget>>

\* The lease runs out under a slow worker: continuations have no heartbeat.
ExpireBusy ==
  /\ cont.lease = "live" /\ OwnerBusy /\ budget.expiries < MaxExpiries
  /\ cont' = [cont EXCEPT !.lease = "expired"]
  /\ budget' = [budget EXCEPT !.expiries = @ + 1]
  /\ UNCHANGED <<cmd, stop, gate, step, woke, wk, api>>

-----------------------------------------------------------------------------
RunOnce(w) ==
  \/ PollRead(w) \/ PollWrite(w) \/ CommandEnds(w) \/ WakeRead(w) \/ WakeWrite(w)
  \/ WakeRefused(w)
  \/ ClaimNext(w) \/ NodeRead(w) \/ PlainNode(w) \/ CreateG07(w)
  \/ BootstrapInstall(w) \/ VerifyBootstrap(w) \/ CancelNode(w)
  \/ UnsupportedNode(w) \/ FailRead(w) \/ FailWrite(w)

RequestBegins ==
  \/ CancelRead \/ CancelCommandRead \/ RestartRead
  \/ DecideRead("approve") \/ DecideRead("reject")

RequestEnds ==
  CancelWrite \/ CancelCommandWrite \/ RestartWrite \/ ApproveWrite \/ RejectWrite

Next ==
  \/ \E w \in Workers : RunOnce(w) \/ Crash(w)
  \/ \E c \in Cmds : CommandLost(c)
  \/ RequestBegins \/ RequestEnds
  \/ ExpireAbandoned \/ ExpireBusy

Spec == Init /\ [][Next]_vars

\* Workers loop, commands end (they have a deadline, and a lost claim is
\* reconciled), requests that began end, time passes.  Nobody is bound to send a
\* request or to decide a gate.
Fairness ==
  /\ \A w \in Workers : WF_vars(RunOnce(w))
  /\ \A c \in Cmds : WF_vars(CommandLost(c))
  /\ WF_vars(RequestEnds) /\ WF_vars(ExpireAbandoned)

FairSpec == Spec /\ Fairness

-----------------------------------------------------------------------------
(* Properties. *)

\* No bootstrap command exists before G07 was approved, through lost claims,
\* restarts, cancellations and stale writes.
InstallAfterApproval == step.cmd # 0 => gate.approvals > 0

\* The update starts only from a bootstrap install that succeeded and was verified.
UpdateAfterVerifiedInstall ==
  cont.node = "angular_update" => step.passed /\ cmd[step.cmd] = "succeeded"

\* A continuation parked on a command that it names is put back in the queue by the
\* workers only once that command has ended.
WokenAfterCommand ==
  [][(cont.status = "waiting_command" /\ cont.waiting # 0 /\ cont'.status = "queued"
        /\ api' = api)
     => cmd[cont.waiting] \in TerminalCmd]_vars

\* A continuation parked on a command does not stay parked: the worker that ran the
\* command wakes it, or a later poll finds the command ended, or blocks it.
WaiterReleased == cont.status = "waiting_command" ~> cont.status # "waiting_command"

\* A continuation that is queued, claimed or being cancelled comes to rest where only
\* a human (or the next node beyond the model) can move it, although workers crash.
ComesToRest ==
  cont.status \in {"queued", "running", "cancelling"}
    ~> \/ cont.status \in {"waiting_command", "waiting_gate", "blocked", "cancelled"}
       \/ cont.node = "angular_update"
=============================================================================
