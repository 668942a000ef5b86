---------------------------- MODULE CommandPolicy ----------------------------
(***************************************************************************)
(* How a command of a stage comes to be queued: the policy engine decides  *)
(* on a structured request and records the decision under the request's    *)
(* key, the executor makes an execution out of an accepted decision, the   *)
(* transformer does both in the transaction of its node, makes successors  *)
(* of failed executions, recovers a corrupted check of the target version  *)
(* by a decision of its own, and authorizes the commands of a repair that  *)
(* no plan contains.  Users reach the first two through the API, in        *)
(* requests of their own.  Plans are revised and approved and the run      *)
(* moves on meanwhile.                                                     *)
(*                                                                         *)
(* A session reads the run once and keeps what it read: a request is two   *)
(* steps, the read of the run and everything after it, whose first write   *)
(* takes the database's lock.  A structured command is abstracted to its   *)
(* kind, its template version and whether it is exactly the command of its *)
(* authority (executable, arguments, network, timeout, cancellation).      *)
(***************************************************************************)
EXTENDS Integers, Sequences, FiniteSets

CONSTANTS UserKeys,       \* idempotency keys users send; those of the transformer may be among them
          FirstTemplates, \* template versions of the update in the first plan: 2 from an earlier release
          Budget,         \* repair_policy.max_attempts of the stage plan
          MaxVersions,    \* bound on the state versions of the run
          MaxExecutions   \* bound on the executions of the run

ASSUME PolicyAssumption ==
  FirstTemplates \subseteq {2, 3} /\ Budget \in Nat \ {0} /\ MaxVersions \in Nat \ {0} /\ MaxExecutions \in Nat

VARIABLES log,      \* per state version: is the run executable, which plans are approved
          plans,    \* stage_execution_plans with their migration plan, the newest is active
          cont,     \* G06 was approved and made the continuation, for this plan
          bound,    \* the stage exists, its workspace alias is bound
          attempt,  \* the newest repair attempt of the stage
          audits,   \* command_authorization_audits
          execs,    \* command_executions, in the order of their creation
          thr       \* the sessions

vars == <<log, plans, cont, bound, attempt, audits, execs, thr>>

None == "none"

\* A session of the transformer and one for each kind of request users make.
Node == "node"
Threads == {"validate", "queue", Node}

\* The commands are npm-ci-bootstrap ("ci"), angular-update-exact ("update"),
\* angular-version-verify ("version"), which only reads, and the ones of a dependency
\* transition ("transition").

Version == Len(log)
Active == {"queued", "running"}
Ended == {"succeeded", "failed", "cancelled", "corrupted"}

\* Interrupted or timed out with a reconstruction required is as good as failed.  A version check
\* is corrupted when it did not succeed and its row requires a reconstruction although it only
\* reads, as rows of an earlier release do; any other end without success counts as failed.
Ends(command) ==
  {"succeeded", "failed"} \cup IF command = "version" THEN {"corrupted"} ELSE {"cancelled"}

\* What a request for a policy decision says: the exact command of some authority, or one
\* that is exact for none.
Request(key, command, template, plan, exact) ==
  [key |-> key, command |-> command, template |-> template, plan |-> plan, exact |-> exact]

\* Commands users ask for, with the template version they name; none asks for a version check.
UserCommands == {<<"ci", 1>>, <<"update", 2>>, <<"update", 3>>, <<"transition", 1>>}

Idle == [pc |-> "idle", version |-> 0, req |-> None, key |-> None]

Init ==
  /\ log = <<[live |-> TRUE, approved |-> {}]>>
  /\ \E t \in FirstTemplates : plans = <<t>>
  /\ cont = 0 /\ bound = FALSE /\ attempt = None
  /\ audits = [k \in {} |-> None] /\ execs = <<>>
  /\ thr = [t \in Threads |-> Idle]

-----------------------------------------------------------------------------
(* The registry and the checks of the policy engine                        *)

\* The template version a plan names for its commands; it has none for transitions.
PlannedTemplate(p, command) ==
  CASE command \in {"ci", "version"} -> 1 [] command = "update" -> plans[p] [] OTHER -> 0

\* find_registered_template: what seed_defaults has put there before.
Registered(command, template) == template \in (IF command = "update" THEN 1..3 ELSE {1})

\* The first rules of _check_plan_membership, about the run as the session has read it.
RunExecutable(v) == log[v].live

\* The approval of a plan is read when the rule is evaluated, not with the run.
PlanApproved(p) == p \in DOMAIN plans /\ p \in log[Version].approved

\* The structured command is the one the plan names.
MatchesPlan(r) == r.exact /\ r.template = PlannedTemplate(r.plan, r.command)

\* _valid_angular_update_supersession: version 3 of a command that was authorized as version 2.
ValidSupersession(r, parent) ==
  /\ parent # None /\ r.command = "update" /\ r.exact
  /\ r.template = 3 /\ PlannedTemplate(r.plan, "update") = 2
  /\ audits[parent].req.command = "update" /\ audits[parent].req.template = 2
  /\ audits[parent].req.plan = r.plan

\* The attempt is in one of the phases of a transition; its proposal and the evidence it
\* rests on are committed before it comes there.
InTransition == attempt = "transition"

\* The command is rendered from the proposal, the plan and the workspace.
TransitionCommand(r) == r.command = "transition" /\ r.template = 1 /\ r.exact

\* _valid_repair_dependency_transition.
ValidTransition(r, repair) == repair /\ InTransition /\ TransitionCommand(r)

\* _check_plan_membership.
PlanMember(r, v, parent, repair) ==
  /\ RunExecutable(v)
  /\ PlanApproved(r.plan)
  /\ MatchesPlan(r) \/ ValidSupersession(r, parent) \/ ValidTransition(r, repair)
  /\ bound

\* _check_ng_update_governance: the stage has its versions and its runtime is certified.
Governed(r, certified) == r.command = "update" => bound /\ certified

\* The rules about shell, network, class, cancellation and timeout look at the request alone;
\* a command that is not exactly the one of its authority also stands for those that break one.
StatelessRules(r) == r.exact

\* The rules of validate, all of which must hold.
Accepts(r, v, parent, repair, certified) ==
  /\ StatelessRules(r)
  /\ Registered(r.command, r.template)
  /\ PlanMember(r, v, parent, repair)
  /\ Governed(r, certified)

\* The row of a decision; of a rejected request only the key matters.
Audit(r, v, accepted) ==
  [req |-> IF accepted THEN r ELSE None, version |-> IF accepted THEN v ELSE 0, accepted |-> accepted]
Known(k) == k \in DOMAIN audits
Recorded(k, a) == audits' = [x \in DOMAIN audits \cup {k} |-> IF x = k THEN a ELSE audits[x]]

-----------------------------------------------------------------------------
(* The executor                                                            *)

KeysUsed == {execs[e].key : e \in DOMAIN execs}
NoneActive == \A e \in DOMAIN execs : execs[e].status \notin Active

Execution(auth, key, v, parent, number) ==
  [auth |-> auth, key |-> key, version |-> v, parent |-> parent, number |-> number,
   command |-> auth.req.command, template |-> auth.req.template, status |-> "queued"]

\* Mutant: the version the decision was made for is not compared.
FreshAnyVersion(a, v) == a.accepted

\* The authorization is accepted and of this very version.
Fresh(a, v) == a.accepted /\ a.version = v

\* Mutant: the key of an execution need not be the one of its authorization.
AnyKey(a, key) == TRUE

KeyOfAuthorization(a, key) == a.req.key = key

\* queue_authorized_command in a session that has read version v.  The binding and the
\* registry are as they were when the authorization was accepted; one active execution per
\* run is a unique index.
MayQueue(a, key, v) ==
  /\ Fresh(a, v)
  /\ KeyOfAuthorization(a, key)
  /\ key \notin KeysUsed
  /\ NoneActive
  /\ Len(execs) < MaxExecutions

\* parent is 0 unless the execution is a recovery, which _queue_group makes a successor
\* without asking the budget.
Queued(a, key, v, parent) ==
  execs' = Append(execs, Execution(a, key, v, parent,
                                   IF parent = 0 THEN 1 ELSE execs[parent].number + 1))

\* resolve_authorized_timeout: commands that no plan names with this template have none.
HasTimeout(a) == a.accepted /\ a.req.template = PlannedTemplate(a.req.plan, a.req.command)

\* Mutant: the attempts of an execution are not counted.
RetryUncounted(e) == execs[e].status = "failed"

\* The conditions of queue_retry_execution; the workspace was recovered before.
Retryable(e) ==
  /\ execs[e].status = "failed"
  /\ execs[e].number < Budget

\* Version 3 was not tried for this execution before.
NotSuperseded(e) == \A s \in DOMAIN execs : ~(execs[s].parent = e /\ execs[s].template = 3)

Succeeds(e, a, key) ==
  execs' = Append(execs, Execution(a, key, execs[e].version, e, execs[e].number + 1))

-----------------------------------------------------------------------------
(* Sessions                                                                *)

Free(t) == thr[t].pc = "idle"
Busy(t) == thr[t].pc = "busy"
Goes(t, s) == thr' = [thr EXCEPT ![t] = s]
Reads(r, k) == [pc |-> "busy", version |-> Version, req |-> r, key |-> k]
Data == <<log, plans, cont, bound, attempt, audits, execs>>

\* POST command-policy/validate: the request names the current version, or is refused.
ValidateBegin(r) ==
  /\ Free("validate")
  /\ Goes("validate", Reads(r, r.key)) /\ UNCHANGED Data

\* A known key replays its decision or is refused; the other decisions are recorded.
ValidateEnd ==
  /\ Busy("validate")
  /\ LET r == thr["validate"].req
         v == thr["validate"].version
     IN
       \/ Known(r.key) /\ UNCHANGED audits
       \/ /\ ~Known(r.key)
          /\ \E certified \in BOOLEAN :
               Recorded(r.key, Audit(r, v, Accepts(r, v, None, FALSE, certified)))
  /\ Goes("validate", Idle)
  /\ UNCHANGED <<log, plans, cont, bound, attempt, execs>>

\* POST runs/{id}/commands: the authorization is read before the run.
QueueBegin(k, key) ==
  /\ Free("queue") /\ HasTimeout(audits[k])
  /\ Goes("queue", Reads(k, key)) /\ UNCHANGED Data

QueueEnd ==
  /\ Busy("queue")
  /\ LET a == audits[thr["queue"].req]
         key == thr["queue"].key
         v == thr["queue"].version
     IN  IF MayQueue(a, key, v) THEN Queued(a, key, v, 0) ELSE UNCHANGED execs
  /\ Goes("queue", Idle)
  /\ UNCHANGED <<log, plans, cont, bound, attempt, audits>>

-----------------------------------------------------------------------------
(* The transformer                                                         *)

NodeBegin ==
  /\ Free(Node) /\ cont # 0
  /\ Goes(Node, Reads(None, None)) /\ UNCHANGED Data

NodeVersion == thr[Node].version

\* A node that raises leaves nothing behind, the decision it was refused with included.
NodeRaises ==
  /\ Busy(Node) /\ Goes(Node, Idle) /\ UNCHANGED Data

\* The workspace is copied between two transactions.
StillCurrent == Version = NodeVersion

\* _persist_prepared_stage: the stage, its steps, its binding and the alias of the run.
StageBound == bound' = TRUE

\* prepare.
Prepare ==
  /\ Busy(Node) /\ ~bound
  /\ StillCurrent /\ Version < MaxVersions
  /\ StageBound
  /\ log' = Append(log, [log[Version] EXCEPT !.live = TRUE])
  /\ Goes(Node, Idle)
  /\ UNCHANGED <<plans, cont, attempt, audits, execs>>

NodeRequest(command, template, key) == Request(key, command, template, cont, TRUE)

\* What has to be there before a group is queued: the checkpoint of its predecessor.
Due(command) ==
  /\ bound
  /\ command # "ci" =>
       \E e \in DOMAIN execs :
         /\ execs[e].command = (IF command = "update" THEN "ci" ELSE "update")
         /\ execs[e].status = "succeeded"

\* A decision that is there for this very request, which a user may have made in the name of
\* the run's actor.
Replayed(r, a) == a.accepted /\ a.req = r /\ a.version = NodeVersion

\* The decision and its execution in the transaction of the node.
AuthorizeAndQueue(r, repair, parent) ==
  /\ LET a == IF Known(r.key) THEN audits[r.key] ELSE Audit(r, NodeVersion, TRUE) IN
       /\ IF Known(r.key)
             THEN Replayed(r, a) /\ UNCHANGED audits
             ELSE /\ \E certified \in BOOLEAN : Accepts(r, NodeVersion, None, repair, certified)
                  /\ Recorded(r.key, a)
       /\ MayQueue(a, r.key, NodeVersion)
       /\ Queued(a, r.key, NodeVersion, parent)
  /\ Goes(Node, Idle)
  /\ UNCHANGED <<log, plans, cont, bound, attempt>>

\* _authorize_and_queue_first_command.  The key of a version check names the repair attempt in
\* force; after an update that succeeded there comes no other.
NodeQueue(command) ==
  /\ Busy(Node) /\ Due(command)
  /\ AuthorizeAndQueue(NodeRequest(command, PlannedTemplate(cont, command), command), FALSE, 0)

\* Mutant: a check that failed is as good as a corrupted one.
AnyFailedCheck(e) ==
  execs[e].command = "version" /\ execs[e].status \in {"failed", "corrupted"} /\ execs[e].parent = 0

\* _target_version_recovery_required.
RecoveryRequired(e) ==
  execs[e].command = "version" /\ execs[e].status = "corrupted" /\ execs[e].parent = 0

\* version_verify: the check is queued once more under a decision of its own and made the
\* successor of the corrupted one.
NodeRecover(e) ==
  /\ Busy(Node) /\ RecoveryRequired(e)
  /\ AuthorizeAndQueue(NodeRequest("version", 1, "recovery"), FALSE, e)

\* authorize_dependency_transition_command, then queue_authorized_command.
NodeTransition ==
  /\ Busy(Node) /\ InTransition
  /\ AuthorizeAndQueue(NodeRequest("transition", 1, "transition"), TRUE, 0)

\* The execution the continuation has waited for: the newest one of its command.
Newest(e) == \A s \in DOMAIN execs : execs[s].command = execs[e].command => s <= e

\* verify_bootstrap retries once; an update is retried by every repair that is applied.
RetryDue(e) ==
  \/ execs[e].command = "ci" /\ execs[e].parent = 0
  \/ execs[e].command = "update" /\ attempt = "applied"

\* authorize_retry_command for a command of version 2, which needs a decision of its own, and
\* queue_retry_execution.  The other retries run under the decision of the failed one, of
\* whatever version it was.
NodeRetry(e) ==
  /\ Busy(Node) /\ Newest(e) /\ RetryDue(e)
  /\ Retryable(e) /\ NoneActive /\ Len(execs) < MaxExecutions
  /\ LET supersede == execs[e].command = "update" /\ execs[e].template = 2
         r == NodeRequest("update", 3, "supersession")
         a == IF supersede THEN Audit(r, NodeVersion, TRUE) ELSE execs[e].auth
     IN  /\ supersede => /\ NotSuperseded(e) /\ ~Known(r.key)
                         /\ Accepts(r, NodeVersion, execs[e].auth.req.key, FALSE, TRUE)
         /\ IF supersede THEN Recorded(r.key, a) ELSE UNCHANGED audits
         /\ Succeeds(e, a, <<"retry", Len(execs) + 1>>)
  /\ attempt' = IF execs[e].command = "update" THEN "retried" ELSE attempt
  /\ Goes(Node, Idle)
  /\ UNCHANGED <<log, plans, cont, bound>>

CommandEnds(e, s) ==
  /\ execs[e].status \in Active /\ s \in Ends(execs[e].command)
  /\ execs' = [execs EXCEPT ![e].status = s]
  /\ UNCHANGED <<log, plans, cont, bound, attempt, audits, thr>>

\* A repair is approved after the update failed; it is a transition or a change of files.
Repair ==
  /\ \E e \in DOMAIN execs : Newest(e) /\ execs[e].command = "update" /\ execs[e].status = "failed"
  /\ attempt \in {None, "retried"} /\ attempt' \in {"transition", "applied"}
  /\ UNCHANGED <<log, plans, cont, bound, audits, execs, thr>>

\* The transition is over and the update is tried again, or it failed.
TransitionEnds ==
  /\ attempt = "transition" /\ NoneActive
  /\ attempt' \in {"applied", "retried"}
  /\ UNCHANGED <<log, plans, cont, bound, audits, execs, thr>>

-----------------------------------------------------------------------------
(* The run and its plans                                                   *)

Moves(entry) == Version < MaxVersions /\ log' = Append(log, entry)

\* A revision is a new plan and takes no approval back; it is possible at any time.
RevisePlan ==
  /\ Len(plans) = 1 /\ Moves(log[Version])
  /\ plans' = Append(plans, 3)
  /\ UNCHANGED <<cont, bound, attempt, audits, execs, thr>>

\* decide_g06 approves the active plan and makes the continuation, once.
ApprovePlan ==
  /\ cont = 0 /\ cont' = Len(plans)
  /\ Moves([live |-> TRUE, approved |-> log[Version].approved \cup {Len(plans)}])
  /\ UNCHANGED <<plans, bound, attempt, audits, execs, thr>>

\* Cancellation, failure, completion.
RunEnds ==
  /\ log[Version].live /\ Moves([log[Version] EXCEPT !.live = FALSE])
  /\ UNCHANGED <<plans, cont, bound, attempt, audits, execs, thr>>

-----------------------------------------------------------------------------
User ==
  \/ \E k \in UserKeys, c \in UserCommands, p \in DOMAIN plans :
       ValidateBegin(Request(k, c[1], c[2], p, TRUE))
  \/ \E k \in UserKeys : ValidateBegin(Request(k, "ci", 1, 1, FALSE))
  \/ ValidateEnd
  \/ \E k \in DOMAIN audits, key \in UserKeys : QueueBegin(k, key)
  \/ QueueEnd

Transformer ==
  \/ NodeBegin \/ NodeRaises \/ Prepare \/ NodeTransition
  \/ \E command \in {"ci", "update", "version"} : NodeQueue(command)
  \/ \E e \in DOMAIN execs : NodeRetry(e) \/ NodeRecover(e)

Next ==
  \/ User
  \/ Transformer
  \/ \E e \in DOMAIN execs, s \in Ended : CommandEnds(e, s)
  \/ Repair \/ TransitionEnds
  \/ RevisePlan \/ ApprovePlan \/ RunEnds

Spec == Init /\ [][Next]_vars

-----------------------------------------------------------------------------
(* Properties                                                              *)

First(e) == execs[e].parent = 0

\* The successor of a version check, which is nobody's retry.
Recovery(e) == ~First(e) /\ execs[e].command = "version"

\* An execution that is no retry was authorized in the version it is queued under, and in
\* that version the run was executable and the plan it belongs to approved, although the
\* policy engine, the executor and the plan are read at different moments and a session keeps
\* the run as it was when it first read it (validate, queue_authorized_command).
QueuedAsApproved ==
  \A e \in DOMAIN execs : First(e) \/ Recovery(e) =>
    LET a == execs[e].auth IN
      /\ a.accepted /\ a.version = execs[e].version
      /\ log[a.version].live /\ a.req.plan \in log[a.version].approved

\* No decision is executed twice: what an accepted authorization allows is one execution and
\* the retries of that execution, whoever asks and in which session.
OneExecutionPerDecision ==
  \A e, f \in DOMAIN execs :
    /\ First(e) \/ Recovery(e)
    /\ First(f) \/ Recovery(f)
    /\ execs[e].auth = execs[f].auth
    => e = f

\* Lines of executions do not branch.  A retry follows an execution that failed and keeps the
\* line within the budget of the stage plan; version 3 replaces version 2 once.  The recovery
\* of a version check, which asks no budget, follows only a corrupted check that was the first
\* of its line (queue_retry_execution, the recovery_of branch of _queue_group).
SuccessorsBounded ==
  \A e \in DOMAIN execs : ~First(e) =>
    LET p == execs[e].parent IN
      /\ p < e
      /\ \A f \in DOMAIN execs : execs[f].parent = p => e = f
      /\ IF Recovery(e) THEN First(p) /\ execs[p].status = "corrupted"
                        ELSE execs[p].status = "failed" /\ execs[e].number <= Budget
==============================================================================
