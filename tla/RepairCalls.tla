----------------------------- MODULE RepairCalls ----------------------------
(***************************************************************************)
(* How a repair attempt obtains its proposal and its review from the       *)
(* model: RepairApplicationService.propose and review with their durable   *)
(* invocation rows, driven by the nodes propose_repair and review_repair,  *)
(* and the two operator requests that get an attempt moving again.         *)
(*                                                                         *)
(* A pass loads the attempt's context (its snapshot), opens the invocation *)
(* row of its key, marks the row as transporting, calls the provider and   *)
(* stores the answer if nothing it was based on has changed.  Each of      *)
(* these is a transaction of its own, so other workers, whose claim the    *)
(* lease of the continuation does not outlast, operators and crashes come  *)
(* in between.  A row read and written in one transaction is one step;     *)
(* only the recovery of an exhausted attempt, whose write rests on rows it *)
(* has read without a version check, is two.                               *)
(*                                                                         *)
(* A request is what distinguishes its checksum: "plain", or the feedback  *)
(* of a rejected first answer, which is worded from the failure code       *)
(* ("code"), from code and message ("message"), from the hydrated context  *)
(* ("context"), or, when the code is no longer known, from neither.        *)
(***************************************************************************)
EXTENDS Integers, FiniteSets, FiniteSetsExt, RepairProposals

CONSTANTS Workers,         \* transformer workers
          Operators,       \* concurrent requests to recover an exhausted attempt
          MaxAttempts,     \* repair_policy.max_attempts
          MaxGenerations,  \* bound on recoveries of an uncertain proposal call
          Rejections,      \* ways a first answer is rejected that occur
          MaxPostRetries,  \* llm_max_transport_retries
          MaxFaults,       \* bound on faults: a lease a live worker outlives, a crash, a
                           \*   call without a response, a change of the run by others
          MaxRestarts      \* bound on restart requests

Worded == {"code", "message", "context", "default"}

ASSUME ConstantsAssumption ==
  /\ IsFiniteSet(Workers) /\ Workers # {}
  /\ {MaxAttempts, MaxGenerations} \subseteq Nat \ {0}
  /\ {MaxPostRetries, MaxFaults, MaxRestarts} \subseteq Nat
  /\ Rejections \subseteq Worded \cup {"fatal"}

\* Every answer a run gives a proposer is what some proposal leads to.
ASSUME AnswersOccur == Rejections \cup {"valid"} \subseteq Outcomes

VARIABLES cont,      \* the continuation row
          run,       \* state_version of the run
          att,       \* repair attempts of the stage by attempt_number
          inv,       \* llm_invocations by key
          wk,        \* what each worker is doing
          ops,       \* what each recovery request has read
          calls,     \* calls of the gateway per key, and whether one of them was lost
          budget     \* faults and restarts so far

vars == <<cont, run, att, inv, wk, ops, calls, budget>>

Attempts == 1 .. MaxAttempts
Roles == {"proposer", "reviewer"}
Keys == {k \in [att : Attempts, role : Roles, retry : 0 .. 1, gen : 0 .. MaxGenerations] :
           k.role = "reviewer" => k.retry = 0 /\ k.gen <= 1}
NoKey == [att |-> 0, role |-> "none", retry |-> 0, gen |-> 0]
NoWorker == "none"

Decisions == {"accept", "request_changes", "reject"}
Failures == Worded \cup {"fatal", "provider", "protocol", "local", "stale"}
Requests == Worded \cup {"plain", "default", "unworded"}
Errors == {"none", "UNCERTAIN", "RECOVERY_FAILED", "EXHAUSTED", "INVALID", "MISMATCH",
           "FAILED", "STALE", "REVIEW_REJECTED"}
InvocationStatuses == {"absent", "in_progress", "failed", "completed", "uncertain_abandoned"}
AttemptStatuses == {"absent", "evidence_frozen", "proposed", "review_accepted",
                    "request_changes", "reject", "superseded"}

Row == [status : InvocationStatuses, started : BOOLEAN, version : Nat,
        request : Requests, failure : Failures \cup {"none"}]
NoRow == [status |-> "absent", started |-> FALSE, version |-> 0, request |-> "plain",
          failure |-> "none"]
Attempt == [status : AttemptStatuses, proposer : Keys \cup {NoKey},
            reviewer : Keys \cup {NoKey}]
Frozen == [status |-> "evidence_frozen", proposer |-> NoKey, reviewer |-> NoKey]

Base(n, role) == [att |-> n, role |-> role, retry |-> 0, gen |-> 0]
SemanticRetry(n) == [att |-> n, role |-> "proposer", retry |-> 1, gen |-> 0]

Exists(n) == att[n].status # "absent"
LatestRepair == Max({n \in Attempts : Exists(n)})
LatestOpenRepair == Max({n \in Attempts : att[n].status \notin {"absent", "superseded"}})

Idle == [pc |-> "idle", att |-> 0, role |-> "proposer", key |-> NoKey, iver |-> 0,
         snap |-> <<>>, carried |-> "none", count |-> 0, posts |-> 0, answer |-> "none"]

Init ==
  /\ cont = [status |-> "queued", node |-> "propose_repair", version |-> 1,
             owner |-> NoWorker, expired |-> FALSE, error |-> "none"]
  /\ run = 1
  /\ att = [n \in Attempts |-> IF n = 1 THEN Frozen ELSE [Frozen EXCEPT !.status = "absent"]]
  /\ inv = [k \in Keys |-> NoRow]
  /\ wk = [w \in Workers |-> Idle]
  /\ ops = [o \in Operators |-> [pc |-> "idle", att |-> 0, version |-> 0]]
  /\ calls = [k \in Keys |-> [count |-> 0, lost |-> FALSE]]
  /\ budget = [faults |-> 0, restarts |-> 0]

CanFault == budget.faults < MaxFaults
Faulted == [budget EXCEPT !.faults = @ + 1]

Owned(w) == cont.status = "running" /\ cont.owner = w

Queued(c, node) == [c EXCEPT !.status = "queued", !.node = node, !.owner = NoWorker,
                             !.expired = FALSE, !.version = @ + 1]

Blocked(c, code) == [c EXCEPT !.status = "blocked", !.error = code, !.owner = NoWorker,
                              !.expired = FALSE, !.version = @ + 1]

-----------------------------------------------------------------------------
(* The context of a pass and the key and request it leads to. *)

\* What an answer is based on: everything _authority_snapshot compares that can change.
Authority(n) == <<run, cont.version, att[n]>>

\* The hydrated context of the rejected first answer is found again.
RetryContextLoaded(n) == inv[Base(n, "proposer")].failure = "context"

\* The pass of propose: key, semantic_retry_count and request.  carried is the class of the
\* rejection that made the loop go round, "none" on the first pass.
ProposePass(n, carried) ==
  LET bound == att[n].proposer
      loaded == RetryContextLoaded(n)
      count == IF carried # "none" \/ loaded \/ bound.retry = 1 THEN 1 ELSE 0
  IN [key |-> CASE bound.gen > 0 -> bound
                [] bound.gen = 0 /\ count = 1 -> SemanticRetry(n)
                [] OTHER -> IF bound = NoKey THEN Base(n, "proposer") ELSE bound,
      count |-> count,
      request |-> CASE carried # "none" -> carried
                    [] carried = "none" /\ loaded -> "context"
                    [] OTHER -> IF count = 1 THEN "default" ELSE "plain"]

ReviewPass(n) ==
  [key |-> IF att[n].reviewer = NoKey THEN Base(n, "reviewer") ELSE att[n].reviewer,
   count |-> 0, request |-> "plain"]

\* The feedback _start_invocation writes when it finds the retry of an earlier pass: it has
\* the code of the first failure and not its message.
FeedbackFromCode(f) == CASE f = "message" -> "unworded"
                         [] f = "code" -> "code"
                         [] OTHER -> "default"

\* _start_invocation switches a pass without a retry count to the retry it finds.
EffectivePass(n, role, p) ==
  IF role = "proposer" /\ p.count = 0 /\ inv[SemanticRetry(n)].status # "absent"
    THEN [key |-> SemanticRetry(n), count |-> 1,
          request |-> FeedbackFromCode(inv[Base(n, "proposer")].failure)]
    ELSE p

\* The stored answer of a completed row may stand in for a call.
Replayable(n, role, p) ==
  /\ inv[p.key].request = p.request
  /\ IF role = "proposer" THEN att[n].proposer = p.key ELSE att[n].reviewer = p.key

\* A review whose attempt is back at "proposed" is of a proposal that has been replaced.
ReplayVerdict(n, role, p) ==
  CASE ~Replayable(n, role, p) -> "RECOVERY_FAILED"
    [] Replayable(n, role, p) /\ role = "reviewer" /\ att[n].status = "proposed" -> "STALE"
    [] OTHER -> "replay"

\* Mutant: a row whose call has started counts as free.
TransportIgnored(row) == FALSE

\* A call of the row may still be answered, or has been and its answer was lost.
Transporting(row) == row.status = "in_progress" /\ row.started

\* _recover_completed: what the row of the key means for the pass.
RecoverCompleted(n, role, p) ==
  LET row == inv[p.key]
  IN CASE row.status = "completed" -> ReplayVerdict(n, role, p)
       [] Transporting(row) -> "UNCERTAIN"
       [] row.status = "uncertain_abandoned" -> "RECOVERY_FAILED"
       [] OTHER -> "go"

\* Mutant: a failed semantic retry may be opened again.
RetryReopened(row, count) == FALSE

\* The one semantic retry has been spent.
RetrySpent(row, count) == count = 1 /\ row.status = "failed"

\* _start_invocation: whether the row of the pass may be opened.
StartVerdict(n, role, p) ==
  LET q == EffectivePass(n, role, p)
      row == inv[q.key]
  IN IF RetrySpent(row, q.count) THEN "EXHAUSTED"
     ELSE IF Transporting(row) THEN "UNCERTAIN"
     ELSE IF row.status = "absent" THEN "go"
     ELSE IF row.request # q.request THEN "MISMATCH"
     ELSE IF row.status = "completed" THEN ReplayVerdict(n, role, q)
     ELSE IF row.status = "uncertain_abandoned" THEN "INVALID"
     ELSE "go"

\* The row of a key that has none yet.
Inserted(request) == [NoRow EXCEPT !.status = "in_progress", !.version = 1,
                                   !.request = request]

\* A failed row, or one whose call has not started, gets the next version: whoever opened
\* it before no longer holds it.
TakenOver(row, request) == [row EXCEPT !.status = "in_progress", !.started = FALSE,
                                       !.version = row.version + 1, !.request = request]

\* The row as _start_invocation leaves it.
Opened(row, request) ==
  IF row.status = "absent" THEN Inserted(request) ELSE TakenOver(row, request)

-----------------------------------------------------------------------------
(* A worker's pass. *)

Claimable == cont.status = "queued" \/ (cont.status = "running" /\ cont.expired)

Claimed(w) == [cont EXCEPT !.status = "running", !.owner = w, !.expired = FALSE,
                           !.version = @ + 1]

\* claim_next and the node's first transaction, which checks the claim and picks the attempt;
\* a claim lost between the two ends the node without effect.
ClaimPropose(w) ==
  /\ wk[w].pc = "idle" /\ Claimable /\ cont.node = "propose_repair"
  /\ cont' = Claimed(w)
  /\ wk' = [wk EXCEPT ![w] = [Idle EXCEPT !.pc = "load", !.att = LatestOpenRepair]]
  /\ UNCHANGED <<run, att, inv, ops, calls, budget>>

ClaimReview(w) ==
  /\ wk[w].pc = "idle" /\ Claimable /\ cont.node = "review_repair"
  /\ IF att[LatestRepair].status = "request_changes"
       THEN cont' = Queued(Claimed(w), "create_g10") /\ UNCHANGED wk
       ELSE /\ wk' = [wk EXCEPT ![w] = [Idle EXCEPT !.pc = "load", !.att = LatestRepair,
                                                    !.role = "reviewer"]]
            /\ cont' = Claimed(w)
  /\ UNCHANGED <<run, att, inv, ops, calls, budget>>

\* _attempt_context: the snapshot everything later is compared with.
Load(w) ==
  /\ wk[w].pc = "load"
  /\ wk' = [wk EXCEPT ![w].pc = "start", ![w].snap = Authority(wk[w].att)]
  /\ UNCHANGED <<cont, run, att, inv, ops, calls, budget>>

Start(w) ==
  LET n == wk[w].att
      role == wk[w].role
      p == IF role = "proposer" THEN ProposePass(n, wk[w].carried) ELSE ReviewPass(n)
      q == EffectivePass(n, role, p)
      verdict == IF RecoverCompleted(n, role, p) = "go" THEN StartVerdict(n, role, p)
                 ELSE RecoverCompleted(n, role, p)
      answer == IF role = "proposer" THEN "valid" ELSE att[n].status
  IN /\ wk[w].pc = "start"
     /\ IF verdict = "go"
          THEN /\ inv' = [inv EXCEPT ![q.key] = Opened(inv[q.key], q.request)]
               /\ wk' = [wk EXCEPT ![w].pc = "mark", ![w].key = q.key, ![w].count = q.count,
                                   ![w].iver = inv[q.key].version + 1]
          ELSE /\ wk' = [wk EXCEPT ![w].pc = "end",
                                   ![w].answer = IF verdict = "replay" THEN answer ELSE verdict]
               /\ UNCHANGED inv
     /\ UNCHANGED <<cont, run, att, ops, calls, budget>>

\* Does the worker still hold the row it opened?
HoldsRow(w) == /\ inv[wk[w].key].status = "in_progress"
               /\ inv[wk[w].key].version = wk[w].iver

\* A row that is closed gets the next version too.
Closed(row, status, failure) ==
  [row EXCEPT !.status = status, !.failure = failure, !.version = row.version + 1]

\* Mutant: the row is closed whoever holds it.
PersistFailureAlways(w, failure) ==
  [inv EXCEPT ![wk[w].key] = Closed(inv[wk[w].key], "failed", failure)]

\* _persist_failure: a failed call closes its row if the worker still holds it.
PersistFailure(w, failure) ==
  IF HoldsRow(w)
    THEN [inv EXCEPT ![wk[w].key] = Closed(inv[wk[w].key], "failed", failure)]
    ELSE inv

\* _mark_transport_started, then the call goes out with its first POST.
MarkTransportStarted(w) ==
  LET key == wk[w].key
  IN /\ wk[w].pc = "mark"
     /\ IF HoldsRow(w) /\ ~inv[key].started
          THEN /\ inv' = [inv EXCEPT ![key].started = TRUE, ![key].version = @ + 1]
               /\ calls' = [calls EXCEPT ![key].count = @ + 1]
               /\ wk' = [wk EXCEPT ![w].pc = "call", ![w].iver = @ + 1, ![w].posts = 1]
          ELSE /\ wk' = [wk EXCEPT ![w].pc = "end", ![w].answer = "UNCERTAIN"]
               /\ UNCHANGED <<inv, calls>>
     /\ UNCHANGED <<cont, run, att, ops, budget>>

\* The gateway is disabled or misconfigured: the call never goes out.
LocalFailure(w) ==
  /\ wk[w].pc = "mark"
  /\ inv' = PersistFailure(w, "local")
  /\ wk' = [wk EXCEPT ![w].pc = "end", ![w].answer = "FAILED"]
  /\ UNCHANGED <<cont, run, att, ops, calls, budget>>

\* What binding and validating a proposal, or a review, can find.
ProposalAnswers == Rejections \cup {"valid"}
ReviewAnswers == Rejections \cup Decisions

\* complete sends its request again: after a transport failure or a status that may pass,
\* MaxPostRetries times, and after an incomplete first answer once.  The row is not touched.
PostAgain(w) ==
  /\ wk[w].pc = "call"
  /\ wk[w].posts <= MaxPostRetries \/ wk[w].posts = 1
  /\ wk' = [wk EXCEPT ![w].posts = @ + 1]
  /\ UNCHANGED <<cont, run, att, inv, ops, calls, budget>>

\* The provider answers some POST; whether the answer is any good is judged afterwards.
Answered(w) ==
  /\ wk[w].pc = "call"
  /\ \E a \in IF wk[w].role = "proposer" THEN ProposalAnswers ELSE ReviewAnswers :
       wk' = [wk EXCEPT ![w].pc = "bind", ![w].posts = 0, ![w].answer = a]
  /\ UNCHANGED <<cont, run, att, inv, ops, calls, budget>>

\* An error of the provider.
ProviderFailure(w) ==
  /\ wk[w].pc = "call"
  /\ inv' = PersistFailure(w, "provider")
  /\ wk' = [wk EXCEPT ![w].pc = "end", ![w].answer = "FAILED"]
  /\ UNCHANGED <<cont, run, att, ops, calls, budget>>

\* A response that is incomplete, or holds no structured message.
ProtocolFailure(w) ==
  /\ wk[w].pc = "call"
  /\ inv' = PersistFailure(w, "protocol")
  /\ wk' = [wk EXCEPT ![w].pc = "end", ![w].answer = "FAILED"]
  /\ UNCHANGED <<cont, run, att, ops, calls, budget>>

\* What _persist_failure leaves of a row whose call started and got no response.
UnknownRow(row) == [row EXCEPT !.version = row.version + 1]

\* Nor did the last POST get a response: the row stays open for an operator.
OutcomeUnknown(w) ==
  LET key == wk[w].key
  IN /\ wk[w].pc = "call" /\ wk[w].posts > MaxPostRetries /\ CanFault
     /\ budget' = Faulted
     /\ inv' = IF HoldsRow(w) THEN [inv EXCEPT ![key] = UnknownRow(inv[key])] ELSE inv
     /\ wk' = [wk EXCEPT ![w].pc = "end",
                         ![w].answer = IF HoldsRow(w) THEN "UNCERTAIN" ELSE "FAILED"]
     /\ calls' = [calls EXCEPT ![key].lost = TRUE]
     /\ UNCHANGED <<cont, run, att, ops>>

\* _assert_fresh_authority: nothing the answer is based on has changed.
Fresh(w) == wk[w].snap = Authority(wk[w].att)

\* The attempt once its answer is stored.
AttemptAnswered(a, role, key, answer) ==
  IF role = "proposer"
    THEN [a EXCEPT !.status = "proposed", !.proposer = key]
    ELSE [a EXCEPT !.status = IF answer = "accept" THEN "review_accepted" ELSE answer,
                   !.reviewer = key]

\* The conditions of _persist_call, all in its UPDATE statements.
MayPersist(w) == Fresh(w) /\ HoldsRow(w) /\ inv[wk[w].key].started

\* What the answer is based on has changed.
AnswerStale(w) ==
  /\ wk[w].pc = "bind"
  /\ IF wk[w].answer \in Rejections THEN ~Fresh(w) ELSE ~MayPersist(w)
  /\ inv' = PersistFailure(w, "stale")
  /\ wk' = [wk EXCEPT ![w].pc = "end", ![w].answer = "STALE"]
  /\ UNCHANGED <<cont, run, att, ops, calls, budget>>

\* A rejected first proposal gets one retry with feedback; the loop does not check again
\* who owns the continuation.
ProposalRejected(w) ==
  LET a == wk[w].answer
  IN /\ wk[w].pc = "bind" /\ wk[w].role = "proposer" /\ a \in Rejections /\ Fresh(w)
     /\ inv' = PersistFailure(w, a)
     /\ wk' = [wk EXCEPT ![w] =
                 IF a \in Worded /\ wk[w].count = 0
                   THEN [Idle EXCEPT !.pc = "load", !.att = wk[w].att, !.carried = a]
                   ELSE [wk[w] EXCEPT !.pc = "end", !.answer = "FAILED"]]
     /\ UNCHANGED <<cont, run, att, ops, calls, budget>>

\* A rejected review gets none.
ReviewRejected(w) ==
  /\ wk[w].pc = "bind" /\ wk[w].role = "reviewer" /\ wk[w].answer \in Rejections /\ Fresh(w)
  /\ inv' = PersistFailure(w, wk[w].answer)
  /\ wk' = [wk EXCEPT ![w].pc = "end", ![w].answer = "FAILED"]
  /\ UNCHANGED <<cont, run, att, ops, calls, budget>>

\* _persist_call.  _assert_fresh_authority compares earlier what its UPDATEs compare again.
PersistCall(w) ==
  LET key == wk[w].key
      n == wk[w].att
  IN /\ wk[w].pc = "bind" /\ wk[w].answer \notin Rejections /\ MayPersist(w)
     /\ run' = run + 1
     /\ cont' = [cont EXCEPT !.version = @ + 1]
     /\ att' = [att EXCEPT ![n] = AttemptAnswered(att[n], wk[w].role, key, wk[w].answer)]
     /\ inv' = [inv EXCEPT ![key] = Closed(inv[key], "completed", "none")]
     /\ wk' = [wk EXCEPT ![w].pc = "end",
                         ![w].answer = IF wk[w].role = "proposer" THEN "valid"
                                       ELSE att'[n].status]
     /\ UNCHANGED <<ops, calls, budget>>

\* The node's last transaction.
End(w) ==
  LET a == wk[w].answer
  IN /\ wk[w].pc = "end"
     /\ cont' = CASE ~Owned(w) -> cont
                  [] Owned(w) /\ a = "valid" -> Queued(cont, "review_repair")
                  [] Owned(w) /\ a \in {"review_accepted", "request_changes"} ->
                       Queued(cont, "create_g10")
                  [] Owned(w) /\ a = "reject" -> Blocked(cont, "REVIEW_REJECTED")
                  [] OTHER -> Blocked(cont, a)
     /\ wk' = [wk EXCEPT ![w] = Idle]
     /\ UNCHANGED <<run, att, inv, ops, calls, budget>>

-----------------------------------------------------------------------------
(* The environment. *)

\* The lease of a worker that is still at work runs out; nothing renews it.
Expire ==
  /\ cont.status = "running" /\ ~cont.expired
  /\ IF wk[cont.owner].pc = "idle" THEN UNCHANGED budget
     ELSE /\ CanFault
          /\ budget' = Faulted
  /\ cont' = [cont EXCEPT !.expired = TRUE]
  /\ UNCHANGED <<run, att, inv, wk, ops, calls>>

Crash(w) ==
  /\ wk[w].pc # "idle" /\ CanFault
  /\ budget' = Faulted
  /\ calls' = IF wk[w].pc \in {"call", "bind"}
                THEN [calls EXCEPT ![wk[w].key].lost = TRUE] ELSE calls
  /\ wk' = [wk EXCEPT ![w] = Idle]
  /\ UNCHANGED <<cont, run, att, inv, ops>>

\* A restart request: wake keeps the node and the error code.
Restart ==
  /\ cont.status = "blocked" /\ budget.restarts < MaxRestarts
  /\ budget' = [budget EXCEPT !.restarts = @ + 1]
  /\ cont' = [cont EXCEPT !.status = "queued", !.version = @ + 1]
  /\ UNCHANGED <<run, att, inv, wk, ops, calls>>

\* Any other transition of the run.
RunChange ==
  /\ CanFault
  /\ budget' = Faulted
  /\ run' = run + 1
  /\ UNCHANGED <<cont, att, inv, wk, ops, calls>>

-----------------------------------------------------------------------------
(* The operator's requests. *)

\* Keys of the recovered calls of an attempt; their rows exist only through a recovery.
Recovered(n) == {k \in Keys : k.att = n /\ k.gen > 0 /\ inv[k].status # "absent"}

OpenProposerKeys(n) ==
  {k \in Keys : k.att = n /\ k.role = "proposer" /\ inv[k].status = "in_progress"}

Successor(k) == [k EXCEPT !.gen = @ + 1]

\* The call that may be given up: the last recovered one if there is one.
AbandonableProposer(n, k) ==
  LET prior == {q \in Recovered(n) : q.role = "proposer"}
  IN /\ k \in OpenProposerKeys(n) /\ Transporting(inv[k])
     /\ IF prior = {} THEN att[n].proposer = NoKey
        ELSE att[n].proposer = k /\ k \in prior /\ \A q \in prior : q.gen <= k.gen

\* A new row takes the place of the abandoned one, with the same request.
Abandon(k) ==
  [inv EXCEPT ![k] = Closed(inv[k], "uncertain_abandoned", inv[k].failure),
              ![Successor(k)] = Inserted(inv[k].request)]

RecoverUncertainProposer(n) ==
  /\ cont.status = "blocked" /\ cont.node = "propose_repair" /\ cont.error = "UNCERTAIN"
  /\ att[n].status = "evidence_frozen"
  /\ \E k \in Keys :
       /\ AbandonableProposer(n, k) /\ k.gen < MaxGenerations
       /\ inv' = Abandon(k)
       /\ att' = [att EXCEPT ![n].proposer = Successor(k)]
  /\ cont' = [Queued(cont, "propose_repair") EXCEPT !.error = "none"]
  /\ UNCHANGED <<run, wk, ops, calls, budget>>

\* The run is blocked on the lost review of a proposal; no call of the attempt has been
\* recovered before.
AbandonableReview(n) ==
  /\ cont.status = "blocked" /\ cont.node = "review_repair" /\ cont.error = "UNCERTAIN"
  /\ Recovered(n) = {}
  /\ att[n].status = "proposed"

\* So a review can be recovered once.
RecoverUncertainReviewer(n) ==
  LET k == Base(n, "reviewer")
  IN /\ AbandonableReview(n) /\ Transporting(inv[k])
     /\ inv' = Abandon(k)
     /\ att' = [att EXCEPT ![n].reviewer = Successor(k)]
     /\ cont' = [Queued(cont, "review_repair") EXCEPT !.error = "none"]
     /\ UNCHANGED <<run, wk, ops, calls, budget>>

\* The retry, or the recovered call that took its place, failed in a way a new attempt may mend.
RetryFailureRecoverable(n) ==
  LET k == IF att[n].proposer = NoKey THEN SemanticRetry(n) ELSE att[n].proposer
  IN /\ att[n].proposer = NoKey \/ att[n].proposer.gen > 0
     /\ inv[k].status = "failed" /\ inv[k].failure \in Worded \cup {"protocol"}
     /\ k.retry = 1
     /\ inv[Base(n, "proposer")].status = "failed"

\* _semantic_recovery_authority.
SemanticRecoveryAuthority(n) ==
  /\ cont.status = "blocked" /\ cont.node = "propose_repair" /\ cont.error = "EXHAUSTED"
  /\ n = LatestRepair /\ att[n].status = "evidence_frozen"
  /\ n < MaxAttempts
  /\ RetryFailureRecoverable(n)

RecoverExhaustedRead(o, n) ==
  /\ ops[o].pc = "idle" /\ SemanticRecoveryAuthority(n)
  /\ ops' = [ops EXCEPT ![o] = [pc |-> "write", att |-> n, version |-> cont.version]]
  /\ UNCHANGED <<cont, run, att, inv, wk, calls, budget>>

\* Mutant: the child is numbered after the newest attempt.
ChildAfterLatest(n) == LatestRepair + 1

\* The child's number, and with the stage its primary key.
ChildNumber(n) == n + 1

\* The request has been carried out, by this or another operator.
ChildExists(n) == Exists(ChildNumber(n))

\* The child, the superseded parent and the continuation, written over what was read.  If
\* the child exists by now the request ends as a replay.
RecoverExhaustedWrite(o) ==
  LET n == ops[o].att
  IN /\ ops[o].pc = "write"
     /\ ops' = [ops EXCEPT ![o].pc = "done"]
     /\ IF ~ChildExists(n)
          THEN /\ att' = [att EXCEPT ![n].status = "superseded", ![ChildNumber(n)] = Frozen]
               /\ cont' = [status |-> "queued", node |-> "propose_repair",
                           version |-> ops[o].version + 1, owner |-> NoWorker,
                           expired |-> FALSE, error |-> "none"]
          ELSE UNCHANGED <<att, cont>>
     /\ UNCHANGED <<run, inv, wk, calls, budget>>

\* The two routes.
RecoverUncertain(n) == RecoverUncertainProposer(n) \/ RecoverUncertainReviewer(n)

RecoverExhausted(o) ==
  RecoverExhaustedWrite(o) \/ \E n \in Attempts : RecoverExhaustedRead(o, n)

-----------------------------------------------------------------------------
WorkerStep(w) ==
  \/ ClaimPropose(w) \/ ClaimReview(w) \/ Load(w) \/ Start(w)
  \/ MarkTransportStarted(w) \/ LocalFailure(w) \/ PostAgain(w) \/ Answered(w)
  \/ ProviderFailure(w)
  \/ ProtocolFailure(w) \/ OutcomeUnknown(w) \/ AnswerStale(w) \/ ProposalRejected(w)
  \/ ReviewRejected(w) \/ PersistCall(w) \/ End(w)

Next ==
  \/ \E w \in Workers : WorkerStep(w) \/ Crash(w)
  \/ Expire \/ Restart \/ RunChange
  \/ \E n \in Attempts : RecoverUncertain(n)
  \/ \E o \in Operators : RecoverExhausted(o)

Spec == Init /\ [][Next]_vars

-----------------------------------------------------------------------------
(* Properties. *)

\* The state is well typed.
TypeOK ==
  /\ cont \in [status : {"queued", "running", "blocked"},
               node : {"propose_repair", "review_repair", "create_g10"}, version : Nat,
               owner : Workers \cup {NoWorker}, expired : BOOLEAN, error : Errors]
  /\ run \in Nat /\ att \in [Attempts -> Attempt] /\ inv \in [Keys -> Row]
  /\ cont.status = "running" <=> cont.owner # NoWorker
  /\ \A w \in Workers :
       /\ wk[w].pc \in {"idle", "load", "start", "mark", "call", "bind", "end"}
       /\ wk[w].key \in Keys \cup {NoKey}
  /\ \A o \in Operators : ops[o].pc \in {"idle", "write", "done"}

Answering(w, k) == wk[w].key = k /\ wk[w].pc \in {"call", "bind"}

\* The step sends a POST under the key.
Posts(w, k) ==
  /\ wk'[w].key = k /\ wk'[w].pc = "call"
  /\ wk[w].pc # "call" \/ wk'[w].posts # wk[w].posts

\* A call of the gateway that ended without a response, or with the worker that made it, is
\* never repeated under its key, and one that is still under way only by itself: whoever finds
\* the row after an expired lease, a restart or beside a second worker finds it transporting
\* (_start_invocation, _mark_transport_started), even while the call sends its own POST again
\* and after an operator has given it up.
NoBlindRepeat ==
  [][\A k \in Keys, w \in Workers : Posts(w, k) =>
       /\ ~calls[k].lost
       /\ \A v \in Workers : Answering(v, k) => v = w /\ wk[w].pc = "call"]_vars

\* The gateway is called at most once for the one semantic retry of an attempt, over all passes,
\* workers, crashes and restarts (the failed row is refused as exhausted, the started one as
\* uncertain); how often that call sends its POST is another matter.
RetryCalledOnce == \A k \in Keys : k.retry = 1 => calls[k].count <= 1

\* A stored proposal or review names a completed call of its own attempt: what an abandoned
\* or failed call brings late is never stored, and no stored answer's call is opened again
\* (_assert_fresh_authority, _persist_call, _start_invocation).
AnswersAreCompleted ==
  \A n \in Attempts :
    LET reviewed == {"review_accepted", "request_changes", "reject"}
    IN /\ att[n].status \in reviewed \cup {"proposed"} =>
            att[n].proposer.att = n /\ inv[att[n].proposer].status = "completed"
       /\ att[n].status \in reviewed =>
            att[n].reviewer.att = n /\ inv[att[n].reviewer].status = "completed"

\* Concurrent recoveries of an exhausted attempt, and restarts in between, leave exactly one
\* attempt open (recover_exhausted_semantic_retry).
OneOpenAttempt == Cardinality({n \in Attempts : att[n].status \notin {"absent", "superseded"}}) = 1

\* What the stored proposal of an attempt may be: any that was accepted.
StoredProposals(n) ==
  IF att[n].status \in {"proposed", "review_accepted", "request_changes", "reject"}
    THEN Accepted ELSE {}

\* A stored proposal of operations is applied as it was proposed and as it was shown: its
\* operations are coalesced when it is bound, when it is validated and when it is applied, and
\* yet every file ends up with what the operations say one after the other, which is what the
\* operator's diff shows, in the line endings the file had ("the diff the operator approves and
\* the mutation the apply performs can never disagree", replace_text_once).
AppliedAsProposed == \A n \in Attempts : StoredProposals(n) \cap Misapplied = {}

\* Whatever another process writes while a stored proposal is applied: either the workspace
\* ends up exactly as approved, or every file the proposal was to change is as it was before
\* (_apply_locked: the preimage before every write, the manifest after the last, the rollback).
ApplyIsAllOrNothing == \A n \in Attempts : StoredProposals(n) \cap PartlyApplied = {}
=============================================================================
