------------------------- MODULE CommandPolicyProofs -------------------------
(***************************************************************************)
(* Proofs about CommandPolicy, for any keys of users, any budget of the    *)
(* plans and any number of versions and executions.                        *)
(***************************************************************************)
EXTENDS CommandPolicy, TLAPS

-----------------------------------------------------------------------------
(* What the rows are. *)

Keys == UserKeys \cup {"ci", "update", "version", "transition", "supersession", "recovery"}
              \cup ({"retry"} \X Nat)

Commands == {"ci", "update", "version", "transition"}

Entry == [live : BOOLEAN, approved : SUBSET Nat]

Req == [key : Keys, command : Commands, template : Nat, plan : Nat, exact : BOOLEAN]

AuditRow == [req : Req \cup {None}, version : Nat, accepted : BOOLEAN]

Exec == [auth : AuditRow, key : Keys, version : Nat, parent : Nat, number : Nat,
         command : Commands, template : Nat, status : Active \cup Ended]

Session == [pc : {"idle", "busy"}, version : Nat, req : Req \cup Keys \cup {None},
            key : Keys \cup {None}]

RunTyped ==
  /\ log \in Seq(Entry) /\ Len(log) > 0
  /\ plans \in Seq(2 .. 3) /\ Len(plans) > 0
  /\ cont \in 0 .. Len(plans)

\* Sessions have read a version that the run has reached.
SessionsTyped ==
  /\ thr \in [Threads -> Session]
  /\ \A t \in Threads : Busy(t) => thr[t].version \in 1 .. Len(log)
  /\ Busy("validate") => thr["validate"].req \in Req
  /\ Busy("queue") => thr["queue"].req \in DOMAIN audits /\ thr["queue"].key \in Keys

-----------------------------------------------------------------------------
(* The inductive invariant. *)

\* A decision that accepts was made for a version in which the run was executable, and
\* its plan was approved then, unless it was approved while the request was under way:
\* then the version has passed.
DecisionHolds(a) ==
  /\ a \in AuditRow
  /\ a.accepted =>
       /\ a.req \in Req
       /\ a.version \in 1 .. Len(log) /\ log[a.version].live
       /\ a.req.plan \in log[a.version].approved \/ a.version < Len(log)

DecisionsHold ==
  /\ DOMAIN audits \subseteq Keys
  /\ \A k \in DOMAIN audits : DecisionHolds(audits[k])

\* An authorization read by a request that sees the same version names an approved plan.
QueueReadsApproved ==
  Busy("queue") =>
    LET a == audits[thr["queue"].req] IN
      a.accepted /\ a.version = thr["queue"].version => a.req.plan \in log[a.version].approved

\* Approvals are never taken back, and the continuation's plan is approved.
ApprovalsGrow ==
  /\ \A i, j \in 1 .. Len(log) : i <= j => log[i].approved \subseteq log[j].approved
  /\ cont # 0 => cont \in log[Len(log)].approved
  /\ Busy(Node) => cont # 0 /\ cont \in log[thr[Node].version].approved

\* Everything about the run, its decisions and the sessions.
DecisionInv ==
  RunTyped /\ SessionsTyped /\ DecisionsHold /\ QueueReadsApproved /\ ApprovalsGrow

\* What no retry is: the first of its line, or the recovery of a version check.
Queues(e) == First(e) \/ Recovery(e)

\* An execution runs the command it was authorized for; one that is no retry has the key of
\* its decision, and no other such execution has that key.  All recoveries have the same key.
ExecutionsAuthorized ==
  /\ execs \in Seq(Exec)
  /\ \A e \in 1 .. Len(execs) :
       /\ execs[e].auth.accepted /\ execs[e].auth.req \in Req
       /\ execs[e].auth.version \in 1 .. Len(log)
       /\ execs[e].parent \in 0 .. e - 1
       /\ execs[e].command = execs[e].auth.req.command
       /\ Queues(e) => execs[e].key = execs[e].auth.req.key
       /\ Recovery(e) => execs[e].key = "recovery"
       /\ ~ First(e) => execs[e].command = execs[execs[e].parent].command
  /\ \A e, f \in 1 .. Len(execs) :
       Queues(e) /\ Queues(f) /\ execs[e].key = execs[f].key => e = f

PolicyInv ==
  /\ DecisionInv
  /\ ExecutionsAuthorized /\ QueuedAsApproved /\ SuccessorsBounded

-----------------------------------------------------------------------------
(* Sequences that grow by one. *)

LEMMA AppendFacts ==
  ASSUME NEW S, NEW s \in Seq(S), NEW x \in S
  PROVE  /\ Append(s, x) \in Seq(S)
         /\ Len(Append(s, x)) = Len(s) + 1
         /\ \A i \in 1 .. Len(s) : Append(s, x)[i] = s[i]
         /\ Append(s, x)[Len(s) + 1] = x
  OBVIOUS

-----------------------------------------------------------------------------
(* The run moves on. *)

\* Appending an entry that keeps the approvals keeps what was decided and read.
LEMMA LogGrows ==
  ASSUME DecisionInv, NEW x \in Entry, log' = Append(log, x),
         log[Len(log)].approved \subseteq x.approved,
         plans' \in Seq(2 .. 3), Len(plans') >= Len(plans),
         cont' \in {0, cont} \cup (x.approved \cap (1 .. Len(plans'))), cont # 0 => cont' = cont,
         audits' = audits, thr' \in {thr, [thr EXCEPT ![Node] = Idle]}
  PROVE  DecisionInv'
<1> USE DEF DecisionInv
<1>1. log \in Seq(Entry) /\ Len(log) \in Nat /\ Len(log) > 0
  BY DEF RunTyped
<1>2. /\ log' \in Seq(Entry) /\ Len(log') = Len(log) + 1
      /\ \A i \in 1 .. Len(log) : log'[i] = log[i]
      /\ log'[Len(log) + 1] = x
  BY <1>1, AppendFacts
<1>3. RunTyped'
  BY <1>1, <1>2 DEF RunTyped
<1>4. thr \in [Threads -> Session] /\ Idle \in Session
  BY DEF SessionsTyped, Session, Idle
<1>5. \A t \in Threads : Busy(t)' => Busy(t) /\ thr'[t] = thr[t]
  BY <1>4 DEF Busy, Threads, Node, Idle
<1>6. SessionsTyped'
  <2>1. thr' \in [Threads -> Session]
    BY <1>4 DEF Threads, Node
  <2>2. \A t \in Threads : Busy(t)' => thr'[t].version \in 1 .. Len(log')
    BY <1>1, <1>2, <1>5 DEF SessionsTyped
  <2> QED
    BY <1>5, <2>1, <2>2 DEF SessionsTyped, Threads
<1>7. DecisionsHold'
  <2>1. ASSUME NEW a, DecisionHolds(a)
        PROVE  /\ a \in AuditRow
               /\ a.accepted =>
                    /\ a.req \in Req
                    /\ a.version \in 1 .. Len(log') /\ log'[a.version].live
                    /\ a.req.plan \in log'[a.version].approved \/ a.version < Len(log')
    BY <1>1, <1>2, <2>1 DEF DecisionHolds
  <2>2. \A k \in DOMAIN audits : DecisionHolds(audits[k])
    BY DEF DecisionsHold
  <2> QED
    BY <2>1, <2>2 DEF DecisionsHold, DecisionHolds
<1>8. QueueReadsApproved'
  <2>1. ASSUME Busy("queue")' PROVE Busy("queue") /\ thr'["queue"] = thr["queue"]
    BY <1>5, <2>1 DEF Threads
  <2>2. ASSUME Busy("queue") PROVE thr["queue"].version \in 1 .. Len(log)
    BY <2>2 DEF SessionsTyped, Threads
  <2> QED
    BY <1>2, <2>1, <2>2 DEF QueueReadsApproved
<1>9. ApprovalsGrow'
  <2>1. \A i, j \in 1 .. Len(log') : i <= j => log'[i].approved \subseteq log'[j].approved
    BY <1>1, <1>2 DEF ApprovalsGrow
  <2>2. cont' # 0 => cont' \in log'[Len(log')].approved
    BY <1>2 DEF ApprovalsGrow
  <2>3. Busy(Node)' => cont' # 0 /\ cont' \in log'[thr'[Node].version].approved
    <3>1. ASSUME Busy(Node)'
          PROVE  Busy(Node) /\ thr'[Node] = thr[Node] /\ thr[Node].version \in 1 .. Len(log)
      BY <1>5, <3>1 DEF SessionsTyped, Threads, Node
    <3> QED
      BY <1>2, <3>1 DEF ApprovalsGrow
  <2> QED
    BY <2>1, <2>2, <2>3 DEF ApprovalsGrow
<1> QED
  BY <1>3, <1>6, <1>7, <1>8, <1>9

-----------------------------------------------------------------------------
(* Sessions and their decisions. *)

\* A session that begins reads the current version.
LEMMA SessionBegins ==
  ASSUME DecisionInv, NEW t \in Threads, NEW r \in Req \cup Keys \cup {None},
         NEW k \in Keys \cup {None}, Goes(t, Reads(r, k)),
         UNCHANGED <<log, plans, cont, audits>>,
         t = "validate" => r \in Req,
         t = "queue" => r \in DOMAIN audits /\ k \in Keys,
         t = Node => cont # 0
  PROVE  DecisionInv'
<1> USE DEF DecisionInv
<1>1. Len(log) \in Nat /\ Len(log) > 0
  BY DEF RunTyped
<1>2. Reads(r, k) \in Session
  BY <1>1 DEF Reads, Session, Version
<1>3. /\ thr' \in [Threads -> Session] /\ thr'[t] = Reads(r, k)
      /\ \A u \in Threads \ {t} : thr'[u] = thr[u]
  BY <1>2 DEF Goes, SessionsTyped
<1>4. thr'[t].version = Len(log) /\ thr'[t].req = r /\ thr'[t].key = k
  BY <1>3 DEF Reads, Version
<1>5. SessionsTyped'
  <2>1. \A u \in Threads : Busy(u)' => thr'[u].version \in 1 .. Len(log)
    BY <1>1, <1>3, <1>4 DEF SessionsTyped, Busy
  <2>2. Busy("validate")' => thr'["validate"].req \in Req
    BY <1>3, <1>4 DEF SessionsTyped, Busy, Threads
  <2>3. Busy("queue")' => thr'["queue"].req \in DOMAIN audits /\ thr'["queue"].key \in Keys
    BY <1>3, <1>4 DEF SessionsTyped, Busy, Threads
  <2> QED
    BY <1>3, <2>1, <2>2, <2>3 DEF SessionsTyped
<1>6. DecisionsHold' /\ RunTyped'
  BY DEF DecisionsHold, DecisionHolds, RunTyped
<1>7. QueueReadsApproved'
  <2>1. CASE t = "queue"
    <3>1. DecisionHolds(audits[r])
      BY <2>1 DEF DecisionsHold
    <3> QED
      BY <1>1, <1>4, <2>1, <3>1 DEF QueueReadsApproved, DecisionHolds
  <2>2. CASE t # "queue"
    <3>1. thr'["queue"] = thr["queue"]
      BY <1>3, <2>2 DEF Threads
    <3> QED
      BY <3>1 DEF QueueReadsApproved, Busy
  <2> QED
    BY <2>1, <2>2
<1>8. ApprovalsGrow'
  <2>1. Busy(Node)' => cont # 0 /\ cont \in log[thr'[Node].version].approved
    BY <1>3, <1>4 DEF ApprovalsGrow, Busy, Threads, Node
  <2> QED
    BY <2>1 DEF ApprovalsGrow
<1> QED
  BY <1>5, <1>6, <1>7, <1>8

\* A session that ends, and what else a step may change that no decision looks at.
LEMMA SessionEnds ==
  ASSUME DecisionInv, UNCHANGED <<log, plans, cont, audits>>,
         NEW t \in Threads, thr' = thr \/ Goes(t, Idle)
  PROVE  DecisionInv'
<1> USE DEF DecisionInv
<1>1. thr \in [Threads -> Session] /\ Idle \in Session
  BY DEF SessionsTyped, Session, Idle
<1>2. thr' \in [Threads -> Session]
  BY <1>1 DEF Goes
<1>3. \A u \in Threads : Busy(u)' => Busy(u) /\ thr'[u] = thr[u]
  BY <1>1 DEF Goes, Busy, Idle
<1>4. SessionsTyped'
  BY <1>2, <1>3 DEF SessionsTyped, Threads
<1>5. DecisionsHold' /\ RunTyped'
  BY DEF DecisionsHold, DecisionHolds, RunTyped
<1>6. QueueReadsApproved'
  BY <1>3 DEF QueueReadsApproved, Threads
<1>7. ApprovalsGrow'
  BY <1>3 DEF ApprovalsGrow, Threads, Node
<1> QED
  BY <1>4, <1>5, <1>6, <1>7

\* An accepted decision of a session: the version it has read was executable and the plan
\* is approved now.
LEMMA AcceptedHolds ==
  ASSUME DecisionInv, NEW r \in Req, NEW v \in 1 .. Len(log), NEW parent, NEW repair,
         NEW certified, Accepts(r, v, parent, repair, certified)
  PROVE  DecisionHolds(Audit(r, v, TRUE))
<1>1. Len(log) \in Nat
  BY DEF DecisionInv, RunTyped
<1>2. log[v].live /\ r.plan \in log[Len(log)].approved
  BY DEF Accepts, PlanMember, RunExecutable, PlanApproved, Version
<1> QED
  BY <1>1, <1>2 DEF DecisionHolds, Audit, AuditRow

LEMMA RefusedHolds ==
  ASSUME NEW r, NEW v
  PROVE  DecisionHolds(Audit(r, v, FALSE))
  BY DEF DecisionHolds, Audit, AuditRow

\* Recording a decision of the session that made it.
LEMMA DecisionRecorded ==
  ASSUME DecisionInv, NEW k \in Keys, ~ Known(k), NEW a, DecisionHolds(a), Recorded(k, a),
         UNCHANGED <<log, plans, cont>>, NEW t \in Threads, Goes(t, Idle)
  PROVE  DecisionInv'
<1> USE DEF DecisionInv
<1>1. thr \in [Threads -> Session] /\ Idle \in Session
  BY DEF SessionsTyped, Session, Idle
<1>2. thr' \in [Threads -> Session]
  BY <1>1 DEF Goes
<1>3. \A u \in Threads : Busy(u)' => Busy(u) /\ thr'[u] = thr[u]
  BY <1>1 DEF Goes, Busy, Idle
<1>4. /\ DOMAIN audits' = DOMAIN audits \cup {k}
      /\ audits'[k] = a
      /\ \A x \in DOMAIN audits : audits'[x] = audits[x]
  BY DEF Recorded, Known
<1>5. SessionsTyped'
  BY <1>2, <1>3, <1>4 DEF SessionsTyped, Threads
<1>6. RunTyped'
  BY DEF RunTyped
<1>7. DecisionsHold'
  BY <1>4 DEF DecisionsHold, DecisionHolds
<1>8. QueueReadsApproved'
  <2>1. ASSUME Busy("queue")'
        PROVE  /\ Busy("queue") /\ thr'["queue"] = thr["queue"]
               /\ thr["queue"].req \in DOMAIN audits
    BY <1>3, <2>1 DEF SessionsTyped, Threads
  <2> QED
    BY <1>4, <2>1 DEF QueueReadsApproved
<1>9. ApprovalsGrow'
  BY <1>3 DEF ApprovalsGrow, Threads, Node
<1> QED
  BY <1>5, <1>6, <1>7, <1>8, <1>9

-----------------------------------------------------------------------------
(* Executions. *)

ExecInv == ExecutionsAuthorized /\ QueuedAsApproved /\ SuccessorsBounded

\* The log is longer, and says what it said of the versions before.
LogKept ==
  /\ Len(log) \in Nat /\ Len(log') \in Nat /\ Len(log) <= Len(log')
  /\ \A i \in 1 .. Len(log) : log'[i] = log[i]

LEMMA ExecsStay ==
  ASSUME ExecInv, LogKept, execs' = execs
  PROVE  ExecInv'
<1> USE DEF ExecInv
<1>0. DOMAIN execs = 1 .. Len(execs) /\ Len(execs) \in Nat
  BY DEF ExecutionsAuthorized
<1>1. ExecutionsAuthorized'
  BY DEF ExecutionsAuthorized, Queues, First, Recovery, LogKept
<1>2. QueuedAsApproved'
  <2> SUFFICES ASSUME NEW e \in 1 .. Len(execs), First(e) \/ Recovery(e)
               PROVE  LET a == execs[e].auth IN
                        /\ a.accepted /\ a.version = execs[e].version
                        /\ log'[a.version].live /\ a.req.plan \in log'[a.version].approved
    BY <1>0 DEF QueuedAsApproved, First, Recovery
  <2>1. execs[e].auth.version \in 1 .. Len(log)
    BY DEF ExecutionsAuthorized
  <2> QED
    BY <1>0, <2>1 DEF QueuedAsApproved, LogKept
<1>3. SuccessorsBounded'
  BY <1>0 DEF SuccessorsBounded, First, Recovery
<1> QED
  BY <1>1, <1>2, <1>3

\* What holds of an execution that is queued under a decision of its own.
Fits(x) ==
  /\ x.key = x.auth.req.key /\ x.key \notin KeysUsed
  /\ x.version = x.auth.version
  /\ log[x.version].live /\ x.auth.req.plan \in log[x.version].approved

Recovers(x) ==
  /\ x.parent \in 1 .. Len(execs) /\ RecoveryRequired(x.parent)
  /\ x.command = "version" /\ x.key = "recovery"

Retries(x) ==
  /\ x.parent \in 1 .. Len(execs) /\ execs[x.parent].status = "failed"
  /\ Newest(x.parent) /\ x.command = execs[x.parent].command /\ x.command # "version"
  /\ x.number <= Budget

\* A new execution: the first or the recovery of a line, for a decision with a key of its own,
\* or the retry of the newest execution of its command, which has failed and has attempts left.
LEMMA ExecAdded ==
  ASSUME ExecInv, NEW x \in Exec, execs' = Append(execs, x), log' = log, Len(log) \in Nat,
         x.auth.accepted, x.auth.req \in Req, x.command = x.auth.req.command,
         x.auth.version \in 1 .. Len(log),
         \/ x.parent = 0 /\ Fits(x)
         \/ Recovers(x) /\ Fits(x)
         \/ Retries(x)
  PROVE  ExecInv'
<1> USE DEF ExecInv
<1>0. DOMAIN execs = 1 .. Len(execs) /\ Len(execs) \in Nat /\ execs \in Seq(Exec)
  BY DEF ExecutionsAuthorized
<1>n. PICK n : n = Len(execs) + 1
  OBVIOUS
<1>1. /\ execs' \in Seq(Exec) /\ Len(execs') = n
      /\ \A e \in 1 .. Len(execs) : execs'[e] = execs[e]
      /\ execs'[n] = x
  BY <1>0, <1>n, AppendFacts
<1>2. DOMAIN execs' = 1 .. n /\ 1 .. n = (1 .. Len(execs)) \cup {n} /\ n \notin 1 .. Len(execs)
  BY <1>0, <1>1, <1>n
<1>3. \A e \in 1 .. Len(execs) :
        /\ First(e)' <=> First(e)
        /\ Recovery(e)' <=> Recovery(e)
        /\ Queues(e)' <=> Queues(e)
        /\ execs[e].parent \in 0 .. e - 1
  BY <1>1 DEF First, Recovery, Queues, ExecutionsAuthorized
<1>4. /\ First(n)' <=> x.parent = 0
      /\ Recovery(n)' <=> x.parent # 0 /\ x.command = "version"
      /\ Queues(n)' <=> x.parent = 0 \/ x.command = "version"
  BY <1>1 DEF First, Recovery, Queues
<1>p. x.parent \in 0 .. n - 1 /\ (x.parent # 0 => x.parent \in 1 .. Len(execs))
  BY <1>0, <1>n DEF Recovers, Retries
<1>q. /\ Queues(n)' => Fits(x)
      /\ Recovery(n)' => Recovers(x)
      /\ x.parent # 0 /\ ~ Recovery(n)' => Retries(x)
      /\ x.parent # 0 => x.command = execs[x.parent].command
  BY <1>4 DEF Recovers, Retries, RecoveryRequired
<1>5. ExecutionsAuthorized'
  <2>1. ASSUME NEW e \in 1 .. n
        PROVE  /\ execs'[e].auth.accepted /\ execs'[e].auth.req \in Req
               /\ execs'[e].auth.version \in 1 .. Len(log')
               /\ execs'[e].parent \in 0 .. e - 1
               /\ execs'[e].command = execs'[e].auth.req.command
               /\ Queues(e)' => execs'[e].key = execs'[e].auth.req.key
               /\ Recovery(e)' => execs'[e].key = "recovery"
               /\ ~ First(e)' => execs'[e].command = execs'[execs'[e].parent].command
    <3>1. CASE e = n
      <4>1. Queues(n)' => x.key = x.auth.req.key
        BY <1>q DEF Fits
      <4>2. Recovery(n)' => x.key = "recovery"
        BY <1>q DEF Recovers
      <4>3. ~ First(n)' => x.command = execs'[x.parent].command
        BY <1>1, <1>4, <1>p, <1>q
      <4>4. /\ execs'[n].auth.accepted /\ execs'[n].auth.req \in Req
            /\ execs'[n].auth.version \in 1 .. Len(log')
            /\ execs'[n].parent \in 0 .. n - 1
            /\ execs'[n].command = execs'[n].auth.req.command
        BY <1>1, <1>p
      <4> QED
        BY <1>1, <3>1, <4>1, <4>2, <4>3, <4>4
    <3>2. CASE e \in 1 .. Len(execs)
      <4>1. ~ First(e) => execs[e].parent \in 1 .. Len(execs)
        BY <1>0, <1>3, <3>2 DEF First
      <4> QED
        BY <1>1, <1>3, <3>2, <4>1 DEF ExecutionsAuthorized
    <3> QED
      BY <1>2, <3>1, <3>2
  <2>2. ASSUME NEW e \in 1 .. n, NEW f \in 1 .. n,
               Queues(e)', Queues(f)', execs'[e].key = execs'[f].key
        PROVE  e = f
    <3>1. \A g \in 1 .. Len(execs) : Queues(n)' => execs[g].key # x.key
      BY <1>0, <1>q DEF KeysUsed, Fits
    <3>2. CASE e \in 1 .. Len(execs) /\ f \in 1 .. Len(execs)
      BY <1>1, <1>3, <2>2, <3>2 DEF ExecutionsAuthorized
    <3>3. CASE e = n
      <4>1. Queues(n)'
        BY <2>2, <3>3
      <4> QED
        BY <1>1, <1>2, <2>2, <3>1, <3>3, <4>1
    <3>4. CASE f = n
      <4>1. Queues(n)'
        BY <2>2, <3>4
      <4> QED
        BY <1>1, <1>2, <2>2, <3>1, <3>4, <4>1
    <3> QED
      BY <1>2, <3>2, <3>3, <3>4
  <2> QED
    BY <1>1, <2>1, <2>2 DEF ExecutionsAuthorized
<1>6. QueuedAsApproved'
  <2> SUFFICES ASSUME NEW e \in 1 .. n, First(e)' \/ Recovery(e)'
               PROVE  LET a == execs'[e].auth IN
                        /\ a.accepted /\ a.version = execs'[e].version
                        /\ log[a.version].live /\ a.req.plan \in log[a.version].approved
    BY <1>2 DEF QueuedAsApproved
  <2>1. CASE e = n
    <3>1. First(n)' \/ Recovery(n)'
      BY <2>1
    <3>2. Fits(x)
      BY <1>4, <1>q, <3>1
    <3> QED
      BY <1>1, <2>1, <3>2 DEF Fits
  <2>2. CASE e \in 1 .. Len(execs)
    BY <1>0, <1>1, <1>3, <2>2 DEF QueuedAsApproved
  <2> QED
    BY <1>2, <2>1, <2>2
<1>7. SuccessorsBounded'
  <2> SUFFICES ASSUME NEW e \in 1 .. n, ~ First(e)'
               PROVE  /\ execs'[e].parent < e
                      /\ \A f \in 1 .. n : execs'[f].parent = execs'[e].parent => e = f
                      /\ IF Recovery(e)'
                           THEN /\ execs'[execs'[e].parent].parent = 0
                                /\ execs'[execs'[e].parent].status = "corrupted"
                           ELSE /\ execs'[execs'[e].parent].status = "failed"
                                /\ execs'[e].number <= Budget
    BY <1>2 DEF SuccessorsBounded, First
  <2>0. \* what gets a successor has none
        ASSUME x.parent # 0 PROVE \A f \in 1 .. Len(execs) : execs[f].parent # x.parent
    <3> SUFFICES ASSUME NEW f \in 1 .. Len(execs), execs[f].parent = x.parent PROVE FALSE
      OBVIOUS
    <3>1. ~ First(f) /\ execs[f].command = execs[x.parent].command /\ x.parent < f
      BY <1>0, <2>0 DEF ExecutionsAuthorized, First
    <3>2. CASE Recovery(n)'
      <4>1. Recovery(f)
        BY <1>q, <2>0, <3>1, <3>2 DEF Recovery, Recovers
      <4>2. execs[f].key = "recovery" /\ execs[f].key \in KeysUsed
        BY <1>0, <4>1 DEF ExecutionsAuthorized, KeysUsed
      <4>3. Fits(x) /\ Recovers(x)
        BY <1>4, <1>q, <3>2
      <4> QED
        BY <4>2, <4>3 DEF Fits, Recovers
    <3>3. CASE ~ Recovery(n)'
      <4>1. Retries(x)
        BY <1>q, <2>0, <3>3
      <4> QED
        BY <1>0, <3>1, <4>1 DEF Newest, Retries
    <3> QED
      BY <3>2, <3>3
  <2>1. CASE e = n
    <3>1. x.parent # 0 /\ x.parent \in 1 .. Len(execs) /\ execs'[x.parent] = execs[x.parent]
      BY <1>1, <1>4, <1>p, <2>1
    <3>2. \A f \in 1 .. n : execs'[f].parent = x.parent => f = n
      BY <1>1, <1>2, <2>0, <3>1
    <3>3. Recovery(n)' => execs[x.parent].parent = 0 /\ execs[x.parent].status = "corrupted"
      BY <1>q DEF Recovers, RecoveryRequired
    <3>4. ~ Recovery(n)' => execs[x.parent].status = "failed" /\ x.number <= Budget
      BY <1>q, <3>1 DEF Retries
    <3>5. x.parent < n
      BY <1>0, <1>n, <3>1
    <3> QED
      BY <1>1, <2>1, <3>1, <3>2, <3>3, <3>4, <3>5
  <2>2. CASE e \in 1 .. Len(execs)
    <3>1. ~ First(e) /\ execs[e].parent \in 1 .. Len(execs)
      BY <1>0, <1>3, <2>2 DEF First
    <3>2. x.parent # execs[e].parent
      BY <2>0, <2>2, <3>1 DEF First
    <3>3. /\ execs'[e] = execs[e] /\ execs'[execs[e].parent] = execs[execs[e].parent]
      BY <1>1, <2>2, <3>1
    <3>4. /\ execs[e].parent < e
          /\ \A f \in 1 .. Len(execs) : execs[f].parent = execs[e].parent => e = f
          /\ IF Recovery(e)
               THEN /\ execs[execs[e].parent].parent = 0
                    /\ execs[execs[e].parent].status = "corrupted"
               ELSE execs[execs[e].parent].status = "failed" /\ execs[e].number <= Budget
      BY <1>0, <2>2, <3>1 DEF SuccessorsBounded, First
    <3>5. \A f \in 1 .. n : execs'[f].parent = execs[e].parent => e = f
      BY <1>1, <1>2, <3>2, <3>4
    <3> QED
      BY <1>3, <2>2, <3>3, <3>4, <3>5
  <2> QED
    BY <1>2, <2>1, <2>2
<1> QED
  BY <1>5, <1>6, <1>7

\* An execution that ends was active; those that failed have ended.
LEMMA ExecEnds ==
  ASSUME ExecInv, NEW e \in DOMAIN execs, NEW s \in Ended, execs[e].status \in Active,
         execs' = [execs EXCEPT ![e].status = s], log' = log
  PROVE  ExecInv'
<1> USE DEF ExecInv
<1>0. DOMAIN execs = 1 .. Len(execs) /\ Len(execs) \in Nat /\ execs \in Seq(Exec)
  BY DEF ExecutionsAuthorized
<1>e. e \in 1 .. Len(execs) /\ execs[e] \in Exec
  BY <1>0
<1>1. [execs[e] EXCEPT !.status = s] \in Exec
  BY <1>e DEF Exec
<1>2. execs' \in Seq(Exec) /\ Len(execs') = Len(execs) /\ DOMAIN execs' = 1 .. Len(execs)
  BY <1>0, <1>1
<1>3. \A f \in 1 .. Len(execs) :
        /\ execs'[f].auth = execs[f].auth /\ execs'[f].key = execs[f].key
        /\ execs'[f].version = execs[f].version /\ execs'[f].parent = execs[f].parent
        /\ execs'[f].number = execs[f].number /\ execs'[f].command = execs[f].command
        /\ execs[f].status \in Ended => execs'[f].status = execs[f].status
  <2> SUFFICES ASSUME NEW f \in 1 .. Len(execs)
               PROVE  /\ execs'[f].auth = execs[f].auth /\ execs'[f].key = execs[f].key
                      /\ execs'[f].version = execs[f].version
                      /\ execs'[f].parent = execs[f].parent
                      /\ execs'[f].number = execs[f].number
                      /\ execs'[f].command = execs[f].command
                      /\ execs[f].status \in Ended => execs'[f].status = execs[f].status
    OBVIOUS
  <2>1. CASE f # e
    <3>1. execs'[f] = execs[f]
      BY <1>0, <1>e, <2>1
    <3> QED
      BY <3>1
  <2>2. CASE f = e
    <3>1. execs'[e] = [execs[e] EXCEPT !.status = s]
      BY <1>0, <1>e
    <3> QED
      BY <1>e, <2>2, <3>1 DEF Exec, Active, Ended
  <2> QED
    BY <2>1, <2>2
<1>4. \A f \in 1 .. Len(execs) :
        (First(f)' <=> First(f)) /\ (Recovery(f)' <=> Recovery(f)) /\ (Queues(f)' <=> Queues(f))
  BY <1>3 DEF First, Recovery, Queues
<1>5. \A f \in 1 .. Len(execs) : ~ First(f) => execs[f].parent \in 1 .. Len(execs)
  BY <1>0 DEF ExecutionsAuthorized, First
<1>6. ExecutionsAuthorized'
  BY <1>2, <1>3, <1>4, <1>5 DEF ExecutionsAuthorized
<1>7. QueuedAsApproved'
  BY <1>0, <1>2, <1>3, <1>4 DEF QueuedAsApproved
<1>8. SuccessorsBounded'
  BY <1>0, <1>2, <1>3, <1>4, <1>5 DEF SuccessorsBounded, First, Ended
<1> QED
  BY <1>6, <1>7, <1>8

-----------------------------------------------------------------------------
(* Every step preserves the invariant. *)

\* What users ask for.
LEMMA RequestTyped ==
  ASSUME DecisionInv, NEW k \in UserKeys, NEW p \in DOMAIN plans, NEW c \in UserCommands
  PROVE  /\ Request(k, c[1], c[2], p, TRUE) \in Req
         /\ Request(k, "ci", 1, 1, FALSE) \in Req
<1>1. DOMAIN plans \subseteq Nat
  BY DEF DecisionInv, RunTyped
<1>2. c[1] \in Commands /\ c[2] \in Nat /\ p \in Nat /\ k \in Keys
  BY <1>1 DEF UserCommands, Commands, Keys
<1> QED
  BY <1>2 DEF Request, Req, Commands

\* What the transformer asks for.
LEMMA NodeRequestTyped ==
  ASSUME DecisionInv, cont # 0, NEW c \in Commands,
         NEW k \in {"ci", "update", "version", "transition", "supersession", "recovery"},
         NEW template \in Nat \cup {PlannedTemplate(cont, c)}
  PROVE  NodeRequest(c, template, k) \in Req
<1>1. cont \in Nat /\ cont \in DOMAIN plans /\ plans[cont] \in Nat
  BY DEF DecisionInv, RunTyped
<1>2. PlannedTemplate(cont, c) \in Nat
  BY <1>1 DEF PlannedTemplate
<1> QED
  BY <1>1, <1>2 DEF NodeRequest, Request, Req, Keys

LEMMA UserStep ==
  ASSUME PolicyInv, User
  PROVE  PolicyInv'
<1>0. DecisionInv /\ ExecInv /\ Len(log) \in Nat
  BY DEF PolicyInv, ExecInv, DecisionInv, RunTyped
<1>s. LogKept \/ log' # log
  BY <1>0 DEF LogKept
<1>1. ASSUME NEW r \in Req, ValidateBegin(r) PROVE PolicyInv'
  <2>1. r \in Req /\ r.key \in Keys
    BY DEF Req
  <2>2. DecisionInv'
    BY <1>0, <1>1, <2>1, SessionBegins DEF ValidateBegin, Data, Threads, Node
  <2>3. ExecInv'
    BY <1>0, <1>1, <1>s, ExecsStay DEF ValidateBegin, Data
  <2> QED
    BY <2>2, <2>3 DEF PolicyInv, ExecInv
<1>2. CASE ValidateEnd
  <2> DEFINE r == thr["validate"].req
             v == thr["validate"].version
  <2>1. r \in Req /\ v \in 1 .. Len(log) /\ "validate" \in Threads /\ r.key \in Keys
    BY <1>0, <1>2 DEF ValidateEnd, DecisionInv, SessionsTyped, Threads, Req
  <2>2. UNCHANGED <<log, plans, cont>> /\ Goes("validate", Idle)
    BY <1>2 DEF ValidateEnd
  <2>3. ASSUME UNCHANGED audits PROVE DecisionInv'
    BY <1>0, <2>1, <2>2, <2>3, SessionEnds
  <2>4. ASSUME NEW certified \in BOOLEAN, ~ Known(r.key),
               Recorded(r.key, Audit(r, v, Accepts(r, v, None, FALSE, certified)))
        PROVE  DecisionInv'
    <3> DEFINE acc == Accepts(r, v, None, FALSE, certified)
    <3>1. CASE acc
      <4>1. acc = TRUE
        BY <3>1 DEF Accepts
      <4>2. DecisionHolds(Audit(r, v, TRUE))
        BY <1>0, <2>1, <3>1, AcceptedHolds
      <4>3. DecisionHolds(Audit(r, v, acc))
        BY <4>1, <4>2
      <4> HIDE DEF r, v
      <4> QED
        BY <1>0, <2>1, <2>2, <2>4, <4>3, DecisionRecorded
    <3>2. CASE ~ acc
      <4>1. acc = FALSE
        BY <3>2 DEF Accepts
      <4>2. DecisionHolds(Audit(r, v, acc))
        BY <4>1, RefusedHolds
      <4> HIDE DEF r, v
      <4> QED
        BY <1>0, <2>1, <2>2, <2>4, <4>2, DecisionRecorded
    <3> QED
      BY <3>1, <3>2
  <2>5. DecisionInv'
    BY <1>2, <2>3, <2>4 DEF ValidateEnd
  <2>6. ExecInv'
    BY <1>0, <1>2, <1>s, ExecsStay DEF ValidateEnd
  <2> QED
    BY <2>5, <2>6 DEF PolicyInv, ExecInv
<1>3. ASSUME NEW k \in DOMAIN audits, NEW key \in UserKeys, QueueBegin(k, key)
      PROVE  PolicyInv'
  <2>1. k \in Keys /\ key \in Keys
    BY <1>0 DEF DecisionInv, DecisionsHold, Keys
  <2>2. DecisionInv'
    BY <1>0, <1>3, <2>1, SessionBegins DEF QueueBegin, Data, Threads, Node
  <2>3. ExecInv'
    BY <1>0, <1>3, <1>s, ExecsStay DEF QueueBegin, Data
  <2> QED
    BY <2>2, <2>3 DEF PolicyInv, ExecInv
<1>4. CASE QueueEnd
  <2>1. DecisionInv'
    BY <1>0, <1>4, SessionEnds DEF QueueEnd, Threads
  <2> DEFINE a == audits[thr["queue"].req]
             key == thr["queue"].key
             v == thr["queue"].version
  <2>2. CASE MayQueue(a, key, v) /\ Queued(a, key, v, 0)
    <3>1. DecisionHolds(a) /\ key \in Keys
      BY <1>0, <1>4 DEF QueueEnd, DecisionInv, DecisionsHold, SessionsTyped
    <3>2. a.accepted /\ a.version = v /\ a.req.key = key /\ key \notin KeysUsed
      BY <2>2 DEF MayQueue, Fresh, KeyOfAuthorization
    <3>3. a.req.plan \in log[v].approved
      BY <1>0, <1>4, <3>2 DEF QueueEnd, DecisionInv, QueueReadsApproved
    <3>4. /\ a \in AuditRow /\ a.req \in Req
          /\ v \in 1 .. Len(log) /\ log[v].live
      BY <3>1, <3>2 DEF DecisionHolds
    <3> HIDE DEF a, key, v
    <3>5. a.req.command \in Commands /\ a.req.template \in Nat
      BY <3>4 DEF Req
    <3> DEFINE x == Execution(a, key, v, 0, 1)
    <3>6. x \in Exec
      BY <3>1, <3>4, <3>5 DEF Execution, Exec, Active
    <3>7. /\ x.auth = a /\ x.key = key /\ x.version = v /\ x.parent = 0 /\ x.number = 1
          /\ x.command = a.req.command
      BY DEF Execution
    <3>8. Fits(x)
      BY <3>2, <3>3, <3>4, <3>7 DEF Fits
    <3>9. execs' = Append(execs, x) /\ log' = log
      BY <1>4, <2>2 DEF Queued, QueueEnd
    <3> HIDE DEF x
    <3>10. ExecInv'
      BY <1>0, <3>2, <3>4, <3>6, <3>7, <3>8, <3>9, ExecAdded
    <3> QED
      BY <2>1, <3>10 DEF PolicyInv, ExecInv
  <2>3. CASE UNCHANGED execs
    <3>1. ExecInv'
      BY <1>0, <1>4, <1>s, <2>3, ExecsStay DEF QueueEnd
    <3> QED
      BY <2>1, <3>1 DEF PolicyInv, ExecInv
  <2> QED
    BY <1>4, <2>2, <2>3 DEF QueueEnd
<1>5. 1 \in DOMAIN plans /\ <<"ci", 1>> \in UserCommands
  BY <1>0 DEF DecisionInv, RunTyped, UserCommands
<1>6. ASSUME NEW k \in UserKeys, NEW c \in UserCommands, NEW p \in DOMAIN plans
      PROVE  /\ Request(k, c[1], c[2], p, TRUE) \in Req
             /\ Request(k, "ci", 1, 1, FALSE) \in Req
  BY <1>0, RequestTyped
<1> QED
  BY <1>1, <1>2, <1>3, <1>4, <1>5, <1>6 DEF User

\* The node decides, or finds its decision, and queues in one transaction.
LEMMA AuthorizePreserves ==
  ASSUME PolicyInv, Busy(Node), NEW r \in Req, r.plan = cont, NEW repair, NEW parent,
         \/ parent = 0
         \/ /\ parent \in DOMAIN execs /\ RecoveryRequired(parent)
            /\ r.command = "version" /\ r.key = "recovery",
         AuthorizeAndQueue(r, repair, parent)
  PROVE  PolicyInv'
<1>0. DecisionInv /\ ExecInv /\ Len(log) \in Nat
  BY DEF PolicyInv, ExecInv, DecisionInv, RunTyped
<1>v. PICK v : v = NodeVersion
  OBVIOUS
<1>1. v \in 1 .. Len(log) /\ Node \in Threads
  BY <1>0, <1>v DEF DecisionInv, SessionsTyped, NodeVersion, Threads, Node
<1>a. PICK a : a = (IF Known(r.key) THEN audits[r.key] ELSE Audit(r, v, TRUE))
  OBVIOUS
<1>3. /\ MayQueue(a, r.key, v) /\ Queued(a, r.key, v, parent)
      /\ Goes(Node, Idle) /\ UNCHANGED <<log, plans, cont, bound, attempt>>
      /\ Known(r.key) => Replayed(r, a) /\ UNCHANGED audits
      /\ ~ Known(r.key) => /\ Recorded(r.key, a)
                           /\ \E certified \in BOOLEAN : Accepts(r, v, None, repair, certified)
  BY <1>v, <1>a DEF AuthorizeAndQueue
<1>4. a.req = r /\ a.version = v /\ a.accepted
  BY <1>3, <1>a, <1>v DEF Audit, Replayed
<1>2. DecisionHolds(a)
  <2>1. CASE Known(r.key)
    BY <1>0, <1>a, <2>1 DEF Known, DecisionInv, DecisionsHold
  <2>2. CASE ~ Known(r.key)
    <3>1. DecisionHolds(Audit(r, v, TRUE))
      BY <1>0, <1>1, <1>3, <2>2, AcceptedHolds
    <3> QED
      BY <1>a, <2>2, <3>1
  <2> QED
    BY <2>1, <2>2
<1>5. r.key \in Keys /\ r.command \in Commands /\ r.template \in Nat
  BY DEF Req
<1>6. a \in AuditRow /\ log[v].live
  BY <1>2, <1>4 DEF DecisionHolds
<1>7. DecisionInv'
  <2>1. CASE Known(r.key)
    BY <1>0, <1>1, <1>3, <2>1, SessionEnds
  <2>2. CASE ~ Known(r.key)
    BY <1>0, <1>1, <1>2, <1>3, <1>5, <2>2, DecisionRecorded
  <2> QED
    BY <2>1, <2>2
<1>8. r.plan \in log[v].approved
  BY <1>0, <1>v DEF DecisionInv, ApprovalsGrow, NodeVersion
<1>e. DOMAIN execs = 1 .. Len(execs) /\ Len(execs) \in Nat /\ execs \in Seq(Exec)
  BY <1>0 DEF ExecInv, ExecutionsAuthorized
<1>n. PICK number : number = (IF parent = 0 THEN 1 ELSE execs[parent].number + 1)
  OBVIOUS
<1>m. number \in Nat /\ parent \in Nat
  <2>1. CASE parent = 0
    BY <1>n, <2>1
  <2>2. CASE parent \in 1 .. Len(execs)
    <3>1. execs[parent] \in Exec
      BY <1>e, <2>2
    <3>2. execs[parent].number \in Nat
      BY <3>1 DEF Exec
    <3> QED
      BY <1>n, <2>2, <3>2
  <2> QED
    BY <1>e, <2>1, <2>2
<1> DEFINE x == Execution(a, r.key, v, parent, number)
<1>9. x \in Exec
  BY <1>1, <1>4, <1>5, <1>6, <1>m DEF Execution, Exec, Active
<1>10. /\ x.auth = a /\ x.key = r.key /\ x.version = v /\ x.parent = parent
       /\ x.command = a.req.command
  BY DEF Execution
<1>12. execs' = Append(execs, x) /\ log' = log /\ r.key \notin KeysUsed
  BY <1>3, <1>n DEF Queued, MayQueue
<1> HIDE DEF x
<1>11. Fits(x)
  BY <1>4, <1>6, <1>8, <1>10, <1>12 DEF Fits
<1>14. x.parent = 0 \/ Recovers(x)
  BY <1>4, <1>10, <1>e DEF Recovers
<1>13. ExecInv'
  BY <1>0, <1>1, <1>4, <1>9, <1>10, <1>11, <1>12, <1>14, ExecAdded
<1> QED
  BY <1>7, <1>13 DEF PolicyInv, ExecInv

LEMMA TransformerStep ==
  ASSUME PolicyInv, Transformer
  PROVE  PolicyInv'
<1>0. DecisionInv /\ ExecInv /\ Len(log) \in Nat /\ Len(log) > 0
  BY DEF PolicyInv, ExecInv, DecisionInv, RunTyped
<1>s. LogKept \/ log' # log
  BY <1>0 DEF LogKept
<1>t. Node \in Threads
  BY DEF Threads, Node
<1>e. /\ DOMAIN execs = 1 .. Len(execs) /\ Len(execs) \in Nat /\ execs \in Seq(Exec)
      /\ \A e \in DOMAIN execs : execs[e] \in Exec
  BY <1>0 DEF ExecInv, ExecutionsAuthorized
<1>1. CASE NodeBegin
  <2>1. DecisionInv'
    BY <1>0, <1>1, <1>t, SessionBegins DEF NodeBegin, Data, Node
  <2>2. ExecInv'
    BY <1>0, <1>1, <1>s, ExecsStay DEF NodeBegin, Data
  <2> QED
    BY <2>1, <2>2 DEF PolicyInv, ExecInv
<1>2. CASE NodeRaises
  <2>1. DecisionInv'
    BY <1>0, <1>2, <1>t, SessionEnds DEF NodeRaises, Data
  <2>2. ExecInv'
    BY <1>0, <1>2, <1>s, ExecsStay DEF NodeRaises, Data
  <2> QED
    BY <2>1, <2>2 DEF PolicyInv, ExecInv
<1>3. CASE Prepare
  <2> DEFINE x == [log[Version] EXCEPT !.live = TRUE]
  <2>1. log[Len(log)] \in Entry
    BY <1>0 DEF DecisionInv, RunTyped
  <2>2. x \in Entry /\ x.approved = log[Len(log)].approved
    BY <2>1 DEF Entry, Version
  <2>3. /\ log' = Append(log, x) /\ UNCHANGED <<plans, cont, audits, execs>>
        /\ thr' = [thr EXCEPT ![Node] = Idle]
    BY <1>3 DEF Prepare, Goes
  <2>4. plans' \in Seq(2 .. 3) /\ Len(plans') >= Len(plans)
    BY <1>0, <2>3 DEF DecisionInv, RunTyped
  <2> HIDE DEF x
  <2>5. DecisionInv'
    BY <1>0, <2>2, <2>3, <2>4, LogGrows
  <2>6. LogKept
    BY <1>0, <2>2, <2>3, AppendFacts DEF LogKept, DecisionInv, RunTyped
  <2> QED
    BY <1>0, <2>3, <2>5, <2>6, ExecsStay DEF PolicyInv, ExecInv
<1>4. CASE NodeTransition
  <2>1. cont # 0 /\ Busy(Node)
    BY <1>0, <1>4 DEF NodeTransition, DecisionInv, ApprovalsGrow
  <2> DEFINE r == NodeRequest("transition", 1, "transition")
  <2>2. r \in Req
    BY <1>0, <2>1, NodeRequestTyped DEF Commands
  <2>3. r.plan = cont /\ AuthorizeAndQueue(r, TRUE, 0)
    BY <1>4 DEF NodeTransition, NodeRequest, Request
  <2> HIDE DEF r
  <2> QED
    BY <2>1, <2>2, <2>3, AuthorizePreserves
<1>5. ASSUME NEW c \in {"ci", "update", "version"}, NodeQueue(c) PROVE PolicyInv'
  <2>1. cont # 0 /\ Busy(Node)
    BY <1>0, <1>5 DEF NodeQueue, DecisionInv, ApprovalsGrow
  <2> DEFINE r == NodeRequest(c, PlannedTemplate(cont, c), c)
  <2>2. r \in Req
    BY <1>0, <2>1, NodeRequestTyped DEF Commands
  <2>3. r.plan = cont /\ AuthorizeAndQueue(r, FALSE, 0)
    BY <1>5 DEF NodeQueue, NodeRequest, Request
  <2> HIDE DEF r
  <2> QED
    BY <2>1, <2>2, <2>3, AuthorizePreserves
<1>7. ASSUME NEW e \in DOMAIN execs, NodeRecover(e) PROVE PolicyInv'
  <2>1. cont # 0 /\ Busy(Node) /\ RecoveryRequired(e)
    BY <1>0, <1>7 DEF NodeRecover, DecisionInv, ApprovalsGrow
  <2> DEFINE r == NodeRequest("version", 1, "recovery")
  <2>2. r \in Req
    BY <1>0, <2>1, NodeRequestTyped DEF Commands
  <2>3. /\ r.plan = cont /\ r.command = "version" /\ r.key = "recovery"
        /\ AuthorizeAndQueue(r, FALSE, e)
    BY <1>7 DEF NodeRecover, NodeRequest, Request
  <2> HIDE DEF r
  <2> QED
    BY <2>1, <2>2, <2>3, AuthorizePreserves
<1>6. ASSUME NEW e \in DOMAIN execs, NodeRetry(e) PROVE PolicyInv'
  <2>1. cont # 0 /\ Busy(Node) /\ Newest(e) /\ Retryable(e)
    BY <1>0, <1>6 DEF NodeRetry, DecisionInv, ApprovalsGrow
  <2>v. PICK v : v = NodeVersion
    OBVIOUS
  <2>2. v \in 1 .. Len(log)
    BY <1>0, <1>t, <2>1, <2>v DEF DecisionInv, SessionsTyped, NodeVersion
  <2> DEFINE supersede == execs[e].command = "update" /\ execs[e].template = 2
             r == NodeRequest("update", 3, "supersession")
             a == IF supersede THEN Audit(r, v, TRUE) ELSE execs[e].auth
             key == <<"retry", Len(execs) + 1>>
             x == Execution(a, key, execs[e].version, e, execs[e].number + 1)
  <2>3. r \in Req
    BY <1>0, <2>1, NodeRequestTyped DEF Commands
  <2>4. r.command = "update" /\ r.key \in Keys
    BY <2>3 DEF NodeRequest, Request, Req
  <2>5. /\ execs' = Append(execs, x) /\ log' = log /\ Goes(Node, Idle)
        /\ UNCHANGED <<plans, cont>>
        /\ IF supersede THEN ~ Known(r.key) /\ Recorded(r.key, a) ELSE UNCHANGED audits
        /\ supersede => Accepts(r, v, execs[e].auth.req.key, FALSE, TRUE)
    BY <1>6, <2>v DEF NodeRetry, Succeeds
  <2>6. supersede => DecisionHolds(Audit(r, v, TRUE))
    BY <1>0, <2>2, <2>3, <2>5, AcceptedHolds
  <2>7. DecisionInv'
    <3>1. CASE supersede
      <4>1. a = Audit(r, v, TRUE)
        BY <3>1
      <4> HIDE DEF a, supersede, x, key, r
      <4> QED
        BY <1>0, <1>t, <2>4, <2>5, <2>6, <3>1, <4>1, DecisionRecorded
    <3>2. CASE ~ supersede
      <4> HIDE DEF a, supersede, x, key, r
      <4> QED
        BY <1>0, <1>t, <2>5, <3>2, SessionEnds
    <3> QED
      BY <3>1, <3>2
  <2>8. /\ a \in AuditRow /\ a.accepted /\ a.req \in Req /\ a.version \in 1 .. Len(log)
        /\ a.req.command = execs[e].command
    <3>1. CASE supersede
      <4>1. a = Audit(r, v, TRUE) /\ DecisionHolds(a)
        BY <2>6, <3>1
      <4>2. a.req = r /\ a.accepted /\ a.version = v
        BY <4>1 DEF Audit
      <4> HIDE DEF a, r
      <4> QED
        BY <2>2, <2>3, <2>4, <3>1, <4>1, <4>2 DEF DecisionHolds
    <3>2. CASE ~ supersede
      <4>1. a = execs[e].auth
        BY <3>2
      <4>2. execs[e].auth \in AuditRow
        BY <1>e DEF Exec
      <4> HIDE DEF a
      <4> QED
        BY <1>0, <1>e, <4>1, <4>2 DEF ExecInv, ExecutionsAuthorized
    <3> QED
      BY <3>1, <3>2
  <2> HIDE DEF a, r, supersede
  <2>9. x \in Exec
    <3>1. a.req.command \in Commands /\ a.req.template \in Nat
      BY <2>8 DEF Req
    <3>2. key \in Keys
      BY <1>e DEF Keys
    <3>3. execs[e].version \in Nat /\ execs[e].number + 1 \in Nat /\ e \in Nat
      BY <1>e DEF Exec
    <3> HIDE DEF key
    <3> QED
      BY <2>8, <3>1, <3>2, <3>3 DEF Execution, Exec, Active
  <2>10. /\ x.auth = a /\ x.parent = e /\ x.number = execs[e].number + 1
         /\ x.command = a.req.command
    BY DEF Execution
  <2>11. x.number <= Budget
    <3>1. execs[e].number \in Nat /\ execs[e].number < Budget
      BY <1>e, <2>1 DEF Exec, Retryable
    <3> QED
      BY <2>10, <3>1, PolicyAssumption
  <2>12. execs[e].status = "failed" /\ execs[e].command # "version"
    BY <1>6, <2>1 DEF Retryable, NodeRetry, RetryDue
  <2> HIDE DEF x
  <2>14. Retries(x)
    BY <1>e, <2>1, <2>8, <2>10, <2>11, <2>12 DEF Retries
  <2>13. ExecInv'
    BY <1>0, <2>5, <2>8, <2>9, <2>10, <2>14, ExecAdded
  <2> QED
    BY <2>7, <2>13 DEF PolicyInv, ExecInv
<1> QED
  BY <1>1, <1>2, <1>3, <1>4, <1>5, <1>6, <1>7 DEF Transformer

LEMMA PolicyStep == PolicyInv /\ [Next]_vars => PolicyInv'
<1> SUFFICES ASSUME PolicyInv, [Next]_vars PROVE PolicyInv'
  OBVIOUS
<1>0. DecisionInv /\ ExecInv /\ Len(log) \in Nat /\ Len(log) > 0 /\ log[Len(log)] \in Entry
  BY DEF PolicyInv, ExecInv, DecisionInv, RunTyped
<1>p. plans \in Seq(2 .. 3) /\ Len(plans) \in Nat /\ Len(plans) > 0
  BY <1>0 DEF DecisionInv, RunTyped
<1>k. ASSUME NEW x \in Entry, log' = Append(log, x) PROVE LogKept
  <2>1. log \in Seq(Entry)
    BY <1>0 DEF DecisionInv, RunTyped
  <2> QED
    BY <1>0, <1>k, <2>1, AppendFacts DEF LogKept
<1>s. log' = log => LogKept
  BY <1>0 DEF LogKept
<1>t. Node \in Threads
  BY DEF Threads, Node
<1>1. ASSUME NEW e \in DOMAIN execs, NEW s \in Ended, CommandEnds(e, s) PROVE PolicyInv'
  <2>1. DecisionInv'
    BY <1>0, <1>1, <1>t, SessionEnds DEF CommandEnds
  <2>2. ExecInv'
    BY <1>0, <1>1, ExecEnds DEF CommandEnds
  <2> QED
    BY <2>1, <2>2 DEF PolicyInv, ExecInv
<1>2. ASSUME UNCHANGED <<log, plans, cont, audits, execs, thr>> PROVE PolicyInv'
  <2>1. DecisionInv'
    BY <1>0, <1>2, <1>t, SessionEnds
  <2>2. ExecInv'
    BY <1>0, <1>2, <1>s, ExecsStay
  <2> QED
    BY <2>1, <2>2 DEF PolicyInv, ExecInv
<1>3. CASE RevisePlan
  <2>1. /\ log' = Append(log, log[Len(log)]) /\ plans' = Append(plans, 3)
        /\ UNCHANGED <<cont, audits, execs, thr>>
    BY <1>3 DEF RevisePlan, Moves, Version
  <2>2. plans' \in Seq(2 .. 3) /\ Len(plans') >= Len(plans)
    BY <1>p, <2>1, AppendFacts
  <2>3. DecisionInv'
    BY <1>0, <2>1, <2>2, LogGrows
  <2>4. ExecInv'
    BY <1>0, <1>k, <2>1, ExecsStay
  <2> QED
    BY <2>3, <2>4 DEF PolicyInv, ExecInv
<1>4. CASE ApprovePlan
  <2> DEFINE x == [live |-> TRUE, approved |-> log[Len(log)].approved \cup {Len(plans)}]
  <2>1. /\ log' = Append(log, x) /\ cont = 0 /\ cont' = Len(plans)
        /\ UNCHANGED <<plans, audits, execs, thr>>
    BY <1>4 DEF ApprovePlan, Moves, Version
  <2>2. x \in Entry /\ x.approved = log[Len(log)].approved \cup {Len(plans)}
    BY <1>0, <1>p DEF Entry
  <2> HIDE DEF x
  <2>3. cont' \in x.approved \cap (1 .. Len(plans')) /\ Len(plans') >= Len(plans)
    BY <1>p, <2>1, <2>2
  <2>4. DecisionInv'
    BY <1>0, <1>p, <2>1, <2>2, <2>3, LogGrows
  <2>5. ExecInv'
    BY <1>0, <1>k, <2>1, <2>2, ExecsStay
  <2> QED
    BY <2>4, <2>5 DEF PolicyInv, ExecInv
<1>5. CASE RunEnds
  <2> DEFINE x == [log[Len(log)] EXCEPT !.live = FALSE]
  <2>1. log' = Append(log, x) /\ UNCHANGED <<cont, plans, audits, execs, thr>>
    BY <1>5 DEF RunEnds, Moves, Version
  <2>2. x \in Entry /\ x.approved = log[Len(log)].approved
    BY <1>0 DEF Entry
  <2> HIDE DEF x
  <2>3. DecisionInv'
    BY <1>0, <1>p, <2>1, <2>2, LogGrows
  <2>4. ExecInv'
    BY <1>0, <1>k, <2>1, <2>2, ExecsStay
  <2> QED
    BY <2>3, <2>4 DEF PolicyInv, ExecInv
<1>6. CASE UNCHANGED vars
  BY <1>2, <1>6 DEF vars
<1>7. CASE Repair \/ TransitionEnds
  BY <1>2, <1>7 DEF Repair, TransitionEnds
<1> QED
  BY <1>1, <1>3, <1>4, <1>5, <1>6, <1>7, UserStep, TransformerStep DEF Next

LEMMA PolicyInit == Init => PolicyInv
<1> SUFFICES ASSUME Init PROVE PolicyInv
  OBVIOUS
<1> DEFINE x == [live |-> TRUE, approved |-> {}]
<1>1. x \in Entry /\ x.approved = {}
  BY DEF Entry
<1>2. log = << x >> /\ execs = << >> /\ cont = 0 /\ DOMAIN audits = {}
  BY DEF Init
<1> HIDE DEF x
<1>3. /\ log \in Seq(Entry) /\ Len(log) = 1 /\ log[1] = x
      /\ execs \in Seq(Exec) /\ Len(execs) = 0 /\ DOMAIN execs = {}
  BY <1>1, <1>2
<1>4. plans \in Seq(2 .. 3) /\ Len(plans) = 1
  <2>1. PICK t \in FirstTemplates : plans = << t >>
    BY DEF Init
  <2>2. t \in 2 .. 3
    BY PolicyAssumption
  <2> QED
    BY <2>1, <2>2
<1>5. thr \in [Threads -> Session] /\ \A t \in Threads : ~ Busy(t)
  BY DEF Init, Session, Idle, Busy
<1>6. RunTyped
  BY <1>2, <1>3, <1>4 DEF RunTyped
<1>7. SessionsTyped /\ QueueReadsApproved
  BY <1>5 DEF SessionsTyped, QueueReadsApproved, Threads
<1>8. DecisionsHold
  BY <1>2 DEF DecisionsHold
<1>9. ApprovalsGrow
  BY <1>2, <1>3, <1>5 DEF ApprovalsGrow, Threads, Node
<1>10. ExecutionsAuthorized /\ QueuedAsApproved /\ SuccessorsBounded
  BY <1>3 DEF ExecutionsAuthorized, QueuedAsApproved, SuccessorsBounded
<1> QED
  BY <1>6, <1>7, <1>8, <1>9, <1>10 DEF PolicyInv, DecisionInv

-----------------------------------------------------------------------------
(* What the invariant shows. *)

\* The invariant holds of every state the policy engine, the executor, the transformer
\* and the plan's approval reach together.
THEOREM PolicyCorrect == Spec => []PolicyInv
  BY PolicyInit, PolicyStep, PTL DEF Spec

\* validate, queue_authorized_command and the plan's approval read the run at different
\* moments, and still an execution that is no retry is queued in the version its
\* decision was made for, with the run executable and the plan approved in it.
THEOREM QueuedAsApprovedAlways == Spec => []QueuedAsApproved
<1>1. PolicyInv => QueuedAsApproved
  BY DEF PolicyInv
<1> QED
  BY <1>1, PolicyCorrect, PTL

\* No accepted authorization is executed twice: its key is spent by the execution.
THEOREM DecisionsExecutedOnce == Spec => []OneExecutionPerDecision
<1>1. PolicyInv => OneExecutionPerDecision
  <2> SUFFICES ASSUME PolicyInv, NEW e \in DOMAIN execs, NEW f \in DOMAIN execs,
                      Queues(e), Queues(f), execs[e].auth = execs[f].auth
               PROVE  e = f
    BY DEF OneExecutionPerDecision, Queues
  <2>1. e \in 1 .. Len(execs) /\ f \in 1 .. Len(execs)
    BY DEF PolicyInv, ExecutionsAuthorized
  <2>2. execs[e].key = execs[f].key
    BY <2>1 DEF PolicyInv, ExecutionsAuthorized
  <2> QED
    BY <2>1, <2>2 DEF PolicyInv, ExecutionsAuthorized
<1> QED
  BY <1>1, PolicyCorrect, PTL

\* queue_retry_execution, the supersession by version 3 and the recovery of a version check make
\* lines of executions without branches: a retry follows a failure within the budget, a recovery
\* a corrupted check that was no recovery itself.
THEOREM SuccessorsStayBounded == Spec => []SuccessorsBounded
<1>1. PolicyInv => SuccessorsBounded
  BY DEF PolicyInv
<1> QED
  BY <1>1, PolicyCorrect, PTL
==============================================================================
