-------------------------- MODULE RepairCallsProofs --------------------------
(***************************************************************************)
(* Proofs about RepairCalls, for any number of workers, operators,         *)
(* attempts, recoveries, faults and restarts, and whatever proposals the   *)
(* model answers with.                                                     *)
(***************************************************************************)
EXTENDS RepairCalls, FiniteSetTheorems, SequenceTheorems, WellFoundedInduction, TLAPS

-----------------------------------------------------------------------------
(* What the variables hold. *)

Answers == Errors \cup Failures \cup Decisions \cup AttemptStatuses \cup {"valid"}

Continuation == [status : {"queued", "running", "blocked"},
                 node : {"propose_repair", "review_repair", "create_g10"}, version : Nat,
                 owner : Workers \cup {NoWorker}, expired : BOOLEAN, error : Answers]

Snapshot == Nat \X Nat \X Attempt

WorkerState == [pc : {"idle", "load", "start", "mark", "call", "bind", "end"},
                att : Attempts \cup {0}, role : Roles, key : Keys \cup {NoKey}, iver : Nat,
                snap : Snapshot \cup {<< >>}, carried : Worded \cup {"none"}, count : 0 .. 1,
                posts : Nat, answer : Answers]

Operator == [pc : {"idle", "write", "done"}, att : Attempts \cup {0}, version : Nat]

Call == [count : Nat, lost : BOOLEAN]

StateTyped ==
  /\ cont \in Continuation /\ run \in Nat
  /\ att \in [Attempts -> Attempt] /\ inv \in [Keys -> Row]
  /\ wk \in [Workers -> WorkerState] /\ ops \in [Operators -> Operator]
  /\ calls \in [Keys -> Call]
  /\ budget \in [faults : Nat, restarts : Nat]

-----------------------------------------------------------------------------
(* The inductive invariant: rows and calls. *)

\* The worker has opened a row and not yet closed its pass.
Working(w) == wk[w].pc \in {"mark", "call", "bind"}

\* The row a worker has opened is of its own attempt and role, and nobody else opened or
\* marked it in the same version.
RowsOpened ==
  /\ \A w \in Workers : Working(w) =>
       /\ wk[w].key \in Keys /\ wk[w].key.att = wk[w].att /\ wk[w].key.role = wk[w].role
       /\ inv[wk[w].key].status # "absent" /\ wk[w].iver <= inv[wk[w].key].version
  /\ \A w, v \in Workers :
       w # v /\ Working(w) /\ Working(v) /\ wk[w].key = wk[v].key => wk[w].iver # wk[v].iver

Abandoned(k) == inv[k].status = "uncertain_abandoned"

\* A worker whose call is out holds the row, unless an operator has abandoned it.
CallersHold ==
  \A w \in Workers : wk[w].pc \in {"call", "bind"} =>
    Abandoned(wk[w].key) \/ (HoldsRow(w) /\ inv[wk[w].key].started)

\* The row of a lost call is transporting and nobody holds it, or is abandoned.
LostRemembered ==
  \A k \in Keys : calls[k].lost =>
    \/ Abandoned(k)
    \/ /\ Transporting(inv[k])
       /\ \A w \in Workers : Working(w) /\ wk[w].key = k => wk[w].iver # inv[k].version

\* A row whose semantic retry has been called is not open for another call.
RetriesCounted ==
  /\ \A k \in Keys : inv[k].status = "absent" =>
       inv[k].version = 0 /\ calls[k].count = 0 /\ ~ calls[k].lost
  /\ \A k \in Keys : k.retry = 1 /\ calls[k].count > 0 /\ inv[k].status = "in_progress"
                       => inv[k].started
  /\ RetryCalledOnce

CallInv == RowsOpened /\ CallersHold /\ LostRemembered /\ RetriesCounted

Calling(w) == wk[w].pc \in {"call", "bind"}

\* Two workers never have calls of one key out, whether or not an operator has abandoned it,
\* and a call that is out is not lost.
CallersAlone ==
  \A w \in Workers : Calling(w) =>
    /\ ~ calls[wk[w].key].lost
    /\ \A v \in Workers : Answering(v, wk[w].key) => v = w

-----------------------------------------------------------------------------
(* The inductive invariant: attempts. *)

AnsweredStatuses == {"proposed", "review_accepted", "request_changes", "reject"}

HasAnswer(n) == att[n].status \in AnsweredStatuses

\* An attempt names rows of its own.
RowsBound ==
  \A n \in Attempts :
    /\ att[n].proposer # NoKey => att[n].proposer.att = n /\ att[n].proposer.role = "proposer"
    /\ att[n].reviewer # NoKey => att[n].reviewer.att = n /\ att[n].reviewer.role = "reviewer"

\* The proposal of an attempt is answered exactly when its row is completed.
AnswersBound ==
  /\ AnswersAreCompleted
  /\ \A n \in Attempts : att[n].proposer # NoKey /\ inv[att[n].proposer].status = "completed"
                           => HasAnswer(n)

\* The semantic retry of the attempt, or the recovered call in its place, has failed.
Spent(n) ==
  \/ /\ att[n].proposer = NoKey
     /\ inv[SemanticRetry(n)].status = "failed" /\ inv[Base(n, "proposer")].status = "failed"
  \/ /\ att[n].proposer.gen > 0 /\ att[n].proposer.retry = 1
     /\ inv[att[n].proposer].status = "failed"

\* The attempts up to m exist and all but m are superseded, spent.
Newest(m) ==
  /\ m \in Attempts /\ att[m].status \notin {"absent", "superseded"}
  /\ \A n \in Attempts : n < m => att[n].status = "superseded"
  /\ \A n \in Attempts : n > m => att[n].status = "absent"

ChainOfAttempts ==
  /\ \E m \in Attempts : Newest(m)
  /\ \A n \in Attempts : att[n].status = "superseded" => Spent(n)

\* A request that has read an exhausted attempt finds it as it was, or its child there.
RequestReads(n) ==
  /\ n \in Attempts /\ n + 1 \in Attempts /\ Exists(n)
  /\ Exists(n + 1) \/ (att[n].status = "evidence_frozen" /\ Spent(n))

RequestsRead == \A o \in Operators : ops[o].pc = "write" => RequestReads(ops[o].att)

\* What a worker has read of its attempt when it opened, or is about to open, a row.
Read(w) == wk[w].snap[3]

Opening(w) == wk[w].pc = "start" \/ Working(w)

\* A superseded attempt stays so, and while an attempt has no answer the generation of its
\* proposal's call only grows.
SnapshotsAge(w) ==
  LET n == wk[w].att IN
    /\ wk[w].snap \in Snapshot
    /\ Read(w).status = "superseded" => att[n].status = "superseded"
    /\ att[n].status = "evidence_frozen" /\ Read(w).status = "evidence_frozen"
         => Read(w).proposer.gen <= att[n].proposer.gen

\* Of the attempt as it still is, a worker opens a recovered call only if it is the one the
\* attempt names, and always that one in the place of a semantic retry.
OpensCurrent(w) ==
  LET bound == att[wk[w].att].proposer IN
    /\ Read(w).status # "superseded"
    /\ Read(w) = att[wk[w].att] /\ Read(w).status = "evidence_frozen"
         => /\ wk[w].key.gen > 0 => wk[w].key = bound
            /\ bound.gen > 0 /\ bound.retry = 1 => wk[w].key = bound

WorkerReads(w) ==
  wk[w].pc # "idle" =>
    /\ wk[w].att \in Attempts /\ Exists(wk[w].att)
    /\ wk[w].role = "reviewer" => HasAnswer(wk[w].att)
    /\ Opening(w) => SnapshotsAge(w)
    /\ Working(w) => OpensCurrent(w)
    /\ wk[w].pc = "bind" =>
         wk[w].answer \in IF wk[w].role = "proposer" THEN ProposalAnswers ELSE ReviewAnswers
    /\ wk[w].pc = "end" /\ wk[w].answer = "valid" => HasAnswer(wk[w].att)

WorkersRead == \A w \in Workers : WorkerReads(w)

\* The review node is reached with a proposal to review.
ReviewHasProposal ==
  cont.node = "review_repair" => \A m \in Attempts : Newest(m) => HasAnswer(m)

AttemptInv ==
  /\ RowsBound /\ AnswersBound /\ ChainOfAttempts /\ RequestsRead /\ WorkersRead
  /\ ReviewHasProposal

RepairInv == StateTyped /\ CallInv /\ CallersAlone /\ AttemptInv

-----------------------------------------------------------------------------
(* The key a pass leads to. *)

LEMMA KeyParts ==
  \A k \in Keys : /\ k.att \in Attempts /\ k.role \in Roles /\ k.retry \in 0 .. 1
                  /\ k.gen \in 0 .. MaxGenerations
                  /\ k.role = "reviewer" => k.retry = 0
  BY DEF Keys

LEMMA KeysEqual ==
  \A k, q \in Keys : k.att = q.att /\ k.role = q.role /\ k.retry = q.retry /\ k.gen = q.gen
                        => k = q
  BY DEF Keys

LEMMA OwnKeys ==
  ASSUME NEW n \in Attempts
  PROVE  /\ Base(n, "proposer") \in Keys /\ Base(n, "reviewer") \in Keys
         /\ SemanticRetry(n) \in Keys
         /\ \A k \in Keys : k.att = n /\ k.role = "proposer" /\ k.gen = 0
                              => k \in {Base(n, "proposer"), SemanticRetry(n)}
  BY ConstantsAssumption, KeysEqual DEF Keys, Roles, Base, SemanticRetry

LEMMA OwnKeyParts ==
  ASSUME NEW n, NEW role
  PROVE  /\ Base(n, role).att = n /\ Base(n, role).role = role
         /\ Base(n, role).retry = 0 /\ Base(n, role).gen = 0
         /\ SemanticRetry(n).att = n /\ SemanticRetry(n).role = "proposer"
         /\ SemanticRetry(n).retry = 1 /\ SemanticRetry(n).gen = 0
  BY DEF Base, SemanticRetry

\* What a pass decides from the attempt: an own key and a request; the key of a semantic
\* retry, or of a recovered one, counts as a retry.
LEMMA PassFacts ==
  ASSUME att \in [Attempts -> Attempt], RowsBound, NEW n \in Attempts, NEW role \in Roles,
         NEW carried \in Worded \cup {"none"}, NEW p,
         p = IF role = "proposer" THEN ProposePass(n, carried) ELSE ReviewPass(n)
  PROVE  /\ p.key \in Keys /\ p.key.att = n /\ p.key.role = role
         /\ p.count \in 0 .. 1 /\ p.request \in Requests
         /\ p.key.retry = 1 => p.count = 1
         /\ role = "proposer" /\ p.count = 1 /\ p.key.gen = 0 => p.key = SemanticRetry(n)
         /\ role = "proposer" =>
              /\ p.key.gen > 0 => p.key = att[n].proposer
              /\ att[n].proposer.gen > 0 => p.key = att[n].proposer
              /\ att[n].proposer.retry = 1 => p.count = 1
              /\ att[n].proposer = NoKey /\ p.count = 0 => p.key = Base(n, "proposer")
<1>1. att[n] \in Attempt
  OBVIOUS
<1>2. /\ att[n].proposer \in Keys \cup {NoKey} /\ att[n].reviewer \in Keys \cup {NoKey}
      /\ att[n].proposer # NoKey => att[n].proposer.att = n /\ att[n].proposer.role = "proposer"
      /\ att[n].reviewer # NoKey => att[n].reviewer.att = n /\ att[n].reviewer.role = "reviewer"
  BY <1>1 DEF Attempt, RowsBound
<1>3. CASE role = "reviewer"
  <2>1. p = ReviewPass(n)
    BY <1>3
  <2>2. /\ p.key = IF att[n].reviewer = NoKey THEN Base(n, "reviewer") ELSE att[n].reviewer
        /\ p.count = 0 /\ p.request = "plain"
    BY <2>1 DEF ReviewPass
  <2>3. p.key \in Keys /\ p.key.att = n /\ p.key.role = role
    <3>1. CASE att[n].reviewer = NoKey
      BY <1>3, <2>2, <3>1, OwnKeys, OwnKeyParts
    <3>2. CASE att[n].reviewer # NoKey
      BY <1>2, <1>3, <2>2, <3>2
    <3> QED
      BY <3>1, <3>2
  <2>4. p.key.retry = 0
    <3>1. \A k \in Keys : k.role = "reviewer" => k.retry = 0
      BY KeyParts
    <3> QED
      BY <1>3, <2>3, <3>1
  <2> QED
    BY <1>3, <2>2, <2>3, <2>4 DEF Requests
<1>4. CASE role = "proposer"
  <2> DEFINE bound == att[n].proposer
             loaded == RetryContextLoaded(n)
             count == IF carried # "none" \/ loaded \/ bound.retry = 1 THEN 1 ELSE 0
  <2>1. p = ProposePass(n, carried)
    BY <1>4
  <2>2. /\ p.key = CASE bound.gen > 0 -> bound
                     [] bound.gen = 0 /\ count = 1 -> SemanticRetry(n)
                     [] OTHER -> IF bound = NoKey THEN Base(n, "proposer") ELSE bound
        /\ p.count = count
        /\ p.request = CASE carried # "none" -> carried
                         [] carried = "none" /\ loaded -> "context"
                         [] OTHER -> IF count = 1 THEN "default" ELSE "plain"
    BY <2>1 DEF ProposePass
  <2>3. p.request \in Requests
    BY <2>2 DEF Requests, Worded
  <2>4. /\ bound.gen \in Nat /\ bound.retry \in 0 .. 1
        /\ bound.gen > 0 => bound \in Keys
    <3>1. CASE bound = NoKey
      BY <3>1 DEF NoKey
    <3>2. CASE bound # NoKey
      BY <1>2, <3>2, ConstantsAssumption, KeyParts
    <3> QED
      BY <3>1, <3>2
  <2>5. p.count \in 0 .. 1 /\ (bound.retry = 1 => p.count = 1)
    BY <2>2
  <2>6. CASE bound.gen > 0
    <3>1. p.key = bound
      BY <2>2, <2>6
    <3>2. bound # NoKey
      BY <2>6 DEF NoKey
    <3> QED
      BY <1>2, <1>4, <2>3, <2>4, <2>5, <2>6, <3>1, <3>2 DEF NoKey
  <2>7. CASE bound.gen = 0 /\ count = 1
    <3>1. p.key = SemanticRetry(n)
      BY <2>2, <2>7
    <3> QED
      BY <1>2, <1>4, <2>2, <2>3, <2>4, <2>5, <2>7, <3>1, OwnKeys, OwnKeyParts
  <2>8. CASE bound.gen = 0 /\ count = 0
    <3>1. p.key = IF bound = NoKey THEN Base(n, "proposer") ELSE bound
      BY <2>2, <2>8
    <3>2. p.key.retry = 0 /\ p.key.gen = 0
      BY <2>4, <2>8, <3>1, OwnKeyParts
    <3>3. p.key \in Keys /\ p.key.att = n /\ p.key.role = role
      <4>1. CASE bound = NoKey
        BY <1>4, <3>1, <4>1, OwnKeys, OwnKeyParts
      <4>2. CASE bound # NoKey
        BY <1>2, <1>4, <3>1, <4>2
      <4> QED
        BY <4>1, <4>2
    <3>4. p.count = 0
      BY <2>2, <2>8
    <3>5. att[n].proposer = NoKey => p.key = Base(n, "proposer")
      BY <3>1
    <3> HIDE DEF count
    <3> QED
      BY <1>4, <2>3, <2>5, <2>8, <3>2, <3>3, <3>4, <3>5
  <2> QED
    BY <2>4, <2>6, <2>7, <2>8
<1> QED
  BY <1>3, <1>4 DEF Roles

LEMMA EffectiveFacts ==
  ASSUME att \in [Attempts -> Attempt], RowsBound, NEW n \in Attempts, NEW role \in Roles,
         NEW carried \in Worded \cup {"none"}, NEW p,
         p = IF role = "proposer" THEN ProposePass(n, carried) ELSE ReviewPass(n),
         NEW q, q = EffectivePass(n, role, p)
  PROVE  /\ q.key \in Keys /\ q.key.att = n /\ q.key.role = role
         /\ q.count \in 0 .. 1 /\ q.request \in Requests
         /\ q.key.retry = 1 => q.count = 1
         /\ \/ q = p /\ (role = "proposer" /\ p.count = 0
                           => inv[SemanticRetry(n)].status = "absent")
            \/ /\ role = "proposer" /\ p.count = 0 /\ q.count = 1
               /\ q.key = SemanticRetry(n) /\ q # p
<1>1. /\ p.key \in Keys /\ p.key.att = n /\ p.key.role = role
      /\ p.count \in 0 .. 1 /\ p.request \in Requests
      /\ p.key.retry = 1 => p.count = 1
  BY PassFacts
<1> DEFINE switch == role = "proposer" /\ p.count = 0 /\ inv[SemanticRetry(n)].status # "absent"
           other == [key |-> SemanticRetry(n), count |-> 1,
                     request |-> FeedbackFromCode(inv[Base(n, "proposer")].failure)]
<1>2. q = IF switch THEN other ELSE p
  BY DEF EffectivePass
<1>3. CASE switch
  <2>1. q.key = SemanticRetry(n) /\ q.count = 1 /\ q.request = other.request
    BY <1>2, <1>3
  <2>2. other.request \in Requests
    BY DEF FeedbackFromCode, Requests, Worded
  <2> HIDE DEF other
  <2> QED
    BY <1>3, <2>1, <2>2, OwnKeys, OwnKeyParts
<1>4. CASE ~ switch
  BY <1>1, <1>2, <1>4
<1> QED
  BY <1>3, <1>4

Verdicts == {"go", "replay", "STALE", "RECOVERY_FAILED", "UNCERTAIN", "EXHAUSTED", "MISMATCH",
             "INVALID"}

LEMMA ReplayVerdicts ==
  ASSUME NEW n, NEW role, NEW p
  PROVE  /\ ReplayVerdict(n, role, p) \in {"replay", "STALE", "RECOVERY_FAILED"}
         /\ ReplayVerdict(n, role, p) = "replay" /\ role = "proposer" => att[n].proposer = p.key
  BY DEF ReplayVerdict, Replayable

LEMMA RecoverVerdicts ==
  ASSUME NEW n, NEW role, NEW p
  PROVE  /\ RecoverCompleted(n, role, p) \in Verdicts
         /\ RecoverCompleted(n, role, p) = "replay" /\ role = "proposer" =>
              att[n].proposer = p.key /\ inv[p.key].status = "completed"
         /\ RecoverCompleted(n, role, p) = "go" => inv[p.key].status # "completed"
<1>1. CASE inv[p.key].status = "completed"
  <2>1. RecoverCompleted(n, role, p) = ReplayVerdict(n, role, p)
    BY <1>1 DEF RecoverCompleted, Transporting
  <2> QED
    BY <1>1, <2>1, ReplayVerdicts DEF Verdicts
<1>2. CASE inv[p.key].status # "completed"
  BY <1>2 DEF RecoverCompleted, Transporting, Verdicts
<1> QED
  BY <1>1, <1>2

LEMMA StartVerdicts ==
  ASSUME NEW n, NEW role, NEW p, NEW q, q = EffectivePass(n, role, p), NEW row, row = inv[q.key]
  PROVE  /\ StartVerdict(n, role, p) \in Verdicts
         /\ StartVerdict(n, role, p) = "replay" /\ role = "proposer" =>
              att[n].proposer = q.key /\ row.status = "completed"
         /\ StartVerdict(n, role, p) = "go" =>
              /\ ~ RetrySpent(row, q.count) /\ ~ Transporting(row)
              /\ row.status \notin {"completed", "uncertain_abandoned"}
<1>1. StartVerdict(n, role, p) =
        IF RetrySpent(row, q.count) THEN "EXHAUSTED"
        ELSE IF Transporting(row) THEN "UNCERTAIN"
        ELSE IF row.status = "absent" THEN "go"
        ELSE IF row.request # q.request THEN "MISMATCH"
        ELSE IF row.status = "completed" THEN ReplayVerdict(n, role, q)
        ELSE IF row.status = "uncertain_abandoned" THEN "INVALID"
        ELSE "go"
  BY DEF StartVerdict
<1>2. /\ ReplayVerdict(n, role, q) \in {"replay", "STALE", "RECOVERY_FAILED"}
      /\ ReplayVerdict(n, role, q) = "replay" /\ role = "proposer" => att[n].proposer = q.key
  BY ReplayVerdicts
<1> QED
  BY <1>1, <1>2 DEF Verdicts

\* The rows a pass may open: none, one whose call has not started, or a failed one that is
\* not a semantic retry; and the attempt still has a call to make.
LEMMA StartFacts ==
  ASSUME att \in [Attempts -> Attempt], inv \in [Keys -> Row], RowsBound,
         NEW n \in Attempts, NEW role \in Roles,
         NEW carried \in Worded \cup {"none"}, NEW p,
         p = IF role = "proposer" THEN ProposePass(n, carried) ELSE ReviewPass(n),
         NEW q, q = EffectivePass(n, role, p), StartVerdict(n, role, p) = "go"
  PROVE  /\ q.key \in Keys /\ q.key.att = n /\ q.key.role = role
         /\ q.count \in 0 .. 1 /\ q.request \in Requests
         /\ inv[q.key].status \in {"absent", "in_progress", "failed"}
         /\ inv[q.key].status = "in_progress" => ~ inv[q.key].started
         /\ inv[q.key].status = "failed" => q.key.retry = 0
         /\ role = "proposer" =>
              /\ q.key.gen > 0 => q.key = att[n].proposer
              /\ att[n].proposer.gen > 0 /\ att[n].proposer.retry = 1 => q.key = att[n].proposer
              /\ q.key = Base(n, "proposer") => inv[SemanticRetry(n)].status = "absent"
              /\ ~ Spent(n)
<1>1. /\ q.key \in Keys /\ q.key.att = n /\ q.key.role = role
      /\ q.count \in 0 .. 1 /\ q.request \in Requests
      /\ q.key.retry = 1 => q.count = 1
  BY EffectiveFacts
<1>2. \/ q = p /\ (role = "proposer" /\ p.count = 0 => inv[SemanticRetry(n)].status = "absent")
      \/ /\ role = "proposer" /\ p.count = 0 /\ q.count = 1
         /\ q.key = SemanticRetry(n) /\ q # p
  BY EffectiveFacts
<1>3. /\ ~ RetrySpent(inv[q.key], q.count) /\ ~ Transporting(inv[q.key])
      /\ inv[q.key].status \notin {"completed", "uncertain_abandoned"}
  BY StartVerdicts
<1>4. /\ p.key \in Keys /\ p.count \in 0 .. 1
      /\ role = "proposer" /\ p.count = 1 /\ p.key.gen = 0 => p.key = SemanticRetry(n)
      /\ role = "proposer" =>
           /\ p.key.gen > 0 => p.key = att[n].proposer
           /\ att[n].proposer.gen > 0 => p.key = att[n].proposer
           /\ att[n].proposer.retry = 1 => p.count = 1
           /\ att[n].proposer = NoKey /\ p.count = 0 => p.key = Base(n, "proposer")
  BY PassFacts
<1>5. inv[q.key] \in Row
  BY <1>1
<1>6. inv[q.key].status \in {"absent", "in_progress", "failed"}
  BY <1>3, <1>5 DEF Row, InvocationStatuses
<1>7. inv[q.key].status = "in_progress" => ~ inv[q.key].started
  BY <1>3 DEF Transporting
<1>8. inv[q.key].status = "failed" => q.key.retry = 0
  <2>1. q.key.retry \in 0 .. 1
    BY <1>1, KeyParts
  <2> QED
    BY <1>1, <1>3, <2>1 DEF RetrySpent
<1>9. ASSUME role = "proposer"
      PROVE  /\ q.key.gen > 0 => q.key = att[n].proposer
             /\ att[n].proposer.gen > 0 /\ att[n].proposer.retry = 1 => q.key = att[n].proposer
             /\ q.key = Base(n, "proposer") => inv[SemanticRetry(n)].status = "absent"
             /\ ~ Spent(n)
  <2>1. CASE q # p
    <3>1. p.count = 0 /\ q.count = 1 /\ q.key = SemanticRetry(n)
      BY <1>2, <2>1
    <3>2. inv[SemanticRetry(n)].status # "failed"
      BY <1>3, <3>1 DEF RetrySpent
    <3>3. att[n].proposer.retry # 1
      BY <1>4, <1>9, <3>1
    <3>4. ~ Spent(n)
      BY <3>2, <3>3 DEF Spent
    <3>5. q.key.gen = 0 /\ q.key # Base(n, "proposer")
      BY <3>1, OwnKeyParts
    <3> QED
      BY <3>3, <3>4, <3>5
  <2>2. CASE q = p
    <3>1. p.count = 0 => inv[SemanticRetry(n)].status = "absent"
      BY <1>2, <1>9, <2>2
    <3>2. p.count = 1 => inv[p.key].status # "failed"
      BY <1>3, <2>2 DEF RetrySpent
    <3>3. p.key = Base(n, "proposer") => p.count = 0
      BY <1>4, <1>9, OwnKeyParts
    <3>4. NoKey.gen = 0 /\ NoKey.retry = 0
      BY DEF NoKey
    <3>5. ASSUME Spent(n), att[n].proposer = NoKey
          PROVE  FALSE
      <4>1. inv[SemanticRetry(n)].status = "failed"
        BY <3>4, <3>5 DEF Spent
      <4>2. p.count = 1
        BY <1>4, <3>1, <4>1
      <4>3. p.key.gen \in Nat
        BY <1>4, KeyParts, ConstantsAssumption
      <4>4. p.key.gen = 0
        BY <1>4, <1>9, <3>4, <3>5, <4>3
      <4> QED
        BY <1>4, <1>9, <3>2, <4>1, <4>2, <4>4
    <3>6. ASSUME Spent(n), att[n].proposer # NoKey
          PROVE  FALSE
      <4>1. /\ att[n].proposer.gen > 0 /\ att[n].proposer.retry = 1
            /\ inv[att[n].proposer].status = "failed"
        BY <3>6 DEF Spent
      <4> QED
        BY <1>4, <1>9, <3>2, <4>1
    <3> QED
      BY <1>4, <1>9, <2>2, <3>1, <3>3, <3>5, <3>6
  <2> QED
    BY <2>1, <2>2
<1> QED
  BY <1>1, <1>6, <1>7, <1>8, <1>9

-----------------------------------------------------------------------------
(* Rows and calls: what the steps do to them. *)

\* The other workers do nothing.
OthersStay(w) == \A v \in Workers \ {w} : wk'[v] = wk[v]

\* A row gets the next version, for the worker at work on it if any.
LEMMA RowRewritten ==
  ASSUME StateTyped, RowsOpened, NEW w \in Workers, NEW k \in Keys, NEW row \in Row,
         row.status # "absent", row.version = inv[k].version + 1,
         inv' = [inv EXCEPT ![k] = row], OthersStay(w),
         Working(w)' => /\ wk'[w].key = k /\ wk'[w].iver = row.version
                        /\ wk'[w].att = k.att /\ wk'[w].role = k.role
  PROVE  RowsOpened'
<1>1. inv \in [Keys -> Row] /\ inv[k].version \in Nat /\ row.version \in Nat
  BY DEF StateTyped, Row
<1>2. inv'[k] = row /\ \A q \in Keys \ {k} : inv'[q] = inv[q]
  BY <1>1
<1>3. \A v \in Workers \ {w} : Working(v)' =>
        /\ Working(v) /\ wk'[v] = wk[v] /\ wk[v].key \in Keys /\ wk[v].iver \in Nat
        /\ wk[v].iver <= inv[wk[v].key].version /\ inv[wk[v].key].version \in Nat
        /\ inv[wk[v].key].status # "absent"
  BY DEF StateTyped, WorkerState, Row, RowsOpened, OthersStay, Working
<1>4. \A v \in Workers \ {w} : Working(v)' =>
        /\ inv'[wk[v].key].status # "absent" /\ wk[v].iver <= inv'[wk[v].key].version
        /\ wk[v].key = k => wk[v].iver # row.version
  BY <1>1, <1>2, <1>3
<1>5. ASSUME NEW v \in Workers, Working(v)'
      PROVE  /\ wk'[v].key \in Keys /\ wk'[v].key.att = wk'[v].att
             /\ wk'[v].key.role = wk'[v].role
             /\ inv'[wk'[v].key].status # "absent" /\ wk'[v].iver <= inv'[wk'[v].key].version
  <2>1. CASE v = w
    BY <1>1, <1>2, <1>5, <2>1
  <2>2. CASE v # w
    <3>1. v \in Workers \ {w}
      BY <2>2
    <3>2. /\ wk[v].key \in Keys /\ wk[v].key.att = wk[v].att /\ wk[v].key.role = wk[v].role
      BY <1>3, <1>5, <3>1 DEF RowsOpened
    <3> QED
      BY <1>3, <1>4, <1>5, <3>1, <3>2
  <2> QED
    BY <2>1, <2>2
<1>6. ASSUME NEW v \in Workers, NEW u \in Workers, u # v, Working(u)', Working(v)',
             wk'[u].key = wk'[v].key
      PROVE  wk'[u].iver # wk'[v].iver
  <2>1. CASE u # w /\ v # w
    BY <1>3, <1>6, <2>1 DEF RowsOpened
  <2>2. CASE u = w
    BY <1>3, <1>4, <1>6, <2>2
  <2>3. CASE v = w
    BY <1>3, <1>4, <1>6, <2>3
  <2> QED
    BY <2>1, <2>2, <2>3
<1> QED
  BY <1>5, <1>6 DEF RowsOpened

\* Steps that leave the rows and calls alone and open none.
LEMMA RowsUntouched ==
  ASSUME CallInv, inv' = inv, calls' = calls,
         \A v \in Workers : Working(v)' =>
           /\ Working(v) /\ wk'[v].key = wk[v].key /\ wk'[v].iver = wk[v].iver
           /\ wk'[v].att = wk[v].att /\ wk'[v].role = wk[v].role
           /\ wk'[v].pc \in {"call", "bind"} => wk[v].pc \in {"call", "bind"}
  PROVE  CallInv'
<1>1. RowsOpened'
  BY DEF CallInv, RowsOpened
<1>2. CallersHold'
  BY DEF CallInv, CallersHold, HoldsRow, Abandoned, Working
<1>3. LostRemembered'
  BY DEF CallInv, LostRemembered, Abandoned, Transporting
<1>4. RetriesCounted'
  BY DEF CallInv, RetriesCounted, RetryCalledOnce
<1> QED
  BY <1>1, <1>2, <1>3, <1>4 DEF CallInv

\* A worker that holds a row closes it.
LEMMA RowClosed ==
  ASSUME StateTyped, CallInv, NEW w \in Workers, Working(w), HoldsRow(w), NEW row \in Row,
         inv' = [inv EXCEPT ![wk[w].key] = row], calls' = calls, OthersStay(w), ~ Working(w)',
         row.version = inv[wk[w].key].version + 1, row.status \in {"failed", "completed"}
  PROVE  CallInv'
<1> DEFINE k == wk[w].key
<1>1. /\ k \in Keys /\ inv[k].status = "in_progress" /\ inv[k].version = wk[w].iver
      /\ inv \in [Keys -> Row] /\ inv[k].version \in Nat
  BY DEF CallInv, RowsOpened, HoldsRow, StateTyped, Row
<1>2. /\ inv'[k] = row /\ inv' \in [Keys -> Row]
      /\ \A q \in Keys \ {k} : inv'[q] = inv[q]
  BY <1>1
<1>3. /\ \A v \in Workers : Working(v)' => v # w /\ Working(v) /\ wk'[v] = wk[v]
      /\ \A v \in Workers : wk'[v].pc \in {"call", "bind"} => v # w /\ wk'[v] = wk[v]
  BY DEF OthersStay, Working
<1>4. RowsOpened'
  <2>1. \A v \in Workers : Working(v)' =>
          /\ wk[v].key \in Keys /\ wk[v].iver <= inv[wk[v].key].version
          /\ inv[wk[v].key].version \in Nat /\ wk[v].iver \in Nat
    BY <1>1, <1>3 DEF CallInv, RowsOpened, Row, StateTyped, WorkerState
  <2>2. \A v \in Workers : Working(v)' => inv'[wk[v].key].status # "absent"
                                          /\ wk[v].iver <= inv'[wk[v].key].version
    BY <1>1, <1>2, <1>3, <2>1 DEF CallInv, RowsOpened
  <2> QED
    BY <1>3, <2>2 DEF CallInv, RowsOpened
<1>5. CallersHold'
  <2> SUFFICES ASSUME NEW v \in Workers, wk'[v].pc \in {"call", "bind"}
               PROVE  Abandoned(wk[v].key)' \/ (HoldsRow(v) /\ inv[wk[v].key].started)'
    BY <1>3 DEF CallersHold
  <2>1. v # w /\ wk'[v] = wk[v] /\ Working(v) /\ wk[v].key \in Keys
    BY <1>3 DEF Working, CallInv, RowsOpened
  <2>2. Abandoned(wk[v].key) \/ (HoldsRow(v) /\ inv[wk[v].key].started)
    BY <2>1 DEF CallInv, CallersHold
  <2>3. wk[v].key # k
    BY <1>1, <2>1, <2>2 DEF CallInv, RowsOpened, HoldsRow, Abandoned
  <2> QED
    BY <1>2, <2>1, <2>2, <2>3 DEF HoldsRow, Abandoned
<1>6. LostRemembered'
  <2>1. ~ calls[k].lost
    BY <1>1 DEF CallInv, LostRemembered, Abandoned
  <2> SUFFICES ASSUME NEW q \in Keys, calls[q].lost
               PROVE  \/ Abandoned(q)'
                      \/ /\ Transporting(inv'[q])
                         /\ \A v \in Workers : Working(v)' /\ wk'[v].key = q
                              => wk'[v].iver # inv'[q].version
    BY DEF LostRemembered, Transporting
  <2>2. inv'[q] = inv[q]
    BY <1>2, <2>1
  <2> QED
    BY <1>3, <2>2 DEF CallInv, LostRemembered, Abandoned, Transporting
<1>7. RetriesCounted'
  BY <1>1, <1>2 DEF CallInv, RetriesCounted, RetryCalledOnce
<1> QED
  BY <1>4, <1>5, <1>6, <1>7 DEF CallInv

\* A call that fails closes its row if the worker holds it.
LEMMA RowFailed ==
  ASSUME StateTyped, CallInv, NEW w \in Workers, Working(w), NEW failure \in Failures,
         inv' = PersistFailure(w, failure), calls' = calls, OthersStay(w), ~ Working(w)'
  PROVE  CallInv'
<1>1. CASE HoldsRow(w)
  <2> DEFINE k == wk[w].key
             row == Closed(inv[k], "failed", failure)
  <2>1. k \in Keys /\ inv \in [Keys -> Row] /\ inv[k] \in Row /\ inv[k].version \in Nat
    BY DEF CallInv, RowsOpened, StateTyped, Row
  <2>2. inv' = [inv EXCEPT ![k] = row]
    BY <1>1 DEF PersistFailure
  <2>3. inv[k].version + 1 \in Nat
    BY <2>1
  <2>4. row \in Row /\ row.version = inv[k].version + 1 /\ row.status = "failed"
    BY <2>1, <2>3 DEF Closed, Row, InvocationStatuses
  <2> HIDE DEF row
  <2> QED
    BY <1>1, <2>2, <2>4, RowClosed
<1>2. CASE ~ HoldsRow(w)
  <2>1. inv' = inv
    BY <1>2 DEF PersistFailure
  <2> QED
    BY <2>1, RowsUntouched DEF OthersStay, Working
<1> QED
  BY <1>1, <1>2

\* A worker opens a row it may open.
LEMMA RowOpened ==
  ASSUME StateTyped, CallInv, NEW w \in Workers, ~ Working(w), NEW k \in Keys, NEW row \in Row,
         inv[k].status \in {"absent", "in_progress", "failed"},
         inv[k].status = "in_progress" => ~ inv[k].started,
         inv[k].status = "failed" => k.retry = 0,
         row.status = "in_progress", ~ row.started, row.version = inv[k].version + 1,
         inv' = [inv EXCEPT ![k] = row], calls' = calls, OthersStay(w),
         wk'[w].pc = "mark", wk'[w].key = k, wk'[w].iver = row.version,
         wk'[w].att = k.att, wk'[w].role = k.role
  PROVE  CallInv'
<1>1. inv \in [Keys -> Row] /\ inv[k].version \in Nat /\ row.version \in Nat
  BY DEF StateTyped, Row
<1>2. /\ inv'[k] = row
      /\ \A q \in Keys \ {k} : inv'[q] = inv[q]
  BY <1>1
<1>3. /\ \A v \in Workers \ {w} : wk'[v] = wk[v]
      /\ \A v \in Workers : wk'[v].pc \in {"call", "bind"} => v # w /\ wk'[v] = wk[v]
  BY DEF OthersStay
<1>4. ~ Abandoned(k) /\ ~ Transporting(inv[k])
  BY DEF Abandoned, Transporting
<1>5. \A v \in Workers \ {w} : Working(v) =>
        /\ wk[v].key \in Keys /\ wk[v].iver \in Nat
        /\ wk[v].iver <= inv[wk[v].key].version /\ inv[wk[v].key].version \in Nat
        /\ inv[wk[v].key].status # "absent"
  BY DEF StateTyped, WorkerState, Row, CallInv, RowsOpened
<1>6. \A v \in Workers \ {w} : Working(v) =>
        /\ inv'[wk[v].key].status # "absent" /\ wk[v].iver <= inv'[wk[v].key].version
        /\ wk[v].key = k => wk[v].iver # row.version
  BY <1>1, <1>2, <1>5
<1>7. RowsOpened'
  BY RowRewritten DEF CallInv
<1>8. CallersHold'
  <2> SUFFICES ASSUME NEW v \in Workers, wk'[v].pc \in {"call", "bind"}
               PROVE  Abandoned(wk[v].key)' \/ (HoldsRow(v) /\ inv[wk[v].key].started)'
    BY <1>3 DEF CallersHold
  <2>1. v # w /\ wk'[v] = wk[v] /\ wk[v].key \in Keys
    BY <1>3, <1>5 DEF Working
  <2>2. Abandoned(wk[v].key) \/ (HoldsRow(v) /\ inv[wk[v].key].started)
    BY <2>1 DEF CallInv, CallersHold
  <2>3. wk[v].key # k
    BY <1>4, <2>2 DEF HoldsRow, Transporting
  <2> QED
    BY <1>2, <2>1, <2>2, <2>3 DEF HoldsRow, Abandoned
<1>9. LostRemembered'
  <2>1. ~ calls[k].lost
    BY <1>4 DEF CallInv, LostRemembered
  <2> SUFFICES ASSUME NEW q \in Keys, calls[q].lost
               PROVE  \/ Abandoned(q)'
                      \/ /\ Transporting(inv'[q])
                         /\ \A v \in Workers : Working(v)' /\ wk'[v].key = q
                              => wk'[v].iver # inv'[q].version
    BY DEF LostRemembered, Transporting
  <2>2. inv'[q] = inv[q] /\ q # k
    BY <1>2, <2>1
  <2>3. \A v \in Workers : Working(v)' /\ wk'[v].key = q => Working(v) /\ wk'[v] = wk[v]
    BY <1>3, <2>2 DEF Working
  <2> QED
    BY <2>2, <2>3 DEF CallInv, LostRemembered, Abandoned, Transporting
<1>10. RetriesCounted'
  <2>1. k.retry = 1 => calls[k].count = 0
    <3>1. calls[k].count \in Nat /\ k.retry \in 0 .. 1
      BY KeyParts DEF StateTyped, Call
    <3> QED
      BY <3>1 DEF CallInv, RetriesCounted
  <2>2. /\ \A q \in Keys : inv'[q].status = "absent" =>
             inv[q].status = "absent" /\ inv'[q].version = inv[q].version
        /\ \A q \in Keys : q.retry = 1 /\ calls[q].count > 0 /\ inv'[q].status = "in_progress"
                             => inv'[q].started
    BY <1>2, <2>1 DEF CallInv, RetriesCounted
  <2> QED
    BY <2>2 DEF CallInv, RetriesCounted, RetryCalledOnce
<1> QED
  BY <1>7, <1>8, <1>9, <1>10 DEF CallInv

\* A worker marks the row it holds as transporting.
LEMMA RowMarked ==
  ASSUME StateTyped, CallInv, NEW w \in Workers, wk[w].pc = "mark",
         NEW k, k = wk[w].key, HoldsRow(w), ~ inv[k].started, NEW row \in Row,
         row.status = "in_progress", row.started, row.version = inv[k].version + 1,
         inv' = [inv EXCEPT ![k] = row],
         calls'[k].count = calls[k].count + 1, calls'[k].lost = calls[k].lost,
         \A q \in Keys \ {k} : calls'[q] = calls[q],
         OthersStay(w), wk'[w].pc = "call", wk'[w].iver = row.version,
         wk'[w].key = wk[w].key, wk'[w].att = wk[w].att, wk'[w].role = wk[w].role
  PROVE  /\ CallInv'
         /\ ~ calls[k].lost /\ \A v \in Workers : ~ Answering(v, k)
<1>1. /\ k \in Keys /\ inv \in [Keys -> Row] /\ inv[k].status = "in_progress"
      /\ inv[k].version = wk[w].iver /\ calls[k].count \in Nat
      /\ k.att = wk[w].att /\ k.role = wk[w].role
  BY DEF StateTyped, Row, Call, CallInv, RowsOpened, Working, HoldsRow
<1>2. inv'[k] = row /\ \A q \in Keys \ {k} : inv'[q] = inv[q]
  BY <1>1
<1>3. \A v \in Workers \ {w} : wk'[v] = wk[v]
  BY DEF OthersStay
<1>4. ~ calls[k].lost
  BY <1>1 DEF CallInv, LostRemembered, Abandoned, Working, Transporting
<1>5. \A v \in Workers : ~ Answering(v, k)
  BY <1>1 DEF CallInv, CallersHold, Answering, Abandoned
<1>6. RowsOpened'
  <2>1. row.status # "absent" /\ wk'[w].key = k /\ wk'[w].att = k.att /\ wk'[w].role = k.role
    BY <1>1
  <2>2. RowsOpened
    BY DEF CallInv
  <2> QED
    BY <1>1, <2>1, <2>2, RowRewritten
<1>7. CallersHold'
  <2> SUFFICES ASSUME NEW v \in Workers, wk'[v].pc \in {"call", "bind"}
               PROVE  \/ inv'[wk'[v].key].status = "uncertain_abandoned"
                      \/ /\ inv'[wk'[v].key].status = "in_progress"
                         /\ inv'[wk'[v].key].version = wk'[v].iver /\ inv'[wk'[v].key].started
    BY DEF CallersHold, Abandoned, HoldsRow
  <2>1. CASE v = w
    BY <1>2, <2>1
  <2>2. CASE v # w
    <3>1. wk'[v] = wk[v] /\ wk[v].pc \in {"call", "bind"}
      BY <1>3, <2>2
    <3>2. wk[v].key \in Keys \ {k}
      BY <1>5, <3>1 DEF Answering, Working, CallInv, RowsOpened
    <3>3. inv'[wk[v].key] = inv[wk[v].key]
      BY <1>2, <3>2
    <3>4. \/ inv[wk[v].key].status = "uncertain_abandoned"
          \/ /\ inv[wk[v].key].status = "in_progress"
             /\ inv[wk[v].key].version = wk[v].iver /\ inv[wk[v].key].started
      BY <3>1 DEF CallInv, CallersHold, Abandoned, HoldsRow
    <3> QED
      BY <3>1, <3>3, <3>4
  <2> QED
    BY <2>1, <2>2
<1>8. LostRemembered'
  <2> SUFFICES ASSUME NEW q \in Keys, calls'[q].lost
               PROVE  \/ inv'[q].status = "uncertain_abandoned"
                      \/ /\ Transporting(inv'[q])
                         /\ \A v \in Workers : Working(v)' /\ wk'[v].key = q
                              => wk'[v].iver # inv'[q].version
    BY DEF LostRemembered, Transporting, Abandoned
  <2>1. q # k /\ inv'[q] = inv[q] /\ calls[q].lost
    BY <1>2, <1>4
  <2>2. \A v \in Workers : Working(v)' /\ wk'[v].key = q => Working(v) /\ wk'[v] = wk[v]
    BY <1>3, <2>1 DEF Working
  <2>3. \/ inv[q].status = "uncertain_abandoned"
        \/ /\ Transporting(inv[q])
           /\ \A v \in Workers : Working(v) /\ wk[v].key = q => wk[v].iver # inv[q].version
    BY <2>1 DEF CallInv, LostRemembered, Abandoned
  <2> QED
    BY <2>1, <2>2, <2>3
<1>9. RetriesCounted'
  <2>1. k.retry = 1 => calls'[k].count = 1
    BY <1>1 DEF CallInv, RetriesCounted
  <2>2. \A q \in Keys : q.retry = 1 => calls'[q].count <= 1
    BY <2>1 DEF CallInv, RetriesCounted, RetryCalledOnce
  <2>3. \A q \in Keys : inv'[q].status = "absent" =>
          inv'[q].version = 0 /\ calls'[q].count = 0 /\ ~ calls'[q].lost
    BY <1>2 DEF CallInv, RetriesCounted
  <2>4. \A q \in Keys : q.retry = 1 /\ calls'[q].count > 0 /\ inv'[q].status = "in_progress"
                          => inv'[q].started
    BY <1>2 DEF CallInv, RetriesCounted
  <2> QED
    BY <2>2, <2>3, <2>4 DEF RetriesCounted, RetryCalledOnce
<1> QED
  BY <1>4, <1>5, <1>6, <1>7, <1>8, <1>9 DEF CallInv

\* The outcome of a call is lost, and with it maybe the version of the row.
LEMMA CallLost ==
  ASSUME StateTyped, CallInv, NEW w \in Workers, wk[w].pc \in {"call", "bind"},
         NEW k, k = wk[w].key, OthersStay(w), ~ Working(w)',
         calls'[k].lost, calls'[k].count = calls[k].count,
         \A q \in Keys \ {k} : calls'[q] = calls[q],
         \/ inv' = inv
         \/ HoldsRow(w) /\ inv' = [inv EXCEPT ![k] = UnknownRow(inv[k])]
  PROVE  CallInv'
<1>1. /\ k \in Keys /\ inv \in [Keys -> Row] /\ inv[k] \in Row /\ inv[k].version \in Nat
      /\ calls[k] \in Call
      /\ Working(w) /\ wk[w].iver \in Nat
  BY DEF StateTyped, Row, CallInv, RowsOpened, Working, WorkerState
<1>2. Abandoned(k) \/ (HoldsRow(w) /\ inv[k].started)
  BY DEF CallInv, CallersHold
<1>3. UnknownRow(inv[k]) \in Row /\ UnknownRow(inv[k]).version = inv[k].version + 1
      /\ UnknownRow(inv[k]).status = inv[k].status /\ UnknownRow(inv[k]).started = inv[k].started
  <2>1. inv[k].version + 1 \in Nat
    BY <1>1
  <2> QED
    BY <1>1, <2>1 DEF UnknownRow, Row
<1>4. \A v \in Workers : Working(v)' => v # w /\ Working(v) /\ wk'[v] = wk[v]
  BY DEF OthersStay, Working
<1>5. /\ \A q \in Keys \ {k} : inv'[q] = inv[q]
      /\ inv'[k].status = inv[k].status /\ inv'[k].started = inv[k].started
      /\ \/ inv'[k].version = inv[k].version
         \/ HoldsRow(w) /\ inv'[k].version = inv[k].version + 1
  <2>1. CASE inv' = inv
    BY <2>1
  <2>2. CASE HoldsRow(w) /\ inv' = [inv EXCEPT ![k] = UnknownRow(inv[k])]
    BY <1>1, <1>3, <2>2
  <2> QED
    BY <2>1, <2>2
<1>6. RowsOpened'
  <2>1. CASE inv' = inv
    BY <1>4, <2>1 DEF CallInv, RowsOpened
  <2>2. CASE HoldsRow(w) /\ inv' = [inv EXCEPT ![k] = UnknownRow(inv[k])]
    <3>1. UnknownRow(inv[k]).status # "absent"
      BY <1>3, <2>2 DEF HoldsRow
    <3>2. RowsOpened
      BY DEF CallInv
    <3> QED
      BY <1>1, <1>3, <2>2, <3>1, <3>2, RowRewritten
  <2> QED
    BY <2>1, <2>2
<1>7. \A v \in Workers : wk'[v].pc \in {"call", "bind"} =>
        /\ wk'[v] = wk[v] /\ wk[v].key \in Keys
        /\ wk[v].key = k => Abandoned(k)
        /\ Abandoned(wk[v].key) \/ (HoldsRow(v) /\ inv[wk[v].key].started)
  <2> SUFFICES ASSUME NEW v \in Workers, wk'[v].pc \in {"call", "bind"}
               PROVE  /\ wk'[v] = wk[v] /\ wk[v].key \in Keys
                      /\ wk[v].key = k => Abandoned(k)
                      /\ Abandoned(wk[v].key) \/ (HoldsRow(v) /\ inv[wk[v].key].started)
    OBVIOUS
  <2>1. v # w /\ wk'[v] = wk[v] /\ Working(v)
    BY <1>4 DEF Working
  <2>2. Abandoned(wk[v].key) \/ (HoldsRow(v) /\ inv[wk[v].key].started)
    BY <2>1 DEF CallInv, CallersHold
  <2>3. wk[v].key = k => wk[v].iver # wk[w].iver
    BY <1>1, <2>1 DEF CallInv, RowsOpened
  <2>4. wk[v].key \in Keys
    BY <2>1 DEF CallInv, RowsOpened
  <2> QED
    BY <1>2, <2>1, <2>2, <2>3, <2>4 DEF HoldsRow
<1>8. CallersHold'
  <2> SUFFICES ASSUME NEW v \in Workers, wk'[v].pc \in {"call", "bind"}
               PROVE  \/ inv'[wk'[v].key].status = "uncertain_abandoned"
                      \/ /\ inv'[wk'[v].key].status = "in_progress"
                         /\ inv'[wk'[v].key].version = wk'[v].iver /\ inv'[wk'[v].key].started
    BY DEF CallersHold, Abandoned, HoldsRow
  <2>1. /\ wk'[v] = wk[v] /\ wk[v].key \in Keys
        /\ wk[v].key = k => Abandoned(k)
        /\ Abandoned(wk[v].key) \/ (HoldsRow(v) /\ inv[wk[v].key].started)
    BY <1>7
  <2>2. CASE wk[v].key = k
    BY <1>5, <2>1, <2>2 DEF Abandoned
  <2>3. CASE wk[v].key # k
    BY <1>5, <2>1, <2>3 DEF Abandoned, HoldsRow
  <2> QED
    BY <2>2, <2>3
<1>9. LostRemembered'
  <2> SUFFICES ASSUME NEW q \in Keys, calls'[q].lost
               PROVE  \/ inv'[q].status = "uncertain_abandoned"
                      \/ /\ Transporting(inv'[q])
                         /\ \A v \in Workers : Working(v)' /\ wk'[v].key = q
                              => wk'[v].iver # inv'[q].version
    BY DEF LostRemembered, Transporting, Abandoned
  <2>1. CASE q # k
    <3>1. inv'[q] = inv[q] /\ calls[q].lost
      BY <1>5, <2>1
    <3>2. \/ inv[q].status = "uncertain_abandoned"
          \/ /\ Transporting(inv[q])
             /\ \A v \in Workers : Working(v) /\ wk[v].key = q => wk[v].iver # inv[q].version
      BY <3>1 DEF CallInv, LostRemembered, Abandoned
    <3> QED
      BY <1>4, <3>1, <3>2
  <2>2. CASE q = k
    <3>1. CASE Abandoned(k)
      BY <1>5, <2>2, <3>1 DEF Abandoned
    <3>2. CASE ~ Abandoned(k)
      <4>1. HoldsRow(w) /\ inv[k].started
        BY <1>2, <3>2
      <4>2. Transporting(inv'[k])
        BY <1>5, <4>1 DEF HoldsRow, Transporting
      <4>3. ASSUME NEW v \in Workers, Working(v)', wk'[v].key = k
            PROVE  wk'[v].iver # inv'[k].version
        <5>1. v # w /\ Working(v) /\ wk'[v] = wk[v]
          BY <1>4, <4>3
        <5>2. wk[v].iver # wk[w].iver /\ wk[v].iver <= inv[k].version /\ wk[v].iver \in Nat
          BY <1>1, <4>3, <5>1 DEF CallInv, RowsOpened, StateTyped, WorkerState
        <5> QED
          BY <1>1, <1>5, <4>1, <5>1, <5>2 DEF HoldsRow
      <4> QED
        BY <2>2, <4>2, <4>3
    <3> QED
      BY <3>1, <3>2
  <2> QED
    BY <2>1, <2>2
<1>10. RetriesCounted'
  <2>1. inv[k].status # "absent"
    BY <1>1 DEF CallInv, RowsOpened
  <2>2. \A q \in Keys : /\ inv'[q].status = inv[q].status /\ inv'[q].started = inv[q].started
                        /\ calls'[q].count = calls[q].count
                        /\ q # k => calls'[q] = calls[q] /\ inv'[q] = inv[q]
    BY <1>5
  <2> QED
    BY <2>1, <2>2 DEF CallInv, RetriesCounted, RetryCalledOnce
<1> QED
  BY <1>6, <1>8, <1>9, <1>10 DEF CallInv

\* An operator abandons a call that is transporting for one nobody has made yet.
LEMMA RowAbandoned ==
  ASSUME StateTyped, CallInv, NEW k \in Keys, NEW s \in Keys, NEW row \in Row, NEW open \in Row,
         inv[s].status = "absent", Transporting(inv[k]),
         inv' = [inv EXCEPT ![k] = row, ![s] = open], wk' = wk, calls' = calls,
         row.status = "uncertain_abandoned", row.version = inv[k].version + 1,
         open.status = "in_progress"
  PROVE  CallInv'
<1>1. /\ inv \in [Keys -> Row] /\ inv[k] \in Row /\ inv[k].version \in Nat
      /\ k # s
  BY DEF StateTyped, Row, Transporting
<1>2. /\ inv'[k] = row /\ inv'[s] = open
      /\ \A q \in Keys \ {k, s} : inv'[q] = inv[q]
  BY <1>1
<1>3. \A v \in Workers : Working(v) =>
        /\ wk[v].key \in Keys \ {s}
        /\ wk[v].iver <= inv[wk[v].key].version /\ inv[wk[v].key].version \in Nat
        /\ wk[v].iver \in Nat
  BY DEF CallInv, RowsOpened, StateTyped, WorkerState, Row
<1>4. RowsOpened'
  <2>1. \A v \in Workers : Working(v) =>
          /\ inv'[wk[v].key].status # "absent" /\ wk[v].iver <= inv'[wk[v].key].version
    BY <1>1, <1>2, <1>3 DEF CallInv, RowsOpened
  <2> QED
    BY <2>1 DEF CallInv, RowsOpened, Working
<1>5. CallersHold'
  <2> SUFFICES ASSUME NEW v \in Workers, wk[v].pc \in {"call", "bind"}
               PROVE  \/ inv'[wk[v].key].status = "uncertain_abandoned"
                      \/ /\ inv'[wk[v].key].status = "in_progress"
                         /\ inv'[wk[v].key].version = wk[v].iver /\ inv'[wk[v].key].started
    BY DEF CallersHold, Abandoned, HoldsRow
  <2>1. /\ wk[v].key \in Keys \ {s}
        /\ Abandoned(wk[v].key) \/ (HoldsRow(v) /\ inv[wk[v].key].started)
    BY <1>3 DEF Working, CallInv, CallersHold
  <2> QED
    BY <1>2, <2>1 DEF Abandoned, HoldsRow
<1>6. LostRemembered'
  <2> SUFFICES ASSUME NEW q \in Keys, calls[q].lost
               PROVE  \/ inv'[q].status = "uncertain_abandoned"
                      \/ /\ Transporting(inv'[q])
                         /\ \A v \in Workers : Working(v) /\ wk[v].key = q
                              => wk[v].iver # inv'[q].version
    BY DEF LostRemembered, Transporting, Abandoned, Working
  <2>1. q # s
    BY DEF CallInv, RetriesCounted
  <2>2. \/ inv[q].status = "uncertain_abandoned"
        \/ /\ Transporting(inv[q])
           /\ \A v \in Workers : Working(v) /\ wk[v].key = q => wk[v].iver # inv[q].version
    BY DEF CallInv, LostRemembered, Abandoned
  <2> QED
    BY <1>2, <2>1, <2>2
<1>7. RetriesCounted'
  <2>1. \A q \in Keys : inv'[q].status = "absent" =>
             inv[q].status = "absent" /\ inv'[q].version = inv[q].version
    BY <1>2
  <2>2. calls[s].count = 0
    BY DEF CallInv, RetriesCounted
  <2>3. \A q \in Keys : q.retry = 1 /\ calls[q].count > 0 /\ inv'[q].status = "in_progress"
                          => inv'[q].started
    <3> SUFFICES ASSUME NEW q \in Keys, q.retry = 1, calls[q].count > 0,
                        inv'[q].status = "in_progress"
                 PROVE  inv'[q].started
      OBVIOUS
    <3>1. q # s /\ q # k
      BY <1>2, <2>2
    <3>2. inv'[q] = inv[q]
      BY <1>2, <3>1
    <3> QED
      BY <3>2 DEF CallInv, RetriesCounted
  <2> QED
    BY <2>1, <2>3 DEF CallInv, RetriesCounted, RetryCalledOnce
<1> QED
  BY <1>4, <1>5, <1>6, <1>7 DEF CallInv

-----------------------------------------------------------------------------
(* Rows and calls: the actions. *)

\* A call is started only if none of its key is lost or under way.
CallsKept == calls' = calls

StartedAlone ==
  \A k \in Keys : calls'[k].count > calls[k].count =>
    ~ calls[k].lost /\ \A w \in Workers : ~ Answering(w, k)

LEMMA KeptIsAlone ==
  ASSUME StateTyped, \A k \in Keys : calls'[k].count = calls[k].count
  PROVE  StartedAlone
  BY DEF StateTyped, Call, StartedAlone

LEMMA InsertedRow ==
  ASSUME NEW request \in Requests
  PROVE  /\ Inserted(request) \in Row /\ Inserted(request).status = "in_progress"
         /\ ~ Inserted(request).started /\ Inserted(request).version = 1
<1>1. NoRow \in Row /\ ~ NoRow.started
  BY DEF NoRow, Row, InvocationStatuses, Requests
<1> QED
  BY <1>1 DEF Inserted, Row, InvocationStatuses

LEMMA StartCalls ==
  ASSUME RepairInv, NEW w \in Workers, Start(w)
  PROVE  CallInv'
<1> DEFINE n == wk[w].att
           role == wk[w].role
           p == IF role = "proposer" THEN ProposePass(n, wk[w].carried) ELSE ReviewPass(n)
           q == EffectivePass(n, role, p)
           verdict == IF RecoverCompleted(n, role, p) = "go" THEN StartVerdict(n, role, p)
                      ELSE RecoverCompleted(n, role, p)
           row == Opened(inv[q.key], q.request)
<1>1. /\ wk \in [Workers -> WorkerState] /\ att \in [Attempts -> Attempt]
      /\ inv \in [Keys -> Row] /\ RowsBound /\ wk[w].pc = "start"
      /\ n \in Attempts /\ role \in Roles /\ wk[w].carried \in Worded \cup {"none"}
      /\ StateTyped /\ CallInv
  BY DEF RepairInv, AttemptInv, StateTyped, WorkersRead, WorkerReads, WorkerState, Start
<1>2. CASE verdict = "go"
  <2>1. StartVerdict(n, role, p) = "go"
    BY <1>2
  <2>2. /\ inv' = [inv EXCEPT ![q.key] = row] /\ calls' = calls
        /\ wk' = [wk EXCEPT ![w].pc = "mark", ![w].key = q.key, ![w].count = q.count,
                            ![w].iver = inv[q.key].version + 1]
    BY <1>2 DEF Start
  <2>3. /\ q.key \in Keys /\ q.key.att = n /\ q.key.role = role
        /\ q.count \in 0 .. 1 /\ q.request \in Requests
        /\ inv[q.key].status \in {"absent", "in_progress", "failed"}
        /\ inv[q.key].status = "in_progress" => ~ inv[q.key].started
        /\ inv[q.key].status = "failed" => q.key.retry = 0
    BY <1>1, <2>1, StartFacts
  <2> HIDE DEF n, role, p, q, verdict
  <2>4. PICK k, request : k = q.key /\ request = q.request
    OBVIOUS
  <2>5. k \in Keys /\ request \in Requests /\ inv[k] \in Row /\ inv[k].version \in Nat
    BY <1>1, <2>3, <2>4 DEF Row
  <2>6. /\ row \in Row /\ row.status = "in_progress" /\ ~ row.started
        /\ row.version = inv[k].version + 1
    <3>1. CASE inv[k].status = "absent"
      <4>1. row = Inserted(request)
        BY <2>4, <3>1 DEF Opened
      <4>2. inv[k].version = 0
        BY <1>1, <2>5, <3>1 DEF CallInv, RetriesCounted
      <4> HIDE DEF row
      <4> QED
        BY <2>5, <4>1, <4>2, InsertedRow
    <3>2. CASE inv[k].status # "absent"
      <4>1. row = TakenOver(inv[k], request)
        BY <2>4, <3>2 DEF Opened
      <4>2. inv[k].version + 1 \in Nat
        BY <2>5
      <4> QED
        BY <2>5, <4>1, <4>2 DEF TakenOver, Row, InvocationStatuses
    <3> QED
      BY <3>1, <3>2
  <2>7. /\ wk'[w].pc = "mark" /\ wk'[w].key = k /\ wk'[w].iver = row.version
        /\ wk'[w].att = k.att /\ wk'[w].role = k.role /\ OthersStay(w)
    BY <1>1, <2>2, <2>3, <2>4, <2>6 DEF WorkerState, OthersStay, n, role
  <2>8. inv' = [inv EXCEPT ![k] = row] /\ calls' = calls
    BY <2>2, <2>4
  <2>9. /\ inv[k].status \in {"absent", "in_progress", "failed"}
        /\ inv[k].status = "in_progress" => ~ inv[k].started
        /\ inv[k].status = "failed" => k.retry = 0
    BY <2>3, <2>4
  <2>10. ~ Working(w)
    BY <1>1 DEF Working
  <2> HIDE DEF row
  <2> QED
    BY <1>1, <2>5, <2>6, <2>7, <2>8, <2>9, <2>10, RowOpened
<1>3. CASE verdict # "go"
  <2>1. inv' = inv /\ calls' = calls
    BY <1>3 DEF Start
  <2>2. \A v \in Workers : Working(v)' => v # w /\ wk'[v] = wk[v]
    <3>1. \E a : wk' = [wk EXCEPT ![w].pc = "end", ![w].answer = a]
      BY <1>3 DEF Start
    <3> QED
      BY <1>1, <3>1 DEF Working, WorkerState
  <2> QED
    BY <1>1, <2>1, <2>2, RowsUntouched DEF Working
<1> QED
  BY <1>2, <1>3

\* The worker's call goes on, or is answered.
GoesOnCalling(w) ==
  /\ wk[w].pc = "call" /\ wk'[w].pc \in {"call", "bind"}
  /\ wk'[w].key = wk[w].key /\ wk'[w].iver = wk[w].iver
  /\ wk'[w].att = wk[w].att /\ wk'[w].role = wk[w].role /\ wk'[w].snap = wk[w].snap

\* A call that goes on, or that is answered.
LEMMA CallGoesOn ==
  ASSUME wk \in [Workers -> WorkerState], NEW w \in Workers, PostAgain(w) \/ Answered(w)
  PROVE  OthersStay(w) /\ GoesOnCalling(w) /\ inv' = inv /\ calls' = calls
<1>1. wk[w] \in WorkerState
  OBVIOUS
<1>2. CASE PostAgain(w)
  BY <1>1, <1>2 DEF PostAgain, WorkerState, OthersStay, GoesOnCalling
<1>3. CASE Answered(w)
  <2>1. \E a : wk' = [wk EXCEPT ![w].pc = "bind", ![w].posts = 0, ![w].answer = a]
    BY <1>3 DEF Answered
  <2>2. wk[w].pc = "call" /\ inv' = inv /\ calls' = calls
    BY <1>3 DEF Answered
  <2> QED
    BY <1>1, <2>1, <2>2 DEF WorkerState, OthersStay, GoesOnCalling
<1> QED
  BY <1>2, <1>3

\* A worker that is at work on no row afterwards, or goes on with its own, as do the others.
LEMMA WorkerMoves ==
  ASSUME StateTyped, CallInv, inv' = inv, calls' = calls, NEW w \in Workers, OthersStay(w),
         ~ Working(w)' \/ GoesOnCalling(w)
  PROVE  CallInv'
<1>1. wk \in [Workers -> WorkerState] /\ wk[w] \in WorkerState
  BY DEF StateTyped
<1>2. CASE ~ Working(w)'
  BY <1>2, RowsUntouched DEF OthersStay, Working
<1>3. CASE GoesOnCalling(w)
  <2>2. \A v \in Workers : Working(v)' =>
           /\ Working(v) /\ wk'[v].key = wk[v].key /\ wk'[v].iver = wk[v].iver
           /\ wk'[v].att = wk[v].att /\ wk'[v].role = wk[v].role
           /\ wk'[v].pc \in {"call", "bind"} => wk[v].pc \in {"call", "bind"}
    BY <1>3 DEF GoesOnCalling, OthersStay, Working
  <2> QED
    BY <2>2, RowsUntouched
<1> QED
  BY <1>2, <1>3

LEMMA WorkerCalls ==
  ASSUME RepairInv, NEW w \in Workers, WorkerStep(w) \/ Crash(w)
  PROVE  CallInv' /\ StartedAlone
<1>1. /\ wk \in [Workers -> WorkerState] /\ wk[w] \in WorkerState
      /\ StateTyped /\ CallInv /\ inv \in [Keys -> Row] /\ calls \in [Keys -> Call]
  BY DEF RepairInv, StateTyped
<1>2. Idle.pc = "idle"
  BY DEF Idle
<1>3. ASSUME calls' = calls
      PROVE  StartedAlone
  BY <1>1, <1>3, KeptIsAlone
<1>4. CASE ClaimPropose(w)
  <2>1. OthersStay(w) /\ ~ Working(w)' /\ inv' = inv /\ calls' = calls
    BY <1>1, <1>4 DEF ClaimPropose, OthersStay, Working, Idle
  <2> QED
    BY <1>1, <1>3, <2>1, WorkerMoves
<1>5. CASE ClaimReview(w)
  <2>1. OthersStay(w) /\ ~ Working(w)' /\ inv' = inv /\ calls' = calls
    BY <1>1, <1>5 DEF ClaimReview, OthersStay, Working, Idle
  <2> QED
    BY <1>1, <1>3, <2>1, WorkerMoves
<1>6. CASE Load(w)
  <2>1. OthersStay(w) /\ ~ Working(w)' /\ inv' = inv /\ calls' = calls
    BY <1>1, <1>6 DEF Load, OthersStay, Working, WorkerState
  <2> QED
    BY <1>1, <1>3, <2>1, WorkerMoves
<1>7. CASE Start(w)
  BY <1>3, <1>7, StartCalls DEF Start
<1>8. CASE MarkTransportStarted(w)
  <2>1. CASE HoldsRow(w) /\ ~ inv[wk[w].key].started
    <3>1. PICK k : k = wk[w].key
      OBVIOUS
    <3>2. /\ inv' = [inv EXCEPT ![k].started = TRUE, ![k].version = @ + 1]
          /\ calls' = [calls EXCEPT ![k].count = @ + 1]
          /\ wk' = [wk EXCEPT ![w].pc = "call", ![w].iver = @ + 1, ![w].posts = 1]
          /\ wk[w].pc = "mark"
      BY <1>8, <2>1, <3>1 DEF MarkTransportStarted
    <3>3. /\ k \in Keys /\ inv[k] \in Row /\ inv[k].version \in Nat /\ calls[k] \in Call
          /\ wk[w].iver = inv[k].version /\ inv[k].status = "in_progress"
      BY <1>1, <2>1, <3>1, <3>2 DEF HoldsRow, CallInv, RowsOpened, Working, Row
    <3> DEFINE row == [inv[k] EXCEPT !.started = TRUE, !.version = inv[k].version + 1]
    <3>4. inv' = [inv EXCEPT ![k] = row]
      BY <1>1, <3>2, <3>3
    <3>5. /\ row \in Row /\ row.status = "in_progress" /\ row.started
          /\ row.version = inv[k].version + 1
      <4>1. inv[k].version + 1 \in Nat
        BY <3>3
      <4> QED
        BY <3>3, <4>1 DEF Row
    <3> HIDE DEF row
    <3>6. /\ calls'[k].count = calls[k].count + 1 /\ calls'[k].lost = calls[k].lost
          /\ \A q \in Keys \ {k} : calls'[q] = calls[q]
      BY <1>1, <3>2, <3>3 DEF Call
    <3>7. /\ OthersStay(w) /\ wk'[w].pc = "call" /\ wk'[w].iver = row.version
          /\ wk'[w].key = wk[w].key /\ wk'[w].att = wk[w].att /\ wk'[w].role = wk[w].role
      BY <1>1, <3>2, <3>3, <3>5 DEF OthersStay, WorkerState
    <3>8. /\ CallInv'
          /\ ~ calls[k].lost /\ \A v \in Workers : ~ Answering(v, k)
      BY <1>1, <2>1, <3>1, <3>2, <3>4, <3>5, <3>6, <3>7, RowMarked
    <3>9. StartedAlone
      <4>1. \A q \in Keys \ {k} : ~ (calls'[q].count > calls[q].count)
        BY <1>1, <3>6 DEF Call
      <4> QED
        BY <3>8, <4>1 DEF StartedAlone
    <3> QED
      BY <3>8, <3>9
  <2>2. CASE ~ (HoldsRow(w) /\ ~ inv[wk[w].key].started)
    <3>1. /\ wk' = [wk EXCEPT ![w].pc = "end", ![w].answer = "UNCERTAIN"]
          /\ inv' = inv /\ calls' = calls
      BY <1>8, <2>2 DEF MarkTransportStarted
    <3>2. OthersStay(w) /\ ~ Working(w)'
      BY <1>1, <3>1 DEF OthersStay, Working, WorkerState
    <3> QED
      BY <1>1, <1>3, <3>1, <3>2, WorkerMoves
  <2> QED
    BY <2>1, <2>2
<1>9. ASSUME NEW failure \in Failures, Working(w), inv' = PersistFailure(w, failure),
             calls' = calls, \E a : wk' = [wk EXCEPT ![w].pc = "end", ![w].answer = a]
      PROVE  CallInv' /\ StartedAlone
  <2>1. OthersStay(w) /\ ~ Working(w)'
    BY <1>1, <1>9 DEF OthersStay, Working, WorkerState
  <2> QED
    BY <1>1, <1>3, <1>9, <2>1, RowFailed
<1>10. CASE LocalFailure(w)
  BY <1>9, <1>10 DEF LocalFailure, Working, Failures
<1>11. CASE PostAgain(w) \/ Answered(w)
  BY <1>1, <1>3, <1>11, CallGoesOn, WorkerMoves
<1>12. CASE ProviderFailure(w)
  BY <1>9, <1>12 DEF ProviderFailure, Working, Failures
<1>13. CASE ProtocolFailure(w)
  BY <1>9, <1>13 DEF ProtocolFailure, Working, Failures
<1>14. ASSUME wk[w].pc \in {"call", "bind"}, calls' = [calls EXCEPT ![wk[w].key].lost = TRUE],
              OthersStay(w), ~ Working(w)',
              \/ inv' = inv
              \/ HoldsRow(w) /\ inv' = [inv EXCEPT ![wk[w].key] = UnknownRow(inv[wk[w].key])]
       PROVE  CallInv' /\ StartedAlone
  <2>1. PICK k : k = wk[w].key
    OBVIOUS
  <2>2. k \in Keys
    BY <1>1, <1>14, <2>1 DEF CallInv, RowsOpened, Working
  <2>3. /\ calls'[k].lost /\ calls'[k].count = calls[k].count
        /\ \A q \in Keys \ {k} : calls'[q] = calls[q]
    BY <1>1, <1>14, <2>1, <2>2 DEF Call
  <2>4. \/ inv' = inv
        \/ HoldsRow(w) /\ inv' = [inv EXCEPT ![k] = UnknownRow(inv[k])]
    BY <1>14, <2>1
  <2>5. CallInv'
    BY <1>1, <1>14, <2>1, <2>3, <2>4, CallLost
  <2>6. \A q \in Keys : calls'[q].count = calls[q].count
    BY <2>3
  <2> QED
    BY <1>1, <2>5, <2>6, KeptIsAlone
<1>15. CASE OutcomeUnknown(w)
  <2>1. OthersStay(w) /\ ~ Working(w)' /\ wk[w].pc \in {"call", "bind"}
    BY <1>1, <1>15 DEF OutcomeUnknown, OthersStay, Working, WorkerState
  <2>2. calls' = [calls EXCEPT ![wk[w].key].lost = TRUE]
    BY <1>15 DEF OutcomeUnknown
  <2>3. \/ inv' = inv
        \/ HoldsRow(w) /\ inv' = [inv EXCEPT ![wk[w].key] = UnknownRow(inv[wk[w].key])]
    BY <1>15 DEF OutcomeUnknown
  <2> QED
    BY <1>14, <2>1, <2>2, <2>3
<1>16. CASE AnswerStale(w)
  BY <1>9, <1>16 DEF AnswerStale, Working, Failures
<1>17. ASSUME Rejections \subseteq Failures
       PROVE  ProposalRejected(w) \/ ReviewRejected(w) => CallInv' /\ StartedAlone
  <2>1. CASE ProposalRejected(w)
    <3>1. /\ inv' = PersistFailure(w, wk[w].answer) /\ calls' = calls /\ Working(w)
          /\ wk[w].answer \in Failures
      BY <1>17, <2>1 DEF ProposalRejected, Working
    <3>2. OthersStay(w) /\ ~ Working(w)'
      BY <1>1, <2>1 DEF ProposalRejected, OthersStay, Working, Idle, WorkerState
    <3> QED
      BY <1>1, <1>3, <3>1, <3>2, RowFailed
  <2>2. CASE ReviewRejected(w)
    BY <1>9, <1>17, <2>2 DEF ReviewRejected, Working
  <2> QED
    BY <2>1, <2>2
<1>18. Rejections \subseteq Failures
  BY ConstantsAssumption DEF Failures
<1>19. CASE PersistCall(w)
  <2>1. /\ inv' = [inv EXCEPT ![wk[w].key] = Closed(inv[wk[w].key], "completed", "none")]
        /\ calls' = calls /\ Working(w) /\ HoldsRow(w)
    BY <1>19 DEF PersistCall, MayPersist, Working
  <2>2. inv[wk[w].key] \in Row /\ inv[wk[w].key].version \in Nat
    BY <1>1, <2>1 DEF CallInv, RowsOpened, Row
  <2>3. inv[wk[w].key].version + 1 \in Nat
    BY <2>2
  <2> DEFINE row == Closed(inv[wk[w].key], "completed", "none")
  <2>4. row \in Row /\ row.version = inv[wk[w].key].version + 1 /\ row.status = "completed"
    BY <2>2, <2>3 DEF Closed, Row, InvocationStatuses
  <2>5. OthersStay(w) /\ ~ Working(w)'
    BY <1>1, <1>19 DEF PersistCall, OthersStay, Working, WorkerState
  <2> HIDE DEF row
  <2> QED
    BY <1>1, <1>3, <2>1, <2>4, <2>5, RowClosed DEF row
<1>20. CASE End(w)
  <2>1. OthersStay(w) /\ ~ Working(w)' /\ inv' = inv /\ calls' = calls
    BY <1>1, <1>20 DEF End, OthersStay, Working, Idle
  <2> QED
    BY <1>1, <1>3, <2>1, WorkerMoves
<1>21. CASE Crash(w)
  <2>1. OthersStay(w) /\ ~ Working(w)' /\ inv' = inv
    BY <1>1, <1>21 DEF Crash, OthersStay, Working, Idle
  <2>2. CASE wk[w].pc \in {"call", "bind"}
    <3>1. calls' = [calls EXCEPT ![wk[w].key].lost = TRUE]
      BY <1>21, <2>2 DEF Crash
    <3> QED
      BY <1>14, <2>1, <2>2, <3>1
  <2>3. CASE wk[w].pc \notin {"call", "bind"}
    <3>1. calls' = calls
      BY <1>21, <2>3 DEF Crash
    <3> QED
      BY <1>1, <1>3, <2>1, <3>1, WorkerMoves
  <2> QED
    BY <2>2, <2>3
<1> QED
  BY <1>4, <1>5, <1>6, <1>7, <1>8, <1>10, <1>11, <1>12, <1>13, <1>15, <1>16, <1>17, <1>18,
     <1>19, <1>20, <1>21 DEF WorkerStep

LEMMA AbandonedSuccessor ==
  ASSUME StateTyped, CallInv, NEW k \in Keys, k.gen < MaxGenerations,
         k.role = "reviewer" => k.gen = 0, inv[Successor(k)].status = "absent",
         Transporting(inv[k]), inv' = Abandon(k), wk' = wk, calls' = calls
  PROVE  CallInv' /\ StartedAlone
<1>1. Successor(k) \in Keys
  BY ConstantsAssumption DEF Successor, Keys
<1>2. inv[k] \in Row /\ inv[k].version \in Nat
  BY DEF StateTyped, Row
<1>3. inv[k].version + 1 \in Nat
  BY <1>2
<1>4. inv[k].request \in Requests /\ inv[k].failure \in Failures \cup {"none"}
  BY <1>2 DEF Row
<1> DEFINE row == Closed(inv[k], "uncertain_abandoned", inv[k].failure)
           open == Inserted(inv[k].request)
<1>5. row \in Row /\ row.status = "uncertain_abandoned" /\ row.version = inv[k].version + 1
  BY <1>2, <1>3, <1>4 DEF Closed, Row, InvocationStatuses
<1>6. open \in Row /\ open.status = "in_progress"
  BY <1>4, InsertedRow
<1>7. inv' = [inv EXCEPT ![k] = row, ![Successor(k)] = open]
  BY DEF Abandon
<1> HIDE DEF row, open
<1>8. CallInv'
  BY <1>1, <1>5, <1>6, <1>7, RowAbandoned
<1> QED
  BY <1>8, KeptIsAlone

\* The row that takes the place of an abandoned one is new.
LEMMA SuccessorIsNew ==
  ASSUME StateTyped, NEW n \in Attempts, NEW k \in Keys, AbandonableProposer(n, k),
         Successor(k) \in Keys
  PROVE  inv[Successor(k)].status = "absent"
<1> DEFINE prior == {q \in Recovered(n) : q.role = "proposer"}
<1>1. /\ k.att = n /\ k.role = "proposer" /\ inv[k].status = "in_progress"
      /\ IF prior = {} THEN att[n].proposer = NoKey
         ELSE att[n].proposer = k /\ k \in prior /\ \A q \in prior : q.gen <= k.gen
  BY DEF AbandonableProposer, OpenProposerKeys
<1>2. k.gen \in Nat
  BY KeyParts, ConstantsAssumption
<1>3. /\ Successor(k).gen = k.gen + 1 /\ Successor(k).att = n
      /\ Successor(k).role = "proposer"
  BY <1>1, <1>2 DEF Successor, Keys
<1>4. ASSUME inv[Successor(k)].status # "absent"
      PROVE  FALSE
  <2>1. Successor(k) \in prior
    BY <1>2, <1>3, <1>4 DEF Recovered
  <2>2. Successor(k).gen <= k.gen
    BY <1>1, <2>1
  <2> QED
    BY <1>2, <1>3, <2>2
<1> QED
  BY <1>4

LEMMA CallStep ==
  ASSUME RepairInv, [Next]_vars
  PROVE  CallInv' /\ StartedAlone
<1>1. StateTyped /\ CallInv
  BY DEF RepairInv
<1>2. ASSUME inv' = inv, wk' = wk, calls' = calls
      PROVE  CallInv' /\ StartedAlone
  BY <1>1, <1>2, RowsUntouched, KeptIsAlone DEF Working
<1>3. CASE \E w \in Workers : WorkerStep(w) \/ Crash(w)
  BY <1>3, WorkerCalls
<1>4. CASE Expire \/ Restart \/ RunChange
  BY <1>2, <1>4 DEF Expire, Restart, RunChange
<1>5. ASSUME NEW n \in Attempts, RecoverUncertain(n)
      PROVE  CallInv' /\ StartedAlone
  <2>1. CASE RecoverUncertainProposer(n)
    <3>1. PICK k \in Keys : /\ AbandonableProposer(n, k) /\ k.gen < MaxGenerations
                            /\ inv' = Abandon(k)
      BY <2>1 DEF RecoverUncertainProposer
    <3>2. k.role = "proposer" /\ Transporting(inv[k])
      BY <3>1 DEF AbandonableProposer, OpenProposerKeys
    <3>3. Successor(k) \in Keys
      BY <3>1, <3>2, ConstantsAssumption DEF Successor, Keys
    <3>4. inv[Successor(k)].status = "absent"
      BY <1>1, <3>1, <3>3, SuccessorIsNew
    <3>5. wk' = wk /\ calls' = calls
      BY <2>1 DEF RecoverUncertainProposer
    <3> QED
      BY <1>1, <3>1, <3>2, <3>4, <3>5, AbandonedSuccessor
  <2>2. CASE RecoverUncertainReviewer(n)
    <3> DEFINE k == Base(n, "reviewer")
    <3>1. /\ AbandonableReview(n) /\ Transporting(inv[k]) /\ inv' = Abandon(k)
          /\ wk' = wk /\ calls' = calls
      BY <2>2 DEF RecoverUncertainReviewer
    <3>2. k \in Keys /\ k.gen = 0 /\ k.att = n
      BY OwnKeys, OwnKeyParts
    <3>3. Successor(k) \in Keys /\ Successor(k).att = n /\ Successor(k).gen > 0
      BY <3>2, ConstantsAssumption DEF Successor, Keys
    <3>4. inv[Successor(k)].status = "absent"
      BY <3>1, <3>3 DEF AbandonableReview, Recovered
    <3>5. k.gen < MaxGenerations
      BY <3>2, ConstantsAssumption
    <3> HIDE DEF k
    <3> QED
      BY <1>1, <3>1, <3>2, <3>4, <3>5, AbandonedSuccessor
  <2> QED
    BY <1>5, <2>1, <2>2 DEF RecoverUncertain
<1>6. CASE \E o \in Operators : RecoverExhausted(o)
  BY <1>2, <1>6 DEF RecoverExhausted, RecoverExhaustedRead, RecoverExhaustedWrite
<1>7. CASE UNCHANGED vars
  BY <1>2, <1>7 DEF vars
<1> QED
  BY <1>3, <1>4, <1>5, <1>6, <1>7 DEF Next

-----------------------------------------------------------------------------
(* Attempts: what the steps do to the rows they name. *)

\* A stored answer is kept, and so is a spent retry with the failure it followed.
RowsKept ==
  /\ \A k \in Keys : inv[k].status = "completed" => inv'[k].status = "completed"
  /\ \A k \in Keys : k.retry = 1 /\ inv[k].status = "failed" => inv'[k].status = "failed"
  /\ \A n \in Attempts : /\ inv[SemanticRetry(n)].status = "failed"
                         /\ inv[Base(n, "proposer")].status = "failed"
                         => inv'[Base(n, "proposer")].status = "failed"

NoneCompleted == \A k \in Keys : inv'[k].status = "completed" => inv[k].status = "completed"

LEMMA SameRows ==
  ASSUME inv' = inv
  PROVE  RowsKept /\ NoneCompleted
  BY DEF RowsKept, NoneCompleted

\* A row in progress may be closed.
LEMMA OpenRowMoves ==
  ASSUME inv \in [Keys -> Row], NEW k \in Keys, inv[k].status = "in_progress", NEW row,
         inv' = [inv EXCEPT ![k] = row]
  PROVE  /\ RowsKept
         /\ row.status # "completed" => NoneCompleted
<1>1. inv'[k] = row /\ \A q \in Keys \ {k} : inv'[q] = inv[q]
  OBVIOUS
<1>2. RowsKept
  BY <1>1, OwnKeys DEF RowsKept
<1>3. row.status # "completed" => NoneCompleted
  BY <1>1 DEF NoneCompleted
<1> QED
  BY <1>2, <1>3

\* A row that may be opened is.
LEMMA FreeRowMoves ==
  ASSUME inv \in [Keys -> Row], NEW k \in Keys,
         inv[k].status \in {"absent", "in_progress", "failed"},
         inv[k].status = "failed" => k.retry = 0,
         \A n \in Attempts : k = Base(n, "proposer") => inv[SemanticRetry(n)].status = "absent",
         NEW row, row.status = "in_progress", inv' = [inv EXCEPT ![k] = row]
  PROVE  RowsKept /\ NoneCompleted
<1>1. inv'[k] = row /\ \A q \in Keys \ {k} : inv'[q] = inv[q]
  OBVIOUS
<1>2. ASSUME NEW n \in Attempts, inv[SemanticRetry(n)].status = "failed",
             inv[Base(n, "proposer")].status = "failed"
      PROVE  inv'[Base(n, "proposer")].status = "failed"
  <2>1. Base(n, "proposer") # k
    BY <1>2
  <2> QED
    BY <1>1, <1>2, <2>1, OwnKeys
<1>3. RowsKept
  BY <1>1, <1>2 DEF RowsKept
<1> QED
  BY <1>1, <1>3 DEF NoneCompleted

LEMMA FailureRows ==
  ASSUME StateTyped, NEW w \in Workers, NEW failure, wk[w].key \in Keys,
         inv' = PersistFailure(w, failure)
  PROVE  RowsKept /\ NoneCompleted
<1>1. CASE HoldsRow(w)
  <2> DEFINE row == Closed(inv[wk[w].key], "failed", failure)
  <2>1. inv' = [inv EXCEPT ![wk[w].key] = row] /\ inv[wk[w].key].status = "in_progress"
    BY <1>1 DEF PersistFailure, HoldsRow
  <2>2. inv \in [Keys -> Row] /\ inv[wk[w].key] \in Row
    BY DEF StateTyped
  <2>3. row.status = "failed"
    BY <2>2 DEF Closed, Row
  <2> HIDE DEF row
  <2> QED
    BY <2>1, <2>2, <2>3, OpenRowMoves
<1>2. CASE ~ HoldsRow(w)
  BY <1>2, SameRows DEF PersistFailure
<1> QED
  BY <1>1, <1>2

LEMMA StartRows ==
  ASSUME RepairInv, NEW w \in Workers, Start(w)
  PROVE  RowsKept /\ NoneCompleted
<1> DEFINE n == wk[w].att
           role == wk[w].role
           p == IF role = "proposer" THEN ProposePass(n, wk[w].carried) ELSE ReviewPass(n)
           q == EffectivePass(n, role, p)
           verdict == IF RecoverCompleted(n, role, p) = "go" THEN StartVerdict(n, role, p)
                      ELSE RecoverCompleted(n, role, p)
           row == Opened(inv[q.key], q.request)
<1>1. /\ att \in [Attempts -> Attempt]
      /\ inv \in [Keys -> Row] /\ RowsBound
      /\ n \in Attempts /\ role \in Roles /\ wk[w].carried \in Worded \cup {"none"}
  BY DEF RepairInv, AttemptInv, StateTyped, WorkersRead, WorkerReads, WorkerState, Start
<1>2. CASE verdict = "go"
  <2>1. StartVerdict(n, role, p) = "go"
    BY <1>2
  <2>2. inv' = [inv EXCEPT ![q.key] = row]
    BY <1>2 DEF Start
  <2>3. /\ q.key \in Keys /\ q.key.att = n /\ q.key.role = role
        /\ inv[q.key].status \in {"absent", "in_progress", "failed"}
        /\ inv[q.key].status = "failed" => q.key.retry = 0
        /\ role = "proposer" /\ q.key = Base(n, "proposer")
             => inv[SemanticRetry(n)].status = "absent"
    BY <1>1, <2>1, StartFacts
  <2> HIDE DEF n, role, p, q, verdict
  <2>4. \A m \in Attempts : q.key = Base(m, "proposer") => inv[SemanticRetry(m)].status = "absent"
    <3> SUFFICES ASSUME NEW m \in Attempts, q.key = Base(m, "proposer")
                 PROVE  inv[SemanticRetry(m)].status = "absent"
      OBVIOUS
    <3>1. m = n /\ role = "proposer"
      BY <2>3, OwnKeyParts
    <3> QED
      BY <2>3, <3>1
  <2>5. row.status = "in_progress"
    <3>1. inv[q.key] \in Row
      BY <1>1, <2>3
    <3>2. NoRow.version = 0 /\ NoRow \in Row
      BY DEF NoRow, Row, InvocationStatuses, Requests
    <3> QED
      BY <3>1, <3>2 DEF Opened, Inserted, TakenOver, Row
  <2> HIDE DEF row
  <2> QED
    BY <1>1, <2>2, <2>3, <2>4, <2>5, FreeRowMoves
<1>3. CASE verdict # "go"
  <2>1. inv' = inv
    BY <1>3 DEF Start
  <2> QED
    BY <2>1, SameRows
<1> QED
  BY <1>2, <1>3

LEMMA AbandonedRows ==
  ASSUME StateTyped, NEW k \in Keys, Transporting(inv[k]), inv[Successor(k)].status = "absent",
         inv' = Abandon(k)
  PROVE  RowsKept /\ NoneCompleted
<1>1. inv[k] \in Row /\ inv \in [Keys -> Row] /\ inv[k].status = "in_progress"
  BY DEF StateTyped, Transporting
<1> DEFINE row == Closed(inv[k], "uncertain_abandoned", inv[k].failure)
           open == Inserted(inv[k].request)
<1>2. row.status = "uncertain_abandoned"
  BY <1>1 DEF Closed, Row
<1>3. open.status = "in_progress"
  BY <1>1, InsertedRow DEF Row
<1>4. inv' = [inv EXCEPT ![k] = row, ![Successor(k)] = open]
  BY DEF Abandon
<1> HIDE DEF row, open
<1>5. /\ \A q \in Keys \ {k, Successor(k)} : inv'[q] = inv[q]
      /\ \A q \in {k, Successor(k)} \cap Keys :
           inv'[q].status \in {"uncertain_abandoned", "in_progress"}
  BY <1>1, <1>2, <1>3, <1>4
<1>6. \A q \in {k, Successor(k)} : inv[q].status \in {"in_progress", "absent"}
  BY <1>1
<1>7. \A q \in Keys : inv[q].status \in {"failed", "completed"} => inv'[q] = inv[q]
  BY <1>5, <1>6
<1>8. RowsKept
  BY <1>7, OwnKeys DEF RowsKept
<1>9. NoneCompleted
  BY <1>5 DEF NoneCompleted
<1> QED
  BY <1>8, <1>9

\* Only _persist_call completes a row.
LEMMA RowsStep ==
  ASSUME RepairInv, [Next]_vars
  PROVE  /\ RowsKept
         /\ NoneCompleted \/ \E w \in Workers : PersistCall(w)
<1>1. StateTyped /\ CallInv /\ inv \in [Keys -> Row]
  BY DEF RepairInv, StateTyped
<1>2. ASSUME NEW w \in Workers, Working(w)
      PROVE  wk[w].key \in Keys
  BY <1>1, <1>2 DEF CallInv, RowsOpened
<1>3. ASSUME NEW w \in Workers, WorkerStep(w) \/ Crash(w)
      PROVE  /\ RowsKept
             /\ NoneCompleted \/ \E v \in Workers : PersistCall(v)
  <2>1. CASE Start(w)
    BY <2>1, StartRows
  <2>2. CASE MarkTransportStarted(w)
    <3>1. CASE HoldsRow(w) /\ ~ inv[wk[w].key].started
      <4>1. PICK k : k = wk[w].key
        OBVIOUS
      <4>2. k \in Keys /\ inv[k].status = "in_progress" /\ inv[k] \in Row
        BY <1>1, <1>2, <2>2, <3>1, <4>1 DEF MarkTransportStarted, Working, HoldsRow
      <4> DEFINE row == [inv[k] EXCEPT !.started = TRUE, !.version = inv[k].version + 1]
      <4>3. inv' = [inv EXCEPT ![k].started = TRUE, ![k].version = @ + 1]
        BY <2>2, <3>1, <4>1 DEF MarkTransportStarted
      <4>4. inv' = [inv EXCEPT ![k] = row]
        BY <1>1, <4>2, <4>3
      <4>5. row.status # "completed"
        BY <4>2 DEF Row
      <4> HIDE DEF row
      <4> QED
        BY <1>1, <4>2, <4>4, <4>5, OpenRowMoves
    <3>2. CASE ~ (HoldsRow(w) /\ ~ inv[wk[w].key].started)
      BY <2>2, <3>2, SameRows DEF MarkTransportStarted
    <3> QED
      BY <3>1, <3>2
  <2>3. ASSUME Working(w), \E failure : inv' = PersistFailure(w, failure)
        PROVE  RowsKept /\ NoneCompleted
    BY <1>1, <1>2, <2>3, FailureRows
  <2>4. CASE LocalFailure(w) \/ ProviderFailure(w) \/ ProtocolFailure(w) \/ AnswerStale(w)
             \/ ProposalRejected(w) \/ ReviewRejected(w)
    <3>1. Working(w) /\ \E failure : inv' = PersistFailure(w, failure)
      BY <2>4 DEF LocalFailure, ProviderFailure, ProtocolFailure, AnswerStale,
                  ProposalRejected, ReviewRejected, Working
    <3> QED
      BY <2>3, <3>1
  <2>5. CASE OutcomeUnknown(w)
    <3>1. CASE HoldsRow(w)
      <4> DEFINE row == UnknownRow(inv[wk[w].key])
      <4>1. inv' = [inv EXCEPT ![wk[w].key] = row] /\ inv[wk[w].key].status = "in_progress"
        BY <2>5, <3>1 DEF OutcomeUnknown, HoldsRow
      <4>2. wk[w].key \in Keys /\ inv[wk[w].key] \in Row
        BY <1>1, <1>2, <2>5 DEF OutcomeUnknown, Working
      <4>3. row.status # "completed"
        BY <4>1, <4>2 DEF UnknownRow, Row
      <4> HIDE DEF row
      <4> QED
        BY <1>1, <4>1, <4>2, <4>3, OpenRowMoves
    <3>2. CASE ~ HoldsRow(w)
      BY <2>5, <3>2, SameRows DEF OutcomeUnknown
    <3> QED
      BY <3>1, <3>2
  <2>6. CASE PersistCall(w)
    <3> DEFINE row == Closed(inv[wk[w].key], "completed", "none")
    <3>1. inv' = [inv EXCEPT ![wk[w].key] = row] /\ inv[wk[w].key].status = "in_progress"
      BY <2>6 DEF PersistCall, MayPersist, HoldsRow
    <3>2. wk[w].key \in Keys
      BY <1>2, <2>6 DEF PersistCall, Working
    <3> HIDE DEF row
    <3>3. RowsKept
      BY <1>1, <3>1, <3>2, OpenRowMoves
    <3> QED
      BY <2>6, <3>3
  <2>7. CASE ClaimPropose(w) \/ ClaimReview(w) \/ Load(w) \/ PostAgain(w) \/ Answered(w)
             \/ End(w) \/ Crash(w)
    BY <2>7, SameRows DEF ClaimPropose, ClaimReview, Load, PostAgain, Answered, End, Crash
  <2> QED
    BY <1>3, <2>1, <2>2, <2>4, <2>5, <2>6, <2>7 DEF WorkerStep
<1>4. ASSUME NEW n \in Attempts, RecoverUncertain(n)
      PROVE  RowsKept /\ NoneCompleted
  <2>1. CASE RecoverUncertainProposer(n)
    <3>1. PICK k \in Keys : /\ AbandonableProposer(n, k) /\ k.gen < MaxGenerations
                            /\ inv' = Abandon(k)
      BY <2>1 DEF RecoverUncertainProposer
    <3>2. k.role = "proposer" /\ Transporting(inv[k])
      BY <3>1 DEF AbandonableProposer, OpenProposerKeys
    <3>3. Successor(k) \in Keys
      BY <3>1, <3>2, ConstantsAssumption DEF Successor, Keys
    <3>4. inv[Successor(k)].status = "absent"
      BY <1>1, <3>1, <3>3, SuccessorIsNew
    <3> QED
      BY <1>1, <3>1, <3>2, <3>4, AbandonedRows
  <2>2. CASE RecoverUncertainReviewer(n)
    <3> DEFINE k == Base(n, "reviewer")
    <3>1. AbandonableReview(n) /\ Transporting(inv[k]) /\ inv' = Abandon(k)
      BY <2>2 DEF RecoverUncertainReviewer
    <3>2. k \in Keys /\ k.gen = 0 /\ k.att = n
      BY OwnKeys, OwnKeyParts
    <3>3. Successor(k) \in Keys /\ Successor(k).att = n /\ Successor(k).gen > 0
      BY <3>2, ConstantsAssumption DEF Successor, Keys
    <3>4. inv[Successor(k)].status = "absent"
      BY <3>1, <3>3 DEF AbandonableReview, Recovered
    <3> HIDE DEF k
    <3> QED
      BY <1>1, <3>1, <3>2, <3>4, AbandonedRows
  <2> QED
    BY <1>4, <2>1, <2>2 DEF RecoverUncertain
<1>5. CASE \E o \in Operators : RecoverExhausted(o)
  BY <1>5, SameRows DEF RecoverExhausted, RecoverExhaustedRead, RecoverExhaustedWrite
<1>6. CASE Expire \/ Restart \/ RunChange \/ UNCHANGED vars
  BY <1>6, SameRows DEF Expire, Restart, RunChange, vars
<1> QED
  BY <1>3, <1>4, <1>5, <1>6 DEF Next

-----------------------------------------------------------------------------
(* Attempts: what the steps find. *)

LEMMA MaxIs ==
  ASSUME NEW S, S \subseteq Nat, NEW m \in S, \A n \in S : n <= m
  PROVE  Max(S) = m
<1>1. \E x \in S : \A y \in S : x >= y
  OBVIOUS
<1>2. Max(S) = CHOOSE x \in S : \A y \in S : x >= y
  BY DEF Max
<1>3. Max(S) \in S /\ \A y \in S : Max(S) >= y
  BY <1>1, <1>2
<1>4. PICK x : x = Max(S)
  OBVIOUS
<1>5. x \in Nat /\ m \in Nat /\ x >= m /\ x <= m
  BY <1>3, <1>4
<1> QED
  BY <1>4, <1>5

LEMMA NewestFacts ==
  ASSUME att \in [Attempts -> Attempt], NEW m, Newest(m)
  PROVE  /\ m \in Attempts /\ Attempts \subseteq Nat
         /\ \A n \in Attempts : att[n].status \notin {"absent", "superseded"} => n = m
         /\ \A n \in Attempts : att[n].status = "superseded" => n < m
         /\ LatestRepair = m /\ LatestOpenRepair = m
<1>1. m \in Attempts /\ Attempts \subseteq Nat
  BY ConstantsAssumption DEF Newest, Attempts
<1>2. \A n \in Attempts : n < m \/ n = m \/ n > m
  BY <1>1
<1>3. \A n \in Attempts : att[n].status \notin {"absent", "superseded"} => n = m
  BY <1>2 DEF Newest
<1>4. \A n \in Attempts : Exists(n) => n <= m
  BY <1>1, <1>2 DEF Newest, Exists
<1>5. LatestRepair = m
  <2> DEFINE S == {n \in Attempts : Exists(n)}
  <2>1. S \subseteq Nat /\ m \in S /\ \A n \in S : n <= m
    BY <1>1, <1>4 DEF Newest, Exists
  <2> HIDE DEF S
  <2>2. Max(S) = m
    BY <2>1, MaxIs
  <2> QED
    BY <2>2 DEF LatestRepair, S
<1>6. LatestOpenRepair = m
  <2> DEFINE S == {n \in Attempts : att[n].status \notin {"absent", "superseded"}}
  <2>1. S \subseteq Nat /\ m \in S /\ m \in Nat /\ \A n \in S : n = m
    BY <1>1, <1>3 DEF Newest
  <2> HIDE DEF S
  <2>2. \A n \in S : n <= m
    BY <2>1
  <2>3. Max(S) = m
    BY <2>1, <2>2, MaxIs
  <2> QED
    BY <2>3 DEF LatestOpenRepair, S
<1>7. \A n \in Attempts : att[n].status = "superseded" => n < m
  BY <1>2 DEF Newest
<1> QED
  BY <1>1, <1>3, <1>5, <1>6, <1>7

LEMMA SpentKept ==
  ASSUME att \in [Attempts -> Attempt], RowsKept, NEW n \in Attempts,
         att'[n].proposer = att[n].proposer, Spent(n)
  PROVE  Spent(n)'
<1>1. CASE att[n].proposer = NoKey /\ inv[SemanticRetry(n)].status = "failed"
           /\ inv[Base(n, "proposer")].status = "failed"
  BY <1>1, OwnKeys, OwnKeyParts DEF RowsKept, Spent
<1>2. CASE /\ att[n].proposer.gen > 0 /\ att[n].proposer.retry = 1
           /\ inv[att[n].proposer].status = "failed"
  <2>1. att[n].proposer \in Keys
    BY <1>2 DEF Attempt, NoKey
  <2> QED
    BY <1>2, <2>1 DEF RowsKept, Spent
<1> QED
  BY <1>1, <1>2 DEF Spent

\* Nothing is stored for a superseded attempt, and no proposal for one whose retry is spent.
LEMMA PersistFacts ==
  ASSUME RepairInv, NEW w \in Workers, PersistCall(w), NEW n, n = wk[w].att,
         NEW k, k = wk[w].key
  PROVE  /\ n \in Attempts /\ k \in Keys /\ k.att = n /\ k.role = wk[w].role
         /\ att[n] \in Attempt /\ att[n].status \notin {"absent", "superseded"}
         /\ wk[w].role = "reviewer" => HasAnswer(n)
         /\ ~ (att[n].status = "evidence_frozen" /\ Spent(n))
         /\ wk[w].answer \in IF wk[w].role = "proposer" THEN ProposalAnswers ELSE ReviewAnswers
         /\ wk[w].role \in Roles
         /\ inv[k].status = "in_progress" /\ inv'[k].status = "completed"
         /\ \A q \in Keys \ {k} : inv'[q] = inv[q]
<1>1. /\ StateTyped /\ CallInv /\ RowsBound /\ WorkersRead
      /\ inv \in [Keys -> Row] /\ att \in [Attempts -> Attempt]
      /\ wk[w] \in WorkerState
  BY DEF RepairInv, StateTyped, AttemptInv
<1>2. /\ wk[w].pc = "bind" /\ Fresh(w) /\ HoldsRow(w) /\ Working(w)
      /\ inv' = [inv EXCEPT ![k] = Closed(inv[k], "completed", "none")]
  BY DEF PersistCall, MayPersist, Working
<1>3. k \in Keys /\ k.att = n /\ k.role = wk[w].role /\ inv[k].status = "in_progress"
  BY <1>1, <1>2 DEF CallInv, RowsOpened, HoldsRow
<1>4. /\ n \in Attempts /\ Exists(n)
      /\ wk[w].role = "reviewer" => HasAnswer(n)
      /\ OpensCurrent(w)
      /\ wk[w].answer \in IF wk[w].role = "proposer" THEN ProposalAnswers ELSE ReviewAnswers
  BY <1>1, <1>2 DEF WorkersRead, WorkerReads
<1>5. Read(w) = att[n]
  BY <1>2 DEF Fresh, Authority, Read
<1>6. att[n] \in Attempt /\ att[n].status \notin {"absent", "superseded"}
  BY <1>1, <1>4, <1>5 DEF OpensCurrent, Exists
<1>7. inv'[k].status = "completed" /\ \A q \in Keys \ {k} : inv'[q] = inv[q]
  <2>1. inv[k] \in Row
    BY <1>1, <1>3
  <2>2. Closed(inv[k], "completed", "none").status = "completed"
    BY <2>1 DEF Closed, Row
  <2> QED
    BY <1>1, <1>2, <1>3, <2>2
<1>8. ASSUME att[n].status = "evidence_frozen", Spent(n)
      PROVE  FALSE
  <2>1. wk[w].role = "proposer"
    BY <1>1, <1>4, <1>8 DEF HasAnswer, AnsweredStatuses, WorkerState, Roles
  <2>2. /\ k.gen > 0 => k = att[n].proposer
        /\ att[n].proposer.gen > 0 /\ att[n].proposer.retry = 1 => k = att[n].proposer
    BY <1>4, <1>5, <1>8 DEF OpensCurrent
  <2>3. CASE att[n].proposer = NoKey
    <3>1. NoKey.gen = 0
      BY DEF NoKey
    <3>2. inv[SemanticRetry(n)].status = "failed" /\ inv[Base(n, "proposer")].status = "failed"
      BY <1>8, <2>3, <3>1 DEF Spent
    <3>3. k.gen = 0
      <4>1. k.gen \in Nat
        BY <1>3, KeyParts, ConstantsAssumption
      <4> QED
        BY <2>2, <2>3, <3>1, <4>1
    <3>4. k \in {Base(n, "proposer"), SemanticRetry(n)}
      BY <1>3, <1>4, <2>1, <3>3, OwnKeys
    <3> QED
      BY <1>3, <3>2, <3>4
  <2>4. CASE att[n].proposer # NoKey
    BY <1>3, <1>8, <2>2, <2>4 DEF Spent
  <2> QED
    BY <2>3, <2>4
<1> QED
  BY <1>1, <1>3, <1>4, <1>6, <1>7, <1>8 DEF WorkerState

\* No recovered call is abandoned of an attempt whose retry is spent.
LEMMA AbandonFacts ==
  ASSUME RepairInv, NEW n \in Attempts, NEW k \in Keys, AbandonableProposer(n, k),
         att[n].status = "evidence_frozen"
  PROVE  /\ ~ Spent(n) /\ k.att = n /\ k.role = "proposer" /\ Transporting(inv[k])
         /\ att[n].proposer \in {NoKey, k} /\ att[n].proposer.gen = k.gen
<1> DEFINE prior == {q \in Recovered(n) : q.role = "proposer"}
<1>1. /\ k.att = n /\ k.role = "proposer" /\ Transporting(inv[k])
      /\ inv[k].status = "in_progress"
      /\ IF prior = {} THEN att[n].proposer = NoKey
         ELSE att[n].proposer = k /\ k \in prior /\ \A q \in prior : q.gen <= k.gen
  BY DEF AbandonableProposer, OpenProposerKeys
<1>2. k.gen \in Nat /\ NoKey.gen = 0 /\ NoKey \notin Keys
  BY KeyParts, ConstantsAssumption DEF NoKey, Keys, Roles
<1>3. CASE prior = {}
  <2>1. att[n].proposer = NoKey
    BY <1>1, <1>3
  <2>2. k.gen = 0
    BY <1>1, <1>2, <1>3 DEF Recovered
  <2>3. k \in {Base(n, "proposer"), SemanticRetry(n)}
    BY <1>1, <2>2, OwnKeys
  <2> QED
    BY <1>1, <1>2, <2>1, <2>2, <2>3 DEF Spent
<1>4. CASE prior # {}
  BY <1>1, <1>2, <1>4 DEF Spent
<1> QED
  BY <1>3, <1>4

-----------------------------------------------------------------------------
(* Attempts: what the steps do to one. *)

\* The attempt before (a) and after a step (b): answers and the superseded state are final,
\* recoveries raise the generation, and a spent attempt can only be superseded.
Moved(n, a, b) ==
  /\ b \in Attempt
  /\ b.proposer # NoKey => b.proposer.att = n /\ b.proposer.role = "proposer"
  /\ b.reviewer # NoKey => b.reviewer.att = n /\ b.reviewer.role = "reviewer"
  /\ a.status = "superseded" => b = a
  /\ a.status \in AnsweredStatuses => b.status \in AnsweredStatuses
  /\ a.status # "absent" => b.status # "absent"
  /\ a.status # "superseded" /\ b.status = "superseded" =>
       a.status = "evidence_frozen" /\ Spent(n) /\ b.proposer = a.proposer
  /\ b.status = "evidence_frozen" /\ a.status # "absent" =>
       /\ a.status = "evidence_frozen"
       /\ b = a \/ b.proposer.gen > a.proposer.gen
  /\ a.status = "evidence_frozen" /\ Spent(n) =>
       b.proposer = a.proposer /\ b.status \in {"evidence_frozen", "superseded"}

\* Of a worker's steps only the one that stores an answer writes an attempt.
LEMMA OnlyPersistAnswers ==
  ASSUME NEW w \in Workers, WorkerStep(w) \/ Crash(w)
  PROVE  att' = att \/ PersistCall(w)
<1>1. CASE ClaimPropose(w) \/ ClaimReview(w) \/ Load(w) \/ Start(w) \/ MarkTransportStarted(w)
  BY <1>1 DEF ClaimPropose, ClaimReview, Load, Start, MarkTransportStarted
<1>2. CASE LocalFailure(w) \/ PostAgain(w) \/ Answered(w) \/ ProviderFailure(w)
           \/ ProtocolFailure(w) \/ OutcomeUnknown(w)
  BY <1>2 DEF LocalFailure, PostAgain, Answered, ProviderFailure, ProtocolFailure, OutcomeUnknown
<1>3. CASE AnswerStale(w) \/ ProposalRejected(w) \/ ReviewRejected(w) \/ End(w) \/ Crash(w)
  BY <1>3 DEF AnswerStale, ProposalRejected, ReviewRejected, End, Crash
<1> QED
  BY <1>1, <1>2, <1>3 DEF WorkerStep

LEMMA NotMoved ==
  ASSUME att \in [Attempts -> Attempt], RowsBound, NEW n \in Attempts
  PROVE  Moved(n, att[n], att[n])
  BY DEF Moved, RowsBound

\* What _persist_call stores.
LEMMA PersistMoves ==
  ASSUME RepairInv, NEW w \in Workers, PersistCall(w), NEW n, n = wk[w].att,
         NEW k, k = wk[w].key
  PROVE  /\ n \in Attempts /\ \A m \in Attempts \ {n} : att'[m] = att[m]
         /\ Moved(n, att[n], att'[n]) /\ att'[n].status \in AnsweredStatuses
         /\ wk[w].role = "proposer" => att'[n].status = "proposed" /\ att'[n].proposer = k
         /\ wk[w].role = "reviewer" =>
              /\ att[n].status \in AnsweredStatuses
              /\ att'[n].proposer = att[n].proposer /\ att'[n].reviewer = k
              /\ att'[n].status \in {"review_accepted", "request_changes", "reject"}
<1>1. /\ n \in Attempts /\ k \in Keys /\ k.att = n /\ k.role = wk[w].role
      /\ att[n] \in Attempt /\ att[n].status \notin {"absent", "superseded"}
      /\ wk[w].role = "reviewer" => HasAnswer(n)
      /\ ~ (att[n].status = "evidence_frozen" /\ Spent(n))
      /\ wk[w].answer \in IF wk[w].role = "proposer" THEN ProposalAnswers ELSE ReviewAnswers
      /\ wk[w].role \in Roles
  BY PersistFacts
<1>2. /\ att \in [Attempts -> Attempt]
      /\ RowsBound
      /\ att' = [att EXCEPT ![n] = AttemptAnswered(att[n], wk[w].role, k, wk[w].answer)]
      /\ wk[w].answer \notin Rejections
  BY DEF RepairInv, StateTyped, AttemptInv, PersistCall
<1>3. att'[n] = AttemptAnswered(att[n], wk[w].role, k, wk[w].answer)
  BY <1>1, <1>2
<1>4. \A m \in Attempts \ {n} : att'[m] = att[m]
  BY <1>2
<1>5. /\ att[n].reviewer # NoKey => att[n].reviewer.att = n /\ att[n].reviewer.role = "reviewer"
      /\ att[n].proposer # NoKey => att[n].proposer.att = n /\ att[n].proposer.role = "proposer"
  BY <1>1, <1>2 DEF RowsBound
<1>6. CASE wk[w].role = "proposer"
  <2>1. att'[n] = [att[n] EXCEPT !.status = "proposed", !.proposer = k]
    BY <1>3, <1>6 DEF AttemptAnswered
  <2>2. /\ att'[n] \in Attempt /\ att'[n].status = "proposed" /\ att'[n].proposer = k
        /\ att'[n].reviewer = att[n].reviewer
    BY <1>1, <2>1 DEF Attempt, AttemptStatuses
  <2>3. Moved(n, att[n], att'[n])
    BY <1>1, <1>5, <1>6, <2>2 DEF Moved, AnsweredStatuses
  <2> QED
    BY <1>1, <1>4, <1>6, <2>2, <2>3 DEF AnsweredStatuses
<1>7. CASE wk[w].role = "reviewer"
  <2> DEFINE s == IF wk[w].answer = "accept" THEN "review_accepted" ELSE wk[w].answer
  <2>1. att'[n] = [att[n] EXCEPT !.status = s, !.reviewer = k]
    BY <1>3, <1>7 DEF AttemptAnswered
  <2>2. s \in {"review_accepted", "request_changes", "reject"}
    BY <1>1, <1>2, <1>7 DEF ReviewAnswers, Decisions
  <2> HIDE DEF s
  <2>3. /\ att'[n] \in Attempt /\ att'[n].status = s /\ att'[n].reviewer = k
        /\ att'[n].proposer = att[n].proposer
    BY <1>1, <2>1, <2>2 DEF Attempt, AttemptStatuses
  <2>4. att[n].status \in AnsweredStatuses
    BY <1>1, <1>7 DEF HasAnswer
  <2>5. Moved(n, att[n], att'[n])
    BY <1>1, <1>5, <1>7, <2>2, <2>3, <2>4 DEF Moved, AnsweredStatuses
  <2> QED
    BY <1>1, <1>4, <1>7, <2>2, <2>3, <2>4, <2>5 DEF AnsweredStatuses
<1> QED
  BY <1>1, <1>6, <1>7 DEF Roles

\* What abandoning a call does to the attempt.
LEMMA ProposerAbandoned ==
  ASSUME RepairInv, NEW n \in Attempts, RecoverUncertainProposer(n)
  PROVE  /\ \A m \in Attempts \ {n} : att'[m] = att[m]
         /\ Moved(n, att[n], att'[n])
         /\ att[n].status = "evidence_frozen" /\ att'[n].status = "evidence_frozen"
         /\ ~ Spent(n)
         /\ att'[n].proposer \in Keys /\ inv'[att'[n].proposer].status = "in_progress"
<1>1. PICK k \in Keys : /\ AbandonableProposer(n, k) /\ k.gen < MaxGenerations
                        /\ inv' = Abandon(k) /\ att' = [att EXCEPT ![n].proposer = Successor(k)]
  BY DEF RecoverUncertainProposer
<1>2. att[n].status = "evidence_frozen"
  BY DEF RecoverUncertainProposer
<1>3. /\ StateTyped /\ att \in [Attempts -> Attempt] /\ inv \in [Keys -> Row] /\ RowsBound
  BY DEF RepairInv, StateTyped, AttemptInv
<1>4. /\ ~ Spent(n) /\ k.att = n /\ k.role = "proposer" /\ Transporting(inv[k])
      /\ att[n].proposer.gen = k.gen
  BY <1>1, <1>2, AbandonFacts
<1>5. /\ Successor(k) \in Keys /\ Successor(k).att = n /\ Successor(k).role = "proposer"
      /\ Successor(k).gen = k.gen + 1 /\ k.gen \in Nat
  BY <1>1, <1>4, ConstantsAssumption DEF Successor, Keys
<1>6. /\ att'[n] \in Attempt /\ att'[n].status = "evidence_frozen"
      /\ att'[n].proposer = Successor(k) /\ att'[n].reviewer = att[n].reviewer
      /\ \A m \in Attempts \ {n} : att'[m] = att[m]
  BY <1>1, <1>2, <1>3, <1>5 DEF Attempt
<1>7. inv'[Successor(k)].status = "in_progress"
  <2>1. inv[k].request \in Requests
    BY <1>3 DEF Row
  <2>2. Inserted(inv[k].request).status = "in_progress"
    BY <2>1, InsertedRow
  <2>3. inv'[Successor(k)] = Inserted(inv[k].request)
    BY <1>1, <1>3, <1>5 DEF Abandon
  <2> QED
    BY <2>2, <2>3
<1>8. att[n].reviewer # NoKey => att[n].reviewer.att = n /\ att[n].reviewer.role = "reviewer"
  BY <1>3 DEF RowsBound
<1>9. att'[n].proposer.gen > att[n].proposer.gen
  BY <1>4, <1>5, <1>6
<1>10. Moved(n, att[n], att'[n])
  BY <1>2, <1>4, <1>5, <1>6, <1>8, <1>9 DEF Moved, AnsweredStatuses
<1> QED
  BY <1>2, <1>4, <1>5, <1>6, <1>7, <1>10

LEMMA ReviewerAbandoned ==
  ASSUME RepairInv, NEW n \in Attempts, RecoverUncertainReviewer(n)
  PROVE  /\ \A m \in Attempts \ {n} : att'[m] = att[m]
         /\ Moved(n, att[n], att'[n])
         /\ att[n].status = "proposed" /\ att'[n].status = "proposed"
         /\ att'[n].proposer = att[n].proposer
<1> DEFINE k == Base(n, "reviewer")
<1>1. att[n].status = "proposed" /\ att' = [att EXCEPT ![n].reviewer = Successor(k)]
  BY DEF RecoverUncertainReviewer, AbandonableReview
<1>2. att \in [Attempts -> Attempt] /\ RowsBound
  BY DEF RepairInv, StateTyped, AttemptInv
<1>3. k \in Keys /\ k.gen = 0 /\ k.att = n /\ k.role = "reviewer" /\ k.retry = 0
  BY OwnKeys, OwnKeyParts
<1>4. Successor(k) \in Keys /\ Successor(k).att = n /\ Successor(k).role = "reviewer"
  BY <1>3, ConstantsAssumption DEF Successor, Keys
<1> HIDE DEF k
<1>5. /\ att'[n] \in Attempt /\ att'[n].status = "proposed"
      /\ att'[n].proposer = att[n].proposer /\ att'[n].reviewer = Successor(k)
      /\ \A m \in Attempts \ {n} : att'[m] = att[m]
  BY <1>1, <1>2, <1>4 DEF Attempt
<1>6. att[n].proposer # NoKey => att[n].proposer.att = n /\ att[n].proposer.role = "proposer"
  BY <1>2 DEF RowsBound
<1>7. Moved(n, att[n], att'[n])
  BY <1>1, <1>4, <1>5, <1>6 DEF Moved, AnsweredStatuses
<1> QED
  BY <1>1, <1>5, <1>7

\* A request that finds no child supersedes the newest attempt, whose retry is spent.
LEMMA ExhaustedRecovered ==
  ASSUME RepairInv, NEW o \in Operators, RecoverExhaustedWrite(o)
  PROVE  \/ UNCHANGED <<att, cont>>
         \/ \E n \in Attempts :
              /\ Newest(n) /\ Newest(n + 1)' /\ n + 1 \in Attempts /\ Spent(n)
              /\ att[n].status = "evidence_frozen"
              /\ att' = [att EXCEPT ![n].status = "superseded", ![n + 1] = Frozen]
              /\ cont'.node = "propose_repair"
              /\ \A m \in Attempts : Moved(m, att[m], att'[m])
<1>1. /\ att \in [Attempts -> Attempt] /\ RowsBound /\ RequestsRead /\ ChainOfAttempts
      /\ ops[o].pc = "write"
  BY DEF RepairInv, StateTyped, AttemptInv, RecoverExhaustedWrite
<1>2. CASE ChildExists(ops[o].att)
  BY <1>2 DEF RecoverExhaustedWrite
<1>3. CASE ~ ChildExists(ops[o].att)
  <2>1. PICK n : n = ops[o].att
    OBVIOUS
  <2>2. /\ n \in Attempts /\ n + 1 \in Attempts /\ ~ Exists(n + 1)
        /\ att[n].status = "evidence_frozen" /\ Spent(n)
    BY <1>1, <1>3, <2>1 DEF RequestsRead, RequestReads, ChildExists, ChildNumber
  <2>3. PICK m : Newest(m)
    BY <1>1 DEF ChainOfAttempts
  <2>4. m = n /\ Attempts \subseteq Nat
    BY <1>1, <2>2, <2>3, NewestFacts
  <2>5. att' = [att EXCEPT ![n].status = "superseded", ![n + 1] = Frozen]
    BY <1>3, <2>1 DEF RecoverExhaustedWrite, ChildNumber
  <2>6. cont'.node = "propose_repair"
    BY <1>3 DEF RecoverExhaustedWrite
  <2>7. n # n + 1 /\ n \in Nat /\ att[n] \in Attempt
    BY <1>1, <2>2, <2>4
  <2>8. /\ att'[n] = [att[n] EXCEPT !.status = "superseded"] /\ att'[n + 1] = Frozen
        /\ \A q \in Attempts \ {n, n + 1} : att'[q] = att[q]
    BY <1>1, <2>2, <2>5, <2>7
  <2>9. /\ att'[n] \in Attempt /\ att'[n].status = "superseded"
        /\ att'[n].proposer = att[n].proposer /\ att'[n].reviewer = att[n].reviewer
    BY <2>7, <2>8 DEF Attempt, AttemptStatuses
  <2>10. /\ Frozen \in Attempt /\ Frozen.status = "evidence_frozen"
         /\ Frozen.proposer = NoKey /\ Frozen.reviewer = NoKey
    BY DEF Frozen, Attempt, AttemptStatuses
  <2>11. /\ att[n].reviewer # NoKey => att[n].reviewer.att = n /\ att[n].reviewer.role = "reviewer"
         /\ att[n].proposer # NoKey => att[n].proposer.att = n /\ att[n].proposer.role = "proposer"
    BY <1>1, <2>2 DEF RowsBound
  <2>12. Moved(n, att[n], att'[n])
    BY <2>2, <2>9, <2>11 DEF Moved, AnsweredStatuses
  <2>13. Moved(n + 1, att[n + 1], att'[n + 1])
    <3>1. att[n + 1].status = "absent"
      BY <2>2 DEF Exists
    <3> QED
      BY <2>8, <2>10, <3>1 DEF Moved, AnsweredStatuses
  <2>14. \A q \in Attempts : Moved(q, att[q], att'[q])
    BY <1>1, <2>8, <2>12, <2>13, NotMoved
  <2>15. Newest(n + 1)'
    <3>1. \A q \in Attempts : q < n + 1 => q < n \/ q = n
      BY <2>4, <2>7
    <3>2. \A q \in Attempts : q > n + 1 => q > n /\ q # n + 1
      BY <2>4, <2>7
    <3>3. \A q \in Attempts : q < n => q # n /\ q # n + 1
      BY <2>4, <2>7
    <3>4. ASSUME NEW q \in Attempts, q < n + 1
          PROVE  att'[q].status = "superseded"
      <4>1. CASE q = n
        BY <2>9, <4>1
      <4>2. CASE q < n
        <5>1. att'[q] = att[q]
          BY <2>8, <3>3, <4>2
        <5> QED
          BY <2>3, <2>4, <4>2, <5>1 DEF Newest
      <4> QED
        BY <3>1, <3>4, <4>1, <4>2
    <3>5. ASSUME NEW q \in Attempts, q > n + 1
          PROVE  att'[q].status = "absent"
      <4>1. q > n /\ q # n + 1 /\ q # n
        BY <2>4, <2>7, <3>2, <3>5
      <4> QED
        BY <2>3, <2>4, <2>8, <4>1 DEF Newest
    <3> QED
      BY <2>2, <2>8, <2>10, <3>4, <3>5 DEF Newest
  <2> QED
    BY <2>2, <2>3, <2>4, <2>5, <2>6, <2>14, <2>15
<1> QED
  BY <1>2, <1>3

LEMMA AttemptsMoved ==
  ASSUME RepairInv, [Next]_vars
  PROVE  att' \in [Attempts -> Attempt] /\ \A n \in Attempts : Moved(n, att[n], att'[n])
<1>1. att \in [Attempts -> Attempt] /\ RowsBound
  BY DEF RepairInv, StateTyped, AttemptInv
<1>2. ASSUME att' = att
      PROVE  att' \in [Attempts -> Attempt] /\ \A n \in Attempts : Moved(n, att[n], att'[n])
  BY <1>1, <1>2, NotMoved
<1>3. ASSUME NEW n \in Attempts, \A m \in Attempts \ {n} : att'[m] = att[m],
             Moved(n, att[n], att'[n]), \E b : att' = [att EXCEPT ![n] = b]
      PROVE  att' \in [Attempts -> Attempt] /\ \A m \in Attempts : Moved(m, att[m], att'[m])
  <2>1. att'[n] \in Attempt
    BY <1>3 DEF Moved
  <2>2. att' \in [Attempts -> Attempt]
    BY <1>1, <1>3, <2>1
  <2> QED
    BY <1>1, <1>3, <2>2, NotMoved
<1>4. ASSUME NEW w \in Workers, WorkerStep(w) \/ Crash(w)
      PROVE  att' \in [Attempts -> Attempt] /\ \A n \in Attempts : Moved(n, att[n], att'[n])
  <2>1. CASE PersistCall(w)
    <3>1. PICK n : n = wk[w].att
      OBVIOUS
    <3>2. /\ n \in Attempts /\ \A m \in Attempts \ {n} : att'[m] = att[m]
          /\ Moved(n, att[n], att'[n])
      BY <2>1, <3>1, PersistMoves
    <3>3. \E b : att' = [att EXCEPT ![n] = b]
      BY <2>1, <3>1 DEF PersistCall
    <3> QED
      BY <1>3, <3>2, <3>3
  <2>2. CASE ~ PersistCall(w)
    <3>1. att' = att
      BY <1>4, <2>2, OnlyPersistAnswers
    <3> QED
      BY <1>2, <3>1
  <2> QED
    BY <2>1, <2>2
<1>5. ASSUME NEW n \in Attempts, RecoverUncertain(n)
      PROVE  att' \in [Attempts -> Attempt] /\ \A m \in Attempts : Moved(m, att[m], att'[m])
  <2>1. \A m \in Attempts \ {n} : att'[m] = att[m]
    BY <1>5, ProposerAbandoned, ReviewerAbandoned DEF RecoverUncertain
  <2>2. Moved(n, att[n], att'[n])
    BY <1>5, ProposerAbandoned, ReviewerAbandoned DEF RecoverUncertain
  <2>3. \E b : att' = [att EXCEPT ![n] = b]
    BY <1>5 DEF RecoverUncertain, RecoverUncertainProposer, RecoverUncertainReviewer
  <2> QED
    BY <1>3, <2>1, <2>2, <2>3
<1>6. ASSUME NEW o \in Operators, RecoverExhausted(o)
      PROVE  att' \in [Attempts -> Attempt] /\ \A n \in Attempts : Moved(n, att[n], att'[n])
  <2>1. CASE RecoverExhaustedWrite(o)
    <3>1. CASE att' = att
      BY <1>2, <3>1
    <3>2. CASE att' # att
      <4>1. PICK n \in Attempts :
              /\ att' = [att EXCEPT ![n].status = "superseded", ![n + 1] = Frozen]
              /\ \A m \in Attempts : Moved(m, att[m], att'[m])
        BY <2>1, <3>2, ExhaustedRecovered
      <4>2. \A m \in Attempts : att'[m] \in Attempt
        BY <4>1 DEF Moved
      <4> QED
        BY <1>1, <4>1, <4>2
    <3> QED
      BY <3>1, <3>2
  <2>2. CASE \E n \in Attempts : RecoverExhaustedRead(o, n)
    BY <1>2, <2>2 DEF RecoverExhaustedRead
  <2> QED
    BY <1>6, <2>1, <2>2 DEF RecoverExhausted
<1>7. CASE Expire \/ Restart \/ RunChange \/ UNCHANGED vars
  BY <1>2, <1>7 DEF Expire, Restart, RunChange, vars
<1> QED
  BY <1>4, <1>5, <1>6, <1>7 DEF Next

-----------------------------------------------------------------------------
(* Attempts: the invariant's parts. *)

LEMMA BoundStep ==
  ASSUME RepairInv, [Next]_vars
  PROVE  RowsBound'
  BY AttemptsMoved DEF RowsBound, Moved

\* What AnswersBound says of one attempt.
AnswerBound(n) ==
  LET reviewed == {"review_accepted", "request_changes", "reject"}
  IN /\ att[n].status \in reviewed \cup {"proposed"} =>
          att[n].proposer.att = n /\ inv[att[n].proposer].status = "completed"
     /\ att[n].status \in reviewed =>
          att[n].reviewer.att = n /\ inv[att[n].reviewer].status = "completed"
     /\ att[n].proposer # NoKey /\ inv[att[n].proposer].status = "completed" => HasAnswer(n)

LEMMA AnswerByAttempt ==
  ASSUME NEW n \in Attempts, AnswersBound
  PROVE  AnswerBound(n)
  BY DEF AnswersBound, AnswersAreCompleted, AnswerBound

LEMMA AnswersByAttempt ==
  ASSUME \A n \in Attempts : AnswerBound(n)'
  PROVE  AnswersBound'
  BY DEF AnswersBound, AnswersAreCompleted, AnswerBound, HasAnswer

LEMMA OwnedKey ==
  ASSUME att \in [Attempts -> Attempt], NEW n \in Attempts
  PROVE  /\ att[n].proposer.att = n => att[n].proposer \in Keys
         /\ att[n].reviewer.att = n => att[n].reviewer \in Keys
         /\ att[n].proposer # NoKey => att[n].proposer \in Keys
  BY ConstantsAssumption DEF Attempt, Attempts, NoKey

\* The attempt stays as it is, and its proposal's row is not completed.
LEMMA AnswerStays ==
  ASSUME att \in [Attempts -> Attempt], NEW n \in Attempts, AnswerBound(n), RowsKept,
         att'[n] = att[n],
         att[n].proposer # NoKey /\ inv'[att[n].proposer].status = "completed"
           => inv[att[n].proposer].status = "completed"
  PROVE  AnswerBound(n)'
  BY OwnedKey DEF AnswerBound, RowsKept, HasAnswer

LEMMA AnswersStep ==
  ASSUME RepairInv, [Next]_vars
  PROVE  AnswersBound'
<1>1. /\ att \in [Attempts -> Attempt] /\ RowsBound
      /\ \A n \in Attempts : AnswerBound(n)
  BY AnswerByAttempt DEF RepairInv, StateTyped, AttemptInv
<1>2. RowsKept
  BY RowsStep
<1>3. ASSUME NoneCompleted, NEW n \in Attempts, att'[n] = att[n]
      PROVE  AnswerBound(n)'
  BY <1>1, <1>2, <1>3, AnswerStays, OwnedKey DEF NoneCompleted
<1>4. CASE \E w \in Workers : PersistCall(w)
  <2>1. PICK w \in Workers : PersistCall(w)
    BY <1>4
  <2>2. PICK n, k : n = wk[w].att /\ k = wk[w].key
    OBVIOUS
  <2>3. /\ n \in Attempts /\ k \in Keys /\ k.att = n /\ k.role = wk[w].role
        /\ wk[w].role \in Roles
        /\ inv[k].status = "in_progress" /\ inv'[k].status = "completed"
        /\ \A q \in Keys \ {k} : inv'[q] = inv[q]
    BY <2>1, <2>2, PersistFacts
  <2>4. /\ \A m \in Attempts \ {n} : att'[m] = att[m]
        /\ att'[n].status \in AnsweredStatuses
        /\ wk[w].role = "proposer" => att'[n].status = "proposed" /\ att'[n].proposer = k
        /\ wk[w].role = "reviewer" =>
             /\ att[n].status \in AnsweredStatuses
             /\ att'[n].proposer = att[n].proposer /\ att'[n].reviewer = k
             /\ att'[n].status \in {"review_accepted", "request_changes", "reject"}
    BY <2>1, <2>2, PersistMoves
  <2>5. ASSUME NEW m \in Attempts \ {n}
        PROVE  AnswerBound(m)'
    <3>1. att[m].proposer # NoKey => att[m].proposer \in Keys \ {k}
      BY <1>1, <2>3, OwnedKey DEF RowsBound
    <3> QED
      BY <1>1, <1>2, <2>3, <2>4, <3>1, AnswerStays
  <2>6. AnswerBound(n)'
    <3>1. CASE wk[w].role = "proposer"
      BY <2>3, <2>4, <3>1 DEF AnswerBound, HasAnswer
    <3>2. CASE wk[w].role = "reviewer"
      <4>1. att[n].proposer.att = n /\ inv[att[n].proposer].status = "completed"
        BY <1>1, <2>3, <2>4, <3>2 DEF AnswerBound, AnsweredStatuses
      <4>2. inv'[att[n].proposer].status = "completed"
        BY <1>1, <1>2, <2>3, <4>1, OwnedKey DEF RowsKept
      <4> QED
        BY <2>3, <2>4, <3>2, <4>1, <4>2 DEF AnswerBound, HasAnswer
    <3> QED
      BY <2>3, <3>1, <3>2 DEF Roles
  <2> QED
    BY <2>5, <2>6, AnswersByAttempt
<1>5. CASE ~ \E w \in Workers : PersistCall(w)
  <2>1. NoneCompleted
    BY <1>5, RowsStep
  <2>2. CASE att' = att
    BY <1>3, <2>1, <2>2, AnswersByAttempt
  <2>3. ASSUME NEW n \in Attempts, RecoverUncertain(n)
        PROVE  AnswersBound'
    <3>1. \A m \in Attempts \ {n} : att'[m] = att[m]
      BY <2>3, ProposerAbandoned, ReviewerAbandoned DEF RecoverUncertain
    <3>2. AnswerBound(n)'
      <4>1. CASE RecoverUncertainProposer(n)
        BY <4>1, ProposerAbandoned DEF AnswerBound
      <4>2. CASE RecoverUncertainReviewer(n)
        <5>1. /\ att[n].status = "proposed" /\ att'[n].status = "proposed"
              /\ att'[n].proposer = att[n].proposer
          BY <4>2, ReviewerAbandoned
        <5>2. att[n].proposer.att = n /\ inv[att[n].proposer].status = "completed"
          BY <1>1, <5>1 DEF AnswerBound
        <5>3. inv'[att[n].proposer].status = "completed"
          BY <1>1, <1>2, <5>2, OwnedKey DEF RowsKept
        <5> QED
          BY <5>1, <5>2, <5>3 DEF AnswerBound, HasAnswer, AnsweredStatuses
      <4> QED
        BY <2>3, <4>1, <4>2 DEF RecoverUncertain
    <3> QED
      BY <1>3, <2>1, <3>1, <3>2, AnswersByAttempt
  <2>4. ASSUME NEW o \in Operators, RecoverExhaustedWrite(o), att' # att
        PROVE  AnswersBound'
    <3>1. PICK n \in Attempts :
            /\ n + 1 \in Attempts /\ att[n].status = "evidence_frozen" /\ Newest(n) /\ Newest(n + 1)'
            /\ att' = [att EXCEPT ![n].status = "superseded", ![n + 1] = Frozen]
            /\ Moved(n, att[n], att'[n])
      BY <2>4, ExhaustedRecovered
    <3>2. n # n + 1
      BY <1>1, <3>1, NewestFacts
    <3>3. /\ att'[n + 1] = Frozen /\ att'[n] = [att[n] EXCEPT !.status = "superseded"]
          /\ \A m \in Attempts \ {n, n + 1} : att'[m] = att[m]
      BY <1>1, <3>1, <3>2
    <3>4. AnswerBound(n + 1)'
      <4>1. Frozen.status = "evidence_frozen" /\ Frozen.proposer = NoKey
        BY DEF Frozen
      <4> QED
        BY <3>3, <4>1 DEF AnswerBound
    <3>5. AnswerBound(n)'
      <4>1. att[n] \in Attempt
        BY <1>1
      <4>2. att'[n].status = "superseded" /\ att'[n].proposer = att[n].proposer
        BY <3>3, <4>1 DEF Attempt
      <4>3. att[n].proposer = NoKey \/ inv[att[n].proposer].status # "completed"
        BY <1>1, <3>1 DEF AnswerBound, HasAnswer, AnsweredStatuses
      <4>4. att[n].proposer = NoKey \/ inv'[att[n].proposer].status # "completed"
        BY <1>1, <2>1, <4>3, OwnedKey DEF NoneCompleted
      <4> QED
        BY <4>2, <4>4 DEF AnswerBound
    <3> QED
      BY <1>3, <2>1, <3>3, <3>4, <3>5, AnswersByAttempt
  <2>5. CASE Expire \/ Restart \/ RunChange \/ UNCHANGED vars
    BY <2>2, <2>5 DEF Expire, Restart, RunChange, vars
  <2>6. CASE \E w \in Workers : WorkerStep(w) \/ Crash(w)
    BY <1>5, <2>2, <2>6, OnlyPersistAnswers
  <2>7. CASE \E o \in Operators : RecoverExhausted(o)
    BY <2>2, <2>4, <2>7 DEF RecoverExhausted, RecoverExhaustedRead
  <2> QED
    BY <2>3, <2>5, <2>6, <2>7 DEF Next
<1> QED
  BY <1>4, <1>5

LEMMA AttemptCases ==
  ASSUME [Next]_vars
  PROVE  \/ att' = att
         \/ \E w \in Workers : PersistCall(w)
         \/ \E n \in Attempts : RecoverUncertain(n)
         \/ \E o \in Operators : RecoverExhaustedWrite(o)
<1>1. CASE \E w \in Workers : WorkerStep(w) \/ Crash(w)
  BY <1>1, OnlyPersistAnswers
<1>2. CASE Expire \/ Restart \/ RunChange \/ UNCHANGED vars
  BY <1>2 DEF Expire, Restart, RunChange, vars
<1>3. CASE \E o \in Operators : RecoverExhausted(o)
  BY <1>3 DEF RecoverExhausted, RecoverExhaustedRead
<1> QED
  BY <1>1, <1>2, <1>3 DEF Next

LEMMA NewestStays ==
  ASSUME NEW m, Newest(m), NEW n \in Attempts, att[n].status \notin {"absent", "superseded"},
         att'[n].status \notin {"absent", "superseded"},
         \A q \in Attempts \ {n} : att'[q] = att[q], m = n
  PROVE  Newest(m)'
<1>1. Attempts \subseteq Int
  BY ConstantsAssumption DEF Attempts
<1>2. ASSUME NEW q \in Attempts, q < m \/ q > m
      PROVE  att'[q] = att[q]
  <2>1. q \in Int /\ m \in Int
    BY <1>1
  <2>2. q # m
    BY <1>2, <2>1
  <2> QED
    BY <2>2
<1> QED
  BY <1>2 DEF Newest

\* Which attempt is newest changes only when an operator recovers an exhausted one.
LEMMA NewestStep ==
  ASSUME RepairInv, [Next]_vars, NEW m, Newest(m)
  PROVE  \/ Newest(m)'
         \/ /\ Newest(m + 1)' /\ cont'.node = "propose_repair"
            /\ \E o \in Operators : RecoverExhaustedWrite(o)
<1>1. att \in [Attempts -> Attempt]
  BY DEF RepairInv, StateTyped
<1>2. CASE att' = att
  BY <1>2 DEF Newest
<1>3. ASSUME NEW n \in Attempts, att[n].status \notin {"absent", "superseded"},
             att'[n].status \notin {"absent", "superseded"},
             \A q \in Attempts \ {n} : att'[q] = att[q]
      PROVE  Newest(m)'
  <2>1. n = m
    BY <1>1, <1>3, NewestFacts
  <2> QED
    BY <1>3, <2>1, NewestStays
<1>4. CASE \E w \in Workers : PersistCall(w)
  <2>1. PICK w \in Workers : PersistCall(w)
    BY <1>4
  <2>2. PICK n, k : n = wk[w].att /\ k = wk[w].key
    OBVIOUS
  <2>3. n \in Attempts /\ att[n].status \notin {"absent", "superseded"}
    BY <2>1, <2>2, PersistFacts
  <2>4. (\A q \in Attempts \ {n} : att'[q] = att[q]) /\ att'[n].status \in AnsweredStatuses
    BY <2>1, <2>2, PersistMoves
  <2> QED
    BY <1>3, <2>3, <2>4 DEF AnsweredStatuses
<1>5. ASSUME NEW n \in Attempts, RecoverUncertain(n)
      PROVE  Newest(m)'
  <2>1. /\ \A q \in Attempts \ {n} : att'[q] = att[q]
        /\ att[n].status \in {"evidence_frozen", "proposed"}
        /\ att'[n].status \in {"evidence_frozen", "proposed"}
    BY <1>5, ProposerAbandoned, ReviewerAbandoned DEF RecoverUncertain
  <2> QED
    BY <1>3, <2>1
<1>6. ASSUME NEW o \in Operators, RecoverExhaustedWrite(o)
      PROVE  \/ Newest(m)'
             \/ Newest(m + 1)' /\ cont'.node = "propose_repair"
  <2>1. CASE att' = att
    BY <2>1 DEF Newest
  <2>2. CASE att' # att
    <3>1. PICK n \in Attempts : /\ Newest(n) /\ Newest(n + 1)' /\ cont'.node = "propose_repair"
                                /\ att[n].status = "evidence_frozen"
      BY <1>6, <2>2, ExhaustedRecovered
    <3>2. n = m
      BY <1>1, <3>1, NewestFacts
    <3> QED
      BY <3>1, <3>2
  <2> QED
    BY <2>1, <2>2
<1> QED
  BY <1>2, <1>4, <1>5, <1>6, AttemptCases

LEMMA ChainStep ==
  ASSUME RepairInv, [Next]_vars
  PROVE  ChainOfAttempts'
<1>1. att \in [Attempts -> Attempt] /\ ChainOfAttempts
  BY DEF RepairInv, StateTyped, AttemptInv
<1>2. \E m \in Attempts : Newest(m)'
  <2>1. PICK m \in Attempts : Newest(m)
    BY <1>1 DEF ChainOfAttempts
  <2>2. Newest(m)' \/ Newest(m + 1)'
    BY <2>1, NewestStep
  <2>3. Newest(m + 1)' => m + 1 \in Attempts
    BY DEF Newest
  <2> QED
    BY <2>2, <2>3
<1>3. ASSUME NEW n \in Attempts, att'[n].status = "superseded"
      PROVE  Spent(n)'
  <2>1. Moved(n, att[n], att'[n]) /\ RowsKept
    BY AttemptsMoved, RowsStep
  <2>2. Spent(n) /\ att'[n].proposer = att[n].proposer
    BY <1>1, <1>3, <2>1 DEF Moved, ChainOfAttempts
  <2> QED
    BY <1>1, <2>1, <2>2, SpentKept
<1> QED
  BY <1>2, <1>3 DEF ChainOfAttempts

LEMMA RequestsStep ==
  ASSUME RepairInv, [Next]_vars
  PROVE  RequestsRead'
<1>1. /\ att \in [Attempts -> Attempt] /\ RequestsRead /\ Attempts \subseteq Nat
      /\ ops \in [Operators -> Operator]
  BY ConstantsAssumption DEF RepairInv, StateTyped, AttemptInv, Attempts
<1>2. att' \in [Attempts -> Attempt] /\ \A n \in Attempts : Moved(n, att[n], att'[n])
  BY AttemptsMoved
<1>3. ChainOfAttempts' /\ RowsKept
  BY ChainStep, RowsStep
<1>4. ASSUME NEW n, RequestReads(n)
      PROVE  RequestReads(n)'
  <2>0. /\ n \in Attempts /\ n + 1 \in Attempts /\ Exists(n)
        /\ Exists(n + 1) \/ (att[n].status = "evidence_frozen" /\ Spent(n))
    BY <1>4 DEF RequestReads
  <2>1. Moved(n, att[n], att'[n]) /\ Moved(n + 1, att[n + 1], att'[n + 1])
    BY <1>2, <2>0
  <2>2. Exists(n)'
    BY <2>0, <2>1 DEF Moved, Exists
  <2>3. CASE Exists(n + 1)
    BY <2>0, <2>1, <2>2, <2>3 DEF Moved, Exists, RequestReads
  <2>4. CASE att[n].status = "evidence_frozen" /\ Spent(n)
    <3>1. /\ att'[n].proposer = att[n].proposer
          /\ att'[n].status \in {"evidence_frozen", "superseded"}
      BY <2>1, <2>4 DEF Moved
    <3>2. Spent(n)'
      BY <1>1, <1>3, <2>0, <2>4, <3>1, SpentKept
    <3>3. ASSUME att'[n].status = "superseded"
          PROVE  Exists(n + 1)'
      <4>1. PICK m \in Attempts : Newest(m)'
        BY <1>3 DEF ChainOfAttempts
      <4>2. n < m
        <5>1. n < m \/ n = m \/ n > m
          BY <1>1, <2>0
        <5> QED
          BY <2>0, <3>3, <4>1, <5>1 DEF Newest
      <4>3. n + 1 < m \/ n + 1 = m
        BY <1>1, <2>0, <4>2
      <4> QED
        BY <2>0, <4>1, <4>3 DEF Newest, Exists
    <3> QED
      BY <2>0, <2>2, <3>1, <3>2, <3>3 DEF RequestReads
  <2> QED
    BY <2>0, <2>3, <2>4
<1>5. ASSUME NEW o \in Operators, ops'[o] = ops[o], ops'[o].pc = "write"
      PROVE  \E n : ops'[o].att = n /\ RequestReads(n)'
  <2>1. PICK n : n = ops[o].att
    OBVIOUS
  <2>2. RequestReads(n)
    BY <1>1, <1>5, <2>1 DEF RequestsRead
  <2> QED
    BY <1>4, <1>5, <2>1, <2>2
<1>6. ASSUME \A o \in Operators : ops'[o].pc = "write" =>
               \E n : ops'[o].att = n /\ RequestReads(n)'
      PROVE  RequestsRead'
  BY <1>6 DEF RequestsRead, RequestReads
<1>7. CASE ops' = ops
  BY <1>5, <1>6, <1>7
<1>8. ASSUME NEW o \in Operators, RecoverExhausted(o)
      PROVE  RequestsRead'
  <2>1. CASE RecoverExhaustedWrite(o)
    <3>1. ops'[o].pc = "done" /\ \A q \in Operators \ {o} : ops'[q] = ops[q]
      BY <1>1, <2>1 DEF RecoverExhaustedWrite, Operator
    <3> QED
      BY <1>5, <1>6, <3>1
  <2>2. ASSUME NEW n \in Attempts, RecoverExhaustedRead(o, n)
        PROVE  RequestsRead'
    <3>1. /\ ops'[o].att = n /\ \A q \in Operators \ {o} : ops'[q] = ops[q]
          /\ SemanticRecoveryAuthority(n)
      BY <1>1, <2>2 DEF RecoverExhaustedRead
    <3>2. att[n].status = "evidence_frozen" /\ n + 1 \in Attempts /\ Exists(n)
      BY <1>1, <3>1, ConstantsAssumption DEF SemanticRecoveryAuthority, Attempts, Exists
    <3>3. Spent(n)
      BY <3>1, OwnKeyParts DEF SemanticRecoveryAuthority, RetryFailureRecoverable, Spent
    <3>4. RequestReads(n)'
      BY <1>4, <3>2, <3>3 DEF RequestReads
    <3> QED
      BY <1>5, <1>6, <3>1, <3>4
  <2> QED
    BY <1>8, <2>1, <2>2 DEF RecoverExhausted
<1>9. CASE \E w \in Workers : WorkerStep(w) \/ Crash(w)
  <2>1. PICK w \in Workers : WorkerStep(w) \/ Crash(w)
    BY <1>9
  <2>2. CASE ClaimPropose(w) \/ ClaimReview(w) \/ Load(w) \/ Start(w)
             \/ MarkTransportStarted(w) \/ LocalFailure(w) \/ PostAgain(w) \/ Answered(w)
             \/ ProviderFailure(w)
    BY <1>7, <2>2 DEF ClaimPropose, ClaimReview, Load, Start, MarkTransportStarted,
       LocalFailure, PostAgain, Answered, ProviderFailure
  <2>3. CASE ProtocolFailure(w) \/ OutcomeUnknown(w) \/ AnswerStale(w) \/ ProposalRejected(w)
             \/ ReviewRejected(w) \/ PersistCall(w) \/ End(w) \/ Crash(w)
    BY <1>7, <2>3 DEF ProtocolFailure, OutcomeUnknown, AnswerStale, ProposalRejected,
       ReviewRejected, PersistCall, End, Crash
  <2> QED
    BY <2>1, <2>2, <2>3 DEF WorkerStep
<1>10. CASE Expire \/ Restart \/ RunChange \/ UNCHANGED vars
  BY <1>7, <1>10 DEF Expire, Restart, RunChange, vars
<1>11. CASE \E n \in Attempts : RecoverUncertain(n)
  BY <1>7, <1>11 DEF RecoverUncertain, RecoverUncertainProposer, RecoverUncertainReviewer
<1> QED
  BY <1>8, <1>9, <1>10, <1>11 DEF Next

\* A worker goes on with its attempt, whatever becomes of the attempt meanwhile.
LEMMA WorkerGoesOn ==
  ASSUME RepairInv, [Next]_vars, NEW w \in Workers, wk[w].pc # "idle",
         wk'[w].att = wk[w].att, wk'[w].role = wk[w].role,
         Opening(w)' => Opening(w) /\ wk'[w].snap = wk[w].snap,
         Working(w)' => Working(w) /\ wk'[w].key = wk[w].key,
         wk'[w].pc = "bind" =>
           wk'[w].answer \in IF wk[w].role = "proposer" THEN ProposalAnswers ELSE ReviewAnswers,
         wk'[w].pc = "end" /\ wk'[w].answer = "valid" => HasAnswer(wk[w].att)'
  PROVE  WorkerReads(w)'
<1>1. PICK n : n = wk[w].att /\ n = wk'[w].att
  OBVIOUS
<1>2. /\ n \in Attempts /\ att[n].status # "absent"
      /\ wk[w].role = "reviewer" => att[n].status \in AnsweredStatuses
      /\ Opening(w) => SnapshotsAge(w)
      /\ Working(w) => OpensCurrent(w)
  BY <1>1 DEF RepairInv, AttemptInv, WorkersRead, WorkerReads, Exists, HasAnswer
<1>3. /\ Moved(n, att[n], att'[n])
      /\ att \in [Attempts -> Attempt] /\ att[n] \in Attempt /\ att'[n] \in Attempt
  BY <1>2, AttemptsMoved DEF RepairInv, StateTyped
<1>4. /\ att'[n].status # "absent"
      /\ wk'[w].role = "reviewer" => att'[n].status \in AnsweredStatuses
  BY <1>2, <1>3 DEF Moved
<1>5. ASSUME Opening(w)'
      PROVE  SnapshotsAge(w)' /\ wk'[w].snap[3] = wk[w].snap[3] /\ wk[w].snap[3] \in Attempt
  <2>1. PICK read : read = wk[w].snap[3] /\ read = wk'[w].snap[3]
    BY <1>5
  <2>2. /\ wk[w].snap \in Snapshot
        /\ read.status = "superseded" => att[n].status = "superseded"
        /\ att[n].status = "evidence_frozen" /\ read.status = "evidence_frozen"
             => read.proposer.gen <= att[n].proposer.gen
    BY <1>1, <1>2, <1>5, <2>1 DEF SnapshotsAge, Read
  <2>3. read \in Attempt
    BY <2>1, <2>2 DEF Snapshot
  <2>4. \A a \in Attempt : a.proposer.gen \in Nat
    BY KeyParts, ConstantsAssumption DEF Attempt, NoKey
  <2>5. read.status = "superseded" => att'[n].status = "superseded"
    BY <1>3, <2>2 DEF Moved
  <2>6. ASSUME att'[n].status = "evidence_frozen", read.status = "evidence_frozen"
        PROVE  read.proposer.gen <= att'[n].proposer.gen
    <3>1. /\ att[n].status = "evidence_frozen"
          /\ att'[n] = att[n] \/ att'[n].proposer.gen > att[n].proposer.gen
      BY <1>2, <1>3, <2>6 DEF Moved
    <3>2. /\ att[n].proposer.gen \in Nat /\ att'[n].proposer.gen \in Nat
          /\ read.proposer.gen \in Nat
      BY <1>3, <2>3, <2>4
    <3> QED
      BY <2>2, <2>6, <3>1, <3>2
  <2> QED
    BY <1>1, <1>5, <2>1, <2>2, <2>3, <2>5, <2>6 DEF SnapshotsAge, Read
<1>6. ASSUME Working(w)'
      PROVE  OpensCurrent(w)'
  <2>1. Opening(w)' /\ Opening(w) /\ wk'[w].key = wk[w].key
    BY <1>6 DEF Opening, Working
  <2>2. PICK read, k : read = wk[w].snap[3] /\ read = wk'[w].snap[3]
                       /\ k = wk[w].key /\ k = wk'[w].key
    BY <1>5, <2>1
  <2>3. /\ read.status # "superseded"
        /\ read = att[n] /\ read.status = "evidence_frozen"
             => /\ k.gen > 0 => k = att[n].proposer
                /\ att[n].proposer.gen > 0 /\ att[n].proposer.retry = 1 => k = att[n].proposer
    BY <1>1, <1>2, <1>6, <2>2 DEF OpensCurrent, Read
  <2>4. ASSUME read = att'[n], read.status = "evidence_frozen"
        PROVE  att'[n] = att[n]
    <3>1. /\ att[n].status = "evidence_frozen"
          /\ att'[n] = att[n] \/ att'[n].proposer.gen > att[n].proposer.gen
      BY <1>2, <1>3, <2>4 DEF Moved
    <3>2. read.proposer.gen <= att[n].proposer.gen
      BY <1>1, <1>2, <2>1, <2>2, <2>4, <3>1 DEF SnapshotsAge, Read
    <3>3. att[n].proposer.gen \in Nat /\ att'[n].proposer.gen \in Nat
      BY <1>3, KeyParts, ConstantsAssumption DEF Attempt, NoKey
    <3> QED
      BY <2>4, <3>1, <3>2, <3>3
  <2> QED
    BY <1>1, <2>2, <2>3, <2>4 DEF OpensCurrent, Read
<1> QED
  BY <1>1, <1>2, <1>4, <1>5, <1>6 DEF WorkerReads, Exists, HasAnswer

\* A worker that is not at work, or that the step does not touch.
LEMMA OtherReads ==
  ASSUME RepairInv, [Next]_vars, NEW w \in Workers, wk'[w] = wk[w] \/ wk'[w].pc = "idle"
  PROVE  WorkerReads(w)'
<1>1. CASE wk'[w].pc = "idle"
  BY <1>1 DEF WorkerReads
<1>2. CASE wk'[w] = wk[w] /\ wk[w].pc # "idle"
  <2>1. PICK n : n = wk[w].att
    OBVIOUS
  <2>2. WorkerReads(w)
    BY DEF RepairInv, AttemptInv, WorkersRead
  <2>3. n \in Attempts /\ (wk[w].pc = "end" /\ wk[w].answer = "valid" => HasAnswer(n))
    BY <1>2, <2>1, <2>2 DEF WorkerReads
  <2>4. HasAnswer(n) => HasAnswer(n)'
    BY <2>3, AttemptsMoved DEF Moved, HasAnswer
  <2>5. /\ Opening(w)' => Opening(w)
        /\ Working(w)' => Working(w)
    BY <1>2 DEF Opening, Working
  <2>6. wk'[w].pc = "bind" =>
          wk'[w].answer \in IF wk[w].role = "proposer" THEN ProposalAnswers ELSE ReviewAnswers
    BY <1>2, <2>2 DEF WorkerReads
  <2>7. HasAnswer(wk[w].att)' <=> HasAnswer(n)'
    BY <1>2, <2>1 DEF HasAnswer
  <2> QED
    BY <1>2, <2>1, <2>3, <2>4, <2>5, <2>6, <2>7, WorkerGoesOn
<1> QED
  BY <1>1, <1>2

\* A worker that has just picked its attempt.
LEMMA ClaimReads ==
  ASSUME RepairInv, [Next]_vars, NEW w \in Workers, wk'[w].pc = "load", NEW n \in Attempts,
         wk'[w].att = n, Exists(n), wk'[w].role = "reviewer" => HasAnswer(n)
  PROVE  WorkerReads(w)'
<1>1. Moved(n, att[n], att'[n])
  BY AttemptsMoved
<1>2. Exists(n)' /\ (HasAnswer(n) => HasAnswer(n)')
  BY <1>1 DEF Moved, Exists, HasAnswer
<1> QED
  BY <1>2 DEF WorkerReads, Opening, Working, Exists, HasAnswer

LEMMA LoadReads ==
  ASSUME RepairInv, NEW w \in Workers, Load(w)
  PROVE  WorkerReads(w)'
<1>1. PICK n : n = wk[w].att
  OBVIOUS
<1>2. /\ wk \in [Workers -> WorkerState] /\ att \in [Attempts -> Attempt]
      /\ WorkerReads(w) /\ wk[w] \in WorkerState /\ run \in Nat /\ cont.version \in Nat
  BY DEF RepairInv, StateTyped, AttemptInv, WorkersRead, Continuation
<1>3. /\ wk'[w].pc = "start" /\ wk'[w].att = n /\ wk'[w].role = wk[w].role
      /\ wk'[w].snap = Authority(n) /\ att' = att /\ wk[w].pc = "load"
  BY <1>1, <1>2 DEF Load, WorkerState
<1>4. n \in Attempts /\ Exists(n) /\ (wk[w].role = "reviewer" => HasAnswer(n))
  BY <1>1, <1>2, <1>3 DEF WorkerReads
<1>5. Authority(n) \in Snapshot /\ Authority(n)[3] = att[n]
  BY <1>2, <1>4 DEF Authority, Snapshot
<1>6. att[n].proposer.gen \in Nat
  BY <1>2, <1>4, KeyParts, ConstantsAssumption DEF Attempt, NoKey
<1>7. SnapshotsAge(w)'
  BY <1>3, <1>5, <1>6 DEF SnapshotsAge, Read
<1> QED
  BY <1>3, <1>4, <1>7 DEF WorkerReads, Opening, Working, Exists, HasAnswer

\* A replayed proposal is stored.
LEMMA ReplayHasAnswer ==
  ASSUME att \in [Attempts -> Attempt], AnswersBound, RowsBound, NEW n \in Attempts,
         NEW carried \in Worded \cup {"none"},
         NEW p, p = ProposePass(n, carried), NEW q, q = EffectivePass(n, "proposer", p),
         \/ RecoverCompleted(n, "proposer", p) = "replay"
         \/ StartVerdict(n, "proposer", p) = "replay"
  PROVE  HasAnswer(n)
<1>1. p.key \in Keys /\ q.key \in Keys
  BY PassFacts, EffectiveFacts DEF Roles
<1>2. \E k \in Keys : att[n].proposer = k /\ inv[k].status = "completed"
  <2>1. CASE RecoverCompleted(n, "proposer", p) = "replay"
    BY <1>1, <2>1, RecoverVerdicts
  <2>2. CASE StartVerdict(n, "proposer", p) = "replay"
    <3>1. att[n].proposer = q.key /\ inv[q.key].status = "completed"
      BY <2>2, StartVerdicts
    <3> QED
      BY <1>1, <3>1
  <2> QED
    BY <2>1, <2>2
<1>3. att[n].proposer # NoKey
  <2>1. \A k \in Keys : k.role # "none"
    BY KeyParts DEF Roles
  <2> QED
    BY <1>2, <2>1 DEF NoKey
<1> QED
  BY <1>2, <1>3 DEF AnswersBound

LEMMA StartReads ==
  ASSUME RepairInv, NEW w \in Workers, Start(w)
  PROVE  WorkerReads(w)'
<1>1. PICK n, role, carried : n = wk[w].att /\ role = wk[w].role /\ carried = wk[w].carried
  OBVIOUS
<1>2. /\ wk \in [Workers -> WorkerState] /\ att \in [Attempts -> Attempt]
      /\ inv \in [Keys -> Row] /\ RowsBound /\ AnswersBound /\ ChainOfAttempts
      /\ WorkerReads(w) /\ wk[w] \in WorkerState /\ wk[w].pc = "start" /\ att' = att
  BY DEF RepairInv, StateTyped, AttemptInv, WorkersRead, Start
<1>3. /\ n \in Attempts /\ Exists(n) /\ (role = "reviewer" => HasAnswer(n))
      /\ SnapshotsAge(w) /\ role \in Roles /\ carried \in Worded \cup {"none"}
  BY <1>1, <1>2 DEF WorkerReads, WorkerState, Opening
<1>4. PICK p : p = IF role = "proposer" THEN ProposePass(n, carried) ELSE ReviewPass(n)
  OBVIOUS
<1>5. PICK q : q = EffectivePass(n, role, p)
  OBVIOUS
<1>6. PICK verdict : verdict = IF RecoverCompleted(n, role, p) = "go"
                                 THEN StartVerdict(n, role, p) ELSE RecoverCompleted(n, role, p)
  OBVIOUS
<1>7. IF verdict = "go"
        THEN wk' = [wk EXCEPT ![w].pc = "mark", ![w].key = q.key, ![w].count = q.count,
                              ![w].iver = inv[q.key].version + 1]
        ELSE wk' = [wk EXCEPT ![w].pc = "end",
                      ![w].answer = IF verdict = "replay"
                                      THEN IF role = "proposer" THEN "valid" ELSE att[n].status
                                      ELSE verdict]
  BY <1>1, <1>4, <1>5, <1>6 DEF Start
<1>8. CASE verdict = "go"
  <2>1. /\ wk'[w].pc = "mark" /\ wk'[w].key = q.key /\ wk'[w].att = n /\ wk'[w].role = role
        /\ wk'[w].snap = wk[w].snap
    BY <1>1, <1>2, <1>7, <1>8 DEF WorkerState
  <2>2. StartVerdict(n, role, p) = "go"
    BY <1>6, <1>8
  <2>3. role = "proposer" =>
          /\ q.key.gen > 0 => q.key = att[n].proposer
          /\ att[n].proposer.gen > 0 /\ att[n].proposer.retry = 1 => q.key = att[n].proposer
          /\ ~ Spent(n)
    BY <1>2, <1>3, <1>4, <1>5, <2>2, StartFacts
  <2>4. att[n].status \in {"evidence_frozen", "superseded"} => role = "proposer"
    BY <1>3 DEF HasAnswer, AnsweredStatuses, Roles
  <2>5. att[n].status # "superseded"
    BY <1>2, <1>3, <2>3, <2>4 DEF ChainOfAttempts
  <2>6. SnapshotsAge(w)'
    BY <1>1, <1>2, <1>3, <2>1 DEF SnapshotsAge, Read
  <2>7. wk[w].snap[3].status # "superseded"
    BY <1>1, <1>3, <2>5 DEF SnapshotsAge, Read
  <2>8. OpensCurrent(w)'
    BY <1>2, <2>1, <2>3, <2>4, <2>7 DEF OpensCurrent, Read
  <2> QED
    BY <1>2, <1>3, <2>1, <2>6, <2>8 DEF WorkerReads, Opening, Working, Exists, HasAnswer
<1>9. CASE verdict # "go"
  <2> DEFINE answer == IF verdict = "replay"
                         THEN IF role = "proposer" THEN "valid" ELSE att[n].status
                         ELSE verdict
  <2>1. wk' = [wk EXCEPT ![w].pc = "end", ![w].answer = answer]
    BY <1>7, <1>9
  <2>2. ASSUME answer = "valid"
        PROVE  HasAnswer(n)
    <3>1. verdict \in Verdicts
      BY <1>5, <1>6, RecoverVerdicts, StartVerdicts
    <3>2. verdict = "replay"
      BY <2>2, <3>1 DEF Verdicts
    <3>3. att[n].status # "valid"
      BY <1>2, <1>3 DEF Attempt, AttemptStatuses
    <3>4. role = "proposer"
      BY <2>2, <3>2, <3>3
    <3>5. \/ RecoverCompleted(n, "proposer", p) = "replay"
          \/ StartVerdict(n, "proposer", p) = "replay"
      BY <1>6, <3>2, <3>4
    <3>6. p = ProposePass(n, carried) /\ q = EffectivePass(n, "proposer", p)
      BY <1>4, <1>5, <3>4
    <3> QED
      BY <1>2, <1>3, <3>5, <3>6, ReplayHasAnswer
  <2> HIDE DEF answer
  <2>3. wk'[w].pc = "end" /\ wk'[w].att = n /\ wk'[w].role = role /\ wk'[w].answer = answer
    BY <1>1, <1>2, <2>1 DEF WorkerState
  <2> QED
    BY <1>2, <1>3, <2>2, <2>3 DEF WorkerReads, Opening, Working, Exists, HasAnswer
<1> QED
  BY <1>8, <1>9

\* What a step leaves of a worker that fails, or ends its pass, with something else than a
\* stored proposal.
LEMMA FailureReads ==
  ASSUME RepairInv, [Next]_vars, NEW w \in Workers, wk[w].pc # "idle", NEW answer,
         wk' = [wk EXCEPT ![w].pc = "end", ![w].answer = answer], answer # "valid"
  PROVE  WorkerReads(w)'
<1>1. wk \in [Workers -> WorkerState] /\ wk[w] \in WorkerState
  BY DEF RepairInv, StateTyped
<1>2. /\ wk'[w].pc = "end" /\ wk'[w].answer = answer
      /\ wk'[w].att = wk[w].att /\ wk'[w].role = wk[w].role
  BY <1>1 DEF WorkerState
<1> QED
  BY <1>2, WorkerGoesOn DEF Opening, Working

LEMMA WorkerStepReads ==
  ASSUME RepairInv, [Next]_vars, NEW w \in Workers, WorkerStep(w) \/ Crash(w)
  PROVE  WorkerReads(w)' /\ OthersStay(w)
<1>1. /\ wk \in [Workers -> WorkerState] /\ wk[w] \in WorkerState
      /\ att \in [Attempts -> Attempt] /\ ChainOfAttempts /\ ReviewHasProposal
      /\ WorkerReads(w)
  BY DEF RepairInv, StateTyped, AttemptInv, WorkersRead
<1>2. PICK m \in Attempts : Newest(m)
  BY <1>1 DEF ChainOfAttempts
<1>3. LatestRepair = m /\ LatestOpenRepair = m /\ Exists(m)
  BY <1>1, <1>2, NewestFacts DEF Newest, Exists
<1>4. CASE ClaimPropose(w)
  <2>1. /\ wk'[w].pc = "load" /\ wk'[w].att = m /\ wk'[w].role = "proposer"
        /\ OthersStay(w)
    BY <1>1, <1>3, <1>4 DEF ClaimPropose, Idle, OthersStay
  <2> QED
    BY <1>3, <2>1, ClaimReads
<1>5. CASE ClaimReview(w)
  <2>1. HasAnswer(m) /\ wk[w].pc = "idle"
    BY <1>1, <1>2, <1>5 DEF ClaimReview, ReviewHasProposal
  <2>2. CASE wk' = wk
    BY <2>2, OtherReads DEF OthersStay
  <2>3. CASE wk' # wk
    <3>1. wk'[w].pc = "load" /\ wk'[w].att = m /\ OthersStay(w)
      BY <1>1, <1>3, <1>5, <2>3 DEF ClaimReview, Idle, OthersStay
    <3> QED
      BY <1>3, <2>1, <3>1, ClaimReads
  <2> QED
    BY <2>2, <2>3
<1>6. CASE Load(w)
  <2>1. OthersStay(w)
    BY <1>1, <1>6 DEF Load, OthersStay
  <2> QED
    BY <1>6, <2>1, LoadReads
<1>7. CASE Start(w)
  <2>1. OthersStay(w)
    BY <1>1, <1>7 DEF Start, OthersStay
  <2> QED
    BY <1>7, <2>1, StartReads
<1>8. CASE MarkTransportStarted(w)
  <2>1. wk[w].pc = "mark"
    BY <1>8 DEF MarkTransportStarted
  <2>2. CASE wk' = [wk EXCEPT ![w].pc = "end", ![w].answer = "UNCERTAIN"]
    <3>1. OthersStay(w)
      BY <1>1, <2>2 DEF OthersStay
    <3> QED
      BY <2>1, <2>2, <3>1, FailureReads
  <2>3. CASE wk' = [wk EXCEPT ![w].pc = "call", ![w].iver = @ + 1, ![w].posts = 1]
    <3>1. /\ wk'[w].pc = "call" /\ wk'[w].att = wk[w].att /\ wk'[w].role = wk[w].role
          /\ wk'[w].snap = wk[w].snap /\ wk'[w].key = wk[w].key /\ OthersStay(w)
      BY <1>1, <2>3 DEF WorkerState, OthersStay
    <3> QED
      BY <2>1, <3>1, WorkerGoesOn DEF Opening, Working
  <2> QED
    BY <1>8, <2>2, <2>3 DEF MarkTransportStarted
<1>9. CASE LocalFailure(w) \/ ProviderFailure(w) \/ ProtocolFailure(w) \/ ReviewRejected(w)
           \/ OutcomeUnknown(w) \/ AnswerStale(w)
  <2>1. /\ wk[w].pc # "idle"
        /\ \E a \in {"FAILED", "UNCERTAIN", "STALE"} :
             wk' = [wk EXCEPT ![w].pc = "end", ![w].answer = a]
    BY <1>9 DEF LocalFailure, ProviderFailure, ProtocolFailure, ReviewRejected, OutcomeUnknown,
                AnswerStale
  <2>2. OthersStay(w)
    BY <1>1, <2>1 DEF OthersStay
  <2> QED
    BY <2>1, <2>2, FailureReads
<1>10. CASE Answered(w)
  <2>1. PICK a \in IF wk[w].role = "proposer" THEN ProposalAnswers ELSE ReviewAnswers :
          wk' = [wk EXCEPT ![w].pc = "bind", ![w].posts = 0, ![w].answer = a]
    BY <1>10 DEF Answered
  <2>2. wk[w].pc = "call"
    BY <1>10 DEF Answered
  <2>3. /\ wk'[w].pc = "bind" /\ wk'[w].att = wk[w].att /\ wk'[w].role = wk[w].role
        /\ wk'[w].snap = wk[w].snap /\ wk'[w].key = wk[w].key /\ wk'[w].answer = a
        /\ OthersStay(w)
    BY <1>1, <2>1 DEF WorkerState, OthersStay
  <2> QED
    BY <2>1, <2>2, <2>3, WorkerGoesOn DEF Opening, Working
<1>11. CASE ProposalRejected(w)
  <2>1. wk[w].pc = "bind" /\ wk[w].role = "proposer"
    BY <1>11 DEF ProposalRejected
  <2>2. \/ wk'[w].pc = "load"
        \/ wk'[w].pc = "end" /\ wk'[w].answer = "FAILED"
    BY <1>1, <1>11 DEF ProposalRejected, Idle, WorkerState
  <2>3. wk'[w].att = wk[w].att /\ wk'[w].role = wk[w].role /\ OthersStay(w)
    BY <1>1, <1>11, <2>1 DEF ProposalRejected, Idle, WorkerState, OthersStay
  <2> QED
    BY <2>1, <2>2, <2>3, WorkerGoesOn DEF Opening, Working
<1>12. CASE PersistCall(w)
  <2>1. PICK n, k : n = wk[w].att /\ k = wk[w].key
    OBVIOUS
  <2>2. att'[n].status \in AnsweredStatuses
    BY <1>12, <2>1, PersistMoves
  <2>3. /\ wk'[w].pc = "end" /\ wk'[w].att = wk[w].att /\ wk'[w].role = wk[w].role
        /\ wk[w].pc = "bind" /\ OthersStay(w)
    BY <1>1, <1>12 DEF PersistCall, WorkerState, OthersStay
  <2>4. HasAnswer(wk[w].att)'
    BY <2>1, <2>2, <2>3 DEF HasAnswer
  <2> QED
    BY <2>3, <2>4, WorkerGoesOn DEF Opening, Working
<1>13. CASE End(w) \/ Crash(w)
  <2>1. wk'[w].pc = "idle" /\ OthersStay(w)
    BY <1>1, <1>13 DEF End, Crash, Idle, OthersStay
  <2> QED
    BY <2>1, OtherReads
<1>14. CASE PostAgain(w)
  <2>1. GoesOnCalling(w) /\ OthersStay(w)
    BY <1>1, <1>14, CallGoesOn
  <2>2. wk'[w].pc = "call"
    BY <1>1, <1>14 DEF PostAgain, WorkerState
  <2> QED
    BY <2>1, <2>2, WorkerGoesOn DEF GoesOnCalling, Opening, Working
<1> QED
  BY <1>4, <1>5, <1>6, <1>7, <1>8, <1>9, <1>10, <1>11, <1>12, <1>13, <1>14 DEF WorkerStep

LEMMA WorkersStep ==
  ASSUME RepairInv, [Next]_vars
  PROVE  WorkersRead'
<1>1. CASE \E w \in Workers : WorkerStep(w) \/ Crash(w)
  <2>1. PICK w \in Workers : WorkerStep(w) \/ Crash(w)
    BY <1>1
  <2>2. WorkerReads(w)' /\ OthersStay(w)
    BY <2>1, WorkerStepReads
  <2>3. \A v \in Workers \ {w} : WorkerReads(v)'
    BY <2>2, OtherReads DEF OthersStay
  <2> QED
    BY <2>2, <2>3 DEF WorkersRead
<1>2. ASSUME wk' = wk
      PROVE  WorkersRead'
  BY <1>2, OtherReads DEF WorkersRead
<1>3. CASE Expire \/ Restart \/ RunChange \/ UNCHANGED vars
  BY <1>2, <1>3 DEF Expire, Restart, RunChange, vars
<1>4. CASE \E n \in Attempts : RecoverUncertain(n)
  BY <1>2, <1>4 DEF RecoverUncertain, RecoverUncertainProposer, RecoverUncertainReviewer
<1>5. CASE \E o \in Operators : RecoverExhausted(o)
  BY <1>2, <1>5 DEF RecoverExhausted, RecoverExhaustedRead, RecoverExhaustedWrite
<1> QED
  BY <1>1, <1>3, <1>4, <1>5 DEF Next

-----------------------------------------------------------------------------
(* The continuation. *)

LEMMA QueuedIs ==
  ASSUME NEW c \in Continuation, NEW node \in {"propose_repair", "review_repair", "create_g10"}
  PROVE  Queued(c, node) \in Continuation /\ Queued(c, node).node = node
<1>1. c.version + 1 \in Nat
  BY DEF Continuation
<1> QED
  BY <1>1 DEF Queued, Continuation

LEMMA BlockedIs ==
  ASSUME NEW c \in Continuation, NEW code \in Answers
  PROVE  Blocked(c, code) \in Continuation /\ Blocked(c, code).node = c.node
<1>1. c.version + 1 \in Nat
  BY DEF Continuation
<1> QED
  BY <1>1 DEF Blocked, Continuation

LEMMA ClaimedIs ==
  ASSUME cont \in Continuation, NEW w \in Workers
  PROVE  Claimed(w) \in Continuation /\ Claimed(w).node = cont.node
<1>1. cont.version + 1 \in Nat
  BY DEF Continuation
<1> QED
  BY <1>1 DEF Claimed, Continuation

\* Only a worker that has a proposal sends the attempt to its review.
LEMMA NodeStep ==
  ASSUME RepairInv, [Next]_vars
  PROVE  /\ cont' \in Continuation
         /\ cont.node # "review_repair" /\ cont'.node = "review_repair" =>
              \E w \in Workers : End(w) /\ wk[w].answer = "valid"
<1>1. /\ cont \in Continuation /\ wk \in [Workers -> WorkerState] /\ cont.version + 1 \in Nat
      /\ ops \in [Operators -> Operator]
  BY DEF RepairInv, StateTyped, Continuation
<1> DEFINE Goal == /\ cont' \in Continuation
                   /\ cont.node # "review_repair" /\ cont'.node = "review_repair" =>
                        \E w \in Workers : End(w) /\ wk[w].answer = "valid"
<1>2. ASSUME NEW w \in Workers, End(w)
      PROVE  Goal
  <2> DEFINE a == wk[w].answer
  <2>1. a \in Answers
    BY <1>1 DEF WorkerState
  <2>2. \/ cont' = cont
        \/ a = "valid" /\ cont' = Queued(cont, "review_repair")
        \/ cont' = Queued(cont, "create_g10")
        \/ cont' = Blocked(cont, "REVIEW_REJECTED")
        \/ cont' = Blocked(cont, a)
    BY <1>2 DEF End
  <2>3. "REVIEW_REJECTED" \in Answers
    BY DEF Answers, Errors
  <2> HIDE DEF a
  <2>4. CASE cont' = Blocked(cont, "REVIEW_REJECTED") \/ cont' = Blocked(cont, a)
    BY <1>1, <2>1, <2>3, <2>4, BlockedIs
  <2>5. CASE cont' = Queued(cont, "create_g10")
    BY <1>1, <2>5, QueuedIs
  <2>6. CASE a = "valid" /\ cont' = Queued(cont, "review_repair")
    BY <1>1, <1>2, <2>6, QueuedIs DEF a
  <2> QED
    BY <1>1, <2>2, <2>4, <2>5, <2>6
<1>3. ASSUME NEW w \in Workers, ClaimPropose(w) \/ ClaimReview(w)
      PROVE  Goal
  <2>1. \/ cont' = Claimed(w)
        \/ cont' = Queued(Claimed(w), "create_g10")
    BY <1>3 DEF ClaimPropose, ClaimReview
  <2>2. Claimed(w) \in Continuation /\ Claimed(w).node = cont.node
    BY <1>1, ClaimedIs
  <2> QED
    BY <2>1, <2>2, QueuedIs
<1>4. ASSUME cont' = cont
      PROVE  Goal
  BY <1>1, <1>4
<1>5. ASSUME NEW w \in Workers, WorkerStep(w) \/ Crash(w)
      PROVE  Goal
  <2>1. CASE Load(w) \/ Start(w) \/ MarkTransportStarted(w) \/ LocalFailure(w) \/ PostAgain(w)
             \/ Answered(w) \/ ProviderFailure(w) \/ ProtocolFailure(w)
    BY <1>4, <2>1 DEF Load, Start, MarkTransportStarted, LocalFailure, PostAgain, Answered,
       ProviderFailure, ProtocolFailure
  <2>2. CASE OutcomeUnknown(w) \/ AnswerStale(w) \/ ProposalRejected(w) \/ ReviewRejected(w)
             \/ Crash(w)
    BY <1>4, <2>2 DEF OutcomeUnknown, AnswerStale, ProposalRejected, ReviewRejected, Crash
  <2>3. CASE PersistCall(w)
    <3>1. cont' = [cont EXCEPT !.version = cont.version + 1]
      BY <1>1, <2>3 DEF PersistCall
    <3> QED
      BY <1>1, <3>1 DEF Continuation
  <2> QED
    BY <1>2, <1>3, <1>5, <2>1, <2>2, <2>3 DEF WorkerStep
<1>6. CASE Expire \/ Restart
  <2>1. \/ cont' = [cont EXCEPT !.expired = TRUE]
        \/ cont' = [cont EXCEPT !.status = "queued", !.version = cont.version + 1]
    BY <1>1, <1>6 DEF Expire, Restart
  <2> QED
    BY <1>1, <2>1 DEF Continuation
<1>7. CASE RunChange \/ UNCHANGED vars
  BY <1>4, <1>7 DEF RunChange, vars
<1>8. ASSUME NEW n \in Attempts, RecoverUncertain(n)
      PROVE  Goal
  <2>1. PICK node \in {"propose_repair", "review_repair"} :
          cont.node = node /\ cont' = [Queued(cont, node) EXCEPT !.error = "none"]
    BY <1>8 DEF RecoverUncertain, RecoverUncertainProposer, RecoverUncertainReviewer,
                AbandonableReview
  <2>2. Queued(cont, node) \in Continuation /\ Queued(cont, node).node = node
    BY <1>1, QueuedIs
  <2>3. "none" \in Answers
    BY DEF Answers, Errors
  <2>4. cont' \in Continuation /\ cont'.node = node
    BY <2>1, <2>2, <2>3 DEF Continuation
  <2> QED
    BY <2>1, <2>4
<1>9. ASSUME NEW o \in Operators, RecoverExhausted(o)
      PROVE  Goal
  <2>1. CASE cont' = cont
    BY <1>4, <2>1
  <2>2. CASE cont' # cont
    <3>1. cont' = [status |-> "queued", node |-> "propose_repair",
                   version |-> ops[o].version + 1, owner |-> NoWorker,
                   expired |-> FALSE, error |-> "none"]
      BY <1>9, <2>2 DEF RecoverExhausted, RecoverExhaustedRead, RecoverExhaustedWrite
    <3>2. ops[o].version + 1 \in Nat
      BY <1>1 DEF Operator
    <3>3. "none" \in Answers
      BY DEF Answers, Errors
    <3> QED
      BY <3>1, <3>2, <3>3 DEF Continuation
  <2> QED
    BY <2>1, <2>2
<1> QED
  BY <1>5, <1>6, <1>7, <1>8, <1>9 DEF Next

LEMMA ReviewStep ==
  ASSUME RepairInv, [Next]_vars
  PROVE  ReviewHasProposal'
<1> SUFFICES ASSUME cont'.node = "review_repair", NEW m \in Attempts, Newest(m)'
             PROVE  HasAnswer(m)'
  BY DEF ReviewHasProposal
<1>1. /\ att \in [Attempts -> Attempt] /\ ChainOfAttempts /\ ReviewHasProposal /\ WorkersRead
      /\ att' \in [Attempts -> Attempt]
      /\ \A n \in Attempts : Moved(n, att[n], att'[n])
  BY AttemptsMoved DEF RepairInv, StateTyped, AttemptInv
<1>2. \A n \in Attempts : att'[n].status \notin {"absent", "superseded"} => n = m
  <2>1. \A n \in Attempts : n < m \/ n = m \/ n > m
    BY ConstantsAssumption DEF Attempts
  <2> QED
    BY <2>1 DEF Newest
<1>3. \A n \in Attempts : HasAnswer(n) => HasAnswer(n)'
  BY <1>1 DEF Moved, HasAnswer
<1>4. \A n \in Attempts : HasAnswer(n) => HasAnswer(m)'
  BY <1>2, <1>3 DEF HasAnswer, AnsweredStatuses
<1>5. CASE cont.node = "review_repair"
  <2>1. PICK n \in Attempts : Newest(n)
    BY <1>1 DEF ChainOfAttempts
  <2> QED
    BY <1>1, <1>4, <1>5, <2>1 DEF ReviewHasProposal
<1>6. CASE cont.node # "review_repair"
  <2>1. PICK w \in Workers : End(w) /\ wk[w].answer = "valid"
    BY <1>6, NodeStep
  <2>2. WorkerReads(w) /\ wk[w].pc = "end"
    BY <1>1, <2>1 DEF WorkersRead, End
  <2> QED
    BY <1>4, <2>1, <2>2 DEF WorkerReads
<1> QED
  BY <1>5, <1>6

-----------------------------------------------------------------------------
(* What the variables hold, after a step. *)

LEMMA RowIs ==
  ASSUME NEW row \in Row
  PROVE  /\ UnknownRow(row) \in Row
         /\ \A request \in Requests : Opened(row, request) \in Row
         /\ \A status \in InvocationStatuses, failure \in Failures \cup {"none"} :
              Closed(row, status, failure) \in Row
<1>1. row.version + 1 \in Nat
  BY DEF Row
<1>2. NoRow \in Row /\ NoRow.version = 0
  BY DEF NoRow, Row, InvocationStatuses, Requests
<1>3. UnknownRow(row) \in Row
  BY <1>1 DEF UnknownRow, Row
<1>4. ASSUME NEW request \in Requests
      PROVE  Opened(row, request) \in Row
  BY <1>1, <1>2 DEF Opened, Inserted, TakenOver, Row, InvocationStatuses
<1>5. ASSUME NEW status \in InvocationStatuses, NEW failure \in Failures \cup {"none"}
      PROVE  Closed(row, status, failure) \in Row
  BY <1>1 DEF Closed, Row
<1> QED
  BY <1>3, <1>4, <1>5

LEMMA FailureTyped ==
  ASSUME inv \in [Keys -> Row], NEW w \in Workers, wk[w].key \in Keys,
         NEW failure \in Failures, inv' = PersistFailure(w, failure)
  PROVE  inv' \in [Keys -> Row]
<1>1. Closed(inv[wk[w].key], "failed", failure) \in Row
  BY RowIs DEF InvocationStatuses
<1> QED
  BY <1>1 DEF PersistFailure

LEMMA EndTyped ==
  ASSUME wk \in [Workers -> WorkerState], NEW w \in Workers, NEW answer \in Answers,
         NEW pc \in {"bind", "end"}, wk' = [wk EXCEPT ![w].pc = pc, ![w].answer = answer]
  PROVE  wk' \in [Workers -> WorkerState]
<1> DEFINE state == [wk[w] EXCEPT !.pc = pc, !.answer = answer]
<1>1. state \in WorkerState
  BY DEF WorkerState
<1>2. wk' = [wk EXCEPT ![w] = state]
  OBVIOUS
<1> HIDE DEF state
<1> QED
  BY <1>1, <1>2

LEMMA StartTyped ==
  ASSUME RepairInv, NEW w \in Workers, Start(w)
  PROVE  inv' \in [Keys -> Row] /\ wk' \in [Workers -> WorkerState]
<1>1. PICK n, role, carried : n = wk[w].att /\ role = wk[w].role /\ carried = wk[w].carried
  OBVIOUS
<1>2. /\ wk \in [Workers -> WorkerState] /\ att \in [Attempts -> Attempt]
      /\ inv \in [Keys -> Row] /\ RowsBound
      /\ wk[w] \in WorkerState /\ wk[w].pc = "start" /\ WorkerReads(w)
  BY DEF RepairInv, StateTyped, AttemptInv, WorkersRead, Start
<1>3. /\ n \in Attempts /\ role \in Roles /\ carried \in Worded \cup {"none"}
  BY <1>1, <1>2 DEF WorkerReads, WorkerState
<1>4. PICK p : p = IF role = "proposer" THEN ProposePass(n, carried) ELSE ReviewPass(n)
  OBVIOUS
<1>5. PICK q : q = EffectivePass(n, role, p)
  OBVIOUS
<1>6. PICK verdict : verdict = IF RecoverCompleted(n, role, p) = "go"
                                 THEN StartVerdict(n, role, p) ELSE RecoverCompleted(n, role, p)
  OBVIOUS
<1>7. PICK answer : answer = IF verdict = "replay"
                               THEN IF role = "proposer" THEN "valid" ELSE att[n].status
                               ELSE verdict
  OBVIOUS
<1>8. IF verdict = "go"
        THEN /\ inv' = [inv EXCEPT ![q.key] = Opened(inv[q.key], q.request)]
             /\ wk' = [wk EXCEPT ![w].pc = "mark", ![w].key = q.key, ![w].count = q.count,
                                 ![w].iver = inv[q.key].version + 1]
        ELSE wk' = [wk EXCEPT ![w].pc = "end", ![w].answer = answer] /\ inv' = inv
  BY <1>1, <1>4, <1>5, <1>6, <1>7 DEF Start
<1>9. q.key \in Keys /\ q.count \in 0 .. 1 /\ q.request \in Requests
  BY <1>2, <1>3, <1>4, <1>5, EffectiveFacts
<1>10. CASE verdict = "go"
  <2>1. inv[q.key] \in Row /\ Opened(inv[q.key], q.request) \in Row
    BY <1>2, <1>9, RowIs
  <2>2. inv[q.key].version + 1 \in Nat
    BY <2>1 DEF Row
  <2> DEFINE state == [wk[w] EXCEPT !.pc = "mark", !.key = q.key, !.count = q.count,
                                    !.iver = inv[q.key].version + 1]
  <2>3. state \in WorkerState
    BY <1>2, <1>9, <2>2 DEF WorkerState
  <2>4. wk' = [wk EXCEPT ![w] = state]
    BY <1>2, <1>8, <1>10
  <2> HIDE DEF state
  <2> QED
    BY <1>2, <1>8, <1>9, <1>10, <2>1, <2>3, <2>4
<1>11. CASE verdict # "go"
  <2>1. verdict \in Verdicts
    BY <1>5, <1>6, RecoverVerdicts, StartVerdicts
  <2>2. att[n].status \in AttemptStatuses
    BY <1>2, <1>3 DEF Attempt
  <2>3. answer \in Answers
    BY <1>7, <1>11, <2>1, <2>2 DEF Answers, Verdicts, Errors
  <2>4. wk' \in [Workers -> WorkerState]
    BY <1>2, <1>8, <1>11, <2>3, EndTyped
  <2> QED
    BY <1>2, <1>8, <1>11, <2>4
<1> QED
  BY <1>10, <1>11

LEMMA IdleTyped == Idle \in WorkerState
  BY DEF Idle, WorkerState, Roles, Answers, Errors

\* A worker that fails.
LEMMA FailedTyped ==
  ASSUME RepairInv, NEW w \in Workers, Working(w), NEW failure \in Failures,
         inv' = PersistFailure(w, failure), NEW answer \in {"FAILED", "STALE"},
         wk' = [wk EXCEPT ![w].pc = "end", ![w].answer = answer]
  PROVE  inv' \in [Keys -> Row] /\ wk' \in [Workers -> WorkerState]
<1>1. /\ wk \in [Workers -> WorkerState] /\ inv \in [Keys -> Row] /\ wk[w].key \in Keys
  BY DEF RepairInv, StateTyped, CallInv, RowsOpened
<1>2. answer \in Answers
  BY DEF Answers, Errors
<1> QED
  BY <1>1, <1>2, EndTyped, FailureTyped

LEMMA CountsTyped ==
  ASSUME StateTyped
  PROVE  /\ Faulted \in [faults : Nat, restarts : Nat]
         /\ [budget EXCEPT !.restarts = @ + 1] \in [faults : Nat, restarts : Nat]
         /\ run + 1 \in Nat
         /\ \A k \in Keys : /\ [calls EXCEPT ![k].count = @ + 1] \in [Keys -> Call]
                            /\ [calls EXCEPT ![k].lost = TRUE] \in [Keys -> Call]
<1>1. budget.faults + 1 \in Nat /\ budget.restarts + 1 \in Nat /\ run + 1 \in Nat
  BY DEF StateTyped
<1>2. /\ Faulted = [budget EXCEPT !.faults = budget.faults + 1]
      /\ [budget EXCEPT !.restarts = @ + 1] = [budget EXCEPT !.restarts = budget.restarts + 1]
  BY DEF StateTyped, Faulted
<1>3. ASSUME NEW k \in Keys
      PROVE  /\ [calls EXCEPT ![k].count = @ + 1] \in [Keys -> Call]
             /\ [calls EXCEPT ![k].lost = TRUE] \in [Keys -> Call]
  <2>1. calls \in [Keys -> Call] /\ calls[k] \in Call /\ calls[k].count + 1 \in Nat
    BY DEF StateTyped, Call
  <2>2. /\ [calls[k] EXCEPT !.count = calls[k].count + 1] \in Call
        /\ [calls[k] EXCEPT !.lost = TRUE] \in Call
    BY <2>1 DEF Call
  <2> QED
    BY <2>1, <2>2
<1> QED
  BY <1>1, <1>2, <1>3 DEF StateTyped

LEMMA WorkerStepTyped ==
  ASSUME RepairInv, NEW w \in Workers, WorkerStep(w) \/ Crash(w)
  PROVE  /\ inv' \in [Keys -> Row] /\ wk' \in [Workers -> WorkerState]
         /\ calls' \in [Keys -> Call] /\ run' \in Nat
         /\ budget' \in [faults : Nat, restarts : Nat] /\ ops' = ops
<1>1. /\ StateTyped /\ wk \in [Workers -> WorkerState] /\ wk[w] \in WorkerState
      /\ inv \in [Keys -> Row] /\ att \in [Attempts -> Attempt] /\ calls \in [Keys -> Call]
      /\ run \in Nat /\ budget \in [faults : Nat, restarts : Nat]
      /\ ChainOfAttempts /\ WorkerReads(w) /\ cont.version \in Nat
      /\ Working(w) => wk[w].key \in Keys
  BY DEF RepairInv, StateTyped, AttemptInv, WorkersRead, Continuation, CallInv, RowsOpened
<1>2. LatestRepair \in Attempts /\ LatestOpenRepair \in Attempts
  BY <1>1, NewestFacts DEF ChainOfAttempts
<1>3. CASE ClaimPropose(w) \/ ClaimReview(w)
  <2>1. \A n \in Attempts : /\ [Idle EXCEPT !.pc = "load", !.att = n] \in WorkerState
                            /\ [Idle EXCEPT !.pc = "load", !.att = n, !.role = "reviewer"]
                                 \in WorkerState
    BY IdleTyped DEF WorkerState, Roles
  <2>2. \/ wk' = wk
        \/ wk' = [wk EXCEPT ![w] = [Idle EXCEPT !.pc = "load", !.att = LatestOpenRepair]]
        \/ wk' = [wk EXCEPT ![w] = [Idle EXCEPT !.pc = "load", !.att = LatestRepair,
                                                !.role = "reviewer"]]
    BY <1>3 DEF ClaimPropose, ClaimReview
  <2>3. wk' \in [Workers -> WorkerState]
    BY <1>1, <1>2, <2>1, <2>2
  <2> QED
    BY <1>1, <1>3, <2>3 DEF ClaimPropose, ClaimReview
<1>4. CASE Load(w)
  <2>1. wk[w].att \in Attempts
    BY <1>1, <1>4 DEF WorkerReads, Load
  <2>2. Authority(wk[w].att) \in Snapshot
    BY <1>1, <2>1 DEF Authority, Snapshot
  <2>3. [wk[w] EXCEPT !.pc = "start", !.snap = Authority(wk[w].att)] \in WorkerState
    BY <1>1, <2>2 DEF WorkerState
  <2>4. wk' = [wk EXCEPT ![w] = [wk[w] EXCEPT !.pc = "start", !.snap = Authority(wk[w].att)]]
    BY <1>1, <1>4 DEF Load
  <2>5. wk' \in [Workers -> WorkerState]
    BY <1>1, <2>3, <2>4
  <2> QED
    BY <1>1, <1>4, <2>5 DEF Load
<1>5. CASE Start(w)
  BY <1>1, <1>5, StartTyped DEF Start
<1>6. CASE MarkTransportStarted(w)
  <2>1. wk[w].key \in Keys
    BY <1>1, <1>6 DEF MarkTransportStarted, Working
  <2>2. CASE wk' = [wk EXCEPT ![w].pc = "end", ![w].answer = "UNCERTAIN"] /\ inv' = inv
             /\ calls' = calls
    <3>1. "UNCERTAIN" \in Answers
      BY DEF Answers, Errors
    <3> QED
      BY <1>1, <1>6, <2>2, <3>1, EndTyped DEF MarkTransportStarted
  <2>3. ASSUME NEW k \in Keys,
               inv' = [inv EXCEPT ![k].started = TRUE, ![k].version = @ + 1]
        PROVE  inv' \in [Keys -> Row]
    <3>1. inv[k] \in Row /\ inv[k].version + 1 \in Nat
      BY <1>1 DEF Row
    <3>2. [inv[k] EXCEPT !.started = TRUE, !.version = inv[k].version + 1] \in Row
      BY <3>1 DEF Row
    <3>3. inv' = [inv EXCEPT ![k] = [inv[k] EXCEPT !.started = TRUE,
                                                   !.version = inv[k].version + 1]]
      BY <1>1, <2>3, <3>1
    <3> QED
      BY <1>1, <3>2, <3>3
  <2>4. CASE /\ inv' = [inv EXCEPT ![wk[w].key].started = TRUE, ![wk[w].key].version = @ + 1]
             /\ calls' = [calls EXCEPT ![wk[w].key].count = @ + 1]
             /\ wk' = [wk EXCEPT ![w].pc = "call", ![w].iver = @ + 1, ![w].posts = 1]
    <3>1. wk[w].iver + 1 \in Nat
      BY <1>1 DEF WorkerState
    <3>2. [wk[w] EXCEPT !.pc = "call", !.iver = wk[w].iver + 1, !.posts = 1] \in WorkerState
      BY <1>1, <3>1 DEF WorkerState
    <3>3. wk' = [wk EXCEPT ![w] = [wk[w] EXCEPT !.pc = "call", !.iver = wk[w].iver + 1,
                                                !.posts = 1]]
      BY <1>1, <2>4
    <3>4. wk' \in [Workers -> WorkerState]
      BY <1>1, <3>2, <3>3
    <3>5. calls' \in [Keys -> Call]
      BY <1>1, <2>1, <2>4, CountsTyped
    <3>6. inv' \in [Keys -> Row]
      BY <2>1, <2>3, <2>4
    <3> QED
      BY <1>1, <1>6, <3>4, <3>5, <3>6 DEF MarkTransportStarted
  <2> QED
    BY <1>6, <2>2, <2>4 DEF MarkTransportStarted
<1>7. CASE LocalFailure(w) \/ ProviderFailure(w) \/ ProtocolFailure(w) \/ AnswerStale(w)
           \/ ReviewRejected(w)
  <2>1. Rejections \subseteq Failures
    BY ConstantsAssumption DEF Failures
  <2>2. /\ Working(w) /\ \E failure \in Failures : inv' = PersistFailure(w, failure)
        /\ \E a \in {"FAILED", "STALE"} : wk' = [wk EXCEPT ![w].pc = "end", ![w].answer = a]
    BY <1>7, <2>1 DEF LocalFailure, ProviderFailure, ProtocolFailure, AnswerStale,
                      ReviewRejected, Working, Failures
  <2>3. calls' = calls /\ run' = run /\ budget' = budget /\ ops' = ops
    BY <1>7 DEF LocalFailure, ProviderFailure, ProtocolFailure, AnswerStale, ReviewRejected
  <2> QED
    BY <1>1, <2>2, <2>3, FailedTyped
<1>8. CASE Answered(w)
  <2>1. ProposalAnswers \subseteq Answers /\ ReviewAnswers \subseteq Answers
    BY ConstantsAssumption DEF ProposalAnswers, ReviewAnswers, Answers, Failures, Worded
  <2>2. PICK a \in Answers : wk' = [wk EXCEPT ![w].pc = "bind", ![w].posts = 0, ![w].answer = a]
    BY <1>8, <2>1 DEF Answered
  <2>3. wk' \in [Workers -> WorkerState]
    <3>1. [wk[w] EXCEPT !.pc = "bind", !.posts = 0, !.answer = a] \in WorkerState
      BY <1>1 DEF WorkerState
    <3>2. wk' = [wk EXCEPT ![w] = [wk[w] EXCEPT !.pc = "bind", !.posts = 0, !.answer = a]]
      BY <1>1, <2>2
    <3> QED
      BY <1>1, <3>1, <3>2
  <2> QED
    BY <1>1, <1>8, <2>3 DEF Answered
<1>9. CASE OutcomeUnknown(w)
  <2>1. wk[w].key \in Keys
    BY <1>1, <1>9 DEF OutcomeUnknown, Working
  <2>2. UnknownRow(inv[wk[w].key]) \in Row
    BY <1>1, <2>1, RowIs
  <2>3. inv' \in [Keys -> Row]
    BY <1>1, <1>9, <2>1, <2>2 DEF OutcomeUnknown
  <2>4. \E a \in Answers : wk' = [wk EXCEPT ![w].pc = "end", ![w].answer = a]
    BY <1>9 DEF OutcomeUnknown, Answers, Errors
  <2>5. wk' \in [Workers -> WorkerState]
    BY <1>1, <2>4, EndTyped
  <2>6. calls' \in [Keys -> Call] /\ budget' \in [faults : Nat, restarts : Nat]
    BY <1>1, <1>9, <2>1, CountsTyped DEF OutcomeUnknown
  <2> QED
    BY <1>1, <1>9, <2>3, <2>5, <2>6 DEF OutcomeUnknown
<1>10. CASE ProposalRejected(w)
  <2>1. wk[w].key \in Keys /\ wk[w].answer \in Failures
    BY <1>1, <1>10, ConstantsAssumption DEF ProposalRejected, Working, Failures
  <2>2. inv' \in [Keys -> Row]
    BY <1>1, <1>10, <2>1, FailureTyped DEF ProposalRejected
  <2> DEFINE again == [Idle EXCEPT !.pc = "load", !.att = wk[w].att, !.carried = wk[w].answer]
             failed == [wk[w] EXCEPT !.pc = "end", !.answer = "FAILED"]
  <2>3. wk' = [wk EXCEPT ![w] = IF wk[w].answer \in Worded /\ wk[w].count = 0
                                  THEN again ELSE failed]
    BY <1>10 DEF ProposalRejected
  <2>4. wk[w].answer \in Worded => again \in WorkerState
    BY <1>1, IdleTyped DEF WorkerState
  <2>5. failed \in WorkerState
    BY <1>1 DEF WorkerState, Answers, Errors
  <2> HIDE DEF again, failed
  <2>6. wk' \in [Workers -> WorkerState]
    BY <1>1, <2>3, <2>4, <2>5
  <2> QED
    BY <1>1, <1>10, <2>2, <2>6 DEF ProposalRejected
<1>11. CASE PersistCall(w)
  <2>1. PICK n, k : n = wk[w].att /\ k = wk[w].key
    OBVIOUS
  <2>2. n \in Attempts /\ k \in Keys
    BY <1>11, <2>1, PersistFacts
  <2>3. att'[n] \in Attempt
    BY <1>11, <2>1, PersistMoves DEF Moved
  <2>4. \E a \in Answers : wk' = [wk EXCEPT ![w].pc = "end", ![w].answer = a]
    BY <1>11, <2>1, <2>3 DEF PersistCall, Answers, Attempt
  <2>5. wk' \in [Workers -> WorkerState]
    BY <1>1, <2>4, EndTyped
  <2>6. Closed(inv[k], "completed", "none") \in Row
    BY <1>1, <2>2, RowIs DEF InvocationStatuses
  <2>7. inv' = [inv EXCEPT ![k] = Closed(inv[k], "completed", "none")]
    BY <1>11, <2>1 DEF PersistCall
  <2>8. inv' \in [Keys -> Row]
    BY <1>1, <2>6, <2>7
  <2> QED
    BY <1>1, <1>11, <2>5, <2>8, CountsTyped DEF PersistCall
<1>12. CASE End(w) \/ Crash(w)
  <2>1. wk' \in [Workers -> WorkerState]
    BY <1>1, <1>12, IdleTyped DEF End, Crash
  <2>2. calls' \in [Keys -> Call] /\ budget' \in [faults : Nat, restarts : Nat]
    BY <1>1, <1>12, CountsTyped DEF End, Crash, Working
  <2> QED
    BY <1>1, <1>12, <2>1, <2>2 DEF End, Crash
<1>13. CASE PostAgain(w)
  <2>1. wk[w].posts + 1 \in Nat
    BY <1>1 DEF WorkerState
  <2>2. [wk[w] EXCEPT !.posts = wk[w].posts + 1] \in WorkerState
    BY <1>1, <2>1 DEF WorkerState
  <2>3. wk' = [wk EXCEPT ![w] = [wk[w] EXCEPT !.posts = wk[w].posts + 1]]
    BY <1>1, <1>13 DEF PostAgain
  <2>4. wk' \in [Workers -> WorkerState]
    BY <1>1, <2>2, <2>3
  <2> QED
    BY <1>1, <1>13, <2>4 DEF PostAgain
<1> QED
  BY <1>3, <1>4, <1>5, <1>6, <1>7, <1>8, <1>9, <1>10, <1>11, <1>12, <1>13 DEF WorkerStep

LEMMA AbandonTyped ==
  ASSUME inv \in [Keys -> Row], NEW k \in Keys, inv' = Abandon(k)
  PROVE  inv' \in [Keys -> Row]
<1>1. /\ Closed(inv[k], "uncertain_abandoned", inv[k].failure) \in Row
      /\ Inserted(inv[k].request) \in Row
  <2>1. inv[k] \in Row
    OBVIOUS
  <2>2. inv[k].request \in Requests /\ inv[k].failure \in Failures \cup {"none"}
    BY <2>1 DEF Row
  <2> QED
    BY <2>1, <2>2, RowIs, InsertedRow DEF InvocationStatuses
<1> QED
  BY <1>1 DEF Abandon

LEMMA TypeStep ==
  ASSUME RepairInv, [Next]_vars
  PROVE  StateTyped'
<1>1. /\ StateTyped /\ wk \in [Workers -> WorkerState] /\ inv \in [Keys -> Row]
      /\ calls \in [Keys -> Call] /\ run \in Nat /\ budget \in [faults : Nat, restarts : Nat]
      /\ ops \in [Operators -> Operator] /\ cont.version \in Nat
  BY DEF RepairInv, StateTyped, Continuation
<1>2. cont' \in Continuation /\ att' \in [Attempts -> Attempt]
  BY NodeStep, AttemptsMoved
<1>3. ASSUME inv' = inv, wk' = wk, calls' = calls, run' = run, budget' = budget, ops' = ops
      PROVE  StateTyped'
  BY <1>1, <1>2, <1>3 DEF StateTyped
<1>4. ASSUME NEW w \in Workers, WorkerStep(w) \/ Crash(w)
      PROVE  StateTyped'
  BY <1>1, <1>2, <1>4, WorkerStepTyped DEF StateTyped
<1>5. CASE Expire
  <2>1. budget' \in [faults : Nat, restarts : Nat]
    BY <1>1, <1>5, CountsTyped DEF Expire
  <2> QED
    BY <1>1, <1>2, <1>5, <2>1 DEF Expire, StateTyped
<1>6. CASE Restart
  BY <1>1, <1>2, <1>6, CountsTyped DEF Restart, StateTyped
<1>7. CASE RunChange
  BY <1>1, <1>2, <1>7, CountsTyped DEF RunChange, StateTyped
<1>8. ASSUME NEW n \in Attempts, RecoverUncertain(n)
      PROVE  StateTyped'
  <2>1. \E k \in Keys : inv' = Abandon(k)
    BY <1>8, OwnKeys DEF RecoverUncertain, RecoverUncertainProposer, RecoverUncertainReviewer
  <2>2. inv' \in [Keys -> Row]
    BY <1>1, <2>1, AbandonTyped
  <2> QED
    BY <1>1, <1>2, <1>8, <2>2
    DEF RecoverUncertain, RecoverUncertainProposer, RecoverUncertainReviewer, StateTyped
<1>9. ASSUME NEW o \in Operators, RecoverExhausted(o)
      PROVE  StateTyped'
  <2>1. ops' \in [Operators -> Operator]
    <3>1. CASE RecoverExhaustedWrite(o)
      <4>1. [ops[o] EXCEPT !.pc = "done"] \in Operator
        BY <1>1 DEF Operator
      <4> QED
        BY <1>1, <3>1, <4>1 DEF RecoverExhaustedWrite
    <3>2. ASSUME NEW n \in Attempts, RecoverExhaustedRead(o, n)
          PROVE  ops' \in [Operators -> Operator]
      <4>1. [pc |-> "write", att |-> n, version |-> cont.version] \in Operator
        BY <1>1 DEF Operator
      <4> QED
        BY <1>1, <3>2, <4>1 DEF RecoverExhaustedRead
    <3> QED
      BY <1>9, <3>1, <3>2 DEF RecoverExhausted
  <2> QED
    BY <1>1, <1>2, <1>9, <2>1
    DEF RecoverExhausted, RecoverExhaustedRead, RecoverExhaustedWrite, StateTyped
<1>10. CASE UNCHANGED vars
  BY <1>3, <1>10 DEF vars
<1> QED
  BY <1>4, <1>5, <1>6, <1>7, <1>8, <1>9, <1>10 DEF Next

-----------------------------------------------------------------------------
(* The invariant. *)

-----------------------------------------------------------------------------
(* Calls that are out. *)

\* What a step of a worker does to its call.
CallEnds(w) ==
  /\ ~ Calling(w)'
  /\ calls' = calls \/ (Calling(w) /\ calls' = [calls EXCEPT ![wk[w].key].lost = TRUE])

CallStays(w) ==
  /\ Calling(w) /\ Calling(w)' /\ wk'[w].key = wk[w].key /\ calls' = calls
  /\ wk'[w].pc = "call" => wk[w].pc = "call"

CallBegins(w) ==
  /\ wk[w].pc = "mark" /\ Calling(w)' /\ wk'[w].key = wk[w].key
  /\ calls' = [calls EXCEPT ![wk[w].key].count = @ + 1]

LEMMA WorkerCallMoves ==
  ASSUME RepairInv, NEW w \in Workers, WorkerStep(w) \/ Crash(w)
  PROVE  CallEnds(w) \/ CallStays(w) \/ CallBegins(w)
<1>1. wk \in [Workers -> WorkerState] /\ wk[w] \in WorkerState
  BY DEF RepairInv, StateTyped
<1>2. CASE ClaimPropose(w) \/ ClaimReview(w) \/ Load(w)
  <2>0. wk = [v \in Workers |-> wk[v]]
    BY <1>1
  <2>1. CASE ClaimPropose(w)
    <3>1. calls' = calls /\ wk'[w] = [Idle EXCEPT !.pc = "load", !.att = LatestOpenRepair]
      BY <2>0, <2>1 DEF ClaimPropose
    <3>2. [Idle EXCEPT !.pc = "load", !.att = LatestOpenRepair].pc = "load"
      BY DEF Idle
    <3> QED
      BY <3>1, <3>2 DEF CallEnds, Calling
  <2>2. CASE ClaimReview(w) /\ wk' = wk
    BY <2>2 DEF ClaimReview, CallEnds, Calling
  <2>3. CASE ClaimReview(w) /\ wk' # wk
    <3>1. /\ calls' = calls
          /\ wk'[w] = [Idle EXCEPT !.pc = "load", !.att = LatestRepair, !.role = "reviewer"]
      BY <2>0, <2>3 DEF ClaimReview
    <3>2. [Idle EXCEPT !.pc = "load", !.att = LatestRepair, !.role = "reviewer"].pc = "load"
      BY DEF Idle
    <3> QED
      BY <3>1, <3>2 DEF CallEnds, Calling
  <2>4. CASE Load(w)
    <3>1. /\ calls' = calls
          /\ wk'[w] = [wk[w] EXCEPT !.pc = "start", !.snap = Authority(wk[w].att)]
      BY <2>0, <2>4 DEF Load
    <3>2. [wk[w] EXCEPT !.pc = "start", !.snap = Authority(wk[w].att)].pc = "start"
      BY <1>1 DEF WorkerState
    <3> QED
      BY <3>1, <3>2 DEF CallEnds, Calling
  <2> QED
    BY <1>2, <2>1, <2>2, <2>3, <2>4
<1>3. CASE Start(w)
  <2>1. calls' = calls /\ wk'[w].pc \in {"mark", "end"}
    BY <1>1, <1>3 DEF Start, WorkerState
  <2> QED
    BY <2>1 DEF CallEnds, Calling
<1>4. CASE MarkTransportStarted(w)
  BY <1>1, <1>4 DEF MarkTransportStarted, WorkerState, CallEnds, CallBegins, Calling
<1>5. CASE PostAgain(w) \/ Answered(w)
  <2>1. GoesOnCalling(w) /\ calls' = calls
    BY <1>1, <1>5, CallGoesOn
  <2> QED
    BY <2>1 DEF GoesOnCalling, CallStays, Calling
<1>6. CASE LocalFailure(w) \/ ProviderFailure(w) \/ ProtocolFailure(w) \/ AnswerStale(w)
           \/ ReviewRejected(w)
  <2>1. /\ calls' = calls
        /\ \E a : wk' = [wk EXCEPT ![w].pc = "end", ![w].answer = a]
    BY <1>6 DEF LocalFailure, ProviderFailure, ProtocolFailure, AnswerStale, ReviewRejected
  <2>2. wk'[w].pc = "end"
    BY <1>1, <2>1 DEF WorkerState
  <2> QED
    BY <2>1, <2>2 DEF CallEnds, Calling
<1>7. CASE ProposalRejected(w)
  <2>1. calls' = calls /\ wk'[w].pc \in {"load", "end"}
    BY <1>1, <1>7 DEF ProposalRejected, Idle, WorkerState
  <2> QED
    BY <2>1 DEF CallEnds, Calling
<1>8. CASE OutcomeUnknown(w)
  BY <1>1, <1>8 DEF OutcomeUnknown, WorkerState, CallEnds, Calling
<1>9. CASE PersistCall(w)
  <2>1. calls' = calls /\ wk'[w].pc = "end"
    BY <1>1, <1>9 DEF PersistCall, WorkerState
  <2> QED
    BY <2>1 DEF CallEnds, Calling
<1>10. CASE End(w) \/ Crash(w)
  BY <1>1, <1>10 DEF End, Crash, Idle, CallEnds, Calling
<1> QED
  BY <1>2, <1>3, <1>4, <1>5, <1>6, <1>7, <1>8, <1>9, <1>10 DEF WorkerStep

\* Only workers' steps touch workers and calls.
LEMMA CallersStay ==
  ASSUME [Next]_vars
  PROVE  (wk' = wk /\ calls' = calls) \/ \E w \in Workers : WorkerStep(w) \/ Crash(w)
<1>1. CASE Expire \/ Restart \/ RunChange \/ UNCHANGED vars
  BY <1>1 DEF Expire, Restart, RunChange, vars
<1>2. CASE \E n \in Attempts : RecoverUncertain(n)
  BY <1>2 DEF RecoverUncertain, RecoverUncertainProposer, RecoverUncertainReviewer
<1>3. CASE \E o \in Operators : RecoverExhausted(o)
  BY <1>3 DEF RecoverExhausted, RecoverExhaustedRead, RecoverExhaustedWrite
<1> QED
  BY <1>1, <1>2, <1>3 DEF Next

\* A POST is either the next of the one call of its key that is out, or the first of a call of
\* which none is out or lost.
PostedAlone ==
  \A k \in Keys, w \in Workers : Posts(w, k) =>
    /\ ~ calls[k].lost
    /\ \A v \in Workers : Answering(v, k) => v = w /\ wk[w].pc = "call"

LEMMA AloneStep ==
  ASSUME RepairInv, [Next]_vars, StartedAlone
  PROVE  CallersAlone' /\ PostedAlone
<1>1. /\ wk \in [Workers -> WorkerState] /\ calls \in [Keys -> Call] /\ CallersAlone
      /\ \A v \in Workers : Working(v) => wk[v].key \in Keys
  BY DEF RepairInv, StateTyped, CallInv, RowsOpened
<1>2. CASE wk' = wk /\ calls' = calls
  BY <1>1, <1>2 DEF CallersAlone, Calling, Answering, PostedAlone, Posts
<1>3. ASSUME NEW w \in Workers, WorkerStep(w) \/ Crash(w)
      PROVE  CallersAlone' /\ PostedAlone
  <2>1. OthersStay(w)
    BY <1>3, WorkerStepReads
  <2>2. \A v \in Workers \ {w}, k \in Keys : ~ Posts(v, k)
    BY <2>1 DEF OthersStay, Posts
  <2>3. CASE CallEnds(w)
    <3>1. \A k \in Keys : ~ Posts(w, k)
      BY <2>3 DEF CallEnds, Calling, Posts
    <3>2. \A v \in Workers \ {w} : Calling(v) => ~ calls'[wk[v].key].lost
      <4> SUFFICES ASSUME NEW v \in Workers \ {w}, Calling(v)
                   PROVE  ~ calls'[wk[v].key].lost
        OBVIOUS
      <4>1. wk[v].key \in Keys /\ ~ calls[wk[v].key].lost
        BY <1>1 DEF CallersAlone, Calling, Working
      <4>2. Calling(w) => wk[w].key # wk[v].key
        BY <1>1 DEF CallersAlone, Calling, Answering
      <4> QED
        BY <1>1, <2>3, <4>1, <4>2 DEF CallEnds
    <3>3. CallersAlone'
      BY <1>1, <2>1, <2>3, <3>2 DEF CallersAlone, CallEnds, Calling, Answering, OthersStay
    <3> QED
      BY <2>2, <3>1, <3>3 DEF PostedAlone
  <2>4. CASE CallStays(w)
    <3>1. CallersAlone'
      BY <1>1, <2>1, <2>4 DEF CallersAlone, CallStays, Calling, Answering, OthersStay
    <3>2. \A k \in Keys : Posts(w, k) => wk[w].pc = "call" /\ wk[w].key = k
      BY <2>4 DEF CallStays, Calling, Posts
    <3> QED
      BY <1>1, <2>2, <3>1, <3>2 DEF PostedAlone, CallersAlone, Calling
  <2>5. CASE CallBegins(w)
    <3>1. PICK k : k = wk[w].key
      OBVIOUS
    <3>2. k \in Keys
      BY <1>1, <2>5, <3>1 DEF CallBegins, Working
    <3>3. calls' = [calls EXCEPT ![k].count = @ + 1]
      BY <2>5, <3>1 DEF CallBegins
    <3>4. /\ calls'[k].count > calls[k].count /\ calls'[k].lost = calls[k].lost
          /\ \A q \in Keys \ {k} : calls'[q] = calls[q]
      BY <1>1, <3>2, <3>3 DEF Call
    <3>5. ~ calls[k].lost /\ \A v \in Workers : ~ Answering(v, k)
      BY <3>2, <3>4 DEF StartedAlone
    <3>6. \A v \in Workers \ {w} : Calling(v) =>
            wk[v].key \in Keys /\ wk[v].key # k /\ ~ calls[wk[v].key].lost
      BY <1>1, <3>5 DEF CallersAlone, Calling, Answering, Working
    <3>7. CallersAlone'
      BY <1>1, <2>1, <2>5, <3>1, <3>4, <3>5, <3>6
         DEF CallersAlone, CallBegins, Calling, Answering, OthersStay
    <3>8. \A q \in Keys : Posts(w, q) => q = k
      BY <2>5, <3>1 DEF CallBegins, Posts
    <3> QED
      BY <2>2, <3>5, <3>7, <3>8 DEF PostedAlone
  <2> QED
    BY <1>3, <2>3, <2>4, <2>5, WorkerCallMoves
<1> QED
  BY <1>2, <1>3, CallersStay

LEMMA RepairInit ==
  ASSUME Init
  PROVE  RepairInv
<1>1. 1 \in Attempts /\ Attempts \subseteq Nat
  BY ConstantsAssumption DEF Attempts
<1>2. StateTyped
  <2>1. cont \in Continuation
    BY DEF Init, Continuation, Answers, Errors
  <2>2. att \in [Attempts -> Attempt]
    BY DEF Init, Frozen, Attempt, AttemptStatuses
  <2>3. inv \in [Keys -> Row]
    BY DEF Init, NoRow, Row, InvocationStatuses, Requests
  <2>4. wk \in [Workers -> WorkerState]
    BY IdleTyped DEF Init
  <2>5. ops \in [Operators -> Operator] /\ calls \in [Keys -> Call]
    BY DEF Init, Operator, Call
  <2>6. budget \in [faults : Nat, restarts : Nat] /\ run \in Nat
    BY DEF Init
  <2> QED
    BY <2>1, <2>2, <2>3, <2>4, <2>5, <2>6 DEF StateTyped
<1>3. /\ \A w \in Workers : wk[w].pc = "idle"
      /\ \A k \in Keys : /\ inv[k].status = "absent" /\ inv[k].version = 0
                         /\ calls[k].count = 0 /\ ~ calls[k].lost
      /\ \A o \in Operators : ops[o].pc = "idle"
      /\ cont.node = "propose_repair"
  BY DEF Init, Idle, NoRow
<1>4. /\ att[1].status = "evidence_frozen"
      /\ \A n \in Attempts : /\ n # 1 => att[n].status = "absent"
                             /\ att[n].proposer = NoKey /\ att[n].reviewer = NoKey
  BY <1>1 DEF Init, Frozen
<1>5. CallInv
  BY <1>3 DEF CallInv, RowsOpened, CallersHold, LostRemembered, RetriesCounted, RetryCalledOnce,
              Working
<1>6. RowsBound /\ AnswersBound
  BY <1>4 DEF RowsBound, AnswersBound, AnswersAreCompleted
<1>7. ChainOfAttempts
  <2>1. Newest(1)
    BY <1>1, <1>4, ConstantsAssumption DEF Newest, Attempts
  <2> QED
    BY <1>1, <1>4, <2>1 DEF ChainOfAttempts
<1>8. RequestsRead /\ WorkersRead /\ ReviewHasProposal
  BY <1>3 DEF RequestsRead, WorkersRead, WorkerReads, ReviewHasProposal
<1>9. CallersAlone
  BY <1>3 DEF CallersAlone, Calling
<1> QED
  BY <1>2, <1>5, <1>6, <1>7, <1>8, <1>9 DEF RepairInv, AttemptInv

LEMMA RepairStep ==
  ASSUME RepairInv, [Next]_vars
  PROVE  RepairInv' /\ PostedAlone
<1>1. CallInv' /\ StartedAlone
  BY CallStep
<1>2. CallersAlone' /\ PostedAlone
  BY <1>1, AloneStep
<1>3. StateTyped'
  BY TypeStep
<1>4. AttemptInv'
  BY BoundStep, AnswersStep, ChainStep, RequestsStep, WorkersStep, ReviewStep DEF AttemptInv
<1> QED
  BY <1>1, <1>2, <1>3, <1>4 DEF RepairInv

-----------------------------------------------------------------------------
(* Induction, and the positions picked from a sequence. *)

\* A set that holds 0 and with every number the next one holds all of them.
LEMMA InductiveSet ==
  ASSUME NEW S, 0 \in S, \A n \in Nat : n \in S => n + 1 \in S
  PROVE  Nat \subseteq S
<1> DEFINE T == Nat \ S
<1> SUFFICES ASSUME T # {} PROVE FALSE
  OBVIOUS
<1>1. PICK x \in T : \A y \in T : ~ (<<y, x>> \in OpToRel(<, Nat))
  BY NatLessThanWellFounded, WFMin
<1>2. x \in Nat /\ x # 0 /\ x - 1 \in Nat /\ x - 1 + 1 = x
  OBVIOUS
<1>3. x - 1 \in T
  BY <1>2
<1>4. <<x - 1, x>> \in OpToRel(<, Nat)
  <2>1. <<x - 1, x>> \in Nat \X Nat /\ <<x - 1, x>>[1] = x - 1 /\ <<x - 1, x>>[2] = x
    BY <1>2
  <2>2. x - 1 < x
    BY <1>2
  <2> QED
    BY <2>1, <2>2 DEF OpToRel
<1> QED
  BY <1>1, <1>3, <1>4

\* The elements picked from a sequence satisfy the equation they are defined by.
LEMMA PickingEquation ==
  ASSUME NEW s, NEW I, Len(s) \in Nat
  PROVE  Picking(s, I) =
           [i \in 0 .. Len(s) |->
              IF i = 0 THEN <<>>
              ELSE IF i \in I THEN Append(Picking(s, I)[i - 1], s[i]) ELSE Picking(s, I)[i - 1]]
<1> DEFINE Step(x, i) == IF i \in I THEN Append(x, s[i]) ELSE x
<1> HIDE DEF Step
<1> DEFINE Upto(n) == \E f : f = [i \in 0 .. n |-> IF i = 0 THEN <<>> ELSE Step(f[i - 1], i)]
           S == {n \in Nat : Upto(n)}
<1>1. 0 \in S
  <2>1. [i \in 0 .. 0 |-> <<>>] =
          [i \in 0 .. 0 |-> IF i = 0 THEN <<>> ELSE Step([j \in 0 .. 0 |-> <<>>][i - 1], i)]
    OBVIOUS
  <2> QED
    BY <2>1
<1>2. ASSUME NEW n \in Nat, n \in S
      PROVE  n + 1 \in S
  <2>1. PICK f : f = [i \in 0 .. n |-> IF i = 0 THEN <<>> ELSE Step(f[i - 1], i)]
    BY <1>2
  <2> DEFINE g == [i \in 0 .. n + 1 |-> IF i = n + 1 THEN Step(f[n], n + 1) ELSE f[i]]
  <2>2. ASSUME NEW i \in 0 .. n + 1
        PROVE  g[i] = IF i = 0 THEN <<>> ELSE Step(g[i - 1], i)
    <3>1. CASE i = n + 1
      <4>1. g[i - 1] = f[n] /\ i # 0
        BY <3>1
      <4> QED
        BY <3>1, <4>1
    <3>2. CASE i # n + 1
      <4>1. i \in 0 .. n /\ g[i] = f[i]
        BY <3>2
      <4>2. i # 0 => i - 1 \in 0 .. n + 1 /\ i - 1 # n + 1
        BY <4>1
      <4>3. i # 0 => g[i - 1] = f[i - 1]
        BY <4>2
      <4>4. f[i] = IF i = 0 THEN <<>> ELSE Step(f[i - 1], i)
        BY <2>1, <4>1
      <4> QED
        BY <4>1, <4>3, <4>4
    <3> QED
      BY <3>1, <3>2
  <2>3. g = [i \in 0 .. n + 1 |-> IF i = 0 THEN <<>> ELSE Step(g[i - 1], i)]
    <3> HIDE DEF g
    <3>1. DOMAIN g = 0 .. n + 1 /\ g = [i \in DOMAIN g |-> g[i]]
      BY DEF g
    <3> QED
      BY <2>2, <3>1
  <2> HIDE DEF g
  <2>4. Upto(n + 1)
    BY <2>3
  <2> QED
    BY <2>4
<1>3. Upto(Len(s))
  <2> HIDE DEF Upto
  <2>1. Nat \subseteq S
    <3> HIDE DEF S
    <3> QED
      BY <1>1, <1>2, InductiveSet
  <2> QED
    BY <2>1
<1> DEFINE W == Picking(s, I)
<1>4. W = CHOOSE f : f = [i \in 0 .. Len(s) |-> IF i = 0 THEN <<>> ELSE Step(f[i - 1], i)]
  BY DEF Picking, Step
<1>5. W = [i \in 0 .. Len(s) |-> IF i = 0 THEN <<>> ELSE Step(W[i - 1], i)]
  <2> HIDE DEF W
  <2> QED
    BY <1>3, <1>4
<1> QED
  BY <1>5 DEF Step

\* One position more is picked or left out.
LEMMA PickingStep ==
  ASSUME NEW s, NEW I, Len(s) \in Nat
  PROVE  /\ Picking(s, I)[0] = <<>>
         /\ \A n \in Nat : n < Len(s) =>
              Picking(s, I)[n + 1] = IF n + 1 \in I THEN Append(Picking(s, I)[n], s[n + 1])
                                     ELSE Picking(s, I)[n]
<1> DEFINE W == Picking(s, I)
<1>1. W = [i \in 0 .. Len(s) |->
             IF i = 0 THEN <<>> ELSE IF i \in I THEN Append(W[i - 1], s[i]) ELSE W[i - 1]]
  BY PickingEquation
<1> HIDE DEF W
<1>2. W[0] = <<>>
  BY <1>1
<1>3. ASSUME NEW n \in Nat, n < Len(s)
      PROVE  W[n + 1] = IF n + 1 \in I THEN Append(W[n], s[n + 1]) ELSE W[n]
  <2> DEFINE m == n + 1
  <2>1. m \in 0 .. Len(s) /\ m # 0 /\ m - 1 = n
    BY <1>3
  <2> HIDE DEF m
  <2>2. W[m] = IF m \in I THEN Append(W[m - 1], s[m]) ELSE W[m - 1]
    BY <1>1, <2>1
  <2> QED
    BY <2>1, <2>2 DEF m
<1> QED
  BY <1>2, <1>3 DEF W

\* Picking from a sequence gives a sequence of what is at the positions picked.
LEMMA PickingElements ==
  ASSUME NEW S, NEW s \in Seq(S), NEW I, NEW n \in 0 .. Len(s)
  PROVE  /\ Picking(s, I)[n] \in Seq(S)
         /\ \A k \in DOMAIN Picking(s, I)[n] : \E i \in 1 .. n : i \in I
              /\ Picking(s, I)[n][k] = s[i]
         /\ \A i \in 1 .. n : i \in I => \E k \in DOMAIN Picking(s, I)[n] :
              Picking(s, I)[n][k] = s[i]
<1> DEFINE W == Picking(s, I)
           Good(m) == /\ W[m] \in Seq(S)
                      /\ \A k \in DOMAIN W[m] : \E i \in 1 .. m : i \in I /\ W[m][k] = s[i]
                      /\ \A i \in 1 .. m : i \in I => \E k \in DOMAIN W[m] : W[m][k] = s[i]
           G == {m \in Nat : m <= Len(s) => Good(m)}
<1>1. Len(s) \in Nat /\ \A i \in 1 .. Len(s) : s[i] \in S
  OBVIOUS
<1>2. /\ W[0] = <<>>
      /\ \A m \in Nat : m < Len(s) =>
           W[m + 1] = IF m + 1 \in I THEN Append(W[m], s[m + 1]) ELSE W[m]
  BY <1>1, PickingStep
<1> HIDE DEF W
<1>3. 0 \in G
  <2>1. W[0] \in Seq(S) /\ DOMAIN W[0] = {} /\ 1 .. 0 = {}
    BY <1>2
  <2> QED
    BY <2>1
<1>4. ASSUME NEW m \in Nat, m \in G
      PROVE  m + 1 \in G
  <2> SUFFICES ASSUME m + 1 <= Len(s)
               PROVE  Good(m + 1)
    OBVIOUS
  <2>1. Good(m) /\ m < Len(s) /\ m + 1 \in 1 .. Len(s)
    BY <1>1, <1>4
  <2>2. CASE m + 1 \notin I
    BY <1>2, <2>1, <2>2
  <2>3. CASE m + 1 \in I
    <3>1. W[m + 1] = Append(W[m], s[m + 1])
      BY <1>2, <2>1, <2>3
    <3>2. W[m] \in Seq(S) /\ s[m + 1] \in S /\ Len(W[m]) \in Nat
      BY <1>1, <2>1
    <3>3. /\ W[m + 1] \in Seq(S) /\ DOMAIN W[m + 1] = 1 .. Len(W[m]) + 1
          /\ DOMAIN W[m] = 1 .. Len(W[m])
          /\ W[m + 1][Len(W[m]) + 1] = s[m + 1]
          /\ \A k \in 1 .. Len(W[m]) : W[m + 1][k] = W[m][k]
      BY <3>1, <3>2
    <3>4. ASSUME NEW k \in DOMAIN W[m + 1]
          PROVE  \E i \in 1 .. m + 1 : i \in I /\ W[m + 1][k] = s[i]
      <4>1. CASE k = Len(W[m]) + 1
        BY <2>3, <3>3, <4>1
      <4>2. CASE k # Len(W[m]) + 1
        <5>1. k \in DOMAIN W[m] /\ W[m + 1][k] = W[m][k]
          BY <3>2, <3>3, <4>2
        <5> QED
          BY <2>1, <5>1
      <4> QED
        BY <4>1, <4>2
    <3>5. ASSUME NEW i \in 1 .. m + 1, i \in I
          PROVE  \E k \in DOMAIN W[m + 1] : W[m + 1][k] = s[i]
      <4>1. CASE i = m + 1
        <5>1. Len(W[m]) + 1 \in DOMAIN W[m + 1] /\ W[m + 1][Len(W[m]) + 1] = s[i]
          BY <3>2, <3>3, <4>1
        <5> QED
          BY <5>1
      <4>2. CASE i # m + 1
        <5>1. PICK k \in DOMAIN W[m] : W[m][k] = s[i]
          BY <2>1, <3>5, <4>2
        <5>2. k \in DOMAIN W[m + 1] /\ W[m + 1][k] = s[i]
          BY <3>2, <3>3, <5>1
        <5> QED
          BY <5>2
      <4> QED
        BY <4>1, <4>2
    <3> QED
      BY <3>3, <3>4, <3>5
  <2> QED
    BY <2>2, <2>3
<1>5. Nat \subseteq G
  <2> HIDE DEF G
  <2> QED
    BY <1>3, <1>4, InductiveSet
<1>6. Good(n)
  BY <1>1, <1>5
<1> QED
  BY <1>6 DEF W

\* The same of the whole sequence.
LEMMA PickedElements ==
  ASSUME NEW S, NEW s \in Seq(S), NEW I
  PROVE  /\ Picked(s, I) \in Seq(S)
         /\ \A k \in DOMAIN Picked(s, I) : \E i \in DOMAIN s : i \in I /\ Picked(s, I)[k] = s[i]
         /\ \A i \in DOMAIN s : i \in I => \E k \in DOMAIN Picked(s, I) : Picked(s, I)[k] = s[i]
<1> DEFINE P == Picking(s, I)[Len(s)]
<1>1. DOMAIN s = 1 .. Len(s)
  OBVIOUS
<1> DEFINE n == Len(s)
<1>2. n \in 0 .. Len(s)
  OBVIOUS
<1> HIDE DEF n
<1>3. /\ Picking(s, I)[n] \in Seq(S)
      /\ \A k \in DOMAIN Picking(s, I)[n] : \E i \in 1 .. n : i \in I /\ Picking(s, I)[n][k] = s[i]
      /\ \A i \in 1 .. n : i \in I => \E k \in DOMAIN Picking(s, I)[n] : Picking(s, I)[n][k] = s[i]
  BY <1>2, PickingElements
<1>4. /\ P \in Seq(S)
      /\ \A k \in DOMAIN P : \E i \in 1 .. Len(s) : i \in I /\ P[k] = s[i]
      /\ \A i \in 1 .. Len(s) : i \in I => \E k \in DOMAIN P : P[k] = s[i]
  BY <1>3 DEF n
<1>5. P = Picked(s, I)
  BY DEF Picked
<1> HIDE DEF P
<1> QED
  BY <1>1, <1>4, <1>5

\* Of different elements different ones are picked.
LEMMA PickedDistinct ==
  ASSUME NEW S, NEW s \in Seq(S), NEW I,
         \A i, j \in DOMAIN s : i \in I /\ j \in I /\ s[i] = s[j] => i = j
  PROVE  \A k, l \in DOMAIN Picked(s, I) : Picked(s, I)[k] = Picked(s, I)[l] => k = l
<1> DEFINE W == Picking(s, I)
           Apart(m) == \A k, l \in DOMAIN W[m] : W[m][k] = W[m][l] => k = l
           G == {m \in Nat : m <= Len(s) => Apart(m)}
<1>1. Len(s) \in Nat /\ DOMAIN s = 1 .. Len(s) /\ \A i \in 1 .. Len(s) : s[i] \in S
  OBVIOUS
<1>2. /\ W[0] = <<>>
      /\ \A m \in Nat : m < Len(s) =>
           W[m + 1] = IF m + 1 \in I THEN Append(W[m], s[m + 1]) ELSE W[m]
  BY <1>1, PickingStep
<1>3. \A m \in 0 .. Len(s) :
        /\ W[m] \in Seq(S)
        /\ \A k \in DOMAIN W[m] : \E i \in 1 .. m : i \in I /\ W[m][k] = s[i]
  BY PickingElements
<1> HIDE DEF W
<1>4. 0 \in G
  BY <1>1, <1>2
<1>5. ASSUME NEW m \in Nat, m \in G
      PROVE  m + 1 \in G
  <2> SUFFICES ASSUME m + 1 <= Len(s)
               PROVE  Apart(m + 1)
    OBVIOUS
  <2>1. Apart(m) /\ m < Len(s) /\ m + 1 \in 1 .. Len(s) /\ m \in 0 .. Len(s)
    BY <1>1, <1>5
  <2>2. CASE m + 1 \notin I
    BY <1>2, <2>1, <2>2
  <2>3. CASE m + 1 \in I
    <3>1. W[m + 1] = Append(W[m], s[m + 1])
      BY <1>2, <2>1, <2>3
    <3>2. W[m] \in Seq(S) /\ s[m + 1] \in S /\ Len(W[m]) \in Nat
      BY <1>1, <1>3, <2>1
    <3>3. /\ DOMAIN W[m + 1] = 1 .. Len(W[m]) + 1
          /\ DOMAIN W[m] = 1 .. Len(W[m])
          /\ W[m + 1][Len(W[m]) + 1] = s[m + 1]
          /\ \A k \in 1 .. Len(W[m]) : W[m + 1][k] = W[m][k]
      BY <3>1, <3>2
    <3>4. \A k \in 1 .. Len(W[m]) : W[m][k] # s[m + 1]
      <4> SUFFICES ASSUME NEW k \in 1 .. Len(W[m]), W[m][k] = s[m + 1]
                   PROVE  FALSE
        OBVIOUS
      <4>1. PICK i \in 1 .. m : i \in I /\ W[m][k] = s[i]
        BY <1>3, <2>1, <3>3
      <4>2. i \in DOMAIN s /\ m + 1 \in DOMAIN s /\ i # m + 1
        BY <1>1, <2>1
      <4> QED
        BY <2>3, <4>1, <4>2
    <3>5. ASSUME NEW k \in DOMAIN W[m + 1], NEW l \in DOMAIN W[m + 1], W[m + 1][k] = W[m + 1][l]
          PROVE  k = l
      <4>1. CASE k \in 1 .. Len(W[m]) /\ l \in 1 .. Len(W[m])
        BY <2>1, <3>3, <3>5, <4>1
      <4>2. CASE k \notin 1 .. Len(W[m])
        <5>1. k = Len(W[m]) + 1
          BY <3>2, <3>3, <4>2
        <5>2. l \notin 1 .. Len(W[m])
          BY <3>3, <3>4, <3>5, <5>1
        <5> QED
          BY <3>2, <3>3, <5>1, <5>2
      <4>3. CASE l \notin 1 .. Len(W[m])
        <5>1. l = Len(W[m]) + 1
          BY <3>2, <3>3, <4>3
        <5>2. k \notin 1 .. Len(W[m])
          BY <3>3, <3>4, <3>5, <5>1
        <5> QED
          BY <3>2, <3>3, <5>1, <5>2
      <4> QED
        BY <4>1, <4>2, <4>3
    <3> QED
      BY <3>5
  <2> QED
    BY <2>2, <2>3
<1>6. Nat \subseteq G
  <2> HIDE DEF G
  <2> QED
    BY <1>4, <1>5, InductiveSet
<1>7. Apart(Len(s))
  BY <1>1, <1>6
<1> QED
  BY <1>7 DEF W, Picked

\* All positions.
LEMMA PickedAll ==
  ASSUME NEW S, NEW s \in Seq(S), NEW I, DOMAIN s \subseteq I
  PROVE  Picked(s, I) = s
<1> DEFINE W == Picking(s, I)
           Good(m) == W[m] = SubSeq(s, 1, m)
           G == {m \in Nat : m <= Len(s) => Good(m)}
<1>1. Len(s) \in Nat /\ DOMAIN s = 1 .. Len(s) /\ \A i \in 1 .. Len(s) : s[i] \in S
  OBVIOUS
<1>2. /\ W[0] = <<>>
      /\ \A m \in Nat : m < Len(s) =>
           W[m + 1] = IF m + 1 \in I THEN Append(W[m], s[m + 1]) ELSE W[m]
  BY <1>1, PickingStep
<1> HIDE DEF W
<1>3. 0 \in G
  <2>1. SubSeq(s, 1, 0) = <<>>
    BY <1>1
  <2> QED
    BY <1>2, <2>1
<1>4. ASSUME NEW m \in Nat, m \in G
      PROVE  m + 1 \in G
  <2> SUFFICES ASSUME m + 1 <= Len(s)
               PROVE  Good(m + 1)
    OBVIOUS
  <2>1. Good(m) /\ m < Len(s) /\ m + 1 \in 1 .. Len(s) /\ m + 1 \in I
    BY <1>1, <1>4
  <2>2. W[m + 1] = Append(SubSeq(s, 1, m), s[m + 1])
    BY <1>2, <2>1
  <2>3. Append(SubSeq(s, 1, m), s[m + 1]) = SubSeq(s, 1, m + 1)
    BY <1>1, <2>1
  <2> QED
    BY <2>2, <2>3
<1>5. Nat \subseteq G
  <2> HIDE DEF G
  <2> QED
    BY <1>3, <1>4, InductiveSet
<1>6. W[Len(s)] = SubSeq(s, 1, Len(s))
  BY <1>1, <1>5
<1>7. SubSeq(s, 1, Len(s)) = s
  OBVIOUS
<1> QED
  BY <1>6, <1>7 DEF W, Picked

\* One position only.
LEMMA PickedOne ==
  ASSUME NEW S, NEW s \in Seq(S), NEW I, NEW i \in DOMAIN s, i \in I,
         \A j \in DOMAIN s : j \in I => j = i
  PROVE  Picked(s, I) = <<s[i]>>
<1> DEFINE W == Picking(s, I)
           Good(m) == W[m] = IF m < i THEN <<>> ELSE <<s[i]>>
           G == {m \in Nat : m <= Len(s) => Good(m)}
<1>1. Len(s) \in Nat /\ DOMAIN s = 1 .. Len(s) /\ i \in Nat /\ 0 < i /\ i <= Len(s)
  OBVIOUS
<1>2. /\ W[0] = <<>>
      /\ \A m \in Nat : m < Len(s) =>
           W[m + 1] = IF m + 1 \in I THEN Append(W[m], s[m + 1]) ELSE W[m]
  BY <1>1, PickingStep
<1> HIDE DEF W
<1>3. 0 \in G
  BY <1>1, <1>2
<1>4. ASSUME NEW m \in Nat, m \in G
      PROVE  m + 1 \in G
  <2> SUFFICES ASSUME m + 1 <= Len(s)
               PROVE  Good(m + 1)
    OBVIOUS
  <2>1. Good(m) /\ m < Len(s) /\ m + 1 \in DOMAIN s
    BY <1>1, <1>4
  <2>2. CASE m + 1 = i
    <3>1. W[m] = <<>> /\ m + 1 \in I
      BY <1>1, <2>1, <2>2
    <3>2. W[m + 1] = Append(<<>>, s[i])
      BY <1>2, <2>1, <2>2, <3>1
    <3> QED
      BY <1>1, <2>2, <3>2
  <2>3. CASE m + 1 # i
    <3>1. W[m + 1] = W[m]
      BY <1>2, <2>1, <2>3
    <3> QED
      BY <1>1, <2>1, <2>3, <3>1
  <2> QED
    BY <2>2, <2>3
<1>5. Nat \subseteq G
  <2> HIDE DEF G
  <2> QED
    BY <1>3, <1>4, InductiveSet
<1>6. W[Len(s)] = <<s[i]>>
  BY <1>1, <1>5
<1> QED
  BY <1>6 DEF W, Picked

\* No position at all.
LEMMA PickedNone ==
  ASSUME NEW S, NEW s \in Seq(S), NEW I, \A i \in DOMAIN s : i \notin I
  PROVE  Picked(s, I) = <<>>
<1>1. Picked(s, I) \in Seq(S) /\ \A k \in DOMAIN Picked(s, I) : FALSE
  BY PickedElements
<1> QED
  BY <1>1

-----------------------------------------------------------------------------
(* Applying what was approved: all or nothing. *)

\* No code of a check that passes is of a failure.
LEMMA FirstFailureOk ==
  ASSUME NEW codes, DOMAIN codes \subseteq Nat
  PROVE  FirstFailure(codes) = "ok" <=> \A i \in DOMAIN codes : codes[i] = "ok"
<1> DEFINE failed == {i \in DOMAIN codes : codes[i] # "ok"}
<1>1. CASE failed = {}
  BY <1>1 DEF FirstFailure
<1>2. CASE failed # {}
  <2>1. failed \subseteq Nat
    OBVIOUS
  <2> HIDE DEF failed
  <2>2. PICK x \in failed : \A y \in failed : ~ (<<y, x>> \in OpToRel(<, Nat))
    BY <1>2, <2>1, NatLessThanWellFounded, WFMin
  <2>3. \A y \in failed : x <= y
    <3> SUFFICES ASSUME NEW y \in failed, ~ (x <= y)
                 PROVE  FALSE
      OBVIOUS
    <3>1. x \in Nat /\ y \in Nat /\ y < x
      BY <2>1
    <3>2. <<y, x>> \in Nat \X Nat /\ <<y, x>>[1] = y /\ <<y, x>>[2] = x
      BY <3>1
    <3> QED
      BY <2>2, <3>1, <3>2 DEF OpToRel
  <2> DEFINE c == CHOOSE i \in failed : \A j \in failed : i <= j
  <2>4. c \in failed
    BY <2>3
  <2>5. codes[c] # "ok" /\ c \in DOMAIN codes
    BY <2>4 DEF failed
  <2>6. FirstFailure(codes) = codes[c]
    BY <1>2 DEF FirstFailure, failed
  <2> QED
    BY <2>5, <2>6
<1> QED
  BY <1>1, <1>2

\* The writes satisfy the equation they are defined by.
LEMMA WritesEquation ==
  ASSUME NEW changes, NEW ws, NEW alien, Len(changes) \in Nat
  PROVE  Writes(changes, ws, alien) =
           [i \in 0 .. Len(changes) |->
              IF i = 0 THEN [step |-> 1, failed |-> FALSE, ws |-> ws]
              ELSE ApplyChange(Writes(changes, ws, alien)[i - 1], changes[i], alien)]
<1> DEFINE first == [step |-> 1, failed |-> FALSE, ws |-> ws]
           Step(x, i) == ApplyChange(x, changes[i], alien)
<1> HIDE DEF Step, first
<1> DEFINE Upto(n) == \E f : f = [i \in 0 .. n |-> IF i = 0 THEN first ELSE Step(f[i - 1], i)]
           S == {n \in Nat : Upto(n)}
<1>1. 0 \in S
  <2>1. [i \in 0 .. 0 |-> first] =
          [i \in 0 .. 0 |-> IF i = 0 THEN first ELSE Step([j \in 0 .. 0 |-> first][i - 1], i)]
    OBVIOUS
  <2> QED
    BY <2>1
<1>2. ASSUME NEW n \in Nat, n \in S
      PROVE  n + 1 \in S
  <2>1. PICK f : f = [i \in 0 .. n |-> IF i = 0 THEN first ELSE Step(f[i - 1], i)]
    BY <1>2
  <2> DEFINE g == [i \in 0 .. n + 1 |-> IF i = n + 1 THEN Step(f[n], n + 1) ELSE f[i]]
  <2>2. ASSUME NEW i \in 0 .. n + 1
        PROVE  g[i] = IF i = 0 THEN first ELSE Step(g[i - 1], i)
    <3>1. CASE i = n + 1
      <4>1. g[i - 1] = f[n] /\ i # 0
        BY <3>1
      <4> QED
        BY <3>1, <4>1
    <3>2. CASE i # n + 1
      <4>1. i \in 0 .. n /\ g[i] = f[i]
        BY <3>2
      <4>2. i # 0 => i - 1 \in 0 .. n + 1 /\ i - 1 # n + 1
        BY <4>1
      <4>3. i # 0 => g[i - 1] = f[i - 1]
        BY <4>2
      <4>4. f[i] = IF i = 0 THEN first ELSE Step(f[i - 1], i)
        BY <2>1, <4>1
      <4> QED
        BY <4>1, <4>3, <4>4
    <3> QED
      BY <3>1, <3>2
  <2>3. g = [i \in 0 .. n + 1 |-> IF i = 0 THEN first ELSE Step(g[i - 1], i)]
    <3> HIDE DEF g
    <3>1. DOMAIN g = 0 .. n + 1 /\ g = [i \in DOMAIN g |-> g[i]]
      BY DEF g
    <3> QED
      BY <2>2, <3>1
  <2> HIDE DEF g
  <2>4. Upto(n + 1)
    BY <2>3
  <2> QED
    BY <2>4
<1>3. Upto(Len(changes))
  <2> HIDE DEF Upto
  <2>1. Nat \subseteq S
    <3> HIDE DEF S
    <3> QED
      BY <1>1, <1>2, InductiveSet
  <2> QED
    BY <2>1
<1> DEFINE W == Writes(changes, ws, alien)
<1>4. W = CHOOSE f : f = [i \in 0 .. Len(changes) |-> IF i = 0 THEN first ELSE Step(f[i - 1], i)]
  BY DEF Writes, first, Step
<1>5. W = [i \in 0 .. Len(changes) |-> IF i = 0 THEN first ELSE Step(W[i - 1], i)]
  <2> HIDE DEF W
  <2> QED
    BY <1>3, <1>4
<1> QED
  BY <1>5 DEF first, Step

\* A file that is not to be changed is only ever changed by the other process.
LEMMA WritesUnchanged ==
  ASSUME NEW changes, NEW ws, NEW alien, Len(changes) \in Nat, DOMAIN changes = 1 .. Len(changes),
         DOMAIN ws = SafePaths
  PROVE  /\ DOMAIN Writes(changes, ws, alien)[Len(changes)].ws = SafePaths
         /\ \A p \in SafePaths : (\A i \in DOMAIN changes : changes[i].path # p) =>
              \/ Writes(changes, ws, alien)[Len(changes)].ws[p] = ws[p]
              \/ /\ p = alien.path
                 /\ Writes(changes, ws, alien)[Len(changes)].ws[p] = alien.text
<1> DEFINE W == Writes(changes, ws, alien)
           Kept(m, p) == W[m].ws[p] = ws[p] \/ (p = alien.path /\ W[m].ws[p] = alien.text)
           Good(m) == /\ DOMAIN W[m].ws = SafePaths
                      /\ \A p \in SafePaths : (\A i \in DOMAIN changes : changes[i].path # p) =>
                           Kept(m, p)
           G == {m \in Nat : m <= Len(changes) => Good(m)}
<1>1. W = [i \in 0 .. Len(changes) |->
             IF i = 0 THEN [step |-> 1, failed |-> FALSE, ws |-> ws]
             ELSE ApplyChange(W[i - 1], changes[i], alien)]
  BY WritesEquation
<1> HIDE DEF W
<1>2. 0 \in G
  <2>1. W[0].ws = ws
    BY <1>1
  <2> QED
    BY <2>1
<1>3. ASSUME NEW m \in Nat, m \in G
      PROVE  m + 1 \in G
  <2> SUFFICES ASSUME m + 1 <= Len(changes)
               PROVE  Good(m + 1)
    OBVIOUS
  <2> DEFINE n == m + 1
  <2>1. Good(m) /\ n \in 0 .. Len(changes) /\ n # 0 /\ n - 1 = m /\ n \in DOMAIN changes
    BY <1>3
  <2> HIDE DEF n
  <2>2. W[n] = ApplyChange(W[m], changes[n], alien)
    BY <1>1, <2>1
  <2> DEFINE found == Disturbed(W[m].ws, alien, W[m].step)
  <2>3. DOMAIN found = SafePaths
        /\ \A p \in SafePaths : found[p] = W[m].ws[p] \/ (p = alien.path /\ found[p] = alien.text)
    BY <2>1 DEF Disturbed
  <2> HIDE DEF found
  <2>4. W[n].ws = found \/ W[n].ws = [found EXCEPT ![changes[n].path] = changes[n].content]
    BY <2>2 DEF ApplyChange, found
  <2>5. /\ DOMAIN W[n].ws = SafePaths
        /\ \A p \in SafePaths : changes[n].path # p => W[n].ws[p] = found[p]
    BY <2>3, <2>4
  <2>6. Good(n)
    BY <2>1, <2>3, <2>5
  <2> QED
    BY <2>6 DEF n
<1>4. Nat \subseteq G
  <2> HIDE DEF G
  <2> QED
    BY <1>2, <1>3, InductiveSet
<1>5. Good(Len(changes))
  BY <1>4
<1> QED
  BY <1>5 DEF W

\* Applied as a whole, or every file to be changed is put back.
LEMMA AppliedOrPutBack ==
  ASSUME NEW a, NEW prepared, DOMAIN a.ws = SafePaths, Len(prepared.changes) \in Nat,
         DOMAIN prepared.changes = 1 .. Len(prepared.changes)
  PROVE  AllOrNothing(a, prepared)
<1> DEFINE changes == prepared.changes
           Changed(p) == \E i \in DOMAIN changes : changes[i].path = p
<1> SUFFICES ASSUME NEW alien \in Aliens(changes)
             PROVE  LET end == ApplyLocked(changes, a.ws, alien)
                    IN IF end.applied THEN end.ws = Overlay(a.ws, changes)
                       ELSE \A p \in SafePaths :
                              \/ end.ws[p] = a.ws[p]
                              \/ p = alien.path /\ end.ws[p] = alien.text /\ ~Changed(p)
  BY DEF AllOrNothing
<1> DEFINE written == Writes(changes, a.ws, alien)[Len(changes)]
           found == Disturbed(written.ws, alien, Len(changes) + 1)
           end == ApplyLocked(changes, a.ws, alien)
<1>1. /\ DOMAIN written.ws = SafePaths
      /\ \A p \in SafePaths : ~Changed(p) =>
           written.ws[p] = a.ws[p] \/ (p = alien.path /\ written.ws[p] = alien.text)
  BY WritesUnchanged
<1> HIDE DEF written
<1>2. \A p \in SafePaths : ~Changed(p) =>
        found[p] = a.ws[p] \/ (p = alien.path /\ found[p] = alien.text)
  BY <1>1 DEF Disturbed
<1>3. /\ end.applied => end.ws = found /\ found = Overlay(a.ws, changes)
      /\ ~end.applied => end.ws = RollBack(a.ws, found, changes)
  BY DEF ApplyLocked, written
<1> HIDE DEF found, end
<1>4. ASSUME ~end.applied, NEW p \in SafePaths
      PROVE  end.ws[p] = a.ws[p] \/ (p = alien.path /\ end.ws[p] = alien.text /\ ~Changed(p))
  <2>1. end.ws[p] = IF Changed(p) THEN a.ws[p] ELSE found[p]
    BY <1>3, <1>4 DEF RollBack
  <2> QED
    BY <1>2, <2>1
<1> QED
  BY <1>3, <1>4 DEF end

\* The paths of several operations are a sequence, once and each once.
LEMMA DistinctPaths ==
  ASSUME NEW S, NEW s \in Seq(S)
  PROVE  Distinct(s) \in Seq(S)
BY PickedElements DEF Distinct

\* One path for every operation.
LEMMA PathsOfSequence ==
  ASSUME NEW S, NEW s \in Seq(S)
  PROVE  /\ PathsOf(s) \in Seq({x.path : x \in S})
         /\ Len(PathsOf(s)) = Len(s) /\ DOMAIN PathsOf(s) = DOMAIN s
<1>1. DOMAIN s = 1 .. Len(s) /\ Len(s) \in Nat /\ \A i \in 1 .. Len(s) : s[i] \in S
  OBVIOUS
<1> QED
  BY <1>1 DEF PathsOf

\* What coalescing gives is a sequence of operations.
LEMMA CoalesceSequence ==
  ASSUME NEW S, NEW edits \in Seq(S), NEW ws, NEW lockfile, NEW bind
  PROVE  \E T : Coalesce(edits, ws, lockfile, bind).ops \in Seq(T)
<1> DEFINE transitions == Picked(edits, TransitionsIn(edits))
           unsafe == \E i \in DOMAIN edits : edits[i].path \notin SafePaths
           groups == IF unsafe THEN <<>>
                     ELSE Distinct(PathsOf(Picked(edits, DOMAIN edits \ TransitionsIn(edits))))
           done == [i \in DOMAIN groups |->
                      CoalesceGroup(GroupOf(edits, groups[i]), ws, lockfile, bind)]
           merged == [i \in DOMAIN done |-> done[i].op]
           U == {x.path : x \in S}
<1>1. transitions \in Seq(S)
  BY PickedElements
<1>2. groups \in Seq(U)
  <2>1. Picked(edits, DOMAIN edits \ TransitionsIn(edits)) \in Seq(S)
    BY PickedElements
  <2>2. PathsOf(Picked(edits, DOMAIN edits \ TransitionsIn(edits))) \in Seq(U)
    BY <2>1, PathsOfSequence
  <2>3. Distinct(PathsOf(Picked(edits, DOMAIN edits \ TransitionsIn(edits)))) \in Seq(U)
    BY <2>2, DistinctPaths
  <2>4. <<>> \in Seq(U)
    OBVIOUS
  <2> QED
    BY <2>3, <2>4
<1>3. Coalesce(edits, ws, lockfile, bind).ops = transitions \o merged
  BY DEF Coalesce, Coalesced
<1> HIDE DEF transitions, groups
<1>4. DOMAIN merged = 1 .. Len(groups) /\ Len(groups) \in Nat
  BY <1>2
<1> HIDE DEF done
<1> DEFINE T == S \cup {merged[i] : i \in 1 .. Len(groups)}
<1> HIDE DEF merged
<1>5. transitions \in Seq(T)
  <2>1. S \subseteq T
    OBVIOUS
  <2> HIDE DEF T
  <2> QED
    BY <1>1, <2>1
<1>6. merged \in Seq(T)
  <2>1. \A i \in 1 .. Len(groups) : merged[i] \in T
    OBVIOUS
  <2>2. merged = [i \in 1 .. Len(groups) |-> merged[i]]
    BY <1>4 DEF merged
  <2> HIDE DEF T
  <2>3. [i \in 1 .. Len(groups) |-> merged[i]] \in Seq(T)
    BY <1>4, <2>1
  <2> QED
    BY <2>2, <2>3
<1> HIDE DEF T
<1>7. transitions \o merged \in Seq(T)
  BY <1>5, <1>6
<1> QED
  BY <1>3, <1>7

\* What is prepared of a proposal that was judged is a sequence of changes.
LEMMA ChangesSequence ==
  ASSUME NEW c \in Candidate, NEW ws, NEW ctx
  PROVE  LET changes == Prepare(Judge(c, ws, ctx), ws).changes
         IN Len(changes) \in Nat /\ DOMAIN changes = 1 .. Len(changes)
<1> DEFINE v == Judge(c, ws, ctx)
           b == Bind(c, ws, ctx)
           changes == Prepare(v, ws).changes
<1>1. c.operations \in Seq(Operation) /\ c.diff \in Seq(PatchFile)
  BY DEF Candidate
<1>2. b.ops = Coalesce(c.operations, ws, ctx.lockfile, TakePreimages).ops /\ b.diff = c.diff
  BY DEF Bind, BoundProposal
<1>3. v.ops = Coalesce(b.ops, ws, ctx.lockfile, ComparePreimages).ops /\ v.diff = b.diff
  BY DEF Judge, Validate, ValidatedProposal
<1> HIDE DEF v, b
<1>4. PICK S : b.ops \in Seq(S)
  BY <1>1, <1>2, CoalesceSequence
<1>5. PICK T : v.ops \in Seq(T)
  BY <1>3, <1>4, CoalesceSequence
<1>6. CASE v.ops # <<>>
  <2> DEFINE merged == Coalesce(v.ops, ws, LockfileAssumed, ComparePreimages).ops
             written == Picked(merged, DOMAIN merged \ TransitionsIn(merged))
  <2>1. PICK U : merged \in Seq(U)
    BY <1>5, CoalesceSequence
  <2> HIDE DEF merged
  <2>2. written \in Seq(U)
    BY <2>1, PickedElements
  <2>3. DOMAIN changes = DOMAIN written
    BY <1>6 DEF Prepare, PrepareOperations, merged
  <2> HIDE DEF written, changes
  <2>4. DOMAIN changes = 1 .. Len(written) /\ Len(written) \in Nat
    BY <2>2, <2>3
  <2>5. \E n \in Nat : DOMAIN changes = 1 .. n
    BY <2>4
  <2>6. Len(changes) \in Nat /\ DOMAIN changes = 1 .. Len(changes)
    BY <2>4
  <2> QED
    BY <2>6 DEF changes, v
<1>7. CASE v.ops = <<>>
  <2>1. DOMAIN changes = DOMAIN v.diff /\ v.diff \in Seq(PatchFile)
    BY <1>1, <1>2, <1>3, <1>7 DEF Prepare, PrepareUnifiedDiff
  <2> HIDE DEF changes
  <2>2. DOMAIN changes = 1 .. Len(v.diff) /\ Len(v.diff) \in Nat
    BY <2>1
  <2>3. Len(changes) \in Nat /\ DOMAIN changes = 1 .. Len(changes)
    BY <2>2
  <2> QED
    BY <2>3 DEF changes, v
<1> QED
  BY <1>6, <1>7

\* Whoever interferes with the apply of an accepted proposal: none is applied in part.
LEMMA NothingPartlyApplied ==
  PartlyApplied = {}
<1> SUFFICES ASSUME NEW a \in Accepted
             PROVE  AppliesAllOrNothing(a)
  BY DEF PartlyApplied
<1>1. PICK c \in Candidates, ws \in Workspaces, ctx \in Contexts :
        a = [c |-> c, ws |-> ws, ctx |-> ctx]
  BY DEF Accepted
<1>2. a.c \in Candidate /\ DOMAIN a.ws = SafePaths
  BY <1>1, ProposalsAssumption
<1> DEFINE prepared == Prepare(Judge(a.c, a.ws, a.ctx), a.ws)
<1>3. Len(prepared.changes) \in Nat /\ DOMAIN prepared.changes = 1 .. Len(prepared.changes)
  BY <1>2, ChangesSequence
<1> HIDE DEF prepared
<1>4. AllOrNothing(a, prepared)
  BY <1>2, <1>3, AppliedOrPutBack
<1> QED
  BY <1>4 DEF AppliesAllOrNothing, prepared

-----------------------------------------------------------------------------
(* Texts, words and replacements. *)

\* The words of a text.
LEMMA WordsFacts ==
  ASSUME NEW text \in Texts
  PROVE  /\ Words(text) \in Seq(Word) /\ Len(Words(text)) = Len(text)
         /\ DOMAIN Words(text) = DOMAIN text
         /\ \A i \in DOMAIN text : Words(text)[i] = text[i].word
<1> DEFINE Line == [word : Word, eol : Eols]
<1>1. text \in Seq(Line)
  BY DEF Texts
<1>2. \A l \in Line : l.word \in Word
  OBVIOUS
<1> HIDE DEF Line
<1>3. Len(text) \in Nat /\ DOMAIN text = 1 .. Len(text)
      /\ \A i \in 1 .. Len(text) : text[i] \in Line
  BY <1>1
<1> QED
  BY <1>2, <1>3 DEF Words

\* The text of given words and one line ending.
LEMMA TextFacts ==
  ASSUME NEW words \in Seq(Word), NEW eol \in Eols
  PROVE  /\ Text(words, eol) \in Texts /\ Words(Text(words, eol)) = words
         /\ DOMAIN Text(words, eol) = DOMAIN words
         /\ \A i \in DOMAIN words : Text(words, eol)[i] = [word |-> words[i], eol |-> eol]
<1>1. Len(words) \in Nat /\ DOMAIN words = 1 .. Len(words)
      /\ \A i \in 1 .. Len(words) : words[i] \in Word
  OBVIOUS
<1>2. /\ DOMAIN Text(words, eol) = DOMAIN words
      /\ \A i \in DOMAIN words : Text(words, eol)[i] = [word |-> words[i], eol |-> eol]
  BY DEF Text
<1>3. Text(words, eol) \in Texts
  BY <1>1 DEF Text, Texts
<1>4. Words(Text(words, eol)) = [i \in DOMAIN words |-> words[i]]
  BY DEF Text, Words
<1>5. words = [i \in DOMAIN words |-> words[i]]
  OBVIOUS
<1> QED
  BY <1>2, <1>3, <1>4, <1>5

\* All lines of a text end alike: so does most of them.
LEMMA DominantOfText ==
  ASSUME NEW words \in Seq(Word), NEW eol \in {"lf", "crlf"}, words # <<>>
  PROVE  DominantNewline(Text(words, eol)) = eol
<1> DEFINE text == Text(words, eol)
           crlf == {i \in DOMAIN text : text[i].eol = "crlf"}
<1>1. Len(words) \in Nat \ {0} /\ DOMAIN words = 1 .. Len(words)
  OBVIOUS
<1>2. DOMAIN text = 1 .. Len(words) /\ Len(text) = Len(words)
      /\ \A i \in 1 .. Len(words) : text[i].eol = eol
  <2>1. DOMAIN text = 1 .. Len(words) /\ \A i \in 1 .. Len(words) : text[i].eol = eol
    <3>1. eol \in Eols
      BY DEF Eols
    <3>2. /\ DOMAIN text = DOMAIN words
          /\ \A i \in DOMAIN words : text[i] = [word |-> words[i], eol |-> eol]
      BY <3>1, TextFacts
    <3> HIDE DEF text
    <3> QED
      BY <1>1, <3>2
  <2> HIDE DEF text
  <2>2. Len(text) = Len(words)
    BY <1>1, <2>1
  <2> QED
    BY <2>1, <2>2
<1>3. DominantNewline(text) = IF 2 * Cardinality(crlf) > Len(text) THEN "crlf" ELSE "lf"
  BY DEF DominantNewline
<1> HIDE DEF text
<1>4. CASE eol = "crlf"
  <2>1. crlf = 1 .. Len(words)
    BY <1>2, <1>4
  <2>2. Cardinality(1 .. Len(words)) = Len(words)
    <3>1. 1 \in Int /\ Len(words) \in Int /\ ~ (1 > Len(words))
      BY <1>1
    <3>2. Cardinality(1 .. Len(words)) = Len(words) - 1 + 1
      BY <3>1, FS_Interval
    <3> QED
      BY <1>1, <3>2
  <2>3. Cardinality(crlf) = Len(words)
    BY <2>1, <2>2
  <2> HIDE DEF crlf
  <2>4. 2 * Cardinality(crlf) > Len(text)
    BY <1>1, <1>2, <2>3
  <2> QED
    BY <1>3, <1>4, <2>4 DEF text
<1>5. CASE eol = "lf"
  <2>1. crlf = {}
    BY <1>2, <1>5
  <2>2. Cardinality(crlf) = 0
    BY <2>1, FS_EmptySet
  <2> HIDE DEF crlf
  <2> QED
    BY <1>1, <1>2, <1>3, <1>5, <2>2 DEF text
<1> QED
  BY <1>4, <1>5

\* A part of a sequence, and the least prefix it is in.
LEMMA FirstOccurrence ==
  ASSUME NEW S, NEW s \in Seq(S), NEW t \in Seq(S), s \in SubSeqs(t)
  PROVE  \E i \in 0 .. Len(t) : /\ s \in SubSeqs(SubSeq(t, 1, i))
                                /\ \A j \in 0 .. i - 1 : s \notin SubSeqs(SubSeq(t, 1, j))
<1> DEFINE T == {i \in 0 .. Len(t) : s \in SubSeqs(SubSeq(t, 1, i))}
<1>1. Len(t) \in T
  <2>1. SubSeq(t, 1, Len(t)) = t /\ Len(t) \in 0 .. Len(t)
    OBVIOUS
  <2> QED
    BY <2>1
<1>2. T \subseteq Nat
  OBVIOUS
<1> HIDE DEF T
<1>3. PICK x \in T : \A y \in T : ~ (<<y, x>> \in OpToRel(<, Nat))
  BY <1>1, <1>2, NatLessThanWellFounded, WFMin
<1>4. \A y \in T : ~ (y < x)
  <2> SUFFICES ASSUME NEW y \in T, y < x
               PROVE  FALSE
    OBVIOUS
  <2>1. <<y, x>> \in Nat \X Nat /\ <<y, x>>[1] = y /\ <<y, x>>[2] = x
    BY <1>2
  <2> QED
    BY <1>3, <2>1 DEF OpToRel
<1>5. x \in 0 .. Len(t) /\ s \in SubSeqs(SubSeq(t, 1, x))
  BY DEF T
<1>6. ASSUME NEW j \in 0 .. x - 1
      PROVE  s \notin SubSeqs(SubSeq(t, 1, j))
  <2>1. j \in 0 .. Len(t) /\ j < x
    BY <1>5
  <2> QED
    BY <1>4, <2>1 DEF T
<1> QED
  BY <1>5, <1>6

\* Replacing in a sequence gives a sequence.
LEMMA ReplacementSequence ==
  ASSUME NEW S, NEW r \in Seq(S), NEW s \in Seq(S), NEW t \in Seq(S)
  PROVE  ReplaceFirstSubSeq(r, s, t) \in Seq(S)
<1>1. CASE s \notin SubSeqs(t)
  BY <1>1 DEF ReplaceFirstSubSeq
<1>2. CASE s \in SubSeqs(t)
  <2> DEFINE last == CHOOSE i \in 0 .. Len(t) :
                       /\ s \in SubSeqs(SubSeq(t, 1, i))
                       /\ \A j \in 0 .. i - 1 : s \notin SubSeqs(SubSeq(t, 1, j))
  <2>1. last \in 0 .. Len(t)
    BY <1>2, FirstOccurrence
  <2> HIDE DEF last
  <2> DEFINE i == last - (Len(s) - 1)
  <2>2. ReplaceFirstSubSeq(r, s, t) = SubSeq(t, 1, i - 1) \o r \o SubSeq(t, i + Len(s), Len(t))
    BY <1>2 DEF ReplaceFirstSubSeq, ReplaceSubSeqAt, IndexFirstSubSeq, last
  <2>3. i - 1 \in Int /\ i - 1 <= Len(t) /\ i + Len(s) >= 1 /\ i + Len(s) \in Int
    BY <2>1
  <2> HIDE DEF i
  <2> DEFINE before == SubSeq(t, 1, i - 1)
             after == SubSeq(t, i + Len(s), Len(t))
  <2>4. before \in Seq(S)
    BY <2>3
  <2>5. after \in Seq(S)
    BY <2>3
  <2> HIDE DEF before, after
  <2>6. before \o r \o after \in Seq(S)
    BY <2>4, <2>5
  <2> QED
    BY <2>2, <2>6 DEF before, after
<1> QED
  BY <1>1, <1>2

\* Replacing the whole.
LEMMA WholeReplaced ==
  ASSUME NEW S, NEW r \in Seq(S), NEW s \in Seq(S)
  PROVE  ReplaceFirstSubSeq(r, s, s) = r
<1> DEFINE first(i) == /\ s \in SubSeqs(SubSeq(s, 1, i))
                       /\ \A j \in 0 .. i - 1 : s \notin SubSeqs(SubSeq(s, 1, j))
           last == CHOOSE i \in 0 .. Len(s) : first(i)
<1>1. s \in SubSeqs(s)
  <2>1. s = SubSeq(s, 0 + 1, Len(s)) /\ 0 \in 0 .. Len(s) /\ Len(s) \in 0 .. Len(s)
    OBVIOUS
  <2> QED
    BY <2>1 DEF SubSeqs
<1>2. last \in 0 .. Len(s) /\ s \in SubSeqs(SubSeq(s, 1, last))
  BY <1>1, FirstOccurrence
<1> HIDE DEF last
<1>3. last = Len(s)
  <2> DEFINE u == SubSeq(s, 1, last)
  <2>1. u \in Seq(S) /\ Len(u) = last
    BY <1>2
  <2> HIDE DEF u
  <2>2. PICK i \in 0 .. Len(u), j \in 0 .. Len(u) : s = SubSeq(u, i + 1, j)
    BY <1>2 DEF SubSeqs, u
  <2>3. Len(SubSeq(u, i + 1, j)) <= j
    BY <2>1, <2>2
  <2> QED
    BY <1>2, <2>1, <2>2, <2>3
<1>4. ReplaceFirstSubSeq(r, s, s) = SubSeq(s, 1, 0) \o r \o SubSeq(s, Len(s) + 1, Len(s))
  <2> DEFINE i == last - (Len(s) - 1)
  <2>1. ReplaceFirstSubSeq(r, s, s) = SubSeq(s, 1, i - 1) \o r \o SubSeq(s, i + Len(s), Len(s))
    BY <1>1 DEF ReplaceFirstSubSeq, ReplaceSubSeqAt, IndexFirstSubSeq, last
  <2>2. i = 1
    BY <1>3
  <2> HIDE DEF i
  <2>3. i - 1 = 0 /\ i + Len(s) = Len(s) + 1
    BY <2>2
  <2> QED
    BY <2>1, <2>3
<1>5. SubSeq(s, 1, 0) = <<>> /\ SubSeq(s, Len(s) + 1, Len(s)) = <<>>
  OBVIOUS
<1> QED
  BY <1>4, <1>5

\* The text a replacement of words gives: in the endings of the target.
Replaced(target, old, new) ==
  Text(ReplaceFirstSubSeq(Words(new), Words(old), Words(target)), DominantNewline(target))

\* The dominant line ending is one or the other.
LEMMA DominantEol == \A text : DominantNewline(text) \in {"lf", "crlf"}
  /\ DominantNewline(text) \in Eols
BY DEF DominantNewline, Eols

\* What a replacement that is accepted gives; something was there to be replaced.
LEMMA ReplaceFacts ==
  ASSUME NEW target \in Texts, NEW old \in Texts, NEW new \in Texts,
         ReplaceTextOnce(target, old, new).code = "ok"
  PROVE  /\ ReplaceTextOnce(target, old, new).text = Replaced(target, old, new)
         /\ target # <<>>
         /\ ReplaceFirstSubSeq(Words(new), Words(old), Words(target)) \in Seq(Word)
         /\ Replaced(target, old, new) \in Texts
         /\ Words(Replaced(target, old, new))
              = ReplaceFirstSubSeq(Words(new), Words(old), Words(target))
<1> DEFINE count == Occurrences(Words(target), Words(old))
           codes == << Fails(old = <<>>, "REPAIR_REPLACEMENT_INVALID"),
                       Fails(Words(old) = Words(new), "REPAIR_REPLACEMENT_NOOP"),
                       Fails(count = 0, "REPAIR_REPLACEMENT_MISSING"),
                       Fails(count > 1, "REPAIR_REPLACEMENT_AMBIGUOUS") >>
<1>1. /\ ReplaceTextOnce(target, old, new).code = FirstFailure(codes)
      /\ FirstFailure(codes) = "ok" =>
           ReplaceTextOnce(target, old, new).text = Replaced(target, old, new)
  BY DEF ReplaceTextOnce, Replaced
<1>2. codes[1] = "ok" /\ codes[3] = "ok"
  <2>1. DOMAIN codes \subseteq Nat /\ 1 \in DOMAIN codes /\ 3 \in DOMAIN codes
    OBVIOUS
  <2> HIDE DEF codes
  <2> QED
    BY <1>1, <2>1, FirstFailureOk
<1>3. old # <<>> /\ count # 0
  <2> HIDE DEF count
  <2> QED
    BY <1>2 DEF Fails
<1>4. target # <<>>
  <2> SUFFICES ASSUME target = <<>>
               PROVE  count = 0
    BY <1>3
  <2>1. Len(Words(target)) = 0 /\ Len(Words(old)) \in Nat \ {0}
    <3>1. Len(old) \in Nat \ {0} /\ Len(target) = 0
      BY <1>3 DEF Texts
    <3> QED
      BY <3>1, WordsFacts
  <2>2. {i \in 1 .. Len(Words(target)) - Len(Words(old)) + 1 :
           SubSeq(Words(target), i, i + Len(Words(old)) - 1) = Words(old)} = {}
    BY <2>1
  <2> QED
    BY <2>2, FS_EmptySet DEF Occurrences
<1>5. ReplaceFirstSubSeq(Words(new), Words(old), Words(target)) \in Seq(Word)
  BY WordsFacts, ReplacementSequence
<1> QED
  BY <1>1, <1>4, <1>5, TextFacts, DominantEol DEF Replaced

\* A text in the endings of the file replaces all of it.
LEMMA ReplaceWhole ==
  ASSUME NEW current \in Texts, NEW words \in Seq(Word),
         ReplaceTextOnce(current, current, Text(words, DominantNewline(current))).code = "ok"
  PROVE  ReplaceTextOnce(current, current, Text(words, DominantNewline(current))).text
           = Text(words, DominantNewline(current))
<1> DEFINE new == Text(words, DominantNewline(current))
<1>1. new \in Texts /\ Words(new) = words
  BY TextFacts, DominantEol
<1>2. ReplaceTextOnce(current, current, new).code = "ok"
  OBVIOUS
<1>3. ReplaceTextOnce(current, current, new).text = Replaced(current, current, new)
  <2> HIDE DEF new
  <2> QED
    BY <1>1, <1>2, ReplaceFacts
<1>4. ReplaceFirstSubSeq(Words(new), Words(current), Words(current)) = words
  <2> HIDE DEF new
  <2> QED
    BY <1>1, WordsFacts, WholeReplaced
<1> QED
  BY <1>3, <1>4 DEF Replaced

-----------------------------------------------------------------------------
(* The recursive functions, and what operations mean. *)

\* The documents satisfy the equation they are defined by.
LEMMA DocumentsEquation ==
  ASSUME NEW group, NEW current, Len(group) \in Nat
  PROVE  Documents(group, current) =
           [i \in 0 .. Len(group) |->
              IF i = 0 THEN [code |-> "ok", seen |-> {}, text |-> current]
              ELSE DependencyStep(Documents(group, current)[i - 1], group[i])]
<1> DEFINE first == [code |-> "ok", seen |-> {}, text |-> current]
           Step(x, i) == DependencyStep(x, group[i])
<1> HIDE DEF Step, first
<1> DEFINE Upto(n) == \E f : f = [i \in 0 .. n |-> IF i = 0 THEN first ELSE Step(f[i - 1], i)]
           S == {n \in Nat : Upto(n)}
<1>1. 0 \in S
  <2>1. [i \in 0 .. 0 |-> first] =
          [i \in 0 .. 0 |-> IF i = 0 THEN first ELSE Step([j \in 0 .. 0 |-> first][i - 1], i)]
    OBVIOUS
  <2> QED
    BY <2>1
<1>2. ASSUME NEW n \in Nat, n \in S
      PROVE  n + 1 \in S
  <2>1. PICK f : f = [i \in 0 .. n |-> IF i = 0 THEN first ELSE Step(f[i - 1], i)]
    BY <1>2
  <2> DEFINE g == [i \in 0 .. n + 1 |-> IF i = n + 1 THEN Step(f[n], n + 1) ELSE f[i]]
  <2>2. ASSUME NEW i \in 0 .. n + 1
        PROVE  g[i] = IF i = 0 THEN first ELSE Step(g[i - 1], i)
    <3>1. CASE i = n + 1
      <4>1. g[i - 1] = f[n] /\ i # 0
        BY <3>1
      <4> QED
        BY <3>1, <4>1
    <3>2. CASE i # n + 1
      <4>1. i \in 0 .. n /\ g[i] = f[i]
        BY <3>2
      <4>2. i # 0 => i - 1 \in 0 .. n + 1 /\ i - 1 # n + 1
        BY <4>1
      <4>3. i # 0 => g[i - 1] = f[i - 1]
        BY <4>2
      <4>4. f[i] = IF i = 0 THEN first ELSE Step(f[i - 1], i)
        BY <2>1, <4>1
      <4> QED
        BY <4>1, <4>3, <4>4
    <3> QED
      BY <3>1, <3>2
  <2>3. g = [i \in 0 .. n + 1 |-> IF i = 0 THEN first ELSE Step(g[i - 1], i)]
    <3> HIDE DEF g
    <3>1. DOMAIN g = 0 .. n + 1 /\ g = [i \in DOMAIN g |-> g[i]]
      BY DEF g
    <3> QED
      BY <2>2, <3>1
  <2> HIDE DEF g
  <2>4. Upto(n + 1)
    BY <2>3
  <2> QED
    BY <2>4
<1>3. Upto(Len(group))
  <2> HIDE DEF Upto
  <2>1. Nat \subseteq S
    <3> HIDE DEF S
    <3> QED
      BY <1>1, <1>2, InductiveSet
  <2> QED
    BY <2>1
<1> DEFINE W == Documents(group, current)
<1>4. W = CHOOSE f : f = [i \in 0 .. Len(group) |-> IF i = 0 THEN first ELSE Step(f[i - 1], i)]
  BY DEF Documents, first, Step
<1>5. W = [i \in 0 .. Len(group) |-> IF i = 0 THEN first ELSE Step(W[i - 1], i)]
  <2> HIDE DEF W
  <2> QED
    BY <1>3, <1>4
<1> QED
  BY <1>5 DEF first, Step

\* One operation more on the document.
LEMMA DocumentsStep ==
  ASSUME NEW group, NEW current, Len(group) \in Nat
  PROVE  /\ Documents(group, current)[0] = [code |-> "ok", seen |-> {}, text |-> current]
         /\ \A n \in Nat : n < Len(group) =>
              Documents(group, current)[n + 1]
                = DependencyStep(Documents(group, current)[n], group[n + 1])
<1> DEFINE W == Documents(group, current)
<1>1. W = [i \in 0 .. Len(group) |->
             IF i = 0 THEN [code |-> "ok", seen |-> {}, text |-> current]
             ELSE DependencyStep(W[i - 1], group[i])]
  BY DocumentsEquation
<1> HIDE DEF W
<1>2. W[0] = [code |-> "ok", seen |-> {}, text |-> current]
  BY <1>1
<1>3. ASSUME NEW n \in Nat, n < Len(group)
      PROVE  W[n + 1] = DependencyStep(W[n], group[n + 1])
  <2> DEFINE m == n + 1
  <2>1. m \in 0 .. Len(group) /\ m # 0 /\ m - 1 = n
    BY <1>3
  <2> HIDE DEF m
  <2>2. W[m] = DependencyStep(W[m - 1], group[m])
    BY <1>1, <2>1
  <2> QED
    BY <2>1, <2>2 DEF m
<1> QED
  BY <1>2, <1>3 DEF W

\* The replacements satisfy the equation they are defined by.
LEMMA ReplacementsEquation ==
  ASSUME NEW group, NEW current, Len(group) \in Nat
  PROVE  Replacements(group, current) =
           [i \in 0 .. Len(group) |->
              IF i = 0 THEN [code |-> "ok", text |-> current]
              ELSE ReplaceStep(Replacements(group, current)[i - 1], group[i])]
<1> DEFINE first == [code |-> "ok", text |-> current]
           Step(x, i) == ReplaceStep(x, group[i])
<1> HIDE DEF Step, first
<1> DEFINE Upto(n) == \E f : f = [i \in 0 .. n |-> IF i = 0 THEN first ELSE Step(f[i - 1], i)]
           S == {n \in Nat : Upto(n)}
<1>1. 0 \in S
  <2>1. [i \in 0 .. 0 |-> first] =
          [i \in 0 .. 0 |-> IF i = 0 THEN first ELSE Step([j \in 0 .. 0 |-> first][i - 1], i)]
    OBVIOUS
  <2> QED
    BY <2>1
<1>2. ASSUME NEW n \in Nat, n \in S
      PROVE  n + 1 \in S
  <2>1. PICK f : f = [i \in 0 .. n |-> IF i = 0 THEN first ELSE Step(f[i - 1], i)]
    BY <1>2
  <2> DEFINE g == [i \in 0 .. n + 1 |-> IF i = n + 1 THEN Step(f[n], n + 1) ELSE f[i]]
  <2>2. ASSUME NEW i \in 0 .. n + 1
        PROVE  g[i] = IF i = 0 THEN first ELSE Step(g[i - 1], i)
    <3>1. CASE i = n + 1
      <4>1. g[i - 1] = f[n] /\ i # 0
        BY <3>1
      <4> QED
        BY <3>1, <4>1
    <3>2. CASE i # n + 1
      <4>1. i \in 0 .. n /\ g[i] = f[i]
        BY <3>2
      <4>2. i # 0 => i - 1 \in 0 .. n + 1 /\ i - 1 # n + 1
        BY <4>1
      <4>3. i # 0 => g[i - 1] = f[i - 1]
        BY <4>2
      <4>4. f[i] = IF i = 0 THEN first ELSE Step(f[i - 1], i)
        BY <2>1, <4>1
      <4> QED
        BY <4>1, <4>3, <4>4
    <3> QED
      BY <3>1, <3>2
  <2>3. g = [i \in 0 .. n + 1 |-> IF i = 0 THEN first ELSE Step(g[i - 1], i)]
    <3> HIDE DEF g
    <3>1. DOMAIN g = 0 .. n + 1 /\ g = [i \in DOMAIN g |-> g[i]]
      BY DEF g
    <3> QED
      BY <2>2, <3>1
  <2> HIDE DEF g
  <2>4. Upto(n + 1)
    BY <2>3
  <2> QED
    BY <2>4
<1>3. Upto(Len(group))
  <2> HIDE DEF Upto
  <2>1. Nat \subseteq S
    <3> HIDE DEF S
    <3> QED
      BY <1>1, <1>2, InductiveSet
  <2> QED
    BY <2>1
<1> DEFINE W == Replacements(group, current)
<1>4. W = CHOOSE f : f = [i \in 0 .. Len(group) |-> IF i = 0 THEN first ELSE Step(f[i - 1], i)]
  BY DEF Replacements, first, Step
<1>5. W = [i \in 0 .. Len(group) |-> IF i = 0 THEN first ELSE Step(W[i - 1], i)]
  <2> HIDE DEF W
  <2> QED
    BY <1>3, <1>4
<1> QED
  BY <1>5 DEF first, Step

\* One replacement more.
LEMMA ReplacementsStep ==
  ASSUME NEW group, NEW current, Len(group) \in Nat
  PROVE  /\ Replacements(group, current)[0] = [code |-> "ok", text |-> current]
         /\ \A n \in Nat : n < Len(group) =>
              Replacements(group, current)[n + 1]
                = ReplaceStep(Replacements(group, current)[n], group[n + 1])
<1> DEFINE W == Replacements(group, current)
<1>1. W = [i \in 0 .. Len(group) |->
             IF i = 0 THEN [code |-> "ok", text |-> current]
             ELSE ReplaceStep(W[i - 1], group[i])]
  BY ReplacementsEquation
<1> HIDE DEF W
<1>2. W[0] = [code |-> "ok", text |-> current]
  BY <1>1
<1>3. ASSUME NEW n \in Nat, n < Len(group)
      PROVE  W[n + 1] = ReplaceStep(W[n], group[n + 1])
  <2> DEFINE m == n + 1
  <2>1. m \in 0 .. Len(group) /\ m # 0 /\ m - 1 = n
    BY <1>3
  <2> HIDE DEF m
  <2>2. W[m] = ReplaceStep(W[m - 1], group[m])
    BY <1>1, <2>1
  <2> QED
    BY <2>1, <2>2 DEF m
<1> QED
  BY <1>2, <1>3 DEF W

\* What is meant satisfies the equation it is defined by.
LEMMA MeantEquation ==
  ASSUME NEW edits, NEW ws, NEW path, Len(edits) \in Nat
  PROVE  MeantAfter(edits, ws, path) =
           [i \in 0 .. Len(edits) |->
              IF i = 0 THEN {Words(ws[path])}
              ELSE MeantStep(MeantAfter(edits, ws, path)[i - 1], edits[i], path)]
<1> DEFINE first == {Words(ws[path])}
           Step(x, i) == MeantStep(x, edits[i], path)
<1> HIDE DEF Step, first
<1> DEFINE Upto(n) == \E f : f = [i \in 0 .. n |-> IF i = 0 THEN first ELSE Step(f[i - 1], i)]
           S == {n \in Nat : Upto(n)}
<1>1. 0 \in S
  <2>1. [i \in 0 .. 0 |-> first] =
          [i \in 0 .. 0 |-> IF i = 0 THEN first ELSE Step([j \in 0 .. 0 |-> first][i - 1], i)]
    OBVIOUS
  <2> QED
    BY <2>1
<1>2. ASSUME NEW n \in Nat, n \in S
      PROVE  n + 1 \in S
  <2>1. PICK f : f = [i \in 0 .. n |-> IF i = 0 THEN first ELSE Step(f[i - 1], i)]
    BY <1>2
  <2> DEFINE g == [i \in 0 .. n + 1 |-> IF i = n + 1 THEN Step(f[n], n + 1) ELSE f[i]]
  <2>2. ASSUME NEW i \in 0 .. n + 1
        PROVE  g[i] = IF i = 0 THEN first ELSE Step(g[i - 1], i)
    <3>1. CASE i = n + 1
      <4>1. g[i - 1] = f[n] /\ i # 0
        BY <3>1
      <4> QED
        BY <3>1, <4>1
    <3>2. CASE i # n + 1
      <4>1. i \in 0 .. n /\ g[i] = f[i]
        BY <3>2
      <4>2. i # 0 => i - 1 \in 0 .. n + 1 /\ i - 1 # n + 1
        BY <4>1
      <4>3. i # 0 => g[i - 1] = f[i - 1]
        BY <4>2
      <4>4. f[i] = IF i = 0 THEN first ELSE Step(f[i - 1], i)
        BY <2>1, <4>1
      <4> QED
        BY <4>1, <4>3, <4>4
    <3> QED
      BY <3>1, <3>2
  <2>3. g = [i \in 0 .. n + 1 |-> IF i = 0 THEN first ELSE Step(g[i - 1], i)]
    <3> HIDE DEF g
    <3>1. DOMAIN g = 0 .. n + 1 /\ g = [i \in DOMAIN g |-> g[i]]
      BY DEF g
    <3> QED
      BY <2>2, <3>1
  <2> HIDE DEF g
  <2>4. Upto(n + 1)
    BY <2>3
  <2> QED
    BY <2>4
<1>3. Upto(Len(edits))
  <2> HIDE DEF Upto
  <2>1. Nat \subseteq S
    <3> HIDE DEF S
    <3> QED
      BY <1>1, <1>2, InductiveSet
  <2> QED
    BY <2>1
<1> DEFINE W == MeantAfter(edits, ws, path)
<1>4. W = CHOOSE f : f = [i \in 0 .. Len(edits) |-> IF i = 0 THEN first ELSE Step(f[i - 1], i)]
  BY DEF MeantAfter, first, Step
<1>5. W = [i \in 0 .. Len(edits) |-> IF i = 0 THEN first ELSE Step(W[i - 1], i)]
  <2> HIDE DEF W
  <2> QED
    BY <1>3, <1>4
<1> QED
  BY <1>5 DEF first, Step

\* What one operation more means.
LEMMA MeantAfterStep ==
  ASSUME NEW edits, NEW ws, NEW path, Len(edits) \in Nat
  PROVE  /\ MeantAfter(edits, ws, path)[0] = {Words(ws[path])}
         /\ \A n \in Nat : n < Len(edits) =>
              MeantAfter(edits, ws, path)[n + 1]
                = MeantStep(MeantAfter(edits, ws, path)[n], edits[n + 1], path)
<1> DEFINE W == MeantAfter(edits, ws, path)
<1>1. W = [i \in 0 .. Len(edits) |->
             IF i = 0 THEN {Words(ws[path])}
             ELSE MeantStep(W[i - 1], edits[i], path)]
  BY MeantEquation
<1> HIDE DEF W
<1>2. W[0] = {Words(ws[path])}
  BY <1>1
<1>3. ASSUME NEW n \in Nat, n < Len(edits)
      PROVE  W[n + 1] = MeantStep(W[n], edits[n + 1], path)
  <2> DEFINE m == n + 1
  <2>1. m \in 0 .. Len(edits) /\ m # 0 /\ m - 1 = n
    BY <1>3
  <2> HIDE DEF m
  <2>2. W[m] = MeantStep(W[m - 1], edits[m], path)
    BY <1>1, <2>1
  <2> QED
    BY <2>1, <2>2 DEF m
<1> QED
  BY <1>2, <1>3 DEF W

\* What operations mean does not depend on the operations that follow them.
LEMMA MeantOfAppend ==
  ASSUME NEW S, NEW s \in Seq(S), NEW o \in S, NEW ws, NEW p
  PROVE  MeantAll(Append(s, o), ws, p) = MeantStep(MeantAll(s, ws, p), o, p)
<1> DEFINE t == Append(s, o)
           M == MeantAfter(s, ws, p)
           W == MeantAfter(t, ws, p)
           G == {m \in Nat : m <= Len(s) => W[m] = M[m]}
<1>1. /\ t \in Seq(S) /\ Len(s) \in Nat /\ Len(t) = Len(s) + 1
      /\ t[Len(s) + 1] = o /\ \A i \in 1 .. Len(s) : t[i] = s[i]
  OBVIOUS
<1> HIDE DEF t
<1>2. Len(t) \in Nat
  BY <1>1
<1>3. /\ M[0] = {Words(ws[p])}
      /\ \A n \in Nat : n < Len(s) => M[n + 1] = MeantStep(M[n], s[n + 1], p)
  BY <1>1, MeantAfterStep
<1>4. /\ W[0] = {Words(ws[p])}
      /\ \A n \in Nat : n < Len(t) => W[n + 1] = MeantStep(W[n], t[n + 1], p)
  BY <1>2, MeantAfterStep
<1>5. MeantAll(t, ws, p) = W[Len(t)] /\ MeantAll(s, ws, p) = M[Len(s)]
  BY DEF MeantAll
<1> HIDE DEF M, W
<1>6. 0 \in G
  BY <1>3, <1>4
<1>7. ASSUME NEW m \in Nat, m \in G
      PROVE  m + 1 \in G
  <2> SUFFICES ASSUME m + 1 <= Len(s)
               PROVE  W[m + 1] = M[m + 1]
    OBVIOUS
  <2>1. W[m] = M[m] /\ m < Len(s) /\ m < Len(t) /\ m + 1 \in 1 .. Len(s)
    BY <1>1, <1>7
  <2>2. W[m + 1] = MeantStep(W[m], t[m + 1], p) /\ M[m + 1] = MeantStep(M[m], s[m + 1], p)
    BY <1>3, <1>4, <2>1
  <2> QED
    BY <1>1, <2>1, <2>2
<1>8. Nat \subseteq G
  <2> HIDE DEF G
  <2> QED
    BY <1>6, <1>7, InductiveSet
<1>9. W[Len(s)] = M[Len(s)]
  BY <1>1, <1>8
<1>10. W[Len(s) + 1] = MeantStep(W[Len(s)], t[Len(s) + 1], p)
  <2>1. Len(s) < Len(t)
    BY <1>1
  <2> QED
    BY <1>1, <1>4, <2>1
<1> QED
  BY <1>1, <1>5, <1>9, <1>10 DEF t

\* No operations mean that the file stays.
LEMMA MeantOfNothing ==
  ASSUME NEW ws, NEW p
  PROVE  MeantAll(<<>>, ws, p) = {Words(ws[p])}
<1>1. Len(<<>>) \in Nat /\ Len(<<>>) = 0
  OBVIOUS
<1>2. MeantAfter(<<>>, ws, p)[0] = {Words(ws[p])}
  BY <1>1, MeantAfterStep
<1> QED
  BY <1>1, <1>2 DEF MeantAll

\* For a file only the operations on it matter.
LEMMA MeantOfGroup ==
  ASSUME NEW S, NEW edits \in Seq(S), NEW ws, NEW p, TransitionsIn(edits) = {}
  PROVE  MeantAll(edits, ws, p) = MeantAll(GroupOf(edits, p), ws, p)
<1> DEFINE I == {i \in DOMAIN edits \ TransitionsIn(edits) : edits[i].path = p}
           W == Picking(edits, I)
           M == MeantAfter(edits, ws, p)
           G == {m \in Nat : m <= Len(edits) => M[m] = MeantAll(W[m], ws, p)}
<1>1. Len(edits) \in Nat /\ DOMAIN edits = 1 .. Len(edits)
      /\ \A i \in 1 .. Len(edits) : edits[i] \in S /\ (i \in I <=> edits[i].path = p)
  OBVIOUS
<1>2. GroupOf(edits, p) = W[Len(edits)] /\ MeantAll(edits, ws, p) = M[Len(edits)]
  BY DEF GroupOf, Picked, MeantAll
<1> HIDE DEF I
<1>3. /\ W[0] = <<>>
      /\ \A m \in Nat : m < Len(edits) =>
           W[m + 1] = IF m + 1 \in I THEN Append(W[m], edits[m + 1]) ELSE W[m]
  BY <1>1, PickingStep
<1>4. \A m \in 0 .. Len(edits) : W[m] \in Seq(S)
  BY PickingElements
<1>5. /\ M[0] = {Words(ws[p])}
      /\ \A n \in Nat : n < Len(edits) => M[n + 1] = MeantStep(M[n], edits[n + 1], p)
  BY <1>1, MeantAfterStep
<1> HIDE DEF W, M
<1>6. 0 \in G
  <2>1. M[0] = MeantAll(W[0], ws, p)
    BY <1>3, <1>5, MeantOfNothing
  <2> QED
    BY <2>1
<1>7. ASSUME NEW m \in Nat, m \in G
      PROVE  m + 1 \in G
  <2> SUFFICES ASSUME m + 1 <= Len(edits)
               PROVE  M[m + 1] = MeantAll(W[m + 1], ws, p)
    OBVIOUS
  <2>1. M[m] = MeantAll(W[m], ws, p) /\ m < Len(edits) /\ m \in 0 .. Len(edits)
        /\ m + 1 \in 1 .. Len(edits)
    BY <1>1, <1>7
  <2>2. M[m + 1] = MeantStep(M[m], edits[m + 1], p)
    BY <1>5, <2>1
  <2>3. CASE m + 1 \in I
    <3>1. W[m + 1] = Append(W[m], edits[m + 1])
      BY <1>3, <2>1, <2>3
    <3>2. W[m] \in Seq(S) /\ edits[m + 1] \in S
      BY <1>1, <1>4, <2>1
    <3>3. MeantAll(W[m + 1], ws, p) = MeantStep(MeantAll(W[m], ws, p), edits[m + 1], p)
      BY <3>1, <3>2, MeantOfAppend
    <3> QED
      BY <2>1, <2>2, <3>3
  <2>4. CASE m + 1 \notin I
    <3>1. W[m + 1] = W[m] /\ edits[m + 1].path # p
      BY <1>1, <1>3, <2>1, <2>4
    <3> QED
      BY <2>1, <2>2, <3>1 DEF MeantStep
  <2> QED
    BY <2>3, <2>4
<1>8. Nat \subseteq G
  <2> HIDE DEF G
  <2> QED
    BY <1>6, <1>7, InductiveSet
<1>9. M[Len(edits)] = MeantAll(W[Len(edits)], ws, p)
  BY <1>1, <1>8
<1> QED
  BY <1>2, <1>9

\* Replacements one after the other: the words are what they mean, the endings the file's.
LEMMA ReplacementsMeant ==
  ASSUME NEW ws, NEW p, ws[p] \in Texts, NEW group \in Seq(Operation),
         \A i \in DOMAIN group : group[i].operation = "replace_text" /\ group[i].path = p,
         NEW n \in 0 .. Len(group), Replacements(group, ws[p])[n].code = "ok"
  PROVE  /\ MeantAfter(group, ws, p)[n] = {Words(Replacements(group, ws[p])[n].text)}
         /\ Replacements(group, ws[p])[n].text \in Texts
         /\ n # 0 => \E words \in Seq(Word) :
              Replacements(group, ws[p])[n].text = Text(words, DominantNewline(ws[p]))
<1> DEFINE R == Replacements(group, ws[p])
           M == MeantAfter(group, ws, p)
           InEndings(text) == \E words \in Seq(Word) : text = Text(words, DominantNewline(ws[p]))
           Good(m) == /\ M[m] = {Words(R[m].text)} /\ R[m].text \in Texts
                      /\ m # 0 => InEndings(R[m].text)
           G == {m \in Nat : m <= Len(group) => (R[m].code = "ok" => Good(m))}
<1>1. Len(group) \in Nat /\ DOMAIN group = 1 .. Len(group)
      /\ \A i \in 1 .. Len(group) : group[i] \in Operation
  OBVIOUS
<1>2. /\ R[0] = [code |-> "ok", text |-> ws[p]]
      /\ \A m \in Nat : m < Len(group) => R[m + 1] = ReplaceStep(R[m], group[m + 1])
  BY <1>1, ReplacementsStep
<1>3. /\ M[0] = {Words(ws[p])}
      /\ \A m \in Nat : m < Len(group) => M[m + 1] = MeantStep(M[m], group[m + 1], p)
  BY <1>1, MeantAfterStep
<1> HIDE DEF R, M
<1>4. 0 \in G
  BY <1>2, <1>3
<1>5. ASSUME NEW m \in Nat, m \in G
      PROVE  m + 1 \in G
  <2> SUFFICES ASSUME m + 1 <= Len(group), R[m + 1].code = "ok"
               PROVE  Good(m + 1)
    OBVIOUS
  <2> DEFINE o == group[m + 1]
             old == R[m].text
             new == R[m + 1].text
  <2>1. m < Len(group) /\ m + 1 \in 1 .. Len(group) /\ m + 1 # 0
    BY <1>1
  <2>2. o \in Operation /\ o.operation = "replace_text" /\ o.path = p
    BY <1>1, <2>1
  <2>3. o.old \in Texts /\ o.new \in Texts
    BY <2>2 DEF Operation
  <2>4. R[m + 1] = ReplaceStep(R[m], o) /\ M[m + 1] = MeantStep(M[m], o, p)
    BY <1>2, <1>3, <2>1
  <2> HIDE DEF o
  <2>5. R[m].code = "ok" /\ R[m + 1] = ReplaceTextOnce(old, o.old, o.new)
    BY <2>4 DEF ReplaceStep
  <2>6. Good(m)
    BY <1>5, <2>1, <2>5
  <2>7. /\ new = Replaced(old, o.old, o.new) /\ old # <<>> /\ new \in Texts
        /\ ReplaceFirstSubSeq(Words(o.new), Words(o.old), Words(old)) \in Seq(Word)
        /\ Words(new) = ReplaceFirstSubSeq(Words(o.new), Words(o.old), Words(old))
    BY <2>3, <2>5, <2>6, ReplaceFacts
  <2>8. M[m + 1] = {Words(new)}
    <3>1. M[m + 1] = UNION {Meant(words, o) : words \in {Words(old)}}
      BY <2>2, <2>4, <2>6 DEF MeantStep
    <3>2. Meant(Words(old), o) = {ReplaceFirstSubSeq(Words(o.new), Words(o.old), Words(old))}
      BY <2>2 DEF Meant
    <3>3. UNION {Meant(words, o) : words \in {Words(old)}} = Meant(Words(old), o)
      OBVIOUS
    <3> QED
      BY <2>7, <3>1, <3>2, <3>3
  <2>9. DominantNewline(old) = DominantNewline(ws[p])
    <3>1. CASE m = 0
      BY <1>2, <3>1
    <3>2. CASE m # 0
      <4>1. PICK words \in Seq(Word) : old = Text(words, DominantNewline(ws[p]))
        BY <2>6, <3>2
      <4>2. words # <<>>
        <5>1. Text(<<>>, DominantNewline(ws[p])) = <<>>
          BY DEF Text
        <5> QED
          BY <2>7, <4>1, <5>1
      <4> QED
        BY <4>1, <4>2, DominantOfText, DominantEol
    <3> QED
      BY <3>1, <3>2
  <2>10. InEndings(new)
    BY <2>7, <2>9 DEF Replaced
  <2> QED
    BY <2>7, <2>8, <2>10
<1>6. Nat \subseteq G
  <2> HIDE DEF G
  <2> QED
    BY <1>4, <1>5, InductiveSet
<1>7. R[n].code = "ok" /\ n \in Nat /\ n <= Len(group)
  BY DEF R
<1>8. Good(n)
  BY <1>6, <1>7
<1> QED
  BY <1>8 DEF R, M

\* An operation whose entry, if it gives one, is a word.
Edit == {o \in Operation : FieldsGiven(o) => Entry(o) \in Word}

\* A step is accepted only after accepted ones, only with all fields, and a change only of
\* what is declared once.
LEMMA DocumentStepAccepted ==
  ASSUME NEW doc, NEW o, DependencyStep(doc, o).code = "ok"
  PROVE  /\ doc.code = "ok" /\ FieldsGiven(o)
         /\ LET add == o.operation = "dependency_add"
                found == Declared(doc.text, o.package)
                line == [word |-> Entry(o), eol |-> "lf"]
            IN /\ ~add => found # {} /\ ~(Cardinality(found) > 1)
               /\ DependencyStep(doc, o).text =
                    IF add THEN Append(doc.text, line)
                    ELSE [i \in DOMAIN doc.text |-> IF i \in found THEN line ELSE doc.text[i]]
<1> DEFINE add == o.operation = "dependency_add"
           found == Declared(doc.text, o.package)
           section == {doc.text[i].word[1] : i \in found}
           codes == <<
        doc.code,
        Fails(~FieldsGiven(o), "REPAIR_DEPENDENCY_INTENT_INVALID"),
        Fails(o.section \notin (IF add THEN AdditionSections ELSE DependencySections),
              "REPAIR_DEPENDENCY_SECTION_INVALID"),
        Fails(\E e \in doc.seen : e[1] = o.section /\ e[2] = o.package /\ e[3] # o.version,
              "REPAIR_DEPENDENCY_CONFLICT"),
        Fails(add /\ found # {}, "REPAIR_DEPENDENCY_ALREADY_PRESENT"),
        Fails(add /\ ~PolicyAllows(o), "REPAIR_DEPENDENCY_VERSION_INVALID"),
        Fails(~add /\ found = {}, "REPAIR_DEPENDENCY_PACKAGE_MISSING"),
        Fails(~add /\ Cardinality(found) > 1, "REPAIR_DEPENDENCY_PACKAGE_AMBIGUOUS"),
        Fails(~add /\ o.section \notin section, "REPAIR_DEPENDENCY_SECTION_MISMATCH"),
        Fails(~add /\ \A i \in found : doc.text[i].word = Entry(o),
              "REPAIR_REPLACEMENT_NOOP") >>
           line == [word |-> Entry(o), eol |-> "lf"]
           after == IF add THEN Append(doc.text, line)
                    ELSE [i \in DOMAIN doc.text |-> IF i \in found THEN line ELSE doc.text[i]]
<1>1. /\ FirstFailure(codes) = "ok"
      /\ DependencyStep(doc, o).text = after
  BY DEF DependencyStep
<1>2. codes[1] = "ok" /\ codes[2] = "ok" /\ codes[7] = "ok" /\ codes[8] = "ok"
  <2>1. DOMAIN codes \subseteq Nat /\ 1 \in DOMAIN codes /\ 2 \in DOMAIN codes
        /\ 7 \in DOMAIN codes /\ 8 \in DOMAIN codes
    OBVIOUS
  <2> HIDE DEF codes
  <2> QED
    BY <1>1, <2>1, FirstFailureOk
<1>3. doc.code = "ok" /\ FieldsGiven(o)
  BY <1>2 DEF Fails
<1>4. ~add => found # {} /\ ~(Cardinality(found) > 1)
  <2> HIDE DEF found, add
  <2> QED
    BY <1>2 DEF Fails
<1> HIDE DEF after
<1> QED
  BY <1>1, <1>3, <1>4 DEF after

\* What a step on the document that is accepted does is what its operation means.
LEMMA DocumentStepMeant ==
  ASSUME NEW doc, NEW o \in Edit, doc.text \in Texts,
         o.operation \in {"dependency_change", "dependency_add"},
         DependencyStep(doc, o).code = "ok"
  PROVE  /\ doc.code = "ok" /\ FieldsGiven(o)
         /\ DependencyStep(doc, o).text \in Texts
         /\ Meant(Words(doc.text), o) = {Words(DependencyStep(doc, o).text)}
<1> DEFINE text == doc.text
           add == o.operation = "dependency_add"
           found == Declared(text, o.package)
           line == [word |-> Entry(o), eol |-> "lf"]
           after == DependencyStep(doc, o).text
<1>1. doc.code = "ok" /\ FieldsGiven(o)
  BY DocumentStepAccepted
<1>2. ~add => found # {} /\ ~(Cardinality(found) > 1)
  BY DocumentStepAccepted
<1>3. Entry(o) \in Word /\ line \in [word : Word, eol : Eols]
  BY <1>1 DEF Edit, Eols
<1>4. /\ Len(text) \in Nat /\ DOMAIN text = 1 .. Len(text)
      /\ \A i \in 1 .. Len(text) : text[i] \in [word : Word, eol : Eols]
  <2> DEFINE Line == [word : Word, eol : Eols]
  <2>1. text \in Seq(Line)
    BY DEF Texts
  <2> HIDE DEF Line, text
  <2>2. /\ Len(text) \in Nat /\ DOMAIN text = 1 .. Len(text)
        /\ \A i \in 1 .. Len(text) : text[i] \in Line
    BY <2>1
  <2> QED
    BY <2>2 DEF Line
<1>5. /\ Words(text) \in Seq(Word) /\ Len(Words(text)) = Len(text)
           /\ DOMAIN Words(text) = DOMAIN text
      /\ \A i \in DOMAIN text : Words(text)[i] = text[i].word
  BY WordsFacts
<1>6. after = IF add THEN Append(text, line)
              ELSE [i \in DOMAIN text |-> IF i \in found THEN line ELSE text[i]]
  BY DocumentStepAccepted
<1> HIDE DEF after
<1>7. CASE add
  <2>1. after = Append(text, line) /\ text \in Seq([word : Word, eol : Eols])
    BY <1>6, <1>7 DEF Texts
  <2>2. after \in Texts
    BY <1>3, <2>1 DEF Texts
  <2>3. Words(after) = Append(Words(text), Entry(o))
    <3>1. /\ DOMAIN after = 1 .. Len(text) + 1 /\ after[Len(text) + 1] = line
          /\ \A i \in 1 .. Len(text) : after[i] = text[i]
      BY <1>4, <2>1
    <3>2. Words(after) = [i \in 1 .. Len(text) + 1 |-> after[i].word]
      BY <3>1 DEF Words
    <3> DEFINE w == Append(Words(text), Entry(o))
    <3>3. /\ w \in Seq(Word) /\ DOMAIN w = 1 .. Len(text) + 1 /\ w[Len(text) + 1] = Entry(o)
          /\ \A i \in 1 .. Len(text) : w[i] = Words(text)[i]
      BY <1>3, <1>4, <1>5
    <3> HIDE DEF w
    <3>4. w = [i \in 1 .. Len(text) + 1 |-> w[i]]
      BY <3>3
    <3>5. \A i \in 1 .. Len(text) + 1 : w[i] = after[i].word
      <4> TAKE i \in 1 .. Len(text) + 1
      <4>1. CASE i = Len(text) + 1
        BY <4>1, <3>1, <3>3
      <4>2. CASE i # Len(text) + 1
        <5>1. i \in 1 .. Len(text) /\ i \in DOMAIN text
          BY <1>4, <4>2
        <5> QED
          BY <5>1, <1>5, <3>1, <3>3
      <4> QED
        BY <4>1, <4>2
    <3> QED
      BY <3>2, <3>4, <3>5 DEF w
  <2>4. Meant(Words(text), o) = {Append(Words(text), Entry(o))}
    BY <1>7 DEF Meant
  <2> QED
    BY <1>1, <2>2, <2>3, <2>4 DEF after
<1>8. CASE ~add
  <2>1. PICK k \in found : found = {k}
    <3>1. PICK k : k \in found
      BY <1>2, <1>8
    <3>2. IsFiniteSet(found)
      <4>1. IsFiniteSet(1 .. Len(text))
        BY <1>4, FS_Interval
      <4>2. found \subseteq 1 .. Len(text)
        BY <1>4 DEF Declared, Entries
      <4> HIDE DEF found
      <4> QED
        BY <4>1, <4>2, FS_Subset
    <3> HIDE DEF found
    <3>3. ASSUME NEW l \in found, l # k
          PROVE  FALSE
      <4>1. {k, l} \subseteq found /\ Cardinality({k, l}) = 2
        <5>1. IsFiniteSet({k}) /\ Cardinality({k}) = 1 /\ l \notin {k}
          BY <3>3, FS_Singleton
        <5>2. Cardinality({k} \cup {l}) = 2
          BY <5>1, FS_AddElement
        <5>3. {k} \cup {l} = {k, l}
          OBVIOUS
        <5> QED
          BY <3>1, <5>2, <5>3
      <4>2. Cardinality({k, l}) <= Cardinality(found)
        BY <3>2, <4>1, FS_Subset
      <4>3. Cardinality(found) \in Nat
        BY <3>2, FS_CardinalityType
      <4> QED
        BY <1>2, <1>8, <4>1, <4>2, <4>3
    <3>4. found = {k}
      BY <3>1, <3>3
    <3> QED
      BY <3>1, <3>4
  <2>2. k \in DOMAIN text /\ Len(text[k].word) = 3 /\ text[k].word[2] = o.package
    BY <2>1 DEF Declared, Entries
  <2>3. \A i \in DOMAIN text : Len(text[i].word) = 3 /\ text[i].word[2] = o.package => i = k
    BY <2>1 DEF Declared, Entries
  <2> HIDE DEF found
  <2>4. after = [i \in DOMAIN text |-> IF i = k THEN line ELSE text[i]]
    BY <1>6, <1>8, <2>1
  <2>5. after \in Texts
    <3>1. after \in Seq([word : Word, eol : Eols])
      BY <1>3, <1>4, <2>4
    <3> QED
      BY <3>1 DEF Texts
  <2>6. Words(after) = [i \in DOMAIN text |-> IF i = k THEN Entry(o) ELSE text[i].word]
    BY <2>4 DEF Words
  <2> DEFINE old == text[k].word
  <2>7. ReplaceAll(Words(text), old, Entry(o)) = Words(after)
    <3>1. \A i \in DOMAIN text : text[i].word = old <=> i = k
      BY <2>2, <2>3
    <3>2. ReplaceAll(Words(text), old, Entry(o))
            = [i \in DOMAIN text |-> IF text[i].word = old THEN Entry(o) ELSE text[i].word]
      BY <1>4, <1>5 DEF ReplaceAll
    <3> HIDE DEF old
    <3> QED
      BY <2>6, <3>1, <3>2
  <2>8. {f \in ToSet(Words(text)) : Len(f) = 3 /\ f[2] = o.package} = {old}
    <3>1. ToSet(Words(text)) = {text[i].word : i \in DOMAIN text}
      BY <1>5 DEF ToSet
    <3> QED
      BY <2>2, <2>3, <3>1
  <2>9. Meant(Words(text), o) =
          {ReplaceAll(Words(text), e, Entry(o)) :
             e \in {f \in ToSet(Words(text)) : Len(f) = 3 /\ f[2] = o.package}}
    <3>1. o.operation = "dependency_change" /\ ~FieldsMissing(o)
      BY <1>1, <1>8 DEF FieldsGiven, FieldsMissing
    <3> QED
      BY <1>1, <3>1 DEF Meant
  <2> HIDE DEF old
  <2>10. Meant(Words(text), o) = {ReplaceAll(Words(text), old, Entry(o))}
    BY <2>8, <2>9
  <2> QED
    BY <1>1, <2>5, <2>7, <2>10 DEF after
<1> QED
  BY <1>7, <1>8

\* Operations on the document one after the other.
LEMMA DocumentsMeant ==
  ASSUME NEW ws, NEW p, ws[p] \in Texts, NEW group \in Seq(Edit),
         \A i \in DOMAIN group :
           group[i].operation \in {"dependency_change", "dependency_add"} /\ group[i].path = p,
         NEW n \in 0 .. Len(group), Documents(group, ws[p])[n].code = "ok"
  PROVE  /\ MeantAfter(group, ws, p)[n] = {Words(Documents(group, ws[p])[n].text)}
         /\ Documents(group, ws[p])[n].text \in Texts
<1> DEFINE D == Documents(group, ws[p])
           M == MeantAfter(group, ws, p)
           Good(m) == M[m] = {Words(D[m].text)} /\ D[m].text \in Texts
           G == {m \in Nat : m <= Len(group) => (D[m].code = "ok" => Good(m))}
<1>1. Len(group) \in Nat /\ DOMAIN group = 1 .. Len(group)
      /\ \A i \in 1 .. Len(group) : group[i] \in Edit
  OBVIOUS
<1>2. /\ D[0] = [code |-> "ok", seen |-> {}, text |-> ws[p]]
      /\ \A m \in Nat : m < Len(group) => D[m + 1] = DependencyStep(D[m], group[m + 1])
  BY <1>1, DocumentsStep
<1>3. /\ M[0] = {Words(ws[p])}
      /\ \A m \in Nat : m < Len(group) => M[m + 1] = MeantStep(M[m], group[m + 1], p)
  BY <1>1, MeantAfterStep
<1> HIDE DEF D, M
<1>4. 0 \in G
  BY <1>2, <1>3
<1>5. ASSUME NEW m \in Nat, m \in G
      PROVE  m + 1 \in G
  <2> SUFFICES ASSUME m + 1 <= Len(group), D[m + 1].code = "ok"
               PROVE  Good(m + 1)
    OBVIOUS
  <2> DEFINE o == group[m + 1]
  <2>1. m < Len(group) /\ m + 1 \in 1 .. Len(group)
    BY <1>1
  <2>2. /\ o \in Edit /\ o.path = p
        /\ o.operation \in {"dependency_change", "dependency_add"}
    BY <1>1, <2>1
  <2>3. D[m + 1] = DependencyStep(D[m], o) /\ M[m + 1] = MeantStep(M[m], o, p)
    BY <1>2, <1>3, <2>1
  <2> HIDE DEF o
  <2>4. D[m].code = "ok"
    <3>1. DependencyStep(D[m], o).code = "ok"
      BY <2>3
    <3> DEFINE doc == D[m]
    <3>2. DependencyStep(doc, o).code = "ok"
      BY <3>1
    <3> HIDE DEF doc
    <3>3. doc.code = "ok"
      BY <3>2, DocumentStepAccepted
    <3> QED
      BY <3>3 DEF doc
  <2>5. Good(m)
    BY <1>5, <2>1, <2>4
  <2>6. /\ D[m + 1].text \in Texts
        /\ Meant(Words(D[m].text), o) = {Words(D[m + 1].text)}
    BY <2>2, <2>3, <2>5, DocumentStepMeant
  <2>7. M[m + 1] = UNION {Meant(words, o) : words \in {Words(D[m].text)}}
    BY <2>2, <2>3, <2>5 DEF MeantStep
  <2>8. UNION {Meant(words, o) : words \in {Words(D[m].text)}} = Meant(Words(D[m].text), o)
    OBVIOUS
  <2> QED
    BY <2>6, <2>7, <2>8
<1>6. Nat \subseteq G
  <2> HIDE DEF G
  <2> QED
    BY <1>4, <1>5, InductiveSet
<1>7. D[n].code = "ok" /\ n \in Nat /\ n <= Len(group)
  BY DEF D
<1>8. Good(n)
  BY <1>6, <1>7
<1> QED
  BY <1>8 DEF D, M

-----------------------------------------------------------------------------
(* The operations of one file: what they are bound as. *)

\* The kinds of operations in a group.
Actions(group) == {group[i].operation : i \in DOMAIN group}

\* A single change without fields replaces text.
Textual(group) == Len(group) = 1 /\ group[1].operation # "dependency_add" /\ FieldsMissing(group[1])

\* The operation first as a replacement of the whole file.
Rebound(first, current, new) == [first EXCEPT !.old = current, !.preimage = current, !.new = new]

\* What becomes of several operations on the manifest.
Entire(group, current, new) ==
  [group[1] EXCEPT !.old = current, !.preimage = current, !.new = new,
                   !.section = "", !.package = "", !.version = "",
                   !.operation = IF "dependency_add" \in Actions(group)
                                   THEN "dependency_add" ELSE "dependency_change"]

\* The document after all operations, in the endings of the file.
Document(group, current) ==
  Text(Words(Documents(group, current)[Len(group)].text), DominantNewline(current))

\* The operations on the manifest that are accepted, and what becomes of them.
LEMMA ManifestAccepted ==
  ASSUME NEW group, NEW current, NEW lockfile \in BOOLEAN,
         CoalesceManifest(group, current, lockfile).code = "ok"
  PROVE  /\ group[1].path = Manifest /\ lockfile = TRUE
         /\ Actions(group) \subseteq {"dependency_change", "dependency_add"}
         /\ Textual(group) =>
              /\ ReplaceTextOnce(current, group[1].old, group[1].new).code = "ok"
              /\ CoalesceManifest(group, current, lockfile).op =
                   Rebound(group[1], current,
                     ReplaceTextOnce(current, group[1].old, group[1].new).text)
         /\ ~Textual(group) => Documents(group, current)[Len(group)].code = "ok"
         /\ ~Textual(group) /\ Len(group) = 1 =>
              CoalesceManifest(group, current, lockfile).op =
                Rebound(group[1], current, Document(group, current))
         /\ Len(group) # 1 =>
              /\ ~Textual(group)
              /\ CoalesceManifest(group, current, lockfile).op =
                   Entire(group, current, Document(group, current))
<1> DEFINE actions == Actions(group)
           first == group[1]
           textual == Textual(group)
           replaced == ReplaceTextOnce(current, first.old, first.new)
           doc == Documents(group, current)[Len(group)]
           bound == [first EXCEPT !.old = current, !.preimage = current]
           new == Text(Words(doc.text), DominantNewline(current))
           codes == <<
        Fails(first.path # Manifest, "REPAIR_DEPENDENCY_PATH_INVALID"),
        Fails(~(actions \subseteq {"dependency_change", "dependency_add"}),
              "REPAIR_OPERATION_AMBIGUOUS"),
        Fails(~lockfile, "STAGE_PLAN_COMMAND_AUTHORITY_MISSING"),
        Fails(textual /\ first.old = <<>>, "REPAIR_REPLACEMENT_PREIMAGE_REQUIRED"),
        Fails(textual, replaced.code),
        Fails(~textual, doc.code) >>
           op == CoalesceManifest(group, current, lockfile).op
<1>1. /\ FirstFailure(codes) = "ok"
      /\ op = CASE textual -> [bound EXCEPT !.new = replaced.text]
               [] ~textual /\ Len(group) = 1 ->
                    [bound EXCEPT !.new = Text(Words(doc.text), DominantNewline(current))]
               [] OTHER ->
                    [bound EXCEPT !.new = Text(Words(doc.text), DominantNewline(current)),
                                  !.section = "", !.package = "", !.version = "",
                                  !.operation = IF "dependency_add" \in actions
                                                  THEN "dependency_add"
                                                  ELSE "dependency_change"]
  BY DEF CoalesceManifest, Actions, Textual
<1>2. \A i \in 1 .. 6 : codes[i] = "ok"
  <2>1. DOMAIN codes = 1 .. 6 /\ 1 .. 6 \subseteq Nat
    OBVIOUS
  <2> HIDE DEF codes
  <2> QED
    BY <1>1, <2>1, FirstFailureOk
<1> HIDE DEF op, textual, replaced, doc
<1>3. /\ first.path = Manifest /\ lockfile = TRUE
           /\ actions \subseteq {"dependency_change", "dependency_add"}
      /\ (textual => replaced.code = "ok") /\ (~textual => doc.code = "ok")
  <2>1. /\ codes[1] = "ok" /\ codes[2] = "ok" /\ codes[3] = "ok" /\ codes[5] = "ok"
        /\ codes[6] = "ok"
    BY <1>2
  <2> HIDE DEF actions, first
  <2> QED
    BY <2>1 DEF Fails
<1>4. textual => Len(group) = 1
  BY DEF textual, Textual
<1>5. textual => op = Rebound(first, current, replaced.text)
  BY <1>1 DEF Rebound
<1>6. ~textual /\ Len(group) = 1 => op = Rebound(first, current, new)
  BY <1>1 DEF Rebound
<1>7. Len(group) # 1 => ~textual /\ op = Entire(group, current, new)
  BY <1>1, <1>4 DEF Entire
<1>8. new = Document(group, current)
  BY DEF Document, doc
<1> QED
  BY <1>3, <1>5, <1>6, <1>7, <1>8 DEF op, textual, replaced, doc

\* A single operation on the document of the manifest.
LEMMA ManifestEntry ==
  ASSUME NEW group, NEW current, NEW lockfile \in BOOLEAN, Textual(group) = FALSE, Len(group) = 1,
         CoalesceManifest(group, current, lockfile).code = "ok"
  PROVE  /\ Documents(group, current)[Len(group)].code = "ok"
         /\ CoalesceManifest(group, current, lockfile).op =
              Rebound(group[1], current, Document(group, current))
<1>1. ~Textual(group)
  OBVIOUS
<1>2. ~Textual(group) /\ Len(group) = 1 =>
              CoalesceManifest(group, current, lockfile).op =
                Rebound(group[1], current, Document(group, current))
  BY ManifestAccepted
<1>3. ~Textual(group) => Documents(group, current)[Len(group)].code = "ok"
  BY ManifestAccepted
<1> QED
  BY <1>1, <1>2, <1>3

\* Several of them.
LEMMA ManifestEntries ==
  ASSUME NEW group, NEW current, NEW lockfile \in BOOLEAN, Len(group) # 1,
         CoalesceManifest(group, current, lockfile).code = "ok"
  PROVE  CoalesceManifest(group, current, lockfile).op =
           Entire(group, current, Document(group, current))
<1>1. Len(group) # 1 =>
              /\ ~Textual(group)
              /\ CoalesceManifest(group, current, lockfile).op =
                   Entire(group, current, Document(group, current))
  BY ManifestAccepted
<1> QED
  BY <1>1

\* The operations of one path that are accepted, and what becomes of them.
LEMMA GroupAccepted ==
  ASSUME NEW S, NEW group \in Seq(S), NEW ws, NEW lockfile, NEW bind,
         CoalesceGroup(group, ws, lockfile, bind).code = "ok"
  PROVE  LET first == group[1]
             current == ws[first.path]
             op == CoalesceGroup(group, ws, lockfile, bind).op
             creates == "create_text_file" \in Actions(group)
             manifest == \/ first.path = Manifest
                         \/ Actions(group) \cap {"dependency_change", "dependency_add"} # {}
         IN \/ /\ creates /\ Len(group) = 1 /\ ~FileExists(ws, first.path) /\ op = first
            \/ /\ ~creates /\ manifest /\ FileExists(ws, first.path)
               /\ CoalesceManifest(group, current, lockfile).code = "ok"
               /\ op = CoalesceManifest(group, current, lockfile).op
            \/ /\ ~creates /\ ~manifest /\ FileExists(ws, first.path)
               /\ "delete_text_file" \in Actions(group) /\ Len(group) = 1
               /\ op = [first EXCEPT !.preimage = current]
            \/ /\ ~creates /\ ~manifest /\ FileExists(ws, first.path)
               /\ "delete_text_file" \notin Actions(group)
               /\ CoalesceText(group, current).code = "ok"
               /\ op = CoalesceText(group, current).op
<1> DEFINE first == group[1]
           current == ws[first.path]
           actions == Actions(group)
           creates == "create_text_file" \in actions
           deletes == "delete_text_file" \in actions
           manifest == first.path = Manifest
             \/ actions \cap {"dependency_change", "dependency_add"} # {}
           codes == <<
        Fails(actions = {"replace_text"} /\ \E i \in DOMAIN group : group[i].old = <<>>,
              "REPAIR_REPLACEMENT_PREIMAGE_REQUIRED"),
        Fails(creates /\ Len(group) # 1, "REPAIR_OPERATION_AMBIGUOUS"),
        Fails(creates /\ first.new = NullText, "REPAIR_CREATE_CONTENT_NULL"),
        Fails(creates /\ FileExists(ws, first.path), "REPAIR_CREATE_TARGET_EXISTS"),
        Fails(~creates /\ ~FileExists(ws, first.path), "REPAIR_PREIMAGE_INVALID"),
        Fails(~creates /\ ~bind /\ \E i \in DOMAIN group : group[i].preimage # current,
              "REPAIR_PREIMAGE_STALE"),
        Fails(deletes /\ ~manifest /\ Len(group) # 1, "REPAIR_OPERATION_AMBIGUOUS") >>
           code == FirstFailure(codes)
           r == CoalesceGroup(group, ws, lockfile, bind)
<1>1. r = CASE code # "ok" -> [code |-> code, op |-> first]
       [] code = "ok" /\ creates -> [code |-> "ok", op |-> first]
       [] code = "ok" /\ ~creates /\ manifest -> CoalesceManifest(group, current, lockfile)
       [] code = "ok" /\ deletes /\ ~manifest ->
            [code |-> "ok", op |-> [first EXCEPT !.preimage = current]]
       [] OTHER -> CoalesceText(group, current)
  BY DEF CoalesceGroup, Actions
<1>2. r.code = "ok"
  OBVIOUS
<1> HIDE DEF r
<1>3. code = "ok"
  <2> HIDE DEF code
  <2> QED
    BY <1>1, <1>2
<1>4. \A i \in 1 .. 7 : codes[i] = "ok"
  <2>1. DOMAIN codes = 1 .. 7 /\ 1 .. 7 \subseteq Nat
    OBVIOUS
  <2> HIDE DEF codes
  <2> QED
    BY <1>3, <2>1, FirstFailureOk
<1> HIDE DEF actions, current, first
<1>5. /\ creates => Len(group) = 1 /\ ~FileExists(ws, first.path)
      /\ ~creates => FileExists(ws, first.path)
      /\ deletes /\ ~manifest => Len(group) = 1
  <2>1. codes[2] = "ok" /\ codes[4] = "ok" /\ codes[5] = "ok" /\ codes[7] = "ok"
    BY <1>4
  <2> HIDE DEF creates, deletes, manifest
  <2> QED
    BY <2>1 DEF Fails
<1>6. creates => ~deletes
  <2> SUFFICES ASSUME creates, deletes
               PROVE  FALSE
    OBVIOUS
  <2>1. Len(group) = 1
    BY <1>5
  <2>2. DOMAIN group = 1 .. 1
    BY <2>1
  <2>3. \A o \in actions : o = group[1].operation
    BY <2>2 DEF actions, Actions
  <2> QED
    BY <2>3
<1> HIDE DEF creates, deletes, manifest, code
<1>7. CASE creates
  <2>1. r = [code |-> "ok", op |-> first]
    BY <1>1, <1>3, <1>7, <1>6
  <2> QED
    BY <1>5, <1>7, <2>1 DEF r, creates, first, actions
<1>8. CASE ~creates /\ manifest
  <2>1. r = CoalesceManifest(group, current, lockfile)
    BY <1>1, <1>3, <1>8
  <2> QED
    BY <1>2, <1>5, <1>8, <2>1 DEF r, creates, first, actions, manifest, current
<1>9. CASE ~creates /\ ~manifest /\ deletes
  <2>1. r = [code |-> "ok", op |-> [first EXCEPT !.preimage = current]]
    BY <1>1, <1>3, <1>9
  <2> QED
    BY <1>5, <1>9, <2>1 DEF r, creates, first, actions, manifest, current, deletes
<1>10. CASE ~creates /\ ~manifest /\ ~deletes
  <2>1. r = CoalesceText(group, current)
    BY <1>1, <1>3, <1>10
  <2> QED
    BY <1>2, <1>5, <1>10, <2>1 DEF r, creates, first, actions, manifest, current, deletes
<1> QED
  BY <1>7, <1>8, <1>9, <1>10

\* The lockfile command only decides whether the operations are accepted.
LEMMA LockfileOnlyDecides ==
  ASSUME NEW S, NEW group \in Seq(S), NEW ws, NEW lockfile \in BOOLEAN, NEW bind,
         CoalesceGroup(group, ws, lockfile, bind).code = "ok"
  PROVE  CoalesceGroup(group, ws, TRUE, bind) = CoalesceGroup(group, ws, lockfile, bind)
<1>1. CASE lockfile
  <2>1. lockfile = TRUE
    BY <1>1
  <2> QED
    BY <2>1
<1>2. CASE ~lockfile
  <2> DEFINE current == ws[group[1].path]
  <2>1. CoalesceManifest(group, current, lockfile).code # "ok"
    <3> HIDE DEF current
    <3> SUFFICES ASSUME CoalesceManifest(group, current, lockfile).code = "ok"
                 PROVE  lockfile = TRUE
      BY <1>2
    <3> QED
      BY ManifestAccepted
  <2> HIDE DEF current
  <2> DEFINE actions == {group[i].operation : i \in DOMAIN group}
             creates == "create_text_file" \in actions
             manifest == \/ group[1].path = Manifest
                         \/ actions \cap {"dependency_change", "dependency_add"} # {}
  <2>2. creates \/ ~manifest
    <3> HIDE DEF creates, manifest
    <3>1. \/ "create_text_file" \in Actions(group)
          \/ ~ (group[1].path = Manifest
                  \/ Actions(group) \cap {"dependency_change", "dependency_add"} # {})
      BY <2>1, GroupAccepted DEF current
    <3> QED
      BY <3>1 DEF Actions, creates, manifest
  <2> HIDE DEF creates, manifest
  <2> QED
    BY <2>2 DEF CoalesceGroup, creates, manifest
<1> QED
  BY <1>1, <1>2

\* What PatchApplyService writes for an operation.
Content(o) == IF o.operation = "delete_text_file" THEN Absent ELSE o.new

\* The document before the first operation.
FirstDocument(text) == [code |-> "ok", seen |-> {}, text |-> text]

\* What an operation coalesced from a group says: it replaces the whole file by what the group
\* means, in the endings of the file, or it creates or deletes it.
BoundAs(o, group, ws, p) ==
  /\ o \in Operation /\ o.path = p /\ ~IsTransitionOp(o)
  /\ MeantAll(group, ws, p) = {Words(Content(o))}
  /\ o.operation = "create_text_file" => ~FileExists(ws, p)
  /\ o.operation # "create_text_file" => o.preimage = ws[p]
  /\ o.operation \in Replacing =>
       /\ o.old = ws[p]
       /\ \E words \in Seq(Word) : o.new = Text(words, DominantNewline(ws[p]))
  /\ o.operation \in {"dependency_change", "dependency_add"} /\ ~Textual(<<o>>) =>
       o.new = Text(Words(DependencyStep(FirstDocument(ws[p]), o).text), DominantNewline(ws[p]))

\* A group of one operation.
LEMMA One ==
  ASSUME NEW o
  PROVE  /\ Len(<<o>>) = 1 /\ <<o>>[1] = o /\ DOMAIN <<o>> = {1} /\ Actions(<<o>>) = {o.operation}
         /\ \A current : Documents(<<o>>, current)[1] = DependencyStep(FirstDocument(current), o)
         /\ \A current : Replacements(<<o>>, current)[1] = ReplaceTextOnce(current, o.old, o.new)
         /\ \A ws : MeantAll(<<o>>, ws, o.path) = Meant(Words(ws[o.path]), o)
<1> DEFINE g == <<o>>
<1>1. Len(g) = 1 /\ g[1] = o /\ DOMAIN g = {1} /\ 1 \in Nat /\ 0 + 1 = 1 /\ 0 < 1
  OBVIOUS
<1>2. Actions(g) = {o.operation}
  BY <1>1 DEF Actions
<1> HIDE DEF g
<1>3. ASSUME NEW current
      PROVE  /\ Documents(g, current)[1] = DependencyStep(FirstDocument(current), o)
             /\ Replacements(g, current)[1] = ReplaceTextOnce(current, o.old, o.new)
  <2>1. Documents(g, current)[0 + 1] = DependencyStep(Documents(g, current)[0], g[0 + 1])
        /\ Documents(g, current)[0] = FirstDocument(current)
    BY <1>1, DocumentsStep DEF FirstDocument
  <2>2. Replacements(g, current)[0 + 1] = ReplaceStep(Replacements(g, current)[0], g[0 + 1])
        /\ Replacements(g, current)[0] = [code |-> "ok", text |-> current]
    BY <1>1, ReplacementsStep
  <2>3. ReplaceStep([code |-> "ok", text |-> current], o) = ReplaceTextOnce(current, o.old, o.new)
    BY DEF ReplaceStep
  <2> QED
    BY <1>1, <2>1, <2>2, <2>3
<1>4. ASSUME NEW ws
      PROVE  MeantAll(g, ws, o.path) = Meant(Words(ws[o.path]), o)
  <2> DEFINE M == MeantAfter(g, ws, o.path)
  <2>1. M[0 + 1] = MeantStep(M[0], g[0 + 1], o.path) /\ M[0] = {Words(ws[o.path])}
    BY <1>1, MeantAfterStep
  <2> HIDE DEF M
  <2>2. M[1] = UNION {Meant(words, o) : words \in {Words(ws[o.path])}}
    BY <1>1, <2>1 DEF MeantStep
  <2>3. UNION {Meant(words, o) : words \in {Words(ws[o.path])}} = Meant(Words(ws[o.path]), o)
    OBVIOUS
  <2> QED
    BY <1>1, <2>2, <2>3 DEF MeantAll, M
<1> QED
  BY <1>1, <1>2, <1>3, <1>4 DEF g

\* Coalesced once more, the operation stays as it is.
LEMMA BoundStays ==
  ASSUME NEW o, NEW group, NEW ws \in [SafePaths -> Texts], NEW p \in SafePaths,
         NEW lockfile \in BOOLEAN, NEW bind, BoundAs(o, group, ws, p),
         CoalesceGroup(<<o>>, ws, lockfile, bind).code = "ok"
  PROVE  CoalesceGroup(<<o>>, ws, lockfile, bind).op = o
<1> DEFINE g == <<o>>
           op == CoalesceGroup(g, ws, lockfile, bind).op
           creates == "create_text_file" \in Actions(g)
           manifest == g[1].path = Manifest
             \/ Actions(g) \cap {"dependency_change", "dependency_add"} # {}
<1>1. /\ Len(g) = 1 /\ g[1] = o /\ Actions(g) = {o.operation} /\ g \in Seq(Operation)
      /\ Documents(g, ws[p])[1] = DependencyStep(FirstDocument(ws[p]), o)
      /\ Replacements(g, ws[p])[1] = ReplaceTextOnce(ws[p], o.old, o.new)
  BY One DEF BoundAs
<1>2. o \in Operation /\ o.path = p /\ ws[p] \in Texts
  BY DEF BoundAs
<1> HIDE DEF g
<1>3. o.operation \in Replacing /\ ReplaceTextOnce(ws[p], o.old, o.new).code = "ok" =>
        ReplaceTextOnce(ws[p], o.old, o.new).text = o.new
  BY <1>2, ReplaceWhole DEF BoundAs
<1>4. \/ creates /\ op = g[1]
      \/ /\ ~creates /\ manifest
         /\ CoalesceManifest(g, ws[p], lockfile).code = "ok"
         /\ op = CoalesceManifest(g, ws[p], lockfile).op
      \/ /\ "delete_text_file" \in Actions(g)
         /\ op = [g[1] EXCEPT !.preimage = ws[p]]
      \/ /\ ~creates /\ ~manifest /\ "delete_text_file" \notin Actions(g)
         /\ CoalesceText(g, ws[p]).code = "ok"
         /\ op = CoalesceText(g, ws[p]).op
  <2>1. CoalesceGroup(g, ws, lockfile, bind).code = "ok" /\ g[1].path = p
    BY <1>1, <1>2 DEF g
  <2> DEFINE q == g[1].path
             c == "create_text_file" \in Actions(g)
             m == g[1].path = Manifest
               \/ Actions(g) \cap {"dependency_change", "dependency_add"} # {}
  <2>2. \/ c /\ Len(g) = 1 /\ ~FileExists(ws, q) /\ op = g[1]
        \/ /\ ~c /\ m /\ FileExists(ws, q) /\ CoalesceManifest(g, ws[q], lockfile).code = "ok"
           /\ op = CoalesceManifest(g, ws[q], lockfile).op
        \/ /\ ~c /\ ~m /\ FileExists(ws, q) /\ "delete_text_file" \in Actions(g) /\ Len(g) = 1
           /\ op = [g[1] EXCEPT !.preimage = ws[q]]
        \/ /\ ~c /\ ~m /\ FileExists(ws, q) /\ "delete_text_file" \notin Actions(g)
           /\ CoalesceText(g, ws[q]).code = "ok" /\ op = CoalesceText(g, ws[q]).op
    <3>1. CoalesceGroup(g, ws, lockfile, bind).code = "ok" /\ g \in Seq(Operation)
      BY <1>1, <2>1
    <3> QED
      BY <3>1, GroupAccepted
  <2>3. q = p
    BY <2>1
  <2> HIDE DEF op, q
  <2> QED
    BY <2>2, <2>3
<1> HIDE DEF op
<1>5. CASE creates /\ op = g[1]
  BY <1>1, <1>5 DEF op, g
<1>6. CASE /\ ~creates /\ manifest
           /\ CoalesceManifest(g, ws[p], lockfile).code = "ok"
           /\ op = CoalesceManifest(g, ws[p], lockfile).op
  <2>1. Actions(g) \subseteq {"dependency_change", "dependency_add"}
    BY <1>6, ManifestAccepted
  <2>2. o.operation \in {"dependency_change", "dependency_add"} /\ o.operation \in Replacing
    BY <1>1, <2>1 DEF Replacing
  <2>3. o.old = ws[p] /\ o.preimage = ws[p]
    BY <2>2 DEF BoundAs
  <2>4. CASE Textual(g)
    <3>1. /\ ReplaceTextOnce(ws[p], o.old, o.new).code = "ok"
          /\ op = Rebound(o, ws[p], ReplaceTextOnce(ws[p], o.old, o.new).text)
      <4>1. /\ ReplaceTextOnce(ws[p], g[1].old, g[1].new).code = "ok"
            /\ op = Rebound(g[1], ws[p], ReplaceTextOnce(ws[p], g[1].old, g[1].new).text)
        BY <1>6, <2>4, ManifestAccepted
      <4> QED
        BY <1>1, <4>1
    <3>2. op = Rebound(o, ws[p], o.new)
      BY <1>3, <2>2, <3>1
    <3>3. op = o
      BY <1>2, <2>3, <3>2 DEF Operation, Rebound
    <3> QED
      BY <3>3 DEF op, g
  <2>5. CASE ~Textual(g)
    <3> DEFINE new == Document(g, ws[p])
    <3>1. op = Rebound(o, ws[p], new)
      <4>1. Len(g) = 1 /\ CoalesceManifest(g, ws[p], lockfile).code = "ok"
            /\ op = CoalesceManifest(g, ws[p], lockfile).op
        BY <1>1, <1>6
      <4> HIDE DEF op, g, creates, manifest
      <4>2. op = Rebound(g[1], ws[p], new)
        BY <2>5, <4>1, ManifestEntry DEF Textual
      <4> QED
        BY <1>1, <4>2
    <3>2. o.new = new
      BY <1>1, <2>2, <2>5 DEF BoundAs, Document, g
    <3> HIDE DEF new
    <3>3. op = o
      BY <1>2, <2>3, <3>1, <3>2 DEF Operation, Rebound
    <3> QED
      BY <3>3 DEF op, g
  <2> QED
    BY <2>4, <2>5
<1>7. CASE "delete_text_file" \in Actions(g) /\ op = [g[1] EXCEPT !.preimage = ws[p]]
  <2>1. o.preimage = ws[p]
    BY <1>1, <1>7 DEF BoundAs
  <2>2. op = o
    BY <1>1, <1>2, <1>7, <2>1 DEF Operation
  <2> QED
    BY <2>2 DEF op, g
<1>8. CASE /\ ~creates /\ ~manifest /\ "delete_text_file" \notin Actions(g)
           /\ CoalesceText(g, ws[p]).code = "ok"
           /\ op = CoalesceText(g, ws[p]).op
  <2>1. o.operation \in Replacing
    BY <1>1, <1>2, <1>8 DEF BoundAs, Operation, Operations, IsTransitionOp, Replacing
  <2>2. o.old = ws[p] /\ o.preimage = ws[p]
    BY <2>1 DEF BoundAs, Replacing
  <2>3. /\ ReplaceTextOnce(ws[p], o.old, o.new).code = "ok"
        /\ op = [o EXCEPT !.old = ws[p], !.new = ReplaceTextOnce(ws[p], o.old, o.new).text,
                          !.preimage = ws[p]]
    BY <1>1, <1>8 DEF CoalesceText
  <2>4. op = [o EXCEPT !.old = ws[p], !.new = o.new, !.preimage = ws[p]]
    BY <1>3, <2>1, <2>3
  <2>5. op = o
    BY <1>2, <2>2, <2>4 DEF Operation
  <2> QED
    BY <2>5 DEF op, g
<1> QED
  BY <1>4, <1>5, <1>6, <1>7, <1>8

\* A group of length one is its operation.
LEMMA SingletonGroup ==
  ASSUME NEW S, NEW group \in Seq(S), Len(group) = 1
  PROVE  group = <<group[1]>>
OBVIOUS

\* The operations of a group: they are all of one file, and none is a transition.
GroupOn(group, p) ==
  /\ group \in Seq(Edit) /\ group # <<>>
  /\ \A i \in DOMAIN group : group[i].path = p /\ ~IsTransitionOp(group[i])

\* A file is created.
LEMMA CreationBound ==
  ASSUME NEW ws \in [SafePaths -> Texts], NEW p \in SafePaths, NEW group, GroupOn(group, p),
         "create_text_file" \in Actions(group), Len(group) = 1, ~FileExists(ws, p)
  PROVE  BoundAs(group[1], group, ws, p)
<1> DEFINE o == group[1]
<1>1. group = <<o>> /\ o \in Operation /\ o.path = p /\ ~IsTransitionOp(o)
  BY SingletonGroup DEF GroupOn, Edit
<1> HIDE DEF o
<1>2. Actions(group) = {o.operation} /\ MeantAll(group, ws, p) = Meant(Words(ws[p]), o)
  BY <1>1, One
<1>3. o.operation = "create_text_file"
  BY <1>2
<1>4. Meant(Words(ws[p]), o) = {Words(o.new)} /\ Content(o) = o.new
  BY <1>3 DEF Meant, Content
<1> QED
  BY <1>1, <1>2, <1>3, <1>4 DEF BoundAs, Replacing, o

\* A file is deleted.
LEMMA DeletionBound ==
  ASSUME NEW ws \in [SafePaths -> Texts], NEW p \in SafePaths, NEW group, GroupOn(group, p),
         "delete_text_file" \in Actions(group), Len(group) = 1
  PROVE  BoundAs([group[1] EXCEPT !.preimage = ws[p]], group, ws, p)
<1> DEFINE first == group[1]
           o == [first EXCEPT !.preimage = ws[p]]
<1>1. group = <<first>> /\ first \in Operation /\ first.path = p /\ ~IsTransitionOp(first)
  BY SingletonGroup DEF GroupOn, Edit
<1> HIDE DEF first
<1>2. Actions(group) = {first.operation} /\ MeantAll(group, ws, p) = Meant(Words(ws[p]), first)
  BY <1>1, One
<1>3. first.operation = "delete_text_file"
  BY <1>2
<1>4. Meant(Words(ws[p]), first) = {Words(Absent)}
  BY <1>3 DEF Meant
<1>5. o \in Operation /\ o.path = p /\ o.operation = "delete_text_file" /\ o.preimage = ws[p]
  BY <1>1, <1>3 DEF Operation
<1> HIDE DEF o
<1>6. Content(o) = Absent /\ ~IsTransitionOp(o)
  BY <1>5 DEF Content, IsTransitionOp
<1>7. BoundAs(o, group, ws, p)
  BY <1>2, <1>4, <1>5, <1>6 DEF BoundAs, Replacing
<1> QED
  BY <1>7 DEF o, first

\* Words of a file are replaced, by one replacement or several.
LEMMA TextBound ==
  ASSUME NEW ws \in [SafePaths -> Texts], NEW p \in SafePaths, NEW group, GroupOn(group, p),
         Actions(group) \cap {"create_text_file", "delete_text_file", "dependency_change",
                              "dependency_add"} = {},
         CoalesceText(group, ws[p]).code = "ok"
  PROVE  BoundAs(CoalesceText(group, ws[p]).op, group, ws, p)
<1> DEFINE first == group[1]
           new == Replacements(group, ws[p])[Len(group)].text
           o == [first EXCEPT !.old = ws[p], !.new = new, !.preimage = ws[p]]
<1>1. /\ group \in Seq(Operation) /\ Len(group) \in Nat \ {0} /\ DOMAIN group = 1 .. Len(group)
      /\ \A i \in 1 .. Len(group) :
           group[i] \in Operation /\ group[i].path = p /\ ~IsTransitionOp(group[i])
  <2>1. Edit \subseteq Operation
    BY DEF Edit
  <2>2. group \in Seq(Edit) /\ group # <<>>
    BY DEF GroupOn
  <2> QED
    BY <2>1, <2>2 DEF GroupOn
<1>2. \A i \in DOMAIN group : group[i].operation = "replace_text" /\ group[i].path = p
  <2> SUFFICES ASSUME NEW i \in DOMAIN group
               PROVE  group[i].operation = "replace_text"
    BY <1>1
  <2>1. group[i].operation \in Actions(group) /\ group[i].operation \in Operations
        /\ group[i].operation # "dependency_transition"
    BY <1>1 DEF Actions, Operation, IsTransitionOp
  <2> QED
    BY <2>1 DEF Operations
<1>3. first \in Operation /\ first.operation = "replace_text" /\ first.path = p
  BY <1>1, <1>2
<1>4. /\ Replacements(group, ws[p])[Len(group)].code = "ok"
      /\ CoalesceText(group, ws[p]).op = o
  BY DEF CoalesceText
<1>5. ws[p] \in Texts /\ Len(group) \in 0 .. Len(group) /\ Len(group) # 0
  BY <1>1
<1>6. /\ MeantAfter(group, ws, p)[Len(group)] = {Words(new)}
      /\ new \in Texts
      /\ \E words \in Seq(Word) : new = Text(words, DominantNewline(ws[p]))
  BY <1>1, <1>2, <1>4, <1>5, ReplacementsMeant
<1> HIDE DEF first, new
<1>7. /\ o \in Operation /\ o.path = p /\ o.operation = "replace_text" /\ o.preimage = ws[p]
      /\ o.old = ws[p] /\ o.new = new
  BY <1>3, <1>5, <1>6 DEF Operation
<1> HIDE DEF o
<1>8. Content(o) = new /\ ~IsTransitionOp(o)
  BY <1>7 DEF Content, IsTransitionOp
<1>9. BoundAs(o, group, ws, p)
  BY <1>6, <1>7, <1>8 DEF BoundAs, Replacing, MeantAll
<1> QED
  BY <1>4, <1>9

\* What rebinding keeps of the operation.
LEMMA ReboundFields ==
  ASSUME NEW first \in Operation, NEW current \in Texts, NEW new \in Texts, NEW o,
         o = Rebound(first, current, new)
  PROVE  /\ o \in Operation /\ o.path = first.path /\ o.operation = first.operation
         /\ o.section = first.section /\ o.package = first.package /\ o.version = first.version
         /\ o.old = current /\ o.preimage = current /\ o.new = new
BY DEF Rebound, Operation

\* What is left of the fields of several operations on the document.
LEMMA EntireFields ==
  ASSUME NEW group, group[1] \in Operation, NEW current \in Texts, NEW new \in Texts, NEW o,
         o = Entire(group, current, new)
  PROVE  /\ o \in Operation /\ o.path = group[1].path
         /\ o.operation \in {"dependency_change", "dependency_add"}
         /\ FieldsMissing(o) /\ ~FieldsGiven(o)
         /\ o.old = current /\ o.preimage = current /\ o.new = new
<1> DEFINE act == IF "dependency_add" \in Actions(group) THEN "dependency_add"
                  ELSE "dependency_change"
           mid == Rebound(group[1], current, new)
<1>1. act \in {"dependency_change", "dependency_add"} /\ act \in Operations
  BY DEF Operations
<1>2. o = [mid EXCEPT !.section = "", !.package = "", !.version = "", !.operation = act]
  BY DEF Entire, Rebound
<1>3. /\ mid \in Operation /\ mid.path = group[1].path
      /\ mid.old = current /\ mid.preimage = current /\ mid.new = new
  BY ReboundFields
<1> HIDE DEF act, mid
<1>4. /\ o.path = mid.path /\ o.operation = act /\ o.section = "" /\ o.package = ""
           /\ o.version = ""
      /\ o.old = mid.old /\ o.preimage = mid.preimage /\ o.new = mid.new
  BY <1>2, <1>3 DEF Operation
<1>5. o \in Operation
  <2>1. o = [operation |-> act, path |-> mid.path, old |-> mid.old, new |-> mid.new, section |-> "",
             package |-> "", version |-> "", preimage |-> mid.preimage, intent |-> mid.intent]
    BY <1>2, <1>3 DEF Operation
  <2>2. /\ mid.path \in Paths /\ mid.old \in Texts /\ mid.new \in Texts /\ mid.preimage \in Texts
        /\ mid.intent \in STRING
    BY <1>3 DEF Operation
  <2>3. "" \in Field
    BY DEF Field
  <2> QED
    <3>1. [operation |-> act, path |-> mid.path, old |-> mid.old, new |-> mid.new, section |-> "",
           package |-> "", version |-> "", preimage |-> mid.preimage, intent |-> mid.intent]
            \in [operation : Operations, path : Paths, old : Texts, new : Texts, section : Field,
                 package : Field, version : Field, preimage : Texts, intent : STRING]
      BY <1>1, <2>2, <2>3
    <3>2. o \in [operation : Operations, path : Paths, old : Texts, new : Texts, section : Field,
                 package : Field, version : Field, preimage : Texts, intent : STRING]
      BY <2>1, <3>1
    <3> QED
      BY <3>2 DEF Operation
<1>6. FieldsMissing(o) /\ ~FieldsGiven(o)
  BY <1>4 DEF FieldsMissing, FieldsGiven
<1> QED
  BY <1>1, <1>3, <1>4, <1>5, <1>6

\* An accepted group on the manifest is accepted by its rules.
LEMMA ManifestGroup ==
  ASSUME NEW S, NEW group \in Seq(S), NEW ws, NEW lockfile, NEW bind,
         CoalesceGroup(group, ws, lockfile, bind).code = "ok",
         group[1].path = Manifest, "create_text_file" \notin Actions(group)
  PROVE  CoalesceManifest(group, ws[group[1].path], lockfile).code = "ok"
BY GroupAccepted

\* A single change without fields: a replacement of words.
LEMMA TextualBound ==
  ASSUME NEW ws \in [SafePaths -> Texts], NEW p \in SafePaths, NEW group, GroupOn(group, p),
         NEW lockfile \in BOOLEAN, CoalesceManifest(group, ws[p], lockfile).code = "ok",
         Textual(group)
  PROVE  BoundAs(CoalesceManifest(group, ws[p], lockfile).op, group, ws, p)
<1> DEFINE first == group[1]
           current == ws[p]
           new == ReplaceTextOnce(current, first.old, first.new).text
           o == Rebound(first, current, new)
<1>1. Len(group) = 1 /\ first.operation # "dependency_add" /\ FieldsMissing(first)
  BY DEF Textual
<1>2. group = <<first>> /\ first \in Operation /\ first.path = p /\ ~IsTransitionOp(first)
  BY <1>1, SingletonGroup DEF GroupOn, Edit
<1>3. /\ Actions(group) \subseteq {"dependency_change", "dependency_add"}
      /\ ReplaceTextOnce(current, first.old, first.new).code = "ok"
      /\ CoalesceManifest(group, current, lockfile).op = o
  BY ManifestAccepted
<1> HIDE DEF first
<1>4. Actions(group) = {first.operation} /\ MeantAll(group, ws, p) = Meant(Words(current), first)
  BY <1>2, One
<1>5. first.operation = "dependency_change"
  BY <1>1, <1>3, <1>4
<1>6. current \in Texts /\ first.old \in Texts /\ first.new \in Texts
  BY <1>2 DEF Operation
<1>7. /\ new = Replaced(current, first.old, first.new) /\ new \in Texts
      /\ Words(new) = ReplaceFirstSubSeq(Words(first.new), Words(first.old), Words(current))
      /\ ReplaceFirstSubSeq(Words(first.new), Words(first.old), Words(current)) \in Seq(Word)
  BY <1>3, <1>6, ReplaceFacts
<1>8. \E words \in Seq(Word) : new = Text(words, DominantNewline(current))
  BY <1>7 DEF Replaced
<1> HIDE DEF new, current
<1>9. Meant(Words(current), first) = {Words(new)}
  <2>1. first.operation = "dependency_change" /\ FieldsMissing(first) /\ ~FieldsGiven(first)
    BY <1>1, <1>5 DEF FieldsMissing, FieldsGiven
  <2>2. Meant(Words(current), first)
          = {ReplaceFirstSubSeq(Words(first.new), Words(first.old), Words(current))}
    BY <2>1 DEF Meant
  <2> QED
    BY <1>7, <2>2
<1>10. o = Rebound(first, current, new)
  OBVIOUS
<1> HIDE DEF o
<1>11. /\ o \in Operation /\ o.path = p /\ o.operation = "dependency_change"
       /\ FieldsMissing(o) /\ o.old = current /\ o.preimage = current /\ o.new = new
  <2>1. /\ o \in Operation /\ o.path = first.path /\ o.operation = first.operation
        /\ o.section = first.section /\ o.package = first.package /\ o.version = first.version
        /\ o.old = current /\ o.preimage = current /\ o.new = new
    <3>1. first \in Operation /\ current \in Texts /\ new \in Texts
      BY <1>2, <1>6, <1>7
    <3> QED
      BY <1>10, <3>1 DEF Rebound, Operation
  <2> QED
    BY <1>1, <1>2, <1>5, <2>1 DEF FieldsMissing
<1>12. Content(o) = new /\ ~IsTransitionOp(o) /\ Textual(<<o>>)
  BY <1>11, One DEF Content, IsTransitionOp, Textual
<1>13. BoundAs(o, group, ws, p)
  BY <1>4, <1>9, <1>8, <1>11, <1>12 DEF BoundAs, Replacing, current
<1> QED
  BY <1>3, <1>13 DEF current

\* The document after the operations is what they mean.
LEMMA DocumentMeant ==
  ASSUME NEW ws \in [SafePaths -> Texts], NEW p \in SafePaths, NEW group, GroupOn(group, p),
         Actions(group) \subseteq {"dependency_change", "dependency_add"},
         Documents(group, ws[p])[Len(group)].code = "ok"
  PROVE  /\ MeantAll(group, ws, p) = {Words(Document(group, ws[p]))}
         /\ Document(group, ws[p]) \in Texts
         /\ \E words \in Seq(Word) : Document(group, ws[p]) = Text(words, DominantNewline(ws[p]))
<1> DEFINE text == Documents(group, ws[p])[Len(group)].text
<1>1. group \in Seq(Edit) /\ Len(group) \in 0 .. Len(group) /\ ws[p] \in Texts
  BY DEF GroupOn
<1>2. \A i \in DOMAIN group :
        group[i].operation \in {"dependency_change", "dependency_add"} /\ group[i].path = p
  BY DEF GroupOn, Actions
<1>3. MeantAfter(group, ws, p)[Len(group)] = {Words(text)} /\ text \in Texts
  BY <1>1, <1>2, DocumentsMeant
<1>4. Document(group, ws[p]) = Text(Words(text), DominantNewline(ws[p]))
  BY DEF Document
<1> HIDE DEF text
<1>5. Words(text) \in Seq(Word)
  BY <1>3, WordsFacts
<1>6. Words(Document(group, ws[p])) = Words(text) /\ Document(group, ws[p]) \in Texts
  BY <1>4, <1>5, TextFacts, DominantEol
<1> QED
  BY <1>3, <1>4, <1>5, <1>6 DEF MeantAll

\* A single operation on the document.
LEMMA EntryBound ==
  ASSUME NEW ws \in [SafePaths -> Texts], NEW p \in SafePaths, NEW group, GroupOn(group, p),
         NEW lockfile \in BOOLEAN, CoalesceManifest(group, ws[p], lockfile).code = "ok",
         Textual(group) = FALSE, Len(group) = 1
  PROVE  BoundAs(CoalesceManifest(group, ws[p], lockfile).op, group, ws, p)
<1> DEFINE first == group[1]
           current == ws[p]
           new == Document(group, current)
           o == Rebound(first, current, new)
<1>1. group = <<first>> /\ first \in Operation /\ first.path = p /\ ~IsTransitionOp(first)
      /\ current \in Texts
  BY SingletonGroup DEF GroupOn, Edit
<1>2. /\ Actions(group) \subseteq {"dependency_change", "dependency_add"}
      /\ Documents(group, current)[Len(group)].code = "ok"
      /\ CoalesceManifest(group, current, lockfile).op = o
  <2>1. Actions(group) \subseteq {"dependency_change", "dependency_add"}
    BY ManifestAccepted
  <2>2. /\ Documents(group, current)[Len(group)].code = "ok"
        /\ CoalesceManifest(group, current, lockfile).op = o
    BY ManifestEntry
  <2> QED
    BY <2>1, <2>2
<1>3. /\ MeantAll(group, ws, p) = {Words(new)} /\ new \in Texts
      /\ \E words \in Seq(Word) : new = Text(words, DominantNewline(current))
  BY <1>2, DocumentMeant
<1> HIDE DEF first
<1>4. /\ Actions(group) = {first.operation} /\ Len(group) = 1
      /\ Documents(group, current)[1] = DependencyStep(FirstDocument(current), first)
  BY <1>1, One
<1>5. new = Text(Words(DependencyStep(FirstDocument(current), first).text),
        DominantNewline(current))
  BY <1>4 DEF Document
<1> HIDE DEF new, current
<1>6. o = Rebound(first, current, new)
  OBVIOUS
<1> HIDE DEF o
<1>7. /\ o \in Operation /\ o.path = p /\ o.operation = first.operation
      /\ o.section = first.section /\ o.package = first.package /\ o.version = first.version
      /\ o.old = current /\ o.preimage = current /\ o.new = new
  <2>1. /\ o \in Operation /\ o.path = first.path /\ o.operation = first.operation
        /\ o.section = first.section /\ o.package = first.package /\ o.version = first.version
        /\ o.old = current /\ o.preimage = current /\ o.new = new
    <3>1. first \in Operation /\ current \in Texts /\ new \in Texts
      BY <1>1, <1>3
    <3> QED
      BY <1>6, <3>1 DEF Rebound, Operation
  <2> QED
    BY <1>1, <2>1
<1>8. o.operation \in {"dependency_change", "dependency_add"}
  BY <1>2, <1>4, <1>7
<1>9. Content(o) = new /\ ~IsTransitionOp(o)
  BY <1>7, <1>8 DEF Content, IsTransitionOp
<1>10. DependencyStep(FirstDocument(current), o) = DependencyStep(FirstDocument(current), first)
  BY <1>7 DEF DependencyStep, Entry, FieldsGiven, PolicyAllows
<1>11. BoundAs(o, group, ws, p)
  BY <1>3, <1>5, <1>7, <1>8, <1>9, <1>10 DEF BoundAs, Replacing, current
<1> QED
  BY <1>2, <1>11 DEF current

\* Several operations on the document.
LEMMA EntriesBound ==
  ASSUME NEW ws \in [SafePaths -> Texts], NEW p \in SafePaths, NEW group, GroupOn(group, p),
         NEW lockfile \in BOOLEAN, NEW bind,
         CoalesceManifest(group, ws[p], lockfile).code = "ok", Len(group) # 1,
         CoalesceGroup(<<CoalesceManifest(group, ws[p], lockfile).op>>, ws, lockfile, bind).code
           = "ok"
  PROVE  BoundAs(CoalesceManifest(group, ws[p], lockfile).op, group, ws, p)
<1> DEFINE first == group[1]
           current == ws[p]
           new == Document(group, current)
           o == Entire(group, current, new)
<1>1. /\ Actions(group) \subseteq {"dependency_change", "dependency_add"}
      /\ first.path = Manifest
      /\ CoalesceManifest(group, current, lockfile).op = o
  <2>1. Actions(group) \subseteq {"dependency_change", "dependency_add"} /\ group[1].path = Manifest
    BY ManifestAccepted
  <2>2. CoalesceManifest(group, ws[p], lockfile).op = Entire(group, ws[p], Document(group, ws[p]))
    BY ManifestEntries
  <2> QED
    BY <2>1, <2>2
<1>2. Documents(group, current)[Len(group)].code = "ok"
  <2>1. ~Textual(group)
    BY DEF Textual
  <2> QED
    BY <2>1, ManifestAccepted
<1>3. /\ MeantAll(group, ws, p) = {Words(new)} /\ new \in Texts
      /\ \E words \in Seq(Word) : new = Text(words, DominantNewline(current))
  BY <1>1, <1>2, DocumentMeant
<1>4. first \in Operation /\ first.path = p /\ current \in Texts
  BY DEF GroupOn, Edit
<1> HIDE DEF new, current
<1>5. o = Entire(group, current, new)
  OBVIOUS
<1> HIDE DEF o
<1>6. /\ o \in Operation /\ o.path = p /\ FieldsMissing(o) /\ ~FieldsGiven(o)
      /\ o.operation \in {"dependency_change", "dependency_add"}
      /\ o.old = current /\ o.preimage = current /\ o.new = new
  <2>1. group[1] \in Operation /\ current \in Texts /\ new \in Texts
    BY <1>3, <1>4
  <2>2. o \in Operation /\ FieldsMissing(o) /\ ~FieldsGiven(o)
    BY <1>5, <2>1, EntireFields
  <2>3. o.path = group[1].path /\ o.operation \in {"dependency_change", "dependency_add"}
    BY <1>5, <2>1, EntireFields
  <2>4. o.old = current /\ o.preimage = current /\ o.new = new
    BY <1>5, <2>1, EntireFields
  <2> QED
    BY <1>4, <2>2, <2>3, <2>4
<1>7. Content(o) = new /\ ~IsTransitionOp(o)
  BY <1>6 DEF Content, IsTransitionOp
<1>8. Textual(<<o>>)
  <2> DEFINE g == <<o>>
  <2>1. /\ Len(g) = 1 /\ g[1] = o /\ Actions(g) = {o.operation}
        /\ Documents(g, current)[1] = DependencyStep(FirstDocument(current), o)
    BY One
  <2>2. g \in Seq(Operation)
    <3>1. o \in Operation
      BY <1>6
    <3> QED
      BY <3>1
  <2>3. CoalesceGroup(g, ws, lockfile, bind).code = "ok"
    BY <1>1 DEF current
  <2> HIDE DEF g
  <2>4. g[1].path = p /\ p = Manifest /\ "create_text_file" \notin Actions(g)
    BY <1>1, <1>4, <1>6, <2>1
  <2>5. CoalesceManifest(g, current, lockfile).code = "ok"
    <3>1. CoalesceManifest(g, ws[g[1].path], lockfile).code = "ok"
      BY <2>3, <2>4, <2>2, ManifestGroup
    <3> QED
      BY <2>4, <3>1 DEF current
  <2>6. ASSUME Textual(g) = FALSE
        PROVE  FALSE
    <3>1. Documents(g, current)[Len(g)].code = "ok"
      BY <2>1, <2>5, <2>6, ManifestEntry
    <3>2. DependencyStep(FirstDocument(current), o).code = "ok"
      BY <2>1, <3>1
    <3> QED
      BY <1>6, <3>2, DocumentStepAccepted
  <2>7. Textual(g)
    BY <2>6 DEF Textual
  <2> QED
    BY <2>7 DEF g
<1>9. BoundAs(o, group, ws, p)
  BY <1>3, <1>6, <1>7, <1>8 DEF BoundAs, Replacing, current
<1> QED
  BY <1>1, <1>9 DEF current

\* What becomes of the operations of a file, if what becomes of them is accepted again.
LEMMA GroupBound ==
  ASSUME NEW ws \in [SafePaths -> Texts], NEW p \in SafePaths, NEW group, GroupOn(group, p),
         NEW lockfile \in BOOLEAN, NEW bind, NEW again,
         CoalesceGroup(group, ws, lockfile, bind).code = "ok",
         CoalesceGroup(<<CoalesceGroup(group, ws, lockfile, bind).op>>, ws, lockfile, again).code
           = "ok"
  PROVE  BoundAs(CoalesceGroup(group, ws, lockfile, bind).op, group, ws, p)
<1> DEFINE op == CoalesceGroup(group, ws, lockfile, bind).op
           q == group[1].path
           creates == "create_text_file" \in Actions(group)
           manifest == q = Manifest
             \/ Actions(group) \cap {"dependency_change", "dependency_add"} # {}
<1>1. group \in Seq(Edit) /\ q = p
  BY DEF GroupOn
<1>2. \/ creates /\ Len(group) = 1 /\ ~FileExists(ws, q) /\ op = group[1]
      \/ /\ ~creates /\ manifest /\ FileExists(ws, q)
         /\ CoalesceManifest(group, ws[q], lockfile).code = "ok"
         /\ op = CoalesceManifest(group, ws[q], lockfile).op
      \/ /\ ~creates /\ ~manifest /\ FileExists(ws, q)
         /\ "delete_text_file" \in Actions(group) /\ Len(group) = 1
         /\ op = [group[1] EXCEPT !.preimage = ws[q]]
      \/ /\ ~creates /\ ~manifest /\ FileExists(ws, q)
         /\ "delete_text_file" \notin Actions(group)
         /\ CoalesceText(group, ws[q]).code = "ok"
         /\ op = CoalesceText(group, ws[q]).op
  BY <1>1, GroupAccepted
<1>3. CoalesceGroup(<<op>>, ws, lockfile, again).code = "ok"
  OBVIOUS
<1> HIDE DEF op, q
<1>4. CASE creates /\ Len(group) = 1 /\ ~FileExists(ws, q) /\ op = group[1]
  BY <1>1, <1>4, CreationBound DEF op
<1>5. CASE /\ CoalesceManifest(group, ws[q], lockfile).code = "ok"
           /\ op = CoalesceManifest(group, ws[q], lockfile).op
  <2>1. /\ CoalesceManifest(group, ws[p], lockfile).code = "ok"
        /\ op = CoalesceManifest(group, ws[p], lockfile).op
    BY <1>1, <1>5
  <2>2. CASE Textual(group)
    BY <2>1, <2>2, TextualBound DEF op
  <2>3. CASE ~Textual(group) /\ Len(group) = 1
    <3>1. Textual(group) = FALSE
      BY <2>3 DEF Textual
    <3> QED
      BY <2>1, <2>3, <3>1, EntryBound DEF op
  <2>4. CASE Len(group) # 1
    <3>1. CoalesceGroup(<<CoalesceManifest(group, ws[p], lockfile).op>>, ws, lockfile,
            again).code = "ok"
      BY <1>3, <2>1
    <3>2. BoundAs(CoalesceManifest(group, ws[p], lockfile).op, group, ws, p)
      BY <2>1, <2>4, <3>1, EntriesBound
    <3> QED
      BY <2>1, <3>2 DEF op
  <2> QED
    BY <2>2, <2>3, <2>4
<1>6. CASE /\ "delete_text_file" \in Actions(group) /\ Len(group) = 1
           /\ op = [group[1] EXCEPT !.preimage = ws[q]]
  <2>1. BoundAs([group[1] EXCEPT !.preimage = ws[p]], group, ws, p)
    BY <1>6, DeletionBound
  <2>2. op = [group[1] EXCEPT !.preimage = ws[p]]
    BY <1>1, <1>6
  <2> QED
    BY <2>1, <2>2 DEF op
<1>7. CASE /\ ~creates /\ ~manifest /\ "delete_text_file" \notin Actions(group)
           /\ CoalesceText(group, ws[q]).code = "ok"
           /\ op = CoalesceText(group, ws[q]).op
  <2>1. Actions(group) \cap {"create_text_file", "delete_text_file", "dependency_change",
                             "dependency_add"} = {}
    BY <1>7
  <2> QED
    BY <1>1, <1>7, <2>1, TextBound DEF op
<1> QED
  BY <1>2, <1>4, <1>5, <1>6, <1>7

-----------------------------------------------------------------------------
(* All operations of a proposal. *)

\* The paths of several operations, each once.
LEMMA DistinctFacts ==
  ASSUME NEW S, NEW s \in Seq(S)
  PROVE  /\ Distinct(s) \in Seq(S)
         /\ \A i, j \in DOMAIN Distinct(s) : Distinct(s)[i] = Distinct(s)[j] => i = j
         /\ \A k \in DOMAIN Distinct(s) : \E i \in DOMAIN s : Distinct(s)[k] = s[i]
         /\ \A i \in DOMAIN s : \E k \in DOMAIN Distinct(s) : Distinct(s)[k] = s[i]
<1> DEFINE I == {i \in DOMAIN s : \A j \in 1 .. i - 1 : s[j] # s[i]}
<1>1. DOMAIN s = 1 .. Len(s) /\ Len(s) \in Nat /\ Distinct(s) = Picked(s, I)
  BY DEF Distinct
<1>2. \A i, j \in DOMAIN s : i \in I /\ j \in I /\ s[i] = s[j] => i = j
  <2> SUFFICES ASSUME NEW i \in DOMAIN s, NEW j \in DOMAIN s, i \in I, j \in I, s[i] = s[j], i # j
               PROVE  FALSE
    OBVIOUS
  <2>1. CASE i < j
    <3>1. i \in 1 .. j - 1
      BY <1>1, <2>1
    <3> QED
      BY <3>1
  <2>2. CASE j < i
    <3>1. j \in 1 .. i - 1
      BY <1>1, <2>2
    <3> QED
      BY <3>1
  <2> QED
    BY <1>1, <2>1, <2>2
<1>3. \A i \in DOMAIN s : \E m \in DOMAIN s : m \in I /\ s[m] = s[i]
  <2> SUFFICES ASSUME NEW i \in DOMAIN s
               PROVE  \E m \in DOMAIN s : m \in I /\ s[m] = s[i]
    OBVIOUS
  <2> DEFINE T == {m \in DOMAIN s : s[m] = s[i]}
  <2>1. T \subseteq Nat /\ T # {}
    BY <1>1
  <2> HIDE DEF T
  <2>2. PICK x \in T : \A y \in T : ~ (<<y, x>> \in OpToRel(<, Nat))
    BY <2>1, NatLessThanWellFounded, WFMin
  <2>3. ASSUME NEW j \in 1 .. x - 1
        PROVE  s[j] # s[x]
    <3> SUFFICES ASSUME s[j] = s[x]
                 PROVE  FALSE
      OBVIOUS
    <3>1. x \in DOMAIN s /\ s[x] = s[i] /\ j \in DOMAIN s /\ j < x /\ j \in Nat /\ x \in Nat
      BY <1>1 DEF T
    <3>2. j \in T
      BY <3>1 DEF T
    <3>3. <<j, x>> \in Nat \X Nat /\ <<j, x>>[1] = j /\ <<j, x>>[2] = x
      BY <3>1
    <3>4. <<j, x>> \in OpToRel(<, Nat)
      BY <3>1, <3>3 DEF OpToRel
    <3> QED
      BY <2>2, <3>2, <3>4
  <2>4. x \in DOMAIN s /\ s[x] = s[i] /\ x \in I
    BY <2>3 DEF T
  <2> QED
    BY <2>4
<1> HIDE DEF I
<1>4. /\ Picked(s, I) \in Seq(S)
      /\ \A k \in DOMAIN Picked(s, I) : \E i \in DOMAIN s : i \in I /\ Picked(s, I)[k] = s[i]
      /\ \A i \in DOMAIN s : i \in I => \E k \in DOMAIN Picked(s, I) : Picked(s, I)[k] = s[i]
  BY PickedElements
<1>5. \A k, l \in DOMAIN Picked(s, I) : Picked(s, I)[k] = Picked(s, I)[l] => k = l
  BY <1>2, PickedDistinct
<1>6. ASSUME NEW i \in DOMAIN s
      PROVE  \E k \in DOMAIN Picked(s, I) : Picked(s, I)[k] = s[i]
  BY <1>3, <1>4
<1> QED
  BY <1>1, <1>4, <1>5, <1>6

\* Paths that differ are left as they are.
LEMMA DistinctAlready ==
  ASSUME NEW S, NEW s \in Seq(S), \A i, j \in DOMAIN s : s[i] = s[j] => i = j
  PROVE  Distinct(s) = s
<1> DEFINE I == {i \in DOMAIN s : \A j \in 1 .. i - 1 : s[j] # s[i]}
<1>1. DOMAIN s \subseteq I
  <2> SUFFICES ASSUME NEW i \in DOMAIN s, NEW j \in 1 .. i - 1, s[j] = s[i]
               PROVE  FALSE
    OBVIOUS
  <2>1. j \in DOMAIN s /\ j # i
    OBVIOUS
  <2> QED
    BY <2>1
<1> HIDE DEF I
<1>2. Picked(s, I) = s
  BY <1>1, PickedAll
<1> QED
  BY <1>2 DEF Distinct, I

\* What is coalesced of operations none of which is a transition.
LEMMA CoalesceFacts ==
  ASSUME NEW S, NEW edits \in Seq(S), TransitionsIn(edits) = {}, NEW ws, NEW lockfile, NEW bind,
         Coalesce(edits, ws, lockfile, bind).code = "ok"
  PROVE  /\ \A i \in DOMAIN edits : edits[i].path \in SafePaths
         /\ \E T : Coalesce(edits, ws, lockfile, bind).ops \in Seq(T)
         /\ Len(Coalesce(edits, ws, lockfile, bind).ops) = Len(Distinct(PathsOf(edits)))
         /\ \A i \in DOMAIN Distinct(PathsOf(edits)) :
              Coalesce(edits, ws, lockfile, bind).ops[i] =
                CoalesceGroup(GroupOf(edits, Distinct(PathsOf(edits))[i]), ws, lockfile, bind).op
         /\ \A i \in DOMAIN Distinct(PathsOf(edits)) :
              CoalesceGroup(GroupOf(edits, Distinct(PathsOf(edits))[i]), ws, lockfile, bind).code
                = "ok"
<1> DEFINE transitions == Picked(edits, TransitionsIn(edits))
           unsafe == \E i \in DOMAIN edits : edits[i].path \notin SafePaths
           groups == IF unsafe THEN <<>>
                     ELSE Distinct(PathsOf(Picked(edits, DOMAIN edits \ TransitionsIn(edits))))
           done == [i \in DOMAIN groups |->
                      CoalesceGroup(GroupOf(edits, groups[i]), ws, lockfile, bind)]
           merged == [i \in DOMAIN done |-> done[i].op]
           codes == << Fails(unsafe, "REPAIR_PATH_FORBIDDEN"),
                       Fails(\E i \in DOMAIN transitions : transitions[i].path # Manifest,
                             "REPAIR_DEPENDENCY_PATH_INVALID"),
                       FirstCode(done) >>
           paths == Distinct(PathsOf(edits))
<1>1. FirstFailure(codes) = "ok" /\ Coalesce(edits, ws, lockfile, bind).ops = transitions \o merged
  BY DEF Coalesce, Coalesced
<1>2. codes[1] = "ok" /\ codes[3] = "ok"
  <2>1. DOMAIN codes \subseteq Nat /\ 1 \in DOMAIN codes /\ 3 \in DOMAIN codes
    OBVIOUS
  <2> HIDE DEF codes
  <2> QED
    BY <1>1, <2>1, FirstFailureOk
<1>3. ~unsafe /\ FirstCode(done) = "ok"
  <2> HIDE DEF unsafe, done
  <2> QED
    BY <1>2 DEF Fails
<1>4. groups = paths
  <2>1. Picked(edits, DOMAIN edits \ TransitionsIn(edits)) = edits
    BY PickedAll
  <2> QED
    BY <1>3, <2>1
<1>5. transitions = <<>>
  BY PickedNone
<1>6. paths \in Seq({x.path : x \in S})
  BY PathsOfSequence, DistinctFacts
<1> HIDE DEF transitions, groups, unsafe, paths
<1>7. done = [i \in DOMAIN paths |-> CoalesceGroup(GroupOf(edits, paths[i]), ws, lockfile, bind)]
  BY <1>4
<1>8. \A i \in DOMAIN paths : CoalesceGroup(GroupOf(edits, paths[i]), ws, lockfile, bind).code
        = "ok"
  <2> DEFINE cs == [i \in DOMAIN done |-> done[i].code]
  <2>1. FirstFailure(cs) = "ok"
    BY <1>3 DEF FirstCode
  <2>2. DOMAIN cs = DOMAIN paths /\ DOMAIN paths \subseteq Nat
    BY <1>6, <1>7
  <2>3. \A i \in DOMAIN paths :
          cs[i] = CoalesceGroup(GroupOf(edits, paths[i]), ws, lockfile, bind).code
    BY <1>7
  <2> HIDE DEF cs
  <2>4. \A i \in DOMAIN cs : cs[i] = "ok"
    BY <2>1, <2>2, FirstFailureOk
  <2> QED
    BY <2>2, <2>3, <2>4
<1>9. merged = [i \in DOMAIN paths |->
               CoalesceGroup(GroupOf(edits, paths[i]), ws, lockfile, bind).op]
  BY <1>7
<1>10. transitions \o merged = merged
  <2>1. DOMAIN merged = 1 .. Len(paths) /\ Len(paths) \in Nat
    BY <1>6, <1>9
  <2> HIDE DEF merged
  <2> DEFINE T == {merged[i] : i \in 1 .. Len(paths)}
  <2>2. merged = [i \in 1 .. Len(paths) |-> merged[i]]
    BY <1>9, <2>1
  <2>3. [i \in 1 .. Len(paths) |-> merged[i]] \in Seq(T)
    BY <2>1
  <2>4. merged \in Seq(T)
    BY <2>2, <2>3
  <2> HIDE DEF T
  <2> QED
    BY <1>5, <2>4
<1>11. (\E T : merged \in Seq(T)) /\ Len(merged) = Len(paths)
  <2> DEFINE op(i) == CoalesceGroup(GroupOf(edits, paths[i]), ws, lockfile, bind).op
             T == {op(i) : i \in DOMAIN paths}
  <2>1. DOMAIN paths = 1 .. Len(paths) /\ Len(paths) \in Nat
    BY <1>6
  <2>2. merged = [i \in 1 .. Len(paths) |-> op(i)]
    BY <1>9, <2>1
  <2>3. \A i \in 1 .. Len(paths) : op(i) \in T
    BY <2>1
  <2> HIDE DEF op, T, merged
  <2>4. [i \in 1 .. Len(paths) |-> op(i)] \in Seq(T)
          /\ Len([i \in 1 .. Len(paths) |-> op(i)]) = Len(paths)
    BY <2>1, <2>3
  <2> QED
    BY <2>2, <2>4
<1>12. \A i \in DOMAIN paths :
         merged[i] = CoalesceGroup(GroupOf(edits, paths[i]), ws, lockfile, bind).op
  BY <1>9
<1> HIDE DEF merged
<1>13. Coalesce(edits, ws, lockfile, bind).ops = merged
  BY <1>1, <1>10
<1>14. \A i \in DOMAIN edits : edits[i].path \in SafePaths
  BY <1>3 DEF unsafe
<1> QED
  BY <1>8, <1>11, <1>12, <1>13, <1>14 DEF paths

\* With the lockfile command what is accepted without it is the same.
LEMMA CoalesceLockfile ==
  ASSUME NEW S, NEW edits \in Seq(S), TransitionsIn(edits) = {}, NEW ws, NEW lockfile \in BOOLEAN,
         NEW full \in BOOLEAN, lockfile => full, NEW bind,
         Coalesce(edits, ws, lockfile, bind).code = "ok"
  PROVE  /\ Coalesce(edits, ws, full, bind).code = "ok"
         /\ Coalesce(edits, ws, full, bind).ops = Coalesce(edits, ws, lockfile, bind).ops
<1>1. /\ \A i \in DOMAIN edits : edits[i].path \in SafePaths
      /\ \A i \in DOMAIN Distinct(PathsOf(edits)) :
           CoalesceGroup(GroupOf(edits, Distinct(PathsOf(edits))[i]), ws, lockfile, bind).code
             = "ok"
  BY CoalesceFacts
<1> DEFINE paths == Distinct(PathsOf(edits))
           unsafe == \E i \in DOMAIN edits : edits[i].path \notin SafePaths
           groups == IF unsafe THEN <<>>
                     ELSE Distinct(PathsOf(Picked(edits, DOMAIN edits \ TransitionsIn(edits))))
           done(l) == [i \in DOMAIN groups |-> CoalesceGroup(GroupOf(edits, groups[i]), ws, l,
             bind)]
<1>2. ~unsafe /\ \A i \in DOMAIN paths :
                   CoalesceGroup(GroupOf(edits, paths[i]), ws, lockfile, bind).code = "ok"
  BY <1>1
<1>3. groups = paths
  <2>1. Picked(edits, DOMAIN edits \ TransitionsIn(edits)) = edits
    BY PickedAll
  <2> QED
    BY <1>2, <2>1
<1> HIDE DEF groups, paths
<1>4. \A i \in DOMAIN groups :
        CoalesceGroup(GroupOf(edits, groups[i]), ws, full, bind)
          = CoalesceGroup(GroupOf(edits, groups[i]), ws, lockfile, bind)
  <2> SUFFICES ASSUME NEW i \in DOMAIN groups
               PROVE  CoalesceGroup(GroupOf(edits, groups[i]), ws, full, bind)
                        = CoalesceGroup(GroupOf(edits, groups[i]), ws, lockfile, bind)
    OBVIOUS
  <2> DEFINE group == GroupOf(edits, groups[i])
  <2>1. group \in Seq(S)
    BY PickedElements DEF GroupOf
  <2>2. CoalesceGroup(group, ws, lockfile, bind).code = "ok"
    BY <1>2, <1>3
  <2> HIDE DEF group
  <2>3. CoalesceGroup(group, ws, full, bind) = CoalesceGroup(group, ws, lockfile, bind)
    BY <2>1, <2>2, LockfileOnlyDecides
  <2> QED
    BY <2>3 DEF group
<1>5. done(full) = done(lockfile)
  BY <1>4
<1> DEFINE Whole(d) == Coalesced(Picked(edits, TransitionsIn(edits)), unsafe, d)
<1>6. /\ Coalesce(edits, ws, full, bind) = Whole(done(full))
      /\ Coalesce(edits, ws, lockfile, bind) = Whole(done(lockfile))
  BY DEF Coalesce, groups
<1> HIDE DEF Whole, done
<1> QED
  BY <1>5, <1>6

\* What is bound from the operations of a file is an operation on that file, and no transition.
LEMMA GroupPath ==
  ASSUME NEW p, NEW group, GroupOn(group, p), NEW ws, NEW lockfile \in BOOLEAN, NEW bind,
         CoalesceGroup(group, ws, lockfile, bind).code = "ok"
  PROVE  /\ CoalesceGroup(group, ws, lockfile, bind).op.path = p
         /\ ~IsTransitionOp(CoalesceGroup(group, ws, lockfile, bind).op)
<1> DEFINE first == group[1]
           op == CoalesceGroup(group, ws, lockfile, bind).op
           current == ws[first.path]
<1>1. first \in Operation /\ first.path = p /\ ~IsTransitionOp(first) /\ group \in Seq(Edit)
  BY DEF GroupOn, Edit
<1>2. \/ op = first
      \/ /\ CoalesceManifest(group, current, lockfile).code = "ok"
         /\ op = CoalesceManifest(group, current, lockfile).op
      \/ op = [first EXCEPT !.preimage = current]
      \/ op = CoalesceText(group, current).op
  BY <1>1, GroupAccepted
<1> SUFFICES op.path = p /\ ~IsTransitionOp(op)
  OBVIOUS
<1> HIDE DEF op
<1>3. CASE op = first
  BY <1>1, <1>3
<1>4. CASE /\ CoalesceManifest(group, current, lockfile).code = "ok"
           /\ op = CoalesceManifest(group, current, lockfile).op
  <2>1. PICK new : op = Rebound(first, current, new) \/ op = Entire(group, current, new)
    <3> HIDE DEF current
    <3>1. CASE Textual(group)
      BY <1>4, <3>1, ManifestAccepted
    <3>2. CASE ~Textual(group) /\ Len(group) = 1
      BY <1>4, <3>2, ManifestAccepted
    <3>3. CASE Len(group) # 1
      BY <1>4, <3>3, ManifestAccepted
    <3> QED
      BY <3>1, <3>2, <3>3
  <2> HIDE DEF current
  <2>2. CASE op = Rebound(first, current, new)
    BY <1>1, <2>2 DEF Rebound, Operation, IsTransitionOp
  <2>3. CASE op = Entire(group, current, new)
    BY <1>1, <2>3 DEF Entire, Operation, IsTransitionOp
  <2> QED
    BY <2>1, <2>2, <2>3
<1>5. CASE op = [first EXCEPT !.preimage = current]
  BY <1>1, <1>5 DEF Operation, IsTransitionOp
<1>6. CASE op = CoalesceText(group, current).op
  BY <1>1, <1>6 DEF CoalesceText, Operation, IsTransitionOp
<1> QED
  BY <1>2, <1>3, <1>4, <1>5, <1>6

\* The operations of one of the paths of several operations.
LEMMA GroupsOfPaths ==
  ASSUME NEW edits \in Seq(Edit), TransitionsIn(edits) = {},
         \A i \in DOMAIN edits : edits[i].path \in SafePaths
  PROVE  /\ Distinct(PathsOf(edits)) \in Seq(SafePaths)
         /\ \A i \in DOMAIN Distinct(PathsOf(edits)) :
              GroupOn(GroupOf(edits, Distinct(PathsOf(edits))[i]), Distinct(PathsOf(edits))[i])
<1> DEFINE paths == Distinct(PathsOf(edits))
<1>1. PathsOf(edits) \in Seq(SafePaths)
  <2>1. DOMAIN edits = 1 .. Len(edits) /\ Len(edits) \in Nat
    OBVIOUS
  <2> QED
    BY <2>1 DEF PathsOf
<1>2. /\ paths \in Seq(SafePaths)
      /\ \A k \in DOMAIN paths : \E i \in DOMAIN PathsOf(edits) : paths[k] = PathsOf(edits)[i]
  BY <1>1, DistinctFacts
<1> HIDE DEF paths
<1>3. ASSUME NEW k \in DOMAIN paths
      PROVE  GroupOn(GroupOf(edits, paths[k]), paths[k])
  <2> DEFINE p == paths[k]
             I == {i \in DOMAIN edits \ TransitionsIn(edits) : edits[i].path = p}
             group == Picked(edits, I)
  <2>1. PICK i \in DOMAIN edits : edits[i].path = p
    BY <1>2 DEF PathsOf
  <2>2. \A j \in DOMAIN edits : j \in I => edits[j].path = p /\ ~IsTransitionOp(edits[j])
    BY DEF TransitionsIn
  <2>3. i \in I
    BY <2>1
  <2> HIDE DEF I, p
  <2>4. /\ group \in Seq(Edit)
        /\ \A l \in DOMAIN group : \E j \in DOMAIN edits : j \in I /\ group[l] = edits[j]
        /\ \A j \in DOMAIN edits : j \in I => \E l \in DOMAIN group : group[l] = edits[j]
    BY PickedElements
  <2> HIDE DEF group
  <2>5. group # <<>>
    BY <2>1, <2>3, <2>4
  <2>6. \A l \in DOMAIN group : group[l].path = p /\ ~IsTransitionOp(group[l])
    BY <2>2, <2>4
  <2>7. GroupOn(group, p)
    BY <2>4, <2>5, <2>6 DEF GroupOn
  <2> QED
    BY <2>7 DEF GroupOf, group, I, p
<1> QED
  BY <1>2, <1>3 DEF paths

\* Operations on different files are in groups of their own.
LEMMA OnePerPath ==
  ASSUME NEW S, NEW merged \in Seq(S), NEW paths \in Seq(SafePaths), Len(merged) = Len(paths),
         \A i, j \in DOMAIN paths : paths[i] = paths[j] => i = j,
         \A i \in DOMAIN paths : merged[i].path = paths[i] /\ ~IsTransitionOp(merged[i])
  PROVE  /\ TransitionsIn(merged) = {}
         /\ PathsOf(merged) = paths /\ Distinct(PathsOf(merged)) = paths
         /\ \A i \in DOMAIN paths : GroupOf(merged, paths[i]) = <<merged[i]>>
<1>1. DOMAIN merged = DOMAIN paths
  OBVIOUS
<1>2. TransitionsIn(merged) = {}
  BY <1>1 DEF TransitionsIn
<1>3. PathsOf(merged) = paths
  BY <1>1 DEF PathsOf
<1>4. Distinct(paths) = paths
  BY DistinctAlready
<1>5. ASSUME NEW i \in DOMAIN paths
      PROVE  GroupOf(merged, paths[i]) = <<merged[i]>>
  <2> DEFINE I == {j \in DOMAIN merged \ TransitionsIn(merged) : merged[j].path = paths[i]}
  <2>1. i \in DOMAIN merged /\ i \in I
    BY <1>1, <1>2
  <2>2. \A j \in DOMAIN merged : j \in I => j = i
    BY <1>1
  <2> HIDE DEF I
  <2>3. Picked(merged, I) = <<merged[i]>>
    BY <2>1, <2>2, PickedOne
  <2> QED
    BY <2>3 DEF GroupOf, I
<1> QED
  BY <1>2, <1>3, <1>4, <1>5

\* What is bound from operations without a transition, once it is accepted as well: one operation
\* for every path, which is what the operations of the path mean, and which stays what it is.
LEMMA CoalescedBound ==
  ASSUME NEW edits \in Seq(Edit), TransitionsIn(edits) = {}, NEW ws \in [SafePaths -> Texts],
         NEW lockfile \in BOOLEAN, NEW merged,
         merged = Coalesce(edits, ws, lockfile, TakePreimages).ops,
         Coalesce(edits, ws, lockfile, TakePreimages).code = "ok",
         Coalesce(merged, ws, lockfile, ComparePreimages).code = "ok",
         NEW paths, paths = Distinct(PathsOf(edits))
  PROVE  /\ \A i \in DOMAIN edits : edits[i].path \in SafePaths
         /\ paths \in Seq(SafePaths)
         /\ \A i, j \in DOMAIN paths : paths[i] = paths[j] => i = j
         /\ \A i \in DOMAIN edits : \E k \in DOMAIN paths : paths[k] = edits[i].path
         /\ (\E T : merged \in Seq(T)) /\ Len(merged) = Len(paths)
         /\ \A i \in DOMAIN paths : BoundAs(merged[i], GroupOf(edits, paths[i]), ws, paths[i])
         /\ TransitionsIn(merged) = {}
         /\ Coalesce(merged, ws, lockfile, ComparePreimages).ops = merged
         /\ Coalesce(merged, ws, LockfileAssumed, ComparePreimages).code = "ok"
         /\ Coalesce(merged, ws, LockfileAssumed, ComparePreimages).ops = merged
<1>1. \A i \in DOMAIN edits : edits[i].path \in SafePaths
  BY CoalesceFacts
<1>2. \A i \in DOMAIN paths :
        CoalesceGroup(GroupOf(edits, paths[i]), ws, lockfile, TakePreimages).code = "ok"
  BY CoalesceFacts
<1>3. (\E T : merged \in Seq(T)) /\ Len(merged) = Len(paths)
  BY CoalesceFacts
<1>4. \A i \in DOMAIN paths : merged[i]
        = CoalesceGroup(GroupOf(edits, paths[i]), ws, lockfile, TakePreimages).op
  BY CoalesceFacts
<1>5. /\ paths \in Seq(SafePaths)
      /\ \A i \in DOMAIN paths : GroupOn(GroupOf(edits, paths[i]), paths[i])
  BY <1>1, GroupsOfPaths
<1>6. /\ \A i, j \in DOMAIN paths : paths[i] = paths[j] => i = j
      /\ \A i \in DOMAIN edits : \E k \in DOMAIN paths : paths[k] = edits[i].path
  <2>1. DOMAIN PathsOf(edits) = DOMAIN edits /\ \A i \in DOMAIN edits :
          PathsOf(edits)[i] = edits[i].path
    BY DEF PathsOf
  <2>2. PathsOf(edits) \in Seq({x.path : x \in Edit})
    BY PathsOfSequence
  <2>3. /\ \A i, j \in DOMAIN paths : paths[i] = paths[j] => i = j
        /\ \A i \in DOMAIN PathsOf(edits) : \E k \in DOMAIN paths : paths[k] = PathsOf(edits)[i]
    BY <2>2, DistinctFacts
  <2> QED
    BY <2>1, <2>3
<1>7. \A i \in DOMAIN paths : merged[i].path = paths[i] /\ ~IsTransitionOp(merged[i])
  BY <1>2, <1>4, <1>5, GroupPath
<1>8. PICK T : merged \in Seq(T)
  BY <1>3
<1>9. /\ TransitionsIn(merged) = {}
      /\ Distinct(PathsOf(merged)) = paths
      /\ \A i \in DOMAIN paths : GroupOf(merged, paths[i]) = <<merged[i]>>
  <2>1. /\ merged \in Seq(T) /\ paths \in Seq(SafePaths) /\ Len(merged) = Len(paths)
        /\ \A i, j \in DOMAIN paths : paths[i] = paths[j] => i = j
        /\ \A i \in DOMAIN paths : merged[i].path = paths[i] /\ ~IsTransitionOp(merged[i])
    BY <1>3, <1>5, <1>6, <1>7, <1>8
  <2>2. TransitionsIn(merged) = {}
    BY <2>1, OnePerPath
  <2>3. Distinct(PathsOf(merged)) = paths
    BY <2>1, OnePerPath
  <2>4. \A i \in DOMAIN paths : GroupOf(merged, paths[i]) = <<merged[i]>>
    BY <2>1, OnePerPath
  <2> QED
    BY <2>2, <2>3, <2>4
<1> DEFINE second == Coalesce(merged, ws, lockfile, ComparePreimages)
<1>10. \A i \in DOMAIN paths :
         CoalesceGroup(<<merged[i]>>, ws, lockfile, ComparePreimages).code = "ok"
  <2>1. \A i \in DOMAIN Distinct(PathsOf(merged)) :
          CoalesceGroup(GroupOf(merged, Distinct(PathsOf(merged))[i]), ws, lockfile,
            ComparePreimages).code = "ok"
    BY <1>8, <1>9, CoalesceFacts
  <2> QED
    BY <1>9, <2>1
<1>11. \A i \in DOMAIN paths : BoundAs(merged[i], GroupOf(edits, paths[i]), ws, paths[i])
  <2> SUFFICES ASSUME NEW i \in DOMAIN paths
               PROVE  BoundAs(merged[i], GroupOf(edits, paths[i]), ws, paths[i])
    OBVIOUS
  <2> DEFINE p == paths[i]
             group == GroupOf(edits, p)
  <2>1. p \in SafePaths /\ GroupOn(group, p)
    BY <1>5
  <2>2. /\ CoalesceGroup(group, ws, lockfile, TakePreimages).code = "ok"
        /\ merged[i] = CoalesceGroup(group, ws, lockfile, TakePreimages).op
        /\ CoalesceGroup(<<merged[i]>>, ws, lockfile, ComparePreimages).code = "ok"
    BY <1>2, <1>4, <1>10
  <2>3. CoalesceGroup(<<CoalesceGroup(group, ws, lockfile, TakePreimages).op>>, ws, lockfile,
          ComparePreimages).code = "ok"
    BY <2>2
  <2> HIDE DEF p, group
  <2>4. BoundAs(CoalesceGroup(group, ws, lockfile, TakePreimages).op, group, ws, p)
    BY <2>1, <2>2, <2>3, GroupBound
  <2> QED
    BY <2>2, <2>4 DEF p, group
<1>12. second.ops = merged
  <2>1. /\ (\E U : second.ops \in Seq(U)) /\ Len(second.ops) = Len(paths)
        /\ \A i \in DOMAIN paths :
             second.ops[i] = CoalesceGroup(<<merged[i]>>, ws, lockfile, ComparePreimages).op
    <3>1. (\E U : second.ops \in Seq(U)) /\ Len(second.ops) = Len(Distinct(PathsOf(merged)))
      BY <1>8, <1>9, CoalesceFacts
    <3>2. \A i \in DOMAIN Distinct(PathsOf(merged)) :
            second.ops[i] = CoalesceGroup(GroupOf(merged, Distinct(PathsOf(merged))[i]), ws,
              lockfile, ComparePreimages).op
      BY <1>8, <1>9, CoalesceFacts
    <3> HIDE DEF second
    <3> QED
      BY <1>9, <3>1, <3>2
  <2>2. \A i \in DOMAIN paths :
          CoalesceGroup(<<merged[i]>>, ws, lockfile, ComparePreimages).op = merged[i]
    BY <1>5, <1>10, <1>11, BoundStays
  <2> HIDE DEF second
  <2>3. \A i \in DOMAIN paths : second.ops[i] = merged[i]
    BY <2>1, <2>2
  <2>4. PICK U : second.ops \in Seq(U)
    BY <2>1
  <2>5. DOMAIN second.ops = 1 .. Len(second.ops) /\ DOMAIN merged = 1 .. Len(merged)
    BY <1>8, <2>4
  <2>6. DOMAIN paths = 1 .. Len(paths)
    BY <1>5
  <2> DEFINE result == second.ops
  <2>7. result \in Seq(U) /\ Len(result) = Len(merged) /\ \A i \in 1 .. Len(merged) :
          result[i] = merged[i]
    BY <1>3, <2>1, <2>3, <2>4, <2>6
  <2> HIDE DEF result
  <2>8. result = merged
    BY <1>8, <2>7
  <2> QED
    BY <2>8 DEF result
<1>13. /\ Coalesce(merged, ws, LockfileAssumed, ComparePreimages).code = "ok"
       /\ Coalesce(merged, ws, LockfileAssumed, ComparePreimages).ops = second.ops
  <2>1. LockfileAssumed \in BOOLEAN /\ (lockfile => LockfileAssumed)
    BY DEF LockfileAssumed
  <2>2. second.code = "ok" /\ merged \in Seq(T) /\ TransitionsIn(merged) = {}
    BY <1>8, <1>9
  <2> QED
    BY <2>1, <2>2, CoalesceLockfile
<1> QED
  BY <1>1, <1>3, <1>5, <1>6, <1>9, <1>11, <1>12, <1>13

-----------------------------------------------------------------------------
(* Accepted proposals are applied as they were proposed. *)

\* A proposal that is accepted was bound, and the operations bound were accepted as well.
LEMMA AcceptedBound ==
  ASSUME NEW c, NEW ws, NEW ctx, Judge(c, ws, ctx).code = "ok"
  PROVE  /\ HasTransition(c.operations) => Len(c.operations) = 1
         /\ Coalesce(c.operations, ws, ctx.lockfile, TakePreimages).code = "ok"
         /\ Bind(c, ws, ctx).ops = Coalesce(c.operations, ws, ctx.lockfile, TakePreimages).ops
         /\ Bind(c, ws, ctx).ops # <<>> =>
              /\ Coalesce(Bind(c, ws, ctx).ops, ws, ctx.lockfile, ComparePreimages).code = "ok"
              /\ RenderFailure(Coalesce(Bind(c, ws, ctx).ops, ws, ctx.lockfile,
                   ComparePreimages).ops, ws) = "ok"
         /\ Judge(c, ws, ctx).ops
              = Coalesce(Bind(c, ws, ctx).ops, ws, ctx.lockfile, ComparePreimages).ops
<1> DEFINE b == Bind(c, ws, ctx)
           bound == Coalesce(c.operations, ws, ctx.lockfile, TakePreimages)
           again == Coalesce(b.ops, ws, ctx.lockfile, ComparePreimages)
           exclusive == HasTransition(c.operations) /\ (Len(c.operations) # 1 \/ c.diff # <<>>)
<1>1. Judge(c, ws, ctx) = ValidatedProposal(b, ws, ctx, again)
  BY DEF Judge, Validate
<1>2. b = BoundProposal(c, ws, ctx, bound)
  BY DEF Bind
<1> HIDE DEF b, bound, again
<1> DEFINE given == b.ops # <<>>
           codes == << b.code, Fails(given, again.code),
                       Fails(given /\ Distinct(b.touched) # PathsOf(again.ops),
                             "REPAIR_TOUCHED_FILES_MISMATCH"),
                       Fails(~given /\ Distinct(b.touched) # b.touched, "REPAIR_PATH_DUPLICATE"),
                       Fails(given, RenderFailure(again.ops, ws)),
                       Fails(CausallyRejected(again.ops, b.touched, ctx),
                             "REPAIR_CAUSAL_REJECTION") >>
<1>3. FirstFailure(codes) = "ok" /\ Judge(c, ws, ctx).ops = again.ops
  BY <1>1 DEF ValidatedProposal
<1>4. codes[1] = "ok" /\ codes[2] = "ok" /\ codes[5] = "ok"
  <2>1. DOMAIN codes \subseteq Nat /\ {1, 2, 5} \subseteq DOMAIN codes
    OBVIOUS
  <2> HIDE DEF codes
  <2> QED
    BY <1>3, <2>1, FirstFailureOk
<1>5. b.code = "ok" /\ (given => again.code = "ok" /\ RenderFailure(again.ops, ws) = "ok")
  <2> HIDE DEF given
  <2> QED
    BY <1>4 DEF Fails
<1> DEFINE firsts == << Fails(exclusive, "REPAIR_DEPENDENCY_TRANSITION_NOT_EXCLUSIVE"),
                        Fails(~FormatValid(c), "REPAIR_PROPOSAL_FORMAT_INVALID"),
                        bound.code,
                        Fails(bound.ops = <<>>, DiffFailure(c.diff)),
                        Fails(c.targets # "supported", "REPAIR_VALIDATION_TARGET_INVALID"),
                        Fails(HasTransition(bound.ops), TransitionFailure(bound.ops, ws, ctx)) >>
<1>6. FirstFailure(firsts) = "ok" /\ b.ops = bound.ops
  BY <1>2, <1>5 DEF BoundProposal
<1>7. firsts[1] = "ok" /\ firsts[3] = "ok"
  <2>1. DOMAIN firsts \subseteq Nat /\ {1, 3} \subseteq DOMAIN firsts
    OBVIOUS
  <2> HIDE DEF firsts
  <2> QED
    BY <1>6, <2>1, FirstFailureOk
<1>8. ~exclusive /\ bound.code = "ok"
  <2> HIDE DEF exclusive
  <2> QED
    BY <1>7 DEF Fails
<1>9. HasTransition(c.operations) => Len(c.operations) = 1
  BY <1>8
<1> QED
  BY <1>3, <1>5, <1>6, <1>8, <1>9 DEF b, bound, again

\* What was shown of an operation was an application of it that succeeds.
LEMMA ShownReplacement ==
  ASSUME NEW S, NEW merged \in Seq(S), NEW ws, RenderFailure(merged, ws) = "ok",
         NEW i \in DOMAIN merged, merged[i].operation \in Replacing
  PROVE  ReplaceTextOnce(ws[merged[i].path], merged[i].old, merged[i].new).code = "ok"
<1> DEFINE code(k) == ReplaceTextOnce(ws[merged[k].path], merged[k].old, merged[k].new).code
           replaced == [k \in DOMAIN merged |-> Fails(merged[k].operation \in Replacing, code(k))]
           unchanged == \A k \in DOMAIN merged :
                          ~IsTransitionOp(merged[k]) /\ Rendered(merged[k], ws) = ws[merged[k].path]
           codes == <<FirstFailure(replaced), Fails(unchanged, "REPAIR_EMPTY_DIFF")>>
<1>1. FirstFailure(codes) = "ok"
  BY DEF RenderFailure
<1>2. FirstFailure(replaced) = "ok"
  <2>1. DOMAIN codes \subseteq Nat /\ 1 \in DOMAIN codes /\ codes[1] = FirstFailure(replaced)
    OBVIOUS
  <2> HIDE DEF codes
  <2> QED
    BY <1>1, <2>1, FirstFailureOk
<1>3. DOMAIN replaced = DOMAIN merged /\ DOMAIN merged \subseteq Nat
  OBVIOUS
<1>4. replaced[i] = code(i)
  <2> HIDE DEF code
  <2> QED
    BY DEF Fails
<1> HIDE DEF replaced
<1>5. replaced[i] = "ok"
  BY <1>2, <1>3, FirstFailureOk
<1> QED
  BY <1>4, <1>5

\* What is shown of a file is what it becomes.
LEMMA ShownAsBound ==
  ASSUME NEW o, NEW group, NEW ws \in [SafePaths -> Texts], NEW p \in SafePaths,
         BoundAs(o, group, ws, p),
         o.operation \in Replacing => ReplaceTextOnce(ws[o.path], o.old, o.new).code = "ok"
  PROVE  /\ Rendered(o, ws) = Content(o)
         /\ FileExists(ws, p) /\ Content(o) # Absent =>
              \A i \in DOMAIN Content(o) : Content(o)[i].eol = DominantNewline(ws[p])
<1>1. o.operation \in Operations /\ ~IsTransitionOp(o) /\ o.path = p /\ ws[p] \in Texts
  BY DEF BoundAs, Operation
<1>2. CASE o.operation = "create_text_file"
  <2>1. ~FileExists(ws, p)
    BY <1>2 DEF BoundAs
  <2> QED
    BY <1>2, <2>1 DEF Rendered, Content
<1>3. CASE o.operation = "delete_text_file"
  BY <1>3 DEF Rendered, Content
<1>4. CASE o.operation \in Replacing
  <2>1. PICK words \in Seq(Word) : o.new = Text(words, DominantNewline(ws[p]))
    BY <1>4 DEF BoundAs
  <2>2. o.old = ws[p]
    BY <1>4 DEF BoundAs
  <2>3. ReplaceTextOnce(ws[p], ws[p], o.new).code = "ok"
    BY <1>1, <1>4, <2>2
  <2>4. ReplaceTextOnce(ws[p], ws[p], o.new).text = o.new
    BY <1>1, <2>1, <2>3, ReplaceWhole
  <2>5. Rendered(o, ws) = ReplaceTextOnce(ws[o.path], o.old, o.new).text
    BY <1>4 DEF Rendered, Replacing
  <2>6. Content(o) = o.new
    BY <1>4 DEF Content, Replacing
  <2>7. \A i \in DOMAIN o.new : o.new[i].eol = DominantNewline(ws[p])
    <3>1. DominantNewline(ws[p]) \in Eols
      BY DominantEol
    <3> DEFINE eol == DominantNewline(ws[p])
    <3> HIDE DEF eol
    <3>2. /\ DOMAIN Text(words, eol) = DOMAIN words
          /\ \A i \in DOMAIN words : Text(words, eol)[i] = [word |-> words[i], eol |-> eol]
      BY <3>1, TextFacts DEF eol
    <3>3. \A i \in DOMAIN Text(words, eol) : Text(words, eol)[i].eol = eol
      BY <3>2
    <3> QED
      BY <2>1, <3>3 DEF eol
  <2> QED
    BY <1>1, <2>2, <2>4, <2>5, <2>6, <2>7
<1> QED
  BY <1>1, <1>2, <1>3, <1>4 DEF Operations, Replacing, IsTransitionOp

\* The changes prepared from operations on different files.
LEMMA ChangesOf ==
  ASSUME NEW S, NEW merged \in Seq(S), TransitionsIn(merged) = {}, NEW ws,
         Coalesce(merged, ws, LockfileAssumed, ComparePreimages).code = "ok",
         Coalesce(merged, ws, LockfileAssumed, ComparePreimages).ops = merged
  PROVE  /\ PrepareOperations(merged, ws).code = "ok"
         /\ DOMAIN PrepareOperations(merged, ws).changes = DOMAIN merged
         /\ \A i \in DOMAIN merged :
              /\ PrepareOperations(merged, ws).changes[i].path = merged[i].path
              /\ PrepareOperations(merged, ws).changes[i].content = Content(merged[i])
<1> DEFINE bound == Coalesce(merged, ws, LockfileAssumed, ComparePreimages)
           written == Picked(bound.ops, DOMAIN bound.ops \ TransitionsIn(bound.ops))
           change(o) == [path |-> o.path,
                         content |-> IF o.operation = "delete_text_file" THEN Absent ELSE o.new,
                         preimage |-> IF o.operation = "create_text_file" THEN Absent
                                      ELSE o.preimage]
<1>1. Picked(merged, DOMAIN merged \ TransitionsIn(merged)) = merged
  BY PickedAll
<1>2. written = merged
  BY <1>1
<1>3. PrepareOperations(merged, ws) =
        [code |-> bound.code, changes |-> [i \in DOMAIN written |-> change(written[i])]]
  BY DEF PrepareOperations
<1> HIDE DEF bound, written
<1>4. PrepareOperations(merged, ws).changes = [i \in DOMAIN merged |-> change(merged[i])]
  BY <1>2, <1>3
<1>5. PrepareOperations(merged, ws).code = "ok"
  <2>1. bound.code = "ok"
    BY DEF bound
  <2> QED
    BY <1>3, <2>1
<1>6. \A i \in DOMAIN merged : change(merged[i]).path = merged[i].path
        /\ change(merged[i]).content = Content(merged[i])
  BY DEF Content
<1> HIDE DEF change
<1> QED
  BY <1>4, <1>5, <1>6

\* What the files become, change by change.
LEMMA OverlayOf ==
  ASSUME NEW changes, NEW paths, NEW ws, DOMAIN changes = DOMAIN paths,
         \A i \in DOMAIN paths : changes[i].path = paths[i],
         \A i, j \in DOMAIN paths : paths[i] = paths[j] => i = j
  PROVE  \A p \in SafePaths :
           /\ \A i \in DOMAIN paths : paths[i] = p => Overlay(ws, changes)[p] = changes[i].content
           /\ (\A i \in DOMAIN paths : paths[i] # p) => Overlay(ws, changes)[p] = ws[p]
<1> TAKE p \in SafePaths
<1>1. ASSUME NEW i \in DOMAIN paths, paths[i] = p
      PROVE  Overlay(ws, changes)[p] = changes[i].content
  <2>1. \E k \in DOMAIN changes : changes[k].path = p
    BY <1>1
  <2>2. (CHOOSE k \in DOMAIN changes : changes[k].path = p) = i
    BY <1>1
  <2> QED
    BY <2>1, <2>2 DEF Overlay
<1>2. ASSUME \A i \in DOMAIN paths : paths[i] # p
      PROVE  Overlay(ws, changes)[p] = ws[p]
  BY <1>2 DEF Overlay
<1> QED
  BY <1>1, <1>2

\* A proposal without a transition is applied as it was proposed.
LEMMA ChangesAsProposed ==
  ASSUME NEW a, a.ws \in [SafePaths -> Texts], a.ctx.lockfile \in BOOLEAN,
         NEW edits \in Seq(Edit), a.c.operations = edits,
         edits # <<>>, TransitionsIn(edits) = {}, Judge(a.c, a.ws, a.ctx).code = "ok"
  PROVE  AppliesAsProposed(a)
<1> DEFINE ws == a.ws
           lockfile == a.ctx.lockfile
           v == Judge(a.c, a.ws, a.ctx)
           merged == Coalesce(edits, ws, lockfile, TakePreimages).ops
           paths == Distinct(PathsOf(edits))
           prepared == Prepare(v, ws)
           after == Overlay(ws, prepared.changes)
<1>1. /\ Coalesce(edits, ws, lockfile, TakePreimages).code = "ok"
      /\ Bind(a.c, a.ws, a.ctx).ops = merged
      /\ merged # <<>> => /\ Coalesce(merged, ws, lockfile, ComparePreimages).code = "ok"
                       /\ RenderFailure(Coalesce(merged, ws, lockfile, ComparePreimages).ops, ws)
                            = "ok"
      /\ v.ops = Coalesce(merged, ws, lockfile, ComparePreimages).ops
  BY AcceptedBound
<1>2. merged # <<>>
  <2>1. Len(merged) = Len(paths)
    BY <1>1, CoalesceFacts
  <2>2. PathsOf(edits) \in Seq({x.path : x \in Edit}) /\ DOMAIN PathsOf(edits) = DOMAIN edits
    BY PathsOfSequence
  <2>3. 1 \in DOMAIN edits
    OBVIOUS
  <2>4. /\ paths \in Seq({x.path : x \in Edit})
        /\ \A i \in DOMAIN PathsOf(edits) : \E k \in DOMAIN paths : paths[k] = PathsOf(edits)[i]
    BY <2>2, DistinctFacts
  <2> HIDE DEF paths, merged
  <2>5. PICK k \in DOMAIN paths : TRUE
    BY <2>2, <2>3, <2>4
  <2>6. Len(paths) # 0
    BY <2>4, <2>5
  <2> QED
    BY <2>1, <2>6
<1>3. Coalesce(merged, ws, lockfile, ComparePreimages).code = "ok"
  BY <1>1, <1>2
<1>4. /\ \A i \in DOMAIN edits : edits[i].path \in SafePaths
      /\ paths \in Seq(SafePaths)
      /\ \A i, j \in DOMAIN paths : paths[i] = paths[j] => i = j
      /\ \A i \in DOMAIN edits : \E k \in DOMAIN paths : paths[k] = edits[i].path
  BY <1>1, <1>3, CoalescedBound
<1>5. (\E T : merged \in Seq(T)) /\ Len(merged) = Len(paths)
  BY <1>1, <1>3, CoalescedBound
<1>6. \A i \in DOMAIN paths : BoundAs(merged[i], GroupOf(edits, paths[i]), ws, paths[i])
  BY <1>1, <1>3, CoalescedBound
<1>7. /\ Coalesce(merged, ws, lockfile, ComparePreimages).ops = merged
      /\ Coalesce(merged, ws, LockfileAssumed, ComparePreimages).code = "ok"
      /\ Coalesce(merged, ws, LockfileAssumed, ComparePreimages).ops = merged
  BY <1>1, <1>3, CoalescedBound
<1>8. v.ops = merged /\ RenderFailure(merged, ws) = "ok"
  BY <1>1, <1>2, <1>7
<1>9. prepared = PrepareOperations(merged, ws)
  BY <1>2, <1>8 DEF Prepare
<1> DEFINE changes == PrepareOperations(merged, ws).changes
<1>10. PICK T : merged \in Seq(T)
  BY <1>5
<1>11. DOMAIN merged = DOMAIN paths
  BY <1>4, <1>5, <1>10
<1>12. TransitionsIn(merged) = {}
  <2> HIDE DEF merged, paths
  <2> QED
    BY <1>6, <1>11 DEF TransitionsIn, BoundAs
<1>13. /\ prepared.code = "ok" /\ DOMAIN changes = DOMAIN merged
       /\ \A i \in DOMAIN merged : changes[i].path = merged[i].path
            /\ changes[i].content = Content(merged[i])
  BY <1>12, <1>7, <1>9, <1>10, ChangesOf
<1>14. \A i \in DOMAIN paths : merged[i].path = paths[i]
  BY <1>6 DEF BoundAs
<1>15. \A p \in SafePaths :
         /\ \A i \in DOMAIN paths : paths[i] = p => after[p] = Content(merged[i])
         /\ (\A i \in DOMAIN paths : paths[i] # p) => after[p] = ws[p]
  <2>1. after = Overlay(ws, changes)
    BY <1>9
  <2> HIDE DEF after, changes, paths, merged, ws
  <2>2. DOMAIN changes = DOMAIN paths /\ \A i \in DOMAIN paths : changes[i].path = paths[i]
    BY <1>11, <1>13, <1>14
  <2>3. \A p \in SafePaths :
           /\ \A i \in DOMAIN paths : paths[i] = p => Overlay(ws, changes)[p] = changes[i].content
           /\ (\A i \in DOMAIN paths : paths[i] # p) => Overlay(ws, changes)[p] = ws[p]
    BY <1>4, <2>2, OverlayOf
  <2> QED
    BY <1>11, <1>13, <2>1, <2>3
<1>16. \A i \in DOMAIN paths :
         /\ Rendered(merged[i], ws) = Content(merged[i])
         /\ FileExists(ws, paths[i]) /\ Content(merged[i]) # Absent =>
              \A k \in DOMAIN Content(merged[i]) :
                Content(merged[i])[k].eol = DominantNewline(ws[paths[i]])
  <2> SUFFICES ASSUME NEW i \in DOMAIN paths
               PROVE  /\ Rendered(merged[i], ws) = Content(merged[i])
                      /\ FileExists(ws, paths[i]) /\ Content(merged[i]) # Absent =>
                           \A k \in DOMAIN Content(merged[i]) :
                             Content(merged[i])[k].eol = DominantNewline(ws[paths[i]])
    OBVIOUS
  <2>1. /\ paths[i] \in SafePaths /\ BoundAs(merged[i], GroupOf(edits, paths[i]), ws, paths[i])
        /\ i \in DOMAIN merged
    BY <1>4, <1>6, <1>11
  <2>2. merged[i].operation \in Replacing =>
          ReplaceTextOnce(ws[merged[i].path], merged[i].old, merged[i].new).code = "ok"
    BY <1>8, <1>10, <2>1, ShownReplacement
  <2> DEFINE p == paths[i]
             o == merged[i]
             group == GroupOf(edits, p)
  <2>3. /\ BoundAs(o, group, ws, p) /\ p \in SafePaths /\ ws \in [SafePaths -> Texts]
        /\ o.operation \in Replacing => ReplaceTextOnce(ws[o.path], o.old, o.new).code = "ok"
    BY <2>1, <2>2
  <2> HIDE DEF p, o, group, ws
  <2>4. Rendered(o, ws) = Content(o)
    BY <2>3, ShownAsBound
  <2>5. FileExists(ws, p) /\ Content(o) # Absent =>
          \A k \in DOMAIN Content(o) : Content(o)[k].eol = DominantNewline(ws[p])
    BY <2>3, ShownAsBound
  <2> QED
    BY <2>4, <2>5 DEF o, p
<1> HIDE DEF v, prepared, after, changes
<1>17. \A p \in SafePaths : MeantAll(edits, ws, p) = {Words(after[p])}
  <2> TAKE p \in SafePaths
  <2>1. CASE \E i \in DOMAIN paths : paths[i] = p
    <3>1. PICK i \in DOMAIN paths : paths[i] = p
      BY <2>1
    <3>2. MeantAll(GroupOf(edits, p), ws, p) = {Words(Content(merged[i]))}
      <4> HIDE DEF paths, merged
      <4> QED
        BY <1>6, <3>1 DEF BoundAs
    <3>3. MeantAll(edits, ws, p) = MeantAll(GroupOf(edits, p), ws, p)
      BY MeantOfGroup
    <3>4. after[p] = Content(merged[i])
      BY <1>15, <3>1
    <3> QED
      BY <3>2, <3>3, <3>4
  <2>2. CASE \A i \in DOMAIN paths : paths[i] # p
    <3>1. \A i \in DOMAIN edits : edits[i].path # p
      BY <1>4, <2>2
    <3>2. GroupOf(edits, p) = <<>>
      BY <3>1, PickedNone DEF GroupOf
    <3>3. MeantAll(edits, ws, p) = {Words(ws[p])}
      BY <3>2, MeantOfGroup, MeantOfNothing
    <3>4. after[p] = ws[p]
      BY <1>15, <2>2
    <3> QED
      BY <3>3, <3>4
  <2> QED
    BY <2>1, <2>2
<1>18. \A i \in DOMAIN merged : Rendered(merged[i], ws) = after[merged[i].path]
  <2> HIDE DEF paths, merged
  <2> QED
    BY <1>4, <1>11, <1>14, <1>15, <1>16
<1>19. \A p \in SafePaths : FileExists(ws, p) /\ FileExists(after, p) =>
         after[p] = ws[p] \/ \A i \in DOMAIN after[p] : after[p][i].eol = DominantNewline(ws[p])
  <2> SUFFICES ASSUME NEW p \in SafePaths, FileExists(ws, p), FileExists(after, p)
               PROVE  after[p] = ws[p] \/ \A i \in DOMAIN after[p] :
                                             after[p][i].eol = DominantNewline(ws[p])
    OBVIOUS
  <2> HIDE DEF paths, merged
  <2>1. CASE \E i \in DOMAIN paths : paths[i] = p
    <3>1. PICK i \in DOMAIN paths : paths[i] = p
      BY <2>1
    <3>2. after[p] = Content(merged[i]) /\ Content(merged[i]) # Absent
      BY <1>15, <3>1 DEF FileExists
    <3> QED
      BY <1>16, <3>1, <3>2
  <2>2. CASE \A i \in DOMAIN paths : paths[i] # p
    BY <1>15, <2>2
  <2> QED
    BY <2>1, <2>2
<1> HIDE DEF merged, paths
<1>20. AsProposed(a, v, after)
  <2>1. Prepare(v, a.ws).code = "ok"
    BY <1>13 DEF prepared
  <2> QED
    BY <1>8, <1>17, <1>18, <1>19, <2>1 DEF AsProposed
<1>21. AfterApply(a, v) = after
  BY DEF AfterApply, after, prepared
<1> QED
  BY <1>20, <1>21 DEF AppliesAsProposed, JudgedAsProposed, v

\* A transition, which is alone, is bound as it is, whatever the lockfile command and the preimages.
LEMMA TransitionCoalesced ==
  ASSUME NEW S, NEW edits \in Seq(S), Len(edits) = 1, HasTransition(edits), NEW ws,
         NEW lockfile, NEW bind
  PROVE  /\ Coalesce(edits, ws, lockfile, bind).ops = edits
         /\ Coalesce(edits, ws, lockfile, bind).code = "ok" <=> edits[1].path = Manifest
<1> DEFINE I == TransitionsIn(edits)
           transitions == Picked(edits, I)
           others == Picked(edits, DOMAIN edits \ I)
           unsafe == \E i \in DOMAIN edits : edits[i].path \notin SafePaths
           groups == IF unsafe THEN <<>> ELSE Distinct(PathsOf(others))
           done == [i \in DOMAIN groups |->
                      CoalesceGroup(GroupOf(edits, groups[i]), ws, lockfile, bind)]
           merged == [i \in DOMAIN done |-> done[i].op]
           elsewhere == \E i \in DOMAIN transitions : transitions[i].path # Manifest
           codes == << Fails(unsafe, "REPAIR_PATH_FORBIDDEN"),
                       Fails(elsewhere, "REPAIR_DEPENDENCY_PATH_INVALID"), FirstCode(done) >>
<1>1. DOMAIN edits = {1} /\ I = {1}
  BY DEF HasTransition, TransitionsIn
<1>2. Coalesce(edits, ws, lockfile, bind)
        = [code |-> FirstFailure(codes), ops |-> transitions \o merged]
  BY DEF Coalesce, Coalesced
<1>3. transitions = edits /\ others = <<>>
  BY <1>1, PickedAll, PickedNone
<1>4. groups = <<>>
  <2>1. PathsOf(<<>>) = <<>>
    BY DEF PathsOf
  <2>2. Distinct(<<>>) = <<>>
    <3>1. <<>> \in Seq(S) /\ \A i, j \in DOMAIN <<>> : <<>>[i] = <<>>[j] => i = j
      OBVIOUS
    <3> QED
      BY <3>1, DistinctAlready
  <2> QED
    BY <1>3, <2>1, <2>2
<1> HIDE DEF I, transitions, groups, unsafe, elsewhere
<1>5. done = <<>> /\ merged = <<>>
  BY <1>4
<1> HIDE DEF done, merged
<1>6. transitions \o merged = edits
  BY <1>3, <1>5
<1>7. FirstCode(done) = "ok"
  <2> DEFINE cs == [i \in DOMAIN done |-> done[i].code]
  <2>1. DOMAIN cs = {}
    BY <1>5
  <2> HIDE DEF cs
  <2>2. FirstFailure(cs) = "ok"
    BY <2>1, FirstFailureOk
  <2> QED
    BY <2>2 DEF FirstCode, cs
<1>8. FirstFailure(codes) = "ok" <=> codes[1] = "ok" /\ codes[2] = "ok"
  <2>1. DOMAIN codes = {1, 2, 3} /\ codes[3] = "ok" /\ DOMAIN codes \subseteq Nat
    BY <1>7
  <2> HIDE DEF codes
  <2> QED
    BY <2>1, FirstFailureOk
<1>9. (codes[1] = "ok" <=> ~unsafe) /\ (codes[2] = "ok" <=> ~elsewhere)
  BY DEF Fails
<1>10. (~unsafe <=> edits[1].path \in SafePaths) /\ (~elsewhere <=> edits[1].path = Manifest)
  BY <1>1, <1>3 DEF unsafe, elsewhere
<1>11. Manifest \in SafePaths
  BY DEF SafePaths
<1> HIDE DEF codes
<1> QED
  BY <1>2, <1>6, <1>8, <1>9, <1>10, <1>11

\* A proposal that is a transition leaves the files to the dependency runner.
LEMMA TransitionAsProposed ==
  ASSUME NEW a, a.ws \in [SafePaths -> Texts], NEW edits \in Seq(Operation), a.c.operations = edits,
         edits # <<>>, HasTransition(edits), Judge(a.c, a.ws, a.ctx).code = "ok"
  PROVE  AppliesAsProposed(a)
<1> DEFINE ws == a.ws
           lockfile == a.ctx.lockfile
           v == Judge(a.c, a.ws, a.ctx)
           o == edits[1]
           after == Overlay(ws, <<>>)
<1>1. /\ Len(edits) = 1 /\ Coalesce(edits, ws, lockfile, TakePreimages).code = "ok"
      /\ Bind(a.c, a.ws, a.ctx).ops = Coalesce(edits, ws, lockfile, TakePreimages).ops
      /\ v.ops = Coalesce(Bind(a.c, a.ws, a.ctx).ops, ws, lockfile, ComparePreimages).ops
  BY AcceptedBound
<1>2. o.path = Manifest /\ Coalesce(edits, ws, lockfile, TakePreimages).ops = edits
  BY <1>1, TransitionCoalesced
<1>3. v.ops = edits
  BY <1>1, <1>2, TransitionCoalesced
<1>4. /\ Coalesce(edits, ws, LockfileAssumed, ComparePreimages).code = "ok"
      /\ Coalesce(edits, ws, LockfileAssumed, ComparePreimages).ops = edits
  BY <1>1, <1>2, TransitionCoalesced
<1>5. DOMAIN edits = {1} /\ TransitionsIn(edits) = {1} /\ IsTransitionOp(o) /\ o \in Operation
  BY <1>1 DEF HasTransition, TransitionsIn
<1>6. Prepare(v, ws).code = "ok" /\ Prepare(v, ws).changes = <<>>
  <2> DEFINE bound == Coalesce(edits, ws, LockfileAssumed, ComparePreimages)
             written == Picked(bound.ops, DOMAIN bound.ops \ TransitionsIn(bound.ops))
             change(e) == [path |-> e.path,
                           content |-> IF e.operation = "delete_text_file" THEN Absent ELSE e.new,
                           preimage |-> IF e.operation = "create_text_file" THEN Absent
                                        ELSE e.preimage]
  <2>1. Prepare(v, ws) = PrepareOperations(edits, ws)
    BY <1>3 DEF Prepare
  <2>2. PrepareOperations(edits, ws) =
          [code |-> bound.code, changes |-> [i \in DOMAIN written |-> change(written[i])]]
    BY DEF PrepareOperations
  <2>3. Picked(edits, DOMAIN edits \ TransitionsIn(edits)) = <<>>
    BY <1>5, PickedNone
  <2>4. written = <<>> /\ bound.code = "ok"
    BY <1>4, <2>3
  <2> HIDE DEF bound, written, change, v
  <2>5. [i \in DOMAIN written |-> change(written[i])] = <<>>
    BY <2>4
  <2> QED
    BY <2>1, <2>2, <2>4, <2>5
<1>7. after = ws
  BY DEF Overlay
<1>8. \A p \in SafePaths : MeantAll(edits, ws, p) = {Words(ws[p])}
  <2> TAKE p \in SafePaths
  <2>1. edits = Append(<<>>, o)
    BY <1>1
  <2>2. MeantAll(edits, ws, p) = MeantStep({Words(ws[p])}, o, p)
    <3> DEFINE none == <<>>
    <3>1. none \in Seq(Operation) /\ edits = Append(none, o)
      BY <2>1
    <3>2. MeantAll(none, ws, p) = {Words(ws[p])}
      BY MeantOfNothing
    <3> HIDE DEF none, o, ws
    <3>3. MeantAll(Append(none, o), ws, p) = MeantStep(MeantAll(none, ws, p), o, p)
      BY <1>5, <3>1, MeantOfAppend
    <3> QED
      BY <3>1, <3>2, <3>3
  <2>3. Meant(Words(ws[p]), o) = {Words(ws[p])}
    BY <1>5 DEF Meant, IsTransitionOp
  <2> QED
    BY <2>2, <2>3 DEF MeantStep
<1>9. \A i \in DOMAIN edits : Rendered(edits[i], ws) = ws[edits[i].path]
  BY <1>5 DEF Rendered, IsTransitionOp
<1>10. AsProposed(a, v, after)
  <2> HIDE DEF v, after
  <2> QED
    BY <1>3, <1>6, <1>7, <1>8, <1>9 DEF AsProposed
<1>11. AfterApply(a, v) = after
  BY <1>6 DEF AfterApply
<1> QED
  BY <1>10, <1>11 DEF AppliesAsProposed, JudgedAsProposed

\* AppliedAsProposed: no accepted proposal is applied as something else.
LEMMA NothingMisapplied ==
  Misapplied = {}
<1> SUFFICES ASSUME NEW a \in Accepted, a.c.operations # <<>>
             PROVE  AppliesAsProposed(a)
  BY DEF Misapplied
<1>1. PICK c \in Candidates, ws \in Workspaces, ctx \in Contexts :
        a = [c |-> c, ws |-> ws, ctx |-> ctx]
  BY DEF Accepted
<1>2. Judge(a.c, a.ws, a.ctx).code = "ok"
  BY DEF Accepted
<1>3. a.ws \in [SafePaths -> Texts] /\ a.ctx.lockfile \in BOOLEAN
  BY <1>1, ProposalsAssumption DEF Context
<1> DEFINE edits == a.c.operations
<1>4. edits \in Seq(Operation)
  BY <1>1, ProposalsAssumption DEF Candidate
<1>5. \A i \in DOMAIN edits : FieldsGiven(edits[i]) => Entry(edits[i]) \in Word
  BY <1>1, ProposalsAssumption
<1> HIDE DEF edits
<1>6. edits \in Seq(Edit)
  <2>1. \A i \in DOMAIN edits : edits[i] \in Edit
    BY <1>4, <1>5 DEF Edit
  <2> QED
    BY <1>4, <2>1
<1>7. CASE HasTransition(edits)
  BY <1>2, <1>3, <1>4, <1>7, TransitionAsProposed DEF edits
<1>8. CASE ~HasTransition(edits)
  <2>1. TransitionsIn(edits) = {}
    BY <1>8 DEF HasTransition
  <2> QED
    BY <1>2, <1>3, <1>6, <2>1, ChangesAsProposed DEF edits
<1> QED
  BY <1>7, <1>8

-----------------------------------------------------------------------------
(* The theorems. *)

\* Every reachable state of the proposals' and reviews' calls satisfies the invariant.
THEOREM RepairCorrect == Spec => []RepairInv
<1>1. Init => RepairInv
  BY RepairInit
<1>2. RepairInv /\ [Next]_vars => RepairInv'
  BY RepairStep
<1> QED
  BY <1>1, <1>2, PTL DEF Spec

\* The one semantic retry of an attempt is called at most once, over all passes, workers,
\* crashes and restarts.
THEOREM RetryCalledOnceAlways == Spec => []RetryCalledOnce
<1>1. RepairInv => RetryCalledOnce
  BY DEF RepairInv, CallInv, RetriesCounted
<1> QED
  BY <1>1, RepairCorrect, PTL

\* A gateway call that may still be answered, or whose answer was lost, is not repeated under
\* its key, whoever finds the row; the call that is out may repeat its own POST.
THEOREM NeverRepeatsBlindly == Spec => NoBlindRepeat
<1>1. RepairInv /\ [Next]_vars =>
        [\A k \in Keys, w \in Workers : Posts(w, k) =>
           /\ ~ calls[k].lost
           /\ \A v \in Workers : Answering(v, k) => v = w /\ wk[w].pc = "call"]_vars
  BY RepairStep DEF PostedAlone
<1> QED
  BY <1>1, RepairCorrect, PTL DEF Spec, NoBlindRepeat

\* A stored proposal or review names a completed call of its own attempt, whatever answers
\* come late and whatever calls are recovered.
THEOREM AnswersStayCompleted == Spec => []AnswersAreCompleted
<1>1. RepairInv => AnswersAreCompleted
  BY DEF RepairInv, AttemptInv, AnswersBound
<1> QED
  BY <1>1, RepairCorrect, PTL

\* Concurrent recoveries of exhausted attempts leave exactly one attempt open.
THEOREM OneAttemptOpen == Spec => []OneOpenAttempt
<1>1. RepairInv => OneOpenAttempt
  <2> SUFFICES ASSUME RepairInv
               PROVE  OneOpenAttempt
    OBVIOUS
  <2>1. PICK m \in Attempts : Newest(m)
    BY DEF RepairInv, AttemptInv, ChainOfAttempts
  <2>2. {n \in Attempts : att[n].status \notin {"absent", "superseded"}} = {m}
    BY <2>1, NewestFacts DEF RepairInv, StateTyped, Newest
  <2> QED
    BY <2>2, FS_Singleton DEF OneOpenAttempt
<1> QED
  BY <1>1, RepairCorrect, PTL

\* ApplyIsAllOrNothing: whoever writes into the workspace while PatchApplyService applies what
\* was approved, the changes are all in place afterwards or every file of them is put back.
THEOREM ApplyAllOrNothing == Spec => []ApplyIsAllOrNothing
<1>1. ApplyIsAllOrNothing
  BY NothingPartlyApplied DEF ApplyIsAllOrNothing
<1> QED
  BY <1>1, PTL

\* AppliedAsProposed: what binding, validation and the third coalescing make of a proposal whose
\* operations are accepted is what its operations mean one after the other, what
\* _render_safe_diff showed of it, and in the line endings of every file.
THEOREM AppliedAsWasProposed == Spec => []AppliedAsProposed
<1>1. AppliedAsProposed
  BY NothingMisapplied DEF AppliedAsProposed
<1> QED
  BY <1>1, PTL

==============================================================================
