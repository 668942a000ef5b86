------------------------------ MODULE RunProofs ------------------------------
(***************************************************************************)
(* Proofs about one run: its state transitions and its event log           *)
(* (StateTransition), for any sessions, requests, keys, leases and legacy  *)
(* logs; and its way from start to the gate G04 (SourceIntake), for any    *)
(* runs, targets, threads, attempts and bounds.                            *)
(***************************************************************************)
EXTENDS StateTransition, SourceIntake, SequenceTheorems, TLAPS

\* Everything but the call's own session is left alone by the steps that only read.
dbVars == <<run, stageStatus, stepStatus, events, counter, leases, clock>>

\* The fields of a request that a step writes into the database.
LEMMA RequestFields ==
  ASSUME NEW r \in Requests
  PROVE  /\ r \in Request /\ r # None
         /\ r.key \in Keys /\ r.expected \in Nat
         /\ r.kind \in {"transition", "audit", "raw"}
         /\ r.to \in RunStatuses \cup {None}
         /\ r.stageTo \in StageStatuses \cup {None}
         /\ r.stepTo \in StepStatuses \cup {None}
  BY ConstantsAssumption DEF Request

\* The fields of a stored event.
LEMMA EventFields ==
  ASSUME NEW e \in Event
  PROVE  /\ e.seq \in Nat /\ e.key \in Keys /\ e.prev \in Nat /\ e.next \in Nat
         /\ e.kind \in {"transition", "audit", "raw"}
         /\ e.to \in RunStatuses \cup {None}
  BY DEF Event

\* Appending at the end keeps the earlier rows and adds the new one.
LEMMA AppendFacts ==
  ASSUME NEW log \in Seq(Event), NEW e \in Event
  PROVE  /\ Append(log, e) \in Seq(Event)
         /\ Len(Append(log, e)) = Len(log) + 1
         /\ \A i \in 1 .. Len(log) : Append(log, e)[i] = log[i]
         /\ Append(log, e)[Len(log) + 1] = e
  OBVIOUS

\* MAX(sequence) of a log in sequence order bounds every row of it.
LEMMA MaxSequenceBounds ==
  ASSUME NEW log \in Seq(Event),
         \A i, j \in 1 .. Len(log) : i < j => log[i].seq < log[j].seq
  PROVE  /\ MaxSequence(log) \in Nat
         /\ \A i \in 1 .. Len(log) : log[i].seq <= MaxSequence(log)
<1>1. CASE log = << >>
  BY <1>1 DEF MaxSequence
<1>2. CASE log # << >>
  <2> DEFINE S == {log[i].seq : i \in 1 .. Len(log)}
             Top(m) == \A i \in 1 .. Len(log) : log[i].seq <= m
  <2>1. Len(log) \in Nat /\ Len(log) >= 1
    BY <1>2
  <2>2. \A i \in 1 .. Len(log) : log[i].seq \in Nat
    BY EventFields
  <2>3. log[Len(log)].seq \in S
    BY <2>1
  <2>4. Top(log[Len(log)].seq)
    BY <2>1, <2>2
  <2>5. \E m \in S : Top(m)
    BY <2>3, <2>4
  <2>6. (CHOOSE m \in S : Top(m)) \in S /\ Top(CHOOSE m \in S : Top(m))
    BY <2>5, Zenon
  <2>7. MaxSequence(log) = CHOOSE m \in S : Top(m)
    BY <1>2 DEF MaxSequence
  <2>8. S \subseteq Nat
    BY <2>2
  <2> QED
    BY <2>6, <2>7, <2>8
<1> QED
  BY <1>1, <1>2

\* The sequence allocated for a new row is above every row already there, with
\* or without a counter row.
LEMMA AllocatedIsNew ==
  ASSUME TypeOK, SequencesFollowCommits
  PROVE  /\ AllocatedSequence \in Nat
         /\ \A i \in 1 .. Len(events) : events[i].seq < AllocatedSequence
<1>1. /\ MaxSequence(events) \in Nat
      /\ \A i \in 1 .. Len(events) : events[i].seq <= MaxSequence(events)
  BY MaxSequenceBounds DEF TypeOK, SequencesFollowCommits
<1>2. \A i \in 1 .. Len(events) : events[i].seq \in Nat
  BY EventFields DEF TypeOK
<1> QED
  BY <1>1, <1>2 DEF AllocatedSequence, TypeOK

\* The log grew by the row e and is still typed and in sequence order.
LogGrewBy(e) ==
  /\ events' \in Seq(Event) /\ counter' \in Nat
  /\ SequencesFollowCommits'
  /\ Len(events') = Len(events) + 1
  /\ \A i \in 1 .. Len(events) : events'[i] = events[i]
  /\ events'[Len(events) + 1] = e

\* An appended row keeps the log typed and in sequence order.
LEMMA AppendKeepsOrder ==
  ASSUME TypeOK, SequencesFollowCommits,
         NEW r \in Requests, NEW c \in Request \cup {None},
         NEW prev \in Nat, NEW next \in Nat,
         NEW from \in RunStatuses \cup {None}, NEW to \in RunStatuses \cup {None},
         AppendEvent(r, c, prev, next, from, to)
  PROVE  LogGrewBy(EventRow(r, c, prev, next, from, to))
<1> DEFINE e == EventRow(r, c, prev, next, from, to)
<1>1. /\ AllocatedSequence \in Nat
      /\ \A i \in 1 .. Len(events) : events[i].seq < AllocatedSequence
  BY AllocatedIsNew
<1>2. e \in Event
  BY <1>1, RequestFields DEF Event, EventRow
<1>3. events' = Append(events, e) /\ counter' = AllocatedSequence
  BY DEF AppendEvent
<1>4. events \in Seq(Event) /\ Len(events) \in Nat
  BY DEF TypeOK
<1>5. e.seq = AllocatedSequence
  BY DEF EventRow
<1> HIDE DEF e
<1>6. /\ events' \in Seq(Event) /\ Len(events') = Len(events) + 1
      /\ \A i \in 1 .. Len(events) : events'[i] = events[i]
      /\ events'[Len(events) + 1] = e
  BY <1>2, <1>3, <1>4, AppendFacts
<1>7. \A i \in 1 .. Len(events) : events[i].seq \in Nat
  BY <1>4, EventFields
<1>8. SequencesFollowCommits'
  <2>1. \A i \in 1 .. Len(events) : events'[i].seq = events[i].seq
    BY <1>6
  <2>2. events'[Len(events) + 1].seq = AllocatedSequence
    BY <1>5, <1>6
  <2>3. \A i \in 1 .. Len(events) : events'[i].seq < events'[Len(events) + 1].seq
    BY <1>1, <2>1, <2>2
  <2>4. \A i, j \in 1 .. Len(events) : i < j => events[i].seq < events[j].seq
    BY DEF SequencesFollowCommits
  <2>5. \A i, j \in 1 .. Len(events') : i < j => events'[i].seq < events'[j].seq
    <3>1. \A i \in 1 .. Len(events') : i \in 1 .. Len(events) \/ i = Len(events) + 1
      BY <1>4, <1>6
    <3> QED
      BY <1>4, <1>6, <2>1, <2>3, <2>4, <3>1
  <2>6. \A i \in 1 .. Len(events') : events'[i].seq <= counter'
    <3>1. \A i \in 1 .. Len(events') : i \in 1 .. Len(events) \/ i = Len(events) + 1
      BY <1>4, <1>6
    <3>2. \A i \in 1 .. Len(events) : events[i].seq <= AllocatedSequence
      BY <1>1, <1>7
    <3> QED
      BY <1>1, <1>3, <2>1, <2>2, <3>1, <3>2
  <2> QED
    BY <2>5, <2>6 DEF SequencesFollowCommits
<1> QED
  BY <1>1, <1>3, <1>6, <1>8 DEF e, LogGrewBy

-----------------------------------------------------------------------------
(* The inductive invariant, and the steps of one call. *)

SafetyInv ==
  /\ TypeOK
  /\ SequencesFollowCommits
  /\ ReadsStayValid
  /\ VersionsConsumedOnce

\* A session step that leaves the database alone.
LEMMA ReadStepPreserves ==
  ASSUME SafetyInv, UNCHANGED dbVars, NEW s \in Sessions,
         NEW x \in Session, sess' = [sess EXCEPT ![s] = x],
         x.pc # "idle" => x.req \in Requests,
         (x.pc = "write" /\ x.req.kind # "raw") => x.seen = run,
         (x.pc = "write" /\ x.req.kind = "transition") => run.version = x.req.expected
  PROVE  SafetyInv'
<1>1. TypeOK'
  BY DEF SafetyInv, TypeOK, dbVars
<1>2. SequencesFollowCommits'
  BY DEF SafetyInv, SequencesFollowCommits, dbVars
<1>3. ReadsStayValid'
  <2>1. run \in Run /\ run' = run /\ run.version \in Nat
    BY DEF SafetyInv, TypeOK, dbVars, Run
  <2>2. SUFFICES ASSUME NEW t \in Sessions
                 PROVE  /\ sess'[t].pc # "idle" => sess'[t].req \in Requests
                        /\ (sess'[t].pc = "write" /\ sess'[t].req.kind # "raw") =>
                             /\ sess'[t].seen \in Run
                             /\ sess'[t].seen.version <= run.version
                             /\ sess'[t].seen.version = run.version => sess'[t].seen = run
                        /\ (sess'[t].pc = "write" /\ sess'[t].req.kind = "transition") =>
                             sess'[t].seen.version = sess'[t].req.expected
    BY <2>1 DEF ReadsStayValid
  <2>3. CASE t = s
    <3>1. sess'[t] = x
      BY <2>3 DEF SafetyInv, TypeOK
    <3> QED
      BY <3>1, <2>1
  <2>4. CASE t # s
    <3>1. sess'[t] = sess[t]
      BY <2>4 DEF SafetyInv, TypeOK
    <3> QED
      BY <3>1 DEF SafetyInv, ReadsStayValid
  <2> QED
    BY <2>3, <2>4
<1>4. VersionsConsumedOnce'
  BY DEF SafetyInv, VersionsConsumedOnce, Transitions, dbVars
<1> QED
  BY <1>1, <1>2, <1>3, <1>4 DEF SafetyInv

LEMMA SubmitPreserves ==
  ASSUME SafetyInv, NEW s \in Sessions, NEW r \in Requests, Submit(s, r)
  PROVE  SafetyInv'
<1> DEFINE x == [IdleSession EXCEPT !.pc = IF r.kind = "raw" THEN "write" ELSE "lookup",
                                    !.req = r, !.now = clock]
<1>1. x \in Session /\ x.req = r /\ x.pc = (IF r.kind = "raw" THEN "write" ELSE "lookup")
  BY RequestFields DEF IdleSession, Session, Outcomes, SafetyInv, TypeOK
<1>2. sess' = [sess EXCEPT ![s] = x] /\ UNCHANGED dbVars
  BY DEF Submit, dbVars
<1> HIDE DEF x
<1>3. x.pc = "write" => x.req.kind = "raw"
  BY <1>1
<1> QED
  BY <1>1, <1>2, <1>3, ReadStepPreserves

\* Ending a call without a write.
LEMMA FinishPreserves ==
  ASSUME SafetyInv, NEW s \in Sessions, NEW o \in Outcomes, NEW i \in Nat,
         Finish(s, o, i), UNCHANGED dbVars
  PROVE  SafetyInv'
<1> DEFINE x == [sess[s] EXCEPT !.pc = "idle", !.outcome = o, !.result = i]
<1>1. sess[s] \in Session /\ sess' = [sess EXCEPT ![s] = x]
  BY DEF Finish, SafetyInv, TypeOK
<1>2. x \in Session /\ x.pc = "idle"
  BY <1>1 DEF Session
<1> HIDE DEF x
<1> QED
  BY <1>1, <1>2, ReadStepPreserves

LEMMA FindPreserves ==
  ASSUME SafetyInv, NEW s \in Sessions, FindIdempotentEvent(s)
  PROVE  SafetyInv'
<1> DEFINE r == sess[s].req
<1>1. UNCHANGED dbVars
  BY DEF FindIdempotentEvent, dbVars
<1>2. CASE sess' = [sess EXCEPT ![s].pc = "validate"]
  <2> DEFINE x == [sess[s] EXCEPT !.pc = "validate"]
  <2>1. /\ x \in Session /\ x.pc = "validate" /\ x.req = sess[s].req
        /\ sess' = [sess EXCEPT ![s] = x]
    BY <1>2 DEF SafetyInv, TypeOK, Session
  <2>2. sess[s].req \in Requests
    BY DEF FindIdempotentEvent, SafetyInv, ReadsStayValid
  <2> HIDE DEF x
  <2> QED
    BY <1>1, <2>1, <2>2, ReadStepPreserves
<1>3. CASE \E i \in 1 .. Len(events) : Finish(s, "replayed", i) \/ Finish(s, "mismatch", 0)
  <2>1. PICK i \in 1 .. Len(events) : Finish(s, "replayed", i) \/ Finish(s, "mismatch", 0)
    BY <1>3
  <2>2. i \in Nat /\ {"replayed", "mismatch"} \subseteq Outcomes
    BY DEF Outcomes
  <2> QED
    BY <1>1, <2>1, <2>2, FinishPreserves
<1> QED
  BY <1>2, <1>3 DEF FindIdempotentEvent

\* What apply_transition reports before it writes, and what passing the checks means.
LEMMA RefusalFacts ==
  ASSUME NEW r, NEW now
  PROVE  /\ Refusal(r, now) \in Outcomes
         /\ Refusal(r, now) = "none" => run.version = r.expected
  BY DEF Refusal, Outcomes

LEMMA ValidatePreserves ==
  ASSUME SafetyInv, NEW s \in Sessions, Validate(s)
  PROVE  SafetyInv'
<1> DEFINE r == sess[s].req
<1>1. UNCHANGED dbVars /\ r \in Requests
  BY DEF Validate, dbVars, SafetyInv, ReadsStayValid
<1>2. CASE Finish(s, Refusal(r, sess[s].now), 0)
  BY <1>1, <1>2, RefusalFacts, FinishPreserves
<1>3. CASE /\ ~ (r.kind = "transition" /\ Refusal(r, sess[s].now) # "none")
           /\ sess' = [sess EXCEPT ![s].pc = "write", ![s].seen = run]
  <2> DEFINE x == [sess[s] EXCEPT !.pc = "write", !.seen = run]
  <2>1. /\ x \in Session /\ x.pc = "write" /\ x.req = r /\ x.seen = run
        /\ sess' = [sess EXCEPT ![s] = x]
    BY <1>3 DEF SafetyInv, TypeOK, Session
  <2>2. r.kind = "transition" => run.version = r.expected
    BY <1>3, RefusalFacts
  <2> HIDE DEF x
  <2> QED
    BY <1>1, <2>1, <2>2, ReadStepPreserves
<1> QED
  BY <1>2, <1>3 DEF Validate

\* An event that is not a transition, appended while the run stays as it is.
LEMMA SideEventPreserves ==
  ASSUME SafetyInv, NEW s \in Sessions, NEW r \in Requests, r.kind # "transition",
         NEW c \in Request \cup {None}, NEW v \in Nat,
         AppendEvent(r, c, v, v, None, None),
         Finish(s, "applied", Len(events) + 1),
         UNCHANGED <<run, stageStatus, stepStatus, leases, clock>>
  PROVE  SafetyInv'
<1> USE DEF SafetyInv
<1> DEFINE x == [sess[s] EXCEPT !.pc = "idle", !.outcome = "applied", !.result = Len(events) + 1]
<1>0. Len(events) + 1 \in Nat /\ sess[s] \in Session
  BY DEF TypeOK
<1>1. sess' = [sess EXCEPT ![s] = x] /\ x \in Session /\ x.pc = "idle"
  BY <1>0 DEF Finish, TypeOK, Session, Outcomes
<1> DEFINE e == EventRow(r, c, v, v, None, None)
<1>2. LogGrewBy(e) /\ e.kind # "transition"
  BY AppendKeepsOrder DEF EventRow
<1> HIDE DEF e
<1> HIDE DEF x
<1>3. TypeOK'
  BY <1>1, <1>2 DEF TypeOK, LogGrewBy
<1>4. ReadsStayValid'
  BY <1>1 DEF ReadsStayValid, TypeOK
<1>5. Transitions' = Transitions
  BY <1>0, <1>2 DEF Transitions, LogGrewBy
<1>6. \A i \in Transitions : events'[i] = events[i]
  BY <1>2 DEF Transitions, LogGrewBy
<1>7. VersionsConsumedOnce'
  BY <1>5, <1>6 DEF VersionsConsumedOnce
<1> QED
  BY <1>2, <1>3, <1>4, <1>7 DEF LogGrewBy

LEMMA WriteAuditPreserves ==
  ASSUME SafetyInv, NEW s \in Sessions, WriteAudit(s)
  PROVE  SafetyInv'
<1>1. sess[s].req \in Requests /\ sess[s].seen \in Run
  BY DEF WriteAudit, SafetyInv, ReadsStayValid
<1>2. sess[s].seen.version \in Nat /\ sess[s].req \in Request
  BY <1>1, RequestFields DEF Run
<1> QED
  BY <1>1, <1>2, SideEventPreserves DEF WriteAudit

LEMMA WriteRawPreserves ==
  ASSUME SafetyInv, NEW s \in Sessions, WriteRaw(s)
  PROVE  SafetyInv'
<1>1. sess[s].req \in Requests
  BY DEF WriteRaw, SafetyInv, ReadsStayValid
<1> QED
  BY <1>1, SideEventPreserves DEF WriteRaw

\* At a transition's write the run is the run the session validated.
LEMMA WriteSeesValidatedRun ==
  ASSUME SafetyInv, NEW s \in Sessions, WriteTransition(s)
  PROVE  /\ sess[s].req \in Requests
         /\ sess[s].seen = run /\ run \in Run /\ run.version \in Nat
         /\ run.version = sess[s].req.expected
  BY DEF WriteTransition, VersionStillExpected, SafetyInv, ReadsStayValid, TypeOK, Run

\* The row a transition's write adds to the log.
TransitionRow(s) ==
  EventRow(sess[s].req, sess[s].req, run.version, run.version + 1,
           IF sess[s].req.to = None THEN None ELSE run.status, sess[s].req.to)

LEMMA WriteTransitionGrows ==
  ASSUME SafetyInv, NEW s \in Sessions, WriteTransition(s)
  PROVE  /\ LogGrewBy(TransitionRow(s))
         /\ run' \in Run /\ run'.version = run.version + 1
<1> DEFINE r == sess[s].req
           from == IF r.to = None THEN None ELSE run.status
<1>1. /\ r \in Requests /\ sess[s].seen = run /\ run \in Run /\ run.version \in Nat
  BY WriteSeesValidatedRun
<1>2. /\ r \in Request \cup {None} /\ r.to \in RunStatuses \cup {None}
      /\ from \in RunStatuses \cup {None}
  BY <1>1, RequestFields DEF Run
<1>3. AppendEvent(r, r, run.version, run.version + 1, from, r.to)
  BY <1>1 DEF WriteTransition
<1> HIDE DEF r, from
<1>4. LogGrewBy(EventRow(r, r, run.version, run.version + 1, from, r.to))
  <2>1. TypeOK /\ SequencesFollowCommits /\ run.version + 1 \in Nat
    BY <1>1 DEF SafetyInv
  <2> QED
    BY <1>1, <1>2, <1>3, <2>1, AppendKeepsOrder, Zenon
<1>5. run' = [status |-> NextRunStatus(r), version |-> run.version + 1]
  BY <1>1 DEF WriteTransition, r
<1>6. NextRunStatus(r) \in RunStatuses
  BY <1>1, <1>2 DEF NextRunStatus, Run
<1> QED
  BY <1>1, <1>4, <1>5, <1>6 DEF Run, r, from, TransitionRow

LEMMA WriteTransitionPreserves ==
  ASSUME SafetyInv, NEW s \in Sessions, WriteTransition(s)
  PROVE  SafetyInv'
<1> DEFINE r == sess[s].req
           e == TransitionRow(s)
           x == [sess[s] EXCEPT !.pc = "idle", !.outcome = "applied", !.result = Len(events) + 1]
<1>1. /\ r \in Requests /\ sess[s].seen = run /\ run \in Run /\ run.version \in Nat
      /\ run.version = r.expected /\ r.kind = "transition"
  BY WriteSeesValidatedRun DEF WriteTransition
<1>2. LogGrewBy(e) /\ run' \in Run /\ run'.version = run.version + 1
  BY WriteTransitionGrows
<1>3. e.kind = "transition" /\ e.prev = run.version /\ e.next = run.version + 1
  BY <1>1 DEF TransitionRow, EventRow
<1>4. /\ Len(events) \in Nat /\ Len(events) + 1 \in Nat
      /\ sess[s] \in Session /\ events \in Seq(Event)
  BY DEF SafetyInv, TypeOK
<1>5. sess' = [sess EXCEPT ![s] = x] /\ x \in Session /\ x.pc = "idle"
  BY <1>4 DEF WriteTransition, Finish, SafetyInv, TypeOK, Session, Outcomes
<1>6. \A t \in Sessions : /\ t = s => sess'[t] = x
                          /\ t # s => sess'[t] = sess[t]
  BY <1>5 DEF SafetyInv, TypeOK
<1> HIDE DEF r, e, x
<1>7. TypeOK'
  <2>1. stageStatus' \in [Stages -> StageStatuses]
    BY <1>1, RequestFields DEF WriteTransition, SafetyInv, TypeOK, r
  <2>2. stepStatus' \in [Steps -> StepStatuses]
    BY <1>1, RequestFields DEF WriteTransition, SafetyInv, TypeOK, r
  <2>3. leases' \in [LeaseIds -> Lease \cup {None}] /\ clock' \in Nat
    BY DEF WriteTransition, SafetyInv, TypeOK
  <2>4. sess' \in [Sessions -> Session]
    BY <1>5 DEF SafetyInv, TypeOK
  <2> QED
    BY <1>2, <2>1, <2>2, <2>3, <2>4 DEF TypeOK, LogGrewBy
<1>8. ReadsStayValid'
  <2>1. SUFFICES ASSUME NEW t \in Sessions
                 PROVE  /\ sess'[t].pc # "idle" => sess'[t].req \in Requests
                        /\ (sess'[t].pc = "write" /\ sess'[t].req.kind # "raw") =>
                             /\ sess'[t].seen \in Run
                             /\ sess'[t].seen.version <= run'.version
                             /\ sess'[t].seen.version = run'.version => sess'[t].seen = run'
                        /\ (sess'[t].pc = "write" /\ sess'[t].req.kind = "transition") =>
                             sess'[t].seen.version = sess'[t].req.expected
    BY DEF ReadsStayValid
  <2>2. CASE t = s
    BY <2>2, <1>5, <1>6
  <2>3. CASE t # s
    <3>1. sess[t].seen \in Run => sess[t].seen.version \in Nat
      BY DEF Run
    <3> QED
      BY <2>3, <3>1, <1>1, <1>2, <1>6 DEF SafetyInv, ReadsStayValid
  <2> QED
    BY <2>2, <2>3
<1>9. VersionsConsumedOnce'
  <2>1. Transitions' = Transitions \cup {Len(events) + 1}
    BY <1>2, <1>3, <1>4 DEF Transitions, LogGrewBy
  <2>2. /\ \A i \in Transitions : /\ i \in 1 .. Len(events) /\ events'[i] = events[i]
                                  /\ events[i].prev \in Nat /\ events[i].next \in Nat
        /\ events'[Len(events) + 1] = e
    BY <1>2, <1>4, EventFields DEF Transitions, LogGrewBy
  <2>3. \A i \in Transitions' : /\ events'[i].next = events'[i].prev + 1
                                /\ events'[i].next <= run'.version
    BY <1>1, <1>2, <1>3, <2>1, <2>2 DEF SafetyInv, VersionsConsumedOnce
  <2>4. \A i, j \in Transitions' : i < j => events'[i].next <= events'[j].prev
    BY <1>1, <1>3, <1>4, <2>1, <2>2 DEF SafetyInv, VersionsConsumedOnce
  <2>5. \A v \in 0 .. (run'.version - 1) : \E i \in Transitions' : events'[i].prev = v
    <3>1. SUFFICES ASSUME NEW v \in 0 .. run.version
                   PROVE  \E i \in Transitions' : events'[i].prev = v
      BY <1>1, <1>2
    <3>2. CASE v = run.version
      BY <3>2, <2>1, <2>2, <1>3
    <3>3. CASE v # run.version
      <4>1. v \in 0 .. (run.version - 1)
        BY <3>3, <1>1
      <4> QED
        BY <4>1, <2>1, <2>2 DEF SafetyInv, VersionsConsumedOnce
    <3> QED
      BY <3>2, <3>3
  <2> QED
    BY <2>3, <2>4, <2>5 DEF VersionsConsumedOnce
<1> QED
  BY <1>2, <1>7, <1>8, <1>9 DEF SafetyInv, LogGrewBy

LEMMA WriteRefusedPreserves ==
  ASSUME SafetyInv, NEW s \in Sessions, WriteRefused(s)
  PROVE  SafetyInv'
<1>1. UNCHANGED dbVars /\ {"stale", "lease_required", "conflict"} \subseteq Outcomes
  BY DEF WriteRefused, dbVars, Outcomes
<1>2. Finish(s, "stale", 0) \/ Finish(s, "lease_required", 0) \/ Finish(s, "conflict", 0)
  BY DEF WriteRefused
<1> QED
  BY <1>1, <1>2, FinishPreserves

LEMMA AbortPreserves ==
  ASSUME SafetyInv, NEW s \in Sessions, Abort(s)
  PROVE  SafetyInv'
<1>1. IdleSession \in Session /\ IdleSession.pc = "idle"
  BY DEF IdleSession, Session, Outcomes
<1>2. UNCHANGED dbVars /\ sess' = [sess EXCEPT ![s] = IdleSession]
  BY DEF Abort, dbVars
<1> QED
  BY <1>1, <1>2, ReadStepPreserves

\* Leases and the clock are read by no conjunct but the type.
LEMMA LeaseAndClockPreserve ==
  ASSUME SafetyInv,
         \/ \E l \in LeaseIds, w \in Workers : LeaseStep(l, w)
         \/ Tick
         \/ UNCHANGED vars
  PROVE  SafetyInv'
<1>1. UNCHANGED <<run, stageStatus, stepStatus, events, counter, sess>>
  BY DEF LeaseStep, AcquireLease, RenewLease, ReleaseLease, Tick, vars
<1>2. clock' \in Nat
  BY DEF LeaseStep, AcquireLease, RenewLease, ReleaseLease, Tick, vars, SafetyInv, TypeOK
<1>3. leases' \in [LeaseIds -> Lease \cup {None}]
  <2>1. LeaseSeconds \in Nat /\ clock \in Nat /\ leases \in [LeaseIds -> Lease \cup {None}]
    BY ConstantsAssumption DEF SafetyInv, TypeOK
  <2>2. CASE \E l \in LeaseIds, w \in Workers : LeaseStep(l, w)
    BY <2>1, <2>2 DEF LeaseStep, AcquireLease, RenewLease, ReleaseLease, Lease
  <2>3. CASE Tick \/ UNCHANGED vars
    BY <2>1, <2>3 DEF Tick, vars
  <2> QED
    BY <2>2, <2>3
<1>4. TypeOK'
  BY <1>1, <1>2, <1>3 DEF SafetyInv, TypeOK
<1>5. SequencesFollowCommits' /\ ReadsStayValid' /\ VersionsConsumedOnce'
  BY <1>1 DEF SafetyInv, SequencesFollowCommits, ReadsStayValid, VersionsConsumedOnce,
              Transitions
<1> QED
  BY <1>4, <1>5 DEF SafetyInv

LEMMA InitSafety ==
  ASSUME Init
  PROVE  SafetyInv
<1>1. events \in Seq(Event) /\ Len(events) \in Nat
  BY ConstantsAssumption DEF Init
<1>2. TypeOK
  <2>1. IdleSession \in Session
    BY DEF IdleSession, Session, Outcomes
  <2> QED
    BY <1>1, <2>1 DEF Init, TypeOK, Run, RunStatuses, StageStatuses, StepStatuses
<1>3. SequencesFollowCommits
  BY ConstantsAssumption DEF Init, SequencesFollowCommits
<1>4. ReadsStayValid
  BY DEF Init, ReadsStayValid, IdleSession
<1>5. Transitions = {}
  BY ConstantsAssumption DEF Init, Transitions
<1>6. VersionsConsumedOnce
  BY <1>5 DEF Init, VersionsConsumedOnce
<1> QED
  BY <1>2, <1>3, <1>4, <1>6 DEF SafetyInv

LEMMA NextSafety ==
  ASSUME SafetyInv, [Next]_vars
  PROVE  SafetyInv'
<1>1. ASSUME NEW s \in Sessions, NEW r \in Requests, Submit(s, r)
      PROVE  SafetyInv'
  BY <1>1, SubmitPreserves
<1>2. ASSUME NEW s \in Sessions, SessionStep(s)
      PROVE  SafetyInv'
  BY <1>2, FindPreserves, ValidatePreserves, WriteTransitionPreserves, WriteAuditPreserves,
     WriteRawPreserves, WriteRefusedPreserves DEF SessionStep
<1>3. ASSUME NEW s \in Sessions, Abort(s)
      PROVE  SafetyInv'
  BY <1>3, AbortPreserves
<1> QED
  BY <1>1, <1>2, <1>3, LeaseAndClockPreserve DEF Next

\* Whatever sessions race, die and retry, every reachable state satisfies the
\* inductive invariant.
THEOREM Safety == Spec => []SafetyInv
  BY InitSafety, NextSafety, PTL DEF Spec

\* The rows of every table keep their types.
THEOREM TypeCorrect == Spec => []TypeOK
<1>1. SafetyInv => TypeOK
  BY DEF SafetyInv
<1> QED
  BY <1>1, Safety, PTL

\* apply_transition's compare-and-set hands out every state_version once.
THEOREM EachVersionConsumedOnce == Spec => []VersionsConsumedOnce
<1>1. SafetyInv => VersionsConsumedOnce
  BY DEF SafetyInv
<1> QED
  BY <1>1, Safety, PTL

\* allocate_event_sequence numbers events in commit order, legacy logs included.
THEOREM EventOrder == Spec => []SequencesFollowCommits
<1>1. SafetyInv => SequencesFollowCommits
  BY DEF SafetyInv
<1> QED
  BY <1>1, Safety, PTL

-----------------------------------------------------------------------------
(* Action property and refinement. *)

\* Only a transition's write touches the run, its stages or its steps.
LEMMA OnlyTransitionsChange ==
  ASSUME [Next]_vars, ~ \E s \in Sessions : WriteTransition(s)
  PROVE  UNCHANGED <<run, stageStatus, stepStatus>>
  BY DEF Next, SessionStep, LeaseStep, Submit, FindIdempotentEvent, Validate, WriteAudit,
         WriteRaw, WriteRefused, Abort, AcquireLease, RenewLease, ReleaseLease, Tick, vars

\* No step changes the run, a stage or a step without consuming a version.
THEOREM ChangesAreVersioned == Spec => EveryChangeConsumesAVersion
<1> DEFINE A == \/ run'.version = run.version + 1
                \/ run' = run /\ stageStatus' = stageStatus /\ stepStatus' = stepStatus
<1>1. SafetyInv /\ [Next]_vars => [A]_vars
  BY OnlyTransitionsChange, WriteTransitionGrows
<1> QED
  BY <1>1, Safety, PTL DEF Spec, EveryChangeConsumesAVersion

AbstractLog == [i \in 1 .. Len(events) |-> AbstractEntry(events[i])]

LEMMA AbstractEntryType ==
  ASSUME NEW e \in Event
  PROVE  AbstractEntry(e) \in RunLogView!LogEntry
  BY EventFields DEF AbstractEntry, RunLogView!LogEntry

LEMMA AbstractLogType ==
  ASSUME events \in Seq(Event)
  PROVE  AbstractLog \in Seq(RunLogView!LogEntry) /\ Len(AbstractLog) = Len(events)
<1>1. \A i \in 1 .. Len(events) : AbstractEntry(events[i]) \in RunLogView!LogEntry
  BY AbstractEntryType
<1>2. Len(events) \in Nat
  OBVIOUS
<1> QED
  BY <1>1, <1>2 DEF AbstractLog

\* A row appended to the table is an entry appended to the abstract log.
LEMMA AbstractLogGrows ==
  ASSUME SafetyInv, NEW e \in Event, LogGrewBy(e)
  PROVE  AbstractLog' = Append(AbstractLog, AbstractEntry(e))
<1>1. /\ events \in Seq(Event) /\ events' \in Seq(Event) /\ Len(events) \in Nat
      /\ Len(events') = Len(events) + 1
      /\ \A i \in 1 .. Len(events) : events'[i] = events[i]
      /\ events'[Len(events) + 1] = e
  BY DEF SafetyInv, TypeOK, LogGrewBy
<1>2. AbstractLog \in Seq(RunLogView!LogEntry) /\ Len(AbstractLog) = Len(events)
  BY <1>1, AbstractLogType
<1>3. AbstractEntry(e) \in RunLogView!LogEntry
  BY AbstractEntryType
<1>4. AbstractLog' = [i \in 1 .. Len(events) + 1 |-> AbstractEntry(events'[i])]
  BY <1>1 DEF AbstractLog, AbstractEntry
<1> DEFINE L == Append(AbstractLog, AbstractEntry(e))
<1>5. L \in Seq(RunLogView!LogEntry) /\ Len(L) = Len(events) + 1
  BY <1>2, <1>3
<1>6. \A i \in 1 .. Len(events) + 1 : L[i] = AbstractEntry(events'[i])
  BY <1>1, <1>2, <1>3 DEF AbstractLog
<1> HIDE DEF L
<1>7. /\ AbstractLog' \in Seq(RunLogView!LogEntry) /\ Len(AbstractLog') = Len(L)
      /\ \A i \in 1 .. Len(L) : AbstractLog'[i] = L[i]
  <2>1. \A i \in 1 .. Len(events) + 1 : AbstractEntry(events'[i]) \in RunLogView!LogEntry
    BY <1>1, AbstractEntryType
  <2>2. Len(events) + 1 \in Nat
    BY <1>1
  <2>3. /\ AbstractLog' \in [1 .. Len(events) + 1 -> RunLogView!LogEntry]
        /\ \A i \in 1 .. Len(events) + 1 : AbstractLog'[i] = AbstractEntry(events'[i])
    BY <1>4, <2>1
  <2>4. AbstractLog' \in Seq(RunLogView!LogEntry) /\ Len(AbstractLog') = Len(events) + 1
    BY <2>2, <2>3, SeqDef, LenProperties
  <2> QED
    BY <1>5, <1>6, <2>3, <2>4
<1> QED
  BY <1>5, <1>7, SeqEqual DEF L

\* A row appended by an audit or a raw write is an abstract audit entry.
LEMMA SideEventIsAudit ==
  ASSUME SafetyInv, NEW r \in Requests, r.kind # "transition",
         NEW c \in Request \cup {None}, NEW v \in 0 .. run.version, NEW n \in Nat,
         AppendEvent(r, c, v, n, None, None), run' = run
  PROVE  RunLogView!LogNext
<1> DEFINE e == EventRow(r, c, v, n, None, None)
<1>1. run.version \in Nat /\ v \in Nat /\ TypeOK /\ SequencesFollowCommits
  BY DEF SafetyInv, TypeOK, Run
<1>2. LogGrewBy(e)
  BY <1>1, AppendKeepsOrder
<1>3. e \in Event
  BY <1>1, AllocatedIsNew, RequestFields DEF Event, EventRow
<1>4. AbstractEntry(e) = [key |-> r.key, kind |-> "audit", at |-> v, to |-> None]
  BY DEF AbstractEntry, EventRow
<1> HIDE DEF e
<1>5. AbstractLog' = Append(AbstractLog, AbstractEntry(e))
  BY <1>2, <1>3, AbstractLogGrows
<1>6. RunLogView!Fresh(r.key)
  BY <1>1 DEF RunLogView!Fresh, AppendEvent, KeyFree, AbstractEntry, TypeOK
<1>7. RunLogView!LogAudit(r.key, v)
  BY <1>4, <1>5, <1>6 DEF RunLogView!LogAudit, AbstractLog
<1>8. r.key \in Keys
  BY RequestFields
<1> QED
  BY <1>7, <1>8 DEF RunLogView!LogNext

\* A transition's write is an abstract transition.
LEMMA WriteIsTransition ==
  ASSUME SafetyInv, NEW s \in Sessions, WriteTransition(s)
  PROVE  RunLogView!LogNext
<1> DEFINE r == sess[s].req
           e == TransitionRow(s)
<1>1. /\ r \in Requests /\ run \in Run /\ run.version \in Nat /\ sess[s].seen = run
      /\ TypeOK /\ SequencesFollowCommits /\ r.kind = "transition"
  BY WriteSeesValidatedRun DEF SafetyInv, WriteTransition
<1>2. LogGrewBy(e)
  BY WriteTransitionGrows
<1>3. r.to \in RunStatuses \cup {None} /\ r.key \in Keys /\ r \in Request
  BY <1>1, RequestFields
<1>4. e \in Event
  BY <1>1, <1>3, AllocatedIsNew, RequestFields DEF Event, EventRow, TransitionRow, Run
<1>5. AbstractEntry(e) =
        [key |-> r.key, kind |-> "transition", at |-> run.version, to |-> r.to]
  BY <1>1 DEF AbstractEntry, EventRow, TransitionRow
<1> HIDE DEF e
<1>6. AbstractLog' = Append(AbstractLog, AbstractEntry(e))
  BY <1>2, <1>4, AbstractLogGrows
<1>7. RunLogView!Fresh(r.key)
  BY <1>1 DEF RunLogView!Fresh, WriteTransition, AppendEvent, KeyFree, AbstractEntry, TypeOK
<1>8. /\ run'.status = (IF r.to = None THEN run.status ELSE r.to)
      /\ run'.version = run.version + 1
  BY <1>1 DEF WriteTransition, NextRunStatus
<1>9. RunLogView!LogTransition(r.key, r.to)
  BY <1>5, <1>6, <1>7, <1>8 DEF RunLogView!LogTransition, AbstractLog
<1> QED
  BY <1>3, <1>9 DEF RunLogView!LogNext

\* Lookup, validation and write in separate, interleaved, abortable steps
\* implement a register whose transitions are indivisible.
THEOREM Refinement == Spec => RefinesRunLog
<1>1. Init => RunLogView!LogInit
  <2> SUFFICES ASSUME Init PROVE RunLogView!LogInit
    OBVIOUS
  <2>1. SafetyInv
    BY InitSafety
  <2>2. AbstractLog \in Seq(RunLogView!LogEntry)
    BY <2>1, AbstractLogType DEF SafetyInv, TypeOK
  <2>3. run.status \in RunStatuses /\ run.version \in Nat
    BY <2>1 DEF SafetyInv, TypeOK, Run
  <2> QED
    BY <2>2, <2>3 DEF RunLogView!LogInit, AbstractLog
<1>2. SafetyInv /\ [Next]_vars => [RunLogView!LogNext]_(RunLogView!logVars)
  <2> SUFFICES ASSUME SafetyInv, [Next]_vars
               PROVE  RunLogView!LogNext \/ UNCHANGED RunLogView!logVars
    OBVIOUS
  <2>1. CASE \E s \in Sessions : WriteTransition(s)
    BY <2>1, WriteIsTransition
  <2>2. CASE \E s \in Sessions : WriteAudit(s)
    <3>1. PICK s \in Sessions : WriteAudit(s)
      BY <2>2
    <3>2. /\ sess[s].req \in Requests /\ sess[s].seen \in Run
          /\ sess[s].seen.version <= run.version
      BY <3>1 DEF WriteAudit, SafetyInv, ReadsStayValid
    <3>3. /\ sess[s].seen.version \in 0 .. run.version /\ sess[s].seen.version \in Nat
          /\ sess[s].req \in Request \cup {None}
      BY <3>2, RequestFields DEF Run, SafetyInv, TypeOK
    <3> QED
      BY <3>1, <3>2, <3>3, SideEventIsAudit DEF WriteAudit
  <2>3. CASE \E s \in Sessions : WriteRaw(s)
    <3>1. PICK s \in Sessions : WriteRaw(s)
      BY <2>3
    <3>2. sess[s].req \in Requests /\ 0 \in 0 .. run.version
      BY <3>1 DEF WriteRaw, SafetyInv, ReadsStayValid, TypeOK, Run
    <3> QED
      BY <3>1, <3>2, SideEventIsAudit DEF WriteRaw
  <2>4. CASE ~ \E s \in Sessions : WriteTransition(s) \/ WriteAudit(s) \/ WriteRaw(s)
    <3>1. events' = events /\ run' = run
      BY <2>4 DEF Next, SessionStep, LeaseStep, Submit, FindIdempotentEvent, Validate,
                  WriteRefused, Abort, AcquireLease, RenewLease, ReleaseLease, Tick, vars
    <3> QED
      BY <3>1 DEF RunLogView!logVars, AbstractEntry
  <2> QED
    BY <2>1, <2>2, <2>3, <2>4
<1> QED
  BY <1>1, <1>2, Safety, PTL DEF Spec, RefinesRunLog, RunLogView!LogSpec

-----------------------------------------------------------------------------
(* The event payloads reconstruct the run. *)

\* A step that appends no transition leaves the run's status and the moves alone.
TrailKept ==
  /\ run' = run /\ Moves' = Moves
  /\ \A i \in Moves : events'[i] = events[i]

\* Without a change to the moves the trail still explains the run.
LEMMA TrailKeptPreserves ==
  ASSUME TrailExplainsStatus, TrailKept
  PROVE  TrailExplainsStatus'
  BY DEF TrailExplainsStatus, TrailKept

\* Every step but a transition's write keeps the trail.
LEMMA OthersKeepTrail ==
  ASSUME SafetyInv, [Next]_vars, ~ \E s \in Sessions : WriteTransition(s)
  PROVE  TrailKept
<1>1. run' = run
  BY OnlyTransitionsChange
<1>2. CASE events' = events
  BY <1>1, <1>2 DEF TrailKept, Moves, Transitions
<1>3. ASSUME NEW s \in Sessions, WriteAudit(s) \/ WriteRaw(s)
      PROVE  TrailKept
  <2> DEFINE r == sess[s].req
  <2>1. r \in Requests /\ r.kind # "transition" /\ r \in Request \cup {None}
    BY <1>3, RequestFields DEF WriteAudit, WriteRaw, SafetyInv, ReadsStayValid
  <2>2. WriteAudit(s) => sess[s].seen.version \in Nat
    BY <2>1 DEF WriteAudit, SafetyInv, ReadsStayValid, Run
  <2>3. PICK e : LogGrewBy(e) /\ e.kind # "transition"
    <3>1. CASE WriteAudit(s)
      <4>1. LogGrewBy(EventRow(r, r, sess[s].seen.version, sess[s].seen.version, None, None))
        BY <3>1, <2>1, <2>2, AppendKeepsOrder DEF WriteAudit, SafetyInv
      <4> QED
        BY <4>1, <2>1 DEF EventRow
    <3>2. CASE WriteRaw(s)
      <4>1. LogGrewBy(EventRow(r, None, 0, 0, None, None))
        BY <3>2, <2>1, AppendKeepsOrder DEF WriteRaw, SafetyInv
      <4> QED
        BY <4>1, <2>1 DEF EventRow
    <3> QED
      BY <1>3, <3>1, <3>2
  <2>4. Len(events) \in Nat
    BY DEF SafetyInv, TypeOK
  <2>5. Moves' = Moves /\ \A i \in Moves : events'[i] = events[i]
    BY <2>3, <2>4 DEF Moves, Transitions, LogGrewBy
  <2> QED
    BY <1>1, <2>5 DEF TrailKept
<1>4. CASE ~ \E s \in Sessions : WriteAudit(s) \/ WriteRaw(s)
  <2>1. events' = events
    BY <1>4 DEF Next, SessionStep, LeaseStep, Submit, FindIdempotentEvent, Validate,
                WriteRefused, Abort, AcquireLease, RenewLease, ReleaseLease, Tick, vars
  <2> QED
    BY <1>2, <2>1
<1> QED
  BY <1>3, <1>4

\* A transition's write extends the trail by the move it makes, from the status
\* the move before it left.
LEMMA WriteExtendsTrail ==
  ASSUME SafetyInv, TrailExplainsStatus, NEW s \in Sessions, WriteTransition(s)
  PROVE  TrailExplainsStatus'
<1> DEFINE r == sess[s].req
           n == Len(events) + 1
<1>1. LogGrewBy(TransitionRow(s)) /\ r.kind = "transition" /\ r \in Requests
      /\ sess[s].seen = run
  BY WriteTransitionGrows, WriteSeesValidatedRun DEF WriteTransition
<1>2. /\ Len(events) \in Nat /\ Len(events') = n
      /\ \A i \in 1 .. Len(events) : events'[i] = events[i]
      /\ events'[n].kind = "transition" /\ events'[n].to = r.to
      /\ events'[n].from = IF r.to = None THEN None ELSE run.status
  BY <1>1 DEF LogGrewBy, SafetyInv, TypeOK, TransitionRow, EventRow
<1>3. run'.status = IF r.to = None THEN run.status ELSE r.to
  BY <1>1 DEF WriteTransition, NextRunStatus
<1>4. Moves \subseteq 1 .. Len(events)
  BY DEF Moves, Transitions
<1>5. CASE r.to = None
  <2>1. Moves' = Moves
    BY <1>2, <1>5 DEF Moves, Transitions
  <2> HIDE DEF r
  <2> QED
    BY <1>2, <1>3, <1>4, <1>5, <2>1 DEF TrailExplainsStatus
<1>6. CASE r.to # None
  <2>1. Moves' = Moves \cup {n}
    BY <1>2, <1>6 DEF Moves, Transitions
  <2>2. /\ events'[n].to = run'.status /\ events'[n].from = run.status
        /\ \A i \in Moves : i \in Nat /\ i < n /\ events'[i] = events[i]
    BY <1>2, <1>3, <1>4, <1>6
  <2>3. n \in Nat
    BY <1>2
  <2> HIDE DEF r, n
  <2>4. ASSUME NEW i \in Moves', \A j \in Moves' : j <= i
        PROVE  run'.status = events'[i].to
    BY <2>1, <2>2, <2>3, <2>4
  <2>5. ASSUME NEW i \in Moves', \A j \in Moves' : j >= i
        PROVE  events'[i].from = "CREATED"
    BY <2>1, <2>2, <2>3, <2>5 DEF TrailExplainsStatus
  <2>6. ASSUME NEW i \in Moves', NEW j \in Moves', i < j,
               \A k \in Moves' : k <= i \/ k >= j
        PROVE  events'[j].from = events'[i].to
    <3>1. i \in Moves
      BY <2>1, <2>2, <2>3, <2>6
    <3>2. CASE j = n
      <4>1. \A k \in Moves : k <= i
        BY <2>1, <2>2, <2>3, <2>6, <3>2
      <4>2. run.status = events[i].to
        BY <3>1, <4>1 DEF TrailExplainsStatus
      <4> QED
        BY <2>2, <3>1, <3>2, <4>2
    <3>3. CASE j # n
      BY <2>1, <2>2, <2>6, <3>1, <3>3 DEF TrailExplainsStatus
    <3> QED
      BY <3>2, <3>3
  <2>7. Moves' # {}
    BY <2>1
  <2> QED
    BY <2>4, <2>5, <2>6, <2>7 DEF TrailExplainsStatus
<1> QED
  BY <1>5, <1>6

\* The payloads of the stored events reconstruct the run, for any number of
\* sessions racing apply_transition.
THEOREM TrailAlwaysExplains == Spec => []TrailExplainsStatus
<1>1. Init => TrailExplainsStatus
  <2> SUFFICES ASSUME Init PROVE TrailExplainsStatus
    OBVIOUS
  <2>1. Moves = {}
    BY ConstantsAssumption DEF Init, Moves, Transitions
  <2> QED
    BY <2>1 DEF TrailExplainsStatus, Init
<1>2. SafetyInv /\ TrailExplainsStatus /\ [Next]_vars => TrailExplainsStatus'
  BY OthersKeepTrail, TrailKeptPreserves, WriteExtendsTrail
<1> QED
  BY <1>1, <1>2, Safety, PTL DEF Spec

-----------------------------------------------------------------------------
(* What callers are told, and completions under a lease. *)

\* An event that answers for a transition carries that very request.
EventsCarryRequests ==
  \A i \in 1 .. Len(events) :
    (events[i].checksum # None /\ events[i].checksum.kind = "transition") =>
      events[i].prev = events[i].checksum.expected

\* A session told of success is told of a row of the log that answers its request.
Told(x, log) ==
  x.outcome \in {"applied", "replayed"} =>
    /\ x.result \in 1 .. Len(log)
    /\ log[x.result].key = x.req.key
    /\ x.req.kind = "transition" =>
         /\ log[x.result].checksum = x.req
         /\ log[x.result].prev = x.req.expected

\* The log only grows, and rows are never rewritten.
LogKept ==
  /\ Len(events) \in Nat /\ Len(events') \in Nat /\ Len(events') >= Len(events)
  /\ \A i \in 1 .. Len(events) : events'[i] = events[i]

\* What one session is told stays recorded, whatever the others do.
LEMMA OneSessionTold ==
  ASSUME SafetyInv, SuccessIsRecorded, LogKept, NEW s \in Sessions,
         NEW x, sess' = [sess EXCEPT ![s] = x], Told(x, events')
  PROVE  SuccessIsRecorded'
<1> SUFFICES ASSUME NEW t \in Sessions PROVE Told(sess'[t], events')
  BY DEF SuccessIsRecorded, Told
<1>1. CASE t = s
  BY <1>1 DEF SafetyInv, TypeOK
<1>2. CASE t # s
  <2>1. sess'[t] = sess[t]
    BY <1>2 DEF SafetyInv, TypeOK
  <2>2. Told(sess[t], events)
    BY DEF SuccessIsRecorded, Told
  <2> HIDE DEF SuccessIsRecorded
  <2>3. ASSUME sess[t].outcome \in {"applied", "replayed"}
        PROVE  /\ sess[t].result \in 1 .. Len(events')
               /\ events'[sess[t].result] = events[sess[t].result]
    BY <2>2, <2>3 DEF Told, LogKept
  <2> QED
    BY <2>1, <2>2, <2>3 DEF Told
<1> QED
  BY <1>1, <1>2

\* A step that leaves the log alone keeps what its rows answer.
LEMMA KeptEventsCarry ==
  ASSUME EventsCarryRequests, events' = events
  PROVE  EventsCarryRequests'
  BY DEF EventsCarryRequests

\* A row whose checksum is its own request records the version it consumed.
LEMMA NewEventCarries ==
  ASSUME EventsCarryRequests, SafetyInv, NEW e, LogGrewBy(e),
         (e.checksum # None /\ e.checksum.kind = "transition") =>
           e.prev = e.checksum.expected
  PROVE  EventsCarryRequests' /\ LogKept
<1>1. /\ Len(events) \in Nat /\ Len(events') = Len(events) + 1
      /\ \A i \in 1 .. Len(events) : events'[i] = events[i]
      /\ events'[Len(events) + 1] = e
  BY DEF SafetyInv, TypeOK, LogGrewBy
<1>2. LogKept
  BY <1>1 DEF LogKept
<1>3. SUFFICES ASSUME NEW i \in 1 .. Len(events) + 1,
                      events'[i].checksum # None, events'[i].checksum.kind = "transition"
               PROVE  events'[i].prev = events'[i].checksum.expected
  BY <1>1, <1>2 DEF EventsCarryRequests
<1>4. CASE i = Len(events) + 1
  BY <1>1, <1>3, <1>4
<1>5. CASE i \in 1 .. Len(events)
  BY <1>1, <1>3, <1>5 DEF EventsCarryRequests
<1> QED
  BY <1>1, <1>4, <1>5

\* A write tells its caller of the row it has just committed.
LEMMA WriteTold ==
  ASSUME SafetyInv, EventsCarryRequests, SuccessIsRecorded,
         NEW s \in Sessions, NEW e, LogGrewBy(e),
         Finish(s, "applied", Len(events) + 1), e.key = sess[s].req.key,
         e.checksum \in {sess[s].req, None},
         (e.checksum # None /\ e.checksum.kind = "transition") =>
           e.prev = e.checksum.expected,
         sess[s].req.kind = "transition" => e.checksum = sess[s].req,
         sess[s].req # None
  PROVE  EventsCarryRequests' /\ SuccessIsRecorded'
<1>1. EventsCarryRequests' /\ LogKept
  BY NewEventCarries
<1> DEFINE x == [sess[s] EXCEPT !.pc = "idle", !.outcome = "applied",
                                !.result = Len(events) + 1]
<1>2. /\ sess' = [sess EXCEPT ![s] = x] /\ x.outcome = "applied"
      /\ x.result = Len(events) + 1 /\ x.req = sess[s].req
  BY DEF Finish, SafetyInv, TypeOK, Session
<1>3. /\ Len(events) + 1 \in 1 .. Len(events') /\ events'[Len(events) + 1] = e
  BY DEF SafetyInv, TypeOK, LogGrewBy
<1> HIDE DEF x
<1>4. Told(x, events')
  BY <1>2, <1>3 DEF Told
<1> QED
  BY <1>1, <1>2, <1>4, OneSessionTold

\* A step that writes no event tells its caller only what the log already holds.
LEMMA NoWriteTold ==
  ASSUME SafetyInv, EventsCarryRequests, SuccessIsRecorded, events' = events,
         NEW s \in Sessions, NEW x, sess' = [sess EXCEPT ![s] = x], Told(x, events)
  PROVE  EventsCarryRequests' /\ SuccessIsRecorded'
<1>1. LogKept
  BY DEF LogKept, SafetyInv, TypeOK
<1> QED
  BY <1>1, KeptEventsCarry, OneSessionTold

\* A replay answers with a stored event that carries the same request.
LEMMA FindTold ==
  ASSUME SafetyInv, EventsCarryRequests, SuccessIsRecorded,
         NEW s \in Sessions, FindIdempotentEvent(s)
  PROVE  EventsCarryRequests' /\ SuccessIsRecorded'
<1> DEFINE r == sess[s].req
<1>1. events' = events /\ r \in Requests /\ sess[s] \in Session /\ r # None
  BY RequestFields DEF FindIdempotentEvent, SafetyInv, TypeOK, ReadsStayValid
<1>2. CASE sess' = [sess EXCEPT ![s].pc = "validate"]
  <2> DEFINE x == [sess[s] EXCEPT !.pc = "validate"]
  <2>1. /\ sess' = [sess EXCEPT ![s] = x] /\ x.outcome = sess[s].outcome
        /\ x.result = sess[s].result /\ x.req = r
    BY <1>1, <1>2 DEF Session
  <2>2. Told(x, events)
    BY <2>1 DEF SuccessIsRecorded, Told
  <2> HIDE DEF x
  <2> QED
    BY <1>1, <2>1, <2>2, NoWriteTold
<1>3. ASSUME NEW i \in 1 .. Len(events), events[i].key = r.key,
             Answers(events[i], r), Finish(s, "replayed", i)
      PROVE  EventsCarryRequests' /\ SuccessIsRecorded'
  <2> DEFINE x == [sess[s] EXCEPT !.pc = "idle", !.outcome = "replayed", !.result = i]
  <2>1. sess' = [sess EXCEPT ![s] = x] /\ x.result = i /\ x.req = r
    BY <1>1, <1>3 DEF Session, Finish
  <2>2. Told(x, events)
    BY <1>1, <1>3, <2>1 DEF Told, Answers, EventsCarryRequests
  <2> HIDE DEF x
  <2> QED
    BY <1>1, <2>1, <2>2, NoWriteTold
<1>4. CASE Finish(s, "mismatch", 0)
  <2> DEFINE x == [sess[s] EXCEPT !.pc = "idle", !.outcome = "mismatch", !.result = 0]
  <2>1. sess' = [sess EXCEPT ![s] = x] /\ x.outcome = "mismatch"
    BY <1>1, <1>4 DEF Session, Finish
  <2>2. Told(x, events)
    BY <2>1 DEF Told
  <2> HIDE DEF x
  <2> QED
    BY <1>1, <2>1, <2>2, NoWriteTold
<1> QED
  BY <1>2, <1>3, <1>4 DEF FindIdempotentEvent

\* The other steps of a call that write no event: no success is told.
LEMMA ReadStepTold ==
  ASSUME SafetyInv, EventsCarryRequests, SuccessIsRecorded, NEW s \in Sessions,
         \/ \E r \in Requests : Submit(s, r)
         \/ Validate(s) \/ WriteRefused(s) \/ Abort(s)
  PROVE  EventsCarryRequests' /\ SuccessIsRecorded'
<1>1. events' = events /\ sess[s] \in Session
  BY DEF Submit, Validate, WriteRefused, Abort, SafetyInv, TypeOK
<1>2. ASSUME NEW r \in Requests, Submit(s, r)
      PROVE  EventsCarryRequests' /\ SuccessIsRecorded'
  <2> DEFINE x == [IdleSession EXCEPT !.pc = IF r.kind = "raw" THEN "write" ELSE "lookup",
                                      !.req = r, !.now = clock]
  <2>1. sess' = [sess EXCEPT ![s] = x] /\ x.outcome = "none"
    BY <1>2 DEF Submit, IdleSession
  <2> HIDE DEF x
  <2> QED
    BY <1>1, <2>1, NoWriteTold DEF Told
<1>3. ASSUME NEW o, o \notin {"applied", "replayed"}, Finish(s, o, 0)
      PROVE  EventsCarryRequests' /\ SuccessIsRecorded'
  <2> DEFINE x == [sess[s] EXCEPT !.pc = "idle", !.outcome = o, !.result = 0]
  <2>1. sess' = [sess EXCEPT ![s] = x] /\ x.outcome = o
    BY <1>1, <1>3 DEF Session, Finish
  <2> HIDE DEF x
  <2> QED
    BY <1>1, <1>3, <2>1, NoWriteTold DEF Told
<1>4. CASE Validate(s)
  <2>1. CASE Finish(s, Refusal(sess[s].req, sess[s].now), 0)
    BY <2>1, <1>3 DEF Refusal
  <2>2. CASE sess' = [sess EXCEPT ![s].pc = "write", ![s].seen = run]
    <3> DEFINE x == [sess[s] EXCEPT !.pc = "write", !.seen = run]
    <3>1. /\ sess' = [sess EXCEPT ![s] = x] /\ x.outcome = sess[s].outcome
          /\ x.result = sess[s].result /\ x.req = sess[s].req
      BY <1>1, <2>2 DEF Session
    <3>2. Told(x, events)
      BY <3>1 DEF SuccessIsRecorded, Told
    <3> HIDE DEF x
    <3> QED
      BY <1>1, <3>1, <3>2, NoWriteTold
  <2> QED
    BY <1>4, <2>1, <2>2 DEF Validate
<1>5. CASE WriteRefused(s)
  BY <1>5, <1>3 DEF WriteRefused
<1>6. CASE Abort(s)
  <2>1. sess' = [sess EXCEPT ![s] = IdleSession] /\ Told(IdleSession, events)
    BY <1>6 DEF Abort, Told, IdleSession
  <2> QED
    BY <1>1, <2>1, NoWriteTold
<1> QED
  BY <1>2, <1>4, <1>5, <1>6

\* The writes: the row committed is the row the caller is told of.
LEMMA WritesTold ==
  ASSUME SafetyInv, EventsCarryRequests, SuccessIsRecorded, NEW s \in Sessions,
         WriteTransition(s) \/ WriteAudit(s) \/ WriteRaw(s)
  PROVE  EventsCarryRequests' /\ SuccessIsRecorded'
<1> DEFINE r == sess[s].req
<1>1. /\ r \in Requests /\ r \in Request /\ r # None
      /\ Finish(s, "applied", Len(events) + 1)
  BY RequestFields DEF WriteTransition, WriteAudit, WriteRaw, SafetyInv, ReadsStayValid
<1>2. CASE WriteTransition(s)
  <2>1. LogGrewBy(TransitionRow(s)) /\ run.version = r.expected
    BY <1>2, WriteTransitionGrows, WriteSeesValidatedRun
  <2>2. /\ TransitionRow(s).key = r.key /\ TransitionRow(s).checksum = r
        /\ TransitionRow(s).prev = r.expected
    BY <2>1 DEF TransitionRow, EventRow
  <2> QED
    BY <1>1, <2>1, <2>2, WriteTold
<1>3. CASE WriteAudit(s)
  <2> DEFINE e == EventRow(r, r, sess[s].seen.version, sess[s].seen.version, None, None)
  <2>1. sess[s].seen.version \in Nat /\ r.kind = "audit"
    BY <1>3 DEF WriteAudit, SafetyInv, ReadsStayValid, Run
  <2>2. LogGrewBy(e) /\ e.key = r.key /\ e.checksum = r
    BY <1>1, <1>3, <2>1, AppendKeepsOrder DEF WriteAudit, SafetyInv, EventRow
  <2> HIDE DEF e
  <2> QED
    BY <1>1, <2>1, <2>2, WriteTold
<1>4. CASE WriteRaw(s)
  <2> DEFINE e == EventRow(r, None, 0, 0, None, None)
  <2>1. LogGrewBy(e) /\ e.key = r.key /\ e.checksum = None /\ r.kind = "raw"
    BY <1>1, <1>4, AppendKeepsOrder DEF WriteRaw, SafetyInv, EventRow
  <2> HIDE DEF e
  <2> QED
    BY <1>1, <2>1, WriteTold
<1> QED
  BY <1>2, <1>3, <1>4

\* Whoever is told that a request was applied or replayed is told so about an
\* event stored for it, however often it was retried and whoever stored it.
THEOREM SuccessAlwaysRecorded == Spec => []SuccessIsRecorded
<1> DEFINE Inv == EventsCarryRequests /\ SuccessIsRecorded
<1>1. Init => Inv
  BY ConstantsAssumption DEF Init, EventsCarryRequests, SuccessIsRecorded, IdleSession
<1>2. SafetyInv /\ Inv /\ [Next]_vars => Inv'
  <2> SUFFICES ASSUME SafetyInv, Inv, [Next]_vars PROVE Inv'
    OBVIOUS
  <2>1. CASE \E s \in Sessions : \/ \E r \in Requests : Submit(s, r)
                                 \/ SessionStep(s) \/ Abort(s)
    BY <2>1, FindTold, ReadStepTold, WritesTold DEF SessionStep
  <2>2. CASE \/ \E l \in LeaseIds, w \in Workers : LeaseStep(l, w)
             \/ Tick
             \/ UNCHANGED vars
    <3>1. events' = events /\ sess' = sess
      BY <2>2 DEF LeaseStep, AcquireLease, RenewLease, ReleaseLease, Tick, vars
    <3> QED
      BY <3>1 DEF EventsCarryRequests, SuccessIsRecorded
  <2> QED
    BY <2>1, <2>2 DEF Next
<1>3. Inv => SuccessIsRecorded
  OBVIOUS
<1> HIDE DEF Inv
<1> QED
  BY <1>1, <1>2, <1>3, Safety, PTL DEF Spec

\* A step is completed only under a lease that is still there when the completion
\* commits, whatever was released since the request was validated.
THEOREM CompletedUnderLease == Spec => StepsCompletedUnderLease
<1> DEFINE A == \A p \in Steps :
                  (stepStatus[p] # stepStatus'[p] /\ stepStatus'[p] \in TerminalStepStatuses) =>
                    \E l \in LeaseIds, s \in Sessions :
                      /\ sess[s].pc = "write" /\ sess[s].req.step = p
                      /\ leases[l] # None /\ leases[l].worker = sess[s].req.worker
                      /\ leases[l].expires > sess[s].now
<1>1. SafetyInv /\ [Next]_vars => [A]_vars
  <2> SUFFICES ASSUME SafetyInv, [Next]_vars, NEW p \in Steps,
                      stepStatus[p] # stepStatus'[p], stepStatus'[p] \in TerminalStepStatuses
               PROVE  \E l \in LeaseIds, s \in Sessions :
                        /\ sess[s].pc = "write" /\ sess[s].req.step = p
                        /\ leases[l] # None /\ leases[l].worker = sess[s].req.worker
                        /\ leases[l].expires > sess[s].now
    OBVIOUS
  <2>1. PICK s \in Sessions : WriteTransition(s)
    BY OnlyTransitionsChange
  <2> DEFINE r == sess[s].req
  <2>2. stepStatus' = (IF r.stepTo = None THEN stepStatus
                       ELSE [stepStatus EXCEPT ![r.step] = r.stepTo])
    BY <2>1 DEF WriteTransition
  <2>3. r.step = p /\ r.stepTo \in TerminalStepStatuses
    BY <2>2 DEF SafetyInv, TypeOK
  <2>4. HasCurrentLease(r.worker, sess[s].now)
    BY <2>1, <2>3 DEF WriteTransition, LeaseStillHeld, LeaseHeld
  <2> QED
    BY <2>1, <2>3, <2>4 DEF HasCurrentLease, WriteTransition
<1> QED
  BY <1>1, Safety, PTL DEF Spec, StepsCompletedUnderLease

-----------------------------------------------------------------------------
(* The intake of a run: SourceIntake with MigrationRun.                    *)

\* What a thread does to itself on its way: the others stay where they are, it keeps its job or
\* gives it up, and it does not claim a result it has not seen.
OnlyMoves(w) ==
  /\ \A v \in Threads \ {w} : thr'[v] = thr[v]
  /\ thr'[w].on \in {0, thr[w].on} /\ thr'[w].pc \notin {"handoff", "copy", "model"}
  /\ thr'[w].code = "completed" => thr[w].code = "completed"
  /\ thr'[w].pc = "fail" => thr'[w].code \in {"retryable", "other"}

\* What no step but an analysis and its report touches: the attempts, G04 and what was found
\* before, the threads at the model, the reports and the jobs that are completed.
Quiet ==
  /\ ev'.analysis = ev.analysis /\ ev'.g04 = ev.g04
  /\ ev.discovery # Nil => ev'.discovery = ev.discovery
  /\ ev.dparity # Nil => ev'.dparity = ev.dparity
  /\ \A v \in Threads : thr'[v].pc = "model" => thr'[v] = thr[v]
  /\ \A v \in Threads : thr'[v].code = "completed" => thr[v].code = "completed"
  /\ \A v \in Threads : thr'[v].pc = "fail" =>
       thr'[v] = thr[v] \/ thr'[v].code \in {"retryable", "other"}
  /\ \A j \in Jobs : job'[j].status = "completed" => job[j].status = "completed"

Seen == {"current", "old", "discovery", "dparity", "analysis"}

\* The evidence that no step touches but a snapshot, the end of the intake, an analysis.
EvKept ==
  /\ ev' \in Evidence
  /\ ev'.snapshot = ev.snapshot /\ ev'.done = ev.done
  /\ ev'.analysis = ev.analysis /\ ev'.g04 = ev.g04
  /\ ev.discovery # Nil => ev'.discovery = ev.discovery
  /\ ev.dparity # Nil => ev'.dparity = ev.dparity

RunGoesOn ==
  \/ status' = status
  \/ \E s \in {"BASELINE_QUALIFIED", "DIAGNOSTIC_HOLD"} : status' = [status EXCEPT ![Main] = s]

\* The jobs after a step of w: its own may change, but not into one that never was or one that
\* is completed.
JobsKept(w) ==
  /\ job' \in [Jobs -> JobRow]
  /\ \A j \in Jobs \ {thr[w].on} : job'[j] = job[j]
  /\ \A j \in Jobs : job'[j].status \in {Nil, "completed"} => job'[j].status = job[j].status

\* What a step of w after the end of the intake is, unless it analyses or reports.
LateMove(w) ==
  /\ thr' \in [Threads -> IntakeThread] /\ OnlyMoves(w)
  /\ seen' \in [Carriers -> Seen]
  /\ EvKept /\ RunGoesOn /\ JobsKept(w)
  /\ UNCHANGED <<claim, reservation, creating, pid, budget>>

\* A thread that goes on, fails or leaves keeps its shape and does only what OnlyMoves says.
LEMMA Moved ==
  ASSUME IntakeTypeOK, NEW w \in Threads
  PROVE  /\ \A p \in IntakePc \ {"handoff", "copy", "model", "fail"} :
              Goto(w, p) => thr' \in [Threads -> IntakeThread] /\ OnlyMoves(w)
         /\ \A c \in {"retryable", "other"} :
              Failing(w, c) => thr' \in [Threads -> IntakeThread] /\ OnlyMoves(w)
         /\ Leaves(w) => thr' \in [Threads -> IntakeThread] /\ OnlyMoves(w)
<1>1. ASSUME NEW p \in IntakePc \ {"handoff", "copy", "model", "fail"}, Goto(w, p)
      PROVE  thr' \in [Threads -> IntakeThread] /\ OnlyMoves(w)
  BY <1>1 DEF IntakeTypeOK, IntakeThread, Goto, OnlyMoves
<1>2. ASSUME NEW c \in {"retryable", "other"}, Failing(w, c)
      PROVE  thr' \in [Threads -> IntakeThread] /\ OnlyMoves(w)
  <2>1. "fail" \in IntakePc /\ "fail" \notin {"handoff", "copy", "model"} /\ c # "completed"
    BY DEF IntakePc
  <2> QED
    BY <1>2, <2>1 DEF IntakeTypeOK, IntakeThread, Failing, OnlyMoves
<1>3. ASSUME Leaves(w)
      PROVE  thr' \in [Threads -> IntakeThread] /\ OnlyMoves(w)
  <2>1. Idle \in IntakeThread /\ Idle.pc = "idle" /\ Idle.on = 0 /\ Idle.code = "none"
    BY DEF IntakePc, Idle, IntakeThread, Nil
  <2> QED
    BY <1>3, <2>1 DEF IntakeTypeOK, Leaves, OnlyMoves
<1> QED
  BY <1>1, <1>2, <1>3

\* What a transition or a read of the version makes of the versions the threads carry.
LEMMA SeenTyped ==
  ASSUME IntakeTypeOK
  PROVE  /\ \A w \in Carriers \cup {Nil}, mark \in {"old", "discovery", "dparity", "analysis"} :
              Superseded(w, mark) \in [Carriers -> Seen]
         /\ \A w \in Threads : MovesRun(w) \/ Reads(w) \/ Leaves(w) =>
              seen' \in [Carriers -> Seen]
<1>1. ASSUME NEW w \in Carriers \cup {Nil}, NEW mark \in {"old", "discovery", "dparity", "analysis"}
      PROVE  Superseded(w, mark) \in [Carriers -> Seen]
  BY DEF IntakeTypeOK, Superseded, Seen
<1>2. ASSUME NEW w \in Threads, MovesRun(w) \/ Reads(w) \/ Leaves(w)
      PROVE  seen' \in [Carriers -> Seen]
  BY <1>1, <1>2 DEF IntakeTypeOK, Seen, MovesRun, Reads, Leaves, Carriers
<1> QED
  BY <1>1, <1>2

\* The version is read again between two steps: nothing else changes.
LEMMA LateReread ==
  ASSUME IntakeTypeOK, NEW w \in Threads, Reread(w)
  PROVE  LateMove(w) /\ thr[w].pc \in ReadsVersion
<1>1. thr' \in [Threads -> IntakeThread] /\ OnlyMoves(w)
  BY DEF Reread, OnlyMoves, ReadsVersion, IntakeTypeOK
<1>2. seen' \in [Carriers -> Seen]
  BY SeenTyped DEF Reread, Refused, IntakeTypeOK, Seen
<1>4. EvKept
  BY DEF EvKept, IntakeTypeOK, Reread, Refused, OnlyThread
<1>5. RunGoesOn /\ job' = job /\ UNCHANGED <<claim, reservation, creating, pid, budget>>
  BY DEF RunGoesOn, Reread, Refused, OnlyThread, Kept
<1>6. thr[w].pc \in ReadsVersion
  BY DEF Reread, At
<1> QED
  BY <1>1, <1>2, <1>4, <1>5, <1>6 DEF LateMove, JobsKept, IntakeTypeOK

\* initialize opens G02, or finds it open, or is refused.
LEMMA LateInitializeG02 ==
  ASSUME IntakeTypeOK, NEW w \in Threads, InitializeG02(w)
  PROVE  LateMove(w) /\ thr[w].pc = "g02"
<1>1. thr' \in [Threads -> IntakeThread] /\ OnlyMoves(w)
  BY Moved DEF InitializeG02, Refused, IntakePc, ReadsVersion
<1>2. seen' \in [Carriers -> Seen]
  BY SeenTyped DEF InitializeG02, Refused, IntakeTypeOK, Seen
<1>3. \/ ev' = ev
      \/ ev' = [ev EXCEPT !.g02 = "pending", !.verified = ~ev.drifted]
  BY DEF InitializeG02, Refused, OnlyThread
<1>4. EvKept
  <2>1. CASE ev' = ev
    BY <2>1 DEF EvKept, IntakeTypeOK
  <2>2. CASE ev' = [ev EXCEPT !.g02 = "pending", !.verified = ~ev.drifted]
    BY <2>2 DEF EvKept, Evidence, IntakeTypeOK
  <2> QED
    BY <1>3, <2>1, <2>2
<1>5. RunGoesOn /\ job' = job /\ UNCHANGED <<claim, reservation, creating, pid, budget>>
  BY DEF RunGoesOn, InitializeG02, Refused, OnlyThread, Kept
<1>6. thr[w].pc = "g02"
  BY DEF InitializeG02, At
<1> QED
  BY <1>1, <1>2, <1>4, <1>5, <1>6 DEF LateMove, JobsKept, IntakeTypeOK

\* authorize_baseline lets the thread on or refuses it.
LEMMA LateAuthorize ==
  ASSUME IntakeTypeOK, NEW w \in Threads, Authorize(w)
  PROVE  LateMove(w) /\ thr[w].pc = "authorize"
<1>1. thr' \in [Threads -> IntakeThread] /\ OnlyMoves(w)
  BY Moved DEF Authorize, Refused, IntakePc, ReadsVersion
<1>2. seen' \in [Carriers -> Seen]
  BY SeenTyped DEF Authorize, Refused, IntakeTypeOK, Seen
<1>4. EvKept
  BY DEF EvKept, IntakeTypeOK, Authorize, Refused, OnlyThread
<1>5. RunGoesOn /\ job' = job /\ UNCHANGED <<claim, reservation, creating, pid, budget>>
  BY DEF RunGoesOn, Authorize, Refused, OnlyThread, Kept
<1>6. thr[w].pc = "authorize"
  BY DEF Authorize, At
<1> QED
  BY <1>1, <1>2, <1>4, <1>5, <1>6 DEF LateMove, JobsKept, IntakeTypeOK

\* The execution profile is resolved or blocked.
LEMMA LateResolveProfile ==
  ASSUME IntakeTypeOK, NEW w \in Threads, ResolveProfile(w)
  PROVE  LateMove(w) /\ thr[w].pc = "resolve"
<1>1. thr' \in [Threads -> IntakeThread] /\ OnlyMoves(w)
  BY Moved DEF ResolveProfile, Refused, IntakePc, ReadsVersion
<1>2. seen' \in [Carriers -> Seen]
  BY SeenTyped DEF ResolveProfile, Refused, IntakeTypeOK, Seen
<1>3. \/ ev' = ev
      \/ ev' = [ev EXCEPT !.profile = "resolved"]
      \/ ev' = [ev EXCEPT !.profile = "blocked"]
  BY DEF ResolveProfile, Refused, OnlyThread
<1>4. EvKept
  BY <1>3 DEF EvKept, Evidence, IntakeTypeOK
<1>5. RunGoesOn /\ job' = job /\ UNCHANGED <<claim, reservation, creating, pid, budget>>
  BY DEF RunGoesOn, ResolveProfile, Refused, OnlyThread, Kept
<1>6. thr[w].pc = "resolve"
  BY DEF ResolveProfile, At
<1> QED
  BY <1>1, <1>2, <1>4, <1>5, <1>6 DEF LateMove, JobsKept, IntakeTypeOK

\* create_workspace goes on to the copy, or the profile is found stale, or the call is refused.
LEMMA LateCreateWorkspace ==
  ASSUME IntakeTypeOK, NEW w \in Threads, CreateWorkspace(w)
  PROVE  LateMove(w) /\ thr[w].pc = "ws"
<1>1. thr' \in [Threads -> IntakeThread] /\ OnlyMoves(w)
  BY Moved DEF CreateWorkspace, Refused, IntakePc, ReadsVersion
<1>2. seen' \in [Carriers -> Seen]
  BY SeenTyped DEF CreateWorkspace, Refused, IntakeTypeOK, Seen
<1>3. \/ ev' = ev
      \/ ev' = [ev EXCEPT !.profile = "stale"]
  BY DEF CreateWorkspace, Refused, OnlyThread
<1>4. EvKept
  <2>1. CASE ev' = ev
    BY <2>1 DEF EvKept, IntakeTypeOK
  <2>2. CASE ev' = [ev EXCEPT !.profile = "stale"]
    BY <2>2 DEF EvKept, Evidence, IntakeTypeOK
  <2> QED
    BY <1>3, <2>1, <2>2
<1>5. RunGoesOn /\ job' = job /\ UNCHANGED <<claim, reservation, creating, pid, budget>>
  BY DEF RunGoesOn, CreateWorkspace, Refused, OnlyThread, Kept
<1>6. thr[w].pc = "ws"
  BY DEF CreateWorkspace, At
<1> QED
  BY <1>1, <1>2, <1>4, <1>5, <1>6 DEF LateMove, JobsKept, IntakeTypeOK

\* The sandbox is recorded, or the version is another by then.
LEMMA LateMakeSandbox ==
  ASSUME IntakeTypeOK, NEW w \in Threads, MakeSandbox(w)
  PROVE  LateMove(w) /\ thr[w].pc = "sandbox"
<1>1. thr' \in [Threads -> IntakeThread] /\ OnlyMoves(w)
  BY Moved DEF MakeSandbox, Refused, IntakePc, ReadsVersion
<1>2. seen' \in [Carriers -> Seen]
  BY SeenTyped DEF MakeSandbox, Refused, IntakeTypeOK, Seen
<1>3. \/ ev' = ev
      \/ ev' = [ev EXCEPT !.workspace = TRUE]
  BY DEF MakeSandbox, Refused, OnlyThread
<1>4. EvKept
  <2>1. CASE ev' = ev
    BY <2>1 DEF EvKept, IntakeTypeOK
  <2>2. CASE ev' = [ev EXCEPT !.workspace = TRUE]
    BY <2>2 DEF EvKept, Evidence, IntakeTypeOK
  <2> QED
    BY <1>3, <2>1, <2>2
<1>5. RunGoesOn /\ job' = job /\ UNCHANGED <<claim, reservation, creating, pid, budget>>
  BY DEF RunGoesOn, MakeSandbox, Refused, OnlyThread, Kept
<1>6. thr[w].pc = "sandbox"
  BY DEF MakeSandbox, At
<1> QED
  BY <1>1, <1>2, <1>4, <1>5, <1>6 DEF LateMove, JobsKept, IntakeTypeOK

\* prequalify only moves the thread.
LEMMA LatePrequalify ==
  ASSUME IntakeTypeOK, NEW w \in Threads, Prequalify(w)
  PROVE  LateMove(w) /\ thr[w].pc = "prequalify"
<1>1. thr' \in [Threads -> IntakeThread] /\ OnlyMoves(w)
  BY Moved DEF Prequalify, Refused, IntakePc, ReadsVersion
<1>2. seen' \in [Carriers -> Seen]
  BY SeenTyped DEF Prequalify, Refused, IntakeTypeOK, Seen
<1>4. EvKept
  BY DEF EvKept, IntakeTypeOK, Prequalify, Refused, OnlyThread
<1>5. RunGoesOn /\ job' = job /\ UNCHANGED <<claim, reservation, creating, pid, budget>>
  BY DEF RunGoesOn, Prequalify, Refused, OnlyThread, Kept
<1>6. thr[w].pc = "prequalify"
  BY DEF Prequalify, At
<1> QED
  BY <1>1, <1>2, <1>4, <1>5, <1>6 DEF LateMove, JobsKept, IntakeTypeOK

\* authorize_install only moves the thread.
LEMMA LateAuthorizeInstall ==
  ASSUME IntakeTypeOK, NEW w \in Threads, AuthorizeInstall(w)
  PROVE  LateMove(w) /\ thr[w].pc = "authorize_install"
<1>1. thr' \in [Threads -> IntakeThread] /\ OnlyMoves(w)
  BY Moved DEF AuthorizeInstall, Refused, IntakePc, ReadsVersion
<1>2. seen' \in [Carriers -> Seen]
  BY SeenTyped DEF AuthorizeInstall, Refused, IntakeTypeOK, Seen
<1>4. EvKept
  BY DEF EvKept, IntakeTypeOK, AuthorizeInstall, Refused, OnlyThread
<1>5. RunGoesOn /\ job' = job /\ UNCHANGED <<claim, reservation, creating, pid, budget>>
  BY DEF RunGoesOn, AuthorizeInstall, Refused, OnlyThread, Kept
<1>6. thr[w].pc = "authorize_install"
  BY DEF AuthorizeInstall, At
<1> QED
  BY <1>1, <1>2, <1>4, <1>5, <1>6 DEF LateMove, JobsKept, IntakeTypeOK

\* The thread follows the end of npm ci.
LEMMA LateInstalling ==
  ASSUME IntakeTypeOK, NEW w \in Threads, Installing(w)
  PROVE  LateMove(w) /\ thr[w].pc = "installing"
<1>1. thr' \in [Threads -> IntakeThread] /\ OnlyMoves(w)
  BY Moved DEF Installing, Refused, IntakePc, ReadsVersion
<1>2. seen' \in [Carriers -> Seen]
  BY SeenTyped DEF Installing, Refused, IntakeTypeOK, Seen
<1>4. EvKept
  BY DEF EvKept, IntakeTypeOK, Installing, Refused, OnlyThread
<1>5. RunGoesOn /\ job' = job /\ UNCHANGED <<claim, reservation, creating, pid, budget>>
  BY DEF RunGoesOn, Installing, Refused, OnlyThread, Kept
<1>6. thr[w].pc = "installing"
  BY DEF Installing, At
<1> QED
  BY <1>1, <1>2, <1>4, <1>5, <1>6 DEF LateMove, JobsKept, IntakeTypeOK

\* The commands of a validation kind are recorded.
LEMMA LateValidated ==
  ASSUME IntakeTypeOK, NEW w \in Threads, Validated(w)
  PROVE  LateMove(w) /\ thr[w].pc = "validating"
<1>1. thr' \in [Threads -> IntakeThread] /\ OnlyMoves(w)
  BY Moved DEF Validated, Refused, IntakePc, ReadsVersion
<1>2. seen' \in [Carriers -> Seen]
  BY SeenTyped DEF Validated, Refused, IntakeTypeOK, Seen
<1>3. \/ ev' = ev
      \/ ev' = [ev EXCEPT !.kinds = @ + 1]
  BY DEF Validated, Refused, OnlyThread
<1>4. EvKept
  BY <1>3 DEF EvKept, Evidence, IntakeTypeOK
<1>5. RunGoesOn /\ job' = job /\ UNCHANGED <<claim, reservation, creating, pid, budget>>
  BY DEF RunGoesOn, Validated, Refused, OnlyThread, Kept
<1>6. thr[w].pc = "validating"
  BY DEF Validated, At
<1> QED
  BY <1>1, <1>2, <1>4, <1>5, <1>6 DEF LateMove, JobsKept, IntakeTypeOK

\* The prerequisites of capture are checked.
LEMMA LateParity ==
  ASSUME IntakeTypeOK, NEW w \in Threads, Parity(w)
  PROVE  LateMove(w) /\ thr[w].pc = "parity"
<1>1. thr' \in [Threads -> IntakeThread] /\ OnlyMoves(w)
  BY Moved DEF Parity, Refused, IntakePc, ReadsVersion
<1>2. seen' \in [Carriers -> Seen]
  BY SeenTyped DEF Parity, Refused, IntakeTypeOK, Seen
<1>4. EvKept
  BY DEF EvKept, IntakeTypeOK, Parity, Refused, OnlyThread
<1>5. RunGoesOn /\ job' = job /\ UNCHANGED <<claim, reservation, creating, pid, budget>>
  BY DEF RunGoesOn, Parity, Refused, OnlyThread, Kept
<1>6. thr[w].pc = "parity"
  BY DEF Parity, At
<1> QED
  BY <1>1, <1>2, <1>4, <1>5, <1>6 DEF LateMove, JobsKept, IntakeTypeOK

\* capture records the parity baseline or is refused.
LEMMA LateCapture ==
  ASSUME IntakeTypeOK, NEW w \in Threads, Capture(w)
  PROVE  LateMove(w) /\ thr[w].pc = "capture"
<1>1. thr' \in [Threads -> IntakeThread] /\ OnlyMoves(w)
  BY Moved DEF Capture, Refused, IntakePc, ReadsVersion
<1>2. seen' \in [Carriers -> Seen]
  BY SeenTyped DEF Capture, Refused, IntakeTypeOK, Seen
<1>3. \/ ev' = ev
      \/ ev' = [ev EXCEPT !.parity = TRUE]
  BY DEF Capture, Refused, OnlyThread
<1>4. EvKept
  <2>1. CASE ev' = ev
    BY <2>1 DEF EvKept, IntakeTypeOK
  <2>2. CASE ev' = [ev EXCEPT !.parity = TRUE]
    BY <2>2 DEF EvKept, Evidence, IntakeTypeOK
  <2> QED
    BY <1>3, <2>1, <2>2
<1>5. RunGoesOn /\ job' = job /\ UNCHANGED <<claim, reservation, creating, pid, budget>>
  BY DEF RunGoesOn, Capture, Refused, OnlyThread, Kept
<1>6. thr[w].pc = "capture"
  BY DEF Capture, At
<1> QED
  BY <1>1, <1>2, <1>4, <1>5, <1>6 DEF LateMove, JobsKept, IntakeTypeOK

\* qualify records its assessment; a qualified baseline moves the run.
LEMMA LateQualify ==
  ASSUME IntakeTypeOK, NEW w \in Threads, Qualify(w)
  PROVE  LateMove(w) /\ thr[w].pc = "qualify"
<1>1. thr' \in [Threads -> IntakeThread] /\ OnlyMoves(w)
  BY Moved DEF Qualify, Refused, IntakePc, ReadsVersion, Qualified, RunTo
<1>2. seen' \in [Carriers -> Seen]
  BY SeenTyped DEF Qualify, Refused, IntakeTypeOK, Seen, Qualified, RunTo
<1>3. \/ ev' = ev
      \/ ev' = [ev EXCEPT !.assessment = "qualified"]
      \/ ev' = [ev EXCEPT !.assessment = "blocked"]
  BY DEF Qualify, Refused, OnlyThread, Qualified, RunTo
<1>4. EvKept
  BY <1>3 DEF EvKept, Evidence, IntakeTypeOK
<1>5. RunGoesOn /\ job' = job /\ UNCHANGED <<claim, reservation, creating, pid, budget>>
  BY DEF RunGoesOn, Qualify, Refused, OnlyThread, Kept, Qualified, RunTo
<1>6. thr[w].pc = "qualify"
  BY DEF Qualify, At
<1> QED
  BY <1>1, <1>2, <1>4, <1>5, <1>6 DEF LateMove, JobsKept, IntakeTypeOK

\* The thread goes on only under an approved G03.
LEMMA LateResume ==
  ASSUME IntakeTypeOK, NEW w \in Threads, Resume(w)
  PROVE  LateMove(w) /\ thr[w].pc = "resume"
<1>1. thr' \in [Threads -> IntakeThread] /\ OnlyMoves(w)
  BY Moved DEF Resume, Refused, IntakePc, ReadsVersion
<1>2. seen' \in [Carriers -> Seen]
  BY SeenTyped DEF Resume, Refused, IntakeTypeOK, Seen
<1>4. EvKept
  BY DEF EvKept, IntakeTypeOK, Resume, Refused, OnlyThread
<1>5. RunGoesOn /\ job' = job /\ UNCHANGED <<claim, reservation, creating, pid, budget>>
  BY DEF RunGoesOn, Resume, Refused, OnlyThread, Kept
<1>6. thr[w].pc = "resume"
  BY DEF Resume, At
<1> QED
  BY <1>1, <1>2, <1>4, <1>5, <1>6 DEF LateMove, JobsKept, IntakeTypeOK

\* A blocked discovery holds the run, unless another one is recorded.
LEMMA LateBlock ==
  ASSUME IntakeTypeOK, NEW w \in Threads, Block(w)
  PROVE  LateMove(w) /\ thr[w].pc = "block"
<1>1. thr' \in [Threads -> IntakeThread] /\ OnlyMoves(w)
  BY Moved DEF Block, Refused, IntakePc, ReadsVersion, RunTo
<1>2. seen' \in [Carriers -> Seen]
  BY SeenTyped DEF Block, Refused, IntakeTypeOK, Seen, RunTo
<1>3. \/ ev' = ev
      \/ ev.discovery = Nil /\ ev' = [ev EXCEPT !.discovery = "blocked"]
  BY DEF Block, Refused, OnlyThread, RunTo
<1>4. EvKept
  BY <1>3 DEF EvKept, Evidence, IntakeTypeOK
<1>5. RunGoesOn /\ job' = job /\ UNCHANGED <<claim, reservation, creating, pid, budget>>
  BY DEF RunGoesOn, Block, Refused, OnlyThread, Kept, RunTo
<1>6. thr[w].pc = "block"
  BY DEF Block, At
<1> QED
  BY <1>1, <1>2, <1>4, <1>5, <1>6 DEF LateMove, JobsKept, IntakeTypeOK

\* The parity of the discovery is recorded once.
LEMMA LateBuildParity ==
  ASSUME IntakeTypeOK, NEW w \in Threads, BuildParity(w)
  PROVE  LateMove(w) /\ thr[w].pc = "build"
<1>1. thr' \in [Threads -> IntakeThread] /\ OnlyMoves(w)
  BY Moved DEF BuildParity, Refused, IntakePc, ReadsVersion
<1>2. seen' \in [Carriers -> Seen]
  BY SeenTyped DEF BuildParity, Refused, IntakeTypeOK, Seen
<1>3. \/ ev' = ev
      \/ ev.dparity = Nil /\ ev' = [ev EXCEPT !.dparity = "completed"]
      \/ ev.dparity = Nil /\ ev' = [ev EXCEPT !.dparity = "blocked"]
  BY DEF BuildParity, Refused, OnlyThread
<1>4. EvKept
  BY <1>3 DEF EvKept, Evidence, IntakeTypeOK
<1>5. RunGoesOn /\ job' = job /\ UNCHANGED <<claim, reservation, creating, pid, budget>>
  BY DEF RunGoesOn, BuildParity, Refused, OnlyThread, Kept
<1>6. thr[w].pc = "build"
  BY DEF BuildParity, At
<1> QED
  BY <1>1, <1>2, <1>4, <1>5, <1>6 DEF LateMove, JobsKept, IntakeTypeOK

\* The result of the scan is recorded once; a blocked one holds the run.
LEMMA LateScan ==
  ASSUME IntakeTypeOK, NEW w \in Threads, Scan(w)
  PROVE  LateMove(w) /\ thr[w].pc = "scan"
<1>1. thr' \in [Threads -> IntakeThread] /\ OnlyMoves(w)
  BY Moved DEF Scan, Refused, IntakePc, ReadsVersion, RunTo
<1>2. seen' \in [Carriers -> Seen]
  BY SeenTyped DEF Scan, Refused, IntakeTypeOK, Seen, RunTo
<1>3. \/ ev' = ev
      \/ ev.discovery = Nil /\ ev' = [ev EXCEPT !.discovery = "completed"]
      \/ ev.discovery = Nil /\ ev' = [ev EXCEPT !.discovery = "blocked"]
  BY DEF Scan, Refused, OnlyThread, RunTo
<1>4. EvKept
  BY <1>3 DEF EvKept, Evidence, IntakeTypeOK
<1>5. RunGoesOn /\ job' = job /\ UNCHANGED <<claim, reservation, creating, pid, budget>>
  BY DEF RunGoesOn, Scan, Refused, OnlyThread, Kept, RunTo
<1>6. thr[w].pc = "scan"
  BY DEF Scan, At
<1> QED
  BY <1>1, <1>2, <1>4, <1>5, <1>6 DEF LateMove, JobsKept, IntakeTypeOK

\* resume_after_g03 starts a thread if a job waits for it.
LEMMA LateResumeCall ==
  ASSUME IntakeTypeOK, NEW w \in Threads, ResumeCall(w)
  PROVE  LateMove(w) /\ thr[w].pc = "resume_call"
<1>1. thr' \in [Threads -> IntakeThread] /\ OnlyMoves(w)
  BY Moved DEF ResumeCall, Refused, IntakePc, ReadsVersion
<1>2. seen' \in [Carriers -> Seen]
  BY SeenTyped DEF ResumeCall, Refused, IntakeTypeOK, Seen
<1>4. EvKept
  BY DEF EvKept, IntakeTypeOK, ResumeCall, Refused, OnlyThread
<1>5. RunGoesOn /\ job' = job /\ UNCHANGED <<claim, reservation, creating, pid, budget>>
  BY DEF RunGoesOn, ResumeCall, Refused, OnlyThread, Kept
<1>6. thr[w].pc = "resume_call"
  BY DEF ResumeCall, At
<1> QED
  BY <1>1, <1>2, <1>4, <1>5, <1>6 DEF LateMove, JobsKept, IntakeTypeOK

\* The job waits for G02.
LEMMA LateSetWaiting ==
  ASSUME IntakeTypeOK, NEW w \in Threads, SetWaiting(w)
  PROVE  LateMove(w) /\ thr[w].pc = "set_waiting"
<1>1. thr' \in [Threads -> IntakeThread] /\ OnlyMoves(w)
  BY Moved DEF SetWaiting, Refused, IntakePc, ReadsVersion
<1>2. seen' \in [Carriers -> Seen]
  BY SeenTyped DEF SetWaiting, Refused, IntakeTypeOK, Seen
<1>4. EvKept
  BY DEF EvKept, IntakeTypeOK, SetWaiting, Refused, OnlyThread
<1>7. \/ job' = job
      \/ \E s \in {"waiting_g02", "waiting_g03", "cancelled", "failed"} :
           job' = [job EXCEPT ![thr[w].on].status = s]
  BY DEF SetWaiting, Refused, OnlyThread, Ended, IntakeTypeOK, IntakeThread
<1>8. JobsKept(w)
  BY <1>7 DEF JobsKept, IntakeTypeOK, JobRow, Claimable, Nil
<1>5. RunGoesOn /\ UNCHANGED <<claim, reservation, creating, pid, budget>>
  BY DEF RunGoesOn, SetWaiting, Refused, OnlyThread, Kept
<1>6. thr[w].pc = "set_waiting"
  BY DEF SetWaiting, At
<1> QED
  BY <1>1, <1>2, <1>4, <1>5, <1>6, <1>8 DEF LateMove

\* _wait_for_g02 follows the decision, or ends with the job or the run.
LEMMA LatePollG02 ==
  ASSUME IntakeTypeOK, NEW w \in Threads, PollG02(w)
  PROVE  LateMove(w) /\ thr[w].pc = "poll"
<1>1. thr' \in [Threads -> IntakeThread] /\ OnlyMoves(w)
  BY Moved DEF PollG02, Refused, IntakePc, ReadsVersion, Ended
<1>2. seen' \in [Carriers -> Seen]
  BY SeenTyped DEF PollG02, Refused, IntakeTypeOK, Seen, Ended
<1>4. EvKept
  BY DEF EvKept, IntakeTypeOK, PollG02, Refused, OnlyThread, Ended
<1>7. \/ job' = job
      \/ \E s \in {"waiting_g02", "waiting_g03", "cancelled", "failed"} :
           job' = [job EXCEPT ![thr[w].on].status = s]
  BY DEF PollG02, Refused, OnlyThread, Ended, IntakeTypeOK, IntakeThread
<1>8. JobsKept(w)
  BY <1>7 DEF JobsKept, IntakeTypeOK, JobRow, Claimable, Nil
<1>5. RunGoesOn /\ UNCHANGED <<claim, reservation, creating, pid, budget>>
  BY DEF RunGoesOn, PollG02, Refused, OnlyThread, Kept
<1>6. thr[w].pc = "poll"
  BY DEF PollG02, At
<1> QED
  BY <1>1, <1>2, <1>4, <1>5, <1>6, <1>8 DEF LateMove

\* The job waits for G03 and its thread ends.
LEMMA LateWaitG03 ==
  ASSUME IntakeTypeOK, NEW w \in Threads, WaitG03(w)
  PROVE  LateMove(w) /\ thr[w].pc = "wait_g03"
<1>1. thr' \in [Threads -> IntakeThread] /\ OnlyMoves(w)
  BY Moved DEF WaitG03, Refused, IntakePc, ReadsVersion
<1>2. seen' \in [Carriers -> Seen]
  BY SeenTyped DEF WaitG03, Refused, IntakeTypeOK, Seen
<1>4. EvKept
  BY DEF EvKept, IntakeTypeOK, WaitG03, Refused, OnlyThread
<1>7. \/ job' = job
      \/ \E s \in {"waiting_g02", "waiting_g03", "cancelled", "failed"} :
           job' = [job EXCEPT ![thr[w].on].status = s]
  BY DEF WaitG03, Refused, OnlyThread, Ended, IntakeTypeOK, IntakeThread
<1>8. JobsKept(w)
  BY <1>7 DEF JobsKept, IntakeTypeOK, JobRow, Claimable, Nil
<1>5. RunGoesOn /\ UNCHANGED <<claim, reservation, creating, pid, budget>>
  BY DEF RunGoesOn, WaitG03, Refused, OnlyThread, Kept
<1>6. thr[w].pc = "wait_g03"
  BY DEF WaitG03, At
<1> QED
  BY <1>1, <1>2, <1>4, <1>5, <1>6, <1>8 DEF LateMove

\* The validation of a kind is begun, recorded or refused.
LEMMA LateValidateKind ==
  ASSUME IntakeTypeOK, NEW w \in Threads, ValidateKind(w)
  PROVE  LateMove(w) /\ thr[w].pc = "validate"
<1>1. thr' \in [Threads -> IntakeThread] /\ OnlyMoves(w)
  <2>1. CASE thr' = thr
    BY <2>1 DEF ValidateKind, At, OnlyMoves, IntakeTypeOK
  <2>2. CASE thr' # thr
    BY <2>2, Moved DEF ValidateKind, Refused, IntakePc, ReadsVersion
  <2> QED
    BY <2>1, <2>2
<1>2. seen' \in [Carriers -> Seen]
  BY SeenTyped DEF ValidateKind, Refused, IntakeTypeOK, Seen, KindsLeft
<1>3. \/ ev' = ev
      \/ ev' = [ev EXCEPT !.kinds = @ + 1]
  BY DEF ValidateKind, Refused, OnlyThread, KindsLeft
<1>4. EvKept
  BY <1>3 DEF EvKept, Evidence, IntakeTypeOK
<1>5. RunGoesOn /\ job' = job /\ UNCHANGED <<claim, reservation, creating, pid, budget>>
  BY DEF RunGoesOn, ValidateKind, Refused, OnlyThread, Kept, KindsLeft
<1>6. thr[w].pc = "validate"
  BY DEF ValidateKind, At
<1> QED
  BY <1>1, <1>2, <1>4, <1>5, <1>6 DEF LateMove, JobsKept, IntakeTypeOK

\* accept hands npm ci to a thread of its own.
LEMMA LateAcceptInstall ==
  ASSUME IntakeTypeOK, NEW w \in Threads, AcceptInstall(w)
  PROVE  LateMove(w) /\ thr[w].pc = "accept"
<1>1. thr' \in [Threads -> IntakeThread] /\ OnlyMoves(w)
  BY Moved DEF AcceptInstall, Refused, IntakePc, ReadsVersion
<1>2. seen' \in [Carriers -> Seen]
  <2>1. Superseded(w, "old") \in [Carriers -> Seen]
    BY SeenTyped DEF Carriers
  <2>2. seen' = seen \/ Reads(w) \/ seen' = [Superseded(w, "old") EXCEPT !["npm"] = "current"]
    BY DEF AcceptInstall, Refused, Accepts, OnlyThread
  <2>3. ASSUME Reads(w) PROVE seen' \in [Carriers -> Seen]
    BY <2>3, SeenTyped
  <2> QED
    BY <2>1, <2>2, <2>3 DEF IntakeTypeOK, Seen
<1>3. \/ ev' = ev
      \/ ev' = [ev EXCEPT !.command = "pending"]
  BY DEF AcceptInstall, Refused, OnlyThread
<1>4. EvKept
  BY <1>3 DEF EvKept, Evidence, IntakeTypeOK
<1>5. RunGoesOn /\ job' = job /\ UNCHANGED <<claim, reservation, creating, pid, budget>>
  BY DEF RunGoesOn, AcceptInstall, Refused, OnlyThread, Kept
<1>6. thr[w].pc = "accept"
  BY DEF AcceptInstall, At
<1> QED
  BY <1>1, <1>2, <1>4, <1>5, <1>6 DEF LateMove, JobsKept, IntakeTypeOK

\* The discovery is accepted, replayed or refused.
LEMMA LateDiscovery ==
  ASSUME IntakeTypeOK, NEW w \in Threads, Discovery(w)
  PROVE  LateMove(w) /\ thr[w].pc = "discovery"
<1>1. thr' \in [Threads -> IntakeThread] /\ OnlyMoves(w)
  BY Moved DEF Discovery, Refused, IntakePc, ReadsVersion, Accepts
<1>2. seen' \in [Carriers -> Seen]
  <2>1. Superseded(w, "discovery") \in [Carriers -> Seen]
    BY SeenTyped DEF Carriers
  <2>2. seen' = seen \/ Reads(w) \/ seen' = Superseded(w, "discovery")
    BY DEF Discovery, Refused, Accepts, OnlyThread
  <2>3. ASSUME Reads(w) PROVE seen' \in [Carriers -> Seen]
    BY <2>3, SeenTyped
  <2> QED
    BY <2>1, <2>2, <2>3 DEF IntakeTypeOK, Seen
<1>4. EvKept
  BY DEF EvKept, IntakeTypeOK, Discovery, Refused, OnlyThread, Accepts
<1>5. RunGoesOn /\ job' = job /\ UNCHANGED <<claim, reservation, creating, pid, budget>>
  BY DEF RunGoesOn, Discovery, Refused, OnlyThread, Kept, Accepts
<1>6. thr[w].pc = "discovery"
  BY DEF Discovery, At
<1> QED
  BY <1>1, <1>2, <1>4, <1>5, <1>6 DEF LateMove, JobsKept, IntakeTypeOK

\* The parity of the discovery is accepted, replayed or refused.
LEMMA LateParityBaseline ==
  ASSUME IntakeTypeOK, NEW w \in Threads, ParityBaseline(w)
  PROVE  LateMove(w) /\ thr[w].pc = "dparity"
<1>1. thr' \in [Threads -> IntakeThread] /\ OnlyMoves(w)
  BY Moved DEF ParityBaseline, Refused, IntakePc, ReadsVersion, Accepts
<1>2. seen' \in [Carriers -> Seen]
  <2>1. Superseded(w, "dparity") \in [Carriers -> Seen]
    BY SeenTyped DEF Carriers
  <2>2. seen' = seen \/ Reads(w) \/ seen' = Superseded(w, "dparity")
    BY DEF ParityBaseline, Refused, Accepts, OnlyThread
  <2>3. ASSUME Reads(w) PROVE seen' \in [Carriers -> Seen]
    BY <2>3, SeenTyped
  <2> QED
    BY <2>1, <2>2, <2>3 DEF IntakeTypeOK, Seen
<1>4. EvKept
  BY DEF EvKept, IntakeTypeOK, ParityBaseline, Refused, OnlyThread, Accepts
<1>5. RunGoesOn /\ job' = job /\ UNCHANGED <<claim, reservation, creating, pid, budget>>
  BY DEF RunGoesOn, ParityBaseline, Refused, OnlyThread, Kept, Accepts
<1>6. thr[w].pc = "dparity"
  BY DEF ParityBaseline, At
<1> QED
  BY <1>1, <1>2, <1>4, <1>5, <1>6 DEF LateMove, JobsKept, IntakeTypeOK

\* An error of the retry request reaches its caller only.
LEMMA LateFailRetry ==
  ASSUME IntakeTypeOK, NEW w \in Threads, FailRetry(w)
  PROVE  LateMove(w) /\ thr[w].pc = "fail" /\ thr[w].on = 0
<1>1. thr' \in [Threads -> IntakeThread] /\ OnlyMoves(w)
  BY Moved DEF FailRetry, Refused, IntakePc, ReadsVersion
<1>2. seen' \in [Carriers -> Seen]
  BY SeenTyped DEF FailRetry, Refused, IntakeTypeOK, Seen
<1>4. EvKept
  BY DEF EvKept, IntakeTypeOK, FailRetry, Refused, OnlyThread
<1>5. RunGoesOn /\ job' = job /\ UNCHANGED <<claim, reservation, creating, pid, budget>>
  BY DEF RunGoesOn, FailRetry, Refused, OnlyThread, Kept
<1>6. thr[w].pc = "fail" /\ thr[w].on = 0
  BY DEF FailRetry, At
<1> QED
  BY <1>1, <1>2, <1>4, <1>5, <1>6 DEF LateMove, JobsKept, IntakeTypeOK

-----------------------------------------------------------------------------
(* The phases of an intake.                                                *)

\* The run's own status, the jobs at work, the jobs whose snapshot was taken, and where a thread
\* can be before the intake is completed.
Phase == status[Main]
Live(j) == job[j].status \in {"queued", "running"}
Taken(j) == ev.snapshot[j] = "created"
EarlyPc == {"idle", "handoff", "claim", "take", "started", "snapshot", "copy", "completed", "fail"}

\* A request that is past create's checks is for a run that is not written yet.
RequestsAreNew ==
  \A c \in creating : status[c.run] = Nil /\ \A d \in creating : d.run = c.run => d = c

\* The owner it has found is not at work, unless it has been retried since.
OwnersAtRest ==
  \A c \in creating : c.owner # Nil =>
    Retried(c.owner) \/ status[c.owner] \notin Mutating \cup {Nil}

Ownership ==
  /\ MutatingRunOwnsTarget /\ RequestsAreNew /\ OwnersAtRest
  /\ \A t \in Targets : claim[t] # Nil => status[claim[t]] # Nil

\* A step puts no run to work that is at rest, nor takes one back.
NoneStarts ==
  \A r \in Runs : /\ status'[r] \in Mutating => status[r] \in Mutating
                  /\ status'[r] = Nil <=> status[r] = Nil

AttemptsStay == \A j \in Jobs : job[j].status # Nil => job'[j].status # Nil

\* The attempts of the intake follow each other, and one that was not made has no failure.
AttemptsInOrder ==
  /\ \A i, j \in Jobs : i < j /\ job[i].status = Nil => job[j].status = Nil
  /\ \A j \in Jobs : job[j].status = Nil => job[j].code = Nil /\ ~job[j].failed

\* Nothing of what comes after the intake is there before it is completed ...
NothingLater ==
  /\ ev.assessment = Nil /\ ~ev.parity /\ ev.analysis = <<>> /\ ~ev.approvedG03
  /\ \A j \in Jobs : job[j].status \in {Nil, "queued", "running", "failed"}

\* ... one thread at most works on it, at most on a job that is live ...
Works(w) ==
  /\ thr[w].pc \in EarlyPc \ {"idle"}
  /\ thr[w].pc = "claim" => thr[w].on = 0 /\ \E j \in Jobs : job[j].status = "queued"
  /\ thr[w].pc \in {"handoff", "take"} =>
       thr[w].on \in Jobs /\ job[thr[w].on].status = "queued"
  /\ thr[w].pc \in {"started", "snapshot", "copy", "completed", "fail"} =>
       thr[w].on \in Jobs /\ job[thr[w].on].status = "running"
  /\ thr[w].pc = "completed" => Taken(thr[w].on)
  /\ (thr[w].pc = "fail" /\ Taken(thr[w].on)) => thr[w].code # "retryable"

OneThread ==
  /\ \A v, w \in Threads : thr[v] # Idle /\ thr[w] # Idle => v = w
  /\ \A w \in Threads : thr[w] = Idle \/ Works(w)

\* ... and one job at most is live, the last one, which has not failed.
OneJob ==
  \A j \in Jobs : Live(j) =>
    /\ job[j].code = Nil /\ ~job[j].failed
    /\ \A i \in Jobs : (i # j => ~Live(i)) /\ (i > j => job[i].status = Nil)

Early == ~ev.done => NothingLater /\ OneThread /\ OneJob

\* Before a snapshot is taken the run is in source validation exactly while a job is live.
BeforeSnapshot ==
  (\A j \in Jobs : ~Taken(j)) =>
    /\ ~ev.done /\ ev.g02 = Nil
    /\ Phase \in {Nil, "CREATED", "SOURCE_VALIDATION_RUNNING", "FAILED", "CANCELLED"}
    /\ Phase = "SOURCE_VALIDATION_RUNNING" <=> \E j \in Jobs : Live(j)
    /\ Phase \in {Nil, "CREATED"} => \A j \in Jobs : job[j].status = Nil

\* After it the run is never in source validation again, and the job that took it is the last
\* one and the only one a thread has.
AfterSnapshot ==
  \A j \in Jobs : Taken(j) =>
    /\ Phase \in {"SOURCE_VALIDATED", "BASELINE_QUALIFIED", "DIAGNOSTIC_HOLD", "CANCELLED",
                  "FAILED"}
    /\ Phase = "FAILED" => ~ev.done /\ ~Live(j) /\ job[j].code # "retryable"
    /\ job[j].status # Nil
    /\ \A i \in Jobs \ {j} : job[i].status \in {Nil, "failed"} /\ (i > j => job[i].status = Nil)
    /\ \A w \in Threads : thr[w].on \in {0, j} /\ thr[w].pc \notin {"handoff", "copy"}

PhaseInv ==
  /\ Ownership /\ AttemptsInOrder
  /\ Early /\ BeforeSnapshot /\ AfterSnapshot

\* What a step of w does to the phase of the intake once it is completed.
LateStep(w) ==
  /\ IntakeTypeOK'
  /\ UNCHANGED <<claim, reservation, creating>>
  /\ ev'.snapshot = ev.snapshot /\ ev'.done = ev.done
  /\ RunGoesOn
  /\ \A v \in Threads \ {w} : thr'[v] = thr[v]
  /\ thr'[w].on \in {0, thr[w].on} \cup {j \in Jobs : job[j].status \in Claimable}
  /\ thr'[w].pc \notin {"handoff", "copy"}
  /\ \A j \in Jobs : job'[j].status # job[j].status =>
       (j = thr[w].on \/ job[j].status \notin {Nil, "failed"}) /\ job'[j].status # Nil
  /\ \A j \in Jobs \ {thr[w].on} : job[j].status = Nil => job'[j] = job[j]

\* Such a move leaves the phase of a completed intake as it is.
LEMMA LateMoveIsStep ==
  ASSUME IntakeTypeOK, NEW w \in Threads, LateMove(w)
  PROVE  LateStep(w)
<1>1. IntakeTypeOK'
  BY DEF LateMove, IntakeTypeOK, RunTypeOK, RunGoesOn, EvKept, JobsKept, Seen, RunStatus
<1> QED
  BY <1>1 DEF LateMove, LateStep, OnlyMoves, EvKept, JobsKept, IntakeTypeOK, JobRow

\* Then every run that is at work keeps its target, and no request in progress is for a run
\* that is there.
LEMMA OwnershipKept ==
  ASSUME IntakeTypeOK, Ownership, UNCHANGED <<claim, reservation>>, creating' \in {creating, {}},
         NoneStarts, AttemptsStay
  PROVE  Ownership'
<1>1. \A r \in Runs : Retried(r) => Retried(r)'
  BY DEF Retried, AttemptsStay
<1>2. /\ claim \in [Targets -> Runs \cup {Nil}]
      /\ creating \subseteq [run : Runs, owner : Runs \cup {Nil}]
  BY DEF IntakeTypeOK, RunTypeOK
<1>3. MutatingRunOwnsTarget'
  BY <1>1 DEF Ownership, MutatingRunOwnsTarget, OwnsTarget, NoneStarts
<1>4. RequestsAreNew'
  BY <1>2 DEF Ownership, RequestsAreNew, NoneStarts
<1>5. OwnersAtRest'
  BY <1>1, <1>2 DEF Ownership, OwnersAtRest, NoneStarts
<1>6. \A t \in Targets : claim'[t] # Nil => status'[claim'[t]] # Nil
  BY <1>2 DEF Ownership, NoneStarts
<1> QED
  BY <1>3, <1>4, <1>5, <1>6 DEF Ownership

\* A run that goes on was there, and is not put to work.
LEMMA NoneStartsLate ==
  ASSUME IntakeTypeOK, RunGoesOn, status' = status \/ Phase # Nil
  PROVE  NoneStarts
BY DEF RunGoesOn, NoneStarts, Mutating, Nil, Phase, IntakeTypeOK, RunTypeOK

\* After the end of the intake its phase is kept: the run never returns to source validation
\* and no thread gets another job.
LEMMA LateStepKeeps ==
  ASSUME IntakeTypeOK, PhaseInv, ev.done, NEW w \in Threads, LateStep(w)
  PROVE  PhaseInv'
<1>1. PICK j \in Jobs : Taken(j)
  BY DEF PhaseInv, BeforeSnapshot
<1>2. /\ Phase \in {"SOURCE_VALIDATED", "BASELINE_QUALIFIED", "DIAGNOSTIC_HOLD", "CANCELLED"}
      /\ job[j].status # Nil
      /\ \A i \in Jobs \ {j} : job[i].status \in {Nil, "failed"} /\ (i > j => job[i].status = Nil)
      /\ \A v \in Threads : thr[v].on \in {0, j} /\ thr[v].pc \notin {"handoff", "copy"}
  BY <1>1 DEF PhaseInv, AfterSnapshot
<1>3. ev'.done /\ \A i \in Jobs : Taken(i)' <=> Taken(i)
  BY DEF LateStep, Taken
<1>4. Phase' \in {"SOURCE_VALIDATED", "BASELINE_QUALIFIED", "DIAGNOSTIC_HOLD", "CANCELLED"}
  BY <1>2 DEF LateStep, RunGoesOn, Phase, IntakeTypeOK, RunTypeOK
<1>5. \A i \in Jobs \ {j} : job'[i].status = job[i].status
  BY <1>2 DEF LateStep, Nil, Jobs
<1>6. job'[j].status # Nil
  BY <1>2 DEF LateStep
<1>7. \A v \in Threads : thr'[v].on \in {0, j} /\ thr'[v].pc \notin {"handoff", "copy"}
  BY <1>2 DEF LateStep, Claimable, Nil
<1>8. \A i \in Jobs : Taken(i) => i = j
  BY <1>1, <1>2 DEF PhaseInv, AfterSnapshot, Jobs
<1>9. Ownership'
  <2>1. NoneStarts
    BY <1>2, NoneStartsLate DEF LateStep, Nil
  <2>2. AttemptsStay
    BY DEF LateStep, AttemptsStay
  <2> QED
    BY <2>1, <2>2, OwnershipKept DEF LateStep, PhaseInv
<1>11. AttemptsInOrder'
  <2>1. \A i \in Jobs \ {j} : job[i].status = Nil => job'[i] = job[i]
    BY <1>2 DEF LateStep, Jobs
  <2> QED
    BY <1>2, <1>5, <1>6, <2>1 DEF PhaseInv, AttemptsInOrder, Jobs
<1>12. Early' /\ BeforeSnapshot'
  BY <1>1, <1>3 DEF Early, BeforeSnapshot
<1>13. AfterSnapshot'
  BY <1>2, <1>3, <1>4, <1>5, <1>6, <1>7, <1>8 DEF AfterSnapshot
<1> QED
  BY <1>9, <1>11, <1>12, <1>13 DEF PhaseInv

\* A step of w before the intake is completed that leaves the run and the evidence alone.
EarlyMove(w) ==
  /\ UNCHANGED <<status, claim, reservation, creating, ev>>
  /\ \A j \in Jobs : /\ job'[j].code = job[j].code /\ job'[j].failed = job[j].failed
                     /\ \/ job'[j].status = job[j].status
                        \/ job[j].status = "queued" /\ job'[j].status = "running"
  /\ \A v \in Threads \ {w} : thr'[v] = thr[v]
  /\ thr[w] # Idle
  /\ thr'[w] = Idle \/ Works(w)'
  /\ thr'[w].pc \in {"handoff", "copy"} => \A j \in Jobs : ~Taken(j)

\* Before it, the only thread may take its job and go on with it.
LEMMA EarlyMoveKeeps ==
  ASSUME IntakeTypeOK, PhaseInv, ~ev.done, NEW w \in Threads, EarlyMove(w)
  PROVE  PhaseInv'
<1>1. NothingLater /\ OneThread /\ OneJob
  BY DEF PhaseInv, Early
<1>2. \A j \in Jobs :
        /\ Live(j)' <=> Live(j)
        /\ job'[j].status = Nil <=> job[j].status = Nil
        /\ job'[j].status = "failed" <=> job[j].status = "failed"
  <2> SUFFICES ASSUME NEW j \in Jobs
               PROVE  /\ Live(j)' <=> Live(j)
                      /\ job'[j].status = Nil <=> job[j].status = Nil
                      /\ job'[j].status = "failed" <=> job[j].status = "failed"
    OBVIOUS
  <2>1. \/ job'[j].status = job[j].status
        \/ job[j].status = "queued" /\ job'[j].status = "running"
    BY DEF EarlyMove
  <2> QED
    BY <2>1 DEF Live, Nil
<1>3. Ownership'
  <2>1. NoneStarts /\ AttemptsStay
    BY <1>2 DEF EarlyMove, NoneStarts, AttemptsStay
  <2> QED
    BY <2>1, OwnershipKept DEF EarlyMove, PhaseInv
<1>4. AttemptsInOrder'
  BY <1>2 DEF PhaseInv, AttemptsInOrder, EarlyMove
<1>5. \A v \in Threads \ {w} : thr[v] = Idle /\ thr'[v] = Idle
  BY <1>1 DEF OneThread, EarlyMove
<1>6. Early'
  <2>1. NothingLater'
    BY <1>1 DEF NothingLater, EarlyMove
  <2>2. OneThread'
    BY <1>5 DEF EarlyMove, OneThread
  <2>3. OneJob'
    BY <1>1, <1>2 DEF OneJob, EarlyMove
  <2> QED
    BY <2>1, <2>2, <2>3 DEF Early
<1>7. BeforeSnapshot'
  BY <1>2 DEF BeforeSnapshot, PhaseInv, EarlyMove, Taken, Phase
<1>8. AfterSnapshot'
  <2> SUFFICES ASSUME NEW j \in Jobs, Taken(j)
               PROVE  /\ thr'[w].on \in {0, j} /\ thr'[w].pc \notin {"handoff", "copy"}
    BY <1>2, <1>5 DEF AfterSnapshot, PhaseInv, EarlyMove, Taken, Phase, Idle
  <2>1. \A i \in Jobs \ {j} : ~Live(i)'
    BY <1>2 DEF AfterSnapshot, PhaseInv, Live, Nil
  <2>2. CASE thr'[w] = Idle
    BY <2>2 DEF Idle
  <2>3. CASE Works(w)'
    <3>1. thr'[w].pc # "claim" =>
            thr'[w].on \in Jobs /\ job'[thr'[w].on].status \in {"queued", "running"}
      BY <2>3 DEF Works, EarlyPc
    <3>2. thr'[w].on \in {0, j}
      BY <2>1, <2>3, <3>1 DEF Works, Live
    <3>3. thr'[w].pc \notin {"handoff", "copy"}
      BY DEF EarlyMove
    <3> QED
      BY <3>2, <3>3
  <2> QED
    BY <2>2, <2>3 DEF EarlyMove
<1> QED
  BY <1>3, <1>4, <1>6, <1>7, <1>8 DEF PhaseInv

\* A step that leaves the threads and the jobs alone.
LEMMA SideStepKeeps ==
  ASSUME IntakeTypeOK, PhaseInv, UNCHANGED <<job, thr, claim, reservation, creating>>,
         ev'.snapshot = ev.snapshot, ev'.done = ev.done, ev'.assessment = ev.assessment,
         ev'.parity = ev.parity, ev'.analysis = ev.analysis, ev'.approvedG03 = ev.approvedG03,
         \/ status' = status /\ ev'.g02 = ev.g02
         \/ RunGoesOn /\ \E j \in Jobs : Taken(j)
  PROVE  PhaseInv'
<1>1. \A j \in Jobs : (Taken(j)' <=> Taken(j)) /\ (Live(j)' <=> Live(j))
  BY DEF Taken, Live
<1>2. Ownership' /\ AttemptsInOrder'
  <2>1. RunGoesOn /\ (status' = status \/ Phase # Nil)
    BY DEF RunGoesOn, PhaseInv, AfterSnapshot, Nil
  <2>2. NoneStarts /\ AttemptsStay
    BY <2>1, NoneStartsLate DEF AttemptsStay
  <2> QED
    BY <2>2, OwnershipKept DEF PhaseInv, AttemptsInOrder
<1>3. Early'
  <2>1. NothingLater' <=> NothingLater
    BY DEF NothingLater
  <2>2. OneThread' <=> OneThread
    BY DEF OneThread, Works, Taken, Live
  <2>3. OneJob' <=> OneJob
    BY DEF OneJob, Live
  <2> QED
    BY <2>1, <2>2, <2>3 DEF PhaseInv, Early
<1>4. CASE status' = status /\ ev'.g02 = ev.g02
  <2>2. BeforeSnapshot'
    BY <1>1, <1>4 DEF PhaseInv, BeforeSnapshot, Phase
  <2>3. AfterSnapshot'
    BY <1>1, <1>4 DEF PhaseInv, AfterSnapshot, Phase
  <2> QED
    BY <1>2, <1>3, <2>2, <2>3 DEF PhaseInv
<1>5. CASE RunGoesOn /\ \E j \in Jobs : Taken(j)
  <2>3. Phase' = Phase \/ Phase' \in {"BASELINE_QUALIFIED", "DIAGNOSTIC_HOLD"}
    BY <1>5 DEF RunGoesOn, Phase, IntakeTypeOK, RunTypeOK
  <2>4. BeforeSnapshot'
    BY <1>1, <1>5 DEF BeforeSnapshot
  <2>5. AfterSnapshot'
    BY <1>1, <2>3 DEF PhaseInv, AfterSnapshot
  <2> QED
    BY <1>2, <1>3, <2>4, <2>5 DEF PhaseInv
<1> QED
  BY <1>4, <1>5

-----------------------------------------------------------------------------
(* The steps of a thread, one by one. *)

\* What every step but those of the analysis is shown to do.
Keeps == IntakeTypeOK' /\ Quiet /\ PhaseInv'

\* The thread that is on its way before the end of the intake is the only one.
LEMMA TheOnlyOne ==
  ASSUME IntakeTypeOK, PhaseInv, ~ev.done, NEW w \in Threads, thr[w].pc # "idle"
  PROVE  /\ NothingLater /\ OneJob /\ Works(w) /\ thr[w] # Idle
         /\ \A v \in Threads \ {w} : thr[v] = Idle
         /\ thr[w].on \in Jobs =>
              Live(thr[w].on) /\ \A j \in Jobs : Taken(j) => j = thr[w].on
<1>1. NothingLater /\ OneJob /\ OneThread
  BY DEF PhaseInv, Early
<1>2. thr[w] # Idle /\ Works(w) /\ \A v \in Threads \ {w} : thr[v] = Idle
  BY <1>1 DEF OneThread, Idle
<1>3. ASSUME thr[w].on \in Jobs
      PROVE  Live(thr[w].on) /\ \A j \in Jobs : Taken(j) => j = thr[w].on
  <2>1. Live(thr[w].on)
    BY <1>2, <1>3 DEF Works, EarlyPc, Live, Jobs
  <2> QED
    BY <1>3, <2>1 DEF PhaseInv, AfterSnapshot, Live, Nil
<1> QED
  BY <1>1, <1>2, <1>3

\* _claim takes the only job there is to be claimed.
LEMMA ClaimKeeps ==
  ASSUME IntakeTypeOK, PhaseInv, NEW w \in Threads, Claim(w)
  PROVE  Keeps
<1> DEFINE claimable == {j \in Jobs : job[j].status \in Claimable}
<1>1. \A i, j \in claimable : i = j
  <2>1. CASE ev.done
    <3>1. PICK k \in Jobs : Taken(k)
      BY <2>1 DEF PhaseInv, BeforeSnapshot
    <3> QED
      BY <3>1 DEF PhaseInv, AfterSnapshot, Claimable, Nil
  <2>2. CASE ~ev.done
    BY <2>2 DEF PhaseInv, Early, NothingLater, OneJob, Live, Claimable, Nil
  <2> QED
    BY <2>1, <2>2
<1>2. \/ claimable = {} /\ Leaves(w)
      \/ \E j \in claimable :
           /\ thr' = [thr EXCEPT ![w].on = j, ![w].pc = IF job[j].status = "waiting_g03"
                                                      THEN "take_g03" ELSE "take"]
           /\ UNCHANGED seen
  <2>1. ASSUME NEW j \in claimable
        PROVE  (CHOOSE k \in claimable : \A i \in claimable : i <= k) = j
    <3>1. j <= j
      BY <2>1 DEF Jobs
    <3> QED
      BY <1>1, <2>1, <3>1
  <2> QED
    BY <2>1 DEF Claim
<1>3. thr[w].pc = "claim" /\ OnlyThread
  BY DEF Claim, At
<1>4. IntakeTypeOK' /\ Quiet
  <2>1. CASE claimable = {} /\ Leaves(w)
    <3>1. LateMove(w)
      BY <1>3, <2>1, Moved, SeenTyped
         DEF LateMove, OnlyThread, Kept, EvKept, RunGoesOn, JobsKept, IntakeTypeOK
    <3> QED
      BY <3>1, LateMoveIsStep DEF LateStep, LateMove, Quiet, OnlyMoves, EvKept, JobsKept
  <2>2. ASSUME NEW j \in claimable, NEW p \in {"take", "take_g03"},
               thr' = [thr EXCEPT ![w].on = j, ![w].pc = p], UNCHANGED seen
        PROVE  IntakeTypeOK' /\ Quiet
    <3>1. p \in IntakePc /\ p \notin {"model", "fail"}
      BY DEF IntakePc
    <3>2. thr' \in [Threads -> IntakeThread]
      BY <2>2, <3>1 DEF IntakeTypeOK, IntakeThread
    <3> QED
      BY <1>3, <2>2, <3>1, <3>2
         DEF OnlyThread, Kept, IntakeTypeOK, RunTypeOK, Quiet, IntakeThread
  <2> QED
    BY <1>2, <2>1, <2>2
<1>5. /\ \A v \in Threads \ {w} : thr'[v] = thr[v]
      /\ \/ thr'[w] = Idle
         \/ /\ thr'[w].on \in claimable /\ thr'[w].pc \in {"take", "take_g03"}
            /\ thr'[w].pc = "take_g03" <=> job[thr'[w].on].status = "waiting_g03"
  <2>1. CASE claimable = {} /\ Leaves(w)
    BY <2>1 DEF Leaves, IntakeTypeOK
  <2>2. ASSUME NEW j \in claimable,
               thr' = [thr EXCEPT ![w].on = j, ![w].pc = IF job[j].status = "waiting_g03"
                                                         THEN "take_g03" ELSE "take"]
        PROVE  /\ \A v \in Threads \ {w} : thr'[v] = thr[v]
               /\ thr'[w].on = j /\ thr'[w].pc \in {"take", "take_g03"}
               /\ thr'[w].pc = "take_g03" <=> job[j].status = "waiting_g03"
    BY <2>2 DEF IntakeTypeOK, IntakeThread
  <2> QED
    BY <1>2, <2>1, <2>2
<1>6. CASE ev.done
  <2>1. thr'[w].on \in {0} \cup claimable /\ thr'[w].pc \notin {"handoff", "copy"}
    BY <1>5 DEF Idle
  <2>2. LateStep(w)
    BY <1>3, <1>4, <1>5, <2>1 DEF LateStep, OnlyThread, Kept, RunGoesOn
  <2> QED
    BY <1>4, <1>6, <2>2, LateStepKeeps DEF Keeps
<1>7. CASE ~ev.done
  <2>1. NothingLater /\ thr[w] # Idle
    BY <1>3, <1>7, TheOnlyOne
  <2>2. \A j \in claimable : job[j].status = "queued"
    BY <2>1 DEF NothingLater, Claimable, Nil
  <2>3. thr'[w] = Idle \/ Works(w)'
    BY <1>3, <1>5, <2>2 DEF OnlyThread, Works, EarlyPc
  <2>4. thr'[w].pc \notin {"handoff", "copy"}
    BY <1>5 DEF Idle
  <2>5. EarlyMove(w)
    BY <1>3, <1>5, <2>1, <2>3, <2>4 DEF EarlyMove, OnlyThread, Kept
  <2> QED
    BY <1>4, <1>7, <2>5, EarlyMoveKeeps DEF Keeps
<1> QED
  BY <1>6, <1>7

\* The commit of _claim: the row runs, whatever became of it meanwhile.
LEMMA TakeKeeps ==
  ASSUME IntakeTypeOK, PhaseInv, NEW w \in Threads, Take(w)
  PROVE  Keeps
<1>1. /\ thr[w].pc \in {"take", "take_g03"}
      /\ UNCHANGED <<seen, status, ev, claim, reservation, creating, pid, budget>>
      /\ job' = [job EXCEPT ![thr[w].on].status = "running", ![thr[w].on].pid = pid]
      /\ \E p \in {"started", "resume"} : (p = "started" <=> thr[w].pc = "take") /\ Goto(w, p)
  BY DEF Take, Kept, At
<1>2. thr' \in [Threads -> IntakeThread] /\ OnlyMoves(w) /\ thr'[w].on = thr[w].on
  <2>1. {"started", "resume"} \subseteq IntakePc \ {"handoff", "copy", "model", "fail"}
    BY DEF IntakePc
  <2>2. thr' \in [Threads -> IntakeThread] /\ OnlyMoves(w)
    BY <1>1, <2>1, Moved
  <2>3. thr'[w].on = thr[w].on
    BY <1>1 DEF Goto, IntakeTypeOK, IntakeThread
  <2> QED
    BY <2>2, <2>3
<1>3. /\ job' \in [Jobs -> JobRow]
      /\ \A j \in Jobs \ {thr[w].on} : job'[j] = job[j]
      /\ \A j \in Jobs : /\ job'[j].code = job[j].code /\ job'[j].failed = job[j].failed
                         /\ j = thr[w].on => job'[j].status = "running"
  <2> DEFINE row(r) == [r EXCEPT !.status = "running", !.pid = pid]
  <2>1. \A r \in JobRow : /\ row(r) \in JobRow /\ row(r).status = "running"
                         /\ row(r).code = r.code /\ row(r).failed = r.failed
    BY DEF IntakeTypeOK, JobRow
  <2>2. job' = [job EXCEPT ![thr[w].on] = row(job[thr[w].on])] /\ job \in [Jobs -> JobRow]
    BY <1>1 DEF IntakeTypeOK
  <2> HIDE DEF row
  <2> QED
    BY <2>1, <2>2
<1>4. IntakeTypeOK' /\ Quiet
  <2>1. JobsKept(w)
    BY <1>3 DEF JobsKept, Nil
  <2>2. LateMove(w)
    BY <1>1, <1>2, <2>1 DEF LateMove, EvKept, RunGoesOn, IntakeTypeOK, Seen
  <2> QED
    BY <2>2, LateMoveIsStep DEF LateStep, LateMove, Quiet, OnlyMoves, EvKept, JobsKept
<1>5. CASE ev.done
  <2>1. LateStep(w)
    BY <1>1, <1>2, <1>3, <1>4 DEF LateStep, RunGoesOn, OnlyMoves, Nil
  <2> QED
    BY <1>4, <1>5, <2>1, LateStepKeeps DEF Keeps
<1>6. CASE ~ev.done
  <2>1. /\ thr[w] # Idle /\ thr[w].pc = "take"
        /\ thr[w].on \in Jobs /\ job[thr[w].on].status = "queued"
    BY <1>1, <1>6, TheOnlyOne DEF Works, EarlyPc
  <2>2. thr'[w].pc = "started"
    BY <1>1, <2>1 DEF Goto, IntakeTypeOK, IntakeThread
  <2>3. Works(w)'
    BY <1>2, <1>3, <2>1, <2>2 DEF Works, EarlyPc
  <2>4. EarlyMove(w)
    BY <1>1, <1>2, <1>3, <2>1, <2>2, <2>3 DEF EarlyMove, OnlyMoves
  <2> QED
    BY <1>4, <1>6, <2>4, EarlyMoveKeeps DEF Keeps
<1> QED
  BY <1>5, <1>6

\* The audit event of the start: another process is refused its key.
LEMMA StartedKeeps ==
  ASSUME IntakeTypeOK, PhaseInv, NEW w \in Threads, Started(w)
  PROVE  Keeps
<1>1. thr[w].pc = "started" /\ UNCHANGED <<status, ev, claim, reservation, creating, pid, budget>>
  BY DEF Started, At, Refused, OnlyThread, Kept
<1>2. thr' \in [Threads -> IntakeThread] /\ OnlyMoves(w) /\ seen' \in [Carriers -> Seen]
  BY Moved, SeenTyped DEF Started, Refused, IntakePc, IntakeTypeOK, Seen
<1>3. /\ thr'[w].on = thr[w].on
      /\ thr'[w].pc = "snapshot" \/ (thr'[w].pc = "fail" /\ thr'[w].code = "other")
  <2>1. Goto(w, "snapshot") \/ Failing(w, "other")
    BY DEF Started, Refused
  <2> QED
    BY <2>1 DEF Goto, Failing, IntakeTypeOK, IntakeThread
<1>4. /\ job' \in [Jobs -> JobRow]
      /\ \A j \in Jobs : /\ job'[j].status = job[j].status
                         /\ job'[j].code = job[j].code /\ job'[j].failed = job[j].failed
                         /\ j # thr[w].on => job'[j] = job[j]
  <2>1. job' = job \/ job' = [job EXCEPT ![thr[w].on].startedBy = pid]
    BY DEF Started, Refused, OnlyThread
  <2>2. pid \in Pids
    BY DEF IntakeTypeOK
  <2> QED
    BY <2>1, <2>2 DEF IntakeTypeOK, JobRow
<1>5. IntakeTypeOK' /\ Quiet
  <2>1. LateMove(w)
    BY <1>1, <1>2, <1>4 DEF LateMove, EvKept, RunGoesOn, JobsKept, IntakeTypeOK
  <2> QED
    BY <2>1, LateMoveIsStep DEF LateStep, LateMove, Quiet, OnlyMoves, EvKept, JobsKept
<1>6. CASE ev.done
  <2>1. LateStep(w)
    BY <1>1, <1>2, <1>4, <1>5 DEF LateStep, RunGoesOn, OnlyMoves
  <2> QED
    BY <1>5, <1>6, <2>1, LateStepKeeps DEF Keeps
<1>7. CASE ~ev.done
  <2>1. thr[w] # Idle /\ thr[w].on \in Jobs /\ job[thr[w].on].status = "running"
    BY <1>1, <1>7, TheOnlyOne DEF Works, EarlyPc
  <2>2. Works(w)'
    BY <1>3, <1>4, <2>1 DEF Works, EarlyPc
  <2>3. EarlyMove(w)
    BY <1>1, <1>2, <1>3, <1>4, <2>1, <2>2 DEF EarlyMove, OnlyMoves
  <2> QED
    BY <1>5, <1>7, <2>3, EarlyMoveKeeps DEF Keeps
<1> QED
  BY <1>6, <1>7

\* A snapshot is begun only by a run in source validation, hence before one was taken.
LEMMA SnapshotKeeps ==
  ASSUME IntakeTypeOK, PhaseInv, NEW w \in Threads, Snapshot(w)
  PROVE  Keeps
<1> DEFINE allowed == /\ ev.snapshot[thr[w].on] = Nil
                      /\ status[Main] \in {"CREATED", "SOURCE_VALIDATION_RUNNING"}
<1>1. thr[w].pc = "snapshot" /\ UNCHANGED <<job, ev, claim, reservation, creating, pid, budget>>
  BY DEF Snapshot, At, Refused, OnlyThread, Kept
<1>2. \/ /\ status' = status /\ UNCHANGED seen
         /\ \/ Goto(w, "completed") /\ ev.snapshot[thr[w].on] = "created"
            \/ /\ ev.snapshot[thr[w].on] # "created"
               /\ \E c \in {"retryable", "other"} : Failing(w, c)
      \/ /\ allowed /\ RunTo("SOURCE_VALIDATION_RUNNING") /\ MovesRun(w) /\ Goto(w, "copy")
  BY DEF Snapshot, Refused, OnlyThread
<1>3. CASE ev.done
  <2>1. PICK j \in Jobs : Taken(j)
    BY <1>3 DEF PhaseInv, BeforeSnapshot
  <2>2. ~allowed
    BY <2>1 DEF PhaseInv, AfterSnapshot, Phase
  <2>3. /\ thr' \in [Threads -> IntakeThread] /\ OnlyMoves(w)
        /\ UNCHANGED <<seen, status>>
    BY <1>2, <2>2, Moved DEF IntakePc
  <2>4. LateMove(w)
    BY <1>1, <2>3 DEF LateMove, EvKept, RunGoesOn, JobsKept, IntakeTypeOK, Seen
  <2>5. LateStep(w)
    BY <2>4, LateMoveIsStep
  <2> QED
    BY <1>3, <2>4, <2>5, LateStepKeeps
       DEF Keeps, LateStep, LateMove, Quiet, OnlyMoves, EvKept, JobsKept
<1>4. CASE ~ev.done
  <2>1. /\ thr[w] # Idle /\ thr[w].on \in Jobs /\ job[thr[w].on].status = "running"
        /\ \A j \in Jobs : Taken(j) => j = thr[w].on
        /\ Live(thr[w].on)
    BY <1>1, <1>4, TheOnlyOne DEF Works, EarlyPc
  <2>2. /\ thr' \in [Threads -> IntakeThread] /\ \A v \in Threads \ {w} : thr'[v] = thr[v]
        /\ thr'[w].on = thr[w].on /\ thr'[w].pc \in {"completed", "fail", "copy"}
        /\ thr'[w].code \in {thr[w].code, "retryable", "other"}
        /\ thr'[w].pc = "completed" => Taken(thr[w].on)
        /\ thr'[w].pc = "fail" => ~Taken(thr[w].on) /\ thr'[w].code \in {"retryable", "other"}
        /\ thr'[w].pc = "copy" => ~Taken(thr[w].on)
    <3>1. {"completed", "fail", "copy"} \subseteq IntakePc
      BY DEF IntakePc
    <3>2. CASE Goto(w, "completed") /\ Taken(thr[w].on)
      BY <3>1, <3>2 DEF Goto, IntakeTypeOK, IntakeThread
    <3>3. CASE Goto(w, "copy") /\ ~Taken(thr[w].on)
      BY <3>1, <3>3 DEF Goto, IntakeTypeOK, IntakeThread
    <3>4. ASSUME NEW c \in {"retryable", "other"}, Failing(w, c), ~Taken(thr[w].on)
          PROVE  /\ thr' \in [Threads -> IntakeThread]
                 /\ \A v \in Threads \ {w} : thr'[v] = thr[v]
                 /\ thr'[w].on = thr[w].on /\ thr'[w].pc = "fail" /\ thr'[w].code = c
      BY <3>1, <3>4 DEF Failing, IntakeTypeOK, IntakeThread
    <3> QED
      BY <1>2, <3>2, <3>3, <3>4 DEF Taken, Nil
  <2>3. status' = status
    <3>1. CASE \A j \in Jobs : ~Taken(j)
      <4>1. status[Main] = "SOURCE_VALIDATION_RUNNING"
        BY <2>1, <3>1 DEF PhaseInv, BeforeSnapshot, Phase
      <4> QED
        BY <1>2, <4>1 DEF RunTo, IntakeTypeOK, RunTypeOK
    <3>2. CASE \E j \in Jobs : Taken(j)
      BY <1>2, <2>1, <3>2 DEF Taken, Nil
    <3> QED
      BY <3>1, <3>2
  <2>4. seen' \in [Carriers -> Seen]
    BY <1>2, SeenTyped DEF IntakeTypeOK, Seen
  <2>5. IntakeTypeOK' /\ Quiet
    BY <1>1, <2>2, <2>3, <2>4 DEF IntakeTypeOK, RunTypeOK, Quiet, Seen
  <2>6. Works(w)'
    BY <1>1, <2>1, <2>2 DEF Works, EarlyPc, Taken
  <2>7. EarlyMove(w)
    BY <1>1, <2>1, <2>2, <2>3, <2>6 DEF EarlyMove
  <2> QED
    BY <1>4, <2>5, <2>7, EarlyMoveKeeps DEF Keeps
<1> QED
  BY <1>3, <1>4

\* The failure of the only thread before the intake is completed, at its dispatch or later.
LEMMA EarlyFailureKeeps ==
  ASSUME IntakeTypeOK, PhaseInv, ~ev.done, NEW w \in Threads, thr[w].pc # "idle",
         thr[w].on \in Jobs,
         job'[thr[w].on].status = "failed",
         Taken(thr[w].on) => job'[thr[w].on].code # "retryable",
         \A j \in Jobs \ {thr[w].on} : job'[j] = job[j],
         thr'[w] = Idle, \A v \in Threads \ {w} : thr'[v] = thr[v],
         status' = [status EXCEPT ![Main] = "FAILED"],
         UNCHANGED <<ev, claim, reservation, creating>>
  PROVE  PhaseInv'
<1>1. /\ NothingLater /\ OneJob /\ Live(thr[w].on)
      /\ \A v \in Threads : thr'[v] = Idle
      /\ \A j \in Jobs : Taken(j) => j = thr[w].on
  BY TheOnlyOne
<1>2. Phase \in {"SOURCE_VALIDATION_RUNNING", "SOURCE_VALIDATED", "BASELINE_QUALIFIED",
                 "DIAGNOSTIC_HOLD", "CANCELLED"}
  BY <1>1 DEF PhaseInv, BeforeSnapshot, AfterSnapshot
<1>3. Phase' = "FAILED" /\ \A r \in Runs \ {Main} : status'[r] = status[r]
  BY IntakeAssumption DEF Phase, IntakeTypeOK, RunTypeOK
<1>4. \A j \in Jobs : (Taken(j)' <=> Taken(j)) /\ ~Live(j)'
                      /\ (job'[j].status = Nil <=> job[j].status = Nil)
  BY <1>1 DEF Taken, OneJob, Live, Nil
<1>5. Ownership'
  <2>1. NoneStarts
    BY <1>2, <1>3 DEF NoneStarts, Phase, Mutating, Nil
  <2>2. AttemptsStay
    BY <1>4 DEF AttemptsStay
  <2> QED
    BY <2>1, <2>2, OwnershipKept DEF PhaseInv
<1>7. AttemptsInOrder'
  BY <1>4 DEF PhaseInv, AttemptsInOrder, Nil
<1>8. Early'
  <2>1. NothingLater'
    BY <1>1 DEF NothingLater
  <2>2. OneThread'
    BY <1>1 DEF OneThread
  <2>3. OneJob'
    BY <1>4 DEF OneJob
  <2> QED
    BY <2>1, <2>2, <2>3 DEF Early
<1>9. BeforeSnapshot'
  BY <1>3, <1>4 DEF PhaseInv, BeforeSnapshot, Nil
<1>10. AfterSnapshot'
  <2>1. \A v \in Threads : thr'[v].on = 0 /\ thr'[v].pc = "idle"
    BY <1>1 DEF Idle
  <2>2. \A i \in Jobs \ {thr[w].on} : /\ job[i].status \in {Nil, "failed"}
                                      /\ i > thr[w].on => job[i].status = Nil
    BY <1>1 DEF NothingLater, OneJob, Live
  <2>3. \A i \in Jobs \ {thr[w].on} : job'[i].status = job[i].status
    OBVIOUS
  <2>4. \A j \in Jobs : Taken(j)' => j = thr[w].on /\ job'[j].code # "retryable"
    BY <1>1, <1>4
  <2>5. job'[thr[w].on].status # Nil
    BY DEF Nil
  <2> QED
    BY <1>3, <1>4, <2>1, <2>2, <2>3, <2>4, <2>5 DEF AfterSnapshot
<1> QED
  BY <1>5, <1>7, <1>8, <1>9, <1>10 DEF PhaseInv

\* What a thread that failed reports is one of the codes of a job.
FailuresCoded == \A w \in Threads : thr[w].pc = "fail" => thr[w].code \in {"retryable", "other"}

\* graph.start after the commit of start, or _record_dispatch_failure: nothing has begun yet.
LEMMA HandoffKeeps ==
  ASSUME IntakeTypeOK, PhaseInv, NEW w \in Threads, Handoff(w)
  PROVE  Keeps
<1>1. thr[w].pc = "handoff" /\ UNCHANGED <<ev, claim, reservation, creating, pid, budget>>
  BY DEF Handoff, At, Kept
<1>2. \A j \in Jobs : ~Taken(j)
  BY <1>1 DEF PhaseInv, AfterSnapshot
<1>3. ~ev.done
  BY <1>2 DEF PhaseInv, BeforeSnapshot
<1>4. /\ thr[w] # Idle /\ Live(thr[w].on) /\ thr[w].on \in Jobs
      /\ job[thr[w].on].status = "queued"
  BY <1>1, <1>3, TheOnlyOne DEF Works
<1>5. CASE /\ thr' = [thr EXCEPT ![w] = [Idle EXCEPT !.pc = "claim"]]
           /\ UNCHANGED <<seen, status, job>>
  <2> DEFINE claiming == [Idle EXCEPT !.pc = "claim"]
  <2>1. /\ claiming \in IntakeThread /\ claiming.pc = "claim" /\ claiming.on = 0
        /\ claiming.code = "none"
    BY DEF Idle, IntakeThread, IntakePc, Nil
  <2>2. thr'[w] = claiming /\ \A v \in Threads \ {w} : thr'[v] = thr[v]
    BY <1>5 DEF IntakeTypeOK
  <2>3. thr' \in [Threads -> IntakeThread]
    BY <1>5, <2>1 DEF IntakeTypeOK
  <2> HIDE DEF claiming
  <2>4. IntakeTypeOK' /\ Quiet
    BY <1>1, <1>5, <2>1, <2>2, <2>3 DEF IntakeTypeOK, RunTypeOK, Quiet
  <2>5. Works(w)'
    BY <1>4, <1>5, <2>1, <2>2 DEF Works, EarlyPc, Live
  <2>6. EarlyMove(w)
    BY <1>1, <1>4, <1>5, <2>1, <2>2, <2>5 DEF EarlyMove
  <2> QED
    BY <1>3, <2>4, <2>6, EarlyMoveKeeps DEF Keeps
<1>6. CASE /\ job' = [job EXCEPT ![thr[w].on].status = "failed", ![thr[w].on].code = "retryable"]
           /\ RunTo(DispatchFailed)
           /\ thr' = [thr EXCEPT ![w] = Idle]
           /\ seen' = Superseded(Nil, "old")
  <2> DEFINE row(r) == [r EXCEPT !.status = "failed", !.code = "retryable"]
  <2>1. \A r \in JobRow : row(r) \in JobRow /\ row(r).status = "failed"
    BY DEF JobRow
  <2>2. job' = [job EXCEPT ![thr[w].on] = row(job[thr[w].on])] /\ job \in [Jobs -> JobRow]
    BY <1>6 DEF IntakeTypeOK
  <2> HIDE DEF row
  <2>3. /\ job' \in [Jobs -> JobRow] /\ job'[thr[w].on].status = "failed"
        /\ \A j \in Jobs \ {thr[w].on} : job'[j] = job[j]
    BY <1>4, <2>1, <2>2
  <2>4. Idle \in IntakeThread /\ Idle.pc = "idle" /\ Idle.code = "none"
    BY DEF IntakePc, Idle, IntakeThread, Nil
  <2>5. /\ thr' \in [Threads -> IntakeThread] /\ thr'[w] = Idle
        /\ \A v \in Threads \ {w} : thr'[v] = thr[v]
    BY <1>6, <2>4 DEF IntakeTypeOK
  <2>6. status' = [status EXCEPT ![Main] = "FAILED"] /\ RunTypeOK'
    BY <1>1, <1>6 DEF RunTo, DispatchFailed, IntakeTypeOK, RunTypeOK, RunStatus
  <2>7. seen' \in [Carriers -> Seen]
    BY <1>6, SeenTyped
  <2>8. IntakeTypeOK'
    BY <1>1, <2>3, <2>5, <2>6, <2>7 DEF IntakeTypeOK, Seen
  <2>9. Quiet
    BY <1>1, <2>3, <2>4, <2>5 DEF Quiet
  <2>10. PhaseInv'
    BY <1>1, <1>2, <1>3, <1>4, <2>3, <2>5, <2>6, EarlyFailureKeeps
  <2> QED
    BY <2>8, <2>9, <2>10 DEF Keeps
<1> QED
  BY <1>5, <1>6 DEF Handoff

\* _fail: the run is moved whatever its status.
LEMMA FailKeeps ==
  ASSUME IntakeTypeOK, PhaseInv, FailuresCoded, NEW w \in Threads, Fail(w)
  PROVE  Keeps
<1>1. /\ thr[w].pc = "fail" /\ thr[w].on \in Jobs /\ thr[w].code \in {"retryable", "other"}
      /\ UNCHANGED <<ev, claim, reservation, creating, pid, budget>>
  BY DEF Fail, At, Kept, FailuresCoded, IntakeTypeOK, IntakeThread
<1>2. /\ thr' \in [Threads -> IntakeThread] /\ OnlyMoves(w)
      /\ thr'[w] = Idle
      /\ seen' \in [Carriers -> Seen]
  <2>1. Idle \in IntakeThread /\ Idle.pc = "idle" /\ Idle.on = 0 /\ Idle.code = "none"
    BY DEF IntakePc, Idle, IntakeThread, Nil
  <2>2. thr' = [thr EXCEPT ![w] = Idle]
    BY DEF Fail, Leaves
  <2>3. thr' \in [Threads -> IntakeThread] /\ OnlyMoves(w) /\ thr'[w] = Idle
    BY <2>1, <2>2 DEF IntakeTypeOK, OnlyMoves
  <2>4. seen' \in [Carriers -> Seen]
    BY SeenTyped DEF Fail, Leaves, Seen, IntakeTypeOK
  <2> QED
    BY <2>3, <2>4
<1>3. /\ job' \in [Jobs -> JobRow]
      /\ \A j \in Jobs \ {thr[w].on} : job'[j] = job[j]
      /\ \/ job' = job /\ job[thr[w].on].failed
         \/ job'[thr[w].on].status = "failed" /\ job'[thr[w].on].code = thr[w].code
  <2> DEFINE first(r) == [r EXCEPT !.status = "failed", !.code = thr[w].code, !.failed = TRUE]
             again(r) == [r EXCEPT !.status = "failed", !.code = thr[w].code]
  <2>1. \A r \in JobRow : /\ first(r) \in JobRow /\ again(r) \in JobRow
                          /\ first(r).status = "failed" /\ again(r).status = "failed"
                          /\ first(r).code = thr[w].code /\ again(r).code = thr[w].code
    BY <1>1 DEF JobRow
  <2>2. \/ job' = job /\ job[thr[w].on].failed
        \/ job' = [job EXCEPT ![thr[w].on] = first(job[thr[w].on])]
        \/ job' = [job EXCEPT ![thr[w].on] = again(job[thr[w].on])]
    BY DEF Fail
  <2>3. job \in [Jobs -> JobRow]
    BY DEF IntakeTypeOK
  <2> HIDE DEF first, again
  <2> QED
    BY <1>1, <2>1, <2>2, <2>3
<1>4. \/ status' = status /\ job[thr[w].on].failed
      \/ status' = [status EXCEPT ![Main] = "DIAGNOSTIC_HOLD"] /\ ev.done
      \/ status' = [status EXCEPT ![Main] = "FAILED"] /\ ~ev.done
  BY DEF Fail, RunTo
<1>5. IntakeTypeOK'
  <2>1. RunTypeOK'
    BY <1>1, <1>4 DEF IntakeTypeOK, RunTypeOK, RunStatus
  <2> QED
    BY <1>1, <1>2, <1>3, <2>1 DEF IntakeTypeOK, Seen
<1>6. Quiet
  <2>1. \A j \in Jobs : job'[j].status = "completed" => job[j].status = "completed"
    BY <1>3
  <2> QED
    BY <1>1, <1>2, <2>1 DEF Quiet, OnlyMoves, Idle
<1>7. CASE ev.done
  <2>1. thr'[w].on = 0 /\ thr'[w].pc = "idle"
    BY <1>2 DEF Idle
  <2>2. \A j \in Jobs : job'[j].status # job[j].status => j = thr[w].on /\ job'[j].status # Nil
    BY <1>3 DEF Nil
  <2>3. RunGoesOn
    BY <1>4, <1>7 DEF RunGoesOn
  <2>4. LateStep(w)
    BY <1>1, <1>2, <1>3, <1>5, <2>1, <2>2, <2>3 DEF LateStep, OnlyMoves
  <2> QED
    BY <1>5, <1>6, <1>7, <2>4, LateStepKeeps DEF Keeps
<1>8. CASE ~ev.done
  <2>1. OneJob /\ Works(w) /\ Live(thr[w].on)
    BY <1>1, <1>8, TheOnlyOne
  <2>2. ~job[thr[w].on].failed
    BY <1>1, <2>1 DEF OneJob
  <2>3. status' = [status EXCEPT ![Main] = "FAILED"]
    BY <1>4, <1>8, <2>2
  <2>4. Taken(thr[w].on) => job'[thr[w].on].code # "retryable"
    BY <1>1, <1>3, <2>1, <2>2 DEF Works
  <2>5. job'[thr[w].on].status = "failed"
    BY <1>3, <2>2
  <2>6. PhaseInv'
    BY <1>1, <1>2, <1>3, <1>8, <2>3, <2>4, <2>5, EarlyFailureKeeps DEF OnlyMoves
  <2> QED
    BY <1>5, <1>6, <2>6 DEF Keeps
<1> QED
  BY <1>7, <1>8

\* The files are copied outside a transaction; nothing else happened meanwhile.
LEMMA CopyKeeps ==
  ASSUME IntakeTypeOK, PhaseInv, NEW w \in Threads, Copy(w)
  PROVE  Keeps
<1>1. thr[w].pc = "copy" /\ UNCHANGED <<job, claim, reservation, creating, pid, budget>>
  BY DEF Copy, At, Kept
<1>2. \A j \in Jobs : ~Taken(j)
  BY <1>1 DEF PhaseInv, AfterSnapshot
<1>3. ~ev.done /\ ev.g02 = Nil
  BY <1>2 DEF PhaseInv, BeforeSnapshot
<1>4. /\ thr[w] # Idle /\ Live(thr[w].on) /\ thr[w].on \in Jobs /\ NothingLater /\ OneJob
      /\ job[thr[w].on].status = "running"
      /\ \A v \in Threads \ {w} : thr[v] = Idle
  BY <1>1, <1>3, TheOnlyOne DEF Works
<1>5. Phase = "SOURCE_VALIDATION_RUNNING"
  BY <1>2, <1>4 DEF PhaseInv, BeforeSnapshot
<1>6. seen' \in [Carriers -> Seen]
  BY SeenTyped DEF Copy
<1>7. AttemptsInOrder' /\ OneJob'
  BY <1>1, <1>4 DEF PhaseInv, AttemptsInOrder, OneJob, Live
<1>8. CASE /\ RunTo("SOURCE_VALIDATED")
           /\ ev' = [ev EXCEPT !.snapshot[thr[w].on] = "created"]
           /\ Goto(w, "completed")
  <2>1. ev' \in Evidence /\ ev'.snapshot = [ev.snapshot EXCEPT ![thr[w].on] = "created"]
    BY <1>4, <1>8 DEF IntakeTypeOK, Evidence
  <2>2. /\ ev'.done = ev.done /\ ev'.assessment = ev.assessment /\ ev'.parity = ev.parity
        /\ ev'.analysis = ev.analysis /\ ev'.approvedG03 = ev.approvedG03 /\ ev'.g04 = ev.g04
        /\ ev'.discovery = ev.discovery /\ ev'.dparity = ev.dparity
    BY <1>8 DEF IntakeTypeOK, Evidence
  <2>3. \A j \in Jobs : Taken(j)' <=> j = thr[w].on
    BY <1>2, <1>4, <2>1 DEF Taken, IntakeTypeOK, Evidence
  <2>4. "completed" \in IntakePc /\ "completed" \notin {"idle", "handoff", "copy", "model", "fail"}
    BY DEF IntakePc
  <2>5. /\ thr' \in [Threads -> IntakeThread] /\ thr'[w].pc = "completed"
        /\ thr'[w].on = thr[w].on /\ thr'[w].code = thr[w].code
        /\ \A v \in Threads \ {w} : thr'[v] = thr[v]
    BY <1>8, <2>4 DEF Goto, IntakeTypeOK, IntakeThread
  <2>6. /\ RunTypeOK' /\ Phase' = "SOURCE_VALIDATED"
        /\ \A r \in Runs \ {Main} : status'[r] = status[r]
    BY <1>1, <1>8, IntakeAssumption DEF RunTo, Phase, IntakeTypeOK, RunTypeOK, RunStatus
  <2>7. IntakeTypeOK'
    BY <1>1, <1>6, <2>1, <2>5, <2>6 DEF IntakeTypeOK, Seen
  <2>8. Quiet
    BY <1>1, <2>2, <2>5 DEF Quiet
  <2>9. Ownership'
    <3>1. NoneStarts
      BY <1>5, <2>6 DEF NoneStarts, Phase, Mutating, Nil
    <3>2. AttemptsStay
      BY <1>1 DEF AttemptsStay
    <3> QED
      BY <1>1, <3>1, <3>2, OwnershipKept DEF PhaseInv
  <2>11. Early'
    <3>1. NothingLater'
      BY <1>1, <1>4, <2>2 DEF NothingLater
    <3>2. Works(w)'
      BY <1>1, <1>4, <2>3, <2>4, <2>5 DEF Works, EarlyPc
    <3>3. OneThread'
      BY <1>4, <2>5, <3>2 DEF OneThread
    <3> QED
      BY <1>7, <3>1, <3>3 DEF Early
  <2>12. BeforeSnapshot'
    BY <1>4, <2>3 DEF BeforeSnapshot
  <2>13. AfterSnapshot'
    <3>1. \A i \in Jobs \ {thr[w].on} : /\ job'[i].status \in {Nil, "failed"}
                                        /\ i > thr[w].on => job'[i].status = Nil
      BY <1>1, <1>4 DEF NothingLater, OneJob, Live
    <3>2. \A v \in Threads : thr'[v].on \in {0, thr[w].on} /\ thr'[v].pc \notin {"handoff", "copy"}
      BY <1>4, <2>4, <2>5 DEF Idle
    <3>3. job'[thr[w].on].status # Nil
      BY <1>1, <1>4 DEF Nil
    <3> QED
      BY <2>3, <2>6, <3>1, <3>2, <3>3 DEF AfterSnapshot
  <2> QED
    BY <1>7, <2>7, <2>8, <2>9, <2>11, <2>12, <2>13 DEF Keeps, PhaseInv
<1>9. CASE /\ ev' = [ev EXCEPT !.snapshot[thr[w].on] = "failed"]
           /\ Failing(w, "retryable") /\ UNCHANGED status
  <2>1. ev' \in Evidence /\ ev'.snapshot = [ev.snapshot EXCEPT ![thr[w].on] = "failed"]
    BY <1>4, <1>9 DEF IntakeTypeOK, Evidence
  <2>2. /\ ev'.done = ev.done /\ ev'.assessment = ev.assessment /\ ev'.parity = ev.parity
        /\ ev'.analysis = ev.analysis /\ ev'.approvedG03 = ev.approvedG03 /\ ev'.g04 = ev.g04
        /\ ev'.discovery = ev.discovery /\ ev'.dparity = ev.dparity /\ ev'.g02 = ev.g02
    BY <1>9 DEF IntakeTypeOK, Evidence
  <2>3. \A j \in Jobs : ~Taken(j)'
    BY <1>2, <1>4, <2>1 DEF Taken, IntakeTypeOK, Evidence
  <2>4. "fail" \in IntakePc /\ "fail" \notin {"idle", "handoff", "copy", "model", "completed"}
    BY DEF IntakePc
  <2>5. /\ thr' \in [Threads -> IntakeThread] /\ thr'[w].pc = "fail"
        /\ thr'[w].on = thr[w].on /\ thr'[w].code = "retryable"
        /\ \A v \in Threads \ {w} : thr'[v] = thr[v]
    BY <1>9, <2>4 DEF Failing, IntakeTypeOK, IntakeThread
  <2>6. IntakeTypeOK'
    BY <1>1, <1>6, <1>9, <2>1, <2>5 DEF IntakeTypeOK, RunTypeOK, Seen
  <2>7. Quiet
    BY <1>1, <2>2, <2>5 DEF Quiet
  <2>8. Ownership'
    BY <1>1, <1>9, OwnershipKept DEF PhaseInv, NoneStarts, AttemptsStay
  <2>9. Early'
    <3>1. NothingLater'
      BY <1>1, <1>4, <2>2 DEF NothingLater
    <3>2. Works(w)'
      BY <1>1, <1>4, <2>3, <2>4, <2>5 DEF Works, EarlyPc
    <3>3. OneThread'
      BY <1>4, <2>5, <3>2 DEF OneThread
    <3> QED
      BY <1>7, <3>1, <3>3 DEF Early
  <2>10. BeforeSnapshot'
    BY <1>1, <1>2, <1>9, <2>2 DEF PhaseInv, BeforeSnapshot, Live, Phase
  <2>11. AfterSnapshot'
    BY <2>3 DEF AfterSnapshot
  <2> QED
    BY <1>7, <2>6, <2>7, <2>8, <2>9, <2>10, <2>11 DEF Keeps, PhaseInv
<1> QED
  BY <1>8, <1>9 DEF Copy

\* The end of the intake: from here on the job may wait, and requests may cross it.
LEMMA CompletedKeeps ==
  ASSUME IntakeTypeOK, PhaseInv, NEW w \in Threads, Completed(w)
  PROVE  Keeps
<1>1. /\ thr[w].pc = "completed" /\ Goto(w, "g02")
      /\ UNCHANGED <<status, job, claim, reservation, creating, pid, budget>>
  BY DEF Completed, At, Kept
<1>2. ev' = [ev EXCEPT !.done = TRUE] /\ ev' \in Evidence
  BY DEF Completed, IntakeTypeOK, Evidence
<1>3. /\ ev'.done = TRUE /\ ev'.snapshot = ev.snapshot
      /\ ev'.analysis = ev.analysis /\ ev'.g04 = ev.g04
      /\ ev'.discovery = ev.discovery /\ ev'.dparity = ev.dparity
  BY <1>2 DEF IntakeTypeOK, Evidence
<1>4. seen' \in [Carriers -> Seen]
  BY SeenTyped DEF Completed
<1>5. /\ thr' \in [Threads -> IntakeThread] /\ OnlyMoves(w)
      /\ thr'[w].on = thr[w].on /\ thr'[w].pc = "g02"
  <2>1. "g02" \in IntakePc \ {"handoff", "copy", "model", "fail"}
    BY DEF IntakePc
  <2>2. thr'[w].on = thr[w].on /\ thr'[w].pc = "g02"
    BY <1>1 DEF Goto, IntakeTypeOK, IntakeThread
  <2> QED
    BY <1>1, <2>1, <2>2, Moved
<1>6. IntakeTypeOK'
  BY <1>1, <1>2, <1>4, <1>5 DEF IntakeTypeOK, RunTypeOK, Seen
<1>7. Quiet
  BY <1>1, <1>3, <1>5 DEF Quiet, OnlyMoves
<1>8. CASE ev.done
  <2>1. LateStep(w)
    BY <1>1, <1>3, <1>5, <1>6, <1>8 DEF LateStep, RunGoesOn, OnlyMoves, IntakeTypeOK, Evidence
  <2> QED
    BY <1>6, <1>7, <1>8, <2>1, LateStepKeeps DEF Keeps
<1>9. CASE ~ev.done
  <2>1. /\ Taken(thr[w].on) /\ Live(thr[w].on) /\ thr[w].on \in Jobs
        /\ \A v \in Threads \ {w} : thr[v] = Idle
        /\ \A j \in Jobs : Taken(j) => j = thr[w].on
    BY <1>1, <1>9, TheOnlyOne DEF Works
  <2>2. \A j \in Jobs : Taken(j)' <=> Taken(j)
    BY <1>3 DEF Taken
  <2>3. Ownership' /\ AttemptsInOrder'
    BY <1>1, OwnershipKept DEF PhaseInv, NoneStarts, AttemptsStay, AttemptsInOrder
  <2>4. Early' /\ BeforeSnapshot'
    BY <1>3, <2>1, <2>2 DEF Early, BeforeSnapshot
  <2>5. AfterSnapshot'
    <3>1. \A v \in Threads : thr'[v].on \in {0, thr[w].on} /\ thr'[v].pc \notin {"handoff", "copy"}
      BY <1>5, <2>1 DEF OnlyMoves, Idle
    <3>2. Phase' # "FAILED"
      BY <1>1, <2>1 DEF PhaseInv, AfterSnapshot, Phase
    <3> QED
      BY <1>1, <2>1, <2>2, <3>1, <3>2 DEF PhaseInv, AfterSnapshot, Phase
  <2> QED
    BY <1>6, <1>7, <2>3, <2>4, <2>5 DEF Keeps, PhaseInv
<1> QED
  BY <1>8, <1>9

\* After the end of the intake the steps of a thread leave its phase as it is.
LEMMA LateKeeps ==
  ASSUME IntakeTypeOK, PhaseInv, NEW w \in Threads, LateMove(w),
         thr[w].pc \notin EarlyPc \/ (thr[w].pc = "fail" /\ thr[w].on = 0)
  PROVE  Keeps
<1>1. ev.done
  <2> SUFFICES ASSUME ~ev.done
               PROVE  FALSE
    OBVIOUS
  <2>1. thr[w].pc # "idle"
    BY DEF EarlyPc
  <2>2. Works(w)
    BY <2>1, TheOnlyOne
  <2> QED
    BY <2>2 DEF Works, Jobs
<1>2. LateStep(w)
  BY LateMoveIsStep
<1>3. Quiet
  BY DEF LateMove, Quiet, OnlyMoves, EvKept, JobsKept
<1> QED
  BY <1>1, <1>2, <1>3, LateStepKeeps DEF Keeps, LateStep

-----------------------------------------------------------------------------
(* The evidence of a completed intake.                                     *)

Chain ==
  /\ \E i \in DOMAIN ev.analysis : ev.analysis[i] = "completed"
  /\ ev.g04 = "pending" /\ ev.discovery = "completed" /\ ev.dparity = "completed"

\* An analysis is only made of a completed discovery and parity, and one that was completed
\* opened G04.
AnalysesStand ==
  /\ ev.analysis # <<>> => ev.discovery = "completed" /\ ev.dparity = "completed"
  /\ (\E i \in DOMAIN ev.analysis : ev.analysis[i] = "completed") => ev.g04 = "pending"

\* A thread at the model has an attempt of its own in progress.
AttemptsHaveRows ==
  \A w \in Threads : thr[w].pc = "model" =>
    /\ thr[w].row \in DOMAIN ev.analysis /\ ev.analysis[thr[w].row] = "in_progress"
    /\ \A v \in Threads \ {w} : thr[v].pc = "model" => thr[v].row # thr[w].row

\* A thread reports the completion of an analysis that is completed.
ReportsStand == \A w \in Threads : thr[w].code = "completed" => Chain

EvidenceInv ==
  /\ AnalysesStand /\ AttemptsHaveRows /\ ReportsStand
  /\ CompletedIntakeHasEvidence /\ FailuresCoded

\* Whatever a step does, it keeps the evidence unless it analyses or reports.
LEMMA QuietKeeps ==
  ASSUME EvidenceInv, Quiet
  PROVE  EvidenceInv'
<1>1. Chain => Chain'
  BY DEF Chain, Quiet, Nil
<1>2. AnalysesStand'
  BY DEF EvidenceInv, AnalysesStand, Quiet, Nil
<1>3. AttemptsHaveRows'
  BY DEF EvidenceInv, AttemptsHaveRows, Quiet
<1>4. ReportsStand'
  BY <1>1 DEF EvidenceInv, ReportsStand, Quiet
<1>5. CompletedIntakeHasEvidence'
  <2> SUFFICES ASSUME NEW j \in Jobs, job'[j].status = "completed"
               PROVE  Chain'
    BY DEF CompletedIntakeHasEvidence, Chain
  <2> QED
    BY <1>1 DEF EvidenceInv, CompletedIntakeHasEvidence, Chain, Quiet
<1>6. FailuresCoded'
  BY DEF EvidenceInv, FailuresCoded, Quiet
<1> QED
  BY <1>2, <1>3, <1>4, <1>5, <1>6 DEF EvidenceInv

\* What a thread reports of an attempt: its completion only if it is completed.
LEMMA ReportsTyped ==
  \A s \in Analyses : /\ Reported(s) \in {"completed", "retry", "failed"}
                      /\ Reported(s) = "completed" => s = "completed"
BY DEF Analyses, Reported

\* generate up to the model call.
LEMMA AnalysisKeeps ==
  ASSUME IntakeTypeOK, PhaseInv, EvidenceInv, NEW w \in Threads, Analysis(w)
  PROVE  IntakeTypeOK' /\ PhaseInv' /\ EvidenceInv'
<1>1. thr[w].pc = "analysis" /\ UNCHANGED <<status, job, claim, reservation, creating, pid, budget>>
  BY DEF Analysis, At, Refused, OnlyThread, Kept
<1>2. ev.done
  <2> SUFFICES ASSUME ~ev.done
               PROVE  FALSE
    OBVIOUS
  <2> QED
    BY <1>1, TheOnlyOne DEF Works, EarlyPc
<1>3. CASE /\ ev.discovery = "completed" /\ ev.dparity = "completed"
           /\ seen' = Superseded(w, IF thr[w].on = 0 THEN "old" ELSE "analysis")
           /\ ev' = [ev EXCEPT !.analysis = Append(@, "in_progress")]
           /\ thr' = [thr EXCEPT ![w].pc = "model", ![w].row = Len(ev.analysis) + 1]
  <2>1. /\ ev.analysis \in Seq(Analyses) /\ Len(ev.analysis) \in Nat
        /\ DOMAIN ev.analysis = 1..Len(ev.analysis)
    BY LenProperties DEF IntakeTypeOK, Evidence
  <2>2. /\ Append(ev.analysis, "in_progress") \in Seq(Analyses)
        /\ DOMAIN Append(ev.analysis, "in_progress") = 1..(Len(ev.analysis) + 1)
        /\ \A i \in DOMAIN ev.analysis : Append(ev.analysis, "in_progress")[i] = ev.analysis[i]
        /\ Append(ev.analysis, "in_progress")[Len(ev.analysis) + 1] = "in_progress"
    <3>1. "in_progress" \in Analyses
      BY DEF Analyses
    <3> QED
      BY <2>1, <3>1, AppendProperties, LenProperties
  <2>3. /\ ev' \in Evidence /\ ev'.analysis = Append(ev.analysis, "in_progress")
        /\ ev'.done = ev.done /\ ev'.snapshot = ev.snapshot /\ ev'.g04 = ev.g04
        /\ ev'.discovery = ev.discovery /\ ev'.dparity = ev.dparity
    BY <1>3, <2>2 DEF IntakeTypeOK, Evidence
  <2>4. /\ thr' \in [Threads -> IntakeThread]
        /\ \A v \in Threads \ {w} : thr'[v] = thr[v]
        /\ thr'[w].pc = "model" /\ thr'[w].row = Len(ev.analysis) + 1
        /\ thr'[w].on = thr[w].on /\ thr'[w].code = thr[w].code
    <3>1. "model" \in IntakePc /\ Len(ev.analysis) + 1 \in Nat
      BY <2>1 DEF IntakePc
    <3> QED
      BY <1>3, <3>1 DEF IntakeTypeOK, IntakeThread
  <2>5. seen' \in [Carriers -> Seen]
    BY <1>3, SeenTyped DEF Carriers
  <2>6. IntakeTypeOK'
    BY <1>1, <2>3, <2>4, <2>5 DEF IntakeTypeOK, RunTypeOK, Seen
  <2>7. LateStep(w)
    BY <1>1, <2>3, <2>4, <2>6 DEF LateStep, RunGoesOn
  <2>8. \A i \in DOMAIN ev'.analysis :
          \/ i \in DOMAIN ev.analysis /\ ev'.analysis[i] = ev.analysis[i]
          \/ i = Len(ev.analysis) + 1 /\ ev'.analysis[i] = "in_progress"
    BY <2>1, <2>2, <2>3
  <2>9. \A i \in DOMAIN ev.analysis : i \in DOMAIN ev'.analysis /\ ev'.analysis[i] = ev.analysis[i]
    BY <2>1, <2>2, <2>3
  <2>10. Chain => Chain'
    BY <2>3, <2>9 DEF Chain
  <2>11. AnalysesStand'
    BY <1>3, <2>3, <2>8 DEF EvidenceInv, AnalysesStand
  <2>12. AttemptsHaveRows'
    <3>1. thr'[w].row \in DOMAIN ev'.analysis /\ ev'.analysis[thr'[w].row] = "in_progress"
      BY <2>1, <2>2, <2>3, <2>4
    <3>2. thr'[w].row \notin DOMAIN ev.analysis
      BY <2>1, <2>4
    <3> QED
      BY <2>4, <2>9, <3>1, <3>2 DEF EvidenceInv, AttemptsHaveRows
  <2>13. ReportsStand' /\ CompletedIntakeHasEvidence' /\ FailuresCoded'
    BY <1>1, <2>4, <2>10
       DEF EvidenceInv, ReportsStand, CompletedIntakeHasEvidence, FailuresCoded, Chain
  <2> QED
    BY <1>2, <2>6, <2>7, <2>11, <2>12, <2>13, LateStepKeeps DEF EvidenceInv
<1>4. CASE /\ ev.analysis # <<>> /\ UNCHANGED <<seen, ev>>
           /\ thr' = [thr EXCEPT ![w].pc = "finish", ![w].code = Reported(ev.analysis[1])]
  <2>1. 1 \in DOMAIN ev.analysis /\ ev.analysis[1] \in Analyses
    BY <1>4, LenProperties, EmptySeq, ElementOfSeq DEF IntakeTypeOK, Evidence
  <2>2. "finish" \in IntakePc
    BY DEF IntakePc
  <2>3. /\ thr' \in [Threads -> IntakeThread]
        /\ \A v \in Threads \ {w} : thr'[v] = thr[v]
        /\ thr'[w].pc = "finish" /\ thr'[w].on = thr[w].on
        /\ thr'[w].code = "completed" => ev.analysis[1] = "completed"
    BY <1>4, <2>1, <2>2, ReportsTyped DEF IntakeTypeOK, IntakeThread
  <2>4. IntakeTypeOK'
    BY <1>1, <1>4, <2>3 DEF IntakeTypeOK, RunTypeOK
  <2>5. LateStep(w)
    BY <1>1, <1>4, <2>3, <2>4 DEF LateStep, RunGoesOn
  <2>6. thr'[w].code = "completed" => Chain
    BY <1>4, <2>1, <2>3 DEF EvidenceInv, AnalysesStand, Chain
  <2>7. EvidenceInv'
    BY <1>1, <1>4, <2>3, <2>6 DEF EvidenceInv, AnalysesStand, AttemptsHaveRows, ReportsStand,
       CompletedIntakeHasEvidence, FailuresCoded, Chain
  <2> QED
    BY <1>2, <2>4, <2>5, <2>7, LateStepKeeps
<1>5. CASE Refused(w, "other")
  <2>1. thr' \in [Threads -> IntakeThread] /\ OnlyMoves(w)
    BY <1>5, Moved DEF Refused
  <2>2. LateMove(w)
    BY <1>1, <1>5, <2>1
       DEF LateMove, Refused, OnlyThread, EvKept, RunGoesOn, JobsKept, IntakeTypeOK, Seen
  <2>3. Keeps
    BY <1>1, <2>2, LateKeeps DEF EarlyPc
  <2> QED
    BY <2>3, QuietKeeps DEF Keeps
<1> QED
  BY <1>3, <1>4, <1>5 DEF Analysis, Replays, OnlyThread

\* _complete or _fail of the attempt: it is the thread's own, still in progress.
LEMMA ModelKeeps ==
  ASSUME IntakeTypeOK, PhaseInv, EvidenceInv, NEW w \in Threads, Model(w)
  PROVE  IntakeTypeOK' /\ PhaseInv' /\ EvidenceInv'
<1>1. thr[w].pc = "model" /\ UNCHANGED <<status, job, claim, reservation, creating, pid, budget>>
  BY DEF Model, At, Kept
<1>2. ev.done
  <2> SUFFICES ASSUME ~ev.done
               PROVE  FALSE
    OBVIOUS
  <2> QED
    BY <1>1, TheOnlyOne DEF Works, EarlyPc
<1>3. PICK s \in Analyses \ {"in_progress"} :
        /\ ev' = [ev EXCEPT !.analysis[thr[w].row] = s,
                            !.g04 = IF s = "completed" THEN "pending" ELSE @]
        /\ thr' = [thr EXCEPT ![w].pc = "finish", ![w].code = Reported(s)]
  BY DEF Model
<1> DEFINE a == [ev.analysis EXCEPT ![thr[w].row] = s]
<1>4. /\ ev.analysis \in Seq(Analyses) /\ thr[w].row \in DOMAIN ev.analysis
      /\ ev.analysis[thr[w].row] = "in_progress"
  BY <1>1 DEF IntakeTypeOK, Evidence, EvidenceInv, AttemptsHaveRows
<1>5. /\ a \in Seq(Analyses) /\ DOMAIN a = DOMAIN ev.analysis
      /\ \A i \in DOMAIN a : a[i] = IF i = thr[w].row THEN s ELSE ev.analysis[i]
  BY <1>4, ExceptSeq, LenProperties
<1>6. /\ ev'.analysis = a /\ ev'.g04 = (IF s = "completed" THEN "pending" ELSE ev.g04)
      /\ ev'.done = ev.done /\ ev'.snapshot = ev.snapshot
      /\ ev'.discovery = ev.discovery /\ ev'.dparity = ev.dparity
  BY <1>3 DEF IntakeTypeOK, Evidence
<1>7. ev' \in Evidence
  <2>1. ev' = [ev EXCEPT !.analysis = a, !.g04 = IF s = "completed" THEN "pending" ELSE @]
    BY <1>3 DEF IntakeTypeOK, Evidence
  <2> HIDE DEF a
  <2> QED
    BY <1>5, <2>1 DEF IntakeTypeOK, Evidence
<1> HIDE DEF a
<1>8. /\ thr' \in [Threads -> IntakeThread]
      /\ \A v \in Threads \ {w} : thr'[v] = thr[v]
      /\ thr'[w].pc = "finish" /\ thr'[w].on = thr[w].on
      /\ thr'[w].code = "completed" => s = "completed"
  <2>1. "finish" \in IntakePc
    BY DEF IntakePc
  <2> QED
    BY <1>3, <2>1, ReportsTyped DEF IntakeTypeOK, IntakeThread
<1>9. seen' \in [Carriers -> Seen]
  BY SeenTyped DEF Model
<1>10. IntakeTypeOK'
  BY <1>1, <1>7, <1>8, <1>9 DEF IntakeTypeOK, RunTypeOK, Seen
<1>11. LateStep(w)
  BY <1>1, <1>6, <1>8, <1>10 DEF LateStep, RunGoesOn
<1>12. ev.discovery = "completed" /\ ev.dparity = "completed"
  BY <1>4, EmptySeq, LenProperties DEF EvidenceInv, AnalysesStand
<1>13. s = "completed" => Chain'
  BY <1>4, <1>5, <1>6, <1>12 DEF Chain
<1>14. Chain => Chain'
  <2>1. ASSUME NEW i \in DOMAIN ev.analysis, ev.analysis[i] = "completed"
        PROVE  a[i] = "completed" /\ i \in DOMAIN a
    BY <1>4, <1>5, <2>1
  <2> QED
    BY <1>6, <2>1 DEF Chain
<1>15. AnalysesStand'
  <2>1. ASSUME NEW i \in DOMAIN a, a[i] = "completed"
        PROVE  ev'.g04 = "pending"
    BY <1>4, <1>5, <1>6, <2>1 DEF EvidenceInv, AnalysesStand
  <2> QED
    BY <1>6, <1>12, <2>1 DEF AnalysesStand
<1>16. AttemptsHaveRows'
  BY <1>1, <1>5, <1>6, <1>8 DEF EvidenceInv, AttemptsHaveRows
<1>17. ReportsStand' /\ CompletedIntakeHasEvidence' /\ FailuresCoded'
  BY <1>1, <1>8, <1>13, <1>14
     DEF EvidenceInv, ReportsStand, CompletedIntakeHasEvidence, FailuresCoded, Chain
<1> QED
  BY <1>2, <1>10, <1>11, <1>15, <1>16, <1>17, LateStepKeeps DEF EvidenceInv

\* The job follows the analysis it is told of.
LEMMA FinishJobKeeps ==
  ASSUME IntakeTypeOK, PhaseInv, EvidenceInv, NEW w \in Threads, FinishJob(w)
  PROVE  IntakeTypeOK' /\ PhaseInv' /\ EvidenceInv'
<1>1. /\ thr[w].pc = "finish" /\ thr[w].on \in Jobs /\ Leaves(w)
      /\ UNCHANGED <<status, ev, claim, reservation, creating, pid, budget>>
  BY DEF FinishJob, At, Kept, IntakeTypeOK, IntakeThread
<1>2. ev.done
  <2> SUFFICES ASSUME ~ev.done
               PROVE  FALSE
    OBVIOUS
  <2> QED
    BY <1>1, TheOnlyOne DEF Works, EarlyPc
<1>3. /\ Outcome(w) \in {"completed", "waiting_retry", "failed"}
      /\ Outcome(w) = "completed" => thr[w].code = "completed"
  BY DEF Outcome
<1>4. /\ job' \in [Jobs -> JobRow]
      /\ \A j \in Jobs \ {thr[w].on} : job'[j] = job[j]
      /\ job'[thr[w].on].status = Outcome(w)
  <2> DEFINE row(r) == [r EXCEPT !.status = Outcome(w),
                                 !.code = IF thr[w].code = "completed" THEN @ ELSE "other"]
  <2>1. \A r \in JobRow : row(r) \in JobRow /\ row(r).status = Outcome(w)
    BY <1>3 DEF JobRow
  <2>2. job' = [job EXCEPT ![thr[w].on] = row(job[thr[w].on])] /\ job \in [Jobs -> JobRow]
    BY DEF FinishJob, IntakeTypeOK
  <2> HIDE DEF row
  <2> QED
    BY <1>1, <2>1, <2>2
<1>5. thr' \in [Threads -> IntakeThread] /\ OnlyMoves(w) /\ seen' \in [Carriers -> Seen]
  BY <1>1, Moved, SeenTyped
<1>6. IntakeTypeOK'
  BY <1>1, <1>4, <1>5 DEF IntakeTypeOK, RunTypeOK, Seen
<1>7. LateStep(w)
  BY <1>1, <1>3, <1>4, <1>5, <1>6 DEF LateStep, RunGoesOn, OnlyMoves, Nil
<1>8. \A j \in Jobs : job'[j].status = "completed" => job[j].status = "completed" \/ Chain
  BY <1>1, <1>3, <1>4 DEF EvidenceInv, ReportsStand
<1>9. EvidenceInv'
  <2>1. AnalysesStand' /\ CompletedIntakeHasEvidence'
    BY <1>1, <1>8 DEF EvidenceInv, AnalysesStand, CompletedIntakeHasEvidence, Chain
  <2>2. /\ thr'[w].pc = "idle" /\ thr'[w].code # "completed"
        /\ \A v \in Threads \ {w} : thr'[v] = thr[v]
    BY <1>1 DEF Leaves, Idle, Nil, IntakeTypeOK
  <2>3. AttemptsHaveRows' /\ ReportsStand' /\ FailuresCoded'
    BY <1>1, <2>2 DEF EvidenceInv, AttemptsHaveRows, ReportsStand, FailuresCoded, Chain
  <2> QED
    BY <2>1, <2>3 DEF EvidenceInv
<1> QED
  BY <1>2, <1>6, <1>7, <1>9, LateStepKeeps

\* The end of retry: a running job completes with the analysis.
LEMMA FinishRetryKeeps ==
  ASSUME IntakeTypeOK, PhaseInv, EvidenceInv, NEW w \in Threads, FinishRetry(w)
  PROVE  IntakeTypeOK' /\ PhaseInv' /\ EvidenceInv'
<1>1. /\ thr[w].pc = "finish" /\ thr[w].on = 0 /\ Leaves(w)
      /\ UNCHANGED <<status, ev, claim, reservation, creating, pid, budget>>
  BY DEF FinishRetry, At, Kept
<1>2. ev.done
  <2> SUFFICES ASSUME ~ev.done
               PROVE  FALSE
    OBVIOUS
  <2> QED
    BY <1>1, TheOnlyOne DEF Works, EarlyPc
<1>4. /\ job' \in [Jobs -> JobRow]
      /\ \A j \in Jobs : \/ job'[j] = job[j]
                         \/ /\ job[j].status = "running" /\ thr[w].code = "completed"
                            /\ job'[j].status = "completed"
  <2> DEFINE row(r) == [r EXCEPT !.status = "completed"]
  <2>1. \A r \in JobRow : row(r) \in JobRow /\ row(r).status = "completed"
    BY DEF JobRow
  <2>2. job' = [j \in Jobs |-> IF job[j].status = "running" /\ thr[w].code = "completed"
                                 THEN row(job[j]) ELSE job[j]] /\ job \in [Jobs -> JobRow]
    BY DEF FinishRetry, IntakeTypeOK
  <2> HIDE DEF row
  <2> QED
    BY <1>1, <2>1, <2>2
<1>5. thr' \in [Threads -> IntakeThread] /\ OnlyMoves(w) /\ seen' \in [Carriers -> Seen]
  BY <1>1, Moved, SeenTyped
<1>6. IntakeTypeOK'
  BY <1>1, <1>4, <1>5 DEF IntakeTypeOK, RunTypeOK, Seen
<1>7. LateStep(w)
  BY <1>1, <1>4, <1>5, <1>6 DEF LateStep, RunGoesOn, OnlyMoves, Nil
<1>8. \A j \in Jobs : job'[j].status = "completed" => job[j].status = "completed" \/ Chain
  BY <1>1, <1>4 DEF EvidenceInv, ReportsStand
<1>9. EvidenceInv'
  <2>1. AnalysesStand' /\ CompletedIntakeHasEvidence'
    BY <1>1, <1>8 DEF EvidenceInv, AnalysesStand, CompletedIntakeHasEvidence, Chain
  <2>2. /\ thr'[w].pc = "idle" /\ thr'[w].code # "completed"
        /\ \A v \in Threads \ {w} : thr'[v] = thr[v]
    BY <1>1 DEF Leaves, Idle, Nil, IntakeTypeOK
  <2>3. AttemptsHaveRows' /\ ReportsStand' /\ FailuresCoded'
    BY <1>1, <2>2 DEF EvidenceInv, AttemptsHaveRows, ReportsStand, FailuresCoded, Chain
  <2> QED
    BY <2>1, <2>3 DEF EvidenceInv
<1> QED
  BY <1>2, <1>6, <1>7, <1>9, LateStepKeeps

-----------------------------------------------------------------------------
(* Requests of the API.                                                    *)

\* A new attempt: no other is live, nobody works on one, no snapshot was taken.
LEMMA QueuedKeeps ==
  ASSUME IntakeTypeOK, PhaseInv, NEW w \in Threads, NEW j \in Jobs, Queued(j, w),
         Phase \in {"CREATED", "FAILED"}, OwnsTarget(Main), Phase = "FAILED" => j # 1,
         \A i \in Jobs : ~Taken(i) /\ ~Live(i),
         \A i \in Jobs : job[i].status = Nil <=> i >= j
  PROVE  Keeps
<1>1. UNCHANGED <<ev, claim, reservation, creating, pid, budget>>
  BY DEF Queued, Kept
<1>2. ~ev.done /\ ev.g02 = Nil
  BY DEF PhaseInv, BeforeSnapshot
<1>3. NothingLater /\ \A v \in Threads : thr[v] = Idle
  <2>1. NothingLater /\ OneThread
    BY <1>2 DEF PhaseInv, Early
  <2> QED
    BY <2>1 DEF OneThread, Works, EarlyPc, Live
<1>4. /\ job' \in [Jobs -> JobRow] /\ job'[j].status = "queued"
      /\ job'[j].code = job[j].code /\ job'[j].failed = job[j].failed
      /\ \A i \in Jobs \ {j} : job'[i] = job[i]
  BY DEF Queued, IntakeTypeOK, JobRow, Claimable
<1> DEFINE given == [Idle EXCEPT !.pc = "handoff", !.on = j]
<1>5. /\ given \in IntakeThread /\ given.pc = "handoff" /\ given.on = j /\ given.code = "none"
  BY DEF Idle, IntakeThread, IntakePc, Nil
<1>6. /\ thr' \in [Threads -> IntakeThread] /\ thr'[w] = given
      /\ \A v \in Threads \ {w} : thr'[v] = Idle
  BY <1>3, <1>5 DEF Queued, IntakeTypeOK
<1> HIDE DEF given
<1>7. /\ Phase' = "SOURCE_VALIDATION_RUNNING" /\ RunTypeOK'
      /\ \A r \in Runs \ {Main} : status'[r] = status[r]
  BY <1>1, IntakeAssumption DEF Queued, RunTo, Phase, IntakeTypeOK, RunTypeOK, RunStatus
<1>8. seen' \in [Carriers -> Seen]
  BY SeenTyped DEF Queued
<1>9. IntakeTypeOK'
  BY <1>1, <1>4, <1>6, <1>7, <1>8 DEF IntakeTypeOK, Seen
<1>10. Quiet
  BY <1>1, <1>3, <1>4, <1>5, <1>6 DEF Quiet
<1>11. \A i \in Jobs : ~Taken(i)' /\ (Live(i)' <=> i = j)
  BY <1>1, <1>4 DEF Taken, Live
<1>12. Ownership'
  <2>1. /\ claim \in [Targets -> Runs \cup {Nil}]
        /\ creating \subseteq [run : Runs, owner : Runs \cup {Nil}]
    BY DEF IntakeTypeOK, RunTypeOK
  <2>2. \A r \in Runs : (Retried(r) => Retried(r)') /\ (status'[r] = Nil <=> status[r] = Nil)
    BY <1>4, <1>7 DEF Retried, Phase, Nil
  <2>3. MutatingRunOwnsTarget'
    BY <1>1, <1>7, <2>2 DEF PhaseInv, Ownership, MutatingRunOwnsTarget, OwnsTarget
  <2>4. RequestsAreNew' /\ \A t \in Targets : claim'[t] # Nil => status'[claim'[t]] # Nil
    BY <1>1, <2>1, <2>2 DEF PhaseInv, Ownership, RequestsAreNew
  <2>5. Phase = "CREATED" \/ Retried(Main)'
    BY <1>4 DEF Retried, Nil
  <2>6. OwnersAtRest'
    <3> SUFFICES ASSUME NEW c \in creating, c.owner # Nil
                 PROVE  Retried(c.owner)' \/ status'[c.owner] \notin Mutating \cup {Nil}
      BY <1>1 DEF OwnersAtRest
    <3>1. /\ c.owner \in Runs
          /\ Retried(c.owner) \/ status[c.owner] \notin Mutating \cup {Nil}
      BY <2>1 DEF PhaseInv, Ownership, OwnersAtRest
    <3>2. CASE c.owner = Main
      BY <2>2, <2>5, <3>1, <3>2 DEF Phase, Mutating
    <3>3. CASE c.owner # Main
      BY <1>7, <2>2, <3>1, <3>3
    <3> QED
      BY <3>2, <3>3
  <2> QED
    BY <2>3, <2>4, <2>6 DEF Ownership
<1>14. AttemptsInOrder'
  BY <1>4 DEF PhaseInv, AttemptsInOrder, Nil, Jobs
<1>15. Early'
  <2>1. NothingLater'
    BY <1>1, <1>3, <1>4 DEF NothingLater
  <2>2. Works(w)'
    BY <1>4, <1>5, <1>6 DEF Works, EarlyPc
  <2>3. OneThread'
    BY <1>6, <2>2 DEF OneThread
  <2>4. OneJob'
    BY <1>4, <1>11 DEF OneJob, PhaseInv, AttemptsInOrder, Jobs
  <2> QED
    BY <2>1, <2>3, <2>4 DEF Early
<1>16. BeforeSnapshot'
  BY <1>1, <1>2, <1>7, <1>11 DEF BeforeSnapshot, Nil
<1>17. AfterSnapshot'
  BY <1>11 DEF AfterSnapshot
<1> QED
  BY <1>9, <1>10, <1>12, <1>14, <1>15, <1>16, <1>17 DEF Keeps, PhaseInv

\* start, for a run that was just made.
LEMMA StartKeeps ==
  ASSUME IntakeTypeOK, PhaseInv, NEW w \in Threads, Start(w)
  PROVE  Keeps
<1>1. 1 \in Jobs /\ \A i \in Jobs : i >= 1
  BY IntakeAssumption DEF Jobs
<1>2. \A i \in Jobs : ~Taken(i)
  BY DEF Start, PhaseInv, AfterSnapshot, Phase
<1>3. \A i \in Jobs : job[i].status = Nil /\ ~Live(i)
  BY <1>2 DEF Start, PhaseInv, BeforeSnapshot, Phase, Live, Nil
<1> QED
  BY <1>1, <1>2, <1>3, QueuedKeeps DEF Start, Phase

\* retry, after an attempt whose failure allows it: it took no snapshot.
LEMMA RetryIntakeKeeps ==
  ASSUME IntakeTypeOK, PhaseInv, NEW w \in Threads, RetryIntake(w)
  PROVE  Keeps
<1>1. PICK j \in Jobs \ {MaxAttempts} :
        /\ job[j].status = "failed" /\ job[j].code = "retryable"
        /\ job[j + 1].status = Nil
        /\ Queued(j + 1, w)
  BY DEF RetryIntake
<1>2. Phase = "FAILED" /\ OwnsTarget(Main)
  BY DEF RetryIntake, Phase
<1>3. j + 1 \in Jobs /\ j + 1 # 1 /\ j < j + 1 /\ \A i \in Jobs : i > j => i = j + 1 \/ j + 1 < i
  BY IntakeAssumption DEF Jobs
<1>4. \A i \in Jobs : job[i].status = Nil <=> i >= j + 1
  BY <1>1, <1>3 DEF PhaseInv, AttemptsInOrder, Nil, Jobs
<1>5. \A i \in Jobs : ~Taken(i)
  <2> SUFFICES ASSUME NEW i \in Jobs, Taken(i)
               PROVE  FALSE
    OBVIOUS
  <2>1. /\ job[i].code # "retryable" /\ job[i].status # Nil
        /\ \A k \in Jobs : k > i => job[k].status = Nil
    BY <1>2 DEF PhaseInv, AfterSnapshot, Jobs
  <2>2. i < j
    BY <1>1, <1>4, <2>1 DEF Jobs
  <2> QED
    BY <1>1, <2>1, <2>2 DEF Nil, Jobs
<1>6. \A i \in Jobs : ~Live(i)
  BY <1>2, <1>5 DEF PhaseInv, BeforeSnapshot
<1> QED
  BY <1>1, <1>2, <1>3, <1>4, <1>5, <1>6, QueuedKeeps

\* A request that leaves the intake alone and the run to what it is, or creates or cancels it.
LEMMA RunRequestKeeps ==
  ASSUME IntakeTypeOK, PhaseInv, UNCHANGED <<job, thr, ev>>,
         Ownership',
         \/ Phase' = Phase
         \/ Phase = Nil /\ Phase' = "CREATED"
         \/ Phase \in Cancellable /\ Phase' = "CANCELLED"
  PROVE  PhaseInv'
<1>1. \A j \in Jobs : (Taken(j)' <=> Taken(j)) /\ (Live(j)' <=> Live(j))
  BY DEF Taken, Live
<1>2. AttemptsInOrder'
  BY DEF PhaseInv, AttemptsInOrder
<1>3. Early'
  <2>1. NothingLater' <=> NothingLater
    BY DEF NothingLater
  <2>2. OneThread' <=> OneThread
    BY DEF OneThread, Works, Taken, Live
  <2>3. OneJob' <=> OneJob
    BY DEF OneJob, Live
  <2> QED
    BY <2>1, <2>2, <2>3 DEF PhaseInv, Early
<1>4. BeforeSnapshot'
  <2>1. CASE \E j \in Jobs : Taken(j)
    BY <1>1, <2>1 DEF BeforeSnapshot
  <2>2. CASE \A j \in Jobs : ~Taken(j)
    <3>1. Phase \in {Nil, "CREATED"} => \A j \in Jobs : job[j].status = Nil /\ ~Live(j)
      BY <2>2 DEF PhaseInv, BeforeSnapshot, Live, Nil
    <3>2. Phase # "SOURCE_VALIDATED"
      BY <2>2 DEF PhaseInv, BeforeSnapshot, Nil
    <3> QED
      BY <1>1, <2>2, <3>1, <3>2 DEF PhaseInv, BeforeSnapshot, Cancellable, Nil
  <2> QED
    BY <2>1, <2>2
<1>5. AfterSnapshot'
  BY <1>1 DEF PhaseInv, AfterSnapshot, Nil
<1> QED
  BY <1>2, <1>3, <1>4, <1>5 DEF PhaseInv

\* cancel, between start's commits or after the snapshot.
LEMMA CancelRunKeeps ==
  ASSUME IntakeTypeOK, PhaseInv, NEW r \in Runs, CancelRun(r), UNCHANGED <<job, thr, ev>>
  PROVE  PhaseInv' /\ RunTypeOK'
<1>1. RunTypeOK'
  BY DEF CancelRun, IntakeTypeOK, RunTypeOK, RunStatus, Cancellable
<1>2. status'[r] = "CANCELLED" /\ \A q \in Runs \ {r} : status'[q] = status[q]
  BY DEF CancelRun, IntakeTypeOK, RunTypeOK
<1>3. Ownership'
  <2>1. /\ claim \in [Targets -> Runs \cup {Nil}] /\ creating' = creating
        /\ creating \subseteq [run : Runs, owner : Runs \cup {Nil}]
        /\ \A t \in Targets : claim'[t] = IF claim[t] = r THEN Nil ELSE claim[t]
    BY DEF CancelRun, IntakeTypeOK, RunTypeOK
  <2>2. \A q \in Runs : Retried(q)' <=> Retried(q)
    BY DEF Retried
  <2>3. status[r] # Nil /\ status'[r] \notin Mutating \cup {Nil}
    BY <1>2 DEF Mutating, Nil, CancelRun, Cancellable
  <2>4. MutatingRunOwnsTarget'
    <3> SUFFICES ASSUME NEW q \in Runs, status'[q] \in Mutating
                 PROVE  OwnsTarget(q)' \/ Retried(q)'
      BY DEF MutatingRunOwnsTarget
    <3>1. q # r /\ (OwnsTarget(q) \/ Retried(q))
      BY <1>2, <2>3 DEF PhaseInv, Ownership, MutatingRunOwnsTarget
    <3>2. OwnsTarget(q) => OwnsTarget(q)'
      BY <3>1, OwnershipAssumption DEF CancelRun, OwnsTarget
    <3> QED
      BY <2>2, <3>1, <3>2
  <2>5. RequestsAreNew'
    BY <1>2, <2>1, <2>3 DEF PhaseInv, Ownership, RequestsAreNew
  <2>6. OwnersAtRest'
    <3> SUFFICES ASSUME NEW c \in creating, c.owner # Nil
                 PROVE  Retried(c.owner)' \/ status'[c.owner] \notin Mutating \cup {Nil}
      BY <2>1 DEF OwnersAtRest
    <3>1. /\ c.owner \in Runs
          /\ Retried(c.owner) \/ status[c.owner] \notin Mutating \cup {Nil}
      BY <2>1 DEF PhaseInv, Ownership, OwnersAtRest
    <3> QED
      BY <1>2, <2>2, <2>3, <3>1
  <2>7. ASSUME NEW t \in Targets, claim'[t] # Nil
        PROVE  status'[claim'[t]] # Nil
    <3>1. claim'[t] = claim[t] /\ claim[t] \in Runs /\ claim[t] # r /\ status[claim[t]] # Nil
      BY <2>1, <2>7 DEF PhaseInv, Ownership
    <3> QED
      BY <1>2, <3>1
  <2> QED
    BY <2>4, <2>5, <2>6, <2>7 DEF Ownership
<1>5. Phase' = Phase \/ (Phase \in Cancellable /\ Phase' = "CANCELLED")
  BY <1>2, IntakeAssumption DEF Phase, CancelRun
<1> QED
  BY <1>1, <1>3, <1>5, RunRequestKeeps

\* cancel of the run itself, which may not have a command at work.
LEMMA CancelMainKeeps ==
  ASSUME IntakeTypeOK, PhaseInv, CancelMain
  PROVE  Keeps
<1>1. PhaseInv' /\ RunTypeOK'
  BY CancelRunKeeps, IntakeAssumption DEF CancelMain
<1>2. seen' \in [Carriers -> Seen]
  BY SeenTyped DEF CancelMain
<1>3. budget' \in 0..MaxInterference
  BY IntakeAssumption DEF CancelMain, Interferes, IntakeTypeOK
<1> QED
  BY <1>1, <1>2, <1>3 DEF CancelMain, Keeps, IntakeTypeOK, Quiet, Seen

\* create and cancel of any run: the first of two requests for a target gets it.
LEMMA CompeteKeeps ==
  ASSUME IntakeTypeOK, PhaseInv, Compete
  PROVE  Keeps
<1>1. UNCHANGED <<job, thr, seen, ev, pid, budget>>
  BY DEF Compete, workVars
<1>2. /\ claim \in [Targets -> Runs \cup {Nil}] /\ Nil \notin Runs
      /\ creating \subseteq [run : Runs, owner : Runs \cup {Nil}]
      /\ \A q \in Runs : TargetOf[q] \in Targets /\ (Retried(q)' <=> Retried(q))
  BY <1>1, OwnershipAssumption DEF IntakeTypeOK, RunTypeOK, Retried
<1>3. ASSUME NEW r \in Runs, CreateChecks(r)
      PROVE  Keeps
  <2> DEFINE asked == [run |-> r, owner |-> claim[TargetOf[r]]]
  <2>1. /\ UNCHANGED <<status, claim, reservation>> /\ creating' = creating \cup {asked}
        /\ status[r] = Nil /\ \A q \in Runs : status[q] \notin Mutating
        /\ \A c \in creating : c.run # r
    BY <1>3 DEF CreateChecks
  <2>2. asked \in [run : Runs, owner : Runs \cup {Nil}] /\ asked.run = r
        /\ asked.owner = claim[TargetOf[r]]
    BY <1>2
  <2> HIDE DEF asked
  <2>3. RunTypeOK' /\ Phase' = Phase
    BY <1>2, <2>1, <2>2 DEF IntakeTypeOK, RunTypeOK, Phase
  <2>4. Ownership'
    <3>1. MutatingRunOwnsTarget' /\ RequestsAreNew'
      BY <2>1, <2>2 DEF PhaseInv, Ownership, MutatingRunOwnsTarget, RequestsAreNew
    <3>2. asked.owner # Nil => status[asked.owner] \notin Mutating \cup {Nil}
      BY <1>2, <2>1, <2>2 DEF PhaseInv, Ownership
    <3>3. OwnersAtRest'
      BY <1>2, <2>1, <3>2 DEF PhaseInv, Ownership, OwnersAtRest
    <3> QED
      BY <2>1, <3>1, <3>3 DEF PhaseInv, Ownership
  <2> QED
    BY <1>1, <2>3, <2>4, RunRequestKeeps DEF Keeps, IntakeTypeOK, Quiet
<1>4. ASSUME NEW c \in creating, CreateRun(c)
      PROVE  Keeps
  <2>1. c.run \in Runs /\ c.owner \in Runs \cup {Nil} /\ status[c.run] = Nil
        /\ creating' = creating \ {c} /\ \A d \in creating' : d.run # c.run
    BY <1>2, <1>4 DEF CreateRun, PhaseInv, Ownership, RequestsAreNew
  <2>2. CASE TargetTaken(c)
    <3>1. UNCHANGED <<status, claim, reservation>>
      BY <1>4, <2>2 DEF CreateRun
    <3>2. RunTypeOK' /\ Phase' = Phase
      BY <2>1, <3>1 DEF IntakeTypeOK, RunTypeOK, Phase
    <3>3. Ownership'
      BY <1>2, <2>1, <3>1
         DEF PhaseInv, Ownership, MutatingRunOwnsTarget, OwnsTarget, RequestsAreNew, OwnersAtRest
    <3> QED
      BY <1>1, <3>2, <3>3, RunRequestKeeps DEF Keeps, IntakeTypeOK, Quiet
  <2>3. CASE ~TargetTaken(c)
    <3>1. /\ status' = [status EXCEPT ![c.run] = "CREATED"]
          /\ claim' = [claim EXCEPT ![TargetOf[c.run]] = c.run]
          /\ reservation' = [reservation EXCEPT ![TargetOf[c.run]] = "claimed"]
      BY <1>4, <2>3 DEF CreateRun
    <3>2. RunTypeOK'
      BY <1>2, <2>1, <3>1 DEF IntakeTypeOK, RunTypeOK, RunStatus
    <3>3. /\ status'[c.run] = "CREATED" /\ \A q \in Runs \ {c.run} : status'[q] = status[q]
          /\ OwnsTarget(c.run)'
          /\ \A q \in Runs : TargetOf[q] # TargetOf[c.run] /\ OwnsTarget(q) => OwnsTarget(q)'
      BY <1>2, <2>1, <3>1 DEF OwnsTarget, IntakeTypeOK, RunTypeOK
    <3>4. MutatingRunOwnsTarget'
      <4> SUFFICES ASSUME NEW q \in Runs, status'[q] \in Mutating, ~Retried(q), q # c.run
                   PROVE  OwnsTarget(q)'
        BY <1>2, <3>3 DEF MutatingRunOwnsTarget
      <4>1. OwnsTarget(q) /\ status[q] \in Mutating
        BY <3>3 DEF PhaseInv, Ownership, MutatingRunOwnsTarget
      <4>2. q # c.owner
        BY <1>2, <4>1 DEF PhaseInv, Ownership, OwnersAtRest
      <4>3. TargetOf[q] # TargetOf[c.run]
        BY <1>2, <2>3, <4>1, <4>2 DEF TargetTaken, OwnsTarget
      <4> QED
        BY <3>3, <4>1, <4>3
    <3>5. RequestsAreNew'
      BY <1>2, <2>1, <3>3 DEF PhaseInv, Ownership, RequestsAreNew
    <3>6. OwnersAtRest'
      <4> SUFFICES ASSUME NEW d \in creating, d.owner # Nil
                   PROVE  Retried(d.owner)' \/ status'[d.owner] \notin Mutating \cup {Nil}
        BY <2>1 DEF OwnersAtRest
      <4>1. /\ d.owner \in Runs
            /\ Retried(d.owner) \/ status[d.owner] \notin Mutating \cup {Nil}
        BY <1>2 DEF PhaseInv, Ownership, OwnersAtRest
      <4> QED
        BY <1>2, <2>1, <3>3, <4>1
    <3>7. \A t \in Targets : claim'[t] # Nil => status'[claim'[t]] # Nil
      BY <1>2, <2>1, <3>1, <3>3 DEF PhaseInv, Ownership, Nil
    <3>8. Phase' = Phase \/ (Phase = Nil /\ Phase' = "CREATED")
      BY <2>1, <3>3, IntakeAssumption DEF Phase
    <3>9. Ownership'
      BY <3>4, <3>5, <3>6, <3>7 DEF Ownership
    <3> QED
      BY <1>1, <3>2, <3>8, <3>9, RunRequestKeeps DEF Keeps, IntakeTypeOK, Quiet
  <2> QED
    BY <2>2, <2>3
<1>5. ASSUME NEW r \in Runs, CancelRun(r)
      PROVE  Keeps
  BY <1>1, <1>5, CancelRunKeeps DEF Keeps, IntakeTypeOK, Quiet
<1> QED
  BY <1>3, <1>4, <1>5 DEF Compete

\* The evidence that a decision at G02, npm ci or a change of the source leaves alone.
SideEvidence ==
  /\ ev' \in Evidence /\ ev'.snapshot = ev.snapshot /\ ev'.done = ev.done
  /\ ev'.assessment = ev.assessment /\ ev'.parity = ev.parity /\ ev'.g04 = ev.g04
  /\ ev'.analysis = ev.analysis /\ ev'.approvedG03 = ev.approvedG03
  /\ ev'.discovery = ev.discovery /\ ev'.dparity = ev.dparity

\* decide at G02: there is a snapshot, so the run may be held.
LEMMA DecideG02Keeps ==
  ASSUME IntakeTypeOK, PhaseInv, NEW approve \in BOOLEAN, DecideG02(approve)
  PROVE  Keeps
<1>1. UNCHANGED <<job, thr, claim, reservation, creating, pid>>
  BY DEF DecideG02
<1>2. \E j \in Jobs : Taken(j)
  BY DEF DecideG02, LatestSnapshotCreated, Taken, PhaseInv, BeforeSnapshot
<1>3. \/ ev' = [ev EXCEPT !.g02 = "stale"]
      \/ \E v \in BOOLEAN, s \in {"stale", "approved", "rejected"}, f \in BOOLEAN :
           ev' = [ev EXCEPT !.verified = v, !.g02 = s, !.refused = f]
  <2>1. (~ev.drifted) \in BOOLEAN /\ (ev.refused \/ ~approve) \in BOOLEAN
    BY Zenon
  <2>2. \/ ev' = [ev EXCEPT !.g02 = "stale"]
        \/ ev' = [ev EXCEPT !.verified = ~ev.drifted,
                            !.g02 = IF approve THEN IF ev.drifted THEN "stale" ELSE "approved"
                                               ELSE "rejected",
                            !.refused = @ \/ ~approve]
    BY DEF DecideG02
  <2>3. (IF approve THEN IF ev.drifted THEN "stale" ELSE "approved" ELSE "rejected")
          \in {"stale", "approved", "rejected"}
    OBVIOUS
  <2> QED
    BY <2>1, <2>2, <2>3 DEF IntakeTypeOK, Evidence
<1>4. SideEvidence
  <2>1. CASE ev' = [ev EXCEPT !.g02 = "stale"]
    BY <2>1 DEF SideEvidence, IntakeTypeOK, Evidence
  <2>2. ASSUME NEW v \in BOOLEAN, NEW s \in {"stale", "approved", "rejected"}, NEW f \in BOOLEAN,
               ev' = [ev EXCEPT !.verified = v, !.g02 = s, !.refused = f]
        PROVE  SideEvidence
    BY <2>2 DEF SideEvidence, IntakeTypeOK, Evidence
  <2> QED
    BY <1>3, <2>1, <2>2
<1>5. RunGoesOn
  BY DEF DecideG02, RunGoesOn, RunTo
<1>6. seen' \in [Carriers -> Seen]
  BY SeenTyped DEF DecideG02, UserMoves
<1>7. budget' \in 0..MaxInterference
  BY IntakeAssumption DEF DecideG02, FirstOrInterferes, Interferes, IntakeTypeOK
<1>8. IntakeTypeOK'
  BY <1>1, <1>4, <1>5, <1>6, <1>7
     DEF SideEvidence, IntakeTypeOK, RunTypeOK, RunGoesOn, RunStatus, Seen
<1>9. PhaseInv'
  BY <1>1, <1>2, <1>4, <1>5, SideStepKeeps DEF SideEvidence
<1> QED
  BY <1>1, <1>4, <1>8, <1>9 DEF SideEvidence, Keeps, Quiet

\* A request after the end of the intake that moves no thread but may start one.
LEMMA LateRequestKeeps ==
  ASSUME IntakeTypeOK, PhaseInv, ev.done, NEW w \in Threads, IntakeTypeOK',
         UNCHANGED <<claim, reservation, creating>>, EvKept, RunGoesOn,
         \A v \in Threads \ {w} : thr'[v] = thr[v],
         \/ thr'[w] = thr[w]
         \/ /\ thr'[w].on = 0 /\ thr'[w].pc \in {"resume_call", "analysis"}
            /\ thr'[w].code = "none",
         \A j \in Jobs : \/ job'[j] = job[j]
                         \/ job[j].status = "waiting_retry" /\ job'[j].status = "running"
  PROVE  Keeps
<1>1. thr[w].pc \notin {"handoff", "copy"}
  BY DEF PhaseInv, BeforeSnapshot, AfterSnapshot
<1>2. LateStep(w)
  BY <1>1 DEF LateStep, EvKept, Nil
<1>3. Quiet
  BY DEF Quiet, EvKept
<1> QED
  BY <1>2, <1>3, LateStepKeeps DEF Keeps

\* decide at G03, before resume_after_g03 is called.
LEMMA ApproveG03Keeps ==
  ASSUME IntakeTypeOK, PhaseInv, NEW w \in Threads, ApproveG03(w)
  PROVE  Keeps
<1>1. UNCHANGED <<job, claim, reservation, creating, pid>>
  BY DEF ApproveG03
<1>2. ev.done
  BY DEF ApproveG03, PhaseInv, Early, NothingLater, Nil
<1>3. EvKept
  BY DEF ApproveG03, EvKept, IntakeTypeOK, Evidence
<1>4. RunGoesOn
  BY DEF ApproveG03, RunGoesOn, RunTo
<1> DEFINE calling == [Idle EXCEPT !.pc = "resume_call"]
<1>5. /\ calling \in IntakeThread /\ calling.pc = "resume_call" /\ calling.on = 0
      /\ calling.code = "none"
  BY DEF Idle, IntakeThread, IntakePc, Nil
<1>6. /\ thr' \in [Threads -> IntakeThread] /\ thr'[w] = calling
      /\ \A v \in Threads \ {w} : thr'[v] = thr[v]
  BY <1>5 DEF ApproveG03, IntakeTypeOK
<1> HIDE DEF calling
<1>7. seen' \in [Carriers -> Seen] /\ budget' \in 0..MaxInterference
  BY SeenTyped, IntakeAssumption
     DEF ApproveG03, UserMoves, FirstOrInterferes, Interferes, IntakeTypeOK
<1>8. IntakeTypeOK'
  BY <1>1, <1>3, <1>4, <1>6, <1>7
     DEF IntakeTypeOK, RunTypeOK, RunGoesOn, RunStatus, EvKept, Seen
<1> QED
  BY <1>1, <1>2, <1>3, <1>4, <1>5, <1>6, <1>8, LateRequestKeeps

\* A rejection at G03 withdraws nothing.
LEMMA RejectG03Keeps ==
  ASSUME IntakeTypeOK, PhaseInv, RejectG03
  PROVE  Keeps
<1>1. UNCHANGED <<status, ev, job, thr, claim, reservation, creating, pid>>
  BY DEF RejectG03
<1>2. seen' \in [Carriers -> Seen] /\ budget' \in 0..MaxInterference
  BY SeenTyped, IntakeAssumption DEF RejectG03, UserMoves, Interferes, IntakeTypeOK
<1>3. IntakeTypeOK' /\ Quiet
  BY <1>1, <1>2 DEF IntakeTypeOK, RunTypeOK, Seen, Quiet
<1>4. PhaseInv'
  BY <1>1, SideStepKeeps
<1> QED
  BY <1>3, <1>4 DEF Keeps

\* Parity captured again, the baseline qualified again.
LEMMA RecaptureKeeps ==
  ASSUME IntakeTypeOK, PhaseInv, Recapture \/ Requalify
  PROVE  Keeps
<1>1. UNCHANGED <<job, thr, claim, reservation, creating, pid>>
  BY DEF Recapture, Requalify
<1>2. ev.done
  BY DEF Recapture, Requalify, PhaseInv, Early, NothingLater
<1>3. RunGoesOn
  BY DEF Recapture, Requalify, Qualified, RunGoesOn, RunTo
<1>4. EvKept
  <2>1. CASE Requalify
    <3>1. \E a \in {"qualified", "blocked"} : ev' = [ev EXCEPT !.assessment = a]
      BY <2>1 DEF Requalify, Qualified
    <3> QED
      BY <3>1 DEF EvKept, IntakeTypeOK, Evidence
  <2>2. CASE Recapture
    <3>1. PICK a \in {Nil, "stale"}, g \in {Nil, "approved", "stale"} :
            ev' = [ev EXCEPT !.assessment = a, !.g03 = g]
      BY <2>2 DEF Recapture, IntakeTypeOK, Evidence
    <3>2. ev' \in Evidence
      BY <3>1 DEF IntakeTypeOK, Evidence
    <3> QED
      BY <3>1, <3>2 DEF EvKept, IntakeTypeOK, Evidence
  <2> QED
    BY <2>1, <2>2
<1>5. seen' \in [Carriers -> Seen] /\ budget' \in 0..MaxInterference
  BY SeenTyped, IntakeAssumption
     DEF Recapture, Requalify, UserMoves, Interferes, IntakeTypeOK, Seen
<1>6. IntakeTypeOK'
  BY <1>1, <1>3, <1>4, <1>5 DEF IntakeTypeOK, RunTypeOK, RunGoesOn, RunStatus, EvKept, Seen
<1>7. PICK w \in Threads : TRUE
  BY IntakeAssumption
<1> QED
  BY <1>1, <1>2, <1>3, <1>4, <1>6, LateRequestKeeps

\* retry of an analysis.
LEMMA RetryAnalysisKeeps ==
  ASSUME IntakeTypeOK, PhaseInv, NEW w \in Threads, RetryAnalysis(w)
  PROVE  Keeps
<1>1. UNCHANGED <<status, ev, claim, reservation, creating, pid>>
  BY DEF RetryAnalysis
<1>2. ev.done
  BY EmptySeq, LenProperties
     DEF RetryAnalysis, PhaseInv, Early, NothingLater, IntakeTypeOK, Evidence
<1>3. EvKept /\ RunGoesOn
  BY <1>1 DEF EvKept, RunGoesOn, IntakeTypeOK
<1>4. /\ job' \in [Jobs -> JobRow]
      /\ \A j \in Jobs : \/ job'[j] = job[j]
                         \/ job[j].status = "waiting_retry" /\ job'[j].status = "running"
  <2> DEFINE row(r) == [r EXCEPT !.status = "running"]
  <2>1. \A r \in JobRow : row(r) \in JobRow /\ row(r).status = "running"
    BY DEF JobRow
  <2>2. job' = [j \in Jobs |-> IF job[j].status = "waiting_retry" THEN row(job[j]) ELSE job[j]]
        /\ job \in [Jobs -> JobRow]
    BY DEF RetryAnalysis, IntakeTypeOK
  <2> HIDE DEF row
  <2> QED
    BY <2>1, <2>2
<1> DEFINE asking == [Idle EXCEPT !.pc = "analysis"]
<1>5. /\ asking \in IntakeThread /\ asking.pc = "analysis" /\ asking.on = 0
      /\ asking.code = "none"
  BY DEF Idle, IntakeThread, IntakePc, ReadsVersion, Nil
<1>6. /\ thr' \in [Threads -> IntakeThread] /\ thr'[w] = asking
      /\ \A v \in Threads \ {w} : thr'[v] = thr[v]
  BY <1>5 DEF RetryAnalysis, IntakeTypeOK
<1> HIDE DEF asking
<1>7. seen' \in [Carriers -> Seen] /\ budget' \in 0..MaxInterference
  BY SeenTyped, IntakeAssumption DEF RetryAnalysis, Interferes, IntakeTypeOK
<1>8. IntakeTypeOK'
  BY <1>1, <1>4, <1>6, <1>7 DEF IntakeTypeOK, RunTypeOK, Seen
<1> QED
  BY <1>1, <1>2, <1>3, <1>4, <1>5, <1>6, <1>8, LateRequestKeeps

\* The steps of npm ci and the changes of the source.
LEMMA OutsideKeeps ==
  ASSUME IntakeTypeOK, PhaseInv, NpmStart \/ NpmOutput \/ NpmEnd \/ Drift
  PROVE  Keeps
<1>1. UNCHANGED <<status, job, thr, claim, reservation, creating, pid>>
  BY DEF NpmStart, NpmOutput, NpmEnd, Drift, NpmMoves, Kept, runVars
<1>2. \/ \E s \in {"running", "succeeded", "failed"} : ev' = [ev EXCEPT !.command = s]
      \/ ev' = [ev EXCEPT !.drifted = TRUE]
  BY DEF NpmStart, NpmOutput, NpmEnd, Drift, NpmMoves
<1>3. SideEvidence /\ ev'.g02 = ev.g02
  <2>1. ASSUME NEW s \in {"running", "succeeded", "failed"}, ev' = [ev EXCEPT !.command = s]
        PROVE  SideEvidence /\ ev'.g02 = ev.g02
    BY <2>1 DEF SideEvidence, IntakeTypeOK, Evidence
  <2>2. CASE ev' = [ev EXCEPT !.drifted = TRUE]
    BY <2>2 DEF SideEvidence, IntakeTypeOK, Evidence
  <2> QED
    BY <1>2, <2>1, <2>2
<1>4. seen' \in [Carriers -> Seen] /\ budget' \in 0..MaxInterference
  BY SeenTyped, IntakeAssumption
     DEF NpmStart, NpmOutput, NpmEnd, Drift, NpmMoves, MovesRun, Kept, Interferes, IntakeTypeOK,
         Carriers, Seen
<1>5. IntakeTypeOK' /\ Quiet
  BY <1>1, <1>3, <1>4 DEF SideEvidence, IntakeTypeOK, RunTypeOK, Seen, Quiet
<1>6. PhaseInv'
  BY <1>1, <1>3, SideStepKeeps DEF SideEvidence
<1> QED
  BY <1>5, <1>6 DEF Keeps

\* What recover makes of a job: one that ran goes on, waits or fails, the others stay.
LEMMA RecoveredTyped ==
  ASSUME IntakeTypeOK, NEW p \in Pids, NEW j \in Jobs
  PROVE  /\ Recovered(j, p) \in JobRow
         /\ Recovered(j, p).code = job[j].code /\ Recovered(j, p).failed = job[j].failed
         /\ \/ Recovered(j, p) = job[j]
            \/ /\ job[j].status = "running"
               /\ Recovered(j, p).status \in {"waiting_retry", "failed", "waiting_g03", "queued"}
               /\ (ev.analysis = <<>> /\ ~ev.approvedG03) => Recovered(j, p).status = "queued"
<1> DEFINE s == CASE LatestAnalysis = "failed_retryable" -> "waiting_retry"
                  [] LatestAnalysis = "failed" -> "failed"
                  [] OTHER -> IF ev.approvedG03 THEN "waiting_g03" ELSE "queued"
<1>1. s \in {"waiting_retry", "failed", "waiting_g03", "queued"}
  OBVIOUS
<1>2. (ev.analysis = <<>> /\ ~ev.approvedG03) => s = "queued"
  BY DEF LatestAnalysis, Nil
<1>3. Recovered(j, p) = IF job[j].status = "running" /\ job[j].pid # p
                          THEN [job[j] EXCEPT !.status = s] ELSE job[j]
  BY DEF Recovered
<1> HIDE DEF s
<1>4. job[j] \in JobRow
  BY DEF IntakeTypeOK
<1> QED
  BY <1>1, <1>2, <1>3, <1>4 DEF JobRow, Claimable

\* The process dies and another one starts.
LEMMA RestartKeeps ==
  ASSUME IntakeTypeOK, PhaseInv, NEW p \in Pids, Restart(p)
  PROVE  Keeps
<1>1. /\ UNCHANGED <<status, claim, reservation>> /\ creating' = {} /\ pid' = p
      /\ job' = [j \in Jobs |-> Recovered(j, p)]
      /\ ev' = [ev EXCEPT !.command = IF @ \in {"pending", "running"} THEN "failed" ELSE @]
      /\ seen' = [c \in Carriers |-> "old"]
      /\ budget' \in 0..MaxInterference
  BY IntakeAssumption DEF Restart, Interferes, IntakeTypeOK
<1> DEFINE claiming == [Idle EXCEPT !.pc = "claim"]
<1>2. /\ claiming \in IntakeThread /\ claiming.pc = "claim" /\ claiming.on = 0
      /\ claiming.code = "none"
      /\ Idle \in IntakeThread /\ Idle.pc = "idle" /\ Idle.on = 0 /\ Idle.code = "none"
  BY DEF Idle, IntakeThread, IntakePc, Nil
<1> DEFINE first == CHOOSE w \in Threads : TRUE
<1>3. /\ \A v \in Threads : thr'[v] = Idle \/ (v = first /\ thr'[v] = claiming)
      /\ \A v \in Threads : thr'[v] = claiming => \E j \in Jobs : job'[j].status \in Claimable
      /\ thr' \in [Threads -> IntakeThread]
  BY <1>2 DEF Restart
<1> HIDE DEF claiming, first
<1>4. \A j \in Jobs :
        /\ job'[j] \in JobRow /\ job'[j].code = job[j].code /\ job'[j].failed = job[j].failed
        /\ \/ job'[j] = job[j]
           \/ /\ job[j].status = "running"
              /\ job'[j].status \in {"waiting_retry", "failed", "waiting_g03", "queued"}
              /\ (ev.analysis = <<>> /\ ~ev.approvedG03) => job'[j].status = "queued"
  BY <1>1, RecoveredTyped
<1>5. job' \in [Jobs -> JobRow]
  BY <1>1, <1>4
<1>6. EvKept /\ ev'.assessment = ev.assessment /\ ev'.parity = ev.parity /\ ev'.g02 = ev.g02
      /\ ev'.approvedG03 = ev.approvedG03
  <2>1. PICK c \in {Nil, "pending", "running", "succeeded", "failed"} :
          ev' = [ev EXCEPT !.command = c]
    BY <1>1 DEF IntakeTypeOK, Evidence
  <2>2. ev' \in Evidence
    BY <2>1 DEF IntakeTypeOK, Evidence
  <2> QED
    BY <2>1, <2>2 DEF EvKept, IntakeTypeOK, Evidence
<1>7. IntakeTypeOK'
  BY <1>1, <1>3, <1>5, <1>6 DEF IntakeTypeOK, RunTypeOK, EvKept
<1>8. Quiet
  <2>1. \A j \in Jobs : job'[j].status = "completed" => job[j].status = "completed"
    BY <1>4
  <2>2. \A v \in Threads : thr'[v].pc \in {"idle", "claim"} /\ thr'[v].code = "none"
    BY <1>2, <1>3
  <2> QED
    BY <1>6, <2>1, <2>2 DEF Quiet, EvKept
<1>9. Ownership'
  <2>1. AttemptsStay
    BY <1>4 DEF AttemptsStay, Nil
  <2> QED
    BY <1>1, <2>1, OwnershipKept DEF PhaseInv, NoneStarts
<1>10. AttemptsInOrder'
  <2>1. \A j \in Jobs : job'[j].status = Nil <=> job[j].status = Nil
    BY <1>4 DEF Nil
  <2> QED
    BY <1>4, <2>1 DEF PhaseInv, AttemptsInOrder
<1>11. \A j \in Jobs : Taken(j)' <=> Taken(j)
  BY <1>6 DEF EvKept, Taken
<1>12. \A v \in Threads : thr'[v].on = 0 /\ thr'[v].pc \in {"idle", "claim"}
  BY <1>2, <1>3
<1>13. CASE ev.done
  <2>1. PICK j \in Jobs : Taken(j)
    BY <1>13 DEF PhaseInv, BeforeSnapshot
  <2>2. \A i \in Jobs : Taken(i) => i = j
    BY <2>1 DEF PhaseInv, AfterSnapshot, Jobs
  <2>3. Early' /\ BeforeSnapshot'
    BY <1>6, <1>11, <1>13, <2>1 DEF EvKept, Early, BeforeSnapshot
  <2>4. \A i \in Jobs \ {j} : job'[i] = job[i]
    BY <1>4, <2>1 DEF PhaseInv, AfterSnapshot, Nil
  <2>5. job'[j].status # Nil
    BY <1>4, <2>1 DEF PhaseInv, AfterSnapshot, Nil
  <2>6. Phase' = Phase /\ Phase # "FAILED"
    BY <1>1, <1>13, <2>1 DEF PhaseInv, AfterSnapshot, Phase
  <2>7. AfterSnapshot'
    BY <1>11, <1>12, <2>1, <2>2, <2>4, <2>5, <2>6 DEF PhaseInv, AfterSnapshot
  <2> QED
    BY <1>7, <1>8, <1>9, <1>10, <2>3, <2>7 DEF Keeps, PhaseInv
<1>14. CASE ~ev.done
  <2>1. NothingLater /\ OneJob
    BY <1>14 DEF PhaseInv, Early
  <2>2. \A j \in Jobs : \/ job'[j] = job[j]
                        \/ job[j].status = "running" /\ job'[j].status = "queued"
    BY <1>4, <2>1 DEF NothingLater
  <2>3. \A j \in Jobs : /\ Live(j)' <=> Live(j)
                        /\ job'[j].status = Nil <=> job[j].status = Nil
                        /\ job'[j].status = "failed" <=> job[j].status = "failed"
    BY <2>2 DEF Live, Nil
  <2>4. NothingLater'
    BY <1>6, <2>1, <2>2 DEF NothingLater, EvKept
  <2>5. OneThread'
    <3>1. ASSUME NEW v \in Threads, thr'[v] # Idle
          PROVE  Works(v)'
      <4>1. thr'[v] = claiming
        BY <1>3, <3>1
      <4>2. PICK j \in Jobs : job'[j].status \in Claimable
        BY <1>3, <4>1
      <4>3. job'[j].status = "queued"
        BY <2>4, <4>2 DEF NothingLater, Claimable, Nil
      <4> QED
        BY <1>2, <4>1, <4>3 DEF Works, EarlyPc
    <3> QED
      BY <1>3, <3>1 DEF OneThread
  <2>6. OneJob'
    BY <1>4, <2>1, <2>3 DEF OneJob
  <2>7. BeforeSnapshot'
    BY <1>1, <1>6, <1>11, <2>3 DEF PhaseInv, BeforeSnapshot, EvKept, Phase
  <2>8. AfterSnapshot'
    <3>1. Phase' = Phase
      BY <1>1 DEF Phase
    <3>2. ev'.done = ev.done
      BY <1>6 DEF EvKept
    <3>3. \A j \in Jobs : job'[j].code = job[j].code
      BY <1>4
    <3> QED
      BY <1>11, <1>12, <2>2, <2>3, <3>1, <3>2, <3>3 DEF PhaseInv, AfterSnapshot, Nil
  <2> QED
    BY <1>7, <1>8, <1>9, <1>10, <2>4, <2>5, <2>6, <2>7, <2>8 DEF Keeps, PhaseInv, Early
<1> QED
  BY <1>13, <1>14

-----------------------------------------------------------------------------
(* The invariant of a run's intake.                                        *)

IntakeInv == IntakeTypeOK /\ PhaseInv /\ EvidenceInv

\* The initial states: no run, no job, no evidence.
LEMMA IntakeStarts == IntakeInit => IntakeInv
<1> SUFFICES ASSUME IntakeInit
             PROVE  IntakeInv
  OBVIOUS
<1>1. IntakeTypeOK
  <2>1. RunTypeOK
    BY DEF IntakeInit, RunInit, RunTypeOK
  <2>2. Idle \in IntakeThread
    BY DEF Idle, IntakeThread, IntakePc, Nil
  <2>3. NoJob \in JobRow
    BY DEF NoJob, JobRow, Nil
  <2>4. <<>> \in Seq(Analyses) /\ Nil = "none" /\ 0 \in Nat
    BY EmptySeq DEF Nil
  <2>5. ev \in Evidence
    BY <2>4 DEF IntakeInit, Evidence
  <2> QED
    BY <2>1, <2>2, <2>3, <2>5, IntakeAssumption DEF IntakeInit, IntakeTypeOK
<1>2. /\ \A j \in Jobs : /\ job[j].status = Nil /\ job[j].code = Nil /\ ~job[j].failed
                         /\ ~Taken(j) /\ ~Live(j)
      /\ \A w \in Threads : thr[w] = Idle
      /\ \A r \in Runs : status[r] = Nil
      /\ ~ev.done /\ ev.g02 = Nil /\ ev.assessment = Nil /\ ~ev.parity /\ ev.analysis = <<>>
      /\ ~ev.approvedG03 /\ creating = {}
  BY DEF IntakeInit, RunInit, NoJob, Taken, Live, Nil
<1>3. Ownership /\ AttemptsInOrder
  <2>1. \A t \in Targets : claim[t] = Nil
    BY DEF IntakeInit, RunInit
  <2> QED
    BY <1>2, <2>1 DEF Ownership, MutatingRunOwnsTarget, Mutating, RequestsAreNew, OwnersAtRest,
       AttemptsInOrder, Nil
<1>4. Early
  BY <1>2 DEF Early, NothingLater, OneThread, OneJob
<1>5. BeforeSnapshot /\ AfterSnapshot
  BY <1>2, IntakeAssumption DEF BeforeSnapshot, AfterSnapshot, Phase, Nil
<1>6. EvidenceInv
  <2>1. DOMAIN ev.analysis = {}
    BY <1>2
  <2>2. \A w \in Threads : thr[w].pc = "idle" /\ thr[w].code = "none"
    BY <1>2 DEF Idle, Nil
  <2>3. \A j \in Jobs : job[j].status # "completed"
    BY <1>2 DEF Nil
  <2> QED
    BY <1>2, <2>1, <2>2, <2>3 DEF EvidenceInv, AnalysesStand, AttemptsHaveRows, ReportsStand,
       CompletedIntakeHasEvidence, FailuresCoded
<1> QED
  BY <1>1, <1>3, <1>4, <1>5, <1>6 DEF IntakeInv, PhaseInv

\* A step of a thread.
LEMMA ThreadStepKeeps ==
  ASSUME IntakeInv, NEW w \in Threads, ThreadStep(w)
  PROVE  IntakeInv'
<1>1. IntakeTypeOK /\ PhaseInv /\ EvidenceInv /\ FailuresCoded
  BY DEF IntakeInv, EvidenceInv
<1>2. Keeps => IntakeInv'
  BY <1>1, QuietKeeps DEF Keeps, IntakeInv
<1>3. CASE \/ Reread(w) \/ InitializeG02(w) \/ SetWaiting(w) \/ PollG02(w)
          \/ Authorize(w)
  <2>1. LateMove(w) /\ (thr[w].pc \notin EarlyPc \/ (thr[w].pc = "fail" /\ thr[w].on = 0))
    BY <1>1, <1>3, LateReread, LateInitializeG02, LateSetWaiting, LatePollG02, LateAuthorize
       DEF EarlyPc, ReadsVersion
  <2> QED
    BY <1>1, <1>2, <2>1, LateKeeps
<1>4. CASE \/ ResolveProfile(w) \/ CreateWorkspace(w) \/ MakeSandbox(w) \/ Prequalify(w)
          \/ AuthorizeInstall(w) \/ AcceptInstall(w)
  <2>1. LateMove(w) /\ (thr[w].pc \notin EarlyPc \/ (thr[w].pc = "fail" /\ thr[w].on = 0))
    BY <1>1, <1>4, LateResolveProfile, LateCreateWorkspace, LateMakeSandbox, LatePrequalify,
       LateAuthorizeInstall, LateAcceptInstall
       DEF EarlyPc, ReadsVersion
  <2> QED
    BY <1>1, <1>2, <2>1, LateKeeps
<1>5. CASE \/ Installing(w) \/ ValidateKind(w) \/ Validated(w) \/ Parity(w)
          \/ Capture(w)
  <2>1. LateMove(w) /\ (thr[w].pc \notin EarlyPc \/ (thr[w].pc = "fail" /\ thr[w].on = 0))
    BY <1>1, <1>5, LateInstalling, LateValidateKind, LateValidated, LateParity, LateCapture
       DEF EarlyPc, ReadsVersion
  <2> QED
    BY <1>1, <1>2, <2>1, LateKeeps
<1>6. CASE \/ Qualify(w) \/ WaitG03(w) \/ Resume(w) \/ Discovery(w) \/ Scan(w)
  <2>1. LateMove(w) /\ (thr[w].pc \notin EarlyPc \/ (thr[w].pc = "fail" /\ thr[w].on = 0))
    BY <1>1, <1>6, LateQualify, LateWaitG03, LateResume, LateDiscovery, LateScan
       DEF EarlyPc, ReadsVersion
  <2> QED
    BY <1>1, <1>2, <2>1, LateKeeps
<1>7. CASE \/ Block(w) \/ ParityBaseline(w) \/ BuildParity(w) \/ FailRetry(w)
          \/ ResumeCall(w)
  <2>1. LateMove(w) /\ (thr[w].pc \notin EarlyPc \/ (thr[w].pc = "fail" /\ thr[w].on = 0))
    BY <1>1, <1>7, LateBlock, LateParityBaseline, LateBuildParity, LateFailRetry,
       LateResumeCall
       DEF EarlyPc, ReadsVersion
  <2> QED
    BY <1>1, <1>2, <2>1, LateKeeps
<1>8. CASE Handoff(w) \/ Claim(w) \/ Take(w) \/ Started(w)
  BY <1>1, <1>2, <1>8, HandoffKeeps, ClaimKeeps, TakeKeeps, StartedKeeps
<1>9. CASE Snapshot(w) \/ Copy(w) \/ Completed(w) \/ Fail(w)
  BY <1>1, <1>2, <1>9, SnapshotKeeps, CopyKeeps, CompletedKeeps, FailKeeps
<1>10. CASE Analysis(w) \/ Model(w) \/ FinishJob(w) \/ FinishRetry(w)
  BY <1>1, <1>10, AnalysisKeeps, ModelKeeps, FinishJobKeeps, FinishRetryKeeps DEF IntakeInv
<1> QED
  BY <1>3, <1>4, <1>5, <1>6, <1>7, <1>8, <1>9, <1>10 DEF ThreadStep

\* Every step of the system keeps the invariant.
LEMMA IntakeStepKeeps ==
  ASSUME IntakeInv, [IntakeNext]_intakeVars
  PROVE  IntakeInv'
<1>1. IntakeTypeOK /\ PhaseInv /\ EvidenceInv
  BY DEF IntakeInv
<1>2. Keeps => IntakeInv'
  BY <1>1, QuietKeeps DEF Keeps, IntakeInv
<1>3. CASE \E w \in Threads : ThreadStep(w)
  BY <1>3, ThreadStepKeeps
<1>4. CASE NpmStart \/ NpmOutput \/ NpmEnd \/ Drift
  BY <1>1, <1>2, <1>4, OutsideKeeps
<1>5. CASE IntakeRequest
  <2>1. CASE Compete \/ CancelMain
    BY <1>1, <1>2, <2>1, CompeteKeeps, CancelMainKeeps
  <2>2. CASE \E w \in Threads : Start(w) \/ RetryIntake(w) \/ ApproveG03(w) \/ RetryAnalysis(w)
    BY <1>1, <1>2, <2>2, StartKeeps, RetryIntakeKeeps, ApproveG03Keeps, RetryAnalysisKeeps
  <2>3. CASE \E approve \in BOOLEAN : DecideG02(approve)
    BY <1>1, <1>2, <2>3, DecideG02Keeps
  <2>4. CASE RejectG03 \/ Recapture \/ Requalify
    BY <1>1, <1>2, <2>4, RejectG03Keeps, RecaptureKeeps
  <2> QED
    BY <1>5, <2>1, <2>2, <2>3, <2>4 DEF IntakeRequest
<1>6. CASE \E p \in Pids : Restart(p)
  BY <1>1, <1>2, <1>6, RestartKeeps
<1>7. CASE UNCHANGED intakeVars
  <2>1. UNCHANGED <<status, claim, reservation, creating, job, thr, seen, ev, pid, budget>>
    BY <1>7 DEF intakeVars, runVars, workVars
  <2>2. IntakeTypeOK' /\ Quiet
    BY <1>1, <2>1 DEF IntakeTypeOK, RunTypeOK, Quiet
  <2>3. PhaseInv'
    BY <1>1, <2>1, SideStepKeeps
  <2> QED
    BY <1>2, <2>2, <2>3 DEF Keeps
<1> QED
  BY <1>3, <1>4, <1>5, <1>6, <1>7 DEF IntakeNext

\* The invariant holds of every behaviour of a run's intake.
THEOREM IntakeInvariant == IntakeSpec => []IntakeInv
<1>1. IntakeInit => IntakeInv
  BY IntakeStarts
<1>2. IntakeInv /\ [IntakeNext]_intakeVars => IntakeInv'
  BY IntakeStepKeeps
<1> QED
  BY <1>1, <1>2, PTL DEF IntakeSpec

\* The rows of a run, its jobs and its evidence stay what the tables can hold.
THEOREM IntakeTypeCorrect == IntakeSpec => []IntakeTypeOK
<1>1. IntakeInv => IntakeTypeOK
  BY DEF IntakeInv
<1> QED
  BY <1>1, IntakeInvariant, PTL

\* A run at work that has not been retried has the claim and the reservation of its target,
\* whatever requests to create, start, retry and cancel cross: a create that deletes the claim
\* it has read and one that commits before it, included.
THEOREM RunsOwnTheirTargets == IntakeSpec => []MutatingRunOwnsTarget
<1>1. IntakeInv => MutatingRunOwnsTarget
  BY DEF IntakeInv, PhaseInv, Ownership
<1> QED
  BY <1>1, IntakeInvariant, PTL

\* A completed intake has its whole chain of evidence, whichever attempt of the analysis was
\* completed and whoever reported it.
THEOREM CompletionHasEvidence == IntakeSpec => []CompletedIntakeHasEvidence
<1>1. IntakeInv => CompletedIntakeHasEvidence
  BY DEF IntakeInv, EvidenceInv
<1> QED
  BY <1>1, IntakeInvariant, PTL

-----------------------------------------------------------------------------
(* What a step of a thread leaves alone.                                   *)

OthersStay(w) == \A v \in Threads \ {w} : thr'[v] = thr[v]

\* Nobody else gets the version of the run by it.
OthersAge(w) == \A v \in Threads \ {w} : seen'[v] = "current" => seen[v] = "current"

LEMMA Apart ==
  ASSUME IntakeTypeOK, NEW w \in Threads
  PROVE  /\ \A p : Goto(w, p) => OthersStay(w) /\ thr'[w].pc = p
         /\ \A c : Failing(w, c) => OthersStay(w) /\ thr'[w].pc = "fail"
         /\ Leaves(w) => OthersStay(w) /\ OthersAge(w) /\ thr'[w].pc = "idle"
         /\ MovesRun(w) \/ Reads(w) \/ UNCHANGED seen => OthersAge(w)
         /\ \A mark : mark # "current" /\ seen' = Superseded(w, mark) => OthersAge(w)
         /\ seen' = Superseded(Nil, "old") => \A v \in Threads : seen'[v] # "current"
<1>1. Threads \subseteq Carriers /\ Nil \notin Threads
  BY IntakeAssumption DEF Carriers
<1>2. ASSUME NEW mark, mark # "current", seen' = Superseded(w, mark)
      PROVE  OthersAge(w)
  BY <1>1, <1>2 DEF Superseded, OthersAge
<1>3. ASSUME seen' = Superseded(Nil, "old"), NEW v \in Threads
      PROVE  seen'[v] # "current"
  BY <1>1, <1>3 DEF Superseded
<1>4. \A p : Goto(w, p) => OthersStay(w) /\ thr'[w].pc = p
  BY DEF Goto, OthersStay, IntakeTypeOK, IntakeThread
<1>5. \A c : Failing(w, c) => OthersStay(w) /\ thr'[w].pc = "fail"
  BY DEF Failing, OthersStay, IntakeTypeOK, IntakeThread
<1>6. Leaves(w) => OthersStay(w) /\ OthersAge(w) /\ thr'[w].pc = "idle"
  BY <1>1 DEF Leaves, OthersStay, OthersAge, Idle, IntakeTypeOK
<1>7. MovesRun(w) \/ Reads(w) \/ UNCHANGED seen => OthersAge(w)
  BY <1>1, <1>2 DEF MovesRun, Reads, OthersAge, IntakeTypeOK
<1> QED
  BY <1>2, <1>3, <1>4, <1>5, <1>6, <1>7

\* The steps after which a thread may be idle.
MayEnd(w) ==
  \/ Handoff(w) \/ Claim(w) \/ PollG02(w) \/ WaitG03(w) \/ ResumeCall(w)
  \/ FinishJob(w) \/ FinishRetry(w) \/ Fail(w) \/ FailRetry(w)

\* A step is the thread's own; it ends by few of them, and comes to the sandbox by one.
LEMMA StepsApart ==
  ASSUME IntakeTypeOK, NEW w \in Threads, ThreadStep(w)
  PROVE  /\ OthersStay(w) /\ OthersAge(w)
         /\ thr'[w].pc = "idle" => MayEnd(w)
         /\ thr'[w].pc = "sandbox" => Current(w) /\ AuthorizeBaseline /\ ev' = ev
<1>1. CASE Reread(w)
  BY <1>1, Apart DEF Reread, OnlyThread, OthersStay, ReadsVersion
<1>2. CASE Handoff(w)
  <2>1. \/ thr' = [thr EXCEPT ![w] = [Idle EXCEPT !.pc = "claim"]] /\ UNCHANGED seen
        \/ thr' = [thr EXCEPT ![w] = Idle] /\ seen' = Superseded(Nil, "old")
    BY <1>2 DEF Handoff
  <2>2. OthersStay(w) /\ thr'[w].pc \in {"claim", "idle"}
    BY <2>1 DEF OthersStay, Idle, IntakeTypeOK
  <2>3. OthersAge(w)
    BY <2>1, Apart DEF OthersAge
  <2> QED
    BY <1>2, <2>2, <2>3 DEF MayEnd
<1>3. CASE Claim(w)
  <2>1. \/ Leaves(w)
        \/ UNCHANGED seen /\ OthersStay(w) /\ thr'[w].pc \in {"take", "take_g03"}
    <3> DEFINE claimable == {j \in Jobs : job[j].status \in Claimable}
               newest == CHOOSE j \in claimable : \A i \in claimable : i <= j
    <3>1. \/ Leaves(w)
          \/ /\ UNCHANGED seen
             /\ thr' = [thr EXCEPT ![w].on = newest,
                          ![w].pc = IF job[newest].status = "waiting_g03" THEN "take_g03" ELSE "take"]
      BY <1>3 DEF Claim
    <3> HIDE DEF newest
    <3> QED
      BY <3>1 DEF OthersStay, IntakeTypeOK, IntakeThread
  <2> QED
    BY <1>3, <2>1, Apart DEF MayEnd
<1>4. CASE Take(w) \/ Started(w)
  BY <1>4, Apart DEF Take, Started, Refused, OnlyThread
<1>5. CASE Snapshot(w) \/ Copy(w) \/ Completed(w)
  BY <1>5, Apart DEF Snapshot, Copy, Completed, Refused
<1>6. CASE InitializeG02(w) \/ SetWaiting(w)
  BY <1>6, Apart DEF InitializeG02, SetWaiting, Refused
<1>7. CASE PollG02(w)
  BY <1>7, Apart DEF PollG02, MayEnd
<1>8. CASE Authorize(w) \/ ResolveProfile(w)
  BY <1>8, Apart DEF Authorize, ResolveProfile, Refused
<1>9. CASE CreateWorkspace(w)
  BY <1>9, Apart DEF CreateWorkspace, Refused, OnlyThread
<1>10. CASE MakeSandbox(w) \/ Prequalify(w) \/ AuthorizeInstall(w)
  BY <1>10, Apart DEF MakeSandbox, Prequalify, AuthorizeInstall, Refused
<1>11. CASE AcceptInstall(w)
  <2>1. \/ Refused(w, "other")
        \/ Goto(w, "installing") /\ seen' = [Superseded(w, "old") EXCEPT !["npm"] = "current"]
    BY <1>11 DEF AcceptInstall
  <2>2. ASSUME seen' = [Superseded(w, "old") EXCEPT !["npm"] = "current"]
        PROVE  OthersAge(w)
    <3>1. "npm" \notin Threads /\ Threads \subseteq Carriers
      BY IntakeAssumption DEF Carriers
    <3> QED
      BY <2>2, <3>1 DEF Superseded, OthersAge
  <2> QED
    BY <2>1, <2>2, Apart DEF Refused
<1>12. CASE Installing(w) \/ Validated(w) \/ Parity(w) \/ Capture(w) \/ Qualify(w)
  BY <1>12, Apart DEF Installing, Validated, Parity, Capture, Qualify, Refused
<1>13. CASE ValidateKind(w)
  <2>1. \/ UNCHANGED thr /\ Reads(w)
        \/ Goto(w, "validating") /\ MovesRun(w)
        \/ Goto(w, "parity") /\ Reads(w)
        \/ Refused(w, "other")
    BY <1>13 DEF ValidateKind
  <2>2. thr[w].pc = "validate"
    BY <1>13 DEF ValidateKind, At
  <2> QED
    BY <2>1, <2>2, Apart DEF Refused, OthersStay
<1>14. CASE WaitG03(w) \/ FinishJob(w) \/ FinishRetry(w) \/ FailRetry(w)
  BY <1>14, Apart DEF WaitG03, FinishJob, FinishRetry, FailRetry, MayEnd
<1>15. CASE Resume(w) \/ Scan(w) \/ Block(w) \/ BuildParity(w)
  BY <1>15, Apart DEF Resume, Scan, Block, BuildParity, Refused
<1>16. CASE Discovery(w) \/ ParityBaseline(w)
  BY <1>16, Apart DEF Discovery, ParityBaseline, Accepts, Refused
<1>17. CASE Analysis(w) \/ Model(w)
  <2>1. \/ Refused(w, "other")
        \/ \E p \in {"model", "finish"} : \E r, c :
             /\ \/ thr' = [thr EXCEPT ![w].pc = p, ![w].row = r]
                \/ thr' = [thr EXCEPT ![w].pc = p, ![w].code = c]
             /\ \/ UNCHANGED seen \/ MovesRun(w)
                \/ \E mark \in {"old", "analysis"} : seen' = Superseded(w, mark)
    <3>1. CASE Analysis(w)
      BY <3>1 DEF Analysis
    <3>2. CASE Model(w)
      BY <3>2 DEF Model
    <3> QED
      BY <1>17, <3>1, <3>2
  <2>2. ASSUME NEW p \in {"model", "finish"}, NEW r, NEW c,
               \/ thr' = [thr EXCEPT ![w].pc = p, ![w].row = r]
               \/ thr' = [thr EXCEPT ![w].pc = p, ![w].code = c]
        PROVE  OthersStay(w) /\ thr'[w].pc = p
    BY <2>2 DEF OthersStay, IntakeTypeOK, IntakeThread
  <2> QED
    BY <2>1, <2>2, Apart DEF Refused
<1>18. CASE Fail(w)
  <2>1. \/ Leaves(w)
        \/ thr' = [thr EXCEPT ![w] = Idle] /\ seen' = [Superseded(Nil, "old") EXCEPT ![w] = "old"]
    BY <1>18 DEF Fail
  <2>2. OthersStay(w)
    BY <2>1, Apart DEF OthersStay, IntakeTypeOK
  <2>3. ASSUME seen' = [Superseded(Nil, "old") EXCEPT ![w] = "old"]
        PROVE  OthersAge(w)
    <3>1. Nil \notin Threads /\ Threads \subseteq Carriers
      BY IntakeAssumption DEF Carriers
    <3> QED
      BY <2>3, <3>1 DEF Superseded, OthersAge
  <2>4. thr'[w].pc = "idle"
    BY <2>1, Apart DEF Idle, IntakeTypeOK
  <2> QED
    BY <1>18, <2>1, <2>2, <2>3, <2>4, Apart DEF MayEnd
<1>19. CASE ResumeCall(w)
  BY <1>19, Apart DEF ResumeCall, MayEnd
<1> QED
  BY <1>1, <1>2, <1>3, <1>4, <1>5, <1>6, <1>7, <1>8, <1>9, <1>10, <1>11, <1>12, <1>13, <1>14,
     <1>15, <1>16, <1>17, <1>18, <1>19 DEF ThreadStep

-----------------------------------------------------------------------------
(* A run in source validation is worked on.                                *)

Validating == status[Main] = "SOURCE_VALIDATION_RUNNING"

\* While it is, whoever is on its way works on its job.
LEMMA AtWork ==
  IntakeInv /\ Validating =>
    /\ NothingLater /\ OneJob /\ \E j \in Jobs : Live(j)
    /\ \A w \in Threads : thr[w].pc # "idle" => Works(w)
    /\ WorkedOn <=> \E w \in Threads : thr[w].pc # "idle"
<1> SUFFICES ASSUME IntakeInv, Validating
             PROVE  /\ NothingLater /\ OneJob /\ \E j \in Jobs : Live(j)
                    /\ \A w \in Threads : thr[w].pc # "idle" => Works(w)
                    /\ WorkedOn <=> \E w \in Threads : thr[w].pc # "idle"
  OBVIOUS
<1>1. (\A j \in Jobs : ~Taken(j)) /\ ~ev.done /\ \E j \in Jobs : Live(j)
  BY DEF IntakeInv, PhaseInv, AfterSnapshot, BeforeSnapshot, Validating, Phase
<1>2. NothingLater /\ OneJob /\ OneThread
  BY <1>1 DEF IntakeInv, PhaseInv, Early
<1>3. \A w \in Threads : thr[w].pc # "idle" => Works(w)
  BY <1>2 DEF OneThread, Idle
<1>4. ASSUME NEW w \in Threads, Works(w)
      PROVE  \/ thr[w].on \in Jobs /\ job[thr[w].on].status \in {"queued", "running"}
             \/ thr[w].pc = "claim" /\ \E j \in Jobs : job[j].status = "queued"
  BY <1>4 DEF Works, EarlyPc
<1>5. ASSUME NEW w \in Threads, thr[w].pc = "idle"
      PROVE  thr[w].on \notin Jobs
  <2>1. thr[w] = Idle
    BY <1>2, <1>5 DEF OneThread, Works, EarlyPc
  <2> QED
    BY <2>1 DEF Idle, Jobs
<1>6. WorkedOn <=> \E w \in Threads : thr[w].pc # "idle"
  BY <1>3, <1>4, <1>5 DEF WorkedOn
<1> QED
  BY <1>1, <1>2, <1>3, <1>6

\* No step of a thread leaves the run in source validation and the thread without work.
LEMMA ThreadsWorkOn ==
  ASSUME IntakeInv, NEW w \in Threads, ThreadStep(w), Validating'
  PROVE  thr'[w].pc # "idle"
<1> SUFFICES ASSUME thr'[w].pc = "idle"
             PROVE  FALSE
  OBVIOUS
<1>1. IntakeTypeOK /\ MayEnd(w)
  BY StepsApart DEF IntakeInv
<1>2. CASE PollG02(w) \/ WaitG03(w) \/ ResumeCall(w) \/ FinishJob(w) \/ FinishRetry(w) \/ FailRetry(w)
  <2>1. Validating
    BY <1>2 DEF Validating, PollG02, WaitG03, ResumeCall, FinishJob, FinishRetry, FailRetry, OnlyThread
  <2>2. \/ thr[w].pc \in {"poll", "wait_g03", "resume_call", "finish"}
        \/ thr[w].pc = "fail" /\ thr[w].on = 0
    BY <1>2 DEF PollG02, WaitG03, ResumeCall, FinishJob, FinishRetry, FailRetry, At
  <2>3. Works(w)
    BY <2>1, <2>2, AtWork
  <2> QED
    BY <2>2, <2>3 DEF Works, EarlyPc, Jobs
<1>3. CASE Handoff(w)
  <2>1. \/ thr' = [thr EXCEPT ![w] = [Idle EXCEPT !.pc = "claim"]]
        \/ status' = [status EXCEPT ![Main] = "FAILED"]
    BY <1>3 DEF Handoff, RunTo, DispatchFailed
  <2> QED
    BY <1>1, <2>1, IntakeAssumption DEF Validating, Idle, IntakeTypeOK, RunTypeOK
<1>4. CASE Claim(w)
  <2>1. Validating /\ thr[w].pc = "claim"
    BY <1>4 DEF Validating, Claim, OnlyThread, At
  <2>2. PICK j \in Jobs : job[j].status = "queued"
    BY <2>1, AtWork DEF Works
  <2> DEFINE claimable == {i \in Jobs : job[i].status \in Claimable}
             newest == CHOOSE k \in claimable : \A i \in claimable : i <= k
  <2>3. claimable # {}
    BY <2>2 DEF Claimable
  <2>4. thr' = [thr EXCEPT ![w].on = newest,
                  ![w].pc = IF job[newest].status = "waiting_g03" THEN "take_g03" ELSE "take"]
    BY <1>4, <2>3 DEF Claim
  <2> HIDE DEF newest
  <2> QED
    BY <1>1, <2>4 DEF IntakeTypeOK, IntakeThread
<1>5. CASE Fail(w)
  <2>1. thr[w].pc = "fail"
    BY <1>5 DEF Fail, At
  <2>2. CASE status' = status
    <3>1. Validating
      BY <2>2 DEF Validating
    <3>2. thr[w].on \in Jobs /\ job[thr[w].on].status = "running" /\ OneJob
      BY <2>1, <3>1, AtWork DEF Works
    <3>3. ~job[thr[w].on].failed
      BY <3>2 DEF OneJob, Live
    <3>4. \E s \in {"DIAGNOSTIC_HOLD", "FAILED"} : status' = [status EXCEPT ![Main] = s]
      BY <1>5, <3>3 DEF Fail, RunTo
    <3> QED
      BY <1>1, <3>4, IntakeAssumption DEF Validating, IntakeTypeOK, RunTypeOK
  <2>3. CASE \E s \in {"DIAGNOSTIC_HOLD", "FAILED"} : status' = [status EXCEPT ![Main] = s]
    BY <1>1, <2>3, IntakeAssumption DEF Validating, IntakeTypeOK, RunTypeOK
  <2> QED
    BY <1>5, <2>2, <2>3 DEF Fail, RunTo
<1> QED
  BY <1>1, <1>2, <1>3, <1>4, <1>5 DEF MayEnd

\* Nor does a request, npm ci or a change of the source.
LEMMA RequestsLeaveWork ==
  ASSUME IntakeInv, IntakeRequest \/ NpmStart \/ NpmOutput \/ NpmEnd \/ Drift, Validating'
  PROVE  (thr' = thr /\ Validating) \/ \E w \in Threads : thr'[w].pc # "idle"
<1>1. IntakeTypeOK /\ Main \in Runs
  BY IntakeAssumption DEF IntakeInv
<1>2. CASE Compete
  <2>1. thr' = thr
    BY <1>2 DEF Compete, workVars
  <2>2. \/ status' = status
        \/ \E r \in Runs \cup {c.run : c \in creating}, s \in {"CREATED", "CANCELLED"} :
             status' = [status EXCEPT ![r] = s]
    BY <1>2 DEF Compete, CreateChecks, CreateRun, CancelRun
  <2>3. Validating
    BY <1>1, <2>2 DEF Validating, IntakeTypeOK, RunTypeOK
  <2> QED
    BY <2>1, <2>3
<1>3. CASE CancelMain
  <2>1. status' = [status EXCEPT ![Main] = "CANCELLED"]
    BY <1>3 DEF CancelMain, CancelRun
  <2> QED
    BY <1>1, <2>1 DEF Validating, IntakeTypeOK, RunTypeOK
<1>4. ASSUME NEW w \in Threads, Start(w) \/ RetryIntake(w) \/ ApproveG03(w) \/ RetryAnalysis(w)
      PROVE  thr'[w].pc # "idle"
  <2>1. \/ \E j : thr' = [thr EXCEPT ![w] = [Idle EXCEPT !.pc = "handoff", !.on = j]]
        \/ \E p \in {"resume_call", "analysis"} : thr' = [thr EXCEPT ![w] = [Idle EXCEPT !.pc = p]]
    BY <1>4 DEF Start, RetryIntake, ApproveG03, RetryAnalysis, Queued
  <2> QED
    BY <1>1, <2>1 DEF Idle, IntakeTypeOK
<1>5. CASE \/ \E approve \in BOOLEAN : DecideG02(approve)
           \/ RejectG03 \/ Recapture \/ Requalify
  <2>1. thr' = thr
    BY <1>5 DEF DecideG02, RejectG03, Recapture, Requalify
  <2>2. \/ status' = status
        \/ \E s \in {"BASELINE_QUALIFIED", "DIAGNOSTIC_HOLD"} : status' = [status EXCEPT ![Main] = s]
    BY <1>5 DEF DecideG02, RejectG03, Recapture, Requalify, Qualified, RunTo
  <2>3. Validating
    BY <1>1, <2>2 DEF Validating, IntakeTypeOK, RunTypeOK
  <2> QED
    BY <2>1, <2>3
<1>6. CASE NpmStart \/ NpmOutput \/ NpmEnd \/ Drift
  BY <1>6 DEF NpmStart, NpmOutput, NpmEnd, Drift, NpmMoves, runVars, Validating
<1> QED
  BY <1>2, <1>3, <1>4, <1>5, <1>6 DEF IntakeRequest

\* A restart goes on with the job, unless it takes it for its own.
LEMMA RestartWorksOn ==
  ASSUME IntakeInv, NEW p \in Pids, Restart(p), Validating', \E j \in Jobs : Live(j)'
  PROVE  UnderOldPid \/ \E w \in Threads : thr'[w].pc # "idle"
<1>1. PICK j \in Jobs : job'[j].status \in {"queued", "running"}
  BY DEF Live
<1>2. job'[j] = Recovered(j, p)
  BY DEF Restart
<1>3. CASE job'[j].status = "running"
  <2>1. job[j].status = "running" /\ job[j].pid = p
    <3> DEFINE s == CASE LatestAnalysis = "failed_retryable" -> "waiting_retry"
                      [] LatestAnalysis = "failed" -> "failed"
                      [] OTHER -> IF ev.approvedG03 THEN "waiting_g03" ELSE "queued"
    <3>1. s # "running"
      OBVIOUS
    <3>2. Recovered(j, p) = IF job[j].status = "running" /\ job[j].pid # p
                              THEN [job[j] EXCEPT !.status = s] ELSE job[j]
      BY DEF Recovered
    <3> HIDE DEF s
    <3>3. [job[j] EXCEPT !.status = s].status = s
      BY DEF IntakeInv, IntakeTypeOK, JobRow
    <3> QED
      BY <1>2, <1>3, <3>1, <3>2, <3>3
  <2> QED
    BY <2>1 DEF UnderOldPid
<1>4. CASE job'[j].status = "queued"
  <2> DEFINE first == CHOOSE w \in Threads : TRUE
             claiming == [Idle EXCEPT !.pc = "claim"]
  <2>1. first \in Threads
    BY IntakeAssumption
  <2>2. \E i \in Jobs : job'[i].status \in Claimable
    BY <1>4 DEF Claimable
  <2>3. thr' = [w \in Threads |-> IF w = first /\ \E i \in Jobs : job'[i].status \in Claimable
                                    THEN claiming ELSE Idle]
    BY DEF Restart
  <2>4. claiming.pc = "claim"
    BY DEF Idle
  <2> HIDE DEF first, claiming
  <2> QED
    BY <2>1, <2>2, <2>3, <2>4
<1> QED
  BY <1>1, <1>3, <1>4

\* A run in source validation is worked on, whatever fails, is refused, restarts or is retried,
\* but for a restart under the process id that its job names.
THEOREM ValidationStaysWorkedOn == IntakeSpec => ValidationIsWorkedOn
<1>1. (IntakeInv /\ Validating =>
         /\ NothingLater /\ OneJob /\ \E j \in Jobs : Live(j)
         /\ \A w \in Threads : thr[w].pc # "idle" => Works(w)
         /\ WorkedOn <=> \E w \in Threads : thr[w].pc # "idle")'
  BY AtWork, PTL
<1>2. ASSUME IntakeInv, [IntakeNext]_intakeVars, Validating => WorkedOn, Validating'
      PROVE  WorkedOn' \/ UnderOldPid
  <2>1. /\ \E j \in Jobs : Live(j)'
        /\ WorkedOn' <=> \E w \in Threads : thr'[w].pc # "idle"
    BY <1>1, <1>2, IntakeStepKeeps
  <2>2. CASE \E w \in Threads : ThreadStep(w)
    BY <1>2, <2>1, <2>2, ThreadsWorkOn
  <2>3. CASE IntakeRequest \/ NpmStart \/ NpmOutput \/ NpmEnd \/ Drift
    BY <1>2, <2>1, <2>3, RequestsLeaveWork, AtWork
  <2>4. CASE \E p \in Pids : Restart(p)
    BY <1>2, <2>1, <2>4, RestartWorksOn
  <2>5. CASE UNCHANGED intakeVars
    <3>1. thr' = thr /\ Validating
      BY <1>2, <2>5 DEF intakeVars, runVars, workVars, Validating
    <3> QED
      BY <1>2, <2>1, <3>1, AtWork
  <2> QED
    BY <1>2, <2>2, <2>3, <2>4, <2>5 DEF IntakeNext
<1>3. IntakeInv /\ [IntakeNext]_intakeVars =>
        [(status[Main] = "SOURCE_VALIDATION_RUNNING" => WorkedOn) =>
           (status'[Main] = "SOURCE_VALIDATION_RUNNING" => WorkedOn') \/ UnderOldPid]_intakeVars
  BY <1>2 DEF Validating
<1> QED
  BY <1>3, IntakeInvariant, PTL DEF IntakeSpec, ValidationIsWorkedOn

-----------------------------------------------------------------------------
(* The baseline sandbox stands on the approval it was checked against.     *)

\* A thread about to record the sandbox still has the version the check was made under only
\* while the decision at G02 is the one it saw.
CheckStands ==
  \A w \in Threads : At(w, "sandbox") /\ Current(w) => ev.g02 = "approved" /\ ev.verified

G02Kept == ev'.g02 = ev.g02 /\ ev'.verified = ev.verified

\* The steps that leave the sandbox and the decision alone.
LEMMA SandboxKept ==
  ASSUME IntakeTypeOK, NEW w \in Threads, ThreadStep(w)
  PROVE  /\ ev'.workspace = ev.workspace \/ (MakeSandbox(w) /\ At(w, "sandbox") /\ Current(w))
         /\ G02Kept \/ ev.g02 = Nil
<1>1. CASE \/ Reread(w) \/ Handoff(w) \/ Claim(w) \/ Take(w) \/ Started(w) \/ Snapshot(w)
           \/ SetWaiting(w) \/ PollG02(w) \/ Authorize(w) \/ Prequalify(w) \/ AuthorizeInstall(w)
           \/ Installing(w) \/ Parity(w) \/ WaitG03(w) \/ Resume(w) \/ Discovery(w)
           \/ ParityBaseline(w) \/ FinishJob(w) \/ FinishRetry(w) \/ Fail(w) \/ FailRetry(w)
           \/ ResumeCall(w)
  <2>1. ev' = ev
    BY <1>1 DEF Reread, Handoff, Claim, Take, Started, Snapshot, SetWaiting, PollG02, Authorize,
       Prequalify, AuthorizeInstall, Installing, Parity, WaitG03, Resume, Discovery,
       ParityBaseline, FinishJob, FinishRetry, Fail, FailRetry, ResumeCall, Refused, OnlyThread
  <2> QED
    BY <2>1 DEF G02Kept
<1>2. CASE Copy(w)
  BY <1>2 DEF Copy, G02Kept, IntakeTypeOK, Evidence
<1>3. CASE Completed(w)
  BY <1>3 DEF Completed, G02Kept, IntakeTypeOK, Evidence
<1>4. CASE InitializeG02(w)
  BY <1>4 DEF InitializeG02, G02Kept, Refused, OnlyThread, IntakeTypeOK, Evidence
<1>5. CASE ResolveProfile(w)
  BY <1>5 DEF ResolveProfile, G02Kept, Refused, OnlyThread, IntakeTypeOK, Evidence
<1>6. CASE CreateWorkspace(w)
  BY <1>6 DEF CreateWorkspace, G02Kept, Refused, OnlyThread, IntakeTypeOK, Evidence
<1>7. CASE MakeSandbox(w)
  BY <1>7 DEF MakeSandbox, G02Kept, Refused, OnlyThread, IntakeTypeOK, Evidence
<1>8. CASE AcceptInstall(w)
  BY <1>8 DEF AcceptInstall, G02Kept, Refused, OnlyThread, IntakeTypeOK, Evidence
<1>9. CASE ValidateKind(w) \/ Validated(w)
  BY <1>9 DEF ValidateKind, Validated, G02Kept, Refused, OnlyThread, IntakeTypeOK, Evidence
<1>10. CASE Capture(w)
  BY <1>10 DEF Capture, G02Kept, Refused, OnlyThread, IntakeTypeOK, Evidence
<1>11. CASE Qualify(w)
  BY <1>11 DEF Qualify, Qualified, G02Kept, Refused, OnlyThread, IntakeTypeOK, Evidence
<1>12. CASE Scan(w) \/ Block(w)
  BY <1>12 DEF Scan, Block, G02Kept, Refused, OnlyThread, IntakeTypeOK, Evidence
<1>13. CASE BuildParity(w)
  BY <1>13 DEF BuildParity, G02Kept, Refused, OnlyThread, IntakeTypeOK, Evidence
<1>14. CASE Analysis(w)
  BY <1>14 DEF Analysis, G02Kept, Refused, OnlyThread, IntakeTypeOK, Evidence
<1>15. CASE Model(w)
  BY <1>15 DEF Model, G02Kept, IntakeTypeOK, Evidence
<1> QED
  BY <1>1, <1>2, <1>3, <1>4, <1>5, <1>6, <1>7, <1>8, <1>9, <1>10, <1>11, <1>12, <1>13, <1>14,
     <1>15 DEF ThreadStep

\* A step of a thread: its own check is fresh, and the decision another saw is not touched.
LEMMA ThreadStepChecked ==
  ASSUME IntakeTypeOK, CheckStands, NEW w \in Threads, ThreadStep(w)
  PROVE  CheckStands'
<1>1. /\ OthersStay(w) /\ OthersAge(w) /\ (G02Kept \/ ev.g02 = Nil)
      /\ thr'[w].pc = "sandbox" => Current(w) /\ AuthorizeBaseline /\ ev' = ev
  BY StepsApart, SandboxKept
<1>2. ASSUME NEW v \in Threads, thr'[v].pc = "sandbox", seen'[v] = "current"
      PROVE  ev'.g02 = "approved" /\ ev'.verified
  <2>1. CASE v = w
    BY <1>1, <1>2, <2>1 DEF AuthorizeBaseline
  <2>2. CASE v # w
    BY <1>1, <1>2, <2>2 DEF OthersStay, OthersAge, CheckStands, At, Current, G02Kept, Nil
  <2> QED
    BY <2>1, <2>2
<1> QED
  BY <1>2 DEF CheckStands, At, Current

\* What is no step of a thread makes no sandbox, and supersedes every check when it decides.
LEMMA OtherStepChecked ==
  ASSUME IntakeTypeOK, CheckStands,
         \/ IntakeRequest \/ NpmStart \/ NpmOutput \/ NpmEnd \/ Drift
         \/ \E p \in Pids : Restart(p)
  PROVE  CheckStands' /\ ev'.workspace = ev.workspace
<1>1. ASSUME G02Kept, ev'.workspace = ev.workspace, NEW w \in Threads,
             OthersStay(w), OthersAge(w), thr'[w].pc # "sandbox"
      PROVE  CheckStands' /\ ev'.workspace = ev.workspace
  BY <1>1 DEF CheckStands, At, Current, OthersStay, OthersAge, G02Kept
<1>2. ASSUME G02Kept, ev'.workspace = ev.workspace, thr' = thr,
             \A v \in Threads : seen'[v] = "current" => seen[v] = "current"
      PROVE  CheckStands' /\ ev'.workspace = ev.workspace
  BY <1>2 DEF CheckStands, At, Current, G02Kept
<1>3. UserMoves => \A v \in Threads : seen'[v] # "current"
  <2>1. PICK w \in Threads : TRUE
    BY IntakeAssumption
  <2> QED
    BY Apart DEF UserMoves
<1>4. CASE Compete \/ RejectG03
  <2>1. thr' = thr /\ ev' = ev /\ (seen' = seen \/ UserMoves)
    BY <1>4 DEF Compete, workVars, RejectG03
  <2> QED
    BY <1>2, <1>3, <2>1 DEF G02Kept
<1>5. CASE CancelMain
  <2>1. thr' = thr /\ ev' = ev /\ UserMoves
    BY <1>5 DEF CancelMain, UserMoves
  <2> QED
    BY <1>2, <1>3, <2>1 DEF G02Kept
<1>6. ASSUME NEW w \in Threads, Start(w) \/ RetryIntake(w) \/ ApproveG03(w)
      PROVE  CheckStands' /\ ev'.workspace = ev.workspace
  <2>1. G02Kept /\ ev'.workspace = ev.workspace
    BY <1>6 DEF Start, RetryIntake, ApproveG03, Queued, G02Kept, IntakeTypeOK, Evidence
  <2>2. UserMoves
    BY <1>6 DEF Start, RetryIntake, ApproveG03, Queued, UserMoves
  <2> QED
    BY <1>3, <2>1, <2>2 DEF CheckStands, Current
<1>7. ASSUME NEW w \in Threads, RetryAnalysis(w)
      PROVE  CheckStands' /\ ev'.workspace = ev.workspace
  <2>1. ev' = ev /\ OthersAge(w)
    BY <1>7, Apart DEF RetryAnalysis
  <2>2. OthersStay(w) /\ thr'[w].pc = "analysis"
    BY <1>7 DEF RetryAnalysis, OthersStay, Idle, IntakeTypeOK
  <2> QED
    BY <1>1, <2>1, <2>2 DEF G02Kept
<1>8. CASE \E approve \in BOOLEAN : DecideG02(approve)
  <2>1. ev'.workspace = ev.workspace
    BY <1>8 DEF DecideG02, IntakeTypeOK, Evidence
  <2>2. UserMoves
    BY <1>8 DEF DecideG02
  <2> QED
    BY <1>3, <2>1, <2>2 DEF CheckStands, Current
<1>9. CASE Recapture \/ Requalify
  <2>1. G02Kept /\ ev'.workspace = ev.workspace /\ thr' = thr /\ (seen' = seen \/ UserMoves)
    BY <1>9 DEF Recapture, Requalify, Qualified, G02Kept, IntakeTypeOK, Evidence
  <2> QED
    BY <1>2, <1>3, <2>1
<1>10. CASE NpmStart \/ NpmOutput \/ NpmEnd
  <2>1. G02Kept /\ ev'.workspace = ev.workspace /\ thr' = thr /\ MovesRun("npm")
    BY <1>10 DEF NpmStart, NpmOutput, NpmEnd, NpmMoves, G02Kept, IntakeTypeOK, Evidence
  <2>2. "npm" \notin Threads /\ Threads \subseteq Carriers
    BY IntakeAssumption DEF Carriers
  <2> QED
    BY <1>2, <2>1, <2>2 DEF MovesRun, Superseded
<1>11. CASE Drift
  <2>1. G02Kept /\ ev'.workspace = ev.workspace /\ thr' = thr /\ seen' = seen
    BY <1>11 DEF Drift, G02Kept, IntakeTypeOK, Evidence
  <2> QED
    BY <1>2, <2>1
<1>12. ASSUME NEW p \in Pids, Restart(p)
       PROVE  CheckStands' /\ ev'.workspace = ev.workspace
  <2>1. ev'.workspace = ev.workspace
    BY <1>12 DEF Restart, IntakeTypeOK, Evidence
  <2>2. \A v \in Threads : seen'[v] = "old"
    BY <1>12 DEF Restart, Carriers
  <2> QED
    BY <2>1, <2>2 DEF CheckStands, Current
<1> QED
  BY <1>4, <1>5, <1>6, <1>7, <1>8, <1>9, <1>10, <1>11, <1>12 DEF IntakeRequest

\* The baseline sandbox is recorded only while the approval that was checked before the copy
\* stands: a decision in between takes the version the thread carries.
THEOREM BaselineStandsOnApproval == IntakeSpec => BaselineOnStandingApproval
<1>1. IntakeInit => CheckStands
  BY DEF IntakeInit, CheckStands, At, Idle
<1>2. ASSUME IntakeInv, CheckStands, [IntakeNext]_intakeVars
      PROVE  /\ CheckStands'
             /\ ~ev.workspace /\ ev'.workspace => ev.g02 = "approved" /\ ev.verified
  <2>1. IntakeTypeOK
    BY <1>2 DEF IntakeInv
  <2>2. CASE \E w \in Threads : ThreadStep(w)
    <3>1. PICK w \in Threads : ThreadStep(w)
      BY <2>2
    <3>2. CheckStands'
      BY <1>2, <2>1, <3>1, ThreadStepChecked
    <3>3. ev'.workspace = ev.workspace \/ (At(w, "sandbox") /\ Current(w))
      BY <2>1, <3>1, SandboxKept
    <3> QED
      BY <1>2, <3>2, <3>3 DEF CheckStands
  <2>3. CASE \/ IntakeRequest \/ NpmStart \/ NpmOutput \/ NpmEnd \/ Drift
             \/ \E p \in Pids : Restart(p)
    BY <1>2, <2>1, <2>3, OtherStepChecked
  <2>4. CASE UNCHANGED intakeVars
    BY <1>2, <2>4 DEF intakeVars, workVars, CheckStands, At, Current
  <2> QED
    BY <1>2, <2>2, <2>3, <2>4 DEF IntakeNext
<1>3. IntakeInv /\ CheckStands /\ [IntakeNext]_intakeVars =>
        /\ CheckStands'
        /\ [~ev.workspace /\ ev'.workspace => ev.g02 = "approved" /\ ev.verified]_intakeVars
  BY <1>2
<1> QED
  BY <1>1, <1>3, IntakeInvariant, PTL DEF IntakeSpec, BaselineOnStandingApproval
=============================================================================
