------------------------------- MODULE RunLog -------------------------------
(***************************************************************************)
(* What StateTransitionService promises for one migration run, without     *)
(* sessions, lookups or retries: a versioned register (status, version)    *)
(* and an append-only log.  A transition consumes the version it names in  *)
(* one indivisible step and leaves one entry; an audit entry names a       *)
(* version the run has already reached and leaves the register alone; no   *)
(* key is logged twice.                                                    *)
(***************************************************************************)
EXTENDS Integers, Sequences

CONSTANTS LogKeys,  \* idempotency keys
          Statuses, \* statuses a run can have
          Same      \* in an entry: the status was left as it was

VARIABLES status,  \* the run's status
          version, \* the run's state_version
          log      \* <<[key, kind, at, to]>>, in commit order

logVars == <<status, version, log>>

LogEntry ==
  [key : LogKeys, kind : {"transition", "audit"}, at : Nat, to : Statuses \cup {Same}]

LogInit ==
  /\ status \in Statuses
  /\ version \in Nat
  /\ log \in Seq(LogEntry)

Fresh(k) == \A i \in 1 .. Len(log) : log[i].key # k

\* A transition consumes the current version and moves the run to st.
LogTransition(k, st) ==
  /\ Fresh(k)
  /\ status' = IF st = Same THEN status ELSE st
  /\ version' = version + 1
  /\ log' = Append(log, [key |-> k, kind |-> "transition", at |-> version, to |-> st])

\* An audit entry records an event without moving the run.
LogAudit(k, v) ==
  /\ Fresh(k)
  /\ log' = Append(log, [key |-> k, kind |-> "audit", at |-> v, to |-> Same])
  /\ UNCHANGED <<status, version>>

LogNext ==
  \E k \in LogKeys :
    \/ \E v \in 0 .. version : LogAudit(k, v)
    \/ \E st \in Statuses \cup {Same} : LogTransition(k, st)

LogSpec == LogInit /\ [][LogNext]_logVars
=============================================================================
