---------------------------- MODULE MigrationRun ----------------------------
(***************************************************************************)
(* The runs and who owns a target directory: MigrationRunService.create    *)
(* and cancel, the claim on the target and the reservation of its          *)
(* preflight.  Runs that share a target come from one approved preflight.  *)
(*                                                                         *)
(* create reads before its first write opens the transaction, so other     *)
(* requests may commit between its checks and its commit.  The claim it    *)
(* has read is deleted by that first write, whatever its owner has become. *)
(* Lease times are left out: an expired reservation or claim only makes a  *)
(* request refused.                                                        *)
(***************************************************************************)
EXTENDS Integers, Sequences, FiniteSets

CONSTANTS Runs,      \* the runs that are ever requested
          Targets,   \* the output directories
          TargetOf   \* the directory a run is requested for

Nil == "none"

ASSUME OwnershipAssumption == TargetOf \in [Runs -> Targets] /\ Nil \notin Runs

VARIABLES status,       \* status of the runs
          claim,        \* active_run_claims: the owner of a target
          reservation,  \* status of the reservation of a target
          creating      \* requests between create's checks and its commit, each with
                        \*   the owner of the claim it has read

runVars == <<status, claim, reservation, creating>>

\* RunStatus as far as the run is taken here.
RunStatus == {"CREATED", "SOURCE_VALIDATION_RUNNING", "SOURCE_VALIDATED", "BASELINE_QUALIFIED",
              "PLANNING_RUNNING", "WAITING_PLAN_APPROVAL", "WAITING_STAGE_PREPARATION",
              "DIAGNOSTIC_HOLD", "FAILED", "CANCELLED"}

\* _MUTATING_STATUSES: nothing past the qualified baseline is in it.
Mutating == {"CREATED", "SOURCE_VALIDATION_RUNNING", "SOURCE_VALIDATED"}

Cancellable == {"CREATED", "SOURCE_VALIDATED"}

RunTypeOK ==
  /\ status \in [Runs -> RunStatus \cup {Nil}]
  /\ claim \in [Targets -> Runs \cup {Nil}]
  /\ reservation \in [Targets -> {"reserved", "claimed", "eligible"}]
  /\ creating \subseteq [run : Runs, owner : Runs \cup {Nil}]

RunInit ==
  /\ status = [r \in Runs |-> Nil]
  /\ claim = [t \in Targets |-> Nil]
  /\ reservation = [t \in Targets |-> "reserved"]
  /\ creating = {}

-----------------------------------------------------------------------------
\* The reservation a claim left behind counts as released.
Reservable(t) == claim[t] # Nil \/ reservation[t] \in {"reserved", "eligible"}

\* create up to its first write: no run is mutating and the target is free or its owner
\* is not at work any more.
CreateChecks(r) ==
  /\ status[r] = Nil /\ \A c \in creating : c.run # r
  /\ \A q \in Runs : status[q] \notin Mutating
  /\ Reservable(TargetOf[r])
  /\ creating' = creating \cup {[run |-> r, owner |-> claim[TargetOf[r]]]}
  /\ UNCHANGED <<status, claim, reservation>>

\* Mutant: the claim is not looked up again in the transaction.
TargetTakenUnchecked(c) == FALSE

\* The second look at the claim, after the run row is written.  The claim of the owner that
\* was read is gone by then: only one that came later, of a run at work, is in the way.
TargetTaken(c) ==
  LET owner == claim[TargetOf[c.run]] IN owner \notin {Nil, c.owner} /\ status[owner] \in Mutating

\* create from its first write to the commit, or refused with TARGET_OWNERSHIP_EXISTS.
CreateRun(c) ==
  /\ c \in creating
  /\ creating' = creating \ {c}
  /\ IF TargetTaken(c)
       THEN UNCHANGED <<status, claim, reservation>>
       ELSE /\ status' = [status EXCEPT ![c.run] = "CREATED"]
            /\ claim' = [claim EXCEPT ![TargetOf[c.run]] = c.run]
            /\ reservation' = [reservation EXCEPT ![TargetOf[c.run]] = "claimed"]

\* cancel, for a run without an active command.
CancelRun(r) ==
  /\ status[r] \in Cancellable
  /\ status' = [status EXCEPT ![r] = "CANCELLED"]
  /\ claim' = [t \in Targets |-> IF claim[t] = r THEN Nil ELSE claim[t]]
  /\ reservation' = [t \in Targets |-> IF claim[t] = r THEN "eligible" ELSE reservation[t]]
  /\ UNCHANGED creating

\* _validate_start_boundary: start and retry need the run's own claim.
OwnsTarget(r) == claim[TargetOf[r]] = r /\ reservation[TargetOf[r]] = "claimed"

=============================================================================
