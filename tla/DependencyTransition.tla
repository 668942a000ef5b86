------------------------ MODULE DependencyTransition ------------------------
(***************************************************************************)
(* The dependency_transition operation of an applied repair: the package   *)
(* that blocks the Angular update is uninstalled, the update is retried,   *)
(* the members of the package's compatibility bundle are installed one by  *)
(* one at exact versions, npm ci rebuilds the tree and the closure of      *)
(* manifest, lockfile and installed tree is verified.  Nodes               *)
(* dependency_transition, verify_repair and the share handle_prompt has in *)
(* it; DependencyTransitionRunner, the closure service and the policy that *)
(* authorizes the runner's commands.                                       *)
(*                                                                         *)
(* No phase is stored: the runner derives it from the command rows, their  *)
(* verification artifacts and the stage steps, and each pass of a node is  *)
(* one transaction, so a worker that dies in it leaves nothing behind.     *)
(***************************************************************************)
EXTENDS Integers, Sequences, FiniteSets, SequencesExt

CONSTANTS Members,      \* the bundle in install order, the blocking package last
          Optional,     \* members installed only where the manifest declares them
          Source,       \* where the evidence comes from: "installed" or "eresolve"
          MaxRequests,  \* bounds on restart requests and on changes of the workspace
          MaxDrift      \*   by someone else

\* A bundle with optional members has a required companion, like the one of the repository,
\* so the keys of its installs name the member in every pass.
ASSUME ConstantsAssumption ==
  /\ Members \in Seq(Range(Members)) /\ Members # <<>> /\ IsInjective(Members)
  /\ Optional \subseteq Range(Members) \ {Last(Members)}
  /\ Optional # {} => Range(Members) \ (Optional \cup {Last(Members)}) # {}
  /\ Source \in {"installed", "eresolve"}
  /\ {MaxRequests, MaxDrift} \subseteq Nat

VARIABLES ws,         \* per member what manifest and lockfile declare and what is installed
          bound,      \* workspace_fingerprint of the workspace binding
          cont,       \* the continuation row: status and current_node
          attempt,    \* status of the repair attempt
          exec,       \* command executions by idempotency key
          requested,  \* their keys in the order of requested_at
          ended,      \* and in the order of finished_at
          verified,   \* keys of commands whose effect has a verification artifact
          update,     \* status of step angular_update-0
          ci,         \* status of step final_install-0
          closed,     \* workspaces the closure was verified on
          budget      \* restart requests and foreign changes so far

vars == <<ws, bound, cont, attempt, exec, requested, ended, verified, update, ci, closed,
          budget>>

Packages == Range(Members)
Blocking == Last(Members)

Uninstall == <<"uninstall">>
Retry == <<"retry">>
Normalize == <<"normalize">>
CleanInstall == <<"ci">>
Install(i, p, g) == <<"install", i, p, g>>

\* The update of the Angular packages and their consistency are part of the content; what
\* the fingerprint sees leaves node_modules out.
Content == [declared : [Packages -> {"none", "old", "exact"}],
            installed : [Packages -> {"none", "old", "exact"}],
            core : {"old", "target"}, consistent : BOOLEAN]

Fingerprint(w) == [declared |-> w.declared, core |-> w.core]

ExecStatus == {"active", "succeeded", "failed", "eresolve"}

TypeOK ==
  /\ ws \in Content
  /\ bound \in [declared : [Packages -> {"none", "old", "exact"}], core : {"old", "target"}]
  /\ cont.status \in {"queued", "waiting_command", "blocked"}
  /\ cont.node \in {"dependency_transition", "handle_prompt", "verify_repair",
                    "target_inspection", "classify_failure"}
  /\ attempt \in {"executing", "applied_verified", "migration_retried"}
  /\ Range(requested) = DOMAIN exec /\ IsInjective(requested)
  /\ \A k \in DOMAIN exec : exec[k] \in ExecStatus
  /\ Range(ended) = {k \in DOMAIN exec : exec[k] # "active"}
  /\ verified \subseteq {k \in DOMAIN exec : exec[k] = "succeeded"}
  /\ update \in {"FAILED", "RUNNING", "PASSED"} /\ ci \in {"PENDING", "RUNNING", "PASSED"}
  /\ closed \subseteq Content

\* _apply_repair of a dependency_transition writes no file: the attempt executes on the
\* workspace of the failed update, and final_install starts over.
Init ==
  /\ \E d \in [Packages -> {"none", "old"}] :
       /\ d[Blocking] = "old"
       /\ ws = [declared |-> d, installed |-> d, core |-> "old", consistent |-> TRUE]
  /\ bound = Fingerprint(ws)
  /\ cont = [status |-> "queued", node |-> "dependency_transition"]
  /\ attempt = "executing"
  /\ exec = [k \in {} |-> "active"] /\ requested = <<>> /\ ended = <<>> /\ verified = {}
  /\ update = "FAILED" /\ ci = "PENDING"
  /\ closed = {}
  /\ budget = [requests |-> 0, drift |-> 0]

-----------------------------------------------------------------------------
(* What the runner reads. *)

At(n) == cont.status = "queued" /\ cont.node = n

\* compatible_reinstall_bundle, resolved anew in every pass from the manifest of now.
Bundle == {p \in Packages : p \notin Optional \/ ws.declared[p] # "none"}

\* The order of the bundle, and where a member stands in it: its index in transition_targets.
Rank(p) == CHOOSE i \in DOMAIN Members : Members[i] = p
Place(p) == Cardinality({q \in Bundle : Rank(q) <= Rank(p)})

Known(k) == k \in DOMAIN exec
Is(k, status) == Known(k) /\ exec[k] = status
Active == {k \in DOMAIN exec : exec[k] = "active"}

\* _install_executions and what is derived from them.
Installs == {k \in DOMAIN exec : k[1] = "install"}
MemberInstalls(i, p) == {k \in Installs : k[2] = i /\ k[3] = p}
Generation(k) == k[4]

\* The one of these commands that was requested last.
LatestIn(keys) == requested[Max({n \in DOMAIN requested : requested[n] \in keys})]

\* _next_install_key
NextInstall(i, p) ==
  Install(i, p, IF MemberInstalls(i, p) = {} THEN 1
                ELSE 1 + Max({Generation(k) : k \in MemberInstalls(i, p)}))

\* Mutant: an older normalization counts as well.
NormalizedEver(k) == Is(Normalize, "succeeded")

\* _normalization_succeeded_after: there is one row for it, so it runs once.
NormalizedAfter(k) ==
  /\ Is(Normalize, "succeeded")
  /\ \E i, j \in DOMAIN ended : ended[i] = k /\ ended[j] = Normalize /\ i < j

\* An install that npm refused with ERESOLVE, the first of its member.
Retriable(k) == Is(k, "eresolve") /\ Generation(k) = 1

InstallPhase ==
  IF Installs # {} /\ Retriable(LatestIn(Installs))
    THEN IF NormalizedAfter(LatestIn(Installs)) /\ ws.consistent THEN "reinstall"
                                                                  ELSE "normalize"
    ELSE "reinstall"

\* _current_phase; a verified command has succeeded.
Phase ==
  IF Uninstall \notin verified THEN "uninstall"
  ELSE IF update # "PASSED" THEN "angular_update"
  ELSE IF Installs = {} \/ LatestIn(Installs) \notin verified THEN InstallPhase
  ELSE IF ci # "PASSED" THEN "npm_ci" ELSE "closure"

\* verify_dependency_transition_evidence_for_source: a conflict npm reported needs the
\* package in the manifest only, one that was found installed needs the whole state.
EvidenceHolds ==
  /\ ws.declared[Blocking] # "none"
  /\ Source = "installed" => /\ ws.declared[Blocking] = "old"
                             /\ ws.installed[Blocking] = "old"

\* _valid_repair_dependency_transition
Authorized(k) ==
  /\ attempt = "executing"
  /\ k = Uninstall => EvidenceHolds
  /\ k[1] = "install" => k[3] \in Bundle

-----------------------------------------------------------------------------
(* The phases.  Each defines what becomes of the rows; blocked is the end of an error. *)

Rows == <<exec, requested>>

Queued(node) == cont' = [status |-> "queued", node |-> node]
Blocked == cont' = [cont EXCEPT !.status = "blocked"]
Wait(node) == cont' = [status |-> "waiting_command", node |-> node]

\* The row of a new command; one run has at most one active command.
Insert(k, node) ==
  IF Active = {}
    THEN /\ exec' = [x \in DOMAIN exec \cup {k} |-> IF x = k THEN "active" ELSE exec[x]]
         /\ requested' = Append(requested, k)
         /\ Wait(node)
    ELSE Blocked /\ UNCHANGED Rows

\* _queue_transition_command
QueueTransition(k) ==
  IF Authorized(k) THEN Insert(k, "dependency_transition")
                   ELSE Blocked /\ UNCHANGED Rows

Waits(k) == Is(k, "active") /\ Wait(cont.node) /\ UNCHANGED Rows
Fails(k) == Known(k) /\ exec[k] \in {"failed", "eresolve"} /\ Blocked /\ UNCHANGED Rows

\* _phase_uninstall with _verify_uninstall
PhaseUninstall ==
  /\ At("dependency_transition") /\ Phase = "uninstall"
  /\ \/ /\ ~Known(Uninstall)
        /\ QueueTransition(Uninstall)
        /\ UNCHANGED <<bound, verified>>
     \/ (Waits(Uninstall) \/ Fails(Uninstall)) /\ UNCHANGED <<bound, verified>>
     \/ /\ Is(Uninstall, "succeeded")
        /\ IF ws.declared[Blocking] = "none" /\ ws.installed[Blocking] = "none"
             THEN /\ verified' = verified \cup {Uninstall}
                  /\ bound' = Fingerprint(ws)
                  /\ Queued("dependency_transition")
             ELSE Blocked /\ UNCHANGED <<bound, verified>>
        /\ UNCHANGED Rows
  /\ UNCHANGED <<ws, attempt, ended, update, ci, closed, budget>>

\* Mutant: the retry does not look at the workspace.
AnyWorkspace == TRUE

\* queue_angular_update_retry runs on the governed workspace only.
GovernedWorkspace == Fingerprint(ws) = bound

\* _phase_update: the execution of the step is the failed update, so its one successor is
\* queued, and handle_prompt has the outcome.
PhaseUpdate ==
  /\ At("dependency_transition") /\ Phase = "angular_update"
  /\ IF GovernedWorkspace
       THEN Insert(Retry, "handle_prompt") /\ update' = IF Active = {} THEN "RUNNING" ELSE update
       ELSE Blocked /\ UNCHANGED <<exec, requested, update>>
  /\ UNCHANGED <<ws, bound, attempt, ended, verified, ci, closed, budget>>

\* _handle_prompt for the retry: a command still running is a failed one to it.
HandlePrompt ==
  /\ At("handle_prompt")
  /\ IF Is(Retry, "succeeded")
       THEN update' = "PASSED" /\ Queued("dependency_transition")
       ELSE update' = "FAILED" /\ Queued("classify_failure")
  /\ UNCHANGED <<ws, bound, attempt, exec, requested, ended, verified, ci, closed, budget>>

\* _phase_normalize_lockfile: a pass that finds the command succeeded queues the node again.
PhaseNormalize ==
  /\ At("dependency_transition") /\ Phase = "normalize"
  /\ \/ ~Known(Normalize) /\ QueueTransition(Normalize)
     \/ Waits(Normalize) \/ Fails(Normalize)
     \/ Is(Normalize, "succeeded") /\ Queued("dependency_transition") /\ UNCHANGED Rows
  /\ UNCHANGED <<ws, bound, attempt, ended, verified, update, ci, closed, budget>>

\* _verify_install: manifest, lockfile and tree agree on the exact version.
Exact(p) == ws.declared[p] = "exact" /\ ws.installed[p] = "exact"

LatestOf(p) == LatestIn(MemberInstalls(Place(p), p))
Started(p) == MemberInstalls(Place(p), p) # {}

\* Members the loop of _phase_install stops at: everything before the first is verified
\* again in the same transaction.
Unsettled == {p \in Bundle : ~(Started(p) /\ Is(LatestOf(p), "succeeded") /\ Exact(p))}
Settled == {p \in Bundle : \A q \in Unsettled : Rank(p) < Rank(q)}

StopsAt(p) ==
  LET k == LatestOf(p)
  IN  \/ ~Started(p) /\ QueueTransition(NextInstall(Place(p), p))
      \/ Started(p) /\ Waits(k)
      \/ /\ Started(p) /\ exec[k] # "active"
         /\ IF Retriable(k) /\ NormalizedAfter(k)
              THEN QueueTransition(NextInstall(Place(p), p))
              ELSE Blocked /\ UNCHANGED Rows

\* _phase_install with _verify_install
PhaseInstall ==
  /\ At("dependency_transition") /\ Phase = "reinstall"
  /\ verified' = verified \cup {LatestOf(p) : p \in Settled}
  /\ bound' = IF Settled = {} THEN bound ELSE Fingerprint(ws)
  /\ IF Unsettled = {}
       THEN Queued("dependency_transition") /\ UNCHANGED Rows
       ELSE \E p \in Unsettled : (\A q \in Unsettled : Rank(p) <= Rank(q)) /\ StopsAt(p)
  /\ UNCHANGED <<ws, attempt, ended, update, ci, closed, budget>>

\* _phase_ci with _verify_ci
PhaseCi ==
  /\ At("dependency_transition") /\ Phase = "npm_ci"
  /\ \/ /\ ~Known(CleanInstall)
        /\ Insert(CleanInstall, "dependency_transition")
        /\ ci' = IF Active = {} THEN "RUNNING" ELSE ci
        /\ UNCHANGED <<bound, verified>>
     \/ (Waits(CleanInstall) \/ Fails(CleanInstall)) /\ UNCHANGED <<bound, verified, ci>>
     \/ /\ Is(CleanInstall, "succeeded")
        /\ verified' = verified \cup {CleanInstall}
        /\ bound' = Fingerprint(ws)
        /\ ci' = "PASSED"
        /\ Queued("dependency_transition") /\ UNCHANGED Rows
  /\ UNCHANGED <<ws, attempt, ended, update, closed, budget>>

\* Mutant: the closure looks at the lockfile and not at what is installed.
ClosureOnPaper ==
  \A p \in Bundle : ws.declared[p] = "exact"

\* verify_dependency_closure over the Angular packages and the bundle.
ClosureHolds == ws.core = "target" /\ \A p \in Bundle : Exact(p)

\* _phase_closure
PhaseClosure ==
  /\ At("dependency_transition") /\ Phase = "closure"
  /\ IF Fingerprint(ws) = bound /\ ClosureHolds
       THEN /\ attempt' = "applied_verified"
            /\ closed' = closed \cup {ws}
            /\ Queued("verify_repair")
       ELSE Blocked /\ UNCHANGED <<attempt, closed>>
  /\ UNCHANGED <<ws, bound, exec, requested, ended, verified, update, ci, budget>>

\* Mutant: the verdict trusts the attempt's status.
TrustsStatus == attempt = "applied_verified"

StillCanonical == attempt = "applied_verified" /\ Fingerprint(ws) = bound

\* _verify_repair
VerifyRepair ==
  /\ At("verify_repair")
  /\ IF StillCanonical
       THEN attempt' = "migration_retried" /\ Queued("target_inspection")
       ELSE Blocked /\ UNCHANGED attempt
  /\ UNCHANGED <<ws, bound, exec, requested, ended, verified, update, ci, closed, budget>>

-----------------------------------------------------------------------------
(* npm, the worker's wake, requests, other writers. *)

\* What a command that exits with zero can make of the workspace.  A package may stay
\* where it was to be removed, an update may add or drop declarations, and a member may drag
\* another one along.
Without(f, dropped) == [p \in Packages |-> IF p \in dropped THEN "none" ELSE f[p]]

Removals ==
  {[ws EXCEPT !.declared[Blocking] = d, !.installed[Blocking] = t] :
     d, t \in {"none", ws.declared[Blocking]}}
Updates ==
  {[declared |-> Without(ws.declared, o), installed |-> Without(ws.installed, o),
    core |-> "target", consistent |-> c] :
     c \in BOOLEAN, o \in SUBSET Optional}
Normalizations == {[ws EXCEPT !.consistent = c] : c \in BOOLEAN}
Installations(p) ==
  {[ws EXCEPT !.declared[p] = "exact", !.installed[p] = t] : t \in {"exact", "old"}}
  \cup {[ws EXCEPT !.declared[p] = "exact", !.installed[p] = "exact", !.installed[q] = "old"] :
          q \in Packages \ {p, Blocking}}

Effects(k) ==
  CASE k = Uninstall -> Removals
    [] k = Retry -> Updates
    [] k = Normalize -> Normalizations
    [] k = CleanInstall -> {[ws EXCEPT !.installed = ws.declared]}
    [] k[1] = "install" -> Installations(k[3])

\* A failing command leaves the workspace alone or half changed; ERESOLVE comes before any
\* change.  A command lost with its worker is a failed one.
CommandEnds(k) ==
  /\ Is(k, "active")
  /\ \/ exec' = [exec EXCEPT ![k] = "succeeded"] /\ ws' \in Effects(k)
     \/ exec' = [exec EXCEPT ![k] = "failed"] /\ ws' \in Effects(k) \cup {ws}
     \/ k[1] = "install" /\ exec' = [exec EXCEPT ![k] = "eresolve"] /\ UNCHANGED ws
  /\ ended' = Append(ended, k)
  /\ UNCHANGED <<bound, cont, attempt, requested, verified, update, ci, closed, budget>>

\* The worker wakes the waiter of a command that ended.
Wake ==
  /\ cont.status = "waiting_command" /\ Active = {}
  /\ cont' = [cont EXCEPT !.status = "queued"]
  /\ UNCHANGED <<ws, bound, attempt, exec, requested, ended, verified, update, ci, closed, budget>>

\* The restart route queues a waiting or blocked row where it stands.
Restart ==
  /\ budget.requests < MaxRequests /\ cont.status # "queued"
  /\ cont' = [cont EXCEPT !.status = "queued"]
  /\ budget' = [budget EXCEPT !.requests = @ + 1]
  /\ UNCHANGED <<ws, bound, attempt, exec, requested, ended, verified, update, ci, closed>>

\* Somebody else changes what is declared or installed while no command runs.
Drift ==
  /\ budget.drift < MaxDrift /\ Active = {}
  /\ \E p \in Packages, v \in {"none", "old"} :
       \/ ws' = [ws EXCEPT !.declared[p] = v]
       \/ ws' = [ws EXCEPT !.installed[p] = v]
  /\ budget' = [budget EXCEPT !.drift = @ + 1]
  /\ UNCHANGED <<bound, cont, attempt, exec, requested, ended, verified, update, ci, closed>>

Node ==
  \/ PhaseUninstall \/ PhaseUpdate \/ HandlePrompt \/ PhaseNormalize \/ PhaseInstall
  \/ PhaseCi \/ PhaseClosure \/ VerifyRepair

Commands == \E k \in DOMAIN exec : CommandEnds(k)

Next == Node \/ Commands \/ Wake \/ Restart \/ Drift

Spec == Init /\ [][Next]_vars

-----------------------------------------------------------------------------
(* Properties. *)

\* The retry of the Angular update runs without the package that blocked it: it starts only
\* on a workspace whose detachment was verified and has not changed since, through every
\* restart and foreign change (_current_phase with queue_angular_update_retry).
UpdateRunsDetached ==
  Is(Retry, "active") => Uninstall \in verified /\ ws.declared[Blocking] = "none"

\* A member that npm cannot resolve is tried a second time and never a third, and only with
\* a lockfile that was normalized after its own failure.
InstallRetriedOnce ==
  \A k \in Installs :
    /\ Generation(k) <= 2
    /\ Generation(k) = 2 =>
         \E i, j \in DOMAIN ended :
           /\ ended[i] = [k EXCEPT ![4] = 1] /\ ended[j] = Normalize /\ i < j
           /\ \A n \in DOMAIN ended : ended[n] = k => j < n

\* The closure is verified on a tree in which every required member is declared and
\* installed at its exact version under the target Angular.
ClosedOnExactTree ==
  \A w \in closed :
    /\ w.core = "target"
    /\ \A p \in Packages \ Optional : w.declared[p] = "exact" /\ w.installed[p] = "exact"

\* A repair counts as retried only while manifest and lockfile are those of its closure,
\* although closure and verdict are two transactions.
AcceptedAsClosed ==
  [][attempt' = "migration_retried" /\ attempt # attempt' =>
       \E w \in closed : Fingerprint(ws) = Fingerprint(w)]_vars
=============================================================================
