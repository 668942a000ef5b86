---------------------------- MODULE StageWorkflow ---------------------------
(***************************************************************************)
(* A stage of the migration after its bootstrap: angular_update, prompts,  *)
(* target verification, G08, validation, the repair loop with G10, G11,    *)
(* sealing, the next stage and the end of the run.  The nodes of           *)
(* TransformerOrchestrator and TransformerSealingFlow with the services    *)
(* they call: TransformerStageService, ValidationRunner,                   *)
(* LockfileGenerationRunner, FailureEvidenceService, StageGateService,     *)
(* StageSealingService, RepairLifecycleService.                            *)
(*                                                                         *)
(* A node runs in one transaction unless pc says otherwise; who owns the   *)
(* continuation row and how it is claimed is Continuation's subject, how a *)
(* command runs CommandLifecycle's, how a proposal is obtained from the    *)
(* model RepairCalls', the dependency_transition operation                 *)
(* DependencyTransition's.                                                 *)
(*                                                                         *)
(* A workspace is a number that grows with every change.  Checkpoints are  *)
(* lightweight: a row with a fingerprint, whose snapshot is the workspace  *)
(* itself, so a reconstruction succeeds only where nothing has changed.    *)
(***************************************************************************)
EXTENDS Integers, Sequences, FiniteSets, SequencesExt

CONSTANTS NumStages,     \* stages of the approved route
          Codes,         \* failure codes that route to repairable_source
          Ops,           \* what a repair proposal may do: "source", "dependency"
          Template,      \* version of the planned Angular update command, 2 or 3
          MaxTries,      \* max_attempts of the continuation
          MaxApplied,    \* repair_policy.max_applied
          RetryBudget,   \* repair policy's bound on attempts of one command
          MaxFailures,   \* bounds on failing commands, prompts, worker crashes,
          MaxPrompts,    \*   requests to restart or to revise a repair
          MaxCrashes,
          MaxRequests

ASSUME ConstantsAssumption ==
  /\ {NumStages, MaxTries, MaxApplied, RetryBudget} \subseteq Nat \ {0}
  /\ {MaxFailures, MaxPrompts, MaxCrashes, MaxRequests} \subseteq Nat
  /\ Template \in {2, 3} /\ Ops \subseteq {"source", "dependency"}
  /\ Codes \cap {"none", "update_failed", "transient", "permanent", "lost", "dirty",
                 "prompt", "mutated", "stale", "incomplete"} = {}

VARIABLES ws,        \* the workspace: its fingerprint and that without package-lock.json
          bound,     \* workspace_fingerprint of the stage's workspace binding
          stage,     \* position of the current stage in the route
          cont,      \* the continuation row
          pc,        \* a node of several transactions is under way
          execs,     \* command executions of the stage by idempotency key
          latest,    \* key of the execution requested last
          steps,     \* stage steps
          prompt,    \* the stage's prompt request
          attempts,  \* repair attempts of the stage, by attempt_number
          post,      \* fingerprint of the newest post_repair checkpoint, 0 if none
          gates,     \* newest package of G08 and G11
          seals,     \* per sealed stage: its content and what was approved
          budget     \* failures, prompts, crashes, requests so far

vars == <<ws, bound, stage, cont, pc, execs, latest, steps, prompt, attempts, post, gates,
          seals, budget>>

Validation == <<"final_install", "builds", "tests">>
Groups == {"angular_update", "target", "lockfile"} \cup Range(Validation)

NoKey == <<"none", "none", 0>>
NoCheckpoint == [kind |-> "none", fp |-> 0]

NodeOf == [final_install |-> "final_install", builds |-> "build", tests |-> "test"]

\* RepairLifecycleService's ACTIVE_REPAIR_STATUSES.
ActiveRepair ==
  {"evidence_frozen", "proposed", "review_accepted", "waiting_g10", "revalidating",
   "revalidating_affected"}

\* An applied repair that still has to be validated.
AppliedRepair == {"applied_verified", "migration_retried", "revalidating"}

AttemptStatuses ==
  ActiveRepair \cup AppliedRepair \cup
  {"request_changes", "rejected", "superseded", "approved_pending_execution", "executing",
   "apply_failed", "apply_recovery_required", "waiting_g11", "validation_passed",
   "validation_failed"}

Gates == {"G08", "G11"}
NoGate == [status |-> "none", fp |-> 0]

\* The nodes a stage runs through after its bootstrap.
StageNodes ==
  {"prepare_workspace", "angular_update", "handle_prompt", "wait_prompt_decision",
   "angular_update_retry", "target_inspection", "version_verify", "wait_g08", "final_install",
   "build", "test", "aggregate_validation", "wait_g11", "classify_failure", "propose_repair",
   "review_repair", "create_g10", "wait_g10", "apply_repair", "lockfile_generation",
   "repair_revalidate", "seal_stage", "materialize_next_stage", "complete_run", "terminal"}

\* Failure codes of a command.
CommandCodes == Codes \cup {"none", "transient", "permanent", "lost", "dirty", "prompt"}

\* What the row reports: a failure to classify, or why it is blocked.
Errors ==
  CommandCodes \cup {"update_failed", "mutated", "stale", "incomplete"} \cup
  {"apply_failed", "approval_required", "attempt_limit", "dependency_verification",
   "evidence_missing", "explanation_failed", "gate_invariant", "integrity", "lineage_missing",
   "lineage_stale", "lockfile_failed", "lockfile_mutation", "lockfile_stale",
   "materialize_refused", "proposal_failed", "proposal_stale", "queue_failed",
   "recovery_failed", "recovery_required", "rejected", "repair_missing", "retry_invalid",
   "retry_refused", "review_failed", "review_rejected", "route_held", "route_transient",
   "target_check_failed", "unsupported", "version_evidence", "work_remains"}

Key(group, kind, n) == <<group, kind, n>>

Exec == [status : {"active", "succeeded", "failed"}, code : CommandCodes, prompt : Nat,
         ckpt : [kind : {"none", "pre_angular_update", "post_repair"}, fp : Nat],
         parent : BOOLEAN, try : Nat, template : {2, 3}, start : Nat, wrote : BOOLEAN]

TypeOK ==
  /\ ws \in [all : Nat, src : Nat] /\ bound \in Nat /\ stage \in 1 .. NumStages
  /\ cont \in [status : {"queued", "running", "waiting_command", "waiting_gate",
                         "waiting_prompt", "waiting_retry", "blocked", "completed"},
               node : StageNodes, tries : 0 .. MaxTries, waiting : DOMAIN execs \cup {NoKey},
               error : Errors]
  /\ pc \in {"idle", "claimed", "patched", "copied"}
  /\ \A k \in DOMAIN execs : execs[k] \in Exec
  /\ latest \in DOMAIN execs \cup {NoKey}
  /\ steps \in [Groups -> [status : {"PENDING", "RUNNING", "PASSED", "FAILED"},
                           key : DOMAIN execs \cup {NoKey}, fp : Nat]]
  /\ \A i \in DOMAIN attempts :
       /\ attempts[i].status \in AttemptStatuses
       /\ attempts[i].op \in Ops \cup {"none"}
       /\ attempts[i].g10 \in {"none", "pending", "approved", "rejected", "stale"}
  /\ post \in Nat
  /\ gates \in [Gates -> [status : {"none", "pending", "approved", "rejected"}, fp : Nat]]
  /\ Len(seals) \in stage - 1 .. stage

FreshSteps == [g \in Groups |-> [status |-> "PENDING", key |-> NoKey, fp |-> 0]]
NoPrompt == [status |-> "none", answered |-> FALSE, ckpt |-> NoCheckpoint]

NoExecs == [k \in {} |-> NoKey]
NoGates == [g \in Gates |-> NoGate]

Init ==
  /\ ws = [all |-> 1, src |-> 1] /\ bound = 1 /\ stage = 1
  /\ cont = [status |-> "queued", node |-> "prepare_workspace", tries |-> 0,
             waiting |-> NoKey, error |-> "none"]
  /\ pc = "idle"
  /\ execs = NoExecs /\ latest = NoKey /\ steps = FreshSteps /\ prompt = NoPrompt
  /\ attempts = <<>> /\ post = 0 /\ gates = NoGates /\ seals = <<>>
  /\ budget = [failures |-> 0, prompts |-> 0, crashes |-> 0, requests |-> 0]

-----------------------------------------------------------------------------
(* The continuation row, and what the nodes read. *)

\* Some worker claims the row at node n: queued, due for a retry, or left running by a
\* worker whose lease ran out.
At(n) == /\ pc = "idle" /\ cont.node = n
         /\ cont.status \in {"queued", "running", "waiting_retry"}

\* _queue
Queued(node) == [cont EXCEPT !.status = "queued", !.node = node]

\* _validation_failure, and the failing end of handle_prompt and advance_group
FailedWith(code) == [Queued("classify_failure") EXCEPT !.error = code]

\* _block; a TransformerStageError or StageGateError of a node ends here through fail
Block(code) == cont' = [cont EXCEPT !.status = "blocked", !.error = code]

WaitingFor(k, node) ==
  [cont EXCEPT !.status = "waiting_command", !.node = node, !.waiting = k]

WaitingAt(g) ==
  [cont EXCEPT !.status = "waiting_gate",
               !.node = CASE g = "G08" -> "wait_g08" [] g = "G10" -> "wait_g10"
                          [] g = "G11" -> "wait_g11"]

Active == {k \in DOMAIN execs : execs[k].status = "active"}

\* Mutant: the unique index on active commands is missing.
CanInsertAlways(k) == TRUE

\* queue_authorized_command replays an existing key; a new row is refused by the unique
\* index uq_command_executions_active_run while another command of the run is active.
CanInsert(k) == k \in DOMAIN execs \/ Active = {}

\* The row queue_authorized_command or queue_retry_execution leaves for key k, and the
\* checkpoint, prompt and start fingerprint its caller assigns to it, new or not.
Inserted(k, parent, try, template, ckpt, prm, start) ==
  [x \in DOMAIN execs \cup {k} |->
     IF x # k THEN execs[x]
     ELSE IF k \in DOMAIN execs
       THEN [execs[k] EXCEPT !.ckpt = ckpt, !.prompt = prm, !.start = start]
       ELSE [status |-> "active", code |-> "none", prompt |-> prm, ckpt |-> ckpt,
             parent |-> parent, try |-> try, template |-> template, start |-> start,
             wrote |-> FALSE]]

RequestedLast(k) == IF k \in DOMAIN execs THEN latest ELSE k

Running(g, k) == [steps EXCEPT ![g].status = "RUNNING", ![g].key = k]

\* Steps an applied repair or a revalidation starts over.
Reset(groups) ==
  [g \in Groups |-> IF g \in groups
                      THEN [steps[g] EXCEPT !.status = "PENDING", !.key = NoKey]
                      ELSE steps[g]]

UpdateExec == execs[steps["angular_update"].key]
HasUpdate == steps["angular_update"].key # NoKey

\* _latest_repair: 0 stands for REPAIR_ATTEMPT_MISSING.
LatestRepair ==
  LET live == {i \in DOMAIN attempts : attempts[i].status # "superseded"}
  IN  IF live = {} THEN 0 ELSE Max(live)

LatestStatus == IF attempts = <<>> THEN "none" ELSE Last(attempts).status

SetStatus(i, s) == [attempts EXCEPT ![i].status = s]

\* _validation_attempt_key: 0 stands for "initial".
AttemptKey ==
  IF LatestRepair # 0 /\ attempts[LatestRepair].status \in AppliedRepair
    THEN LatestRepair ELSE 0

\* _is_angular_update_failure
IsUpdateFailure == HasUpdate /\ steps["angular_update"].status = "FAILED"

\* _angular_update_retry_eligible; an interrupted or timed out update is a failed one.
RetryEligible ==
  IsUpdateFailure /\ UpdateExec.prompt = 0 /\ UpdateExec.status = "failed"

\* _angular_update_reconstruction_checkpoint: the checkpoint the execution is bound to, if
\* it agrees with the workspace binding; 0 stands for none.
ReconstructionCheckpoint ==
  IF HasUpdate /\ UpdateExec.ckpt.kind # "none" /\ UpdateExec.ckpt.fp = bound
    THEN UpdateExec.ckpt.fp ELSE 0

\* reconstruct_workspace: a lightweight checkpoint must find the workspace unchanged.
Reconstructable(fp) == fp = ws.all

\* authoritative_checkpoint_fingerprint: the tree of the checkpoint, which is the workspace,
\* still has the fingerprint the checkpoint was taken with.
Authoritative(fp) == fp = ws.all

\* begin_reconstruction: the binding still agrees with the checkpoint.
MayReconstruct(fp) == bound = fp

\* _restore_angular_update_checkpoint: an applied repair has a checkpoint of its own.
CanRestore ==
  LET fp == IF LatestStatus \in {"approved_pending_execution", "executing", "applied_verified"}
              THEN Last(attempts).post ELSE ReconstructionCheckpoint
  IN  ws.all = bound /\ MayReconstruct(fp) /\ Reconstructable(fp)

-----------------------------------------------------------------------------
(* Commands of the stage. *)

\* A mutating command changes the workspace: the update its sources, the lockfile command
\* package-lock.json, an install, build or test only what lies under the volatile names,
\* which both fingerprint profiles leave out; unless the command misbehaves.
CommandWrites(k) ==
  /\ k \in Active /\ ~execs[k].wrote /\ k[1] # "target"
  /\ \/ /\ ws' = [all |-> IF k[1] \in Range(Validation) THEN ws.all ELSE ws.all + 1,
                 src |-> IF k[1] = "angular_update" THEN ws.src + 1 ELSE ws.src]
        /\ UNCHANGED budget
     \/ /\ k[1] # "angular_update" /\ budget.failures < MaxFailures
        /\ ws' = [all |-> ws.all + 1, src |-> ws.src + 1]
        /\ budget' = [budget EXCEPT !.failures = @ + 1]
  /\ execs' = [execs EXCEPT ![k].wrote = TRUE]
  /\ UNCHANGED <<bound, stage, cont, pc, latest, steps, prompt, attempts, post, gates, seals>>

\* A dirty-workspace failure needs a command without --allow-dirty; a lost command is
\* told apart where a target check decides about its recovery.  A command that succeeds
\* has written.
FailureCodes(k) ==
  Codes \cup {"transient", "permanent"}
    \cup IF k[1] = "target" THEN {"lost"} ELSE {}
    \cup IF k[1] = "angular_update" /\ execs[k].template = 2 THEN {"dirty"} ELSE {}

CommandEnds(k) ==
  /\ k \in Active
  /\ \/ /\ execs[k].wrote \/ k[1] = "target"
        /\ execs' = [execs EXCEPT ![k].status = "succeeded"]
        /\ UNCHANGED budget
     \/ /\ budget.failures < MaxFailures
        /\ budget' = [budget EXCEPT !.failures = @ + 1]
        /\ \E c \in FailureCodes(k) :
             execs' = [execs EXCEPT ![k].status = "failed", ![k].code = c]
  /\ UNCHANGED <<ws, bound, stage, cont, pc, latest, steps, prompt, attempts, post, gates,
                 seals>>

\* TransformerPromptService.capture: the process is terminated.
PromptCaptured(k) ==
  /\ k \in Active /\ k[1] = "angular_update" /\ execs[k].prompt = 0
  /\ budget.prompts < MaxPrompts
  /\ budget' = [budget EXCEPT !.prompts = @ + 1]
  /\ prompt' = [status |-> "detected", answered |-> FALSE, ckpt |-> execs[k].ckpt]
  /\ execs' = [execs EXCEPT ![k].status = "failed", ![k].code = "prompt",
                            ![k].prompt = budget.prompts + 1]
  /\ UNCHANGED <<ws, bound, stage, cont, pc, latest, steps, attempts, post, gates, seals>>

\* The worker wakes the waiter of a terminal command.
Wake ==
  /\ cont.status = "waiting_command" /\ cont.waiting \notin Active
  /\ cont' = Queued(cont.node)
  /\ UNCHANGED <<ws, bound, stage, pc, execs, latest, steps, prompt, attempts, post, gates,
                 seals, budget>>

-----------------------------------------------------------------------------
(* Angular update, prompts, target verification. *)

\* prepare_workspace to verify_bootstrap (Continuation): the workspace holds the sealed
\* output of the previous stage with its bootstrap install, and the binding says so.
PrepareStage ==
  /\ At("prepare_workspace")
  /\ ws' = [all |-> ws.all + 1, src |-> ws.src + 1]
  /\ bound' = ws.all + 1
  /\ cont' = Queued("angular_update")
  /\ UNCHANGED <<stage, pc, execs, latest, steps, prompt, attempts, post, gates, seals, budget>>

\* _angular_update: a decided prompt reuses its checkpoint and gives the key its name.
AngularUpdate ==
  LET decided == prompt.status = "decided"
      k == IF decided THEN Key("angular_update", "prompt", budget.prompts)
                      ELSE Key("angular_update", "initial", 0)
      ckpt == IF decided THEN prompt.ckpt
                         ELSE [kind |-> "pre_angular_update", fp |-> ws.all]
      prm == IF decided THEN budget.prompts ELSE 0
  IN  /\ At("angular_update")
      /\ IF CanInsert(k)
           THEN /\ execs' = Inserted(k, FALSE, 1, Template, ckpt, prm, 0)
                /\ latest' = RequestedLast(k)
                /\ steps' = Running("angular_update", k)
                /\ cont' = WaitingFor(k, "handle_prompt")
           ELSE Block("queue_failed") /\ UNCHANGED <<execs, latest, steps>>
      /\ UNCHANGED <<ws, bound, stage, pc, prompt, attempts, post, gates, seals, budget>>

\* _handle_prompt without a prompt, the update succeeded: _latest_repair raises where no
\* repair attempt exists, and the transaction is lost.
UpdateSucceeded ==
  /\ At("handle_prompt") /\ HasUpdate
  /\ UpdateExec.prompt = 0 /\ UpdateExec.status = "succeeded"
  /\ IF LatestRepair = 0
       THEN Block("repair_missing") /\ UNCHANGED <<steps, attempts>>
       ELSE /\ steps' = [steps EXCEPT !["angular_update"].status = "PASSED"]
            /\ attempts' = IF attempts[LatestRepair].status = "applied_verified"
                             THEN SetStatus(LatestRepair, "migration_retried") ELSE attempts
            /\ cont' = Queued("target_inspection")
  /\ UNCHANGED <<ws, bound, stage, pc, execs, latest, prompt, post, gates, seals, budget>>

\* _handle_prompt without a prompt, the update did not succeed (it may still run when the
\* row was restarted).
UpdateFailed ==
  /\ At("handle_prompt") /\ HasUpdate
  /\ UpdateExec.prompt = 0 /\ UpdateExec.status # "succeeded"
  /\ steps' = [steps EXCEPT !["angular_update"].status = "FAILED"]
  /\ cont' = FailedWith(IF UpdateExec.code = "none" THEN "update_failed" ELSE UpdateExec.code)
  /\ UNCHANGED <<ws, bound, stage, pc, execs, latest, prompt, attempts, post, gates, seals,
                 budget>>

\* PromptExplanationService.explain: without an explanation no answer is asked for.
Explained ==
  \/ /\ prompt' = [prompt EXCEPT !.status = "waiting_human"]
     /\ cont' = [cont EXCEPT !.status = "waiting_prompt", !.node = "wait_prompt_decision"]
  \/ Block("explanation_failed") /\ UNCHANGED prompt

\* _handle_prompt with a prompt.  For a checkpoint of another kind the call of _block
\* lacks its session argument: the TypeError leaves the row running, to be claimed again.
FreezePrompt ==
  /\ At("handle_prompt") /\ HasUpdate /\ UpdateExec.prompt # 0
  /\ \/ /\ prompt.ckpt.kind # "pre_angular_update"
        /\ cont' = [cont EXCEPT !.status = "running"]
        /\ UNCHANGED <<prompt, bound>>
     \/ /\ prompt.ckpt.kind = "pre_angular_update"
        /\ prompt.ckpt.fp # bound \/ prompt.ckpt.fp # ws.all
        /\ Block("integrity") /\ UNCHANGED <<prompt, bound>>
     \/ /\ prompt.ckpt.kind = "pre_angular_update"
        /\ prompt.ckpt.fp = bound /\ bound = ws.all
        /\ Explained /\ UNCHANGED bound
  /\ UNCHANGED <<ws, stage, pc, execs, latest, steps, attempts, post, gates, seals, budget>>

\* TransformerPromptService.decide: once per prompt.
Answerable == prompt.status = "waiting_human" /\ ~prompt.answered

DecidePrompt ==
  /\ Answerable /\ pc = "idle"
  /\ prompt' = [prompt EXCEPT !.status = "decided", !.answered = TRUE]
  /\ cont' = Queued("angular_update")
  /\ UNCHANGED <<ws, bound, stage, pc, execs, latest, steps, attempts, post, gates, seals,
                 budget>>

\* _queue_group for a command that is not bound to a checkpoint.
QueueGroup(g, k, parent, try, node) ==
  IF CanInsert(k)
    THEN /\ execs' = Inserted(k, parent, try, 3, NoCheckpoint, 0, ws.src)
         /\ latest' = RequestedLast(k)
         /\ steps' = Running(g, k)
         /\ cont' = WaitingFor(k, node)
    ELSE Block("queue_failed") /\ UNCHANGED <<execs, latest, steps>>

TargetInspection ==
  /\ At("target_inspection")
  /\ QueueGroup("target", Key("target", "attempt", AttemptKey), FALSE, 1, "version_verify")
  /\ UNCHANGED <<ws, bound, stage, pc, prompt, attempts, post, gates, seals, budget>>

\* StageGateService.create: a pending package with the same binding is returned as it is.
CreateGate(g, fp) ==
  IF gates[g].status = "pending"
    THEN /\ UNCHANGED gates
         /\ cont' = [cont EXCEPT !.status = IF gates[g].fp = fp THEN "running" ELSE "blocked"]
    ELSE /\ gates' = [gates EXCEPT ![g] = [status |-> "pending", fp |-> fp]]
         /\ cont' = [WaitingAt(g) EXCEPT !.error = IF g = "G08" THEN "none" ELSE @]

\* AngularTransformationEvidenceService.build: the workspace shows the target version, or
\* it does not.
TargetEvidence ==
  \/ /\ bound' = ws.all
     /\ steps' = [steps EXCEPT !["target"].status = "PASSED", !["target"].fp = ws.all]
     /\ CreateGate("G08", ws.all)
  \/ Block("version_evidence") /\ UNCHANGED <<bound, steps, gates>>

\* _version_verify: a lost check is queued once more, another failure blocks, and verified
\* evidence becomes the G08 package of the workspace as it is now.
VersionVerify ==
  LET x == execs[steps["target"].key]
  IN  /\ At("version_verify")
      /\ \/ /\ ~HasUpdate \/ UpdateExec.ckpt.kind = "none"
            /\ Block("evidence_missing")
            /\ UNCHANGED <<bound, execs, latest, steps, gates>>
         \/ /\ HasUpdate /\ UpdateExec.ckpt.kind # "none"
            /\ x.status = "failed" /\ x.code = "lost" /\ ~x.parent
            /\ QueueGroup("target", Key("target", "recovery", AttemptKey), TRUE, 2,
                          "version_verify")
            /\ UNCHANGED <<bound, gates>>
         \/ /\ HasUpdate /\ UpdateExec.ckpt.kind # "none"
            /\ x.status # "succeeded" /\ ~(x.code = "lost" /\ ~x.parent)
            /\ Block("target_check_failed")
            /\ UNCHANGED <<bound, execs, latest, steps, gates>>
         \/ /\ HasUpdate /\ UpdateExec.ckpt.kind # "none" /\ x.status = "succeeded"
            /\ TargetEvidence
            /\ UNCHANGED <<execs, latest>>
      /\ UNCHANGED <<ws, stage, pc, prompt, attempts, post, seals, budget>>

-----------------------------------------------------------------------------
(* Validation. *)

\* advance_group on a group whose step has no execution: the command is queued with the
\* source fingerprint of now.  An insert beside an active command poisons the session and
\* the exception ends the worker's iteration; the row is claimed again after its lease.
QueueValidation(st, g, k, node) ==
  /\ CanInsert(k)
  /\ execs' = Inserted(k, FALSE, 1, 3, NoCheckpoint, 0, ws.all)
  /\ latest' = RequestedLast(k)
  /\ steps' = [st EXCEPT ![g].status = "RUNNING", ![g].key = k]
  /\ cont' = WaitingFor(k, node)

\* advance_group on a group that has an execution which is still active or failed, or
\* succeeded but changed source or configuration files.
StillRunning(g) ==
  /\ steps[g].key \in Active
  /\ cont' = WaitingFor(steps[g].key, cont.node)
  /\ UNCHANGED steps

GroupFailed(g) ==
  \/ /\ execs[steps[g].key].status = "failed"
     /\ steps' = [steps EXCEPT ![g].status = "FAILED"]
     /\ cont' = FailedWith(execs[steps[g].key].code)
  \/ /\ execs[steps[g].key].status = "succeeded"
     /\ execs[steps[g].key].start # ws.all
     /\ cont' = FailedWith("mutated")
     /\ UNCHANGED steps

\* Mutant: the sources are not compared after a validation command.
GroupSucceededAnyway(g) == steps[g].key # NoKey /\ execs[steps[g].key].status = "succeeded"

\* The command succeeded and left the sources alone.
GroupSucceeded(g) ==
  /\ steps[g].key # NoKey /\ execs[steps[g].key].status = "succeeded"
  /\ execs[steps[g].key].start = ws.all

Passed(g) == [steps EXCEPT ![g].status = "PASSED", ![g].fp = ws.all]

\* advance_group for the one group of node final_install, build or test.
AdvanceGroup(g, next) ==
  \/ /\ steps[g].status = "PASSED"
     /\ cont' = Queued(next)
     /\ UNCHANGED <<bound, execs, latest, steps>>
  \/ /\ steps[g].status # "PASSED" /\ steps[g].key = NoKey
     /\ QueueValidation(steps, g, Key(g, "attempt", AttemptKey), cont.node)
     /\ UNCHANGED bound
  \/ /\ steps[g].status # "PASSED" /\ steps[g].key # NoKey
     /\ StillRunning(g) \/ (~GroupSucceeded(g) /\ GroupFailed(g))
     /\ UNCHANGED <<bound, execs, latest>>
  \/ /\ steps[g].status # "PASSED" /\ GroupSucceeded(g)
     /\ steps' = Passed(g)
     /\ bound' = ws.all
     /\ cont' = Queued(next)
     /\ UNCHANGED <<execs, latest>>

\* _final_install, _build, _test
Validate(g) ==
  /\ At(NodeOf[g])
  /\ AdvanceGroup(g, CASE g = "final_install" -> "build" [] g = "builds" -> "test"
                       [] g = "tests" -> "aggregate_validation")
  /\ UNCHANGED <<ws, stage, pc, prompt, attempts, post, gates, seals, budget>>

IncompleteGroups == {g \in Range(Validation) : steps[g].status # "PASSED"}

\* The manifest and lockfile do not show what a dependency repair promised.
DependencyUnverified(i) ==
  attempts[i].op = "dependency" /\ Block("dependency_verification")

\* _aggregate_validation: the newest applied repair waits for G11; a dependency repair is
\* verified against the lockfile first.
AggregateValidation ==
  LET open == {i \in DOMAIN attempts : attempts[i].status \in AppliedRepair}
      r == Max(open)
  IN  /\ At("aggregate_validation")
      /\ IF IncompleteGroups # {} THEN cont' = FailedWith("incomplete")
                                       /\ UNCHANGED <<attempts, gates>>
         ELSE IF ws.all # bound THEN cont' = FailedWith("stale")
                                     /\ UNCHANGED <<attempts, gates>>
         ELSE \/ /\ attempts' = IF open = {} THEN attempts ELSE SetStatus(r, "waiting_g11")
                 /\ CreateGate("G11", ws.all)
              \/ /\ open # {} /\ DependencyUnverified(r)
                 /\ UNCHANGED <<attempts, gates>>
      /\ UNCHANGED <<ws, bound, stage, pc, execs, latest, steps, prompt, post, seals, budget>>

-----------------------------------------------------------------------------
(* Gates G08 and G11. *)

\* StageGateService.decide and its route: a pending package the continuation waits for,
\* bound to the workspace as it is now.
Decidable(g) ==
  gates[g].status = "pending" /\ cont = WaitingAt(g) /\ ws.all = gates[g].fp

ApproveGate(g) ==
  /\ Decidable(g)
  /\ gates' = [gates EXCEPT ![g].status = "approved"]
  /\ cont' = Queued(IF g = "G08" THEN "final_install" ELSE "seal_stage")
  /\ attempts' = IF g = "G11" /\ attempts # <<>>
                   THEN SetStatus(Len(attempts), "validation_passed") ELSE attempts
  /\ UNCHANGED <<ws, bound, stage, pc, execs, latest, steps, prompt, post, seals, budget>>

RejectGate(g) ==
  /\ Decidable(g)
  /\ gates' = [gates EXCEPT ![g].status = "rejected"]
  /\ Block("rejected")
  /\ attempts' = IF g = "G11" /\ attempts # <<>>
                   THEN SetStatus(Len(attempts), "validation_failed") ELSE attempts
  /\ UNCHANGED <<ws, bound, stage, pc, execs, latest, steps, prompt, post, seals, budget>>

\* wait_g08, wait_g10, wait_g11 and wait_prompt_decision are not nodes advance knows: a
\* row restarted there is blocked.
UnsupportedNode ==
  /\ \E n \in {"wait_g08", "wait_g10", "wait_g11", "wait_prompt_decision"} : At(n)
  /\ Block("unsupported")
  /\ UNCHANGED <<ws, bound, stage, pc, execs, latest, steps, prompt, attempts, post, gates,
                 seals, budget>>

-----------------------------------------------------------------------------
(* Failure classification. *)

\* collect: the error code of the continuation and what the execution requested last says.
Failure ==
  [error |-> cont.error, group |-> latest[1],
   code |-> IF latest = NoKey THEN "none" ELSE execs[latest].code]

NoProgress == \E i \in DOMAIN attempts : attempts[i].failure = Failure

\* FailureEvidenceService.classify.
Route ==
  CASE NoProgress -> "no_progress"
    [] ~NoProgress /\ Failure.group = "angular_update" /\ Failure.code = "dirty"
         -> "command_policy"
    [] OTHER -> CASE cont.error = "transient" -> "transient"
                  [] cont.error \in {"permanent", "prompt"} -> cont.error
                  [] cont.error \in {"mutated", "stale"} -> "policy"
                  [] cont.error = "incomplete" -> "non_repairable"
                  [] OTHER -> "repairable"

\* Executions with a parent: retries of the update and recoveries of the target check.
Successors == {k \in DOMAIN execs : execs[k].parent}

\* _repair_completed: applied, in one of the counted statuses, and, where the update was
\* retried, created before the newest successor was requested.
RepairCompleted(i) ==
  /\ attempts[i].post # 0 /\ attempts[i].g10 = "approved"
  /\ attempts[i].status \in {"revalidating_affected", "revalidating", "migration_retried",
                             "waiting_g11"}
  /\ HasUpdate /\ UpdateExec.parent => Cardinality(Successors) > attempts[i].born

\* repair_budget; consumed_attempts never exceeds consumed_applied.
BudgetSpent == Cardinality({i \in DOMAIN attempts : RepairCompleted(i)}) >= MaxApplied

\* write, write_context_pack: what is known of the failure, and of the workspace it is to be
\* repaired in.
FrozenEvidence == [pre |-> ws.all, failure |-> Failure]

\* A revision replaces its parent, 0 for none, on the parent's evidence.
NewAttempt(evidence, parent) ==
  [status |-> "evidence_frozen", op |-> "none", review |-> "none", g10 |-> "none",
   pre |-> evidence.pre, post |-> 0, failure |-> evidence.failure,
   born |-> Cardinality(Successors), patches |-> 0, parent |-> parent]

\* Evidence is frozen on the bound workspace only; a failed update is restored first.
EvidenceFreezable ==
  LET restores == /\ IsUpdateFailure
                  /\ LatestStatus = "applied_verified" \/ ReconstructionCheckpoint # 0
  IN  ws.all = bound /\ (restores => CanRestore)

\* A repairable failure starts a repair attempt while the budget lasts.
ClassifyRepairable ==
  /\ At("classify_failure") /\ Route = "repairable"
  /\ IF ~EvidenceFreezable THEN Block("recovery_failed") /\ UNCHANGED attempts
     ELSE IF BudgetSpent THEN Block("attempt_limit") /\ UNCHANGED attempts
     ELSE /\ attempts' = Append(attempts, NewAttempt(FrozenEvidence, 0))
          /\ cont' = Queued("propose_repair")
  /\ UNCHANGED <<ws, bound, stage, pc, execs, latest, steps, prompt, post, gates, seals, budget>>

TriesExhausted == cont.tries >= MaxTries

\* A transient failure: the update is queued again after a restore, a validation failure
\* waits to try final_install again.
ClassifyTransient ==
  /\ At("classify_failure") /\ Route = "transient"
  /\ IF TriesExhausted THEN Block("route_transient")
     ELSE IF ~IsUpdateFailure
       THEN cont' = [cont EXCEPT !.tries = @ + 1, !.status = "waiting_retry",
                                 !.node = "final_install"]
     ELSE IF CanRestore THEN cont' = [Queued("angular_update") EXCEPT !.tries = @ + 1]
     ELSE Block("recovery_failed")
  /\ UNCHANGED <<ws, bound, stage, pc, execs, latest, steps, prompt, attempts, post, gates,
                 seals, budget>>

\* The checkpoint a retry is bound to: the newest post_repair one, else its parent's.
RetryCheckpoint(newest) ==
  IF newest # 0 THEN [kind |-> "post_repair", fp |-> newest] ELSE UpdateExec.ckpt

\* queue_angular_update_retry, queue_retry_execution: a version 2 command is superseded by
\* version 3, bound to the newest post_repair checkpoint.
QueueRetry(k, newest) ==
  LET x == UpdateExec
  IN  IF \/ ws.all # bound \/ x.status # "failed" \/ x.try >= RetryBudget
         \/ (x.template = 2 /\ newest = 0) \/ Active # {}
        THEN Block("retry_refused") /\ UNCHANGED <<execs, latest, steps>>
        ELSE /\ execs' = Inserted(k, TRUE, x.try + 1, 3, RetryCheckpoint(newest), 0, 0)
             /\ latest' = RequestedLast(k)
             /\ steps' = Running("angular_update", k)
             /\ cont' = WaitingFor(k, "handle_prompt")

\* The command_policy route: an update that found the workspace dirty is run again after
\* the applied repair it belongs to; a version 2 one as version 3 without a repair.
ClassifyDirty ==
  LET applied == {i \in DOMAIN attempts : attempts[i].status = "applied_verified"}
  IN  /\ At("classify_failure") /\ Route = "command_policy"
      /\ IF IsUpdateFailure /\ applied # {}
           THEN /\ QueueRetry(Key("angular_update", "retry", Max(applied)), post)
                /\ UNCHANGED post
         ELSE IF /\ IsUpdateFailure /\ UpdateExec.status = "failed"
                 /\ UpdateExec.template = 2 /\ CanRestore
           THEN QueueRetry(Key("angular_update", "retry", 0), ws.all) /\ post' = ws.all
         ELSE Block("lineage_missing") /\ UNCHANGED <<execs, latest, steps, post>>
      /\ UNCHANGED <<ws, bound, stage, pc, prompt, attempts, gates, seals, budget>>

\* Every other route is a hold.
ClassifyHold ==
  /\ At("classify_failure")
  /\ Route \in {"no_progress", "permanent", "prompt", "policy", "non_repairable"}
  /\ Block("route_held")
  /\ UNCHANGED <<ws, bound, stage, pc, execs, latest, steps, prompt, attempts, post, gates,
                 seals, budget>>

-----------------------------------------------------------------------------
(* The repair loop. *)

\* _propose_repair: RepairApplicationService.propose persists a proposal or the node blocks.
ProposeRepair ==
  /\ At("propose_repair")
  /\ \/ /\ LatestRepair # 0 /\ attempts[LatestRepair].status = "evidence_frozen"
        /\ \E op \in Ops :
             attempts' = [attempts EXCEPT ![LatestRepair].status = "proposed",
                                          ![LatestRepair].op = op]
        /\ cont' = Queued("review_repair")
     \/ Block("proposal_failed") /\ UNCHANGED attempts
  /\ UNCHANGED <<ws, bound, stage, pc, execs, latest, steps, prompt, post, gates, seals, budget>>

\* _review_repair: an accepted proposal and one with requested changes both go to G10.
ReviewRepair ==
  /\ At("review_repair") /\ LatestRepair # 0
  /\ \/ \E d \in {"accept", "request_changes"} :
          /\ attempts[LatestRepair].status = "proposed"
          /\ attempts' = [attempts EXCEPT ![LatestRepair].review = d,
               ![LatestRepair].status =
                  IF d = "accept" THEN "review_accepted" ELSE "request_changes"]
          /\ cont' = Queued("create_g10")
     \/ /\ attempts[LatestRepair].status = "proposed"
        /\ attempts' = [attempts EXCEPT ![LatestRepair].review = "reject",
                                        ![LatestRepair].status = "rejected"]
        /\ Block("review_rejected")
     \/ Block("review_failed") /\ UNCHANGED attempts
  /\ UNCHANGED <<ws, bound, stage, pc, execs, latest, steps, prompt, post, gates, seals, budget>>

\* What a G10 package is built on and decided against (_validate_repair_lineage): an attempt in
\* a controlled status,
Controlled(i) ==
  attempts[i].status \in
    {"review_accepted", "request_changes", "waiting_g10", "approved_pending_execution",
     "executing", "applied_verified", "migration_retried", "validation_passed"}

\* for a revision an earlier attempt with a review that allows one,
ParentLineage(i) ==
  LET p == attempts[i].parent
  IN  p # 0 => p < i /\ attempts[p].review \in {"accept", "request_changes"}

\* the binding, which names the workspace as it is,
WorkspaceLineage == ws.all = bound

\* and a proposal with its review.
RoleLineage(i) == attempts[i].op # "none" /\ attempts[i].review \in {"accept", "request_changes"}

G10Lineage(i) == Controlled(i) /\ ParentLineage(i) /\ WorkspaceLineage /\ RoleLineage(i)

\* The package is written and waits for its decision.
G10Created(i) ==
  /\ attempts' = [attempts EXCEPT ![i].status = "waiting_g10", ![i].g10 = "pending"]
  /\ cont' = WaitingAt("G10")

\* _create_repair_gate
CreateG10 ==
  /\ At("create_g10") /\ LatestRepair # 0
  /\ IF /\ G10Lineage(LatestRepair)
        /\ attempts[LatestRepair].status \in {"review_accepted", "request_changes"}
       THEN G10Created(LatestRepair)
       ELSE Block("lineage_stale") /\ UNCHANGED attempts
  /\ UNCHANGED <<ws, bound, stage, pc, execs, latest, steps, prompt, post, gates, seals, budget>>

\* decide on G10; the package is bound to the workspace of the attempt.
DecideG10(approve) ==
  LET i == Len(attempts)
  IN  /\ i > 0 /\ cont = WaitingAt("G10")
      /\ attempts[i].g10 = "pending" /\ G10Lineage(i)
      /\ IF approve
           THEN /\ attempts' = [attempts EXCEPT ![i].g10 = "approved",
                                                ![i].status = "approved_pending_execution"]
                /\ cont' = Queued("apply_repair")
           ELSE /\ attempts' = [attempts EXCEPT ![i].g10 = "rejected"]
                /\ Block("rejected")
      /\ UNCHANGED <<ws, bound, stage, pc, execs, latest, steps, prompt, post, gates, seals,
                     budget>>

\* request_revision ends the attempt it replaces and its package.
Superseded(i) == [attempts EXCEPT ![i].status = "superseded", ![i].g10 = "stale"]

\* request_revision, its checks: an attempt that waits for G10, budget, and the workspace of
\* its evidence.
Revisable(i) ==
  /\ attempts[i].status = "waiting_g10" /\ cont = WaitingAt("G10")
  /\ ~BudgetSpent /\ ws.all = attempts[i].pre

\* request_repair_revision: the pending package goes stale and a child attempt starts over.
RequestRevision ==
  LET i == Len(attempts)
  IN  /\ budget.requests < MaxRequests
      /\ i > 0 /\ Revisable(i)
      /\ attempts' = Append(Superseded(i), NewAttempt(attempts[i], i))
      /\ cont' = Queued("propose_repair")
      /\ budget' = [budget EXCEPT !.requests = @ + 1]
      /\ UNCHANGED <<ws, bound, stage, pc, execs, latest, steps, prompt, post, gates, seals>>

\* Mutant: the workspace is not compared with the binding before the claim.
ApplyAuthorizedAnyhow(i) ==
  i # 0 /\ attempts[i].g10 = "approved"
        /\ attempts[i].status \in {"approved_pending_execution", "executing"}

\* The two checks of _apply_repair_locked before the claim: approved G10, and workspace,
\* binding and pre_repair checkpoint agree.
ApplyAuthorized(i) ==
  /\ i # 0 /\ attempts[i].g10 = "approved"
  /\ attempts[i].status \in {"approved_pending_execution", "executing"}
  /\ ws.all = bound /\ Authoritative(attempts[i].pre)

\* _claim_current_continuation_for_apply
ContinuationClaimed == cont' = [cont EXCEPT !.status = "running"]

\* The claim commits: the attempt is executing.  A refused claim leaves it as it is.
ClaimApply ==
  /\ At("apply_repair")
  /\ IF ApplyAuthorized(LatestRepair)
       THEN /\ attempts' = SetStatus(LatestRepair, "executing")
            /\ ContinuationClaimed
            /\ pc' = "claimed"
       ELSE Block("proposal_stale") /\ UNCHANGED <<attempts, pc>>
  /\ UNCHANGED <<ws, bound, stage, execs, latest, steps, prompt, post, gates, seals, budget>>

\* PatchApplyService.apply writes every file; a recovering apply verifies the checkpoint
\* against the workspace once more before it.
PatchWritten(i) ==
  /\ ws.all = bound
  /\ ws' = [all |-> ws.all + 1, src |-> ws.src + 1]
  /\ attempts' = [attempts EXCEPT ![i].patches = @ + 1]
  /\ pc' = "patched" /\ UNCHANGED cont

\* Preparing the operations fails before the first file.
PatchRefused(i) ==
  /\ attempts' = SetStatus(i, "apply_failed")
  /\ Block("apply_failed")
  /\ pc' = "idle" /\ UNCHANGED ws

\* The patch breaks off between two files and cannot be undone from a lightweight
\* checkpoint (_recover_failed_apply, _mark_apply_recovery_required).
PatchBrokenOff(i) ==
  /\ ws' = [all |-> ws.all + 1, src |-> ws.src + 1]
  /\ attempts' = [attempts EXCEPT ![i].patches = @ + 1,
                                  ![i].status = "apply_recovery_required"]
  /\ Block("recovery_required")
  /\ pc' = "idle"

ApplyPatch ==
  /\ pc = "claimed"
  /\ PatchWritten(LatestRepair) \/ PatchRefused(LatestRepair) \/ PatchBrokenOff(LatestRepair)
  /\ UNCHANGED <<bound, stage, execs, latest, steps, prompt, post, gates, seals, budget>>

\* The bound proposal changes dependencies (_load_bound_repair_proposal).
ChangesDependencies(i) == attempts[i].op = "dependency"

\* _post_apply_node
PostApplyNode(i) ==
  IF RetryEligible THEN "angular_update_retry"
  ELSE IF ChangesDependencies(i) THEN "lockfile_generation" ELSE "repair_revalidate"

\* persist_post_repair_checkpoint: of the workspace the binding names from now on.
PostRepairCheckpoint(i) ==
  /\ bound' = ws.all /\ post' = ws.all
  /\ attempts' = [attempts EXCEPT ![i].post = ws.all, ![i].status = "applied_verified"]

\* The last transaction: binding, post_repair checkpoint, ledger, steps, next node.
CommitApply ==
  LET i == LatestRepair
      reset == Range(Validation) \cup
                 IF PostApplyNode(i) = "lockfile_generation" THEN {"lockfile"} ELSE {}
  IN  /\ pc = "patched" /\ pc' = "idle"
      /\ PostRepairCheckpoint(i)
      /\ steps' = Reset(reset)
      /\ cont' = Queued(PostApplyNode(i))
      /\ UNCHANGED <<ws, stage, execs, latest, prompt, gates, seals, budget>>

\* _angular_update_retry
AngularUpdateRetry ==
  /\ At("angular_update_retry")
  /\ IF RetryEligible /\ LatestRepair # 0
       THEN QueueRetry(Key("angular_update", "retry", LatestRepair), post)
       ELSE Block("retry_invalid") /\ UNCHANGED <<execs, latest, steps>>
  /\ UNCHANGED <<ws, bound, stage, pc, prompt, attempts, post, gates, seals, budget>>

\* _verify: nothing but package-lock.json changed.
LockfileVerified(x) ==
  IF x.start = ws.src
    THEN /\ bound' = ws.all
         /\ steps' = [steps EXCEPT !["lockfile"].status = "PASSED"]
         /\ cont' = Queued("repair_revalidate")
    ELSE Block("lockfile_mutation") /\ UNCHANGED <<bound, steps>>

\* _authority, _has_approved_dependency_change: an applied repair of dependencies.
LockfileAuthority(i) == attempts[i].status = "applied_verified" /\ ChangesDependencies(i)

\* _queue, on the workspace the apply left.
QueueLockfile(i) ==
  IF LockfileAuthority(i) /\ ws.all = bound
    THEN QueueGroup("lockfile", Key("lockfile", "attempt", i), FALSE, 1, "lockfile_generation")
    ELSE Block("lockfile_stale") /\ UNCHANGED <<execs, latest, steps>>

\* _lockfile_generation: a failure npm attributes to versions is classified, another blocks.
LockfileFailed(x) ==
  IF x.code \in Codes THEN cont' = FailedWith(x.code) ELSE Block("lockfile_failed")

\* LockfileGenerationRunner.advance: package-lock.json is the one file it may change.
LockfileGeneration ==
  LET k == steps["lockfile"].key
      x == execs[k]
  IN  /\ At("lockfile_generation") /\ LatestRepair # 0
      /\ \/ /\ steps["lockfile"].status = "PASSED"
            /\ cont' = Queued("repair_revalidate")
            /\ UNCHANGED <<bound, execs, latest, steps>>
         \/ /\ steps["lockfile"].status # "PASSED" /\ k = NoKey
            /\ QueueLockfile(Len(attempts))
            /\ UNCHANGED bound
         \/ /\ k # NoKey /\ k \in Active
            /\ cont' = WaitingFor(k, "lockfile_generation")
            /\ UNCHANGED <<bound, execs, latest, steps>>
         \/ /\ k # NoKey /\ x.status = "failed"
            /\ LockfileFailed(x)
            /\ UNCHANGED <<bound, execs, latest, steps>>
         \/ /\ k # NoKey /\ steps["lockfile"].status # "PASSED" /\ x.status = "succeeded"
            /\ LockfileVerified(x)
            /\ UNCHANGED <<execs, latest>>
      /\ UNCHANGED <<ws, stage, pc, prompt, attempts, post, gates, seals, budget>>

\* Groups of the targeted revalidation in order: a dependency repair is installed first.
Targets(i) ==
  IF ChangesDependencies(i) THEN Validation ELSE Tail(Validation)

\* _bound_review_validation_targets: only an accepted review names the targets.
BoundReview(i) == attempts[i].review = "accept"

FirstOpen(st, groups) ==
  LET open == {j \in DOMAIN groups : st[groups[j]].status # "PASSED"}
  IN  IF open = {} THEN "none" ELSE groups[Min(open)]

\* _start_revalidation: the affected groups one after the other, each queued by the
\* transaction that passed the one before; then every step starts over under final_install.
StartRevalidation ==
  LET i == LatestRepair
      g == FirstOpen(steps, Targets(i))
      done == g # "none" /\ GroupSucceeded(g)
      st == IF done THEN Passed(g) ELSE steps
      next == FirstOpen(st, Targets(i))
      affected == [attempts EXCEPT ![i].status = "revalidating_affected"]
  IN  /\ At("repair_revalidate") /\ i # 0
      /\ \/ /\ ~BoundReview(i)
            /\ Block("proposal_stale")
            /\ UNCHANGED <<bound, execs, latest, steps, attempts>>
         \/ /\ BoundReview(i) /\ next = "none"
            /\ steps' = [h \in Groups |-> IF h \in Range(Validation)
                           THEN [st[h] EXCEPT !.status = "PENDING", !.key = NoKey] ELSE st[h]]
            /\ attempts' = SetStatus(i, "revalidating")
            /\ bound' = IF done THEN ws.all ELSE bound
            /\ cont' = Queued("final_install")
            /\ UNCHANGED <<execs, latest>>
         \/ /\ BoundReview(i) /\ next # "none" /\ st[next].key = NoKey
            /\ QueueValidation(st, next, Key(next, "affected", i), "repair_revalidate")
            /\ attempts' = affected
            /\ bound' = IF done THEN ws.all ELSE bound
         \/ /\ BoundReview(i) /\ next # "none" /\ st[next].key # NoKey
            /\ StillRunning(next) \/ GroupFailed(next)
            /\ attempts' = affected
            /\ UNCHANGED <<bound, execs, latest>>
      /\ UNCHANGED <<ws, stage, pc, prompt, post, gates, seals, budget>>

-----------------------------------------------------------------------------
(* Sealing, the next stage, the end of the run. *)

\* StageSealingService.context; its error is not caught, so the row stays claimed until
\* the stage is clean.
Clean ==
  /\ Active = {}
  /\ prompt.status \in {"none", "decided"}
  /\ LatestStatus \in {"none", "waiting_g11", "validation_passed", "rejected", "apply_failed",
                       "request_changes"}

\* seal, first half: the workspace is copied below .sealed.
CopySeal ==
  /\ At("seal_stage") /\ Clean
  /\ IF gates["G11"].status = "approved"
       THEN pc' = "copied" /\ cont' = [cont EXCEPT !.status = "running"]
       ELSE Block("approval_required") /\ UNCHANGED pc
  /\ UNCHANGED <<ws, bound, stage, execs, latest, steps, prompt, attempts, post, gates, seals,
                 budget>>

\* Mutant: attempts a later repair made obsolete stay as they are.
ReconcileNothing == attempts

\* reconcile_superseded_attempts: active attempts older than the validated one.
Reconciled ==
  LET validated == {i \in DOMAIN attempts : /\ attempts[i].status = "validation_passed"
                                            /\ attempts[i].post # 0
                                            /\ attempts[i].g10 = "approved"}
  IN  [i \in DOMAIN attempts |->
         IF validated # {} /\ i < Max(validated) /\ attempts[i].status \in ActiveRepair
           THEN [attempts[i] EXCEPT !.status = "superseded"] ELSE attempts[i]]

\* seal, second half; a copy left by a crash is taken over or replaced.
CommitSeal ==
  /\ pc = "copied" /\ pc' = "idle"
  /\ attempts' = Reconciled
  /\ seals' = Append(seals, [content |-> ws, approved |-> gates["G11"].fp,
                  g08 |-> gates["G08"].status, steps |-> steps,
                  left |-> \E i \in DOMAIN attempts : Reconciled[i].status \in ActiveRepair])
  /\ cont' = Queued("materialize_next_stage")
  /\ UNCHANGED <<ws, bound, stage, execs, latest, steps, prompt, post, gates, budget>>

\* NextStageMaterializerService: the sealed files do not show the version that was the
\* stage's target, or catalogue, runtime or route are not those approved.
NextStageRefused ==
  Block("materialize_refused")
    /\ UNCHANGED <<stage, execs, latest, steps, prompt, attempts, post, gates>>

\* materialize
MaterializeNextStage ==
  /\ At("materialize_next_stage")
  /\ \/ NextStageRefused
     \/ /\ stage = NumStages
        /\ cont' = Queued("complete_run")
        /\ UNCHANGED <<stage, execs, latest, steps, prompt, attempts, post, gates>>
     \/ /\ stage < NumStages
        /\ stage' = stage + 1
        /\ cont' = [Queued("prepare_workspace") EXCEPT !.error = "none", !.waiting = NoKey]
        /\ execs' = NoExecs /\ latest' = NoKey /\ steps' = FreshSteps /\ prompt' = NoPrompt
        /\ attempts' = <<>> /\ post' = 0 /\ gates' = NoGates
  /\ UNCHANGED <<ws, bound, pc, seals, budget>>

\* complete: every stage sealed with its gates, and no work left.
CompleteRun ==
  /\ At("complete_run")
  /\ IF \E n \in DOMAIN seals : seals[n].g08 # "approved" THEN Block("gate_invariant")
     ELSE IF \/ Active # {} \/ prompt.status \notin {"none", "decided"}
             \/ \E n \in DOMAIN seals : seals[n].left
       THEN Block("work_remains")
       ELSE cont' = [cont EXCEPT !.status = "completed", !.node = "terminal"]
  /\ UNCHANGED <<ws, bound, stage, pc, execs, latest, steps, prompt, attempts, post, gates, seals,
                 budget>>

-----------------------------------------------------------------------------
(* Faults, requests, specification. *)

\* A worker dies in a node of several transactions; the lease runs out.
Crash ==
  /\ pc # "idle" /\ budget.crashes < MaxCrashes
  /\ pc' = "idle"
  /\ budget' = [budget EXCEPT !.crashes = @ + 1]
  /\ UNCHANGED <<ws, bound, stage, cont, execs, latest, steps, prompt, attempts, post, gates,
                 seals>>

\* wake through the restart route: any row that is not terminal is queued where it stands.
Restart ==
  /\ budget.requests < MaxRequests /\ pc = "idle"
  /\ cont.status \notin {"queued", "completed"}
  /\ cont' = [cont EXCEPT !.status = "queued"]
  /\ budget' = [budget EXCEPT !.requests = @ + 1]
  /\ UNCHANGED <<ws, bound, stage, pc, execs, latest, steps, prompt, attempts, post, gates,
                 seals>>

Nodes ==
  \/ PrepareStage \/ AngularUpdate \/ UpdateSucceeded \/ UpdateFailed \/ FreezePrompt
  \/ TargetInspection \/ VersionVerify
  \/ \E g \in Range(Validation) : Validate(g)
  \/ AggregateValidation \/ UnsupportedNode
  \/ ClassifyRepairable \/ ClassifyTransient \/ ClassifyDirty \/ ClassifyHold
  \/ ProposeRepair \/ ReviewRepair \/ CreateG10 \/ ClaimApply \/ ApplyPatch \/ CommitApply
  \/ AngularUpdateRetry \/ LockfileGeneration \/ StartRevalidation
  \/ CopySeal \/ CommitSeal \/ MaterializeNextStage \/ CompleteRun

Commands ==
  \E k \in DOMAIN execs : CommandWrites(k) \/ CommandEnds(k) \/ PromptCaptured(k)

Humans ==
  \/ \E g \in Gates : ApproveGate(g) \/ RejectGate(g)
  \/ \E approve \in BOOLEAN : DecideG10(approve)
  \/ DecidePrompt \/ RequestRevision \/ Restart

Next == Nodes \/ Wake \/ Commands \/ Humans \/ Crash

Spec == Init /\ [][Next]_vars

-----------------------------------------------------------------------------
(* Properties. *)

\* What transformer_sealing_flow seals is what people approved and the validation judged:
\* the copied workspace is the one G11 was decided on, and final install, builds and tests
\* all passed on exactly these sources, whatever was repaired, retried, restarted or cut
\* short on the way.
SealedWasValidated ==
  \A n \in DOMAIN seals :
    /\ seals[n].content.all = seals[n].approved
    /\ \A g \in Range(Validation) : /\ seals[n].steps[g].status = "PASSED"
                                    /\ seals[n].steps[g].fp = seals[n].content.all

\* _apply_repair writes the files of a proposal at most once, however often the node is
\* entered again after a crash or a restart.
RepairAppliedOnce == \A i \in DOMAIN attempts : attempts[i].patches <= 1

\* A sealed stage leaves no active repair behind, so that complete does not refuse the run
\* for work that remains (COMPLETION_WORK_REMAINS).
SealLeavesNothingOpen == \A n \in DOMAIN seals : ~seals[n].left

\* From the approval of G11 to the end of the stage nobody touches the workspace: what was
\* approved is what is there, although a restart can leave a command running.
ApprovedStaysUntouched == gates["G11"].status = "approved" => ws.all = gates["G11"].fp

-----------------------------------------------------------------------------
(* What a test of the repository says and the code does not do. *)

\* test_command_terminal_lifecycle: a successful update without a prompt goes on to the
\* inspection of its target.
SuccessfulUpdateGoesOn == cont.error # "repair_missing"
=============================================================================
