------------------------ MODULE StageWorkflowProofs -------------------------
(***************************************************************************)
(* Proofs about StageWorkflow, for any route, any failures, prompts,       *)
(* crashes, restarts and revisions.                                        *)
(***************************************************************************)
EXTENDS StageWorkflow, TLAPS, FiniteSetTheorems, SequenceTheorems, WellFoundedInduction

-----------------------------------------------------------------------------
(* Where the continuation is, and what has been validated. *)

UpdateNodes == {"angular_update", "handle_prompt", "wait_prompt_decision", "angular_update_retry"}
TargetNodes == {"target_inspection", "version_verify", "wait_g08"}
ValidNodes == {"final_install", "build", "test", "aggregate_validation"}
RepairNodes == {"propose_repair", "review_repair", "create_g10", "wait_g10", "apply_repair"}
SealedNodes == {"materialize_next_stage", "complete_run", "terminal"}
JudgedNodes == {"wait_g11", "seal_stage"} \cup SealedNodes
VG == {"final_install", "builds", "tests"}
Keyed(g) == steps[g].key # NoKey
IsPassed(g) == steps[g].status = "PASSED"
Open(g) == Keyed(g) /\ ~ IsPassed(g)
Validated == \E g \in VG : Keyed(g)
AllPassed == \A g \in VG : IsPassed(g)

\* A validation command that failed: its step does not pass before it starts over.
Spoiled == \E g \in VG : Open(g) /\ execs[steps[g].key].status = "failed"

\* The stage goes on without its update, on a repair.
UpdateGivenUp == steps["angular_update"].status = "FAILED"

Newest == attempts[Len(attempts)]

-----------------------------------------------------------------------------
(* The inductive invariant: what holds wherever the continuation is. *)

Failures == [error : Errors, group : Groups \cup {"none"}, code : CommandCodes]
Checkpoint == [kind : {"none", "pre_angular_update", "post_repair"}, fp : Nat]
Attempt ==
  [status : AttemptStatuses, op : Ops \cup {"none"},
   review : {"none", "accept", "request_changes", "reject"},
   g10 : {"none", "pending", "approved", "rejected", "stale"}, pre : Nat, post : Nat,
   failure : Failures, born : Nat, patches : Nat, parent : Nat]
ContRow ==
  [status : {"queued", "running", "waiting_command", "waiting_gate", "waiting_prompt",
             "waiting_retry", "blocked", "completed"},
   node : StageNodes, tries : 0 .. MaxTries, waiting : DOMAIN execs \cup {NoKey},
   error : Errors]
StepRow == [status : {"PENDING", "RUNNING", "PASSED", "FAILED"},
            key : DOMAIN execs \cup {NoKey}, fp : Nat]

ExecsTyped ==
  /\ execs \in [DOMAIN execs -> Exec] /\ IsFiniteSet(DOMAIN execs)
  /\ \A k \in DOMAIN execs : k[1] \in Groups /\ (k[1] \in VG => k[3] \in Nat)
  /\ latest \in DOMAIN execs \cup {NoKey}
  /\ steps \in [Groups -> StepRow]

RestTyped ==
  /\ ws \in [all : Nat \ {0}, src : Nat] /\ bound \in Nat /\ stage \in 1 .. NumStages
  /\ prompt \in [status : {"none", "detected", "waiting_human", "decided"}, answered : BOOLEAN,
                 ckpt : Checkpoint]
  /\ attempts \in Seq(Attempt) /\ post \in Nat
  /\ gates \in [Gates -> [status : {"none", "pending", "approved", "rejected"}, fp : Nat]]
  /\ seals \in Seq(Range(seals))

\* A patch leaves the workspace behind that its attempt was made for.
PatchesSpent ==
  \A i \in DOMAIN attempts :
    /\ attempts[i].pre <= ws.all /\ attempts[i].patches <= 1
    /\ attempts[i].patches = 1 => attempts[i].pre < ws.all

\* A repair that is replaced is never the last one.
LastStands == attempts # <<>> => Newest.status # "superseded"

\* Once something is validated no other command runs or was requested last, and a step
\* passes on a command that succeeded.
CommandsBound ==
  /\ Validated => latest[1] # "angular_update"
  /\ Validated => \A k \in Active : \E g \in VG : k = steps[g].key
  /\ \A g \in VG : IsPassed(g) => Keyed(g) /\ execs[steps[g].key].status = "succeeded"

\* Checkpoints are of the past, and an update given up for a repair cannot be restored.
UpdateLeftBehind == UpdateGivenUp /\ HasUpdate => UpdateExec.ckpt.fp < ws.all
CheckpointsPast ==
  /\ \A k \in DOMAIN execs : execs[k].ckpt.fp <= ws.all
  /\ prompt.ckpt.fp <= ws.all /\ post <= ws.all
  /\ Validated => UpdateLeftBehind

\* Validation keys are numbered by attempts.
KeysNumbered == \A k \in DOMAIN execs : k[1] \in VG => k[3] <= Len(attempts)

\* What has passed has passed on the sources the binding names, and a validation command
\* starts on them.
SourcesStay ==
  /\ Keyed("tests") => IsPassed("builds")
  /\ \A g \in VG : IsPassed(g) => steps[g].fp = bound
  /\ \A g \in VG : Open(g) /\ (\E h \in VG : IsPassed(h))
       => execs[steps[g].key].start = bound
  /\ (\A g \in VG : ~ Open(g)) /\ (\E h \in VG : IsPassed(h)) => ws.all = bound

SealsRight == SealedWasValidated /\ SealLeavesNothingOpen

-----------------------------------------------------------------------------
(* What holds where the continuation stands at node n. *)

\* The last attempt, where no repair is under way.
Settled(a) ==
  /\ a.post # 0 /\ a.g10 = "approved"
  /\ a.status \in {"applied_verified", "migration_retried", "revalidating",
                   "revalidating_affected", "waiting_g11", "validation_passed",
                   "validation_failed"}

AttemptsFit(n) ==
  /\ attempts # <<>> /\ n \notin RepairNodes => Settled(Newest)
  /\ n \in RepairNodes \cup TargetNodes \cup {"lockfile_generation", "repair_revalidate"}
       => attempts # <<>>
  /\ attempts # <<>> /\ n \in {"seal_stage"} \cup SealedNodes
       => Newest.status = "validation_passed"

\* The nodes of the update and of its target come before all validation.
ValidationFits(n) ==
  /\ n \in UpdateNodes \cup TargetNodes \cup {"prepare_workspace", "lockfile_generation"}
       => ~ Validated
  /\ ~ Validated /\ attempts # <<>>
       /\ n \notin RepairNodes \cup ValidNodes \cup JudgedNodes
       => Newest.status \in {"applied_verified", "migration_retried"}
  /\ n \in ValidNodes /\ ~ Validated => attempts # <<>> /\ Newest.status \in AppliedRepair
  /\ (Validated \/ n \in ValidNodes) /\ UpdateGivenUp /\ n \notin RepairNodes
       => Newest.status \notin {"approved_pending_execution", "executing", "applied_verified"}

\* The keys of the newest attempt are fresh until its validation begins.
KeysFit(n) ==
  /\ n \in RepairNodes \/ (~ Validated /\ n \notin ValidNodes \cup JudgedNodes)
     => \A k \in DOMAIN execs : k[1] \in VG => k[3] # Len(attempts)
  /\ n = "repair_revalidate" \/ (n \in ValidNodes /\ ~ Validated)
     => \A g \in VG : Key(g, "attempt", Len(attempts)) \notin DOMAIN execs

UpdateFits(n) ==
  /\ n \in ValidNodes \cup {"lockfile_generation", "repair_revalidate"} => UpdateLeftBehind
  /\ n \in TargetNodes => steps["angular_update"].status = "PASSED"

\* The groups of a validation pass in order.
OrderFits(n) ==
  /\ ~ Spoiled /\ n \in ValidNodes => (Keyed("builds") => IsPassed("final_install"))
  /\ ~ Spoiled /\ n = "repair_revalidate"
       => IF ChangesDependencies(Len(attempts))
            THEN Keyed("builds") => IsPassed("final_install")
            ELSE ~ Keyed("final_install")
  /\ n \in {"build", "test"} => IsPassed("final_install")
  /\ n = "test" => IsPassed("builds")
  /\ n \in {"aggregate_validation"} \cup JudgedNodes => AllPassed
  /\ n \in RepairNodes \cup {"classify_failure"} /\ ~ Spoiled /\ (\E g \in VG : IsPassed(g))
       => \E g \in VG : Open(g)

\* What G11 was asked about is what is there.
JudgedFits(n) ==
  /\ n \in JudgedNodes => ws.all = bound
  /\ n \in {"seal_stage"} \cup SealedNodes
       => gates["G11"].status = "approved" /\ gates["G11"].fp = ws.all
  /\ gates["G11"].status = "approved" => n \in {"seal_stage"} \cup SealedNodes
  /\ Len(seals) = IF n \in SealedNodes THEN stage ELSE stage - 1

Fits(n) ==
  /\ AttemptsFit(n) /\ ValidationFits(n) /\ KeysFit(n) /\ UpdateFits(n) /\ OrderFits(n)
  /\ JudgedFits(n)

-----------------------------------------------------------------------------
(* The row. *)

\* Nobody else moves the row of a node of several transactions, and a transient failure is
\* one of the update or of a validation command.
RowFits ==
  /\ cont \in ContRow /\ pc \in {"idle", "claimed", "patched", "copied"}
  /\ pc # "idle" => cont.status = "running"
  /\ pc \in {"claimed", "patched"} =>
       /\ cont.node = "apply_repair" /\ attempts # <<>>
       /\ Newest.g10 = "approved" /\ Newest.status = "executing"
  /\ pc = "claimed" => Newest.patches = 0
  /\ pc = "patched" => UpdateLeftBehind
  /\ pc = "copied" => cont.node = "seal_stage"
  /\ prompt.status = "waiting_human" => cont.node = "wait_prompt_decision"
  /\ cont.node = "classify_failure" /\ cont.error = "transient" => Spoiled \/ IsUpdateFailure

Lasting ==
  /\ ExecsTyped /\ RestTyped /\ PatchesSpent /\ LastStands /\ CommandsBound
  /\ CheckpointsPast /\ KeysNumbered /\ SealsRight
  /\ ~ Spoiled => SourcesStay

StageInv == Lasting /\ Fits(cont.node) /\ RowFits

\* The counters that bound the model.
BudgetTyped == budget \in [failures : Nat, prompts : Nat, crashes : Nat, requests : Nat]

-----------------------------------------------------------------------------
(* Groups, attempts and their sequence. *)

\* The names of the validation commands, the targets and the row's own keys are distinct.
LEMMA Groups_ ==
  /\ Range(Validation) = VG /\ Groups = {"angular_update", "target", "lockfile"} \cup VG
  /\ NoKey[1] = "none" /\ NoKey[1] \notin Groups
<1>1. DOMAIN Validation = 1 .. 3
  BY DEF Validation
<1>2. \A j \in 1 .. 3 : Validation[j] \in VG
  BY DEF Validation, VG
<1>3. VG \subseteq Range(Validation)
  <2>1. Validation[1] = "final_install" /\ Validation[2] = "builds" /\ Validation[3] = "tests"
    BY DEF Validation
  <2> QED
    BY <1>1, <2>1 DEF Range, VG
<1>4. Range(Validation) = VG
  BY <1>1, <1>2, <1>3 DEF Range
<1> QED
  BY <1>4 DEF Groups, VG, NoKey

\* A maximum of numbers is the one that is at least as large as the others.
LEMMA MaxIs ==
  ASSUME NEW S, NEW n \in S, S \subseteq Int, \A k \in S : k <= n
  PROVE  Max(S) = n
<1>1. \A y \in S : n >= y
  OBVIOUS
<1>2. Max(S) \in S /\ \A y \in S : Max(S) >= y
  BY <1>1 DEF Max
<1>3. Max(S) \in Int /\ n \in Int /\ Max(S) >= n /\ Max(S) <= n
  BY <1>2
<1> QED
  BY <1>3

\* The attempts of the stage.
LEMMA AttemptsShape ==
  ASSUME attempts \in Seq(Attempt)
  PROVE  /\ Len(attempts) \in Nat /\ DOMAIN attempts = 1 .. Len(attempts)
         /\ attempts # <<>> => Len(attempts) \in DOMAIN attempts /\ Len(attempts) # 0
         /\ attempts = <<>> <=> Len(attempts) = 0
         /\ \A i \in DOMAIN attempts : attempts[i] \in Attempt
BY LenProperties, ElementOfSeq, EmptySeq

\* _latest_repair finds the newest attempt: only older ones are superseded.
LEMMA Latest ==
  ASSUME attempts \in Seq(Attempt), LastStands
  PROVE  /\ attempts = <<>> => LatestRepair = 0
         /\ attempts # <<>> => LatestRepair = Len(attempts)
<1> DEFINE live == {i \in DOMAIN attempts : attempts[i].status # "superseded"}
<1>1. CASE attempts = <<>>
  <2>1. live = {}
    BY <1>1, AttemptsShape
  <2> QED
    BY <1>1, <2>1 DEF LatestRepair
<1>2. CASE attempts # <<>>
  <2>1. Len(attempts) \in live /\ live \subseteq Int /\ \A k \in live : k <= Len(attempts)
    BY <1>2, AttemptsShape DEF LastStands, Newest
  <2>2. Max(live) = Len(attempts)
    BY <2>1, MaxIs
  <2> QED
    BY <1>2, <2>1, <2>2 DEF LatestRepair
<1> QED
  BY <1>1, <1>2

\* The attempt the row looks at is the last one of the run.
LEMMA LastIs ==
  ASSUME attempts \in Seq(Attempt)
  PROVE  /\ Last(attempts) = Newest
         /\ LatestStatus = IF attempts = <<>> THEN "none" ELSE Newest.status
BY DEF Last, Newest, LatestStatus

\* One attempt changes.
LEMMA AttemptSet ==
  ASSUME attempts \in Seq(Attempt), NEW i \in DOMAIN attempts, NEW a \in Attempt,
         attempts' = [attempts EXCEPT ![i] = a]
  PROVE  /\ attempts' \in Seq(Attempt) /\ Len(attempts') = Len(attempts)
         /\ DOMAIN attempts' = DOMAIN attempts /\ attempts' # <<>>
         /\ \A j \in DOMAIN attempts : attempts'[j] = IF j = i THEN a ELSE attempts[j]
<1>1. attempts' \in Seq(Attempt) /\ Len(attempts') = Len(attempts)
  BY ExceptSeq
<1> QED
  BY <1>1, AttemptsShape, EmptySeq, LenProperties

\* An attempt is appended.
LEMMA AttemptAppended ==
  ASSUME NEW s \in Seq(Attempt), NEW a \in Attempt, attempts' = Append(s, a)
  PROVE  /\ attempts' \in Seq(Attempt) /\ Len(attempts') = Len(s) + 1 /\ Len(s) \in Nat
         /\ attempts' # <<>> /\ Newest' = a /\ DOMAIN s = 1 .. Len(s)
         /\ DOMAIN attempts' = 1 .. Len(s) + 1 /\ attempts'[Len(s) + 1] = a
         /\ \A j \in 1 .. Len(s) : attempts'[j] = s[j]
<1>1. /\ attempts' \in Seq(Attempt) /\ Len(attempts') = Len(s) + 1
      /\ attempts'[Len(s) + 1] = a
      /\ \A j \in 1 .. Len(s) : attempts'[j] = s[j]
  BY AppendProperties
<1> QED
  BY <1>1, LenProperties, EmptySeq DEF Newest

-----------------------------------------------------------------------------
(* Steps that move the row and nothing that Fits speaks of. *)

PromptRow == [status : {"none", "detected", "waiting_human", "decided"}, answered : BOOLEAN,
              ckpt : Checkpoint]
Stage_ == <<ws, bound, stage, execs, latest, steps, attempts, post, gates, seals>>

\* The invariant from its parts, for the node the step leads to.
LEMMA Assemble ==
  ASSUME NEW n, cont'.node = n, Lasting', RowFits', AttemptsFit(n)', ValidationFits(n)',
         KeysFit(n)', UpdateFits(n)', OrderFits(n)', JudgedFits(n)'
  PROVE  StageInv'
<1>1. /\ AttemptsFit(cont.node)' /\ ValidationFits(cont.node)' /\ KeysFit(cont.node)'
  BY DEF AttemptsFit, ValidationFits, KeysFit
<1>2. UpdateFits(cont.node)' /\ OrderFits(cont.node)' /\ JudgedFits(cont.node)'
  BY DEF UpdateFits, OrderFits, JudgedFits
<1> QED
  BY <1>1, <1>2 DEF StageInv, Fits

\* The stage that stays fits a node as before.
LEMMA FitsStay ==
  ASSUME UNCHANGED Stage_, NEW n, Fits(n)
  PROVE  /\ AttemptsFit(n)' /\ ValidationFits(n)' /\ KeysFit(n)' /\ UpdateFits(n)'
         /\ OrderFits(n)' /\ JudgedFits(n)'
<1>1. AttemptsFit(n)' /\ UpdateFits(n)' /\ JudgedFits(n)'
  BY DEF Stage_, Fits, AttemptsFit, Newest, Settled, UpdateFits, UpdateLeftBehind, UpdateGivenUp,
         HasUpdate, UpdateExec, JudgedFits
<1>2. ValidationFits(n)' /\ KeysFit(n)'
  BY DEF Stage_, Fits, ValidationFits, KeysFit, Newest, Validated, Keyed, UpdateGivenUp
<1>3. OrderFits(n)'
  BY DEF Stage_, Fits, OrderFits, Spoiled, Open, Keyed, IsPassed, AllPassed, ChangesDependencies
<1> QED
  BY <1>1, <1>2, <1>3

\* What lasts does not depend on the row.
LEMMA LastingStays ==
  ASSUME Lasting, UNCHANGED Stage_, prompt' \in PromptRow, prompt'.ckpt = prompt.ckpt
  PROVE  Lasting'
<1>1. ExecsTyped' /\ RestTyped'
  BY DEF Stage_, Lasting, ExecsTyped, StepRow, RestTyped, PromptRow
<1>2. PatchesSpent' /\ LastStands' /\ KeysNumbered'
  BY DEF Stage_, Lasting, PatchesSpent, LastStands, Newest, KeysNumbered
<1>3. CommandsBound' /\ CheckpointsPast'
  BY DEF Stage_, Lasting, CommandsBound, CheckpointsPast, Validated, Keyed, IsPassed, Active,
         UpdateLeftBehind, UpdateGivenUp, HasUpdate, UpdateExec
<1>4. (~ Spoiled => SourcesStay)'
  BY DEF Stage_, Lasting, Spoiled, SourcesStay, Open, Keyed, IsPassed
<1>5. SealsRight'
  BY DEF Stage_, Lasting, SealsRight, SealedWasValidated, SealLeavesNothingOpen
<1> QED
  BY <1>1, <1>2, <1>3, <1>4, <1>5 DEF Lasting

\* The row goes to a node that the stage fits.
LEMMA Moves ==
  ASSUME StageInv, UNCHANGED Stage_, NEW n, Fits(n), cont' \in ContRow, cont'.node = n,
         pc' = "idle", prompt' \in PromptRow, prompt'.ckpt = prompt.ckpt,
         prompt'.status = "waiting_human" => n = "wait_prompt_decision",
         n = "classify_failure" /\ cont'.error = "transient" => Spoiled \/ IsUpdateFailure
  PROVE  StageInv'
<1>1. Lasting'
  BY LastingStays DEF StageInv
<1>2. RowFits'
  BY DEF StageInv, RowFits, ContRow, Stage_, Spoiled, Open, Keyed, IsPassed, IsUpdateFailure,
         HasUpdate
<1> QED
  BY <1>1, <1>2, FitsStay, Assemble

\* The row stays where it is: blocked, woken, restarted, waiting, given up by a dead worker.
LEMMA Stays ==
  ASSUME StageInv, UNCHANGED Stage_, UNCHANGED prompt, pc' = "idle", cont' \in ContRow,
         cont'.node = cont.node, cont'.error = cont.error \/ cont'.error # "transient"
  PROVE  StageInv'
<1>1. prompt' \in PromptRow /\ prompt.ckpt = prompt'.ckpt
  BY DEF StageInv, Lasting, RestTyped, PromptRow
<1>2. Fits(cont.node) /\ RowFits
  BY DEF StageInv
<1> QED
  BY <1>1, <1>2, Moves DEF RowFits

\* What a node reads when it begins.
LEMMA AtNode ==
  ASSUME StageInv, NEW n, At(n)
  PROVE  /\ pc = "idle" /\ cont.node = n /\ cont \in ContRow /\ Lasting /\ Fits(n)
         /\ prompt \in PromptRow
         /\ prompt.status = "waiting_human" => n = "wait_prompt_decision"
BY DEF StageInv, RowFits, At, Lasting, RestTyped, PromptRow, Checkpoint

\* Nodes of one kind.
LEMMA KindFits ==
  ASSUME NEW n, Fits(n), NEW m,
         (n \in UpdateNodes /\ m \in UpdateNodes) \/ (n \in SealedNodes /\ m \in SealedNodes)
  PROVE  Fits(m)
BY DEF Fits, AttemptsFit, ValidationFits, KeysFit, UpdateFits, OrderFits, JudgedFits, UpdateNodes,
       SealedNodes, TargetNodes, ValidNodes, RepairNodes, JudgedNodes

\* The worker that wakes the waiter, a restart, a worker that dies, a node that only waits, a
\* route that holds.
LEMMA StandsKeep ==
  ASSUME StageInv, Wake \/ Restart \/ Crash \/ UnsupportedNode \/ ClassifyHold
  PROVE  StageInv'
<1>1. cont \in ContRow /\ RowFits
  BY DEF StageInv, RowFits
<1>2. CASE Wake
  <2>1. cont' = Queued(cont.node) /\ pc = "idle"
    BY <1>1, <1>2 DEF Wake, RowFits
  <2>2. cont' \in ContRow /\ cont'.node = cont.node /\ cont'.error = cont.error
    BY <1>1, <2>1 DEF Queued, ContRow
  <2> QED
    BY <1>2, <2>1, <2>2, Stays DEF Wake, Stage_
<1>3. CASE Restart
  <2>1. cont' \in ContRow /\ cont'.node = cont.node /\ cont'.error = cont.error
    BY <1>1, <1>3 DEF Restart, ContRow
  <2> QED
    BY <1>3, <2>1, Stays DEF Restart, Stage_
<1>4. CASE Crash
  <2>1. /\ pc' = "idle" /\ UNCHANGED Stage_ /\ UNCHANGED prompt /\ cont' = cont
    BY <1>4 DEF Crash, Stage_
  <2> QED
    BY <1>1, <2>1, Stays
<1>5. CASE UnsupportedNode
  <2>1. /\ pc' = "idle" /\ UNCHANGED Stage_ /\ UNCHANGED prompt /\ Block("unsupported")
    BY <1>5 DEF UnsupportedNode, Stage_, At
  <2>2. cont' = [cont EXCEPT !.status = "blocked", !.error = "unsupported"]
    BY <2>1 DEF Block
  <2>3. cont' \in ContRow
    BY <1>1, <2>2 DEF ContRow, Errors
  <2>4. cont'.node = cont.node /\ cont'.error = "unsupported"
    BY <1>1, <2>2 DEF ContRow
  <2> QED
    BY <2>1, <2>3, <2>4, Stays
<1>6. CASE ClassifyHold
  <2>1. /\ pc' = "idle" /\ UNCHANGED Stage_ /\ UNCHANGED prompt /\ Block("route_held")
    BY <1>6 DEF ClassifyHold, Stage_, At
  <2> QED
    BY <1>1, <2>1, Stays DEF Block, ContRow, Errors
<1> QED
  BY <1>2, <1>3, <1>4, <1>5, <1>6

\* Prompts are frozen and decided at the update's nodes.
LEMMA PromptsKeep ==
  ASSUME StageInv, FreezePrompt \/ DecidePrompt
  PROVE  StageInv'
<1>1. CASE FreezePrompt
  <2>1. /\ pc = "idle" /\ pc' = pc /\ cont.node = "handle_prompt" /\ cont \in ContRow
        /\ Fits("handle_prompt") /\ UNCHANGED Stage_ /\ prompt \in PromptRow
    BY <1>1, AtNode DEF FreezePrompt, Stage_
  <2>2. CASE UNCHANGED prompt /\ cont' = [cont EXCEPT !.status = "running"]
    <3>1. cont' \in ContRow /\ cont'.node = cont.node /\ cont'.error = cont.error
      BY <2>1, <2>2 DEF ContRow
    <3> QED
      BY <2>1, <2>2, <3>1, Stays
  <2>3. CASE UNCHANGED prompt /\ (Block("integrity") \/ Block("explanation_failed"))
    BY <2>1, <2>3, Stays DEF Block, ContRow, Errors
  <2>4. CASE /\ prompt' = [prompt EXCEPT !.status = "waiting_human"]
             /\ cont' = [cont EXCEPT !.status = "waiting_prompt",
                                     !.node = "wait_prompt_decision"]
    <3>1. Fits("wait_prompt_decision")
      BY <2>1, KindFits DEF UpdateNodes
    <3>2. prompt' \in PromptRow /\ prompt'.ckpt = prompt.ckpt
      BY <2>1, <2>4 DEF PromptRow
    <3>3. cont' \in ContRow /\ cont'.node = "wait_prompt_decision"
      BY <2>1, <2>4 DEF ContRow, StageNodes
    <3> QED
      BY <2>1, <3>1, <3>2, <3>3, Moves
  <2> QED
    BY <1>1, <2>2, <2>3, <2>4 DEF FreezePrompt, Explained
<1>2. CASE DecidePrompt
  <2>1. /\ pc = "idle" /\ cont \in ContRow /\ prompt \in PromptRow /\ UNCHANGED Stage_
        /\ cont.node = "wait_prompt_decision" /\ Fits("wait_prompt_decision") /\ pc' = "idle"
        /\ prompt' = [prompt EXCEPT !.status = "decided", !.answered = TRUE]
    BY <1>2 DEF DecidePrompt, Answerable, StageInv, RowFits, Lasting, RestTyped, PromptRow, Stage_
  <2>2. Fits("angular_update")
    BY <2>1, KindFits DEF UpdateNodes
  <2>3. prompt' \in PromptRow /\ prompt'.ckpt = prompt.ckpt /\ prompt'.status = "decided"
    BY <2>1 DEF PromptRow
  <2>4. cont' \in ContRow /\ cont'.node = "angular_update"
    BY <1>2, <2>1 DEF DecidePrompt, Queued, ContRow, StageNodes
  <2> QED
    BY <2>1, <2>2, <2>3, <2>4, Moves
<1> QED
  BY <1>1, <1>2

\* An update that a repair left behind cannot be restored to its checkpoint.
LEMMA RestoredBeforeValidation ==
  ASSUME StageInv, cont.node = "classify_failure", IsUpdateFailure, CanRestore
  PROVE  ~ Validated
<1> SUFFICES ASSUME Validated
             PROVE  FALSE
  OBVIOUS
<1>1. UpdateExec.ckpt.fp < ws.all /\ ws.all # 0
  BY DEF StageInv, Lasting, CheckpointsPast, UpdateLeftBehind, UpdateGivenUp, IsUpdateFailure,
         RestTyped
<1>2. LatestStatus \notin {"approved_pending_execution", "executing", "applied_verified"}
  <2>1. Newest.status \notin {"approved_pending_execution", "executing", "applied_verified"}
    BY DEF StageInv, Fits, ValidationFits, UpdateGivenUp, IsUpdateFailure, RepairNodes
  <2> QED
    BY <2>1, LastIs DEF StageInv, Lasting, RestTyped
<1>3. Reconstructable(ReconstructionCheckpoint)
  BY <1>2 DEF CanRestore
<1>4. ReconstructionCheckpoint = ws.all
  BY <1>3 DEF Reconstructable
<1>5. ReconstructionCheckpoint \in {0, UpdateExec.ckpt.fp}
  BY DEF ReconstructionCheckpoint
<1> QED
  BY <1>1, <1>4, <1>5 DEF StageInv, Lasting, RestTyped, ExecsTyped

\* max_attempts bounds the tries.
LEMMA TriesLeft ==
  ASSUME cont \in ContRow, ~ TriesExhausted
  PROVE  cont.tries + 1 \in 0 .. MaxTries
<1>1. MaxTries \in Nat /\ cont.tries \in 0 .. MaxTries /\ ~ (cont.tries >= MaxTries)
  BY ConstantsAssumption DEF ContRow, TriesExhausted
<1> QED
  BY <1>1

\* A transient failure is one of the update, which is not restored once something was
\* validated, or of a validation command, which keeps its key.
LEMMA TransientKeeps ==
  ASSUME StageInv, ClassifyTransient
  PROVE  StageInv'
<1>1. /\ pc = "idle" /\ pc' = "idle" /\ cont.node = "classify_failure" /\ cont \in ContRow
      /\ Fits("classify_failure") /\ UNCHANGED Stage_ /\ UNCHANGED prompt
      /\ prompt \in PromptRow /\ prompt.status # "waiting_human" /\ Lasting
  BY AtNode DEF ClassifyTransient, Stage_
<1>2. cont.error = "transient"
  BY DEF ClassifyTransient, Route
<1>3. CASE Block("route_transient") \/ Block("recovery_failed")
  BY <1>1, <1>3, Stays DEF Block, ContRow, Errors
<1>4. CASE /\ ~ IsUpdateFailure /\ ~ TriesExhausted
           /\ cont' = [cont EXCEPT !.tries = @ + 1, !.status = "waiting_retry",
                                   !.node = "final_install"]
  <2>1. Spoiled
    BY <1>1, <1>2, <1>4 DEF StageInv, RowFits
  <2>2. Validated /\ UpdateLeftBehind
    BY <1>1, <2>1 DEF Spoiled, Open, Validated, Lasting, CheckpointsPast
  <2>3. Fits("final_install")
    BY <1>1, <2>1, <2>2
       DEF Fits, AttemptsFit, ValidationFits, KeysFit, UpdateFits, OrderFits, JudgedFits,
           UpdateNodes, SealedNodes, TargetNodes, ValidNodes, RepairNodes, JudgedNodes
  <2>4. cont.tries + 1 \in 0 .. MaxTries
    BY <1>1, <1>4, TriesLeft
  <2>5. cont' \in ContRow /\ cont'.node = "final_install"
    BY <1>1, <1>4, <2>4 DEF ContRow, StageNodes
  <2> QED
    BY <1>1, <2>1, <2>3, <2>5, Moves
<1>5. CASE /\ IsUpdateFailure /\ CanRestore /\ ~ TriesExhausted
           /\ cont' = [Queued("angular_update") EXCEPT !.tries = @ + 1]
  <2>1. ~ Validated
    BY <1>1, <1>5, RestoredBeforeValidation
  <2>2. Fits("angular_update")
    BY <1>1, <2>1
       DEF Fits, AttemptsFit, ValidationFits, KeysFit, UpdateFits, OrderFits, JudgedFits,
           UpdateNodes, SealedNodes, TargetNodes, ValidNodes, RepairNodes, JudgedNodes
  <2>3. cont.tries + 1 \in 0 .. MaxTries
    BY <1>1, <1>5, TriesLeft
  <2>4. cont' \in ContRow /\ cont'.node = "angular_update"
    BY <1>1, <1>5, <2>3 DEF ContRow, StageNodes, Queued
  <2> QED
    BY <1>1, <2>2, <2>4, Moves
<1> QED
  BY <1>3, <1>4, <1>5 DEF ClassifyTransient

-----------------------------------------------------------------------------
(* Validation, where nothing is queued. *)

After(g) == IF g = "final_install" THEN "build"
            ELSE IF g = "builds" THEN "test" ELSE "aggregate_validation"

\* The node of a group and the one behind it.
LEMMA GroupNodes ==
  /\ NodeOf["final_install"] = "final_install" /\ NodeOf["builds"] = "build"
  /\ NodeOf["tests"] = "test"
  /\ \A g \in VG : NodeOf[g] \in ValidNodes /\ After(g) \in ValidNodes
  /\ VG \subseteq Groups /\ "angular_update" \in Groups \ VG /\ "target" \in Groups \ VG
  /\ "lockfile" \in Groups \ VG
<1>1. /\ NodeOf["final_install"] = "final_install" /\ NodeOf["builds"] = "build"
      /\ NodeOf["tests"] = "test"
  BY DEF NodeOf
<1> QED
  BY <1>1, Groups_ DEF After, VG, ValidNodes

\* A validation node reads the result of its own command and advances that command's step.
LEMMA ValidateIs ==
  ASSUME NEW g \in VG, Validate(g)
  PROVE  /\ At(NodeOf[g]) /\ AdvanceGroup(g, After(g))
         /\ UNCHANGED <<ws, stage, pc, prompt, attempts, post, gates, seals, budget>>
<1>1. CASE g = "final_install"
  BY <1>1 DEF Validate, After
<1>2. CASE g = "builds"
  BY <1>2 DEF Validate, After
<1>3. CASE g = "tests"
  BY <1>3 DEF Validate, After
<1> QED
  BY <1>1, <1>2, <1>3 DEF VG

\* A group that has passed leads on.
LEMMA PassedFits ==
  ASSUME NEW g \in VG, Fits(NodeOf[g]), IsPassed(g), Keyed(g)
  PROVE  Fits(After(g))
<1>1. Validated
  BY DEF Validated
<1>2. AttemptsFit(After(g)) /\ ValidationFits(After(g)) /\ KeysFit(After(g))
  BY <1>1, GroupNodes
     DEF Fits, AttemptsFit, ValidationFits, KeysFit, ValidNodes, RepairNodes, TargetNodes,
         UpdateNodes, SealedNodes
<1>3. UpdateFits(After(g)) /\ JudgedFits(After(g))
  BY GroupNodes
     DEF Fits, UpdateFits, JudgedFits, ValidNodes, TargetNodes, JudgedNodes, SealedNodes
<1>4. OrderFits(After(g))
  BY GroupNodes DEF Fits, OrderFits, ValidNodes, RepairNodes, JudgedNodes, SealedNodes,
                    AllPassed, After, VG
<1> QED
  BY <1>2, <1>3, <1>4 DEF Fits

\* While nothing is validated nothing has passed or failed.
LEMMA NothingPassed ==
  ASSUME Lasting, ~ Validated
  PROVE  /\ \A g \in VG : ~ Keyed(g) /\ ~ IsPassed(g) /\ ~ Open(g)
         /\ ~ Spoiled
BY DEF Lasting, CommandsBound, Validated, Spoiled, Open

\* A validation that fails is classified.
LEMMA FailedFits ==
  ASSUME Lasting, NEW n \in ValidNodes \cup {"repair_revalidate", "lockfile_generation"},
         Fits(n), n \in ValidNodes \cup {"repair_revalidate"} => \E g \in VG : Open(g)
  PROVE  Fits("classify_failure")
<1>1. n \in ValidNodes \cup {"repair_revalidate"} => Validated
  BY DEF Open, Validated
<1>2. n = "lockfile_generation" => ~ \E g \in VG : IsPassed(g)
  BY NothingPassed DEF Fits, ValidationFits
<1>3. OrderFits("classify_failure")
  BY <1>2 DEF OrderFits, JudgedNodes, SealedNodes, ValidNodes
<1> QED
  BY <1>1, <1>3
     DEF Fits, AttemptsFit, ValidationFits, KeysFit, UpdateFits, JudgedFits,
         UpdateNodes, SealedNodes, TargetNodes, ValidNodes, RepairNodes, JudgedNodes

\* _validation_failure
LEMMA FailedWithRow ==
  ASSUME cont \in ContRow, NEW code \in Errors, cont' = FailedWith(code)
  PROVE  cont' \in ContRow /\ cont'.node = "classify_failure" /\ cont'.error = code
BY DEF FailedWith, Queued, ContRow, StageNodes

\* What such steps leave alone.
Unmarked == <<ws, bound, stage, execs, latest, attempts, post, gates, seals, prompt>>
\* Steps that keep what they have shown, and an attempt that only gets another status.
LEMMA MarkMoves ==
  ASSUME StageInv, UNCHANGED <<ws, bound, stage, execs, latest, post, gates, seals, prompt>>,
         steps' \in [Groups -> StepRow], steps'["angular_update"] = steps["angular_update"],
         \A h \in VG : /\ steps'[h].key = steps[h].key /\ steps'[h].fp = steps[h].fp
                       /\ IsPassed(h)' = IsPassed(h),
         attempts' \in Seq(Attempt), Len(attempts') = Len(attempts), PatchesSpent', LastStands',
         ChangesDependencies(Len(attempts))' = ChangesDependencies(Len(attempts))
  PROVE  /\ Lasting' /\ Spoiled' = Spoiled /\ Validated' = Validated
         /\ UpdateGivenUp' = UpdateGivenUp
         /\ \A n : Fits(n) => KeysFit(n)' /\ UpdateFits(n)' /\ OrderFits(n)' /\ JudgedFits(n)'
<1>1. Lasting
  BY DEF StageInv
<1>2. \A h \in VG : Keyed(h)' = Keyed(h) /\ Open(h)' = Open(h) /\ IsPassed(h)' = IsPassed(h)
  BY DEF Keyed, Open
<1>3. /\ Validated' = Validated /\ UpdateLeftBehind' = UpdateLeftBehind
      /\ UpdateGivenUp' = UpdateGivenUp /\ AllPassed' = AllPassed
  BY <1>2 DEF Validated, UpdateLeftBehind, UpdateGivenUp, HasUpdate, UpdateExec, AllPassed
<1>4. Spoiled' = Spoiled
  BY <1>2 DEF Spoiled
<1>5. SourcesStay' = SourcesStay
  BY <1>2, GroupNodes DEF SourcesStay, VG
<1>6. ExecsTyped' /\ RestTyped'
  BY <1>1 DEF Lasting, ExecsTyped, RestTyped, StepRow
<1>7. KeysNumbered' /\ SealsRight'
  BY <1>1 DEF Lasting, KeysNumbered, SealsRight, SealedWasValidated, SealLeavesNothingOpen
<1>8. CommandsBound'
  BY <1>1, <1>2, <1>3 DEF Lasting, CommandsBound, Active
<1>9. CheckpointsPast'
  BY <1>1, <1>3 DEF Lasting, CheckpointsPast
<1>10. Lasting'
  BY <1>1, <1>4, <1>5, <1>6, <1>7, <1>8, <1>9 DEF Lasting
<1>11. ASSUME NEW n, Fits(n)
       PROVE  KeysFit(n)' /\ UpdateFits(n)' /\ OrderFits(n)' /\ JudgedFits(n)'
  <2>1. KeysFit(n)'
    BY <1>3, <1>11 DEF Fits, KeysFit
  <2>2. UpdateFits(n)' /\ JudgedFits(n)'
    BY <1>3, <1>11 DEF Fits, UpdateFits, JudgedFits
  <2>3. OrderFits(n)'
    BY <1>2, <1>3, <1>4, <1>11 DEF Fits, OrderFits, VG
  <2> QED
    BY <2>1, <2>2, <2>3
<1> QED
  BY <1>3, <1>4, <1>10, <1>11

\* A step is marked as failed.
LEMMA Marked ==
  ASSUME steps \in [Groups -> StepRow], NEW g \in VG, ~ IsPassed(g),
         steps' = [steps EXCEPT ![g].status = "FAILED"]
  PROVE  /\ steps' \in [Groups -> StepRow]
         /\ steps'["angular_update"] = steps["angular_update"]
         /\ \A h \in VG : /\ steps'[h].key = steps[h].key /\ steps'[h].fp = steps[h].fp
                          /\ IsPassed(h)' = IsPassed(h)
<1> DEFINE row == [steps[g] EXCEPT !.status = "FAILED"]
<1>1. g \in Groups /\ g # "angular_update" /\ "angular_update" \in Groups /\ VG \subseteq Groups
  BY GroupNodes
<1>2. /\ row \in StepRow /\ row.key = steps[g].key /\ row.fp = steps[g].fp
      /\ row.status = "FAILED"
  BY <1>1 DEF StepRow
<1>3. steps' = [steps EXCEPT ![g] = row]
  OBVIOUS
<1> HIDE DEF row
<1>4. /\ steps' \in [Groups -> StepRow] /\ steps'[g] = row
      /\ \A h \in Groups : h # g => steps'[h] = steps[h]
  BY <1>1, <1>2, <1>3
<1>5. ASSUME NEW h \in VG
      PROVE  /\ steps'[h].key = steps[h].key /\ steps'[h].fp = steps[h].fp
             /\ IsPassed(h)' = IsPassed(h)
  <2>1. CASE h = g
    BY <1>2, <1>4, <2>1 DEF IsPassed
  <2>2. CASE h # g
    BY <1>1, <1>4, <2>2 DEF IsPassed
  <2> QED
    BY <2>1, <2>2
<1> QED
  BY <1>1, <1>4, <1>5

\* A step that is marked as failed changes nothing that validation has shown.
LEMMA MarkKeeps ==
  ASSUME StageInv, UNCHANGED Unmarked, NEW g \in VG, ~ IsPassed(g),
         steps' = [steps EXCEPT ![g].status = "FAILED"], NEW n, Fits(n)
  PROVE  /\ Lasting' /\ Spoiled' = Spoiled
         /\ AttemptsFit(n)' /\ ValidationFits(n)' /\ KeysFit(n)' /\ UpdateFits(n)'
         /\ OrderFits(n)' /\ JudgedFits(n)'
<1>1. /\ steps \in [Groups -> StepRow] /\ attempts \in Seq(Attempt) /\ PatchesSpent
      /\ LastStands
  BY DEF StageInv, Lasting, ExecsTyped, RestTyped
<1>2. /\ attempts' \in Seq(Attempt) /\ Len(attempts') = Len(attempts)
      /\ PatchesSpent' /\ LastStands' /\ Newest' = Newest
      /\ ChangesDependencies(Len(attempts))' = ChangesDependencies(Len(attempts))
      /\ UNCHANGED <<ws, bound, stage, execs, latest, post, gates, seals, prompt>>
  BY <1>1 DEF Unmarked, PatchesSpent, LastStands, Newest, ChangesDependencies
<1>3. /\ Lasting' /\ Spoiled' = Spoiled /\ Validated' = Validated
      /\ UpdateGivenUp' = UpdateGivenUp
      /\ KeysFit(n)' /\ UpdateFits(n)' /\ OrderFits(n)' /\ JudgedFits(n)'
  <2>1. /\ steps' \in [Groups -> StepRow]
        /\ steps'["angular_update"] = steps["angular_update"]
        /\ \A h \in VG : /\ steps'[h].key = steps[h].key /\ steps'[h].fp = steps[h].fp
                         /\ IsPassed(h)' = IsPassed(h)
    BY <1>1, Marked
  <2> QED
    BY <1>2, <2>1, MarkMoves
<1>4. AttemptsFit(n)' /\ ValidationFits(n)'
  BY <1>2, <1>3 DEF Fits, AttemptsFit, ValidationFits, Unmarked, Settled
<1> QED
  BY <1>3, <1>4

\* What RowFits asks of a step that ends at a row nobody holds.
LEMMA RowIs ==
  ASSUME (cont \in ContRow)', pc' = "idle",
         prompt'.status = "waiting_human" => cont'.node = "wait_prompt_decision",
         cont'.node = "classify_failure" /\ cont'.error = "transient"
           => (Spoiled \/ IsUpdateFailure)'
  PROVE  RowFits'
BY DEF RowFits

\* _validation_failure of a failed command, or of one that changed the sources.
LEMMA GroupFails ==
  ASSUME StageInv, NEW g \in VG, NEW n \in ValidNodes \cup {"repair_revalidate"}, At(n),
         steps[g].key # NoKey, ~ IsPassed(g), GroupFailed(g), pc' = pc,
         UNCHANGED Unmarked
  PROVE  StageInv'
<1>1. /\ pc = "idle" /\ cont \in ContRow /\ Lasting /\ Fits(n) /\ prompt.status # "waiting_human"
  BY AtNode DEF ValidNodes
<1>2. Open(g)
  BY DEF Open, Keyed
<1>3. Fits("classify_failure")
  BY <1>1, <1>2, FailedFits
<1>4. steps \in [Groups -> StepRow] /\ g \in Groups /\ steps[g].key \in DOMAIN execs
      /\ execs[steps[g].key].code \in CommandCodes
  BY <1>1, GroupNodes DEF Lasting, ExecsTyped, StepRow, Exec
<1>5. CASE /\ execs[steps[g].key].status = "failed"
           /\ steps' = [steps EXCEPT ![g].status = "FAILED"]
           /\ cont' = FailedWith(execs[steps[g].key].code)
  <2>1. cont' \in ContRow /\ cont'.node = "classify_failure"
    BY <1>1, <1>4, <1>5, FailedWithRow DEF Errors
  <2>2. /\ Lasting' /\ Spoiled' = Spoiled
        /\ AttemptsFit("classify_failure")' /\ ValidationFits("classify_failure")'
        /\ KeysFit("classify_failure")' /\ UpdateFits("classify_failure")'
        /\ OrderFits("classify_failure")' /\ JudgedFits("classify_failure")'
    BY <1>3, <1>5, MarkKeeps
  <2>3. Spoiled
    BY <1>5 DEF Spoiled, Open, Keyed
  <2>4. (cont \in ContRow)'
    BY <2>1 DEF ContRow, Unmarked
  <2>5. RowFits'
    BY <1>1, <2>2, <2>3, <2>4, RowIs DEF Unmarked
  <2> QED
    BY <2>1, <2>2, <2>5, Assemble
<1>6. CASE UNCHANGED steps /\ cont' = FailedWith("mutated")
  <2>1. cont' \in ContRow /\ cont'.node = "classify_failure" /\ cont'.error = "mutated"
    BY <1>1, <1>6, FailedWithRow DEF Errors
  <2> QED
    BY <1>1, <1>3, <1>6, <2>1, Moves DEF Unmarked, Stage_, PromptRow, Lasting, RestTyped
<1> QED
  BY <1>5, <1>6 DEF GroupFailed

\* The command a node waits for is still running: only the row is put off.
LEMMA GroupWaits ==
  ASSUME StageInv, NEW g \in VG, NEW n, At(n), StillRunning(g), pc' = pc, UNCHANGED Unmarked
  PROVE  StageInv'
<1>1. pc = "idle" /\ cont \in ContRow
  BY AtNode
<1>2. cont' \in ContRow /\ cont'.node = cont.node /\ cont'.error = cont.error
  BY <1>1 DEF StillRunning, WaitingFor, ContRow, Active
<1> QED
  BY <1>1, <1>2, Stays DEF StillRunning, Stage_, Unmarked

\* advance_group on a group that has passed, still runs or has failed.
LEMMA ValidateMoves ==
  ASSUME StageInv, NEW g \in VG, Validate(g),
         \/ steps[g].status = "PASSED" /\ cont' = Queued(After(g))
            /\ UNCHANGED <<bound, execs, latest, steps>>
         \/ steps[g].status # "PASSED" /\ steps[g].key # NoKey
            /\ (StillRunning(g) \/ GroupFailed(g)) /\ UNCHANGED <<bound, execs, latest>>
  PROVE  StageInv'
<1>1. /\ At(NodeOf[g]) /\ UNCHANGED <<ws, stage, pc, prompt, attempts, post, gates, seals>>
      /\ NodeOf[g] \in ValidNodes
  BY ValidateIs, GroupNodes
<1>2. /\ pc = "idle" /\ cont \in ContRow /\ Lasting /\ Fits(NodeOf[g])
      /\ prompt \in PromptRow /\ prompt.status # "waiting_human"
  BY <1>1, AtNode DEF ValidNodes
<1>3. CASE steps[g].status = "PASSED" /\ cont' = Queued(After(g))
           /\ UNCHANGED <<bound, execs, latest, steps>>
  <2>1. Keyed(g)
    BY <1>2, <1>3 DEF Lasting, CommandsBound, IsPassed
  <2>2. Fits(After(g)) /\ After(g) # "classify_failure"
    BY <1>2, <1>3, <2>1, PassedFits DEF IsPassed, After
  <2>3. cont' \in ContRow /\ cont'.node = After(g)
    BY <1>2, <1>3 DEF ContRow, Queued, After, StageNodes
  <2> QED
    BY <1>1, <1>2, <1>3, <2>2, <2>3, Moves DEF Stage_
<1>4. CASE StillRunning(g) /\ UNCHANGED <<bound, execs, latest>>
  BY <1>1, <1>4, GroupWaits DEF Unmarked
<1>5. CASE steps[g].status # "PASSED" /\ steps[g].key # NoKey
           /\ GroupFailed(g) /\ UNCHANGED <<bound, execs, latest>>
  BY <1>1, <1>5, GroupFails DEF Unmarked, IsPassed
<1> QED
  BY <1>3, <1>4, <1>5

\* _block
LEMMA Blocks ==
  ASSUME StageInv, UNCHANGED Stage_, UNCHANGED prompt, pc' = "idle", NEW code \in Errors,
         code # "transient", Block(code)
  PROVE  StageInv'
<1>1. cont \in ContRow
  BY DEF StageInv, RowFits
<1>2. cont' \in ContRow /\ cont'.node = cont.node /\ cont'.error = code
  BY <1>1 DEF Block, ContRow
<1> QED
  BY <1>2, Stays

-----------------------------------------------------------------------------
(* Sealing and completion, where no seal is added. *)

\* seal up to its copy, complete, and a next stage that is refused or not needed.
LEMMA SealedMoves ==
  ASSUME StageInv,
         \/ CopySeal
         \/ CompleteRun
         \/ MaterializeNextStage /\ stage' = stage
  PROVE  StageInv'
<1>1. CASE CopySeal
  <2>1. /\ pc = "idle" /\ cont.node = "seal_stage" /\ cont \in ContRow /\ Lasting
        /\ Fits("seal_stage") /\ UNCHANGED Stage_ /\ UNCHANGED prompt
        /\ prompt.status # "waiting_human"
    BY <1>1, AtNode DEF CopySeal, Stage_
  <2>2. CASE pc' = "copied" /\ cont' = [cont EXCEPT !.status = "running"]
    <3>1. cont' \in ContRow /\ cont'.node = "seal_stage" /\ cont'.status = "running"
      BY <2>1, <2>2 DEF ContRow
    <3>2. Lasting'
      BY <2>1, LastingStays DEF Lasting, RestTyped, PromptRow
    <3>3. RowFits'
      BY <2>1, <2>2, <3>1 DEF RowFits, ContRow, Stage_
    <3> QED
      BY <2>1, <3>1, <3>2, <3>3, FitsStay, Assemble
  <2>3. CASE Block("approval_required") /\ UNCHANGED pc
    BY <2>1, <2>3, Blocks DEF Errors
  <2> QED
    BY <1>1, <2>2, <2>3 DEF CopySeal
<1>2. CASE CompleteRun
  <2>1. /\ pc = "idle" /\ pc' = "idle" /\ cont.node = "complete_run" /\ cont \in ContRow
        /\ Lasting /\ Fits("complete_run") /\ UNCHANGED Stage_ /\ UNCHANGED prompt
        /\ prompt.status # "waiting_human"
    BY <1>2, AtNode DEF CompleteRun, Stage_
  <2>2. CASE Block("gate_invariant")
    BY <2>1, <2>2, Blocks DEF Errors
  <2>3. CASE Block("work_remains")
    BY <2>1, <2>3, Blocks DEF Errors
  <2>4. CASE cont' = [cont EXCEPT !.status = "completed", !.node = "terminal"]
    <3>1. cont' \in ContRow /\ cont'.node = "terminal"
      BY <2>1, <2>4 DEF ContRow, StageNodes
    <3>2. Fits("terminal")
      BY <2>1, KindFits DEF SealedNodes
    <3> QED
      BY <2>1, <3>1, <3>2, Moves DEF Lasting, RestTyped, PromptRow
  <2> QED
    BY <1>2, <2>2, <2>3, <2>4 DEF CompleteRun
<1>3. CASE MaterializeNextStage /\ stage' = stage
  <2>1. /\ pc = "idle" /\ pc' = "idle" /\ cont.node = "materialize_next_stage"
        /\ cont \in ContRow /\ Lasting /\ Fits("materialize_next_stage")
        /\ prompt.status # "waiting_human" /\ stage \in Nat
    BY <1>3, AtNode, ConstantsAssumption DEF MaterializeNextStage, Lasting, RestTyped
  <2>2. /\ UNCHANGED Stage_ /\ UNCHANGED prompt
        /\ Block("materialize_refused") \/ cont' = Queued("complete_run")
    BY <1>3, <2>1 DEF MaterializeNextStage, Stage_, NextStageRefused
  <2>3. CASE Block("materialize_refused")
    BY <2>1, <2>2, <2>3, Blocks DEF Errors
  <2>4. CASE cont' = Queued("complete_run")
    <3>1. cont' \in ContRow /\ cont'.node = "complete_run"
      BY <2>1, <2>4 DEF ContRow, StageNodes, Queued
    <3>2. Fits("complete_run")
      BY <2>1, KindFits DEF SealedNodes
    <3> QED
      BY <2>1, <2>2, <3>1, <3>2, Moves DEF Lasting, RestTyped, PromptRow
  <2> QED
    BY <2>2, <2>3, <2>4
<1> QED
  BY <1>1, <1>2, <1>3

-----------------------------------------------------------------------------
(* Steps before anything is validated. *)

VGKept == \A g \in VG : steps'[g] = steps[g]

\* Where no validation step has a command and none gets one, there is nothing to spoil.
LEMMA KeptUnvalidated ==
  ASSUME Lasting, ~ Validated, VGKept
  PROVE  /\ ~ Validated'
         /\ \A g \in VG : ~ Keyed(g)' /\ ~ IsPassed(g)' /\ ~ Open(g)'
         /\ ~ Spoiled'
<1>1. \A g \in VG : Keyed(g)' = Keyed(g) /\ IsPassed(g)' = IsPassed(g)
  BY DEF VGKept, Keyed, IsPassed
<1>2. \A g \in VG : ~ Keyed(g)' /\ ~ IsPassed(g)' /\ ~ Open(g)'
  BY <1>1, NothingPassed DEF Open
<1> QED
  BY <1>2 DEF Validated, Spoiled

\* No group of the validation has a command, or has passed.
Bare == \A g \in VG : ~ Keyed(g) /\ ~ IsPassed(g)

\* Steps without commands have neither validated anything nor left anything open.
LEMMA BareIs ==
  ASSUME Bare'
  PROVE  ~ Validated' /\ ~ Spoiled' /\ \A g \in VG : ~ Open(g)'
BY DEF Bare, Validated, Spoiled, Open

\* What lasts while nothing is validated.
LEMMA LastsBare ==
  ASSUME Lasting, Bare', ExecsTyped', RestTyped', PatchesSpent', LastStands',
         KeysNumbered', UNCHANGED seals, \A k \in DOMAIN execs' : execs'[k].ckpt.fp <= ws'.all,
         prompt'.ckpt.fp <= ws'.all, post' <= ws'.all
  PROVE  Lasting'
<1>1. SourcesStay' /\ CommandsBound'
  BY BareIs DEF Bare, SourcesStay, CommandsBound, VG
<1>2. CheckpointsPast'
  BY BareIs DEF CheckpointsPast
<1>3. SealsRight'
  BY DEF Lasting, SealsRight, SealedWasValidated, SealLeavesNothingOpen
<1> QED
  BY <1>1, <1>2, <1>3 DEF Lasting

\* Where the row may go while nothing is validated and the attempts are settled.
LEMMA FitsBare ==
  ASSUME Bare',
         NEW n \in UpdateNodes \cup TargetNodes
                     \cup {"classify_failure", "lockfile_generation", "repair_revalidate"},
         n \in TargetNodes \cup {"lockfile_generation", "repair_revalidate"}
           => attempts' # <<>>,
         attempts' # <<>> =>
           Settled(Newest)' /\ Newest'.status \in {"applied_verified", "migration_retried"},
         \A k \in DOMAIN execs' : k[1] \in VG => k[3] # Len(attempts'),
         n \in {"lockfile_generation", "repair_revalidate"} => UpdateLeftBehind',
         n \in TargetNodes => steps'["angular_update"].status = "PASSED",
         gates'["G11"].status # "approved", Len(seals') = stage' - 1
  PROVE  /\ AttemptsFit(n)' /\ ValidationFits(n)' /\ KeysFit(n)' /\ UpdateFits(n)'
         /\ OrderFits(n)' /\ JudgedFits(n)'
<1>1. AttemptsFit(n)' /\ UpdateFits(n)' /\ JudgedFits(n)'
  BY DEF AttemptsFit, UpdateFits, JudgedFits, UpdateNodes, TargetNodes, ValidNodes, RepairNodes,
         SealedNodes, JudgedNodes
<1>2. ValidationFits(n)' /\ OrderFits(n)'
  BY BareIs DEF Bare, ValidationFits, OrderFits, UpdateNodes, TargetNodes, ValidNodes,
                RepairNodes, SealedNodes, JudgedNodes, VG
<1>3. KeysFit(n)'
  BY DEF KeysFit, Key, VG, UpdateNodes, TargetNodes, ValidNodes, RepairNodes, SealedNodes,
         JudgedNodes
<1> QED
  BY <1>1, <1>2, <1>3

\* What lasts, before anything is validated, when only the update and the repair move.
LEMMA LastsUnvalidated ==
  ASSUME Lasting, ~ Validated, VGKept, ExecsTyped', RestTyped', PatchesSpent', LastStands',
         KeysNumbered', UNCHANGED seals, \A k \in DOMAIN execs' : execs'[k].ckpt.fp <= ws'.all,
         prompt'.ckpt.fp <= ws'.all, post' <= ws'.all
  PROVE  Lasting'
BY KeptUnvalidated, LastsBare DEF Bare

\* The nodes before the validation ask for no more than that nothing is validated.
LEMMA FitsUnvalidated ==
  ASSUME Lasting, ~ Validated, VGKept,
         NEW n \in UpdateNodes \cup TargetNodes
                     \cup {"classify_failure", "lockfile_generation", "repair_revalidate"},
         n \in TargetNodes \cup {"lockfile_generation", "repair_revalidate"}
           => attempts' # <<>>,
         attempts' # <<>> =>
           Settled(Newest)' /\ Newest'.status \in {"applied_verified", "migration_retried"},
         \A k \in DOMAIN execs' : k[1] \in VG => k[3] # Len(attempts'),
         n \in {"lockfile_generation", "repair_revalidate"} => UpdateLeftBehind',
         n \in TargetNodes => steps'["angular_update"].status = "PASSED",
         gates'["G11"].status # "approved", Len(seals') = stage' - 1
  PROVE  /\ AttemptsFit(n)' /\ ValidationFits(n)' /\ KeysFit(n)' /\ UpdateFits(n)'
         /\ OrderFits(n)' /\ JudgedFits(n)'
<1>1. Bare'
  BY KeptUnvalidated DEF Bare
<1> QED
  BY <1>1, FitsBare

\* What Fits says of the nodes of the update and the target.
LEMMA UnvalidatedNode ==
  ASSUME StageInv, cont.node \in UpdateNodes \cup TargetNodes \cup {"lockfile_generation"}
  PROVE  /\ ~ Validated
         /\ \A k \in DOMAIN execs : k[1] \in VG => k[3] # Len(attempts)
         /\ attempts # <<>> =>
              Settled(Newest) /\ Newest.status \in {"applied_verified", "migration_retried"}
         /\ gates["G11"].status # "approved" /\ Len(seals) = stage - 1
         /\ cont.node \in TargetNodes =>
              attempts # <<>> /\ steps["angular_update"].status = "PASSED"
<1>1. Fits(cont.node)
  BY DEF StageInv
<1> QED
  BY <1>1 DEF Fits, AttemptsFit, ValidationFits, KeysFit, UpdateFits, JudgedFits, UpdateNodes,
              TargetNodes, ValidNodes, RepairNodes, SealedNodes, JudgedNodes

\* _handle_prompt for an update that ended.
LEMMA UpdateSucceededKeeps ==
  ASSUME StageInv, UpdateSucceeded
  PROVE  StageInv'
<1>1. /\ pc = "idle" /\ pc' = "idle" /\ cont.node = "handle_prompt" /\ cont \in ContRow
      /\ Lasting /\ prompt.status # "waiting_human"
      /\ UNCHANGED <<ws, bound, stage, execs, latest, prompt, post, gates, seals>>
  BY AtNode DEF UpdateSucceeded
<1>2. CASE Block("repair_missing") /\ UNCHANGED <<steps, attempts>>
  BY <1>1, <1>2, Blocks DEF Errors, Stage_
<1>3. CASE /\ LatestRepair # 0
           /\ steps' = [steps EXCEPT !["angular_update"].status = "PASSED"]
           /\ attempts' = IF attempts[LatestRepair].status = "applied_verified"
                            THEN SetStatus(LatestRepair, "migration_retried") ELSE attempts
           /\ cont' = Queued("target_inspection")
  <2>1. /\ LatestRepair = Len(attempts) /\ attempts # <<>> /\ attempts \in Seq(Attempt)
        /\ Len(attempts) \in DOMAIN attempts /\ Newest \in Attempt
        /\ steps \in [Groups -> StepRow]
    BY <1>1, <1>3, Latest, AttemptsShape DEF Lasting, RestTyped, ExecsTyped, Newest
  <2>2. /\ ~ Validated /\ \A k \in DOMAIN execs : k[1] \in VG => k[3] # Len(attempts)
        /\ Settled(Newest) /\ Newest.status \in {"applied_verified", "migration_retried"}
        /\ gates["G11"].status # "approved" /\ Len(seals) = stage - 1
    BY <1>1, <2>1, UnvalidatedNode DEF UpdateNodes
  <2>3. /\ VGKept /\ steps' \in [Groups -> StepRow]
        /\ steps'["angular_update"].status = "PASSED"
    BY <1>3, <2>1, GroupNodes DEF VGKept, StepRow
  <2>4. /\ attempts' \in Seq(Attempt) /\ Len(attempts') = Len(attempts) /\ attempts' # <<>>
        /\ DOMAIN attempts' = DOMAIN attempts
        /\ \A j \in DOMAIN attempts :
             /\ attempts'[j].pre = attempts[j].pre /\ attempts'[j].patches = attempts[j].patches
        /\ Settled(Newest)' /\ Newest'.status = "migration_retried"
    <3>1. CASE Newest.status = "applied_verified"
      <4> DEFINE a == [Newest EXCEPT !.status = "migration_retried"]
      <4>1. /\ a \in Attempt /\ a.status = "migration_retried" /\ a.pre = Newest.pre
            /\ a.patches = Newest.patches /\ a.post = Newest.post /\ a.g10 = Newest.g10
        BY <2>1 DEF Attempt, AttemptStatuses, AppliedRepair
      <4>2. attempts' = [attempts EXCEPT ![Len(attempts)] = a]
        BY <1>3, <2>1, <3>1 DEF SetStatus, Newest
      <4> HIDE DEF a
      <4>3. /\ attempts' \in Seq(Attempt) /\ Len(attempts') = Len(attempts) /\ attempts' # <<>>
            /\ DOMAIN attempts' = DOMAIN attempts
            /\ \A j \in DOMAIN attempts :
                 attempts'[j] = IF j = Len(attempts) THEN a ELSE attempts[j]
        BY <2>1, <4>1, <4>2, AttemptSet
      <4>4. Newest' = a
        BY <2>1, <4>3 DEF Newest
      <4> QED
        BY <2>2, <4>1, <4>3, <4>4 DEF Newest, Settled
    <3>2. CASE Newest.status # "applied_verified"
      <4>1. attempts' = attempts
        BY <1>3, <2>1, <3>2 DEF Newest
      <4>2. Newest' = Newest /\ Newest.status = "migration_retried"
        BY <2>2, <3>2, <4>1 DEF Newest
      <4> QED
        BY <2>1, <2>2, <4>1, <4>2 DEF Settled
    <3> QED
      BY <3>1, <3>2
  <2>5. ExecsTyped' /\ RestTyped'
    BY <1>1, <2>3, <2>4 DEF Lasting, ExecsTyped, RestTyped, StepRow
  <2>6. PatchesSpent' /\ LastStands' /\ KeysNumbered'
    BY <1>1, <2>4 DEF Lasting, PatchesSpent, LastStands, KeysNumbered
  <2>7. Lasting'
    BY <1>1, <2>2, <2>3, <2>5, <2>6, LastsUnvalidated DEF Lasting, CheckpointsPast
  <2>8. /\ AttemptsFit("target_inspection")' /\ ValidationFits("target_inspection")'
        /\ KeysFit("target_inspection")' /\ UpdateFits("target_inspection")'
        /\ OrderFits("target_inspection")' /\ JudgedFits("target_inspection")'
    BY <1>1, <2>2, <2>3, <2>4, FitsUnvalidated DEF TargetNodes
  <2>9. cont' \in ContRow /\ cont'.node = "target_inspection"
    BY <1>1, <1>3 DEF ContRow, Queued, StageNodes
  <2>10. (cont \in ContRow)'
    BY <1>1, <2>9 DEF ContRow
  <2>11. RowFits'
    BY <1>1, <2>9, <2>10, RowIs
  <2> QED
    BY <2>7, <2>8, <2>9, <2>11, Assemble
<1> QED
  BY <1>2, <1>3 DEF UpdateSucceeded

\* The update failed: the row goes to the classification with the code of the failure.
LEMMA UpdateFailedKeeps ==
  ASSUME StageInv, UpdateFailed
  PROVE  StageInv'
<1> DEFINE code == IF UpdateExec.code = "none" THEN "update_failed" ELSE UpdateExec.code
<1>1. /\ pc = "idle" /\ pc' = "idle" /\ cont.node = "handle_prompt" /\ cont \in ContRow
      /\ Lasting /\ prompt.status # "waiting_human" /\ HasUpdate
      /\ UNCHANGED <<ws, bound, stage, execs, latest, prompt, attempts, post, gates, seals>>
      /\ steps' = [steps EXCEPT !["angular_update"].status = "FAILED"]
      /\ cont' = FailedWith(code)
  BY AtNode DEF UpdateFailed
<1>2. steps \in [Groups -> StepRow] /\ UpdateExec.code \in CommandCodes
  BY <1>1, GroupNodes DEF Lasting, ExecsTyped, UpdateExec, HasUpdate, StepRow, Exec
<1>3. code \in Errors
  BY <1>2 DEF Errors
<1>4. cont' \in ContRow /\ cont'.node = "classify_failure"
  BY <1>1, <1>3, FailedWithRow
<1>5. /\ VGKept /\ steps' \in [Groups -> StepRow] /\ IsUpdateFailure'
  BY <1>1, <1>2, GroupNodes DEF VGKept, StepRow, IsUpdateFailure, HasUpdate
<1>6. /\ ~ Validated /\ \A k \in DOMAIN execs : k[1] \in VG => k[3] # Len(attempts)
      /\ attempts # <<>> =>
           Settled(Newest) /\ Newest.status \in {"applied_verified", "migration_retried"}
      /\ gates["G11"].status # "approved" /\ Len(seals) = stage - 1
  BY <1>1, UnvalidatedNode DEF UpdateNodes
<1>7. ExecsTyped' /\ RestTyped'
  BY <1>1, <1>5 DEF Lasting, ExecsTyped, RestTyped, StepRow
<1>8. PatchesSpent' /\ LastStands' /\ KeysNumbered'
  BY <1>1 DEF Lasting, PatchesSpent, LastStands, Newest, KeysNumbered
<1>9. Lasting'
  BY <1>1, <1>5, <1>6, <1>7, <1>8, LastsUnvalidated DEF Lasting, CheckpointsPast
<1>10. /\ AttemptsFit("classify_failure")' /\ ValidationFits("classify_failure")'
       /\ KeysFit("classify_failure")' /\ UpdateFits("classify_failure")'
       /\ OrderFits("classify_failure")' /\ JudgedFits("classify_failure")'
  <2>1. attempts # <<>> =>
          Settled(Newest)' /\ Newest'.status \in {"applied_verified", "migration_retried"}
    BY <1>1, <1>6 DEF Newest, Settled
  <2> QED
    BY <1>1, <1>5, <1>6, <2>1, FitsUnvalidated DEF TargetNodes
<1>11. (cont \in ContRow)'
  BY <1>1, <1>4 DEF ContRow
<1>12. RowFits'
  BY <1>1, <1>5, <1>11, RowIs
<1> QED
  BY <1>4, <1>9, <1>10, <1>12, Assemble

-----------------------------------------------------------------------------
(* Commands that are queued. *)

NewRow(k, ckpt, start) ==
  /\ DOMAIN execs' = DOMAIN execs \cup {k}
  /\ execs' \in [DOMAIN execs' -> Exec] /\ IsFiniteSet(DOMAIN execs')
  /\ \A x \in DOMAIN execs' : x[1] \in Groups /\ (x[1] \in VG => x[3] \in Nat)
  /\ \A x \in DOMAIN execs : x # k => execs'[x] = execs[x]
  /\ execs'[k].ckpt = ckpt /\ execs'[k].start = start
  /\ k \in DOMAIN execs => execs'[k].status = execs[k].status
  /\ k \notin DOMAIN execs => execs'[k].status = "active"

\* The row of a queued command, new or found again.
LEMMA InsertedRow ==
  ASSUME ExecsTyped, NEW k, k[1] \in Groups, k[1] \in VG => k[3] \in Nat,
         NEW parent \in BOOLEAN, NEW try \in Nat, NEW template \in {2, 3},
         NEW ckpt \in Checkpoint, NEW prm \in Nat, NEW start \in Nat,
         execs' = Inserted(k, parent, try, template, ckpt, prm, start)
  PROVE  NewRow(k, ckpt, start)
<1> DEFINE old == [execs[k] EXCEPT !.ckpt = ckpt, !.prompt = prm, !.start = start]
           new == [status |-> "active", code |-> "none", prompt |-> prm, ckpt |-> ckpt,
                   parent |-> parent, try |-> try, template |-> template, start |-> start,
                   wrote |-> FALSE]
           row == IF k \in DOMAIN execs THEN old ELSE new
<1>1. /\ k \in DOMAIN execs => old \in Exec /\ old.ckpt = ckpt /\ old.start = start
                               /\ old.status = execs[k].status
  BY DEF ExecsTyped, Exec, Checkpoint
<1>2. new \in Exec /\ new.ckpt = ckpt /\ new.start = start /\ new.status = "active"
  BY DEF Exec, Checkpoint, CommandCodes
<1>3. execs' = [x \in DOMAIN execs \cup {k} |-> IF x # k THEN execs[x] ELSE row]
  BY DEF Inserted
<1>4. row \in Exec /\ row.ckpt = ckpt /\ row.start = start
      /\ (k \in DOMAIN execs => row.status = execs[k].status)
      /\ (k \notin DOMAIN execs => row.status = "active")
  BY <1>1, <1>2
<1> HIDE DEF row
<1>5. IsFiniteSet(DOMAIN execs \cup {k})
  BY FS_AddElement DEF ExecsTyped
<1> QED
  BY <1>3, <1>4, <1>5 DEF ExecsTyped, NewRow

\* What a queued command leaves of the commands and steps.
LEMMA QueuedTyped ==
  ASSUME ExecsTyped, NEW k, NEW ckpt, NEW start, NewRow(k, ckpt, start),
         latest' = RequestedLast(k), NEW g \in Groups, steps' = Running(g, k)
  PROVE  /\ ExecsTyped'
         /\ \A h \in Groups : h # g => steps'[h] = steps[h]
         /\ steps'[g].key = k /\ steps'[g].status = "RUNNING" /\ steps'[g].fp = steps[g].fp
         /\ cont \in ContRow => \A n \in StageNodes : WaitingFor(k, n) \in ContRow'
<1>1. /\ DOMAIN execs' = DOMAIN execs \cup {k}
      /\ execs' \in [DOMAIN execs' -> Exec] /\ IsFiniteSet(DOMAIN execs')
      /\ \A x \in DOMAIN execs' : x[1] \in Groups /\ (x[1] \in VG => x[3] \in Nat)
  BY DEF NewRow
<1>2. latest' \in DOMAIN execs' \cup {NoKey}
  BY <1>1 DEF RequestedLast, ExecsTyped
<1>3. /\ \A h \in Groups : h # g => steps'[h] = steps[h]
      /\ steps'[g].key = k /\ steps'[g].status = "RUNNING" /\ steps'[g].fp = steps[g].fp
      /\ steps' \in [Groups -> StepRow']
  <2> DEFINE row == [steps[g] EXCEPT !.status = "RUNNING", !.key = k]
  <2>1. steps \in [Groups -> StepRow] /\ steps[g] \in StepRow
    BY DEF ExecsTyped
  <2>2. row.key = k /\ row.status = "RUNNING" /\ row.fp = steps[g].fp /\ row \in StepRow'
    BY <1>1, <2>1 DEF StepRow
  <2>3. steps' = [steps EXCEPT ![g] = row]
    BY <2>1 DEF Running
  <2>4. \A h \in Groups : steps[h] \in StepRow'
    BY <1>1, <2>1 DEF StepRow
  <2> HIDE DEF row
  <2> QED
    BY <2>1, <2>2, <2>3, <2>4
<1>4. cont \in ContRow => \A n \in StageNodes : WaitingFor(k, n) \in ContRow'
  BY <1>1 DEF ContRow, WaitingFor
<1> QED
  BY <1>1, <1>2, <1>3, <1>4 DEF ExecsTyped

\* The commands of the update, of its target and of the lockfile are queued before anything
\* is validated.
LEMMA QueuedUnvalidated ==
  ASSUME StageInv, ~ Validated, \A x \in DOMAIN execs : x[1] \in VG => x[3] # Len(attempts),
         attempts # <<>> =>
           Settled(Newest) /\ Newest.status \in {"applied_verified", "migration_retried"},
         gates["G11"].status # "approved", Len(seals) = stage - 1,
         NEW g \in {"angular_update", "target", "lockfile"}, NEW k, k[1] = g,
         NEW ckpt, ckpt.fp <= ws.all, NEW start, NewRow(k, ckpt, start),
         latest' = RequestedLast(k), steps' = Running(g, k),
         NEW n, cont' = WaitingFor(k, n),
         \/ g = "angular_update" /\ n = "handle_prompt"
         \/ /\ g = "target" /\ n = "version_verify" /\ attempts # <<>>
            /\ steps["angular_update"].status = "PASSED"
         \/ /\ g = "lockfile" /\ n = "lockfile_generation" /\ attempts # <<>>
            /\ UpdateLeftBehind /\ ckpt.fp < ws.all,
         pc' = "idle", prompt.status # "waiting_human",
         UNCHANGED <<ws, bound, stage, prompt, attempts, gates, seals>>,
         post' \in Nat, post' <= ws.all
  PROVE  StageInv'
<1>1. /\ Lasting /\ cont \in ContRow /\ ExecsTyped /\ k[1] \in Groups /\ g \in Groups \ VG
      /\ k[1] \in VG => k[3] \in Nat
  BY GroupNodes, Groups_ DEF StageInv, RowFits, Lasting, VG
<1>2. n \in StageNodes /\ n # "classify_failure"
  BY DEF StageNodes
<1>3. /\ ExecsTyped' /\ \A h \in Groups : h # g => steps'[h] = steps[h]
      /\ WaitingFor(k, n) \in ContRow'
  BY <1>1, <1>2, QueuedTyped
<1>4. /\ DOMAIN execs' = DOMAIN execs \cup {k} /\ execs'[k].ckpt = ckpt
      /\ \A x \in DOMAIN execs : x # k => execs'[x] = execs[x]
  BY DEF NewRow
<1>5. VGKept
  BY <1>1, <1>3, GroupNodes DEF VGKept
<1>6. RestTyped' /\ PatchesSpent' /\ LastStands'
  BY <1>1 DEF Lasting, RestTyped, PatchesSpent, LastStands, Newest
<1>7. KeysNumbered' /\ \A x \in DOMAIN execs' : x[1] \in VG => x[3] # Len(attempts')
  BY <1>1, <1>4 DEF Lasting, KeysNumbered
<1>8. \A x \in DOMAIN execs' : execs'[x].ckpt.fp <= ws'.all
  BY <1>1, <1>4 DEF Lasting, CheckpointsPast
<1>9. Lasting'
  BY <1>1, <1>3, <1>5, <1>6, <1>7, <1>8, LastsUnvalidated DEF Lasting, CheckpointsPast
<1>10. g = "lockfile" => UpdateLeftBehind'
  <2>1. g = "lockfile" => steps'["angular_update"] = steps["angular_update"]
    BY <1>3, Groups_
  <2>2. steps["angular_update"].key \in DOMAIN execs \cup {NoKey}
    BY <1>1, Groups_ DEF ExecsTyped, StepRow
  <2> QED
    BY <2>1, <2>2, <1>4 DEF UpdateLeftBehind, UpdateGivenUp, HasUpdate, UpdateExec
<1>11. n \in TargetNodes => steps'["angular_update"].status = "PASSED"
  BY <1>3, GroupNodes DEF TargetNodes
<1>12. attempts' # <<>> =>
         Settled(Newest)' /\ Newest'.status \in {"applied_verified", "migration_retried"}
  BY DEF Newest, Settled
<1>13. /\ AttemptsFit(n)' /\ ValidationFits(n)' /\ KeysFit(n)' /\ UpdateFits(n)'
       /\ OrderFits(n)' /\ JudgedFits(n)'
  <2>1. n \in UpdateNodes \cup TargetNodes \cup {"lockfile_generation"}
    BY DEF UpdateNodes, TargetNodes
  <2>2. n \in TargetNodes \cup {"lockfile_generation", "repair_revalidate"} => attempts' # <<>>
    BY DEF TargetNodes
  <2>3. n \in {"lockfile_generation", "repair_revalidate"} => UpdateLeftBehind'
    BY <1>10
  <2> QED
    BY <1>1, <1>5, <1>7, <1>11, <1>12, <2>1, <2>2, <2>3, FitsUnvalidated
<1>14. (cont \in ContRow)' /\ cont'.node = n
  BY <1>1, <1>3 DEF WaitingFor, ContRow
<1>15. RowFits'
  BY <1>2, <1>14, RowIs
<1> QED
  BY <1>9, <1>13, <1>14, <1>15, Assemble

\* _angular_update
LEMMA AngularUpdateKeeps ==
  ASSUME StageInv, BudgetTyped, AngularUpdate
  PROVE  StageInv'
<1> DEFINE decided == prompt.status = "decided"
           k == IF decided THEN Key("angular_update", "prompt", budget.prompts)
                           ELSE Key("angular_update", "initial", 0)
           ckpt == IF decided THEN prompt.ckpt
                              ELSE [kind |-> "pre_angular_update", fp |-> ws.all]
           prm == IF decided THEN budget.prompts ELSE 0
<1>1. /\ pc = "idle" /\ pc' = "idle" /\ cont.node = "angular_update" /\ cont \in ContRow
      /\ Lasting /\ prompt.status # "waiting_human"
      /\ UNCHANGED <<ws, bound, stage, prompt, attempts, post, gates, seals>>
  BY AtNode DEF AngularUpdate
<1>2. CASE Block("queue_failed") /\ UNCHANGED <<execs, latest, steps>>
  BY <1>1, <1>2, Blocks DEF Errors, Stage_
<1>3. CASE /\ execs' = Inserted(k, FALSE, 1, Template, ckpt, prm, 0)
           /\ latest' = RequestedLast(k)
           /\ steps' = Running("angular_update", k)
           /\ cont' = WaitingFor(k, "handle_prompt")
  <2>1. /\ k[1] = "angular_update" /\ ckpt \in Checkpoint /\ ckpt.fp <= ws.all
        /\ Template \in {2, 3}
    BY <1>1, ConstantsAssumption DEF Key, Lasting, RestTyped, CheckpointsPast, Checkpoint
  <2>2. prm \in Nat
    BY DEF BudgetTyped
  <2>3. post' \in Nat /\ post' <= ws.all
    BY <1>1 DEF Lasting, RestTyped, CheckpointsPast
  <2> HIDE DEF k, ckpt, prm
  <2>4. NewRow(k, ckpt, 0)
    BY <1>1, <1>3, <2>1, <2>2, InsertedRow, Groups_ DEF Lasting, VG
  <2> QED
    BY <1>1, <1>3, <2>1, <2>3, <2>4, UnvalidatedNode, QueuedUnvalidated DEF UpdateNodes
<1> QED
  BY <1>2, <1>3 DEF AngularUpdate

\* _queue_group for the target and the lockfile.
LEMMA QueueGroupKeeps ==
  ASSUME StageInv, NEW n, NEW g, n = cont.node,
         \/ g = "target" /\ n \in TargetNodes
         \/ g = "lockfile" /\ n = "lockfile_generation",
         NEW k, k[1] = g, NEW parent \in BOOLEAN, NEW try \in Nat, NEW node,
         QueueGroup(g, k, parent, try, node),
         node = IF g = "target" THEN "version_verify" ELSE "lockfile_generation",
         pc = "idle", pc' = "idle", prompt.status # "waiting_human",
         UNCHANGED <<ws, bound, stage, prompt, attempts, post, gates, seals>>
  PROVE  StageInv'
<1>1. /\ Lasting /\ cont \in ContRow /\ Fits(n)
  BY DEF StageInv, RowFits
<1>2. CASE Block("queue_failed") /\ UNCHANGED <<execs, latest, steps>>
  BY <1>1, <1>2, Blocks DEF Errors, Stage_
<1>3. CASE /\ execs' = Inserted(k, parent, try, 3, NoCheckpoint, 0, ws.src)
           /\ latest' = RequestedLast(k) /\ steps' = Running(g, k)
           /\ cont' = WaitingFor(k, node)
  <2>1. /\ g \in Groups \ VG /\ k[1] \in Groups /\ (k[1] \in VG => k[3] \in Nat)
        /\ g \in {"angular_update", "target", "lockfile"} /\ ExecsTyped
    BY <1>1, GroupNodes DEF Lasting
  <2>2. NoCheckpoint \in Checkpoint /\ NoCheckpoint.fp < ws.all /\ NoCheckpoint.fp <= ws.all
        /\ ws.src \in Nat
    BY <1>1 DEF NoCheckpoint, Checkpoint, Lasting, RestTyped
  <2>3. NewRow(k, NoCheckpoint, ws.src)
    BY <1>3, <2>1, <2>2, InsertedRow
  <2>4. /\ ~ Validated /\ \A x \in DOMAIN execs : x[1] \in VG => x[3] # Len(attempts)
        /\ attempts # <<>> =>
             Settled(Newest) /\ Newest.status \in {"applied_verified", "migration_retried"}
        /\ gates["G11"].status # "approved" /\ Len(seals) = stage - 1
        /\ n \in TargetNodes =>
             attempts # <<>> /\ steps["angular_update"].status = "PASSED"
    BY UnvalidatedNode
  <2>5. n = "lockfile_generation" => attempts # <<>> /\ UpdateLeftBehind
    BY <1>1 DEF Fits, AttemptsFit, UpdateFits
  <2>6. post' \in Nat /\ post' <= ws.all
    BY <1>1 DEF Lasting, RestTyped, CheckpointsPast
  <2>7. CASE g = "target"
    BY <1>1, <1>3, <2>1, <2>2, <2>3, <2>4, <2>6, <2>7, QueuedUnvalidated
  <2>8. CASE g = "lockfile"
    BY <1>1, <1>3, <2>1, <2>2, <2>3, <2>4, <2>5, <2>6, <2>8, QueuedUnvalidated
       DEF TargetNodes
  <2> QED
    BY <2>7, <2>8
<1> QED
  BY <1>2, <1>3 DEF QueueGroup

\* _target_inspection
LEMMA TargetInspectionKeeps ==
  ASSUME StageInv, TargetInspection
  PROVE  StageInv'
<1> DEFINE k == Key("target", "attempt", AttemptKey)
<1>1. /\ pc = "idle" /\ pc' = "idle" /\ cont.node = "target_inspection"
      /\ prompt.status # "waiting_human" /\ k[1] = "target"
      /\ UNCHANGED <<ws, bound, stage, prompt, attempts, post, gates, seals>>
  BY AtNode DEF TargetInspection, Key
<1>2. QueueGroup("target", k, FALSE, 1, "version_verify")
  BY DEF TargetInspection
<1> HIDE DEF k
<1> QED
  BY <1>1, <1>2, QueueGroupKeeps DEF TargetNodes

\* A step of the target or of the lockfile passes; the binding follows the workspace.
LEMMA StepPasses ==
  ASSUME StageInv, NEW g \in {"target", "lockfile"}, NEW n,
         cont.node \in TargetNodes \cup {"lockfile_generation"},
         NEW fp \in Nat,
         \/ g = "target" /\ n \in TargetNodes /\ cont.node \in TargetNodes
         \/ /\ g = "lockfile" /\ n = "repair_revalidate"
            /\ cont.node = "lockfile_generation",
         \/ steps' = [steps EXCEPT ![g].status = "PASSED", ![g].fp = fp]
         \/ steps' = [steps EXCEPT ![g].status = "PASSED"]
         \/ steps' = steps,
         (cont \in ContRow)', cont'.node = n, pc' = "idle", prompt.status # "waiting_human",
         bound' \in {bound, ws.all}, gates'["G11"] = gates["G11"],
         (gates \in [Gates -> [status : {"none", "pending", "approved", "rejected"}, fp : Nat]])',
         UNCHANGED <<ws, stage, execs, latest, prompt, attempts, post, seals>>
  PROVE  StageInv'
<1>1. /\ Lasting /\ ExecsTyped /\ steps \in [Groups -> StepRow] /\ g \in Groups \ VG
      /\ Fits(cont.node)
  BY GroupNodes DEF StageInv, Lasting, ExecsTyped
<1>2. /\ VGKept /\ steps' \in [Groups -> StepRow]
      /\ steps'["angular_update"] = steps["angular_update"]
  BY <1>1, GroupNodes DEF VGKept, StepRow
<1>3. /\ ~ Validated /\ \A x \in DOMAIN execs : x[1] \in VG => x[3] # Len(attempts)
      /\ attempts # <<>> =>
           Settled(Newest) /\ Newest.status \in {"applied_verified", "migration_retried"}
      /\ gates["G11"].status # "approved" /\ Len(seals) = stage - 1
      /\ cont.node \in TargetNodes =>
           attempts # <<>> /\ steps["angular_update"].status = "PASSED"
  BY UnvalidatedNode
<1>4. cont.node = "lockfile_generation" => attempts # <<>> /\ UpdateLeftBehind
  BY <1>1 DEF Fits, AttemptsFit, UpdateFits
<1>5. ExecsTyped' /\ RestTyped'
  BY <1>1, <1>2 DEF Lasting, ExecsTyped, RestTyped, StepRow
<1>6. PatchesSpent' /\ LastStands' /\ KeysNumbered'
  BY <1>1 DEF Lasting, PatchesSpent, LastStands, Newest, KeysNumbered
<1>7. Lasting'
  BY <1>1, <1>2, <1>3, <1>5, <1>6, LastsUnvalidated DEF Lasting, CheckpointsPast
<1>8. UpdateLeftBehind' = UpdateLeftBehind
  BY <1>2 DEF UpdateLeftBehind, UpdateGivenUp, HasUpdate, UpdateExec
<1>9. attempts' # <<>> =>
        Settled(Newest)' /\ Newest'.status \in {"applied_verified", "migration_retried"}
  BY <1>3 DEF Newest, Settled
<1>10. /\ AttemptsFit(n)' /\ ValidationFits(n)' /\ KeysFit(n)' /\ UpdateFits(n)'
       /\ OrderFits(n)' /\ JudgedFits(n)'
  <2>1. /\ n \in TargetNodes \cup {"repair_revalidate"} /\ attempts' # <<>>
        /\ n \in {"lockfile_generation", "repair_revalidate"} => UpdateLeftBehind'
        /\ n \in TargetNodes => steps'["angular_update"].status = "PASSED"
    BY <1>2, <1>3, <1>4, <1>8 DEF TargetNodes
  <2> QED
    BY <1>1, <1>2, <1>3, <1>9, <2>1, FitsUnvalidated
<1>11. RowFits'
  BY RowIs DEF TargetNodes
<1> QED
  BY <1>7, <1>10, <1>11, Assemble

\* _version_verify
LEMMA VersionVerifyKeeps ==
  ASSUME StageInv, VersionVerify
  PROVE  StageInv'
<1>1. /\ pc = "idle" /\ pc' = "idle" /\ cont.node = "version_verify" /\ cont \in ContRow
      /\ Lasting /\ prompt.status # "waiting_human"
      /\ UNCHANGED <<ws, stage, prompt, attempts, post, seals>>
  BY AtNode DEF VersionVerify
<1>2. CASE UNCHANGED <<bound, execs, latest, steps, gates>>
           /\ (Block("evidence_missing") \/ Block("target_check_failed"))
  BY <1>1, <1>2, Blocks DEF Errors, Stage_
<1>3. CASE /\ QueueGroup("target", Key("target", "recovery", AttemptKey), TRUE, 2,
                         "version_verify")
           /\ UNCHANGED <<bound, gates>>
  <2> DEFINE k == Key("target", "recovery", AttemptKey)
  <2>1. k[1] = "target" /\ QueueGroup("target", k, TRUE, 2, "version_verify")
    BY <1>3 DEF Key
  <2> HIDE DEF k
  <2> QED
    BY <1>1, <1>3, <2>1, QueueGroupKeeps DEF TargetNodes
<1>4. CASE UNCHANGED <<execs, latest>> /\ TargetEvidence
  <2>1. CASE Block("version_evidence") /\ UNCHANGED <<bound, steps, gates>>
    BY <1>1, <1>4, <2>1, Blocks DEF Errors, Stage_
  <2>2. CASE /\ bound' = ws.all /\ CreateGate("G08", ws.all)
             /\ steps' = [steps EXCEPT !["target"].status = "PASSED", !["target"].fp = ws.all]
    <3>1. ws.all \in Nat
      BY <1>1 DEF Lasting, RestTyped
    <3>2. gates \in [Gates -> [status : {"none", "pending", "approved", "rejected"}, fp : Nat]]
      BY <1>1 DEF Lasting, RestTyped
    <3>3. /\ gates' \in [Gates -> [status : {"none", "pending", "approved", "rejected"},
                                   fp : Nat]]
          /\ gates'["G11"] = gates["G11"]
      BY <2>2, <3>1, <3>2 DEF CreateGate, Gates
    <3>4. cont' \in ContRow /\ cont'.node \in {"version_verify", "wait_g08"}
      <4>1. CASE /\ gates["G08"].status = "pending"
                 /\ cont' = [cont EXCEPT !.status = IF gates["G08"].fp = ws.all THEN "running"
                                                    ELSE "blocked"]
        BY <1>1, <4>1 DEF ContRow
      <4>2. CASE cont' = [WaitingAt("G08") EXCEPT !.error = "none"]
        BY <1>1, <4>2 DEF ContRow, WaitingAt, StageNodes, Errors, CommandCodes
      <4> QED
        BY <2>2, <4>1, <4>2 DEF CreateGate
    <3>5. (cont \in ContRow)'
      BY <1>4, <3>4 DEF ContRow
    <3>6. CASE cont'.node = "version_verify"
      BY <1>1, <1>4, <2>2, <3>1, <3>3, <3>5, <3>6, StepPasses DEF TargetNodes
    <3>7. CASE cont'.node = "wait_g08"
      BY <1>1, <1>4, <2>2, <3>1, <3>3, <3>5, <3>7, StepPasses DEF TargetNodes
    <3> QED
      BY <3>4, <3>6, <3>7
  <2> QED
    BY <1>4, <2>1, <2>2 DEF TargetEvidence
<1> QED
  BY <1>2, <1>3, <1>4 DEF VersionVerify

\* LockfileGenerationRunner.advance
LEMMA LockfileKeeps ==
  ASSUME StageInv, LockfileGeneration
  PROVE  StageInv'
<1> DEFINE k == steps["lockfile"].key
<1>1. /\ pc = "idle" /\ pc' = "idle" /\ cont.node = "lockfile_generation" /\ cont \in ContRow
      /\ Lasting /\ prompt.status # "waiting_human" /\ Fits("lockfile_generation")
      /\ UNCHANGED <<ws, stage, prompt, attempts, post, gates, seals>>
  BY AtNode DEF LockfileGeneration
<1>2. /\ gates \in [Gates -> [status : {"none", "pending", "approved", "rejected"}, fp : Nat]]
      /\ gates' \in [Gates -> [status : {"none", "pending", "approved", "rejected"}, fp : Nat]]
      /\ prompt \in PromptRow
  BY <1>1 DEF Lasting, RestTyped, PromptRow
<1>3. CASE UNCHANGED <<execs, latest>> /\ cont' = Queued("repair_revalidate")
           /\ \/ UNCHANGED <<bound, steps>>
              \/ /\ bound' = ws.all
                 /\ steps' = [steps EXCEPT !["lockfile"].status = "PASSED"]
  <2>1. cont' \in ContRow /\ cont'.node = "repair_revalidate"
    BY <1>1, <1>3 DEF ContRow, Queued, StageNodes
  <2>2. (cont \in ContRow)'
    BY <1>3, <2>1 DEF ContRow
  <2>3. 0 \in Nat /\ bound' \in {bound, ws.all}
    BY <1>3
  <2> QED
    BY <1>1, <1>2, <1>3, <2>1, <2>2, <2>3, StepPasses DEF TargetNodes
<1>4. CASE QueueLockfile(Len(attempts)) /\ UNCHANGED bound
  <2>1. CASE Block("lockfile_stale") /\ UNCHANGED <<execs, latest, steps>>
    BY <1>1, <1>4, <2>1, Blocks DEF Errors, Stage_
  <2>2. CASE QueueGroup("lockfile", Key("lockfile", "attempt", Len(attempts)), FALSE, 1,
                        "lockfile_generation")
    <3> DEFINE q == Key("lockfile", "attempt", Len(attempts))
    <3>1. q[1] = "lockfile" /\ QueueGroup("lockfile", q, FALSE, 1, "lockfile_generation")
      BY <2>2 DEF Key
    <3> HIDE DEF q
    <3> QED
      BY <1>1, <1>4, <3>1, QueueGroupKeeps
  <2> QED
    BY <1>4, <2>1, <2>2 DEF QueueLockfile
<1>5. CASE /\ k \in Active /\ cont' = WaitingFor(k, "lockfile_generation")
           /\ UNCHANGED <<bound, execs, latest, steps>>
  <2>1. cont' \in ContRow /\ cont'.node = cont.node /\ cont'.error = cont.error
    BY <1>1, <1>5 DEF WaitingFor, ContRow, Active
  <2> QED
    BY <1>1, <1>5, <2>1, Stays DEF Stage_
<1>6. CASE LockfileFailed(execs[k]) /\ UNCHANGED <<bound, execs, latest, steps>>
  <2>1. CASE Block("lockfile_failed")
    BY <1>1, <1>6, <2>1, Blocks DEF Errors, Stage_
  <2>2. CASE execs[k].code \in Codes /\ cont' = FailedWith(execs[k].code)
    <3>1. execs[k].code \in Errors /\ execs[k].code # "transient"
      BY <2>2, ConstantsAssumption DEF Errors, CommandCodes
    <3>2. cont' \in ContRow /\ cont'.node = "classify_failure" /\ cont'.error # "transient"
      BY <1>1, <2>2, <3>1, FailedWithRow
    <3>3. Fits("classify_failure")
      BY <1>1, FailedFits DEF ValidNodes
    <3> QED
      BY <1>1, <1>2, <1>6, <3>2, <3>3, Moves DEF Stage_
  <2> QED
    BY <1>6, <2>1, <2>2 DEF LockfileFailed
<1>7. CASE Block("lockfile_mutation") /\ UNCHANGED <<bound, execs, latest, steps>>
  BY <1>1, <1>7, Blocks DEF Errors, Stage_
<1> QED
  BY <1>3, <1>4, <1>5, <1>6, <1>7 DEF LockfileGeneration, LockfileVerified

-----------------------------------------------------------------------------
(* Retries of the update. *)

\* An update is retried before anything is validated.
LEMMA RetryKeeps ==
  ASSUME StageInv, ~ Validated, \A x \in DOMAIN execs : x[1] \in VG => x[3] # Len(attempts),
         attempts # <<>> =>
           Settled(Newest) /\ Newest.status \in {"applied_verified", "migration_retried"},
         gates["G11"].status # "approved", Len(seals) = stage - 1,
         cont.node \in {"classify_failure", "angular_update_retry"}, HasUpdate,
         NEW k, k[1] = "angular_update", NEW newest \in Nat, newest <= ws.all,
         QueueRetry(k, newest), pc' = "idle", prompt.status # "waiting_human",
         UNCHANGED <<ws, bound, stage, prompt, attempts, gates, seals>>,
         post' \in Nat, post' <= ws.all
  PROVE  StageInv'
<1>1. Lasting /\ cont \in ContRow /\ ExecsTyped
  BY DEF StageInv, RowFits, Lasting
<1>2. UpdateExec \in Exec /\ UpdateExec.ckpt.fp <= ws.all
  BY <1>1, GroupNodes DEF ExecsTyped, HasUpdate, UpdateExec, StepRow, Lasting, CheckpointsPast
<1>3. CASE Block("retry_refused") /\ UNCHANGED <<execs, latest, steps>>
  <2>1. cont' \in ContRow /\ cont'.node = cont.node /\ cont'.error = "retry_refused"
    BY <1>1, <1>3 DEF Block, ContRow, Errors
  <2>2. VGKept /\ ExecsTyped' /\ RestTyped'
    BY <1>1, <1>3 DEF VGKept, Lasting, ExecsTyped, StepRow, RestTyped
  <2>3. PatchesSpent' /\ LastStands' /\ KeysNumbered'
    BY <1>1, <1>3 DEF Lasting, PatchesSpent, LastStands, Newest, KeysNumbered
  <2>4. Lasting'
    BY <1>1, <1>3, <2>2, <2>3, LastsUnvalidated DEF Lasting, CheckpointsPast
  <2>5. attempts' # <<>> =>
          Settled(Newest)' /\ Newest'.status \in {"applied_verified", "migration_retried"}
    BY DEF Newest, Settled
  <2> DEFINE n == cont.node
  <2>6. /\ AttemptsFit(n)' /\ ValidationFits(n)' /\ KeysFit(n)' /\ UpdateFits(n)'
        /\ OrderFits(n)' /\ JudgedFits(n)'
    <3>1. \A m \in {"classify_failure", "angular_update_retry"} :
            /\ AttemptsFit(m)' /\ ValidationFits(m)' /\ KeysFit(m)' /\ UpdateFits(m)'
            /\ OrderFits(m)' /\ JudgedFits(m)'
      BY <1>1, <1>3, <2>2, <2>5, FitsUnvalidated DEF TargetNodes, UpdateNodes
    <3>2. cont'.node \in {"classify_failure", "angular_update_retry"}
      BY <2>1
    <3>3. /\ AttemptsFit(cont.node)' /\ ValidationFits(cont.node)' /\ KeysFit(cont.node)'
          /\ UpdateFits(cont.node)' /\ OrderFits(cont.node)' /\ JudgedFits(cont.node)'
      BY <3>1, <3>2 DEF AttemptsFit, ValidationFits, KeysFit, UpdateFits, OrderFits, JudgedFits
    <3> QED
      BY <3>3, <2>1
         DEF AttemptsFit, ValidationFits, KeysFit, UpdateFits, OrderFits, JudgedFits
  <2>7. RowFits'
    BY <1>3, <2>1, RowIs DEF ContRow
  <2> QED
    BY <2>1, <2>4, <2>6, <2>7, Assemble
<1>4. CASE /\ execs' = Inserted(k, TRUE, UpdateExec.try + 1, 3, RetryCheckpoint(newest), 0, 0)
           /\ latest' = RequestedLast(k) /\ steps' = Running("angular_update", k)
           /\ cont' = WaitingFor(k, "handle_prompt")
  <2> DEFINE ckpt == RetryCheckpoint(newest)
             try == UpdateExec.try + 1
  <2>1. /\ ckpt \in Checkpoint /\ ckpt.fp <= ws.all /\ try \in Nat
    BY <1>2 DEF RetryCheckpoint, Exec, Checkpoint
  <2>2. k[1] \in Groups /\ (k[1] \in VG => k[3] \in Nat)
    BY GroupNodes
  <2>3. execs' = Inserted(k, TRUE, try, 3, ckpt, 0, 0)
    BY <1>4
  <2> HIDE DEF ckpt, try
  <2>4. NewRow(k, ckpt, 0)
    BY <1>1, <2>1, <2>2, <2>3, InsertedRow
  <2> QED
    BY <1>4, <2>1, <2>4, QueuedUnvalidated
<1> QED
  BY <1>3, <1>4 DEF QueueRetry

\* _angular_update_retry
LEMMA AngularUpdateRetryKeeps ==
  ASSUME StageInv, AngularUpdateRetry
  PROVE  StageInv'
<1>1. /\ pc = "idle" /\ pc' = "idle" /\ cont.node = "angular_update_retry"
      /\ cont \in ContRow /\ Lasting /\ prompt.status # "waiting_human"
      /\ UNCHANGED <<ws, bound, stage, prompt, attempts, post, gates, seals>>
  BY AtNode DEF AngularUpdateRetry
<1>2. CASE Block("retry_invalid") /\ UNCHANGED <<execs, latest, steps>>
  BY <1>1, <1>2, Blocks DEF Errors, Stage_
<1>3. CASE RetryEligible /\ QueueRetry(Key("angular_update", "retry", LatestRepair), post)
  <2> DEFINE k == Key("angular_update", "retry", LatestRepair)
  <2>1. /\ k[1] = "angular_update" /\ QueueRetry(k, post) /\ HasUpdate
        /\ post \in Nat /\ post <= ws.all
    BY <1>1, <1>3 DEF Key, RetryEligible, IsUpdateFailure, Lasting, RestTyped, CheckpointsPast
  <2> HIDE DEF k
  <2> QED
    BY <1>1, <2>1, UnvalidatedNode, RetryKeeps DEF UpdateNodes
<1> QED
  BY <1>2, <1>3 DEF AngularUpdateRetry

\* The command_policy route: what was requested last is the update.
LEMMA ClassifyDirtyKeeps ==
  ASSUME StageInv, ClassifyDirty
  PROVE  StageInv'
<1>1. /\ pc = "idle" /\ pc' = "idle" /\ cont.node = "classify_failure"
      /\ cont \in ContRow /\ Lasting /\ prompt.status # "waiting_human"
      /\ Fits("classify_failure")
      /\ UNCHANGED <<ws, bound, stage, prompt, attempts, gates, seals>>
  BY AtNode DEF ClassifyDirty
<1>2. latest[1] = "angular_update"
  BY DEF ClassifyDirty, Route, Failure
<1>3. ~ Validated
  BY <1>1, <1>2 DEF Lasting, CommandsBound
<1>4. /\ \A x \in DOMAIN execs : x[1] \in VG => x[3] # Len(attempts)
      /\ attempts # <<>> =>
           Settled(Newest) /\ Newest.status \in {"applied_verified", "migration_retried"}
      /\ gates["G11"].status # "approved" /\ Len(seals) = stage - 1
  BY <1>1, <1>3 DEF Fits, AttemptsFit, ValidationFits, KeysFit, JudgedFits, RepairNodes,
                    ValidNodes, JudgedNodes, SealedNodes
<1>5. CASE Block("lineage_missing") /\ UNCHANGED <<execs, latest, steps, post>>
  BY <1>1, <1>5, Blocks DEF Errors, Stage_
<1>6. CASE IsUpdateFailure /\ \E k, newest : /\ k[1] = "angular_update" /\ newest \in Nat
                                             /\ newest <= ws.all /\ QueueRetry(k, newest)
                                             /\ post' \in Nat /\ post' <= ws.all
  <2>1. PICK k, newest : /\ k[1] = "angular_update" /\ newest \in Nat
                         /\ newest <= ws.all /\ QueueRetry(k, newest)
                         /\ post' \in Nat /\ post' <= ws.all
    BY <1>6
  <2> QED
    BY <1>1, <1>3, <1>4, <1>6, <2>1, RetryKeeps DEF IsUpdateFailure
<1>7. /\ post \in Nat /\ post <= ws.all /\ ws.all \in Nat /\ ws.all <= ws.all
      /\ \A t, m : Key("angular_update", t, m)[1] = "angular_update"
  BY <1>1 DEF Lasting, RestTyped, CheckpointsPast, Key
<1>8. CASE \E applied : /\ IsUpdateFailure /\ UNCHANGED post
                        /\ QueueRetry(Key("angular_update", "retry", Max(applied)), post)
  BY <1>6, <1>7, <1>8
<1>9. CASE /\ IsUpdateFailure /\ post' = ws.all
           /\ QueueRetry(Key("angular_update", "retry", 0), ws.all)
  BY <1>6, <1>7, <1>9
<1> QED
  BY <1>5, <1>8, <1>9 DEF ClassifyDirty

-----------------------------------------------------------------------------
(* The repair loop. *)

Repaired == <<bound, stage, execs, latest, steps, prompt, post, gates, seals>>

\* Where the row may be in the repair loop: little is asked of it there.
LEMMA RepairMoves ==
  ASSUME StageInv, cont.node \in RepairNodes \cup {"classify_failure"}, UNCHANGED Repaired,
         ws' \in [all : Nat \ {0}, src : Nat], ws.all <= ws'.all,
         NEW n \in RepairNodes, cont'.node = n, RowFits',
         attempts' \in Seq(Attempt), attempts' # <<>>, Len(attempts') >= Len(attempts),
         \A k \in DOMAIN execs : k[1] \in VG => k[3] # Len(attempts'),
         PatchesSpent', LastStands'
  PROVE  StageInv'
<1>1. /\ Lasting /\ Fits(cont.node) /\ Len(attempts) \in Nat /\ Len(attempts') \in Nat
      /\ ws.all \in Nat /\ ws'.all \in Nat
  BY LenProperties DEF StageInv, Lasting, RestTyped
<1>2. /\ \A g \in VG : IsPassed(g)' = IsPassed(g) /\ Open(g)' = Open(g)
      /\ Spoiled' = Spoiled /\ Validated' = Validated
      /\ HasUpdate' = HasUpdate /\ UpdateGivenUp' = UpdateGivenUp /\ UpdateExec' = UpdateExec
  BY DEF Repaired, Spoiled, Open, Keyed, IsPassed, Validated, UpdateGivenUp, HasUpdate, UpdateExec
<1>3. ~ Spoiled /\ (\E g \in VG : IsPassed(g)) => \E g \in VG : Open(g)
  BY <1>1 DEF Fits, OrderFits
<1>4. (~ Spoiled => SourcesStay)'
  <2> SUFFICES ASSUME ~ Spoiled, SourcesStay
               PROVE  SourcesStay'
    BY <1>1, <1>2 DEF Lasting
  <2>1. /\ (Keyed("tests") => IsPassed("builds"))'
        /\ \A g \in VG : IsPassed(g)' => steps'[g].fp = bound'
        /\ \A g \in VG : Open(g)' /\ (\E h \in VG : IsPassed(h)')
             => execs'[steps'[g].key].start = bound'
    BY <1>2 DEF SourcesStay, Repaired, Keyed, VG
  <2>2. ~ ((\A g \in VG : ~ Open(g)') /\ (\E h \in VG : IsPassed(h)'))
    BY <1>2, <1>3
  <2> QED
    BY <2>1, <2>2 DEF SourcesStay
<1>5. ExecsTyped' /\ RestTyped'
  BY <1>1 DEF Lasting, ExecsTyped, StepRow, RestTyped, Repaired
<1>6. CommandsBound' /\ SealsRight'
  BY <1>1, <1>2 DEF Lasting, CommandsBound, SealsRight, Validated, Keyed,
         IsPassed, Active, SealedWasValidated, SealLeavesNothingOpen, Repaired
<1>7. CheckpointsPast'
  <2>1. \A k \in DOMAIN execs : execs[k].ckpt.fp \in Nat
    BY <1>1 DEF Lasting, ExecsTyped, Exec
  <2>2. prompt.ckpt.fp \in Nat /\ post \in Nat
    BY <1>1 DEF Lasting, RestTyped, Checkpoint
  <2>3. UpdateLeftBehind => UpdateLeftBehind'
    <3>1. HasUpdate => UpdateExec.ckpt.fp \in Nat
      BY <1>1, <2>1, GroupNodes DEF HasUpdate, UpdateExec, Lasting, ExecsTyped, StepRow
    <3> QED
      BY <1>1, <1>2, <3>1 DEF UpdateLeftBehind
  <2> QED
    BY <1>1, <1>2, <2>1, <2>2, <2>3 DEF Lasting, CheckpointsPast, Repaired
<1>8. KeysNumbered'
  <2>1. \A k \in DOMAIN execs : k[1] \in VG => k[3] \in Nat /\ k[3] <= Len(attempts)
    BY <1>1 DEF Lasting, KeysNumbered, ExecsTyped
  <2> QED
    BY <1>1, <2>1 DEF KeysNumbered, Repaired
<1>9. Lasting'
  BY <1>1, <1>4, <1>5, <1>6, <1>7, <1>8 DEF Lasting
<1>10. gates["G11"].status # "approved" /\ Len(seals) = stage - 1
  BY <1>1 DEF Fits, JudgedFits, RepairNodes, JudgedNodes, SealedNodes
<1>11. AttemptsFit(n)' /\ UpdateFits(n)' /\ JudgedFits(n)'
  BY <1>10 DEF AttemptsFit, UpdateFits, JudgedFits, RepairNodes, TargetNodes, ValidNodes,
               JudgedNodes, SealedNodes, Repaired
<1>12. ValidationFits(n)' /\ OrderFits(n)'
  <2>1. ValidationFits(n)'
    BY DEF ValidationFits, RepairNodes, UpdateNodes, TargetNodes, ValidNodes, JudgedNodes,
           SealedNodes
  <2>2. ~ Spoiled' /\ (\E g \in VG : IsPassed(g)') => \E g \in VG : Open(g)'
    BY <1>2, <1>3
  <2> QED
    BY <2>1, <2>2 DEF OrderFits, RepairNodes, ValidNodes, JudgedNodes, SealedNodes
<1>13. KeysFit(n)'
  BY DEF KeysFit, RepairNodes, ValidNodes, JudgedNodes, SealedNodes, Repaired
<1> QED
  BY <1>9, <1>11, <1>12, <1>13, Assemble

\* The repair at hand and its keys.
LEMMA RepairNode ==
  ASSUME StageInv, cont.node \in RepairNodes
  PROVE  /\ attempts # <<>> /\ attempts \in Seq(Attempt) /\ Newest \in Attempt
         /\ LatestRepair = Len(attempts) /\ Len(attempts) \in DOMAIN attempts
         /\ attempts[Len(attempts)] = Newest /\ Len(attempts) \in Nat /\ Len(attempts) # 0
         /\ \A k \in DOMAIN execs : k[1] \in VG => k[3] # Len(attempts)
         /\ prompt.status # "waiting_human" /\ Lasting /\ cont \in ContRow
         /\ Newest.pre <= ws.all /\ Newest.patches <= 1
         /\ Newest.patches = 1 => Newest.pre < ws.all
<1>1. /\ attempts # <<>> /\ attempts \in Seq(Attempt) /\ Lasting /\ cont \in ContRow
      /\ \A k \in DOMAIN execs : k[1] \in VG => k[3] # Len(attempts)
      /\ prompt.status # "waiting_human"
  BY DEF StageInv, Lasting, RestTyped, RowFits, Fits, AttemptsFit, KeysFit, RepairNodes
<1>2. /\ Len(attempts) \in DOMAIN attempts /\ attempts[Len(attempts)] = Newest
      /\ Newest \in Attempt /\ Len(attempts) \in Nat /\ Len(attempts) # 0
  BY <1>1, AttemptsShape DEF Newest
<1>3. LatestRepair = Len(attempts)
  BY <1>1, Latest DEF Lasting
<1>4. /\ Newest.pre <= ws.all /\ Newest.patches <= 1
      /\ Newest.patches = 1 => Newest.pre < ws.all
  BY <1>1, <1>2 DEF Lasting, PatchesSpent
<1> QED
  BY <1>1, <1>2, <1>3, <1>4

\* The newest attempt changes.
LEMMA NewestSet ==
  ASSUME attempts \in Seq(Attempt), attempts # <<>>, PatchesSpent, NEW a \in Attempt,
         attempts' = [attempts EXCEPT ![Len(attempts)] = a], a.status # "superseded",
         a.pre = Newest.pre, ws.all \in Nat, ws'.all \in Nat,
         \/ a.patches = Newest.patches /\ ws' = ws
         \/ a.patches <= 1 /\ a.pre < ws'.all /\ ws.all < ws'.all
  PROVE  /\ attempts' \in Seq(Attempt) /\ Len(attempts') = Len(attempts) /\ attempts' # <<>>
         /\ Newest' = a /\ PatchesSpent' /\ LastStands'
<1>1. Len(attempts) \in DOMAIN attempts /\ \A i \in DOMAIN attempts : attempts[i] \in Attempt
  BY AttemptsShape
<1>2. /\ attempts' \in Seq(Attempt) /\ Len(attempts') = Len(attempts) /\ attempts' # <<>>
      /\ DOMAIN attempts' = DOMAIN attempts
      /\ \A j \in DOMAIN attempts : attempts'[j] = IF j = Len(attempts) THEN a ELSE attempts[j]
  BY <1>1, AttemptSet
<1>3. Newest' = a
  BY <1>1, <1>2 DEF Newest
<1>4. ASSUME NEW i \in DOMAIN attempts
      PROVE  /\ attempts'[i].pre <= ws'.all /\ attempts'[i].patches <= 1
             /\ attempts'[i].patches = 1 => attempts'[i].pre < ws'.all
  <2>1. /\ attempts[i].pre \in Nat /\ attempts[i].patches \in Nat
        /\ attempts[i].pre <= ws.all /\ attempts[i].patches <= 1
        /\ attempts[i].patches = 1 => attempts[i].pre < ws.all
    BY <1>1 DEF PatchesSpent, Attempt
  <2>2. CASE i # Len(attempts)
    BY <1>2, <2>1, <2>2
  <2>3. CASE i = Len(attempts)
    <3>1. attempts'[i] = a /\ attempts[i] = Newest /\ a.pre \in Nat /\ a.patches \in Nat
      BY <1>2, <2>3 DEF Newest, Attempt
    <3> QED
      BY <2>1, <3>1
  <2> QED
    BY <2>2, <2>3
<1> QED
  BY <1>2, <1>3, <1>4 DEF PatchesSpent, LastStands

\* A node of the repair loop writes its attempt and moves on.
LEMMA RepairStep ==
  ASSUME StageInv, cont.node \in RepairNodes, UNCHANGED ws, UNCHANGED Repaired, NEW a \in Attempt,
         a.pre = Newest.pre, a.patches = Newest.patches, a.status # "superseded",
         attempts' = [attempts EXCEPT ![Len(attempts)] = a],
         cont' \in ContRow, cont'.node \in RepairNodes, pc' = "idle"
  PROVE  StageInv'
<1>1. /\ attempts # <<>> /\ attempts \in Seq(Attempt) /\ PatchesSpent
      /\ \A k \in DOMAIN execs : k[1] \in VG => k[3] # Len(attempts)
      /\ prompt.status # "waiting_human" /\ ws.all \in Nat /\ Len(attempts) \in Nat
  BY RepairNode DEF Lasting, RestTyped
<1>2. /\ attempts' \in Seq(Attempt) /\ Len(attempts') = Len(attempts) /\ attempts' # <<>>
      /\ PatchesSpent' /\ LastStands'
  BY <1>1, NewestSet DEF Repaired
<1>3. (cont \in ContRow)'
  BY DEF ContRow, Repaired
<1>4. RowFits'
  BY <1>1, <1>3, RowIs DEF Repaired, RepairNodes
<1>5. ws' \in [all : Nat \ {0}, src : Nat] /\ ws.all <= ws'.all
  BY <1>1, RepairNode DEF Lasting, RestTyped
<1> QED
  BY <1>1, <1>2, <1>4, <1>5, RepairMoves

\* _propose_repair
LEMMA ProposeRepairKeeps ==
  ASSUME StageInv, ProposeRepair
  PROVE  StageInv'
<1>1. /\ pc = "idle" /\ pc' = "idle" /\ cont.node = "propose_repair" /\ cont \in ContRow
      /\ UNCHANGED ws /\ UNCHANGED Repaired
  BY AtNode DEF ProposeRepair, Repaired
<1>2. /\ LatestRepair = Len(attempts) /\ Newest \in Attempt /\ attempts \in Seq(Attempt)
      /\ attempts[Len(attempts)] = Newest /\ Len(attempts) \in DOMAIN attempts
  BY <1>1, RepairNode DEF RepairNodes
<1>3. CASE Block("proposal_failed") /\ UNCHANGED attempts
  BY <1>1, <1>3, Blocks DEF Errors, Stage_, Repaired
<1>4. CASE /\ \E op \in Ops :
                attempts' = [attempts EXCEPT ![LatestRepair].status = "proposed",
                                             ![LatestRepair].op = op]
           /\ cont' = Queued("review_repair")
  <2>1. PICK op \in Ops : attempts' = [attempts EXCEPT ![LatestRepair].status = "proposed",
                                                       ![LatestRepair].op = op]
    BY <1>4
  <2>0. "proposed" \in AttemptStatuses
    BY DEF AttemptStatuses, ActiveRepair
  <2> DEFINE a == [Newest EXCEPT !.status = "proposed", !.op = op]
  <2>2. /\ a \in Attempt /\ a.pre = Newest.pre /\ a.patches = Newest.patches
        /\ a.status = "proposed"
    BY <1>2, <2>0 DEF Attempt
  <2>3. attempts' = [attempts EXCEPT ![Len(attempts)] = a]
    BY <1>2, <2>1
  <2>4. cont' \in ContRow /\ cont'.node = "review_repair"
    BY <1>1, <1>4 DEF ContRow, Queued, StageNodes
  <2> HIDE DEF a
  <2> QED
    BY <1>1, <2>2, <2>3, <2>4, RepairStep DEF RepairNodes
<1> QED
  BY <1>3, <1>4 DEF ProposeRepair

\* _review_repair
LEMMA ReviewRepairKeeps ==
  ASSUME StageInv, ReviewRepair
  PROVE  StageInv'
<1>1. /\ pc = "idle" /\ pc' = "idle" /\ cont.node = "review_repair" /\ cont \in ContRow
      /\ UNCHANGED ws /\ UNCHANGED Repaired
  BY AtNode DEF ReviewRepair, Repaired
<1>2. /\ LatestRepair = Len(attempts) /\ Newest \in Attempt /\ attempts \in Seq(Attempt)
      /\ attempts[Len(attempts)] = Newest /\ Len(attempts) \in DOMAIN attempts
  BY <1>1, RepairNode DEF RepairNodes
<1>3. CASE Block("review_failed") /\ UNCHANGED attempts
  BY <1>1, <1>3, Blocks DEF Errors, Stage_, Repaired
<1>4. CASE \E d \in {"accept", "request_changes"} :
             /\ attempts' = [attempts EXCEPT ![LatestRepair].review = d,
                  ![LatestRepair].status =
                     IF d = "accept" THEN "review_accepted" ELSE "request_changes"]
             /\ cont' = Queued("create_g10")
  <2>1. PICK d \in {"accept", "request_changes"} :
             /\ attempts' = [attempts EXCEPT ![LatestRepair].review = d,
                  ![LatestRepair].status =
                     IF d = "accept" THEN "review_accepted" ELSE "request_changes"]
             /\ cont' = Queued("create_g10")
    BY <1>4
  <2> DEFINE s == IF d = "accept" THEN "review_accepted" ELSE "request_changes"
             a == [Newest EXCEPT !.review = d, !.status = s]
  <2>2. s \in AttemptStatuses \ {"superseded"}
    BY DEF AttemptStatuses, ActiveRepair
  <2>3. attempts' = [attempts EXCEPT ![Len(attempts)] = a]
    BY <1>2, <2>1
  <2> HIDE DEF s
  <2>4. /\ a \in Attempt /\ a.pre = Newest.pre /\ a.patches = Newest.patches
        /\ a.status # "superseded"
    BY <1>2, <2>2 DEF Attempt
  <2>5. cont' \in ContRow /\ cont'.node = "create_g10"
    BY <1>1, <2>1 DEF ContRow, Queued, StageNodes
  <2> HIDE DEF a
  <2> QED
    BY <1>1, <2>3, <2>4, <2>5, RepairStep DEF RepairNodes
<1>5. CASE /\ attempts' = [attempts EXCEPT ![LatestRepair].review = "reject",
                                           ![LatestRepair].status = "rejected"]
           /\ Block("review_rejected")
  <2> DEFINE a == [Newest EXCEPT !.review = "reject", !.status = "rejected"]
  <2>1. /\ a \in Attempt /\ a.pre = Newest.pre /\ a.patches = Newest.patches
        /\ a.status # "superseded"
    BY <1>2 DEF Attempt, AttemptStatuses
  <2>2. attempts' = [attempts EXCEPT ![Len(attempts)] = a]
    BY <1>2, <1>5
  <2>3. cont' \in ContRow /\ cont'.node = "review_repair"
    BY <1>1, <1>5 DEF ContRow, Block, Errors
  <2> HIDE DEF a
  <2> QED
    BY <1>1, <2>1, <2>2, <2>3, RepairStep DEF RepairNodes
<1> QED
  BY <1>3, <1>4, <1>5 DEF ReviewRepair

\* _create_repair_gate
LEMMA CreateG10Keeps ==
  ASSUME StageInv, CreateG10
  PROVE  StageInv'
<1>1. /\ pc = "idle" /\ pc' = "idle" /\ cont.node = "create_g10" /\ cont \in ContRow
      /\ UNCHANGED ws /\ UNCHANGED Repaired
  BY AtNode DEF CreateG10, Repaired
<1>2. /\ LatestRepair = Len(attempts) /\ Newest \in Attempt /\ attempts \in Seq(Attempt)
      /\ attempts[Len(attempts)] = Newest /\ Len(attempts) \in DOMAIN attempts
  BY <1>1, RepairNode DEF RepairNodes
<1>3. CASE Block("lineage_stale") /\ UNCHANGED attempts
  BY <1>1, <1>3, Blocks DEF Errors, Stage_, Repaired
<1>4. CASE G10Created(LatestRepair)
  <2>0. "waiting_g10" \in AttemptStatuses
    BY DEF AttemptStatuses, ActiveRepair
  <2> DEFINE a == [Newest EXCEPT !.status = "waiting_g10", !.g10 = "pending"]
  <2>1. /\ a \in Attempt /\ a.pre = Newest.pre /\ a.patches = Newest.patches
        /\ a.status # "superseded"
    BY <1>2, <2>0 DEF Attempt
  <2>2. attempts' = [attempts EXCEPT ![Len(attempts)] = a]
    BY <1>2, <1>4 DEF G10Created
  <2>3. cont' \in ContRow /\ cont'.node = "wait_g10"
    BY <1>1, <1>4 DEF ContRow, G10Created, WaitingAt, StageNodes
  <2> HIDE DEF a
  <2> QED
    BY <1>1, <2>1, <2>2, <2>3, RepairStep DEF RepairNodes
<1> QED
  BY <1>3, <1>4 DEF CreateG10

\* decide on G10
LEMMA DecideG10Keeps ==
  ASSUME StageInv, NEW approve \in BOOLEAN, DecideG10(approve)
  PROVE  StageInv'
<1>1. cont \in ContRow /\ cont = WaitingAt("G10") /\ UNCHANGED ws
      /\ UNCHANGED Repaired /\ pc' = pc
  BY DEF DecideG10, Repaired, StageInv, RowFits
<1>2. cont.node = "wait_g10" /\ cont.status = "waiting_gate"
  <2>1. cont = [cont EXCEPT !.status = "waiting_gate", !.node = "wait_g10"]
    BY <1>1 DEF WaitingAt
  <2> QED
    BY <1>1, <2>1 DEF ContRow
<1>3. pc = "idle"
  BY <1>2 DEF StageInv, RowFits
<1>4. /\ Newest \in Attempt /\ attempts \in Seq(Attempt)
      /\ attempts[Len(attempts)] = Newest /\ Len(attempts) \in DOMAIN attempts
  BY <1>2, RepairNode DEF RepairNodes
<1>5. Newest.status # "superseded"
  BY <1>2, <1>4, RepairNode DEF Lasting, LastStands, RepairNodes
<1>6. CASE /\ attempts' = [attempts EXCEPT ![Len(attempts)].g10 = "approved",
                                  ![Len(attempts)].status = "approved_pending_execution"]
           /\ cont' = Queued("apply_repair")
  <2> DEFINE a == [Newest EXCEPT !.g10 = "approved", !.status = "approved_pending_execution"]
  <2>1. /\ a \in Attempt /\ a.pre = Newest.pre /\ a.patches = Newest.patches
        /\ a.status # "superseded"
    BY <1>4 DEF Attempt, AttemptStatuses
  <2>2. attempts' = [attempts EXCEPT ![Len(attempts)] = a]
    BY <1>4, <1>6
  <2>3. cont' \in ContRow /\ cont'.node = "apply_repair"
    BY <1>1, <1>6 DEF ContRow, Queued, StageNodes
  <2> HIDE DEF a
  <2> QED
    BY <1>1, <1>2, <1>3, <2>1, <2>2, <2>3, RepairStep DEF RepairNodes
<1>7. CASE /\ attempts' = [attempts EXCEPT ![Len(attempts)].g10 = "rejected"]
           /\ Block("rejected")
  <2> DEFINE a == [Newest EXCEPT !.g10 = "rejected"]
  <2>1. /\ a \in Attempt /\ a.pre = Newest.pre /\ a.patches = Newest.patches
        /\ a.status # "superseded"
    BY <1>4, <1>5 DEF Attempt
  <2>2. attempts' = [attempts EXCEPT ![Len(attempts)] = a]
    BY <1>4, <1>7
  <2>3. cont' \in ContRow /\ cont'.node = "wait_g10"
    BY <1>1, <1>2, <1>7 DEF ContRow, Block, Errors
  <2> HIDE DEF a
  <2> QED
    BY <1>1, <1>2, <1>3, <2>1, <2>2, <2>3, RepairStep DEF RepairNodes
<1> QED
  BY <1>6, <1>7 DEF DecideG10

\* The claim of _apply_repair: a proposal whose checkpoint is the workspace was not applied.
LEMMA ClaimApplyKeeps ==
  ASSUME StageInv, ClaimApply
  PROVE  StageInv'
<1>1. /\ pc = "idle" /\ cont.node = "apply_repair" /\ cont \in ContRow
      /\ UNCHANGED ws /\ UNCHANGED Repaired
  BY AtNode DEF ClaimApply, Repaired
<1>2. /\ LatestRepair = Len(attempts) /\ Newest \in Attempt /\ attempts \in Seq(Attempt)
      /\ attempts[Len(attempts)] = Newest /\ Len(attempts) \in DOMAIN attempts
      /\ attempts # <<>> /\ Lasting /\ prompt.status # "waiting_human" /\ Len(attempts) \in Nat
      /\ \A k \in DOMAIN execs : k[1] \in VG => k[3] # Len(attempts)
      /\ Newest.patches <= 1
      /\ Newest.patches = 1 => Newest.pre < ws.all
  BY <1>1, RepairNode DEF RepairNodes
<1>3. CASE Block("proposal_stale") /\ UNCHANGED <<attempts, pc>>
  BY <1>1, <1>3, Blocks DEF Errors, Stage_, Repaired
<1>4. CASE /\ ApplyAuthorized(LatestRepair) /\ attempts' = SetStatus(LatestRepair, "executing")
           /\ ContinuationClaimed /\ pc' = "claimed"
  <2> DEFINE a == [Newest EXCEPT !.status = "executing"]
  <2>1. /\ a \in Attempt /\ a.pre = Newest.pre /\ a.patches = Newest.patches
        /\ a.status = "executing" /\ a.g10 = Newest.g10
    BY <1>2 DEF Attempt, AttemptStatuses
  <2>2. attempts' = [attempts EXCEPT ![Len(attempts)] = a]
    BY <1>2, <1>4 DEF SetStatus
  <2>3. Newest.g10 = "approved" /\ Newest.pre = ws.all
    BY <1>2, <1>4 DEF ApplyAuthorized, Authoritative
  <2>4. Newest.patches = 0
    <3>1. Newest.patches \in Nat /\ ws.all \in Nat
      BY <1>2 DEF Attempt, Lasting, RestTyped
    <3> QED
      BY <1>2, <2>3, <3>1
  <2> HIDE DEF a
  <2>5. /\ cont' \in ContRow /\ cont'.node = "apply_repair" /\ cont'.status = "running"
    BY <1>1, <1>4 DEF ContRow, ContinuationClaimed
  <2>6. ws.all \in Nat /\ ws' \in [all : Nat \ {0}, src : Nat] /\ ws.all <= ws'.all
    BY <1>1, <1>2 DEF Lasting, RestTyped
  <2>7. /\ attempts' \in Seq(Attempt) /\ Len(attempts') = Len(attempts) /\ attempts' # <<>>
        /\ Newest' = a /\ PatchesSpent' /\ LastStands'
    BY <1>1, <1>2, <2>1, <2>2, <2>6, NewestSet DEF Lasting
  <2>8. (cont \in ContRow)'
    BY <1>1, <2>5 DEF ContRow, Repaired
  <2>9. RowFits'
    BY <1>1, <1>2, <1>4, <2>1, <2>3, <2>4, <2>5, <2>7, <2>8 DEF RowFits, Repaired
  <2> QED
    BY <1>1, <1>2, <2>5, <2>6, <2>7, <2>9, RepairMoves DEF RepairNodes
<1> QED
  BY <1>3, <1>4 DEF ClaimApply

\* The files of the patch.
LEMMA ApplyPatchKeeps ==
  ASSUME StageInv, ApplyPatch
  PROVE  StageInv'
<1>1. /\ pc = "claimed" /\ cont.node = "apply_repair" /\ cont \in ContRow /\ UNCHANGED Repaired
      /\ Newest.g10 = "approved" /\ Newest.status = "executing" /\ Newest.patches = 0
      /\ cont.status = "running"
  BY DEF ApplyPatch, Repaired, StageInv, RowFits
<1>2. /\ LatestRepair = Len(attempts) /\ Newest \in Attempt /\ attempts \in Seq(Attempt)
      /\ attempts[Len(attempts)] = Newest /\ Len(attempts) \in DOMAIN attempts
      /\ attempts # <<>> /\ Lasting /\ prompt.status # "waiting_human" /\ Len(attempts) \in Nat
      /\ \A k \in DOMAIN execs : k[1] \in VG => k[3] # Len(attempts)
      /\ Newest.pre <= ws.all
  BY <1>1, RepairNode DEF RepairNodes
<1>3. ws.all \in Nat /\ ws.src \in Nat /\ ws \in [all : Nat \ {0}, src : Nat]
      /\ Newest.pre \in Nat
  BY <1>2 DEF Lasting, RestTyped, Attempt
<1>4. CASE PatchRefused(LatestRepair)
  <2> DEFINE a == [Newest EXCEPT !.status = "apply_failed"]
  <2>1. /\ a \in Attempt /\ a.pre = Newest.pre /\ a.patches = Newest.patches
        /\ a.status # "superseded"
    BY <1>2 DEF Attempt, AttemptStatuses
  <2>2. attempts' = [attempts EXCEPT ![Len(attempts)] = a]
    BY <1>2, <1>4 DEF PatchRefused, SetStatus
  <2>3. cont' \in ContRow /\ cont'.node = "apply_repair"
    BY <1>1, <1>4 DEF ContRow, PatchRefused, Block, Errors
  <2> HIDE DEF a
  <2> QED
    BY <1>1, <1>4, <2>1, <2>2, <2>3, RepairStep DEF RepairNodes, PatchRefused
<1>5. CASE PatchWritten(LatestRepair) \/ PatchBrokenOff(LatestRepair)
  <2> DEFINE a == IF PatchWritten(LatestRepair)
                    THEN [Newest EXCEPT !.patches = Newest.patches + 1]
                    ELSE [Newest EXCEPT !.patches = Newest.patches + 1,
                                        !.status = "apply_recovery_required"]
  <2>1. /\ a \in Attempt /\ a.pre = Newest.pre /\ a.patches = 1 /\ a.g10 = Newest.g10
        /\ a.status \in {Newest.status, "apply_recovery_required"}
        /\ PatchWritten(LatestRepair) => a.status = Newest.status
    <3>1. Newest.patches + 1 = 1 /\ 1 \in Nat
      BY <1>1
    <3>2. CASE PatchWritten(LatestRepair)
      BY <1>2, <3>1, <3>2 DEF Attempt
    <3>3. CASE ~ PatchWritten(LatestRepair)
      BY <1>2, <3>1, <3>3 DEF Attempt, AttemptStatuses
    <3> QED
      BY <3>2, <3>3
  <2>2. attempts' = [attempts EXCEPT ![Len(attempts)] = a]
    BY <1>2, <1>5 DEF PatchWritten, PatchBrokenOff
  <2>3. ws' = [all |-> ws.all + 1, src |-> ws.src + 1]
    BY <1>5 DEF PatchWritten, PatchBrokenOff
  <2>4. /\ ws' \in [all : Nat \ {0}, src : Nat] /\ ws.all <= ws'.all /\ ws.all < ws'.all
        /\ ws'.all \in Nat /\ Newest.pre < ws'.all
    BY <1>2, <1>3, <2>3
  <2>5. /\ cont' \in ContRow /\ cont'.node = "apply_repair"
        /\ \/ pc' = "patched" /\ cont' = cont /\ PatchWritten(LatestRepair)
           \/ pc' = "idle"
    BY <1>1, <1>5 DEF ContRow, PatchWritten, PatchBrokenOff, Block, Errors
  <2> HIDE DEF a
  <2>6. /\ attempts' \in Seq(Attempt) /\ Len(attempts') = Len(attempts) /\ attempts' # <<>>
        /\ Newest' = a /\ PatchesSpent' /\ LastStands'
    <3>1. a.patches <= 1 /\ a.pre < ws'.all /\ a.status # "superseded" /\ PatchesSpent
      BY <1>1, <1>2, <2>1, <2>4 DEF Lasting
    <3> QED
      BY <1>2, <1>3, <2>1, <2>2, <2>4, <3>1, NewestSet
  <2>7. (cont \in ContRow)'
    BY <1>1, <2>5 DEF ContRow, Repaired
  <2>8. UpdateLeftBehind'
    <3>1. /\ HasUpdate' = HasUpdate /\ UpdateExec' = UpdateExec
      BY <1>1 DEF HasUpdate, UpdateExec, Repaired
    <3>2. HasUpdate => UpdateExec.ckpt.fp \in Nat /\ UpdateExec.ckpt.fp <= ws.all
      BY <1>2, GroupNodes
         DEF HasUpdate, UpdateExec, Lasting, ExecsTyped, StepRow, CheckpointsPast, Exec
    <3>3. HasUpdate => UpdateExec.ckpt.fp < ws'.all
      BY <1>3, <2>4, <3>2
    <3> QED
      BY <3>1, <3>3 DEF UpdateLeftBehind
  <2>9. RowFits'
    BY <1>1, <1>2, <2>1, <2>5, <2>6, <2>7, <2>8 DEF RowFits, Repaired
  <2> QED
    BY <1>1, <1>2, <2>4, <2>5, <2>6, <2>9, RepairMoves DEF RepairNodes
<1> QED
  BY <1>4, <1>5 DEF ApplyPatch

\* The attempt a classified failure or a revision starts.
LEMMA NewAttemptIs ==
  ASSUME Lasting, cont \in ContRow, NEW e, NEW p \in Nat, e.pre \in Nat, e.failure \in Failures
  PROVE  /\ NewAttempt(e, p) \in Attempt /\ NewAttempt(e, p).status = "evidence_frozen"
         /\ NewAttempt(e, p).pre = e.pre /\ NewAttempt(e, p).patches = 0
<1>1. Cardinality(Successors) \in Nat
  <2>1. Successors \subseteq DOMAIN execs /\ IsFiniteSet(DOMAIN execs)
    BY DEF Successors, Lasting, ExecsTyped
  <2> QED
    BY <2>1, FS_Subset, FS_CardinalityType
<1>2. "evidence_frozen" \in AttemptStatuses
  BY DEF AttemptStatuses, ActiveRepair
<1> QED
  BY <1>1, <1>2 DEF NewAttempt, Attempt

\* A new attempt after attempts s.
LEMMA AttemptStarts ==
  ASSUME StageInv, cont.node \in RepairNodes \cup {"classify_failure"}, UNCHANGED ws,
         UNCHANGED Repaired, NEW s \in Seq(Attempt), Len(s) = Len(attempts),
         \A i \in DOMAIN attempts :
           s[i].pre = attempts[i].pre /\ s[i].patches = attempts[i].patches,
         NEW a \in Attempt, a.status = "evidence_frozen", a.patches = 0, a.pre <= ws.all,
         attempts' = Append(s, a), cont' \in ContRow, cont'.node = "propose_repair",
         pc' = "idle", prompt.status # "waiting_human"
  PROVE  StageInv'
<1>1. Lasting /\ attempts \in Seq(Attempt) /\ ws \in [all : Nat \ {0}, src : Nat]
  BY DEF StageInv, Lasting, RestTyped
<1>2. /\ attempts' \in Seq(Attempt) /\ Len(attempts') = Len(attempts) + 1
      /\ attempts' # <<>> /\ Newest' = a /\ DOMAIN attempts = 1 .. Len(attempts)
      /\ DOMAIN attempts' = 1 .. Len(attempts) + 1 /\ attempts'[Len(attempts) + 1] = a
      /\ \A j \in DOMAIN attempts : attempts'[j] = s[j]
      /\ Len(attempts) \in Nat
  <2>1. DOMAIN attempts = 1 .. Len(attempts) /\ Len(attempts) \in Nat
    BY <1>1, AttemptsShape
  <2> QED
    BY <2>1, AttemptAppended
<1>3. PatchesSpent'
  <2>1. ASSUME NEW i \in DOMAIN attempts'
        PROVE  /\ attempts'[i].pre <= ws.all /\ attempts'[i].patches <= 1
               /\ attempts'[i].patches = 1 => attempts'[i].pre < ws.all
    <3>1. CASE i \in DOMAIN attempts
      BY <1>1, <1>2, <3>1 DEF Lasting, PatchesSpent
    <3>2. CASE i = Len(attempts) + 1
      BY <1>2, <3>2
    <3> QED
      BY <1>2, <3>1, <3>2
  <2> QED
    BY <2>1 DEF PatchesSpent
<1>4. LastStands'
  BY <1>2 DEF LastStands
<1>5. \A k \in DOMAIN execs : k[1] \in VG => k[3] # Len(attempts')
  <2>1. \A k \in DOMAIN execs : k[1] \in VG => k[3] \in Nat /\ k[3] <= Len(attempts)
    BY <1>1 DEF Lasting, ExecsTyped, KeysNumbered
  <2> QED
    BY <1>2, <2>1
<1>6. (cont \in ContRow)'
  BY DEF ContRow, Repaired
<1>7. RowFits'
  BY <1>6, RowIs DEF Repaired
<1>8. ws' \in [all : Nat \ {0}, src : Nat] /\ ws.all <= ws'.all
  BY <1>1
<1> QED
  BY <1>2, <1>3, <1>4, <1>5, <1>7, <1>8, RepairMoves DEF RepairNodes

\* The repairable route.
LEMMA ClassifyRepairableKeeps ==
  ASSUME StageInv, ClassifyRepairable
  PROVE  StageInv'
<1>1. /\ pc = "idle" /\ pc' = "idle" /\ cont.node = "classify_failure" /\ cont \in ContRow
      /\ UNCHANGED ws /\ UNCHANGED Repaired /\ Lasting /\ prompt.status # "waiting_human"
  BY AtNode DEF ClassifyRepairable, Repaired
<1>2. CASE UNCHANGED attempts /\ (Block("recovery_failed") \/ Block("attempt_limit"))
  BY <1>1, <1>2, Blocks DEF Errors, Stage_, Repaired
<1>3. CASE /\ attempts' = Append(attempts, NewAttempt(FrozenEvidence, 0))
           /\ cont' = Queued("propose_repair")
  <2>1. attempts \in Seq(Attempt) /\ ws.all \in Nat
    BY <1>1 DEF Lasting, RestTyped
  <2>2. Failure \in Failures
    <3>1. CASE latest = NoKey
      BY <1>1, <3>1, Groups_ DEF Failure, Failures, ContRow, CommandCodes
    <3>2. CASE latest # NoKey
      BY <1>1, <3>2 DEF Failure, Failures, ContRow, Lasting, ExecsTyped, Exec
    <3> QED
      BY <3>1, <3>2
  <2>3. FrozenEvidence.pre = ws.all /\ FrozenEvidence.failure = Failure
    BY DEF FrozenEvidence
  <2> DEFINE a == NewAttempt(FrozenEvidence, 0)
  <2>4. a \in Attempt /\ a.status = "evidence_frozen" /\ a.pre = ws.all /\ a.patches = 0
    BY <1>1, <2>1, <2>2, <2>3, NewAttemptIs
  <2>5. cont' \in ContRow /\ cont'.node = "propose_repair"
    BY <1>1, <1>3 DEF ContRow, Queued, StageNodes
  <2>6. a.pre <= ws.all /\ attempts' = Append(attempts, a)
    BY <1>3, <2>1, <2>4
  <2> HIDE DEF a
  <2> QED
    BY <1>1, <2>1, <2>4, <2>5, <2>6, AttemptStarts
<1> QED
  BY <1>2, <1>3 DEF ClassifyRepairable

\* request_revision
LEMMA RequestRevisionKeeps ==
  ASSUME StageInv, RequestRevision
  PROVE  StageInv'
<1> DEFINE i == Len(attempts)
           s == Superseded(i)
           b == [Newest EXCEPT !.status = "superseded", !.g10 = "stale"]
           a == NewAttempt(attempts[i], i)
<1>1. /\ cont = WaitingAt("G10") /\ cont \in ContRow /\ pc' = pc
      /\ UNCHANGED ws /\ UNCHANGED Repaired
  BY DEF RequestRevision, Revisable, Repaired, StageInv, RowFits
<1>2. cont.node = "wait_g10" /\ cont.status = "waiting_gate"
  <2>1. cont = [cont EXCEPT !.status = "waiting_gate", !.node = "wait_g10"]
    BY <1>1 DEF WaitingAt
  <2> QED
    BY <1>1, <2>1 DEF ContRow
<1>3. pc = "idle"
  BY <1>2 DEF StageInv, RowFits
<1>4. /\ Newest \in Attempt /\ attempts \in Seq(Attempt) /\ attempts[i] = Newest
      /\ i \in DOMAIN attempts /\ i \in Nat /\ Lasting /\ prompt.status # "waiting_human"
      /\ Newest.pre <= ws.all
  BY <1>2, RepairNode DEF RepairNodes
<1>5. b \in Attempt /\ b.pre = Newest.pre /\ b.patches = Newest.patches
  <2>1. "superseded" \in AttemptStatuses
    BY DEF AttemptStatuses
  <2> QED
    BY <1>4, <2>1 DEF Attempt
<1>6. s = [attempts EXCEPT ![i] = b]
  BY <1>4 DEF Superseded
<1> HIDE DEF b
<1>7. /\ s \in Seq(Attempt) /\ Len(s) = Len(attempts)
      /\ \A j \in DOMAIN attempts : s[j] = IF j = i THEN b ELSE attempts[j]
  <2>1. DOMAIN attempts = 1 .. Len(attempts)
    BY <1>4, AttemptsShape
  <2> QED
    BY <1>4, <1>5, <1>6, <2>1, ExceptSeq
<1>8. a \in Attempt /\ a.status = "evidence_frozen" /\ a.pre = Newest.pre /\ a.patches = 0
  <2>1. Newest.pre \in Nat /\ Newest.failure \in Failures
    BY <1>4 DEF Attempt
  <2> QED
    BY <1>1, <1>4, <2>1, NewAttemptIs
<1>9. attempts' = Append(s, a) /\ cont' = Queued("propose_repair")
  BY DEF RequestRevision
<1>10. cont' \in ContRow /\ cont'.node = "propose_repair"
  BY <1>1, <1>9 DEF ContRow, Queued, StageNodes
<1>11. \A j \in DOMAIN attempts :
         s[j].pre = attempts[j].pre /\ s[j].patches = attempts[j].patches
  BY <1>4, <1>5, <1>7
<1>12. a.pre <= ws.all
  BY <1>4, <1>8
<1> HIDE DEF s, a
<1> QED
  BY <1>1, <1>2, <1>3, <1>4, <1>7, <1>8, <1>9, <1>10, <1>11, <1>12, AttemptStarts
     DEF RepairNodes

-----------------------------------------------------------------------------
(* The end of an apply. *)

\* Steps of the validation that start over.
LEMMA ResetIs ==
  ASSUME steps \in [Groups -> StepRow], NEW S, VG \subseteq S, "angular_update" \notin S,
         steps' = Reset(S), DOMAIN execs' = DOMAIN execs
  PROVE  /\ Bare' /\ steps' \in [Groups -> StepRow']
         /\ steps'["angular_update"] = steps["angular_update"]
<1>1. \A g \in Groups : steps[g] \in StepRow' /\ steps[g] \in StepRow
  BY DEF StepRow
<1>2. \A g \in Groups :
        /\ g \in S => steps'[g] = [steps[g] EXCEPT !.status = "PENDING", !.key = NoKey]
        /\ g \notin S => steps'[g] = steps[g]
  BY DEF Reset
<1>3. ASSUME NEW g \in Groups
      PROVE  /\ steps'[g] \in StepRow'
             /\ g \in S => steps'[g].status = "PENDING" /\ steps'[g].key = NoKey
  <2>1. CASE g \in S
    BY <1>1, <1>2, <2>1 DEF StepRow
  <2>2. CASE g \notin S
    BY <1>1, <1>2, <2>2
  <2> QED
    BY <2>1, <2>2
<1>4. \A g \in VG : steps'[g].status = "PENDING" /\ steps'[g].key = NoKey
  BY <1>3, GroupNodes
<1>5. steps' = [g \in Groups |-> steps'[g]]
  BY DEF Reset
<1> QED
  BY <1>2, <1>3, <1>4, <1>5, GroupNodes DEF Bare, Keyed, IsPassed

\* The last transaction of an apply.
LEMMA CommitApplyKeeps ==
  ASSUME StageInv, CommitApply
  PROVE  StageInv'
<1> DEFINE S == VG \cup IF PostApplyNode(LatestRepair) = "lockfile_generation"
                          THEN {"lockfile"} ELSE {}
           a == [Newest EXCEPT !.post = ws.all, !.status = "applied_verified"]
<1>1. /\ pc = "patched" /\ pc' = "idle" /\ cont.node = "apply_repair" /\ cont \in ContRow
      /\ Newest.g10 = "approved" /\ UpdateLeftBehind
      /\ UNCHANGED <<ws, stage, execs, latest, prompt, gates, seals>>
      /\ bound' = ws.all /\ post' = ws.all /\ cont' = Queued(PostApplyNode(LatestRepair))
      /\ attempts' = [attempts EXCEPT ![LatestRepair].post = ws.all,
                                      ![LatestRepair].status = "applied_verified"]
  BY DEF CommitApply, PostRepairCheckpoint, StageInv, RowFits
<1>2. /\ LatestRepair = Len(attempts) /\ Newest \in Attempt /\ attempts \in Seq(Attempt)
      /\ attempts[Len(attempts)] = Newest /\ Len(attempts) \in DOMAIN attempts
      /\ attempts # <<>> /\ Lasting /\ prompt.status # "waiting_human" /\ Len(attempts) \in Nat
      /\ \A k \in DOMAIN execs : k[1] \in VG => k[3] # Len(attempts)
  BY <1>1, RepairNode DEF RepairNodes
<1>3. /\ ws.all \in Nat /\ ws.all # 0 /\ steps \in [Groups -> StepRow] /\ ws.all <= ws.all
  BY <1>2 DEF Lasting, RestTyped, ExecsTyped
<1>4. /\ a \in Attempt /\ a.pre = Newest.pre /\ a.patches = Newest.patches
      /\ a.status = "applied_verified" /\ a.post = ws.all /\ a.g10 = "approved"
  <2>1. "applied_verified" \in AttemptStatuses
    BY DEF AttemptStatuses, AppliedRepair
  <2> QED
    BY <1>1, <1>2, <1>3, <2>1 DEF Attempt
<1>5. attempts' = [attempts EXCEPT ![Len(attempts)] = a]
  BY <1>1, <1>2
<1> HIDE DEF a
<1>6. /\ attempts' \in Seq(Attempt) /\ Len(attempts') = Len(attempts) /\ attempts' # <<>>
      /\ Newest' = a /\ PatchesSpent' /\ LastStands'
  BY <1>1, <1>2, <1>3, <1>4, <1>5, NewestSet DEF Lasting
<1>7. /\ Bare' /\ steps' \in [Groups -> StepRow']
      /\ steps'["angular_update"] = steps["angular_update"]
  <2>1. steps' = Reset(S)
    BY Groups_ DEF CommitApply
  <2>2. VG \subseteq S /\ "angular_update" \notin S
    BY GroupNodes
  <2> HIDE DEF S
  <2> QED
    BY <1>1, <1>3, <2>1, <2>2, ResetIs
<1>8. PICK n \in {"angular_update_retry", "lockfile_generation", "repair_revalidate"} :
        cont' = Queued(n)
  BY <1>1 DEF PostApplyNode
<1>9. ExecsTyped' /\ RestTyped'
  BY <1>1, <1>2, <1>3, <1>6, <1>7 DEF Lasting, ExecsTyped, RestTyped
<1>10. KeysNumbered'
  BY <1>1, <1>2, <1>6 DEF Lasting, KeysNumbered
<1>11. Lasting'
  BY <1>1, <1>2, <1>3, <1>6, <1>7, <1>9, <1>10, LastsBare DEF Lasting, CheckpointsPast
<1>12. UpdateLeftBehind'
  BY <1>1, <1>7 DEF UpdateLeftBehind, UpdateGivenUp, HasUpdate, UpdateExec
<1>13. gates["G11"].status # "approved" /\ Len(seals) = stage - 1
  BY <1>1 DEF StageInv, Fits, JudgedFits, JudgedNodes, SealedNodes
<1>14. Settled(Newest)' /\ Newest'.status \in {"applied_verified", "migration_retried"}
  BY <1>3, <1>4, <1>6 DEF Settled
<1>15. /\ AttemptsFit(n)' /\ ValidationFits(n)' /\ KeysFit(n)' /\ UpdateFits(n)'
       /\ OrderFits(n)' /\ JudgedFits(n)'
  <2>1. /\ n \in UpdateNodes \cup TargetNodes
                   \cup {"classify_failure", "lockfile_generation", "repair_revalidate"}
        /\ n \notin TargetNodes
    BY <1>8 DEF UpdateNodes, TargetNodes
  <2> QED
    BY <1>1, <1>2, <1>6, <1>7, <1>12, <1>13, <1>14, <2>1, FitsBare
<1>16. cont' \in ContRow /\ cont'.node = n
  BY <1>1, <1>8 DEF ContRow, Queued, StageNodes
<1>17. (cont \in ContRow)'
  BY <1>1, <1>16 DEF ContRow
<1>18. RowFits'
  BY <1>1, <1>2, <1>8, <1>16, <1>17, RowIs
<1> QED
  BY <1>11, <1>15, <1>16, <1>18, Assemble

-----------------------------------------------------------------------------
(* Gates, and the end of a stage. *)

GateRows == [Gates -> [status : {"none", "pending", "approved", "rejected"}, fp : Nat]]
Stood == <<ws, bound, stage, execs, latest, steps, prompt, post>>

\* What has been done stays as it is while gates, attempts and seals are written.
LEMMA StoodStays ==
  ASSUME Lasting, UNCHANGED Stood
  PROVE  /\ \A g \in VG : /\ Keyed(g)' = Keyed(g) /\ IsPassed(g)' = IsPassed(g)
                          /\ Open(g)' = Open(g)
         /\ Validated' = Validated /\ Spoiled' = Spoiled /\ AllPassed' = AllPassed
         /\ UpdateGivenUp' = UpdateGivenUp /\ UpdateLeftBehind' = UpdateLeftBehind
         /\ ExecsTyped' /\ CommandsBound' /\ CheckpointsPast' /\ (~ Spoiled => SourcesStay)'
<1>1. /\ \A g \in VG : /\ Keyed(g)' = Keyed(g) /\ IsPassed(g)' = IsPassed(g)
                       /\ Open(g)' = Open(g)
      /\ Validated' = Validated /\ Spoiled' = Spoiled /\ AllPassed' = AllPassed
      /\ UpdateGivenUp' = UpdateGivenUp /\ UpdateLeftBehind' = UpdateLeftBehind
  BY DEF Stood, Keyed, IsPassed, Open, Validated, Spoiled, AllPassed, UpdateGivenUp,
         UpdateLeftBehind, HasUpdate, UpdateExec
<1>2. ExecsTyped' /\ CommandsBound' /\ CheckpointsPast'
  BY <1>1 DEF Stood, Lasting, ExecsTyped, StepRow, CommandsBound, CheckpointsPast, Active
<1>3. (~ Spoiled => SourcesStay)'
  BY <1>1 DEF Stood, Lasting, SourcesStay, VG
<1> QED
  BY <1>1, <1>2, <1>3

\* Gates and attempts are written.
LEMMA JudgedMoves ==
  ASSUME StageInv, UNCHANGED Stood, UNCHANGED seals,
         NEW n, cont'.node = n, cont' \in ContRow, pc' = "idle",
         prompt.status # "waiting_human", n # "classify_failure", n \notin RepairNodes,
         gates' \in GateRows, attempts' \in Seq(Attempt), Len(attempts') = Len(attempts),
         PatchesSpent', LastStands', AttemptsFit(n)', JudgedFits(n)',
         ValidationFits(n)', KeysFit(n)',
         n \in TargetNodes => steps["angular_update"].status = "PASSED",
         n \in ValidNodes \cup {"lockfile_generation", "repair_revalidate"} => UpdateLeftBehind,
         n # "repair_revalidate",
         ~ Spoiled /\ n \in ValidNodes => (Keyed("builds") => IsPassed("final_install")),
         n \in {"build", "test"} => IsPassed("final_install"),
         n = "test" => IsPassed("builds"),
         n \in {"aggregate_validation"} \cup JudgedNodes => AllPassed
  PROVE  StageInv'
<1>1. Lasting
  BY DEF StageInv
<1>2. RestTyped' /\ KeysNumbered' /\ SealsRight'
  BY <1>1 DEF Lasting, RestTyped, KeysNumbered, SealsRight, SealedWasValidated,
              SealLeavesNothingOpen, Stood, GateRows
<1>3. Lasting'
  BY <1>1, <1>2, StoodStays DEF Lasting
<1>4. UpdateFits(n)'
  BY <1>1, StoodStays DEF UpdateFits, Stood
<1>5. OrderFits(n)'
  BY <1>1, StoodStays DEF OrderFits, VG
<1>6. (cont \in ContRow)'
  BY DEF ContRow, Stood
<1>7. RowFits'
  BY <1>6, RowIs DEF Stood
<1> QED
  BY <1>3, <1>4, <1>5, <1>7, Assemble

\* One attempt gets another status.
LEMMA StatusSet ==
  ASSUME attempts \in Seq(Attempt), LastStands, PatchesSpent, UNCHANGED ws,
         NEW i \in DOMAIN attempts, NEW s \in AttemptStatuses, s # "superseded",
         attempts' = SetStatus(i, s)
  PROVE  /\ attempts' \in Seq(Attempt) /\ Len(attempts') = Len(attempts) /\ attempts' # <<>>
         /\ DOMAIN attempts' = DOMAIN attempts /\ attempts # <<>>
         /\ Newest'.status = IF i = Len(attempts) THEN s ELSE Newest.status
         /\ Newest'.post = Newest.post /\ Newest'.g10 = Newest.g10 /\ Newest'.op = Newest.op
         /\ PatchesSpent' /\ LastStands'
<1> DEFINE a == [attempts[i] EXCEPT !.status = s]
<1>1. /\ \A j \in DOMAIN attempts : attempts[j] \in Attempt
      /\ Len(attempts) \in DOMAIN attempts /\ attempts # <<>>
  <2>1. attempts # <<>>
    BY AttemptsShape
  <2> QED
    BY <2>1, AttemptsShape
<1>2. /\ a \in Attempt /\ a.status = s /\ a.post = attempts[i].post /\ a.g10 = attempts[i].g10
      /\ a.pre = attempts[i].pre /\ a.patches = attempts[i].patches /\ a.op = attempts[i].op
  BY <1>1 DEF Attempt
<1>3. attempts' = [attempts EXCEPT ![i] = a]
  BY <1>1 DEF SetStatus
<1> HIDE DEF a
<1>4. /\ attempts' \in Seq(Attempt) /\ Len(attempts') = Len(attempts)
      /\ DOMAIN attempts' = DOMAIN attempts /\ attempts' # <<>>
      /\ \A j \in DOMAIN attempts : attempts'[j] = IF j = i THEN a ELSE attempts[j]
  BY <1>2, <1>3, AttemptSet
<1>5. PatchesSpent'
  BY <1>2, <1>4 DEF PatchesSpent
<1>6. /\ Newest'.status = IF i = Len(attempts) THEN s ELSE Newest.status
      /\ Newest'.post = Newest.post /\ Newest'.g10 = Newest.g10 /\ Newest'.op = Newest.op
  BY <1>1, <1>2, <1>4 DEF Newest
<1>7. LastStands'
  BY <1>1, <1>6 DEF LastStands
<1> QED
  BY <1>1, <1>4, <1>5, <1>6, <1>7

\* The maximum of a set of attempts is one of them.
LEMMA MaxAttempt ==
  ASSUME attempts \in Seq(Attempt), NEW S, S # {}, S \subseteq DOMAIN attempts
  PROVE  Max(S) \in S /\ \A i \in S : i <= Max(S)
<1> DEFINE U == {m \in Nat : \E i \in S : m + i = Len(attempts)}
<1>1. /\ Len(attempts) \in Nat /\ DOMAIN attempts = 1 .. Len(attempts)
      /\ \A i \in S : i \in Nat /\ i <= Len(attempts)
  BY AttemptsShape
<1>2. U # {}
  <2>1. PICK i \in S : TRUE
    OBVIOUS
  <2>2. Len(attempts) - i \in Nat /\ (Len(attempts) - i) + i = Len(attempts)
    BY <1>1
  <2> QED
    BY <2>1, <2>2
<1>3. PICK m \in U : \A x \in U : ~ (<<x, m>> \in OpToRel(<, Nat))
  <2>1. U \subseteq Nat
    OBVIOUS
  <2> HIDE DEF U
  <2> QED
    BY <1>2, <2>1, NatLessThanWellFounded, WFMin
<1>4. \A x \in U : m <= x
  <2> TAKE x \in U
  <2>1. x \in Nat /\ m \in Nat
    BY <1>3
  <2>2. <<x, m>> \in Nat \X Nat /\ <<x, m>>[1] = x /\ <<x, m>>[2] = m
    BY <2>1
  <2>3. ~ (x < m)
    BY <1>3, <2>2 DEF OpToRel
  <2> QED
    BY <2>1, <2>3
<1>5. PICK i \in S : m + i = Len(attempts)
  BY <1>3
<1>6. \A j \in S : j <= i
  <2> SUFFICES ASSUME NEW j \in S
               PROVE  j <= i
    OBVIOUS
  <2>1. Len(attempts) - j \in U
    BY <1>1
  <2>2. m <= Len(attempts) - j
    BY <1>4, <2>1
  <2> QED
    BY <1>1, <1>4, <1>5, <2>2
<1> QED
  BY <1>1, <1>6, MaxIs

\* _aggregate_validation
LEMMA AggregateKeeps ==
  ASSUME StageInv, AggregateValidation
  PROVE  StageInv'
<1> DEFINE open == {i \in DOMAIN attempts : attempts[i].status \in AppliedRepair}
           r == Max(open)
<1>1. /\ pc = "idle" /\ pc' = "idle" /\ cont.node = "aggregate_validation"
      /\ cont \in ContRow /\ Lasting /\ prompt.status # "waiting_human"
      /\ Fits("aggregate_validation") /\ UNCHANGED Stood /\ UNCHANGED seals
      /\ prompt \in PromptRow
  BY AtNode DEF AggregateValidation, Stood
<1>2. AllPassed /\ \A g \in VG : Keyed(g) /\ ~ Open(g)
  BY <1>1 DEF Fits, OrderFits, AllPassed, Lasting, CommandsBound, Open
<1>3. ~ Spoiled /\ Validated /\ SourcesStay
  BY <1>1, <1>2 DEF Spoiled, Validated, VG, Lasting
<1>4. IncompleteGroups = {}
  BY <1>2, Groups_ DEF AllPassed, IncompleteGroups, IsPassed
<1>5. ws.all = bound
  BY <1>2, <1>3 DEF SourcesStay, AllPassed, VG
<1>6. CASE UNCHANGED <<attempts, gates>> /\ DependencyUnverified(r)
  BY <1>1, <1>6, Blocks DEF Errors, Stage_, Stood, DependencyUnverified
<1>7. CASE /\ attempts' = IF open = {} THEN attempts ELSE SetStatus(r, "waiting_g11")
           /\ CreateGate("G11", ws.all)
  <2>1. /\ attempts \in Seq(Attempt) /\ LastStands /\ PatchesSpent /\ UNCHANGED ws
        /\ gates \in GateRows /\ ws.all \in Nat
    BY <1>1 DEF Lasting, RestTyped, Stood, GateRows
  <2>2. /\ attempts' \in Seq(Attempt) /\ Len(attempts') = Len(attempts)
        /\ attempts' # <<>> <=> attempts # <<>>
        /\ attempts # <<>> => /\ Newest'.status \in {Newest.status, "waiting_g11"}
                              /\ Newest'.post = Newest.post /\ Newest'.g10 = Newest.g10
        /\ PatchesSpent' /\ LastStands'
    <3>1. CASE open = {}
      <4>1. attempts' = attempts
        BY <1>7, <3>1
      <4> QED
        BY <2>1, <4>1 DEF PatchesSpent, LastStands, Newest
    <3>2. CASE open # {}
      <4>1. r \in DOMAIN attempts
        BY <2>1, <3>2, MaxAttempt
      <4>2. "waiting_g11" \in AttemptStatuses
        BY DEF AttemptStatuses
      <4>3. attempts' = SetStatus(r, "waiting_g11")
        BY <1>7, <3>2
      <4> HIDE DEF r, open
      <4> QED
        BY <2>1, <4>1, <4>2, <4>3, StatusSet
    <3> QED
      BY <3>1, <3>2
  <2>3. /\ attempts # <<>> => Settled(Newest)
        /\ Validated /\ UpdateGivenUp =>
             Newest.status \notin {"approved_pending_execution", "executing", "applied_verified"}
        /\ UpdateLeftBehind /\ gates["G11"].status # "approved" /\ Len(seals) = stage - 1
    BY <1>1 DEF Fits, AttemptsFit, ValidationFits, UpdateFits, JudgedFits, ValidNodes,
                RepairNodes, JudgedNodes, SealedNodes
  <2>4. attempts' # <<>> => Settled(Newest')
    BY <2>2, <2>3 DEF Settled
  <2>5. /\ Validated' /\ UpdateGivenUp' = UpdateGivenUp
    BY <1>1, <1>3, StoodStays
  <2>6. /\ gates' \in GateRows /\ gates'["G11"].status # "approved"
        /\ cont' \in ContRow /\ cont'.node \in {"aggregate_validation", "wait_g11"}
    <3>1. CASE /\ gates["G11"].status = "pending" /\ UNCHANGED gates
               /\ cont' = [cont EXCEPT !.status = IF gates["G11"].fp = ws.all THEN "running"
                                                  ELSE "blocked"]
      BY <1>1, <2>1, <3>1 DEF ContRow
    <3>2. CASE /\ gates' = [gates EXCEPT !["G11"] = [status |-> "pending", fp |-> ws.all]]
               /\ cont' = [WaitingAt("G11") EXCEPT !.error = cont.error]
      BY <1>1, <2>1, <3>2 DEF ContRow, WaitingAt, StageNodes, GateRows, Gates
    <3>3. WaitingAt("G11").error = cont.error
      BY <1>1 DEF WaitingAt, ContRow
    <3> QED
      BY <1>7, <3>1, <3>2, <3>3 DEF CreateGate
  <2> SUFFICES ASSUME NEW n \in {"aggregate_validation", "wait_g11"}, cont'.node = n
               PROVE  StageInv'
    BY <2>6
  <2>7. AttemptsFit(n)'
    BY <2>4 DEF AttemptsFit, RepairNodes, TargetNodes, SealedNodes
  <2>8. JudgedFits(n)'
    BY <1>1, <1>5, <2>3, <2>6 DEF JudgedFits, Stood, JudgedNodes, SealedNodes
  <2>9. ValidationFits(n)'
    <3>1. UpdateGivenUp' /\ attempts # <<>> =>
            Newest'.status \notin {"approved_pending_execution", "executing", "applied_verified"}
      BY <1>3, <2>2, <2>3, <2>5
    <3>2. attempts = <<>> => attempts' = attempts
      BY <2>1, <2>2, EmptySeq, LenProperties
    <3>3. UpdateGivenUp' =>
            Newest'.status \notin {"approved_pending_execution", "executing", "applied_verified"}
      BY <1>3, <2>3, <2>5, <3>1, <3>2 DEF Newest
    <3> QED
      BY <2>5, <3>3 DEF ValidationFits, UpdateNodes, TargetNodes, ValidNodes, JudgedNodes
  <2>10. KeysFit(n)'
    BY <2>5 DEF KeysFit, RepairNodes, ValidNodes, JudgedNodes
  <2> QED
    BY <1>1, <1>2, <1>3, <2>2, <2>3, <2>6, <2>7, <2>8, <2>9, <2>10, JudgedMoves
       DEF AllPassed, VG, ValidNodes, TargetNodes, RepairNodes
<1> QED
  BY <1>4, <1>5, <1>6, <1>7 DEF AggregateValidation

\* G08 and G11 are decided on what was validated: G08 leads to the validation, which has not
\* begun, G11 to the seal, which everything has passed for.
LEMMA ApproveGateKeeps ==
  ASSUME StageInv, NEW g \in Gates, ApproveGate(g)
  PROVE  StageInv'
<1>1. /\ cont \in ContRow /\ Lasting /\ UNCHANGED Stood /\ UNCHANGED seals /\ pc' = pc
      /\ cont = WaitingAt(g) /\ gates[g].status = "pending" /\ ws.all = gates[g].fp
      /\ gates' = [gates EXCEPT ![g].status = "approved"] /\ RowFits
  BY DEF ApproveGate, Decidable, StageInv, RowFits, Stood
<1>2. /\ cont.status = "waiting_gate"
      /\ cont.node = IF g = "G08" THEN "wait_g08" ELSE "wait_g11"
  <2>1. cont = [cont EXCEPT !.status = "waiting_gate",
                            !.node = IF g = "G08" THEN "wait_g08" ELSE "wait_g11"]
    BY <1>1 DEF WaitingAt, Gates
  <2> QED
    BY <1>1, <2>1 DEF ContRow
<1>3. pc = "idle" /\ prompt.status # "waiting_human" /\ Fits(cont.node)
  BY <1>1, <1>2 DEF StageInv, RowFits
<1>4. /\ attempts \in Seq(Attempt) /\ LastStands /\ PatchesSpent /\ UNCHANGED ws
      /\ gates \in GateRows
  BY <1>1 DEF Lasting, RestTyped, Stood, GateRows
<1>5. /\ gates' \in GateRows /\ gates'[g].status = "approved" /\ gates'[g].fp = ws.all
      /\ \A h \in Gates : h # g => gates'[h] = gates[h]
  BY <1>1, <1>4 DEF GateRows
<1>6. CASE g = "G08"
  <2>1. /\ UNCHANGED attempts /\ cont' = Queued("final_install")
    BY <1>6 DEF ApproveGate
  <2>2. cont' \in ContRow /\ cont'.node = "final_install"
    BY <1>1, <2>1 DEF ContRow, Queued, StageNodes
  <2>3. /\ ~ Validated /\ attempts # <<>> /\ Settled(Newest)
        /\ Newest.status \in {"applied_verified", "migration_retried"}
        /\ \A k \in DOMAIN execs : k[1] \in VG => k[3] # Len(attempts)
        /\ gates["G11"].status # "approved" /\ Len(seals) = stage - 1
        /\ steps["angular_update"].status = "PASSED"
    BY <1>2, <1>6, UnvalidatedNode DEF TargetNodes
  <2>4. /\ ~ Validated' /\ UpdateLeftBehind /\ ~ UpdateGivenUp'
        /\ \A h \in VG : ~ Keyed(h) /\ ~ IsPassed(h) /\ ~ Open(h)
    BY <1>1, <2>3, StoodStays, NothingPassed DEF UpdateLeftBehind, UpdateGivenUp
  <2>5. AttemptsFit("final_install")' /\ JudgedFits("final_install")'
    BY <1>1, <1>5, <1>6, <2>1, <2>3
       DEF AttemptsFit, JudgedFits, Newest, Settled, Stood, RepairNodes, TargetNodes,
           SealedNodes, JudgedNodes, Gates
  <2>6. ValidationFits("final_install")'
    BY <2>1, <2>3, <2>4
       DEF ValidationFits, UpdateNodes, TargetNodes, ValidNodes, Newest, AppliedRepair
  <2>7. KeysFit("final_install")'
    BY <1>1, <2>1, <2>3, <2>4
       DEF KeysFit, RepairNodes, ValidNodes, JudgedNodes, Stood, Key, VG
  <2>8. PatchesSpent' /\ LastStands'
    BY <1>4, <2>1 DEF PatchesSpent, LastStands, Newest
  <2> QED
    BY <1>1, <1>3, <1>4, <1>5, <2>1, <2>2, <2>4, <2>5, <2>6, <2>7, <2>8, JudgedMoves
       DEF RepairNodes, TargetNodes, JudgedNodes, SealedNodes, VG
<1>7. CASE g = "G11"
  <2>1. /\ cont' = Queued("seal_stage")
        /\ attempts' = IF attempts = <<>> THEN attempts
                       ELSE SetStatus(Len(attempts), "validation_passed")
    BY <1>7 DEF ApproveGate
  <2>2. cont' \in ContRow /\ cont'.node = "seal_stage"
    BY <1>1, <2>1 DEF ContRow, Queued, StageNodes
  <2>3. /\ AllPassed /\ ws.all = bound /\ Len(seals) = stage - 1
        /\ attempts # <<>> => Settled(Newest)
    BY <1>2, <1>3, <1>7
       DEF Fits, AttemptsFit, OrderFits, JudgedFits, JudgedNodes, SealedNodes, RepairNodes
  <2>4. Validated /\ Validated'
    BY <1>1, <2>3, StoodStays DEF AllPassed, Lasting, CommandsBound, Validated, VG
  <2>5. /\ attempts' \in Seq(Attempt) /\ Len(attempts') = Len(attempts)
        /\ attempts' # <<>> <=> attempts # <<>>
        /\ attempts # <<>> => /\ Newest'.status = "validation_passed"
                              /\ Newest'.post = Newest.post /\ Newest'.g10 = Newest.g10
        /\ PatchesSpent' /\ LastStands'
    <3>1. CASE attempts = <<>>
      BY <1>4, <2>1, <3>1 DEF PatchesSpent, LastStands
    <3>2. CASE attempts # <<>>
      <4>1. Len(attempts) \in DOMAIN attempts
        BY <1>4, <3>2, AttemptsShape
      <4>2. "validation_passed" \in AttemptStatuses
        BY DEF AttemptStatuses
      <4>3. attempts' = SetStatus(Len(attempts), "validation_passed")
        BY <2>1, <3>2
      <4> QED
        BY <1>4, <3>2, <4>1, <4>2, <4>3, StatusSet
    <3> QED
      BY <3>1, <3>2
  <2>6. AttemptsFit("seal_stage")'
    BY <2>3, <2>5 DEF AttemptsFit, RepairNodes, TargetNodes, Settled
  <2>7. JudgedFits("seal_stage")'
    BY <1>1, <1>5, <1>7, <2>3 DEF JudgedFits, Stood, JudgedNodes, SealedNodes
  <2>8. ValidationFits("seal_stage")'
    <3>1. attempts = <<>> => Newest' = Newest
      BY <2>1 DEF Newest
    <3>2. UpdateGivenUp' = UpdateGivenUp
      BY <1>1, StoodStays
    <3>3. UpdateGivenUp =>
            Newest.status \notin {"approved_pending_execution", "executing", "applied_verified"}
      BY <1>2, <1>3, <1>7, <2>4 DEF Fits, ValidationFits, RepairNodes
    <3>4. UpdateGivenUp' =>
            Newest'.status \notin {"approved_pending_execution", "executing", "applied_verified"}
      BY <2>5, <3>1, <3>2, <3>3
    <3> QED
      BY <2>4, <3>4
         DEF ValidationFits, UpdateNodes, TargetNodes, ValidNodes, JudgedNodes
  <2>9. KeysFit("seal_stage")'
    BY <2>4 DEF KeysFit, RepairNodes, ValidNodes
  <2> QED
    BY <1>1, <1>3, <1>5, <2>2, <2>3, <2>5, <2>6, <2>7, <2>8, <2>9, JudgedMoves
       DEF RepairNodes, TargetNodes, ValidNodes
<1> QED
  BY <1>6, <1>7 DEF Gates

\* A rejected gate only blocks the row.
LEMMA RejectGateKeeps ==
  ASSUME StageInv, NEW g \in Gates, RejectGate(g)
  PROVE  StageInv'
<1>1. /\ cont \in ContRow /\ Lasting /\ UNCHANGED Stood /\ UNCHANGED seals /\ pc' = pc
      /\ cont = WaitingAt(g) /\ gates' = [gates EXCEPT ![g].status = "rejected"] /\ RowFits
      /\ cont' = [cont EXCEPT !.status = "blocked", !.error = "rejected"]
  BY DEF RejectGate, Decidable, StageInv, RowFits, Stood, Block
<1> DEFINE n == IF g = "G08" THEN "wait_g08" ELSE "wait_g11"
<1>2. cont.status = "waiting_gate" /\ cont.node = n
  <2>1. cont = [cont EXCEPT !.status = "waiting_gate", !.node = n]
    BY <1>1 DEF WaitingAt, Gates
  <2> QED
    BY <1>1, <2>1 DEF ContRow
<1>3. /\ pc = "idle" /\ prompt.status # "waiting_human" /\ Fits(n)
      /\ cont' \in ContRow /\ cont'.node = n
  BY <1>1, <1>2 DEF StageInv, RowFits, ContRow, Errors
<1>4. /\ attempts \in Seq(Attempt) /\ LastStands /\ PatchesSpent /\ UNCHANGED ws
      /\ gates \in GateRows
  BY <1>1 DEF Lasting, RestTyped, Stood, GateRows
<1>5. /\ gates' \in GateRows /\ gates'["G11"].status \in {gates["G11"].status, "rejected"}
  BY <1>1, <1>4 DEF GateRows, Gates
<1>6. attempts' = IF g = "G11" /\ attempts # <<>>
                    THEN SetStatus(Len(attempts), "validation_failed") ELSE attempts
  BY DEF RejectGate
<1>7. /\ attempts' \in Seq(Attempt) /\ Len(attempts') = Len(attempts)
      /\ attempts' # <<>> <=> attempts # <<>>
      /\ attempts # <<>> =>
           /\ Newest'.status = IF g = "G11" THEN "validation_failed" ELSE Newest.status
           /\ Newest'.post = Newest.post /\ Newest'.g10 = Newest.g10
      /\ attempts = <<>> => Newest' = Newest
      /\ PatchesSpent' /\ LastStands'
  <2>1. CASE g = "G11" /\ attempts # <<>>
    <3>1. Len(attempts) \in DOMAIN attempts
      BY <1>4, <2>1, AttemptsShape
    <3>2. "validation_failed" \in AttemptStatuses
      BY DEF AttemptStatuses
    <3>3. attempts' = SetStatus(Len(attempts), "validation_failed")
      BY <1>6, <2>1
    <3> QED
      BY <1>4, <2>1, <3>1, <3>2, <3>3, StatusSet
  <2>2. CASE ~ (g = "G11" /\ attempts # <<>>)
    <3>1. attempts' = attempts
      BY <1>6, <2>2
    <3> QED
      BY <1>4, <2>2, <3>1 DEF PatchesSpent, LastStands, Newest
  <2> QED
    BY <2>1, <2>2
<1>8. /\ Validated' = Validated /\ UpdateGivenUp' = UpdateGivenUp
      /\ attempts # <<>> => Settled(Newest)
      /\ n = "wait_g08" => attempts # <<>>
      /\ Validated /\ UpdateGivenUp =>
           Newest.status \notin {"approved_pending_execution", "executing", "applied_verified"}
  BY <1>1, <1>3, StoodStays
     DEF Fits, AttemptsFit, ValidationFits, RepairNodes, TargetNodes, SealedNodes
<1>9. AttemptsFit(n)'
  <2>1. attempts' # <<>> => Settled(Newest)'
    BY <1>7, <1>8 DEF Settled
  <2> QED
    BY <1>7, <1>8, <2>1 DEF AttemptsFit, RepairNodes, TargetNodes, SealedNodes
<1>10. JudgedFits(n)'
  BY <1>1, <1>3, <1>5 DEF Fits, JudgedFits, Stood, JudgedNodes, SealedNodes
<1>11. ValidationFits(n)'
  <2>1. n = "wait_g11" => AllPassed
    BY <1>3 DEF Fits, OrderFits, JudgedNodes
  <2>2. n = "wait_g11" => Validated
    BY <1>1, <2>1 DEF AllPassed, Lasting, CommandsBound, Validated, VG
  <2>3. n = "wait_g08" => /\ ~ Validated /\ g = "G08"
                          /\ Newest.status \in {"applied_verified", "migration_retried"}
    <3>1. n = "wait_g08" => g = "G08" /\ cont.node \in TargetNodes
      BY <1>2 DEF TargetNodes
    <3> HIDE DEF n
    <3> QED
      BY <1>8, <3>1, UnvalidatedNode
  <2>4. UpdateGivenUp' /\ Validated' =>
          Newest'.status \notin {"approved_pending_execution", "executing", "applied_verified"}
    BY <1>7, <1>8
  <2> QED
    BY <1>7, <1>8, <2>2, <2>3, <2>4
       DEF ValidationFits, UpdateNodes, TargetNodes, ValidNodes, JudgedNodes, RepairNodes
<1>12. KeysFit(n)'
  BY <1>1, <1>3, <1>7, <1>8 DEF Fits, KeysFit, RepairNodes, ValidNodes, JudgedNodes, Stood
<1>13. /\ n \in TargetNodes => steps["angular_update"].status = "PASSED"
       /\ n \in {"aggregate_validation"} \cup JudgedNodes => AllPassed
  BY <1>3 DEF Fits, UpdateFits, OrderFits
<1>14. n \in {"wait_g08", "wait_g11"}
  OBVIOUS
<1> HIDE DEF n
<1> QED
  BY <1>1, <1>3, <1>5, <1>7, <1>9, <1>10, <1>11, <1>12, <1>13, <1>14, JudgedMoves
     DEF RepairNodes, ValidNodes

\* A seal is added behind the others.
LEMMA SealAppended ==
  ASSUME seals \in Seq(Range(seals)), NEW e, seals' = Append(seals, e)
  PROVE  /\ seals' \in Seq(Range(seals')) /\ Len(seals') = Len(seals) + 1
         /\ Len(seals) \in Nat
         /\ DOMAIN seals' = DOMAIN seals \cup {Len(seals) + 1}
         /\ \A n \in DOMAIN seals : seals'[n] = seals[n] /\ n # Len(seals) + 1
         /\ seals'[Len(seals) + 1] = e
<1> DEFINE S == Range(seals) \cup {e}
<1>1. seals \in Seq(S) /\ e \in S
  BY SeqMonotonic
<1>2. /\ Len(seals) \in Nat /\ DOMAIN seals = 1 .. Len(seals)
  BY <1>1, LenProperties
<1>3. /\ seals' \in Seq(S) /\ Len(seals') = Len(seals) + 1
      /\ seals'[Len(seals) + 1] = e
      /\ \A n \in 1 .. Len(seals) : seals'[n] = seals[n]
  BY <1>1, AppendProperties
<1>4. DOMAIN seals' = 1 .. Len(seals')
  BY <1>3, LenProperties
<1>5. DOMAIN seals' = DOMAIN seals \cup {Len(seals) + 1}
  BY <1>2, <1>3, <1>4
<1>6. \A n \in DOMAIN seals : n # Len(seals) + 1
  BY <1>2
<1>7. seals' \in Seq(Range(seals'))
  <2>1. seals' \in [1 .. Len(seals') -> S]
    BY <1>3, <1>4, LenProperties
  <2>2. \A n \in 1 .. Len(seals') : seals'[n] \in Range(seals')
    BY <1>4 DEF Range
  <2>3. Len(seals') \in Nat
    BY <1>2, <1>3
  <2> DEFINE T == Range(seals')
             m == Len(seals')
  <2>4. seals' \in [1 .. m -> T] /\ m \in Nat
    BY <2>1, <2>2, <2>3
  <2>5. \A f \in [1 .. m -> T] : m \in Nat => f \in Seq(T)
    <3> HIDE DEF m, T
    <3> QED
      OBVIOUS
  <2> QED
    BY <2>4, <2>5
<1> QED
  BY <1>2, <1>3, <1>5, <1>6, <1>7

\* reconcile_superseded_attempts closes every attempt older than the validated last one.
LEMMA ReconciledIs ==
  ASSUME attempts \in Seq(Attempt),
         attempts # <<>> => /\ Newest.status = "validation_passed" /\ Newest.post # 0
                            /\ Newest.g10 = "approved"
  PROVE  /\ Reconciled \in Seq(Attempt) /\ Len(Reconciled) = Len(attempts)
         /\ DOMAIN Reconciled = DOMAIN attempts
         /\ attempts # <<>> => Reconciled[Len(attempts)] = Newest
         /\ \A i \in DOMAIN attempts : /\ Reconciled[i].pre = attempts[i].pre
                                       /\ Reconciled[i].patches = attempts[i].patches
                                       /\ Reconciled[i].status \notin ActiveRepair
<1> DEFINE validated == {i \in DOMAIN attempts : /\ attempts[i].status = "validation_passed"
                                                 /\ attempts[i].post # 0
                                                 /\ attempts[i].g10 = "approved"}
           closed(i) == [attempts[i] EXCEPT !.status = "superseded"]
           old(i) == validated # {} /\ i < Max(validated) /\ attempts[i].status \in ActiveRepair
<1>1. /\ Len(attempts) \in Nat /\ DOMAIN attempts = 1 .. Len(attempts)
      /\ \A i \in DOMAIN attempts : attempts[i] \in Attempt
  BY AttemptsShape
<1>2. Reconciled = [i \in DOMAIN attempts |-> IF old(i) THEN closed(i) ELSE attempts[i]]
  BY DEF Reconciled
<1>3. \A i \in DOMAIN attempts : /\ closed(i) \in Attempt /\ closed(i).status = "superseded"
                                 /\ closed(i).pre = attempts[i].pre
                                 /\ closed(i).patches = attempts[i].patches
  BY <1>1 DEF Attempt, AttemptStatuses
<1>4. attempts # <<>> =>
        /\ Len(attempts) \in DOMAIN attempts /\ validated # {}
        /\ Max(validated) = Len(attempts)
  <2>1. SUFFICES ASSUME attempts # <<>>
                 PROVE  /\ Len(attempts) \in DOMAIN attempts /\ validated # {}
                        /\ Max(validated) = Len(attempts)
    OBVIOUS
  <2>2. Len(attempts) \in DOMAIN attempts
    BY <2>1, AttemptsShape
  <2>3. Len(attempts) \in validated
    BY <2>1, <2>2 DEF Newest
  <2>4. validated \subseteq Int /\ \A i \in validated : i <= Len(attempts)
    BY <1>1
  <2> HIDE DEF validated
  <2> QED
    BY <2>2, <2>3, <2>4, MaxIs
<1> HIDE DEF validated, closed
<1>5. \A i \in DOMAIN attempts : old(i) <=> i # Len(attempts) /\ attempts[i].status \in ActiveRepair
  <2> TAKE i \in DOMAIN attempts
  <2>1. attempts # <<>> /\ i \in 1 .. Len(attempts)
    BY <1>1, AttemptsShape
  <2> QED
    BY <1>1, <1>4, <2>1
<1> HIDE DEF old
<1>6. Reconciled \in [1 .. Len(attempts) -> Attempt]
  BY <1>1, <1>2, <1>3
<1>7. Reconciled \in Seq(Attempt) /\ Len(Reconciled) = Len(attempts)
  <2>1. Reconciled \in Seq(Attempt)
    BY <1>1, <1>6
  <2>2. DOMAIN Reconciled = 1 .. Len(Reconciled) /\ Len(Reconciled) \in Nat
    BY <2>1, LenProperties
  <2>3. DOMAIN Reconciled = 1 .. Len(attempts)
    BY <1>6
  <2>4. \A m, l \in Nat : 1 .. m = 1 .. l => m = l
    OBVIOUS
  <2>5. Len(Reconciled) \in Nat /\ Len(attempts) \in Nat
    BY <1>1, <2>2
  <2>6. 1 .. Len(Reconciled) = 1 .. Len(attempts)
    BY <2>2, <2>3
  <2> QED
    BY <2>1, <2>4, <2>5, <2>6
<1>8. \A i \in DOMAIN attempts : Reconciled[i].status \notin ActiveRepair
  <2> TAKE i \in DOMAIN attempts
  <2>1. attempts # <<>>
    BY AttemptsShape
  <2>2. CASE old(i)
    BY <1>2, <1>3, <2>2 DEF ActiveRepair
  <2>3. CASE ~ old(i) /\ i # Len(attempts)
    BY <1>2, <1>5, <2>3
  <2>4. CASE i = Len(attempts)
    <3>1. Reconciled[i] = Newest
      BY <1>2, <1>5, <2>4 DEF Newest
    <3> QED
      BY <2>1, <3>1 DEF ActiveRepair
  <2> QED
    BY <2>2, <2>3, <2>4
<1>9. attempts # <<>> => Reconciled[Len(attempts)] = Newest
  BY <1>2, <1>4, <1>5 DEF Newest
<1>10. \A i \in DOMAIN attempts : /\ Reconciled[i].pre = attempts[i].pre
                                  /\ Reconciled[i].patches = attempts[i].patches
  BY <1>2, <1>3
<1> QED
  BY <1>1, <1>6, <1>7, <1>8, <1>9, <1>10

\* seal, second half.
LEMMA CommitSealKeeps ==
  ASSUME StageInv, CommitSeal
  PROVE  StageInv'
<1> DEFINE s == [content |-> ws, approved |-> gates["G11"].fp,
                 g08 |-> gates["G08"].status, steps |-> steps,
                 left |-> \E i \in DOMAIN attempts : Reconciled[i].status \in ActiveRepair]
           n == "materialize_next_stage"
<1>1. /\ cont \in ContRow /\ Lasting /\ UNCHANGED Stood /\ UNCHANGED gates /\ pc' = "idle"
      /\ pc = "copied" /\ cont.node = "seal_stage" /\ prompt.status # "waiting_human"
      /\ attempts' = Reconciled /\ seals' = Append(seals, s)
      /\ cont' = Queued("materialize_next_stage") /\ Fits("seal_stage")
  BY DEF CommitSeal, StageInv, RowFits, Stood
<1>2. cont' \in ContRow /\ cont'.node = n
  BY <1>1 DEF ContRow, Queued, StageNodes
<1>3. /\ attempts \in Seq(Attempt) /\ seals \in Seq(Range(seals)) /\ PatchesSpent
      /\ SealsRight /\ Len(attempts) \in Nat
  BY <1>1, AttemptsShape DEF Lasting, RestTyped
<1>4. /\ AllPassed /\ ws.all = bound /\ Len(seals) = stage - 1 /\ stage \in Nat
      /\ gates["G11"].status = "approved" /\ gates["G11"].fp = ws.all
      /\ attempts # <<>> => Settled(Newest) /\ Newest.status = "validation_passed"
  BY <1>1, ConstantsAssumption
     DEF Fits, AttemptsFit, OrderFits, JudgedFits, JudgedNodes, SealedNodes, RepairNodes, Lasting,
         RestTyped
<1>5. Validated /\ ~ Spoiled
  BY <1>1, <1>4 DEF AllPassed, Lasting, CommandsBound, Validated, VG, Spoiled, Open
<1>6. \A g \in VG : steps[g].fp = ws.all
  BY <1>1, <1>4, <1>5 DEF Lasting, SourcesStay, AllPassed
<1>7. /\ attempts' \in Seq(Attempt) /\ Len(attempts') = Len(attempts)
      /\ DOMAIN attempts' = DOMAIN attempts
      /\ attempts # <<>> => Newest' = Newest
      /\ \A i \in DOMAIN attempts : /\ attempts'[i].pre = attempts[i].pre
                                    /\ attempts'[i].patches = attempts[i].patches
                                    /\ Reconciled[i].status \notin ActiveRepair
  BY <1>1, <1>3, <1>4, ReconciledIs DEF Settled, Newest
<1>8. attempts' # <<>> <=> attempts # <<>>
  BY <1>3, <1>7, AttemptsShape, EmptySeq, LenProperties
<1>9. PatchesSpent' /\ LastStands'
  BY <1>1, <1>3, <1>4, <1>7, <1>8 DEF PatchesSpent, LastStands, Stood
<1>10. /\ s.content.all = s.approved /\ ~ s.left
       /\ \A g \in VG : s.steps[g].status = "PASSED" /\ s.steps[g].fp = s.content.all
  BY <1>4, <1>6, <1>7 DEF AllPassed, IsPassed
<1> HIDE DEF s
<1>11. /\ seals' \in Seq(Range(seals')) /\ Len(seals') = stage
       /\ DOMAIN seals' = DOMAIN seals \cup {Len(seals) + 1}
       /\ \A i \in DOMAIN seals : seals'[i] = seals[i]
       /\ seals'[Len(seals) + 1] = s
  <2>1. /\ seals' \in Seq(Range(seals')) /\ Len(seals') = Len(seals) + 1
        /\ Len(seals) \in Nat
        /\ DOMAIN seals' = DOMAIN seals \cup {Len(seals) + 1}
        /\ \A i \in DOMAIN seals : seals'[i] = seals[i] /\ i # Len(seals) + 1
        /\ seals'[Len(seals) + 1] = s
    BY <1>1, <1>3, SealAppended
  <2> QED
    BY <1>4, <2>1
<1>12. SealsRight'
  BY <1>3, <1>10, <1>11, Groups_ DEF SealsRight, SealedWasValidated, SealLeavesNothingOpen
<1>13. RestTyped' /\ KeysNumbered'
  BY <1>1, <1>7, <1>11 DEF Lasting, RestTyped, KeysNumbered, Stood
<1>14. Lasting'
  BY <1>1, <1>9, <1>12, <1>13, StoodStays DEF Lasting
<1>15. AttemptsFit(n)' /\ KeysFit(n)'
  <2>1. Validated'
    BY <1>1, <1>5, StoodStays
  <2> QED
    BY <1>4, <1>7, <1>8, <2>1
       DEF AttemptsFit, KeysFit, RepairNodes, TargetNodes, SealedNodes, Settled, ValidNodes
<1>16. ValidationFits(n)'
  <2>1. /\ UpdateGivenUp => Newest.status \notin {"approved_pending_execution", "executing",
                                                 "applied_verified"}
        /\ Validated' /\ UpdateGivenUp' = UpdateGivenUp
    BY <1>1, <1>5, StoodStays DEF Fits, ValidationFits, RepairNodes
  <2>2. attempts = <<>> => Newest' = Newest
    <3>1. CASE attempts = <<>>
      <4>1. attempts' = <<>>
        BY <1>8, <3>1
      <4> QED
        BY <3>1, <4>1 DEF Newest
    <3> QED
      BY <3>1
  <2> QED
    BY <1>7, <2>1, <2>2
       DEF ValidationFits, UpdateNodes, TargetNodes, ValidNodes, JudgedNodes, SealedNodes
<1>17. UpdateFits(n)' /\ OrderFits(n)'
  BY <1>1, <1>4, StoodStays DEF UpdateFits, OrderFits, ValidNodes, TargetNodes, RepairNodes
<1>18. JudgedFits(n)'
  BY <1>1, <1>4, <1>11 DEF JudgedFits, JudgedNodes, SealedNodes, Stood
<1>19. (cont \in ContRow)'
  BY <1>1, <1>2 DEF ContRow, Stood
<1>20. RowFits'
  BY <1>1, <1>2, <1>19, RowIs DEF Stood
<1> QED
  BY <1>2, <1>14, <1>15, <1>16, <1>17, <1>18, <1>20, Assemble

\* materialize a further stage: it starts with nothing done.
LEMMA NextStageKeeps ==
  ASSUME StageInv, MaterializeNextStage, stage' # stage
  PROVE  StageInv'
<1> DEFINE n == "prepare_workspace"
<1>1. /\ pc = "idle" /\ pc' = "idle" /\ cont \in ContRow /\ Lasting
      /\ Fits("materialize_next_stage") /\ UNCHANGED <<ws, bound, seals>>
      /\ stage < NumStages /\ stage' = stage + 1
      /\ cont' = [Queued("prepare_workspace") EXCEPT !.error = "none", !.waiting = NoKey]
      /\ execs' = NoExecs /\ latest' = NoKey /\ steps' = FreshSteps /\ prompt' = NoPrompt
      /\ attempts' = <<>> /\ post' = 0 /\ gates' = NoGates
  BY AtNode DEF MaterializeNextStage, NextStageRefused
<1>2. /\ stage \in Nat /\ stage' \in 1 .. NumStages /\ Len(seals') = stage' - 1
      /\ ws \in [all : Nat \ {0}, src : Nat]
  BY <1>1, ConstantsAssumption DEF Lasting, RestTyped, Fits, JudgedFits, SealedNodes
<1>3. /\ DOMAIN execs' = {} /\ execs' \in [DOMAIN execs' -> Exec] /\ IsFiniteSet(DOMAIN execs')
  BY <1>1, FS_EmptySet DEF NoExecs
<1>4. /\ (cont \in ContRow)' /\ cont'.node = n
  BY <1>1, <1>3 DEF ContRow, Queued, StageNodes, Errors, CommandCodes
<1>5. /\ steps' \in [Groups -> StepRow'] /\ Bare' /\ UpdateLeftBehind'
  BY <1>1, GroupNodes
     DEF FreshSteps, StepRow, Bare, Keyed, IsPassed, UpdateLeftBehind, UpdateGivenUp
<1>6. ExecsTyped'
  BY <1>1, <1>3, <1>5 DEF ExecsTyped
<1>7. RestTyped'
  <2>1. prompt' \in PromptRow /\ prompt'.ckpt.fp = 0
    BY <1>1 DEF PromptRow, NoPrompt, NoCheckpoint, Checkpoint
  <2>2. gates' \in GateRows
    BY <1>1 DEF GateRows, NoGates, NoGate
  <2>3. attempts' \in Seq(Attempt)
    BY <1>1, EmptySeq
  <2> QED
    BY <1>1, <1>2, <2>1, <2>2, <2>3 DEF Lasting, RestTyped, PromptRow, GateRows
<1>8. PatchesSpent' /\ LastStands' /\ KeysNumbered'
  BY <1>1, <1>3 DEF PatchesSpent, LastStands, KeysNumbered
<1>9. Lasting'
  <2>1. prompt'.ckpt.fp <= ws'.all /\ post' <= ws'.all
    BY <1>1, <1>2 DEF NoPrompt, NoCheckpoint
  <2> QED
    BY <1>1, <1>3, <1>5, <1>6, <1>7, <1>8, <2>1, LastsBare
<1>10. AttemptsFit(n)' /\ KeysFit(n)' /\ UpdateFits(n)'
  BY <1>1, <1>3
     DEF AttemptsFit, KeysFit, UpdateFits, RepairNodes, TargetNodes, SealedNodes, ValidNodes
<1>11. ValidationFits(n)' /\ OrderFits(n)'
  BY <1>1, <1>5, BareIs
     DEF ValidationFits, OrderFits, UpdateNodes, TargetNodes, ValidNodes, RepairNodes, JudgedNodes,
         SealedNodes
<1>12. JudgedFits(n)'
  BY <1>1, <1>2 DEF JudgedFits, JudgedNodes, SealedNodes, NoGates, NoGate, Gates
<1>13. RowFits'
  BY <1>1, <1>4, RowIs DEF NoPrompt
<1> QED
  BY <1>4, <1>9, <1>10, <1>11, <1>12, <1>13, Assemble

\* prepare_workspace to verify_bootstrap: the workspace is made anew, nothing else has
\* happened.
LEMMA PrepareStageKeeps ==
  ASSUME StageInv, PrepareStage
  PROVE  StageInv'
<1>1. /\ pc = "idle" /\ pc' = "idle" /\ cont \in ContRow /\ Lasting /\ Fits("prepare_workspace")
      /\ UNCHANGED <<stage, execs, latest, steps, prompt, attempts, post, gates, seals>>
      /\ ws' = [all |-> ws.all + 1, src |-> ws.src + 1] /\ bound' = ws.all + 1
      /\ cont' = Queued("angular_update") /\ prompt.status # "waiting_human"
  BY AtNode DEF PrepareStage
<1>2. /\ ~ Validated
      /\ \A k \in DOMAIN execs : k[1] \in VG => k[3] # Len(attempts)
      /\ attempts # <<>> =>
           Settled(Newest) /\ Newest.status \in {"applied_verified", "migration_retried"}
      /\ gates["G11"].status # "approved" /\ Len(seals) = stage - 1
  BY <1>1 DEF Fits, AttemptsFit, ValidationFits, KeysFit, JudgedFits, UpdateNodes,
              TargetNodes, ValidNodes, RepairNodes, SealedNodes, JudgedNodes
<1>3. /\ ws.all \in Nat /\ ws.src \in Nat /\ ws'.all = ws.all + 1
      /\ ws' \in [all : Nat \ {0}, src : Nat] /\ bound' \in Nat
  BY <1>1 DEF Lasting, RestTyped
<1>4. ExecsTyped' /\ RestTyped'
  BY <1>1, <1>3 DEF Lasting, ExecsTyped, RestTyped, StepRow
<1>5. PatchesSpent' /\ LastStands' /\ KeysNumbered'
  <2>1. \A i \in DOMAIN attempts : attempts[i].pre \in Nat
    BY <1>1, AttemptsShape DEF Lasting, RestTyped, Attempt
  <2>2. PatchesSpent'
    BY <1>1, <1>3, <2>1 DEF Lasting, PatchesSpent
  <2> QED
    BY <1>1, <2>2 DEF Lasting, LastStands, Newest, KeysNumbered
<1>6. Lasting'
  <2>1. \A k \in DOMAIN execs : execs[k].ckpt.fp \in Nat
    BY <1>1 DEF Lasting, ExecsTyped, Exec
  <2>2. /\ prompt.ckpt.fp \in Nat /\ post \in Nat
        /\ \A k \in DOMAIN execs : execs[k].ckpt.fp <= ws.all
        /\ prompt.ckpt.fp <= ws.all /\ post <= ws.all
    BY <1>1 DEF Lasting, RestTyped, Checkpoint, CheckpointsPast
  <2>3. /\ \A k \in DOMAIN execs' : execs'[k].ckpt.fp <= ws'.all
        /\ prompt'.ckpt.fp <= ws'.all /\ post' <= ws'.all
    BY <1>1, <1>3, <2>1, <2>2
  <2>4. VGKept
    BY <1>1 DEF VGKept
  <2> QED
    BY <1>1, <1>2, <1>4, <1>5, <2>3, <2>4, LastsUnvalidated
<1>7. /\ AttemptsFit("angular_update")' /\ ValidationFits("angular_update")'
      /\ KeysFit("angular_update")' /\ UpdateFits("angular_update")'
      /\ OrderFits("angular_update")' /\ JudgedFits("angular_update")'
  <2>1. Newest' = Newest /\ (Settled(Newest)' <=> Settled(Newest)) /\ VGKept
    BY <1>1 DEF Newest, Settled, VGKept
  <2>2. "angular_update" \in UpdateNodes \ TargetNodes
    BY DEF UpdateNodes, TargetNodes
  <2> QED
    BY <1>1, <1>2, <2>1, <2>2, FitsUnvalidated
<1>8. cont' \in ContRow /\ cont'.node = "angular_update" /\ (cont \in ContRow)'
  BY <1>1 DEF ContRow, Queued, StageNodes
<1>9. RowFits'
  BY <1>1, <1>8, RowIs
<1> QED
  BY <1>6, <1>7, <1>8, <1>9, Assemble

-----------------------------------------------------------------------------
(* Commands that run. *)

\* A running command writes and ends: once something is validated it is the command of a
\* group that has not passed, so that nothing that was judged is touched.
LEMMA CommandMoves ==
  ASSUME StageInv, NEW k \in Active, NEW x \in Exec,
         x.ckpt = execs[k].ckpt, x.start = execs[k].start,
         execs' = [execs EXCEPT ![k] = x],
         UNCHANGED <<bound, stage, cont, pc, latest, steps, attempts, post, gates, seals>>,
         ws' \in [all : Nat \ {0}, src : Nat], ws.all <= ws'.all,
         prompt' \in PromptRow, prompt'.ckpt.fp <= ws'.all,
         prompt'.status = "waiting_human" => prompt.status = "waiting_human"
  PROVE  StageInv'
<1> DEFINE n == cont.node
<1>1. /\ Lasting /\ Fits(n) /\ RowFits /\ k \in DOMAIN execs
      /\ execs[k].status = "active" /\ execs \in [DOMAIN execs -> Exec]
  BY DEF StageInv, Active, Lasting, ExecsTyped
<1>2. /\ DOMAIN execs' = DOMAIN execs /\ execs' \in [DOMAIN execs' -> Exec]
      /\ \A j \in DOMAIN execs : j # k => execs'[j] = execs[j]
      /\ \A j \in DOMAIN execs : /\ execs'[j].ckpt = execs[j].ckpt
                                 /\ execs'[j].start = execs[j].start
      /\ \A j \in DOMAIN execs : execs'[j].status = execs[j].status \/ j = k
  BY <1>1
<1>3. /\ \A g \in VG : /\ Keyed(g)' = Keyed(g) /\ IsPassed(g)' = IsPassed(g)
                       /\ Open(g)' = Open(g)
      /\ Validated' = Validated /\ AllPassed' = AllPassed /\ UpdateGivenUp' = UpdateGivenUp
      /\ Newest' = Newest /\ IsUpdateFailure' = IsUpdateFailure
  BY DEF Keyed, IsPassed, Open, Validated, AllPassed, UpdateGivenUp, Newest, IsUpdateFailure,
         HasUpdate
<1>4. \A g \in VG : /\ steps[g].key \in DOMAIN execs \cup {NoKey}
                    /\ Keyed(g) => steps[g].key \in DOMAIN execs
  BY <1>1, GroupNodes DEF Lasting, ExecsTyped, StepRow, Keyed
<1>5. Spoiled => Spoiled'
  <2> SUFFICES ASSUME NEW g \in VG, Open(g), execs[steps[g].key].status = "failed"
               PROVE  Spoiled'
    BY DEF Spoiled
  <2>1. steps[g].key # k /\ steps[g].key \in DOMAIN execs
    BY <1>1, <1>4 DEF Open
  <2>2. execs'[steps'[g].key].status = "failed"
    BY <1>2, <2>1
  <2> QED
    BY <1>3, <2>2 DEF Spoiled
<1>6. (\E g \in VG : IsPassed(g)) => \E g \in VG : Open(g)
  <2> SUFFICES ASSUME NEW h \in VG, IsPassed(h)
               PROVE  \E g \in VG : Open(g)
    OBVIOUS
  <2>1. Validated
    BY <1>1 DEF Lasting, CommandsBound, Validated
  <2>2. PICK g \in VG : k = steps[g].key
    BY <1>1, <2>1 DEF Lasting, CommandsBound
  <2>3. ~ IsPassed(g)
    BY <1>1, <2>2 DEF Lasting, CommandsBound
  <2>4. k # NoKey
    BY <1>1, Groups_ DEF Lasting, ExecsTyped
  <2> QED
    BY <2>2, <2>3, <2>4 DEF Open, Keyed
<1>7. ~ AllPassed
  BY <1>6 DEF AllPassed, Open, VG
<1>8. UpdateLeftBehind => UpdateLeftBehind'
  <2> SUFFICES ASSUME UpdateLeftBehind, UpdateGivenUp, HasUpdate
               PROVE  UpdateExec'.ckpt.fp < ws'.all
    BY DEF UpdateLeftBehind, UpdateGivenUp, HasUpdate
  <2>1. steps["angular_update"].key \in DOMAIN execs
    BY <1>1, GroupNodes DEF Lasting, ExecsTyped, StepRow, HasUpdate
  <2>2. UpdateExec'.ckpt.fp = UpdateExec.ckpt.fp
    BY <1>2, <2>1 DEF UpdateExec
  <2>3. UpdateExec.ckpt.fp < ws.all /\ UpdateExec.ckpt.fp \in Nat /\ ws.all \in Nat
    BY <1>1, <2>1 DEF UpdateLeftBehind, Lasting, ExecsTyped, Exec, RestTyped, UpdateExec
  <2>4. ws'.all \in Nat
    OBVIOUS
  <2> QED
    BY <2>2, <2>3, <2>4
<1>9. ExecsTyped' /\ RestTyped' /\ KeysNumbered' /\ SealsRight' /\ LastStands'
  <2>1. StepRow' = StepRow
    BY <1>2 DEF StepRow
  <2>2. ExecsTyped'
    BY <1>1, <1>2, <2>1 DEF Lasting, ExecsTyped
  <2>3. RestTyped'
    BY <1>1 DEF Lasting, RestTyped, PromptRow
  <2>4. KeysNumbered' /\ SealsRight' /\ LastStands'
    BY <1>1, <1>2 DEF Lasting, KeysNumbered, SealsRight, SealedWasValidated,
                      SealLeavesNothingOpen, LastStands, Newest
  <2> QED
    BY <2>2, <2>3, <2>4
<1>10. ws.all \in Nat /\ ws'.all \in Nat
  BY <1>1 DEF Lasting, RestTyped
<1>11. PatchesSpent'
  <2>1. \A i \in DOMAIN attempts : attempts[i].pre \in Nat
    BY <1>1, AttemptsShape DEF Lasting, RestTyped, Attempt
  <2>2. PatchesSpent
    BY <1>1 DEF Lasting
  <2> QED
    BY <1>10, <2>1, <2>2 DEF PatchesSpent
<1>12. CheckpointsPast'
  <2>1. \A j \in DOMAIN execs : execs[j].ckpt.fp \in Nat /\ execs[j].ckpt.fp <= ws.all
    BY <1>1 DEF Exec, Lasting, CheckpointsPast
  <2>2. post \in Nat /\ post <= ws.all
    BY <1>1 DEF Lasting, CheckpointsPast, RestTyped
  <2>3. \A j \in DOMAIN execs' : execs'[j].ckpt.fp <= ws'.all
    BY <1>2, <1>10, <2>1
  <2>4. post' <= ws'.all
    BY <1>10, <2>2
  <2> QED
    BY <1>1, <1>3, <1>8, <2>3, <2>4 DEF Lasting, CheckpointsPast
<1>13. CommandsBound'
  <2>1. Active' \subseteq Active
    BY <1>1, <1>2 DEF Active
  <2>2. \A g \in VG : IsPassed(g)' => Keyed(g)' /\ execs'[steps'[g].key].status = "succeeded"
    <3> TAKE g \in VG
    <3> HAVE IsPassed(g)'
    <3>1. Keyed(g) /\ execs[steps[g].key].status = "succeeded"
      BY <1>1, <1>3 DEF Lasting, CommandsBound
    <3>2. steps[g].key # k /\ steps[g].key \in DOMAIN execs
      BY <1>1, <1>4, <3>1
    <3> QED
      BY <1>2, <1>3, <3>1, <3>2
  <2> QED
    BY <1>1, <1>3, <2>1, <2>2 DEF Lasting, CommandsBound
<1>14. (~ Spoiled => SourcesStay)'
  <2> SUFFICES ASSUME ~ Spoiled'
               PROVE  SourcesStay'
    OBVIOUS
  <2>1. SourcesStay
    BY <1>1, <1>5 DEF Lasting
  <2>2. \A g \in VG : Open(g) => execs'[steps'[g].key].start = execs[steps[g].key].start
    BY <1>2, <1>4 DEF Open
  <2> QED
    BY <1>3, <1>6, <2>1, <2>2 DEF SourcesStay, VG
<1>15. Lasting'
  BY <1>9, <1>11, <1>12, <1>13, <1>14 DEF Lasting
<1>16. AttemptsFit(n)' /\ ValidationFits(n)' /\ KeysFit(n)'
  BY <1>1, <1>2, <1>3 DEF Fits, AttemptsFit, ValidationFits, KeysFit, Settled
<1>17. UpdateFits(n)' /\ OrderFits(n)'
  <2>1. UpdateFits(n)'
    BY <1>1, <1>8 DEF Fits, UpdateFits
  <2>2. OrderFits(n)'
    BY <1>1, <1>3, <1>5 DEF Fits, OrderFits, ChangesDependencies, VG
  <2> QED
    BY <2>1, <2>2
<1>18. JudgedFits(n)'
  BY <1>1, <1>7 DEF Fits, JudgedFits, OrderFits, JudgedNodes
<1>19. RowFits'
  <2>1. (cont \in ContRow)'
    BY <1>1, <1>2 DEF RowFits, ContRow
  <2>2. cont' = cont /\ pc' = pc /\ Newest' = Newest /\ attempts' = attempts
    BY <1>3
  <2>3. (Spoiled \/ IsUpdateFailure) => (Spoiled \/ IsUpdateFailure)'
    BY <1>3, <1>5
  <2> QED
    BY <1>1, <1>8, <2>1, <2>2, <2>3 DEF RowFits
<1> QED
  BY <1>15, <1>16, <1>17, <1>18, <1>19, Assemble

\* A command writes, ends, or is ended by the prompt it asks.
LEMMA CommandsKeep ==
  ASSUME StageInv, BudgetTyped, NEW k \in DOMAIN execs,
         CommandWrites(k) \/ CommandEnds(k) \/ PromptCaptured(k)
  PROVE  StageInv'
<1>1. /\ k \in Active /\ execs[k] \in Exec /\ Lasting /\ execs \in [DOMAIN execs -> Exec]
      /\ ws \in [all : Nat \ {0}, src : Nat] /\ prompt \in PromptRow
      /\ prompt.ckpt.fp <= ws.all /\ prompt.ckpt.fp \in Nat
      /\ execs[k].ckpt \in Checkpoint /\ execs[k].ckpt.fp <= ws.all
      /\ UNCHANGED <<bound, stage, cont, pc, latest, steps, attempts, post, gates, seals>>
  <2>1. /\ k \in Active
        /\ UNCHANGED <<bound, stage, cont, pc, latest, steps, attempts, post, gates, seals>>
    BY DEF CommandWrites, CommandEnds, PromptCaptured
  <2>2. /\ Lasting /\ execs \in [DOMAIN execs -> Exec]
        /\ ws \in [all : Nat \ {0}, src : Nat] /\ prompt \in PromptRow
        /\ prompt.ckpt.fp <= ws.all /\ execs[k].ckpt.fp <= ws.all
    BY DEF StageInv, Lasting, ExecsTyped, RestTyped, CheckpointsPast, PromptRow
  <2>3. execs[k] \in Exec /\ prompt.ckpt \in Checkpoint
    BY <2>2 DEF PromptRow
  <2> QED
    BY <2>1, <2>2, <2>3 DEF Exec, Checkpoint
<1>2. CASE CommandWrites(k)
  <2> DEFINE x == [execs[k] EXCEPT !.wrote = TRUE]
  <2>1. x \in Exec /\ x.ckpt = execs[k].ckpt /\ x.start = execs[k].start
    BY <1>1 DEF Exec
  <2>2. execs' = [execs EXCEPT ![k] = x] /\ UNCHANGED prompt
    BY <1>2 DEF CommandWrites
  <2>3. ws' \in [all : Nat \ {0}, src : Nat] /\ ws.all <= ws'.all
    <3>1. ws'.all \in {ws.all, ws.all + 1} /\ ws'.src \in {ws.src, ws.src + 1}
          /\ ws' = [all |-> ws'.all, src |-> ws'.src]
      BY <1>2 DEF CommandWrites
    <3> QED
      BY <1>1, <3>1
  <2>4. prompt'.ckpt.fp <= ws'.all
    BY <1>1, <2>2, <2>3
  <2> HIDE DEF x
  <2> QED
    BY <1>1, <2>1, <2>2, <2>3, <2>4, CommandMoves
<1>3. CASE CommandEnds(k)
  <2>1. PICK x \in Exec : /\ x.ckpt = execs[k].ckpt /\ x.start = execs[k].start
                          /\ execs' = [execs EXCEPT ![k] = x]
    <3>1. CASE execs' = [execs EXCEPT ![k].status = "succeeded"]
      <4> DEFINE x == [execs[k] EXCEPT !.status = "succeeded"]
      <4>1. x \in Exec /\ x.ckpt = execs[k].ckpt /\ x.start = execs[k].start
        BY <1>1 DEF Exec
      <4>2. execs' = [execs EXCEPT ![k] = x]
        BY <3>1
      <4> QED
        BY <4>1, <4>2
    <3>2. CASE \E c \in FailureCodes(k) :
                 execs' = [execs EXCEPT ![k].status = "failed", ![k].code = c]
      <4>1. PICK c \in FailureCodes(k) :
                 execs' = [execs EXCEPT ![k].status = "failed", ![k].code = c]
        BY <3>2
      <4>2. c \in CommandCodes
        BY DEF FailureCodes, CommandCodes
      <4> DEFINE x == [execs[k] EXCEPT !.status = "failed", !.code = c]
      <4>3. x \in Exec /\ x.ckpt = execs[k].ckpt /\ x.start = execs[k].start
        BY <1>1, <4>2 DEF Exec
      <4>4. execs' = [execs EXCEPT ![k] = x]
        BY <4>1
      <4> QED
        BY <4>3, <4>4
    <3> QED
      BY <1>3, <3>1, <3>2 DEF CommandEnds
  <2>2. UNCHANGED <<ws, prompt>>
    BY <1>3 DEF CommandEnds
  <2>3. /\ ws' \in [all : Nat \ {0}, src : Nat] /\ ws.all <= ws'.all
        /\ prompt' \in PromptRow /\ prompt'.ckpt.fp <= ws'.all /\ prompt' = prompt
    BY <1>1, <2>2
  <2> QED
    BY <1>1, <2>1, <2>3, CommandMoves
<1>4. CASE PromptCaptured(k)
  <2> DEFINE x == [execs[k] EXCEPT !.status = "failed", !.code = "prompt",
                                   !.prompt = budget.prompts + 1]
  <2>1. x \in Exec /\ x.ckpt = execs[k].ckpt /\ x.start = execs[k].start
    <3>1. "prompt" \in CommandCodes /\ budget.prompts + 1 \in Nat
      BY DEF CommandCodes, BudgetTyped
    <3> QED
      BY <1>1, <3>1 DEF Exec
  <2>2. execs' = [execs EXCEPT ![k] = x] /\ UNCHANGED ws
    BY <1>4 DEF PromptCaptured
  <2>3. prompt' = [status |-> "detected", answered |-> FALSE, ckpt |-> execs[k].ckpt]
    BY <1>4 DEF PromptCaptured
  <2>4. prompt' \in PromptRow /\ prompt'.ckpt.fp <= ws'.all /\ prompt'.status # "waiting_human"
    BY <1>1, <2>2, <2>3 DEF PromptRow
  <2>5. ws' \in [all : Nat \ {0}, src : Nat] /\ ws.all <= ws'.all
    BY <1>1, <2>2
  <2> HIDE DEF x
  <2> QED
    BY <1>1, <2>1, <2>2, <2>4, <2>5, CommandMoves
<1> QED
  BY <1>2, <1>3, <1>4

-----------------------------------------------------------------------------
(* Validation commands that are queued. *)

\* The steps a group is queued on: those of now, or with a group that has just passed.
Onto(st) ==
  /\ st \in [Groups -> StepRow] /\ st["angular_update"] = steps["angular_update"]
  /\ \A h \in VG : /\ st[h].key = steps[h].key
                   /\ IsPassed(h) => st[h].status = "PASSED"
                   /\ st[h].status = "PASSED" =>
                        Keyed(h) /\ execs[steps[h].key].status = "succeeded"

\* Before a group is queued all that was started has passed, on the sources the binding
\* names.
Ready(st, fp) ==
  /\ \A h \in VG : st[h].key # NoKey => st[h].status = "PASSED"
  /\ \A h \in VG : st[h].status = "PASSED" => st[h].fp = fp
  /\ (\E h \in VG : st[h].status = "PASSED") => ws.all = fp

\* What a group's queued command leaves of the commands.
LEMMA GroupCommands ==
  ASSUME StageInv, NEW x \in VG, NEW k, k[1] = x, k[3] \in Nat, k[3] <= Len(attempts),
         NEW st, Onto(st), st[x].key = NoKey, st[x].status # "PASSED",
         NEW n \in StageNodes, QueueValidation(st, x, k, n), ~ Validated => k \notin DOMAIN execs,
         UNCHANGED ws
  PROVE  /\ ExecsTyped' /\ CommandsBound' /\ Validated' /\ (Spoiled => Spoiled')
         /\ NewRow(k, NoCheckpoint, ws.all)
         /\ steps'["angular_update"] = steps["angular_update"]
         /\ \A h \in VG : /\ Keyed(h)' <=> Keyed(h) \/ h = x
                          /\ IsPassed(h)' <=> st[h].status = "PASSED"
                          /\ h # x => steps'[h] = st[h]
         /\ steps'[x].key = k /\ cont' \in ContRow' /\ cont'.node = n
         /\ k # NoKey /\ x \in Groups
<1>1. /\ Lasting /\ cont \in ContRow /\ ExecsTyped /\ ws.all \in Nat
  BY DEF StageInv, RowFits, Lasting, RestTyped
<1>2. x \in Groups /\ x # "angular_update" /\ k # NoKey /\ NoKey \notin DOMAIN execs
  <2>1. x \in Groups /\ x # "angular_update"
    BY GroupNodes
  <2> QED
    BY <1>1, <2>1, Groups_ DEF ExecsTyped
<1>3. /\ execs' = Inserted(k, FALSE, 1, 3, NoCheckpoint, 0, ws.all)
      /\ latest' = RequestedLast(k) /\ cont' = WaitingFor(k, n)
      /\ steps' = [st EXCEPT ![x].status = "RUNNING", ![x].key = k]
      /\ k \in DOMAIN execs \/ Active = {}
  BY DEF QueueValidation, CanInsert
<1>4. NewRow(k, NoCheckpoint, ws.all)
  <2>1. NoCheckpoint \in Checkpoint
    BY DEF NoCheckpoint, Checkpoint
  <2> QED
    BY <1>1, <1>2, <1>3, <2>1, InsertedRow
<1>5. /\ DOMAIN execs' = DOMAIN execs \cup {k}
      /\ \A y \in DOMAIN execs : execs'[y].status = execs[y].status
      /\ k \notin DOMAIN execs => execs'[k].status = "active"
  BY <1>4 DEF NewRow
<1>6. latest' \in {latest, k} /\ latest' \in DOMAIN execs' \cup {NoKey}
      /\ (k \notin DOMAIN execs => latest' = k)
  BY <1>1, <1>3, <1>5 DEF RequestedLast, ExecsTyped
<1>7. /\ \A h \in Groups : h # x => steps'[h] = st[h]
      /\ steps'[x].key = k /\ steps'[x].status = "RUNNING"
      /\ steps' \in [Groups -> StepRow']
  <2> DEFINE row == [st[x] EXCEPT !.status = "RUNNING", !.key = k]
  <2>1. st \in [Groups -> StepRow] /\ st[x] \in StepRow
    BY <1>2 DEF Onto
  <2>2. row \in StepRow' /\ row.key = k /\ row.status = "RUNNING"
    BY <1>5, <2>1 DEF StepRow
  <2>3. steps' = [st EXCEPT ![x] = row]
    BY <1>3
  <2>4. \A h \in Groups : st[h] \in StepRow'
    BY <1>5, <2>1 DEF StepRow
  <2> HIDE DEF row
  <2> QED
    BY <1>2, <2>1, <2>2, <2>3, <2>4
<1>8. ExecsTyped'
  BY <1>4, <1>6, <1>7 DEF ExecsTyped, NewRow
<1>9. \A h \in VG : /\ Keyed(h)' <=> Keyed(h) \/ h = x
                    /\ IsPassed(h)' <=> st[h].status = "PASSED"
                    /\ h # x => steps'[h] = st[h]
  <2> TAKE h \in VG
  <2>1. h \in Groups /\ st[h].key = steps[h].key
    BY GroupNodes DEF Onto
  <2>2. CASE h = x
    BY <1>2, <1>7, <2>2 DEF Keyed, IsPassed
  <2>3. CASE h # x
    BY <1>7, <2>1, <2>3 DEF Keyed, IsPassed
  <2> QED
    BY <2>2, <2>3
<1>10. ~ Keyed(x) /\ Validated'
  BY <1>9 DEF Onto, Keyed, Validated
<1>11. \A h \in VG : Keyed(h) => /\ steps'[h].key = steps[h].key /\ steps[h].key \in DOMAIN execs
                                 /\ execs'[steps'[h].key].status = execs[steps[h].key].status
  <2> TAKE h \in VG
  <2> HAVE Keyed(h)
  <2>1. h # x /\ h \in Groups
    BY <1>10, GroupNodes
  <2>2. steps'[h].key = steps[h].key
    BY <1>9, <2>1 DEF Onto
  <2>3. steps[h].key \in DOMAIN execs
    BY <1>1, <2>1 DEF Keyed, ExecsTyped, StepRow
  <2> QED
    BY <1>5, <2>2, <2>3
<1>12. Spoiled => Spoiled'
  <2> SUFFICES ASSUME NEW h \in VG, Open(h), execs[steps[h].key].status = "failed"
               PROVE  Spoiled'
    BY DEF Spoiled
  <2>1. st[h].status # "PASSED"
    BY DEF Onto
  <2>2. Keyed(h) /\ Keyed(h)' /\ ~ IsPassed(h)'
    BY <1>9, <2>1 DEF Open
  <2>3. execs'[steps'[h].key].status = "failed"
    BY <1>11, <2>2
  <2> QED
    BY <2>2, <2>3 DEF Spoiled, Open
<1>13. CommandsBound'
  <2>1. latest'[1] # "angular_update"
    <3>1. CASE Validated
      BY <1>1, <1>2, <1>6, <3>1 DEF Lasting, CommandsBound
    <3>2. CASE ~ Validated
      BY <1>2, <1>6, <3>2
    <3> QED
      BY <3>1, <3>2
  <2>2. \A y \in Active' : \E g \in VG : y = steps'[g].key
    <3> TAKE y \in Active'
    <3>1. y \in DOMAIN execs \cup {k} /\ execs'[y].status = "active"
      BY <1>5 DEF Active
    <3>2. CASE y = k
      BY <1>7, <3>2
    <3>3. CASE y # k
      <4>1. y \in Active
        BY <1>5, <3>1, <3>3 DEF Active
      <4>2. Validated
        BY <1>3, <4>1
      <4>3. PICK g \in VG : y = steps[g].key
        BY <1>1, <4>1, <4>2 DEF Lasting, CommandsBound
      <4>4. Keyed(g)
        BY <1>2, <4>1, <4>3 DEF Keyed, Active
      <4> QED
        BY <1>11, <4>3, <4>4
    <3> QED
      BY <3>2, <3>3
  <2>3. \A g \in VG : IsPassed(g)' => Keyed(g)' /\ execs'[steps'[g].key].status = "succeeded"
    <3> TAKE g \in VG
    <3> HAVE IsPassed(g)'
    <3>1. st[g].status = "PASSED"
      BY <1>9
    <3>2. Keyed(g) /\ execs[steps[g].key].status = "succeeded"
      BY <3>1 DEF Onto
    <3> QED
      BY <1>9, <1>11, <3>2
  <2> QED
    BY <2>1, <2>2, <2>3 DEF CommandsBound
<1>14. cont' \in ContRow' /\ cont'.node = n
  BY <1>1, <1>3, <1>5 DEF ContRow, WaitingFor
<1>15. steps'["angular_update"] = steps["angular_update"]
  BY <1>2, <1>7, GroupNodes DEF Onto
<1> QED
  BY <1>2, <1>4, <1>7, <1>8, <1>9, <1>10, <1>12, <1>13, <1>14, <1>15

\* The order in which the groups of a node are queued.
InOrder(st, x, n) ==
  /\ Keyed("tests") \/ x = "tests" => st["builds"].status = "PASSED"
  /\ n \in ValidNodes => (Keyed("builds") \/ x = "builds" => st["final_install"].status = "PASSED")
  /\ n = "repair_revalidate"
       => IF ChangesDependencies(Len(attempts))
            THEN Keyed("builds") \/ x = "builds" => st["final_install"].status = "PASSED"
            ELSE ~ Keyed("final_install") /\ x # "final_install"

\* A group is queued by the node of its own or by that of the targeted revalidation.
LEMMA GroupQueued ==
  ASSUME StageInv, NEW n \in ValidNodes \cup {"repair_revalidate"}, At(n),
         NEW x \in VG, NEW k, k[1] = x, k[3] \in Nat, k[3] <= Len(attempts),
         NEW st, Onto(st), st[x].key = NoKey, st[x].status # "PASSED",
         QueueValidation(st, x, k, n), ~ Validated => k \notin DOMAIN execs,
         UNCHANGED <<ws, stage, pc, prompt, post, gates, seals>>,
         ~ Spoiled => Ready(st, bound') /\ InOrder(st, x, n),
         bound' \in Nat, attempts' \in Seq(Attempt), Len(attempts') = Len(attempts),
         PatchesSpent', LastStands', AttemptsFit(n)',
         ChangesDependencies(Len(attempts))' = ChangesDependencies(Len(attempts)),
         UpdateGivenUp => Newest'.status \notin {"approved_pending_execution", "executing",
                                                 "applied_verified"},
         n = "repair_revalidate" => k[2] # "attempt"
  PROVE  StageInv'
<1>1. /\ pc = "idle" /\ pc' = "idle" /\ cont.node = n /\ Lasting /\ Fits(n)
      /\ prompt'.status # "waiting_human" /\ n \in StageNodes
  BY AtNode DEF ValidNodes, StageNodes
<1>2. /\ ExecsTyped' /\ CommandsBound' /\ Validated' /\ (Spoiled => Spoiled')
      /\ NewRow(k, NoCheckpoint, ws.all)
      /\ steps'["angular_update"] = steps["angular_update"]
      /\ \A h \in VG : /\ Keyed(h)' <=> Keyed(h) \/ h = x
                       /\ IsPassed(h)' <=> st[h].status = "PASSED"
                       /\ h # x => steps'[h] = st[h]
      /\ steps'[x].key = k /\ cont' \in ContRow' /\ cont'.node = n
      /\ k # NoKey /\ x \in Groups
  BY <1>1, GroupCommands
<1>3. /\ DOMAIN execs' = DOMAIN execs \cup {k}
      /\ \A y \in DOMAIN execs : y # k => execs'[y] = execs[y]
      /\ execs'[k].ckpt.fp = 0 /\ execs'[k].start = ws.all
  BY <1>2 DEF NewRow, NoCheckpoint
<1>4. ws.all \in Nat /\ ws.all # 0 /\ ws' = ws
  BY <1>1 DEF Lasting, RestTyped
<1>5. RestTyped' /\ SealsRight'
  BY <1>1 DEF Lasting, RestTyped, SealsRight, SealedWasValidated, SealLeavesNothingOpen
<1>6. KeysNumbered'
  BY <1>1, <1>3 DEF Lasting, KeysNumbered
<1>7. UpdateLeftBehind'
  <2> SUFFICES ASSUME UpdateGivenUp', HasUpdate'
               PROVE  UpdateExec'.ckpt.fp < ws'.all
    BY DEF UpdateLeftBehind
  <2> DEFINE u == steps["angular_update"].key
  <2>1. UpdateGivenUp /\ HasUpdate /\ UpdateExec' = execs'[u] /\ UpdateExec = execs[u]
    BY <1>2 DEF UpdateGivenUp, HasUpdate, UpdateExec
  <2>2. UpdateExec.ckpt.fp < ws.all
    BY <1>1, <2>1 DEF Fits, UpdateFits, UpdateLeftBehind
  <2>3. u \in DOMAIN execs
    BY <1>1, <2>1, GroupNodes DEF Lasting, ExecsTyped, StepRow, HasUpdate
  <2>4. CASE u = k
    BY <1>3, <1>4, <2>1, <2>4
  <2>5. CASE u # k
    BY <1>3, <1>4, <2>1, <2>2, <2>3, <2>5
  <2> QED
    BY <2>4, <2>5
<1>8. CheckpointsPast'
  <2>1. \A y \in DOMAIN execs' : execs'[y].ckpt.fp <= ws'.all
    BY <1>1, <1>3, <1>4 DEF Lasting, CheckpointsPast
  <2> QED
    BY <1>1, <1>7, <2>1 DEF Lasting, CheckpointsPast
<1>9. ~ Spoiled => \A h \in VG : Open(h)' <=> h = x
  <2> SUFFICES ASSUME ~ Spoiled, NEW h \in VG
               PROVE  Open(h)' <=> h = x
    OBVIOUS
  <2>1. st[h].key = steps[h].key
    BY DEF Onto
  <2>2. Keyed(h) => st[h].status = "PASSED"
    BY <2>1 DEF Ready, Keyed
  <2> QED
    BY <1>2, <2>2 DEF Open
<1>10. ~ Spoiled => SourcesStay'
  <2> SUFFICES ASSUME ~ Spoiled
               PROVE  SourcesStay'
    OBVIOUS
  <2>1. \A h \in VG : IsPassed(h)' => steps'[h].fp = bound'
    BY <1>2 DEF Ready
  <2>2. (\E h \in VG : IsPassed(h)') => ws.all = bound'
    BY <1>2 DEF Ready
  <2>3. \A h \in VG : Open(h)' => execs'[steps'[h].key].start = ws.all
    BY <1>2, <1>3, <1>9
  <2>4. Keyed("tests")' => IsPassed("builds")'
    BY <1>2 DEF InOrder, VG
  <2> QED
    BY <1>9, <2>1, <2>2, <2>3, <2>4 DEF SourcesStay
<1>11. Lasting'
  BY <1>2, <1>5, <1>6, <1>8, <1>10 DEF Lasting
<1>12. UpdateFits(n)' /\ JudgedFits(n)'
  BY <1>1, <1>7 DEF Fits, UpdateFits, JudgedFits, ValidNodes, TargetNodes, JudgedNodes,
                    SealedNodes
<1>13. UpdateGivenUp' = UpdateGivenUp
  BY <1>2 DEF UpdateGivenUp
<1>14. ValidationFits(n)'
  BY <1>2, <1>13
     DEF ValidationFits, ValidNodes, TargetNodes, UpdateNodes, RepairNodes, JudgedNodes
<1>15. KeysFit(n)'
  <2>1. n = "repair_revalidate" =>
          \A g \in VG : Key(g, "attempt", Len(attempts')) \notin DOMAIN execs'
    BY <1>1, <1>3 DEF Fits, KeysFit, Key
  <2> QED
    BY <1>2, <2>1 DEF KeysFit, ValidNodes, RepairNodes
<1>16. OrderFits(n)'
  <2>1. ~ Spoiled' => ~ Spoiled
    BY <1>2
  <2>2. \A h \in VG : IsPassed(h) => IsPassed(h)'
    BY <1>2 DEF Onto
  <2>3. /\ n \in {"build", "test"} => IsPassed("final_install")'
        /\ n = "test" => IsPassed("builds")'
    BY <1>1, <2>2 DEF Fits, OrderFits, VG
  <2>4. n = "aggregate_validation" => AllPassed'
    BY <1>1, <2>2 DEF Fits, OrderFits, VG, AllPassed
  <2>5. /\ ~ Spoiled' /\ n \in ValidNodes => (Keyed("builds")' => IsPassed("final_install")')
        /\ ~ Spoiled' /\ n = "repair_revalidate"
             => IF ChangesDependencies(Len(attempts))'
                  THEN Keyed("builds")' => IsPassed("final_install")'
                  ELSE ~ Keyed("final_install")'
    BY <1>2, <2>1 DEF InOrder, VG
  <2> QED
    BY <2>3, <2>4, <2>5 DEF OrderFits, ValidNodes, RepairNodes, JudgedNodes, SealedNodes
<1>17. RowFits'
  <2>1. (cont \in ContRow)' /\ cont'.node # "classify_failure"
    BY <1>2 DEF ValidNodes
  <2> QED
    BY <1>1, <2>1, RowIs
<1> QED
  BY <1>2, <1>11, <1>12, <1>14, <1>15, <1>16, <1>17, Assemble

\* The number in a validation key is that of the newest attempt, or 0.
LEMMA AttemptKeyIs ==
  ASSUME attempts \in Seq(Attempt), LastStands
  PROVE  /\ AttemptKey \in Nat /\ AttemptKey <= Len(attempts)
         /\ attempts # <<>> /\ Newest.status \in AppliedRepair => AttemptKey = Len(attempts)
<1>1. /\ Len(attempts) \in Nat /\ LatestRepair \in {0, Len(attempts)}
      /\ attempts # <<>> => LatestRepair = Len(attempts) /\ Len(attempts) # 0
  BY Latest, AttemptsShape
<1>2. AttemptKey \in {0, LatestRepair}
  BY DEF AttemptKey
<1>3. attempts # <<>> /\ Newest.status \in AppliedRepair => AttemptKey = Len(attempts)
  BY <1>1 DEF AttemptKey, Newest
<1> QED
  BY <1>1, <1>2, <1>3

\* advance_group queues the group of the node the row stands at.
LEMMA ValidateQueues ==
  ASSUME StageInv, NEW g \in VG, Validate(g), ~ IsPassed(g), ~ Keyed(g),
         QueueValidation(steps, g, Key(g, "attempt", AttemptKey), cont.node), UNCHANGED bound
  PROVE  StageInv'
<1> DEFINE n == NodeOf[g]
           k == Key(g, "attempt", AttemptKey)
<1>1. /\ At(n) /\ n \in ValidNodes
      /\ UNCHANGED <<ws, stage, pc, prompt, attempts, post, gates, seals>>
  BY ValidateIs, GroupNodes
<1>2. /\ cont.node = n /\ Lasting /\ Fits(n) /\ attempts \in Seq(Attempt) /\ LastStands
      /\ PatchesSpent /\ bound \in Nat /\ steps \in [Groups -> StepRow]
  BY <1>1, AtNode DEF Lasting, RestTyped, ExecsTyped
<1>3. /\ k[1] = g /\ k[3] \in Nat /\ k[3] <= Len(attempts)
      /\ attempts # <<>> /\ Newest.status \in AppliedRepair => k = Key(g, "attempt", Len(attempts))
  BY <1>2, AttemptKeyIs DEF Key
<1>4. ~ Validated => k \notin DOMAIN execs
  BY <1>1, <1>2, <1>3 DEF Fits, ValidationFits, KeysFit
<1>5. Onto(steps) /\ steps[g].key = NoKey /\ steps[g].status # "PASSED"
  BY <1>2 DEF Onto, Lasting, CommandsBound, IsPassed, Keyed
<1>6. \A h \in VG : IsPassed(h) => Keyed(h)
  BY <1>2 DEF Lasting, CommandsBound
<1>7. ASSUME ~ Spoiled
      PROVE  Ready(steps, bound') /\ InOrder(steps, g, n)
  <2>1. /\ SourcesStay /\ (Keyed("builds") => IsPassed("final_install"))
        /\ Keyed("tests") => IsPassed("builds")
        /\ n \in {"build", "test"} => IsPassed("final_install")
        /\ n = "test" => IsPassed("builds")
    BY <1>1, <1>2, <1>7 DEF Fits, OrderFits, Lasting, SourcesStay
  <2>2. \A h \in VG : Keyed(h) => IsPassed(h)
    <3>1. CASE g = "final_install"
      BY <1>6, <2>1, <3>1 DEF VG
    <3>2. CASE g = "builds"
      BY <1>6, <2>1, <3>2, GroupNodes DEF VG
    <3>3. CASE g = "tests"
      BY <1>6, <2>1, <3>3, GroupNodes DEF VG
    <3> QED
      BY <3>1, <3>2, <3>3 DEF VG
  <2>3. Ready(steps, bound)
    BY <2>1, <2>2 DEF Ready, SourcesStay, Open, Keyed, IsPassed
  <2>4. InOrder(steps, g, n)
    BY <1>1, <2>1, GroupNodes DEF InOrder, IsPassed, ValidNodes
  <2> QED
    BY <2>3, <2>4
<1>8. /\ AttemptsFit(n)' /\ PatchesSpent' /\ LastStands' /\ Newest' = Newest
      /\ ChangesDependencies(Len(attempts))' = ChangesDependencies(Len(attempts))
  BY <1>1, <1>2 DEF Fits, AttemptsFit, PatchesSpent, LastStands, Newest, ChangesDependencies,
                    Settled
<1>9. UpdateGivenUp => Newest'.status \notin {"approved_pending_execution", "executing",
                                              "applied_verified"}
  BY <1>1, <1>2, <1>8 DEF Fits, ValidationFits, ValidNodes, RepairNodes
<1>10. QueueValidation(steps, g, k, n) /\ n # "repair_revalidate"
  BY <1>1, <1>2 DEF ValidNodes
<1>11. n \in ValidNodes \cup {"repair_revalidate"} /\ bound' \in Nat
  BY <1>1, <1>2
<1>12. attempts' \in Seq(Attempt) /\ Len(attempts') = Len(attempts)
  BY <1>1, <1>2
<1> HIDE DEF n, k
<1> QED
  BY <1>1, <1>3, <1>4, <1>5, <1>7, <1>8, <1>9, <1>10, <1>11, <1>12, GroupQueued

\* advance_group passes a group whose command succeeded on the sources of now.
LEMMA ValidatePasses ==
  ASSUME StageInv, NEW g \in VG, Validate(g), ~ IsPassed(g), GroupSucceeded(g),
         steps' = Passed(g), bound' = ws.all, cont' = Queued(After(g)),
         UNCHANGED <<execs, latest>>
  PROVE  StageInv'
<1> DEFINE n == NodeOf[g]
           m == After(g)
<1>1. /\ At(n) /\ n \in ValidNodes /\ m \in ValidNodes /\ g \in Groups /\ g # "angular_update"
      /\ UNCHANGED <<ws, stage, pc, prompt, attempts, post, gates, seals>>
  BY ValidateIs, GroupNodes
<1>2. /\ cont.node = n /\ Lasting /\ Fits(n) /\ pc = "idle" /\ cont \in ContRow
      /\ prompt.status # "waiting_human" /\ steps \in [Groups -> StepRow] /\ ws.all \in Nat
  BY <1>1, AtNode DEF Lasting, RestTyped, ExecsTyped, ValidNodes
<1>3. /\ Open(g) /\ Validated /\ execs[steps[g].key].status = "succeeded"
      /\ execs[steps[g].key].start = ws.all
  BY DEF GroupSucceeded, Open, Keyed, Validated
<1>4. /\ \A h \in Groups : h # g => steps'[h] = steps[h]
      /\ steps'[g].key = steps[g].key /\ steps'[g].status = "PASSED" /\ steps'[g].fp = ws.all
      /\ steps' \in [Groups -> StepRow]
  <2> DEFINE row == [steps[g] EXCEPT !.status = "PASSED", !.fp = ws.all]
  <2>1. /\ row \in StepRow /\ row.status = "PASSED" /\ row.fp = ws.all
        /\ row.key = steps[g].key
    BY <1>1, <1>2 DEF StepRow
  <2>2. steps' = [steps EXCEPT ![g] = row]
    BY DEF Passed
  <2> HIDE DEF row
  <2> QED
    BY <1>1, <1>2, <2>1, <2>2
<1>5. \A h \in VG : /\ Keyed(h)' = Keyed(h) /\ steps'[h].key = steps[h].key
                    /\ IsPassed(h)' <=> IsPassed(h) \/ h = g
                    /\ h # g => steps'[h].fp = steps[h].fp
                    /\ Open(h)' <=> Open(h) /\ h # g
  <2> TAKE h \in VG
  <2>1. h \in Groups
    BY GroupNodes
  <2>2. CASE h = g
    BY <1>3, <1>4, <2>2 DEF Keyed, IsPassed, Open
  <2>3. CASE h # g
    BY <1>4, <2>1, <2>3 DEF Keyed, IsPassed, Open
  <2> QED
    BY <2>2, <2>3
<1>6. /\ Validated' /\ Spoiled' = Spoiled
  BY <1>3, <1>5 DEF Validated, Spoiled
<1>7. /\ steps'["angular_update"] = steps["angular_update"] /\ UpdateGivenUp' = UpdateGivenUp
      /\ UpdateLeftBehind' = UpdateLeftBehind /\ UpdateLeftBehind
  <2>1. steps'["angular_update"] = steps["angular_update"]
    BY <1>1, <1>4, GroupNodes
  <2>2. UpdateLeftBehind
    BY <1>1, <1>2 DEF Fits, UpdateFits
  <2> QED
    BY <1>1, <2>1, <2>2 DEF UpdateGivenUp, UpdateLeftBehind, HasUpdate, UpdateExec
<1>8. ExecsTyped' /\ RestTyped' /\ KeysNumbered' /\ SealsRight'
  BY <1>1, <1>2, <1>4 DEF Lasting, ExecsTyped, RestTyped, KeysNumbered, SealsRight, StepRow,
                         SealedWasValidated, SealLeavesNothingOpen
<1>9. PatchesSpent' /\ LastStands' /\ CheckpointsPast' /\ Newest' = Newest
  BY <1>1, <1>2, <1>3, <1>6, <1>7
     DEF Lasting, PatchesSpent, LastStands, Newest, CheckpointsPast
<1>10. CommandsBound'
  BY <1>2, <1>3, <1>5, <1>6 DEF Lasting, CommandsBound, Active, Open
<1>11. (~ Spoiled => SourcesStay)'
  <2> SUFFICES ASSUME ~ Spoiled
               PROVE  SourcesStay'
    BY <1>6
  <2>1. /\ SourcesStay /\ (Keyed("builds") => IsPassed("final_install"))
        /\ Keyed("tests") => IsPassed("builds")
    BY <1>1, <1>2 DEF Lasting, SourcesStay, Fits, OrderFits
  <2>2. \A h \in VG : IsPassed(h) => Keyed(h)
    BY <1>2 DEF Lasting, CommandsBound
  <2>3. \A h \in VG : IsPassed(h)' => steps'[h].fp = bound'
    <3> TAKE h \in VG
    <3> HAVE IsPassed(h)'
    <3>1. CASE h = g
      BY <1>4, <3>1
    <3>2. CASE h # g
      <4>1. IsPassed(h)
        BY <1>5, <3>2
      <4>2. ws.all = bound /\ steps[h].fp = bound
        BY <1>3, <2>1, <4>1 DEF SourcesStay
      <4> QED
        BY <1>5, <3>2, <4>2
    <3> QED
      BY <3>1, <3>2
  <2>4. \A h \in VG : Open(h)' => execs'[steps'[h].key].start = bound'
    <3> TAKE h \in VG
    <3> HAVE Open(h)'
    <3>1. Open(h) /\ h # g
      BY <1>5
    <3>2. \E f \in VG : IsPassed(f)
      BY <1>3, <2>1, <2>2, <3>1 DEF Open, VG
    <3>3. ws.all = bound /\ execs[steps[h].key].start = bound
      BY <1>3, <2>1, <3>1, <3>2 DEF SourcesStay
    <3> QED
      BY <1>5, <3>3
  <2>5. Keyed("tests")' => IsPassed("builds")'
    BY <1>5, <2>1 DEF VG
  <2> QED
    BY <1>1, <2>3, <2>4, <2>5 DEF SourcesStay
<1>12. Lasting'
  BY <1>8, <1>9, <1>10, <1>11 DEF Lasting
<1>13. AttemptsFit(m)' /\ JudgedFits(m)' /\ UpdateFits(m)'
  BY <1>1, <1>2, <1>7, <1>9
     DEF Fits, AttemptsFit, JudgedFits, UpdateFits, ValidNodes, TargetNodes, RepairNodes,
         SealedNodes, JudgedNodes, Settled
<1>14. ValidationFits(m)'
  <2>1. UpdateGivenUp => Newest.status \notin {"approved_pending_execution", "executing",
                                               "applied_verified"}
    BY <1>1, <1>2 DEF Fits, ValidationFits, ValidNodes, RepairNodes
  <2> QED
    BY <1>1, <1>6, <1>7, <1>9, <2>1
       DEF ValidationFits, ValidNodes, TargetNodes, UpdateNodes, RepairNodes, JudgedNodes
<1>15. KeysFit(m)'
  BY <1>1, <1>6 DEF KeysFit, ValidNodes, RepairNodes
<1>16. OrderFits(m)'
  <2>1. /\ ~ Spoiled => (Keyed("builds") => IsPassed("final_install"))
        /\ n \in {"build", "test"} => IsPassed("final_install")
        /\ n = "test" => IsPassed("builds")
    BY <1>1, <1>2 DEF Fits, OrderFits
  <2>2. /\ \A h \in VG : IsPassed(h) => IsPassed(h)'
        /\ IsPassed(g)' /\ Keyed("builds")' = Keyed("builds")
    BY <1>5 DEF VG
  <2>3. /\ g = "final_install" => n = "final_install" /\ m = "build"
        /\ g = "builds" => n = "build" /\ m = "test"
        /\ g = "tests" => n = "test" /\ m = "aggregate_validation"
    BY GroupNodes DEF After
  <2>4. m \in {"build", "test"} => IsPassed("final_install")'
    BY <2>1, <2>2, <2>3 DEF VG
  <2>5. m = "test" => IsPassed("builds")'
    BY <2>1, <2>2, <2>3 DEF VG
  <2>6. m = "aggregate_validation" => AllPassed'
    BY <2>1, <2>2, <2>3 DEF VG, AllPassed
  <2>7. ~ Spoiled' => (Keyed("builds")' => IsPassed("final_install")')
    BY <1>6, <2>1, <2>2 DEF VG
  <2> HIDE DEF m, n
  <2> QED
    BY <1>1, <2>4, <2>5, <2>6, <2>7
       DEF OrderFits, ValidNodes, RepairNodes, JudgedNodes, SealedNodes
<1>17. cont' \in ContRow /\ cont'.node = m /\ (cont \in ContRow)'
  BY <1>1, <1>2 DEF ContRow, Queued, ValidNodes, StageNodes
<1>18. RowFits'
  BY <1>1, <1>2, <1>17, RowIs DEF ValidNodes
<1> QED
  BY <1>12, <1>13, <1>14, <1>15, <1>16, <1>17, <1>18, Assemble

\* A node of the validation.
LEMMA ValidateKeeps ==
  ASSUME StageInv, NEW g \in VG, Validate(g)
  PROVE  StageInv'
<1>1. AdvanceGroup(g, After(g))
  BY ValidateIs
<1>2. CASE /\ steps[g].status # "PASSED" /\ steps[g].key = NoKey
           /\ QueueValidation(steps, g, Key(g, "attempt", AttemptKey), cont.node)
           /\ UNCHANGED bound
  BY <1>2, ValidateQueues DEF IsPassed, Keyed
<1>3. CASE /\ steps[g].status # "PASSED" /\ GroupSucceeded(g)
           /\ steps' = Passed(g) /\ bound' = ws.all /\ cont' = Queued(After(g))
           /\ UNCHANGED <<execs, latest>>
  BY <1>3, ValidatePasses DEF IsPassed
<1>4. CASE /\ steps[g].status = "PASSED" /\ cont' = Queued(After(g))
           /\ UNCHANGED <<bound, execs, latest, steps>>
  BY <1>4, ValidateMoves
<1>5. CASE /\ steps[g].status # "PASSED" /\ steps[g].key # NoKey
           /\ StillRunning(g) \/ GroupFailed(g)
           /\ UNCHANGED <<bound, execs, latest>>
  BY <1>5, ValidateMoves
<1> QED
  BY <1>1, <1>2, <1>3, <1>4, <1>5 DEF AdvanceGroup

-----------------------------------------------------------------------------
(* The targeted revalidation. *)

\* A minimum of numbers is the one that is at most as large as the others.
LEMMA MinIs ==
  ASSUME NEW S, NEW n \in S, S \subseteq Int, \A k \in S : n <= k
  PROVE  Min(S) = n
<1>1. Min(S) \in S /\ \A y \in S : Min(S) <= y
  BY DEF Min
<1>2. Min(S) \in Int /\ n \in Int /\ Min(S) <= n /\ n <= Min(S)
  BY <1>1
<1> QED
  BY <1>2

\* The first group of a sequence that has not passed.
LEMMA FirstOpenIs ==
  ASSUME NEW st, NEW s, NEW m \in {2, 3}, DOMAIN s = 1 .. m
  PROVE  FirstOpen(st, s) = IF st[s[1]].status # "PASSED" THEN s[1]
                            ELSE IF st[s[2]].status # "PASSED" THEN s[2]
                            ELSE IF m = 3 /\ st[s[3]].status # "PASSED" THEN s[3] ELSE "none"
<1> DEFINE open == {j \in DOMAIN s : st[s[j]].status # "PASSED"}
<1>1. open \subseteq Int /\ \A j \in open : j \in 1 .. 3 /\ j <= m
  OBVIOUS
<1>2. CASE open = {}
  <2>1. \A j \in 1 .. m : st[s[j]].status = "PASSED"
    BY <1>2
  <2>2. 1 \in 1 .. m /\ 2 \in 1 .. m /\ (m = 3 => 3 \in 1 .. m)
    OBVIOUS
  <2> QED
    BY <1>2, <2>1, <2>2 DEF FirstOpen
<1>3. CASE 1 \in open
  <2>1. 1 \in open /\ open \subseteq Int /\ \A j \in open : 1 <= j
    BY <1>1, <1>3
  <2>2. Min(open) = 1
    <3> HIDE DEF open
    <3> QED
      BY <2>1, MinIs
  <2> QED
    BY <1>3, <2>2 DEF FirstOpen
<1>4. CASE 1 \notin open /\ 2 \in open
  <2>1. 2 \in open /\ open \subseteq Int /\ \A j \in open : 2 <= j
    BY <1>1, <1>4
  <2>2. Min(open) = 2
    <3> HIDE DEF open
    <3> QED
      BY <2>1, MinIs
  <2> QED
    BY <1>4, <2>2 DEF FirstOpen
<1>5. CASE 1 \notin open /\ 2 \notin open /\ 3 \in open
  <2>1. 3 \in open /\ open \subseteq Int /\ \A j \in open : 3 <= j
    BY <1>1, <1>5
  <2>2. Min(open) = 3
    <3> HIDE DEF open
    <3> QED
      BY <2>1, MinIs
  <2>3. m = 3
    BY <1>5
  <2> QED
    BY <1>5, <2>2, <2>3 DEF FirstOpen
<1>6. open # {} => 1 \in open \/ 2 \in open \/ 3 \in open
  BY <1>1
<1> QED
  BY <1>2, <1>3, <1>4, <1>5, <1>6

\* The targets in their order; without a change of dependencies nothing is installed.
LEMMA NextTarget ==
  ASSUME NEW st, NEW i
  PROVE  FirstOpen(st, Targets(i)) =
           IF ChangesDependencies(i) /\ st["final_install"].status # "PASSED"
             THEN "final_install"
           ELSE IF st["builds"].status # "PASSED" THEN "builds"
           ELSE IF st["tests"].status # "PASSED" THEN "tests" ELSE "none"
<1>1. /\ Validation \in Seq(VG) /\ Len(Validation) = 3 /\ DOMAIN Validation = 1 .. 3
      /\ Validation[1] = "final_install" /\ Validation[2] = "builds" /\ Validation[3] = "tests"
  BY DEF Validation, VG
<1>2. /\ DOMAIN Tail(Validation) = 1 .. 2
      /\ Tail(Validation)[1] = "builds" /\ Tail(Validation)[2] = "tests"
  <2>1. Validation # <<>>
    BY <1>1, EmptySeq
  <2>2. /\ Tail(Validation) \in Seq(VG) /\ Len(Tail(Validation)) = 2
        /\ \A j \in 1 .. 2 : Tail(Validation)[j] = Validation[j + 1]
    <3>1. /\ Tail(Validation) \in Seq(VG) /\ Len(Tail(Validation)) = Len(Validation) - 1
          /\ \A j \in 1 .. Len(Tail(Validation)) : Tail(Validation)[j] = Validation[j + 1]
      BY <1>1, <2>1, HeadTailProperties
    <3>2. Len(Tail(Validation)) = 2
      BY <1>1, <3>1
    <3> QED
      BY <3>1, <3>2
  <2>3. DOMAIN Tail(Validation) = 1 .. 2
    BY <2>2, LenProperties
  <2> QED
    BY <1>1, <2>2, <2>3
<1>3. CASE ChangesDependencies(i)
  BY <1>1, <1>3, FirstOpenIs DEF Targets
<1>4. CASE ~ ChangesDependencies(i)
  BY <1>2, <1>4, FirstOpenIs DEF Targets
<1> QED
  BY <1>3, <1>4

\* Where the revalidation stands: the newest attempt, and what the steps show with the group
\* that has just succeeded.
Rst == IF FirstOpen(steps, Targets(LatestRepair)) # "none"
            /\ GroupSucceeded(FirstOpen(steps, Targets(LatestRepair)))
         THEN Passed(FirstOpen(steps, Targets(LatestRepair))) ELSE steps
RDone == FirstOpen(steps, Targets(LatestRepair)) # "none"
           /\ GroupSucceeded(FirstOpen(steps, Targets(LatestRepair)))

\* What repair_revalidate finds.
LEMMA RevalidationNode ==
  ASSUME StageInv, StartRevalidation
  PROVE  /\ At("repair_revalidate") /\ cont.node = "repair_revalidate" /\ pc = "idle"
         /\ cont \in ContRow /\ Lasting /\ Fits("repair_revalidate")
         /\ prompt.status # "waiting_human"
         /\ attempts \in Seq(Attempt) /\ attempts # <<>> /\ LastStands /\ PatchesSpent
         /\ LatestRepair = Len(attempts) /\ Len(attempts) \in DOMAIN attempts
         /\ Len(attempts) \in Nat /\ Settled(Newest)
         /\ UNCHANGED <<ws, stage, pc, prompt, post, gates, seals>>
         /\ steps \in [Groups -> StepRow] /\ ws.all \in Nat /\ bound \in Nat
<1>1. /\ At("repair_revalidate") /\ UNCHANGED <<ws, stage, pc, prompt, post, gates, seals>>
  BY DEF StartRevalidation
<1>2. /\ cont.node = "repair_revalidate" /\ pc = "idle" /\ cont \in ContRow /\ Lasting
      /\ Fits("repair_revalidate") /\ prompt.status # "waiting_human"
  BY <1>1, AtNode
<1>3. /\ attempts \in Seq(Attempt) /\ LastStands /\ PatchesSpent
      /\ steps \in [Groups -> StepRow] /\ ws.all \in Nat /\ bound \in Nat
  BY <1>2 DEF Lasting, RestTyped, ExecsTyped
<1>4. attempts # <<>> /\ Settled(Newest)
  BY <1>2 DEF Fits, AttemptsFit, RepairNodes
<1> QED
  BY <1>1, <1>2, <1>3, <1>4, Latest, AttemptsShape

\* The steps the next group is queued on.
LEMMA RevalidatedOnto ==
  ASSUME StageInv, StartRevalidation
  PROVE  /\ Onto(Rst)
         /\ \A h \in VG : Rst[h].status = "PASSED"
              <=> IsPassed(h) \/ (RDone /\ h = FirstOpen(steps, Targets(LatestRepair)))
         /\ \A h \in VG : Rst[h].status = "PASSED" =>
              Rst[h].fp = IF RDone /\ h = FirstOpen(steps, Targets(LatestRepair))
                            THEN ws.all ELSE steps[h].fp
         /\ RDone => /\ FirstOpen(steps, Targets(LatestRepair)) \in VG
                     /\ Open(FirstOpen(steps, Targets(LatestRepair)))
                     /\ execs[steps[FirstOpen(steps, Targets(LatestRepair))].key].start = ws.all
<1> DEFINE f == FirstOpen(steps, Targets(LatestRepair))
<1>1. Lasting /\ steps \in [Groups -> StepRow] /\ ws.all \in Nat
  BY RevalidationNode
<1>2. \A h \in VG : IsPassed(h) => Keyed(h) /\ execs[steps[h].key].status = "succeeded"
  BY <1>1 DEF Lasting, CommandsBound
<1>3. f # "none" => f \in VG /\ ~ IsPassed(f)
  <2>1. f \in VG \cup {"none"} /\ (f # "none" => steps[f].status # "PASSED")
    BY NextTarget DEF VG
  <2> QED
    BY <2>1 DEF IsPassed
<1> HIDE DEF f
<1>4. CASE ~ RDone
  <2>1. Rst = steps
    BY <1>4 DEF Rst, RDone, f
  <2> QED
    BY <1>1, <1>2, <1>4, <2>1 DEF Onto, IsPassed
<1>5. CASE RDone
  <2>1. /\ Rst = Passed(f) /\ f # "none" /\ f \in VG /\ Open(f)
        /\ execs[steps[f].key].start = ws.all /\ execs[steps[f].key].status = "succeeded"
    BY <1>3, <1>5 DEF Rst, RDone, f, GroupSucceeded, Open, Keyed
  <2> DEFINE row == [steps[f] EXCEPT !.status = "PASSED", !.fp = ws.all]
  <2>2. f \in Groups /\ f # "angular_update" /\ "angular_update" \in Groups
        /\ VG \subseteq Groups
    BY <2>1, GroupNodes
  <2>3. /\ row \in StepRow /\ row.status = "PASSED" /\ row.fp = ws.all
        /\ row.key = steps[f].key
    BY <1>1, <2>2 DEF StepRow
  <2>4. Rst = [steps EXCEPT ![f] = row]
    BY <2>1 DEF Passed
  <2> HIDE DEF row
  <2>5. /\ Rst \in [Groups -> StepRow] /\ Rst[f] = row
        /\ \A h \in Groups : h # f => Rst[h] = steps[h]
    BY <1>1, <2>2, <2>3, <2>4
  <2>6. \A h \in VG : /\ Rst[h].key = steps[h].key
                      /\ Rst[h].status = "PASSED" <=> IsPassed(h) \/ h = f
                      /\ Rst[h].status = "PASSED" =>
                           Rst[h].fp = IF h = f THEN ws.all ELSE steps[h].fp
    <3> TAKE h \in VG
    <3>1. CASE h = f
      BY <2>3, <2>5, <3>1
    <3>2. CASE h # f
      BY <2>2, <2>5, <3>2 DEF IsPassed
    <3> QED
      BY <3>1, <3>2
  <2>7. Onto(Rst)
    BY <1>2, <2>1, <2>2, <2>5, <2>6 DEF Onto, Open
  <2> QED
    BY <1>5, <2>1, <2>6, <2>7 DEF f
<1> QED
  BY <1>4, <1>5

\* The attempt that is revalidated gets another status.
LEMMA RevalidatedAttempt ==
  ASSUME StageInv, StartRevalidation, NEW s \in {"revalidating", "revalidating_affected"},
         attempts' = SetStatus(LatestRepair, s)
  PROVE  /\ attempts' \in Seq(Attempt) /\ Len(attempts') = Len(attempts) /\ attempts' # <<>>
         /\ Newest'.status = s /\ Settled(Newest)' /\ PatchesSpent' /\ LastStands'
         /\ ChangesDependencies(Len(attempts))' = ChangesDependencies(Len(attempts))
<1>1. /\ attempts \in Seq(Attempt) /\ LastStands /\ PatchesSpent /\ UNCHANGED ws
      /\ LatestRepair = Len(attempts) /\ Len(attempts) \in DOMAIN attempts /\ Settled(Newest)
  BY RevalidationNode
<1>2. s \in AttemptStatuses /\ s # "superseded"
  BY DEF AttemptStatuses, ActiveRepair
<1>3. attempts' = SetStatus(Len(attempts), s)
  BY <1>1
<1>4. /\ attempts' \in Seq(Attempt) /\ Len(attempts') = Len(attempts) /\ attempts' # <<>>
      /\ Newest'.status = s /\ Newest'.post = Newest.post /\ Newest'.g10 = Newest.g10
      /\ Newest'.op = Newest.op /\ PatchesSpent' /\ LastStands'
  BY <1>1, <1>2, <1>3, StatusSet
<1> QED
  BY <1>1, <1>4 DEF Settled, ChangesDependencies, Newest

\* All affected groups have passed: every step starts over under final_install.
LEMMA RevalidationRestarts ==
  ASSUME StageInv, StartRevalidation,
         steps' = [h \in Groups |-> IF h \in Range(Validation)
                     THEN [Rst[h] EXCEPT !.status = "PENDING", !.key = NoKey] ELSE Rst[h]],
         attempts' = SetStatus(LatestRepair, "revalidating"),
         bound' = IF RDone THEN ws.all ELSE bound, cont' = Queued("final_install"),
         UNCHANGED <<execs, latest>>
  PROVE  StageInv'
<1> DEFINE n == "final_install"
<1>1. /\ cont.node = "repair_revalidate" /\ pc = "idle" /\ cont \in ContRow /\ Lasting
      /\ Fits("repair_revalidate") /\ prompt.status # "waiting_human" /\ Len(attempts) \in Nat
      /\ UNCHANGED <<ws, stage, pc, prompt, post, gates, seals>> /\ ws.all \in Nat /\ bound \in Nat
  BY RevalidationNode
<1>2. /\ attempts' \in Seq(Attempt) /\ Len(attempts') = Len(attempts) /\ attempts' # <<>>
      /\ Newest'.status = "revalidating" /\ Settled(Newest)' /\ PatchesSpent' /\ LastStands'
  BY RevalidatedAttempt
<1>3. Rst \in [Groups -> StepRow] /\ Rst["angular_update"] = steps["angular_update"]
  BY RevalidatedOnto DEF Onto
<1>4. /\ steps' \in [Groups -> StepRow] /\ Bare'
      /\ steps'["angular_update"] = steps["angular_update"]
  <2>1. ASSUME NEW h \in Groups
        PROVE  /\ steps'[h] \in StepRow
               /\ h \in VG => steps'[h].status = "PENDING" /\ steps'[h].key = NoKey
               /\ h \notin VG => steps'[h] = Rst[h]
    <3>1. Rst[h] \in StepRow
      BY <1>3
    <3>2. CASE h \in VG
      <4>1. steps'[h] = [Rst[h] EXCEPT !.status = "PENDING", !.key = NoKey]
        BY <3>2, Groups_
      <4> QED
        BY <3>1, <3>2, <4>1 DEF StepRow
    <3>3. CASE h \notin VG
      BY <3>1, <3>3, Groups_
    <3> QED
      BY <3>2, <3>3
  <2>2. steps' \in [Groups -> StepRow]
    BY <2>1
  <2>3. Bare'
    BY <2>1, GroupNodes DEF Bare, Keyed, IsPassed
  <2> QED
    BY <1>3, <2>1, <2>2, <2>3, GroupNodes
<1>5. ExecsTyped' /\ RestTyped' /\ KeysNumbered'
  BY <1>1, <1>2, <1>4 DEF Lasting, ExecsTyped, RestTyped, KeysNumbered, StepRow
<1>6. Lasting'
  BY <1>1, <1>2, <1>4, <1>5, LastsBare DEF Lasting, CheckpointsPast
<1>7. AttemptsFit(n)' /\ JudgedFits(n)'
  BY <1>1, <1>2 DEF Fits, JudgedFits, AttemptsFit, RepairNodes, TargetNodes, SealedNodes,
                    JudgedNodes
<1>8. ValidationFits(n)' /\ OrderFits(n)'
  BY <1>2, <1>4, BareIs
     DEF Bare, ValidationFits, OrderFits, UpdateNodes, TargetNodes, ValidNodes, RepairNodes,
         JudgedNodes, SealedNodes, AppliedRepair, VG
<1>9. KeysFit(n)'
  BY <1>1, <1>2 DEF Fits, KeysFit, RepairNodes, ValidNodes
<1>10. UpdateFits(n)'
  BY <1>1, <1>4 DEF Fits, UpdateFits, UpdateLeftBehind, UpdateGivenUp, HasUpdate, UpdateExec,
                    TargetNodes
<1>11. cont' \in ContRow /\ cont'.node = n /\ (cont \in ContRow)'
  BY <1>1 DEF ContRow, Queued, StageNodes
<1>12. RowFits'
  BY <1>1, <1>11, RowIs
<1> QED
  BY <1>6, <1>7, <1>8, <1>9, <1>10, <1>11, <1>12, Assemble

\* The next affected group is queued, by the transaction that passed the one before.
LEMMA RevalidationQueues ==
  ASSUME StageInv, StartRevalidation,
         NEW x, x = FirstOpen(Rst, Targets(LatestRepair)), x # "none", Rst[x].key = NoKey,
         QueueValidation(Rst, x, Key(x, "affected", LatestRepair), "repair_revalidate"),
         attempts' = SetStatus(LatestRepair, "revalidating_affected"),
         bound' = IF RDone THEN ws.all ELSE bound
  PROVE  StageInv'
<1> DEFINE n == "repair_revalidate"
           k == Key(x, "affected", Len(attempts))
           f == FirstOpen(steps, Targets(LatestRepair))
           cd == ChangesDependencies(Len(attempts))
           SP(h) == Rst[h].status = "PASSED"
<1>1. /\ At(n) /\ pc = "idle" /\ Lasting /\ Fits(n) /\ Len(attempts) \in Nat
      /\ UNCHANGED <<ws, stage, pc, prompt, post, gates, seals>> /\ ws.all \in Nat /\ bound \in Nat
      /\ LatestRepair = Len(attempts)
  BY RevalidationNode
<1>2. /\ attempts' \in Seq(Attempt) /\ Len(attempts') = Len(attempts) /\ attempts' # <<>>
      /\ Newest'.status = "revalidating_affected" /\ Settled(Newest)' /\ PatchesSpent'
      /\ LastStands'
      /\ ChangesDependencies(Len(attempts))' = ChangesDependencies(Len(attempts))
  BY RevalidatedAttempt
<1>3. /\ Onto(Rst) /\ \A h \in VG : Rst[h].key = steps[h].key
      /\ \A h \in VG : SP(h) <=> IsPassed(h) \/ (RDone /\ h = f)
      /\ \A h \in VG : SP(h) => Rst[h].fp = IF RDone /\ h = f THEN ws.all ELSE steps[h].fp
      /\ RDone => f \in VG /\ Open(f) /\ execs[steps[f].key].start = ws.all
  BY RevalidatedOnto DEF Onto
<1>4. x = IF cd /\ ~ SP("final_install") THEN "final_install"
          ELSE IF ~ SP("builds") THEN "builds"
          ELSE IF ~ SP("tests") THEN "tests" ELSE "none"
  BY <1>1, NextTarget
<1>5. x \in VG /\ ~ SP(x) /\ ~ Keyed(x)
  <2>1. x \in VG /\ ~ SP(x)
    BY <1>4 DEF VG
  <2> QED
    BY <1>3, <2>1 DEF Keyed
<1>6. ~ Validated => k \notin DOMAIN execs
  <2>1. k[1] = x /\ k[3] = Len(attempts)
    BY DEF Key
  <2> QED
    BY <1>1, <1>5, <2>1 DEF Fits, KeysFit, ValidNodes, JudgedNodes, SealedNodes
<1> HIDE DEF f, SP
<1>7. ASSUME ~ Spoiled
      PROVE  Ready(Rst, bound') /\ InOrder(Rst, x, n)
  <2>1. /\ SourcesStay /\ (cd => (Keyed("builds") => IsPassed("final_install")))
        /\ ~ cd => ~ Keyed("final_install")
        /\ Keyed("tests") => IsPassed("builds")
    BY <1>1, <1>7 DEF Fits, OrderFits, Lasting, SourcesStay
  <2>2. \A h \in VG : IsPassed(h) => Keyed(h) /\ SP(h)
    BY <1>1, <1>3 DEF Lasting, CommandsBound
  <2>3. \A h \in VG : Keyed(h) => SP(h)
    <3>1. CASE x = "final_install"
      BY <1>4, <1>5, <2>1, <2>2, <3>1 DEF VG
    <3>2. CASE x = "builds"
      BY <1>4, <1>5, <2>1, <2>2, <3>2 DEF VG
    <3>3. CASE x = "tests"
      BY <1>4, <1>5, <2>1, <2>2, <3>3 DEF VG
    <3> QED
      BY <1>5, <3>1, <3>2, <3>3 DEF VG
  <2>4. \A h \in VG : Rst[h].key # NoKey => Rst[h].status = "PASSED"
    BY <1>3, <2>3 DEF Keyed, SP
  <2>5. \A h \in VG : SP(h) => Rst[h].fp = bound' /\ ws.all = bound'
    <3> TAKE h \in VG
    <3> HAVE SP(h)
    <3>1. CASE RDone /\ h = f
      BY <1>3, <3>1
    <3>2. CASE RDone /\ h # f
      <4>1. IsPassed(h)
        BY <1>3, <3>2
      <4>2. ws.all = bound /\ steps[h].fp = bound
        BY <1>3, <2>1, <3>2, <4>1 DEF SourcesStay
      <4> QED
        BY <1>3, <3>2, <4>2
    <3>3. CASE ~ RDone
      <4>1. IsPassed(h) /\ bound' = bound
        BY <1>3, <3>3
      <4>2. \A g \in VG : ~ Open(g)
        BY <1>3, <2>3, <3>3 DEF Open
      <4>3. ws.all = bound /\ steps[h].fp = bound
        BY <2>1, <4>1, <4>2 DEF SourcesStay
      <4> QED
        BY <1>3, <3>3, <4>1, <4>3
    <3> QED
      BY <3>1, <3>2, <3>3
  <2>6. Ready(Rst, bound')
    BY <2>4, <2>5 DEF Ready, SP
  <2>7. /\ Keyed("tests") \/ x = "tests" => SP("builds")
        /\ cd => (Keyed("builds") \/ x = "builds" => SP("final_install"))
        /\ ~ cd => x # "final_install"
    BY <1>4, <2>1, <2>2 DEF VG
  <2>8. InOrder(Rst, x, n)
    BY <2>1, <2>7 DEF InOrder, ValidNodes, SP
  <2> QED
    BY <2>6, <2>8
<1>8. /\ AttemptsFit(n)'
      /\ UpdateGivenUp => Newest'.status \notin {"approved_pending_execution", "executing",
                                                 "applied_verified"}
  BY <1>2 DEF AttemptsFit, RepairNodes, SealedNodes
<1>9. /\ QueueValidation(Rst, x, k, n) /\ k[1] = x /\ k[3] \in Nat /\ k[3] <= Len(attempts)
      /\ k[2] # "attempt" /\ bound' \in Nat
  BY <1>1 DEF Key
<1>10. Rst[x].key = NoKey /\ Rst[x].status # "PASSED"
  BY <1>5 DEF SP
<1> HIDE DEF k, cd
<1> QED
  BY <1>1, <1>2, <1>3, <1>5, <1>6, <1>7, <1>8, <1>9, <1>10, GroupQueued

\* The next affected group still runs, has failed, or changed the sources.
LEMMA RevalidationWaits ==
  ASSUME StageInv, StartRevalidation,
         NEW x, x = FirstOpen(Rst, Targets(LatestRepair)), x # "none", Rst[x].key # NoKey,
         StillRunning(x) \/ GroupFailed(x),
         attempts' = SetStatus(LatestRepair, "revalidating_affected"),
         UNCHANGED <<bound, execs, latest>>
  PROVE  StageInv'
<1>1. /\ cont.node = "repair_revalidate" /\ pc = "idle" /\ Lasting /\ Fits("repair_revalidate")
      /\ UNCHANGED <<ws, stage, pc, prompt, post, gates, seals>> /\ cont \in ContRow
      /\ prompt.status # "waiting_human" /\ steps \in [Groups -> StepRow]
  BY RevalidationNode
<1>2. /\ attempts' \in Seq(Attempt) /\ Len(attempts') = Len(attempts) /\ attempts' # <<>>
      /\ Newest'.status = "revalidating_affected" /\ Settled(Newest)' /\ PatchesSpent'
      /\ LastStands'
      /\ ChangesDependencies(Len(attempts))' = ChangesDependencies(Len(attempts))
  BY RevalidatedAttempt
<1>3. x \in VG /\ ~ IsPassed(x) /\ Keyed(x)
  <2>1. x \in VG /\ Rst[x].status # "PASSED"
    BY NextTarget DEF VG
  <2> QED
    BY <2>1, RevalidatedOnto DEF Onto, Keyed
<1>4. Open(x) /\ Validated
  BY <1>3 DEF Open, Validated
<1>5. Fits("classify_failure")
  BY <1>1, <1>3, <1>4, FailedFits
<1>6. /\ steps' \in [Groups -> StepRow] /\ steps'["angular_update"] = steps["angular_update"]
      /\ \A h \in VG : /\ steps'[h].key = steps[h].key /\ steps'[h].fp = steps[h].fp
                       /\ IsPassed(h)' = IsPassed(h)
  <2>1. CASE UNCHANGED steps
    BY <1>1, <2>1 DEF IsPassed
  <2>2. CASE steps' = [steps EXCEPT ![x].status = "FAILED"]
    BY <1>1, <1>3, <2>2, Marked
  <2> QED
    BY <2>1, <2>2 DEF StillRunning, GroupFailed
<1>7. /\ Lasting' /\ Spoiled' = Spoiled /\ Validated' /\ UpdateGivenUp' = UpdateGivenUp
      /\ \A n : Fits(n) => KeysFit(n)' /\ UpdateFits(n)' /\ OrderFits(n)' /\ JudgedFits(n)'
  BY <1>1, <1>2, <1>4, <1>6, MarkMoves
<1>8. PICK n \in {"repair_revalidate", "classify_failure"} :
        /\ cont' \in ContRow /\ cont'.node = n
        /\ n = "classify_failure" /\ cont'.error = "transient" => Spoiled
  <2>1. CASE StillRunning(x)
    BY <1>1, <2>1 DEF StillRunning, WaitingFor, ContRow, Active
  <2>2. CASE cont' = FailedWith("mutated")
    <3>1. cont' \in ContRow /\ cont'.node = "classify_failure" /\ cont'.error = "mutated"
      BY <1>1, <2>2, FailedWithRow DEF Errors
    <3> QED
      BY <3>1
  <2>3. CASE /\ execs[steps[x].key].status = "failed"
             /\ cont' = FailedWith(execs[steps[x].key].code)
    <3>1. execs[steps[x].key].code \in Errors
      BY <1>1, <1>3, GroupNodes DEF Lasting, ExecsTyped, StepRow, Exec, Errors, Keyed
    <3>2. cont' \in ContRow /\ cont'.node = "classify_failure"
      BY <1>1, <2>3, <3>1, FailedWithRow
    <3>3. Spoiled
      BY <1>3, <1>4, <2>3 DEF Spoiled
    <3> QED
      BY <3>2, <3>3
  <2> QED
    BY <2>1, <2>2, <2>3 DEF GroupFailed
<1>9. AttemptsFit(n)' /\ ValidationFits(n)'
  BY <1>2, <1>7
     DEF AttemptsFit, ValidationFits, RepairNodes, TargetNodes, SealedNodes, UpdateNodes,
         ValidNodes, JudgedNodes
<1>10. KeysFit(n)' /\ UpdateFits(n)' /\ OrderFits(n)' /\ JudgedFits(n)'
  BY <1>1, <1>5, <1>7
<1>11. (cont \in ContRow)'
  BY <1>8 DEF ContRow
<1>12. RowFits'
  BY <1>1, <1>7, <1>8, <1>11, RowIs
<1> QED
  BY <1>7, <1>8, <1>9, <1>10, <1>12, Assemble

\* _start_revalidation
LEMMA RevalidationKeeps ==
  ASSUME StageInv, StartRevalidation
  PROVE  StageInv'
<1> DEFINE i == LatestRepair
           x == FirstOpen(Rst, Targets(i))
<1>1. /\ pc = "idle" /\ UNCHANGED <<ws, stage, pc, prompt, post, gates, seals>>
  BY RevalidationNode
<1>2. \/ /\ Block("proposal_stale") /\ UNCHANGED <<bound, execs, latest, steps, attempts>>
      \/ /\ x = "none" /\ attempts' = SetStatus(i, "revalidating")
         /\ steps' = [h \in Groups |-> IF h \in Range(Validation)
                        THEN [Rst[h] EXCEPT !.status = "PENDING", !.key = NoKey] ELSE Rst[h]]
         /\ bound' = IF RDone THEN ws.all ELSE bound
         /\ cont' = Queued("final_install") /\ UNCHANGED <<execs, latest>>
      \/ /\ x # "none" /\ Rst[x].key = NoKey
         /\ QueueValidation(Rst, x, Key(x, "affected", i), "repair_revalidate")
         /\ attempts' = SetStatus(i, "revalidating_affected")
         /\ bound' = IF RDone THEN ws.all ELSE bound
      \/ /\ x # "none" /\ Rst[x].key # NoKey
         /\ StillRunning(x) \/ GroupFailed(x)
         /\ attempts' = SetStatus(i, "revalidating_affected")
         /\ UNCHANGED <<bound, execs, latest>>
  BY DEF StartRevalidation, Rst, RDone, SetStatus
<1>3. CASE Block("proposal_stale") /\ UNCHANGED <<bound, execs, latest, steps, attempts>>
  BY <1>1, <1>3, Blocks DEF Errors, Stage_
<1> HIDE DEF x, i
<1> QED
  BY <1>2, <1>3, RevalidationRestarts, RevalidationQueues, RevalidationWaits DEF x, i

-----------------------------------------------------------------------------
(* The invariant and what follows from it. *)

\* Nothing has happened.
LEMMA InitHolds ==
  ASSUME Init
  PROVE  StageInv /\ BudgetTyped
<1> DEFINE n == "prepare_workspace"
<1>1. /\ ws = [all |-> 1, src |-> 1] /\ bound = 1 /\ stage = 1 /\ pc = "idle"
      /\ execs = NoExecs /\ latest = NoKey /\ steps = FreshSteps /\ prompt = NoPrompt
      /\ attempts = <<>> /\ post = 0 /\ gates = NoGates /\ seals = <<>>
      /\ cont = [status |-> "queued", node |-> n, tries |-> 0, waiting |-> NoKey,
                 error |-> "none"]
  BY DEF Init
<1>2. /\ NumStages \in Nat \ {0} /\ MaxTries \in Nat
  BY ConstantsAssumption
<1>3. /\ DOMAIN execs = {} /\ execs \in [DOMAIN execs -> Exec] /\ IsFiniteSet(DOMAIN execs)
  BY <1>1, FS_EmptySet DEF NoExecs
<1>4. /\ steps \in [Groups -> StepRow] /\ \A g \in VG : ~ Keyed(g) /\ ~ IsPassed(g) /\ ~ Open(g)
      /\ ~ Validated /\ ~ Spoiled /\ ~ UpdateGivenUp
  BY <1>1, GroupNodes
     DEF FreshSteps, StepRow, Keyed, IsPassed, Open, Validated, Spoiled, UpdateGivenUp
<1>5. ExecsTyped
  BY <1>1, <1>3, <1>4 DEF ExecsTyped
<1>6. RestTyped
  <2>1. prompt \in PromptRow
    BY <1>1 DEF PromptRow, NoPrompt, NoCheckpoint, Checkpoint
  <2>2. gates \in GateRows
    BY <1>1 DEF GateRows, NoGates, NoGate
  <2>3. attempts \in Seq(Attempt) /\ seals \in Seq(Range(seals))
    BY <1>1, EmptySeq
  <2>4. stage \in 1 .. NumStages /\ ws \in [all : Nat \ {0}, src : Nat] /\ bound \in Nat
    BY <1>1, <1>2
  <2> QED
    BY <1>1, <2>1, <2>2, <2>3, <2>4 DEF RestTyped, PromptRow, GateRows
<1>7. PatchesSpent /\ LastStands /\ KeysNumbered /\ SealsRight
  BY <1>1, <1>3
     DEF PatchesSpent, LastStands, KeysNumbered, SealsRight, SealedWasValidated,
         SealLeavesNothingOpen
<1>8. CommandsBound /\ SourcesStay
  BY <1>4 DEF CommandsBound, SourcesStay, VG
<1>9. CheckpointsPast
  BY <1>1, <1>3, <1>4 DEF CheckpointsPast, NoPrompt, NoCheckpoint
<1>10. Lasting
  BY <1>5, <1>6, <1>7, <1>8, <1>9 DEF Lasting
<1>11. Fits(n)
  <2>1. AttemptsFit(n) /\ KeysFit(n) /\ UpdateFits(n)
    BY <1>1, <1>3
       DEF AttemptsFit, KeysFit, UpdateFits, RepairNodes, TargetNodes, SealedNodes, ValidNodes
  <2>2. ValidationFits(n) /\ OrderFits(n)
    BY <1>1, <1>4
       DEF ValidationFits, OrderFits, UpdateNodes, TargetNodes, ValidNodes, RepairNodes,
           JudgedNodes, SealedNodes, VG
  <2>3. Len(seals) = stage - 1
    BY <1>1
  <2>4. JudgedFits(n)
    BY <1>1, <2>3 DEF JudgedFits, JudgedNodes, SealedNodes, NoGates, NoGate, Gates
  <2> QED
    BY <2>1, <2>2, <2>4 DEF Fits
<1>12. RowFits
  <2>1. cont \in ContRow
    BY <1>1, <1>2 DEF ContRow, StageNodes, Errors, CommandCodes
  <2> QED
    BY <1>1, <2>1 DEF RowFits, NoPrompt
<1>13. BudgetTyped
  BY DEF Init, BudgetTyped
<1> QED
  BY <1>1, <1>10, <1>11, <1>12, <1>13 DEF StageInv

\* Where nothing changes.
LEMMA StutterKeeps ==
  ASSUME StageInv, UNCHANGED vars
  PROVE  StageInv'
<1>1. /\ UNCHANGED Stage_ /\ UNCHANGED <<cont, pc, prompt>>
  BY DEF vars, Stage_
<1>2. Lasting' /\ prompt \in PromptRow
  BY <1>1, LastingStays DEF StageInv, Lasting, RestTyped, PromptRow
<1>3. RowFits'
  BY <1>1 DEF StageInv, RowFits, ContRow, Stage_, Spoiled, Open, Keyed, IsPassed,
              IsUpdateFailure, HasUpdate, Newest, UpdateLeftBehind, UpdateGivenUp, UpdateExec
<1>4. Fits(cont.node)
  BY DEF StageInv
<1> QED
  BY <1>1, <1>2, <1>3, <1>4, FitsStay, Assemble

\* The counters of the bounds.
LEMMA BudgetKeeps ==
  ASSUME BudgetTyped, [Next]_vars
  PROVE  BudgetTyped'
<1>1. UNCHANGED budget => BudgetTyped'
  BY DEF BudgetTyped
<1>2. \/ UNCHANGED budget
      \/ budget' = [budget EXCEPT !.failures = @ + 1]
      \/ budget' = [budget EXCEPT !.prompts = @ + 1]
      \/ budget' = [budget EXCEPT !.crashes = @ + 1]
      \/ budget' = [budget EXCEPT !.requests = @ + 1]
  <2>1. CASE Nodes
    <3>1. ASSUME NEW g \in Range(Validation), Validate(g)
          PROVE  UNCHANGED budget
      BY <3>1 DEF Validate
    <3>2. CASE \/ PrepareStage \/ AngularUpdate \/ UpdateSucceeded \/ UpdateFailed
               \/ FreezePrompt \/ TargetInspection \/ VersionVerify
      BY <3>2 DEF PrepareStage, AngularUpdate, UpdateSucceeded, UpdateFailed, FreezePrompt,
                  TargetInspection, VersionVerify
    <3>3. CASE \/ AggregateValidation \/ UnsupportedNode \/ ClassifyRepairable
               \/ ClassifyTransient \/ ClassifyDirty \/ ClassifyHold
      BY <3>3 DEF AggregateValidation, UnsupportedNode, ClassifyRepairable, ClassifyTransient,
                  ClassifyDirty, ClassifyHold
    <3>4. CASE \/ ProposeRepair \/ ReviewRepair \/ CreateG10 \/ ClaimApply \/ ApplyPatch
               \/ CommitApply
      BY <3>4 DEF ProposeRepair, ReviewRepair, CreateG10, ClaimApply, ApplyPatch, CommitApply
    <3>5. CASE \/ AngularUpdateRetry \/ LockfileGeneration \/ StartRevalidation
      BY <3>5 DEF AngularUpdateRetry, LockfileGeneration, StartRevalidation
    <3>6. CASE \/ CopySeal \/ CommitSeal \/ MaterializeNextStage \/ CompleteRun
      BY <3>6 DEF CopySeal, CommitSeal, MaterializeNextStage, CompleteRun
    <3> QED
      BY <2>1, <3>1, <3>2, <3>3, <3>4, <3>5, <3>6 DEF Nodes
  <2>2. CASE Wake \/ Crash
    BY <2>2 DEF Wake, Crash
  <2>3. CASE Commands
    <3>1. PICK k \in DOMAIN execs : CommandWrites(k) \/ CommandEnds(k) \/ PromptCaptured(k)
      BY <2>3 DEF Commands
    <3> QED
      BY <3>1 DEF CommandWrites, CommandEnds, PromptCaptured
  <2>4. CASE Humans
    <3>1. ASSUME NEW g \in Gates, ApproveGate(g) \/ RejectGate(g)
          PROVE  UNCHANGED budget
      BY <3>1 DEF ApproveGate, RejectGate
    <3>2. ASSUME NEW approve \in BOOLEAN, DecideG10(approve)
          PROVE  UNCHANGED budget
      BY <3>2 DEF DecideG10
    <3> QED
      BY <2>4, <3>1, <3>2 DEF Humans, DecidePrompt, RequestRevision, Restart
  <2>5. CASE UNCHANGED vars
    BY <2>5 DEF vars
  <2> QED
    BY <2>1, <2>2, <2>3, <2>4, <2>5 DEF Next
<1> QED
  BY <1>1, <1>2 DEF BudgetTyped

\* Every step of the stage keeps the invariant.
LEMMA StepKeepsInv ==
  ASSUME StageInv, BudgetTyped, [Next]_vars
  PROVE  StageInv'
<1>1. CASE Nodes
  <2>1. ASSUME NEW g \in Range(Validation), Validate(g)
        PROVE  StageInv'
    BY <2>1, Groups_, ValidateKeeps
  <2>2. CASE MaterializeNextStage
    <3>1. CASE stage' = stage
      BY <2>2, <3>1, SealedMoves
    <3>2. CASE stage' # stage
      BY <2>2, <3>2, NextStageKeeps
    <3> QED
      BY <3>1, <3>2
  <2>3. CASE \/ PrepareStage \/ AngularUpdate \/ UpdateSucceeded \/ UpdateFailed
             \/ FreezePrompt \/ TargetInspection \/ VersionVerify
    BY <2>3, PrepareStageKeeps, AngularUpdateKeeps, UpdateSucceededKeeps, UpdateFailedKeeps,
       PromptsKeep, TargetInspectionKeeps, VersionVerifyKeeps
  <2>4. CASE \/ AggregateValidation \/ UnsupportedNode \/ ClassifyRepairable
             \/ ClassifyTransient \/ ClassifyDirty \/ ClassifyHold
    BY <2>4, AggregateKeeps, StandsKeep, ClassifyRepairableKeeps, TransientKeeps,
       ClassifyDirtyKeeps
  <2>5. CASE \/ ProposeRepair \/ ReviewRepair \/ CreateG10 \/ ClaimApply \/ ApplyPatch
             \/ CommitApply
    BY <2>5, ProposeRepairKeeps, ReviewRepairKeeps, CreateG10Keeps, ClaimApplyKeeps,
       ApplyPatchKeeps, CommitApplyKeeps
  <2>6. CASE AngularUpdateRetry \/ LockfileGeneration \/ StartRevalidation
    BY <2>6, AngularUpdateRetryKeeps, LockfileKeeps, RevalidationKeeps
  <2>7. CASE CopySeal \/ CommitSeal \/ CompleteRun
    BY <2>7, SealedMoves, CommitSealKeeps
  <2> QED
    BY <1>1, <2>1, <2>2, <2>3, <2>4, <2>5, <2>6, <2>7 DEF Nodes
<1>2. CASE Commands
  BY <1>2, CommandsKeep DEF Commands
<1>3. CASE Humans
  <2>1. ASSUME NEW g \in Gates, ApproveGate(g) \/ RejectGate(g)
        PROVE  StageInv'
    BY <2>1, ApproveGateKeeps, RejectGateKeeps
  <2>2. ASSUME NEW approve \in BOOLEAN, DecideG10(approve)
        PROVE  StageInv'
    BY <2>2, DecideG10Keeps
  <2> QED
    BY <1>3, <2>1, <2>2, PromptsKeep, RequestRevisionKeeps, StandsKeep DEF Humans
<1>4. CASE Wake \/ Crash
  BY <1>4, StandsKeep
<1>5. CASE UNCHANGED vars
  BY <1>5, StutterKeeps
<1> QED
  BY <1>1, <1>2, <1>3, <1>4, <1>5 DEF Next

\* The inductive invariant of the stage: whatever fails, crashes, is restarted, revised or
\* decided, the row, the commands, the steps, the attempts, the gates and the workspace fit
\* together.
THEOREM StageCorrect == Spec => [](StageInv /\ BudgetTyped)
<1>1. StageInv /\ BudgetTyped /\ [Next]_vars => (StageInv /\ BudgetTyped)'
  BY StepKeepsInv, BudgetKeeps
<1> QED
  BY InitHolds, <1>1, PTL DEF Spec

\* Every table of a stage holds what its columns allow.
THEOREM TypeCorrect == Spec => []TypeOK
<1>1. StageInv => TypeOK
  <2> SUFFICES ASSUME StageInv
               PROVE  TypeOK
    OBVIOUS
  <2>1. Lasting /\ RowFits /\ Fits(cont.node) /\ ExecsTyped /\ RestTyped
    BY DEF StageInv, Lasting
  <2>2. /\ ws \in [all : Nat, src : Nat] /\ bound \in Nat /\ stage \in 1 .. NumStages
        /\ post \in Nat /\ stage \in Nat
    BY <2>1, ConstantsAssumption DEF RestTyped
  <2>3. \A k \in DOMAIN execs : execs[k] \in Exec
    BY <2>1 DEF ExecsTyped
  <2>4. \A i \in DOMAIN attempts :
          /\ attempts[i].status \in AttemptStatuses
          /\ attempts[i].op \in Ops \cup {"none"}
          /\ attempts[i].g10 \in {"none", "pending", "approved", "rejected", "stale"}
    BY <2>1, AttemptsShape DEF RestTyped, Attempt
  <2>5. Len(seals) \in stage - 1 .. stage
    BY <2>1, <2>2 DEF Fits, JudgedFits
  <2> QED
    BY <2>1, <2>2, <2>3, <2>4, <2>5 DEF TypeOK, ExecsTyped, RestTyped, RowFits, ContRow, StepRow
<1> QED
  BY <1>1, StageCorrect, PTL

\* transformer_sealing_flow seals exactly the workspace that G11 was decided on, and final
\* install, builds and tests all passed on exactly these sources.
THEOREM SealedWasValidatedAlways == Spec => []SealedWasValidated
<1>1. StageInv => SealedWasValidated
  BY DEF StageInv, Lasting, SealsRight
<1> QED
  BY <1>1, StageCorrect, PTL

\* reconcile_superseded_attempts leaves no active repair attempt behind a seal.
THEOREM SealLeavesNothingOpenAlways == Spec => []SealLeavesNothingOpen
<1>1. StageInv => SealLeavesNothingOpen
  BY DEF StageInv, Lasting, SealsRight
<1> QED
  BY <1>1, StageCorrect, PTL

\* _apply_repair writes the files of a proposal at most once, across crashes and restarts.
THEOREM RepairAppliedOnceAlways == Spec => []RepairAppliedOnce
<1>1. StageInv => RepairAppliedOnce
  BY DEF StageInv, Lasting, PatchesSpent, RepairAppliedOnce
<1> QED
  BY <1>1, StageCorrect, PTL

\* Between the approval of G11 and the end of the stage no command, repair or restart
\* changes the workspace.
THEOREM ApprovedStaysUntouchedAlways == Spec => []ApprovedStaysUntouched
<1>1. StageInv => ApprovedStaysUntouched
  BY DEF StageInv, Fits, JudgedFits, ApprovedStaysUntouched
<1> QED
  BY <1>1, StageCorrect, PTL
=============================================================================
