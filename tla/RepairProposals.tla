--------------------------- MODULE RepairProposals --------------------------
(***************************************************************************)
(* What a model's repair proposal goes through: binding it to the files of *)
(* the workspace (_bind_proposal_candidate), validating what was bound     *)
(* (validate_proposal), the causal gate, the diff an operator is shown     *)
(* (_render_safe_diff), and the application of what was approved           *)
(* (PatchApplyService).  All of it is a function of the candidate, the     *)
(* context of the attempt and the files, so this module has no variables.  *)
(*                                                                         *)
(* A text is a sequence of lines, a line a word and its line ending.  A    *)
(* word is a tuple; the words of the manifest (package.json) that are      *)
(* <<section, package, version>> are its dependencies.  The manifests      *)
(* enumerated are valid JSON, and what json.dumps does to the rest of      *)
(* their layout is left out.  Operations have the fields of                *)
(* RepairOperationCandidate the rules look at; <<>> stands for a text and  *)
(* "" for a field that is not given.                                       *)
(***************************************************************************)
EXTENDS Integers, FiniteSets, Sequences, SequencesExt

CONSTANTS Word,          \* the words of all texts
          Workspaces,    \* workspaces: functions from paths to texts
          Contexts,      \* contexts of an attempt
          Candidates     \* what the model answers

Manifest == "package.json"
SafePaths == {Manifest, "source", "setup", "readme"}
Paths == SafePaths \cup {"forbidden"}        \* outside policy, or outside the workspace
Documentation == {"readme"}
DevNull == "/dev/null"

Eols == {"lf", "crlf", "none"}
Texts == Seq([word : Word, eol : Eols])

Absent == <<[word |-> <<"absent">>, eol |-> "none"]>>
NullText == <<[word |-> <<"null">>, eol |-> "none"]>>
FileExists(ws, path) == ws[path] # Absent

AdditionSections == {"dependencies", "devDependencies"}
DependencySections == AdditionSections \cup {"peerDependencies", "optionalDependencies"}
Operations == {"replace_text", "create_text_file", "delete_text_file", "dependency_change",
               "dependency_add", "dependency_transition"}

\* A field of an operation, "" if it is not given.
Field == {""} \cup STRING

\* An operation of a candidate, a file of a unified diff, a candidate.
Operation ==
  [operation : Operations, path : Paths, old : Texts, new : Texts, section : Field,
   package : Field, version : Field, preimage : Texts, intent : STRING]
Patched == Paths \cup {DevNull}
PatchFile == [from : Patched, to : Patched, at : Nat, old : Texts, new : Texts,
              complete : BOOLEAN]
Candidate == [format : STRING, operations : Seq(Operation), diff : Seq(PatchFile),
              targets : STRING]

\* What the context says: the failure the evidence is of, whether it and checkpoint and target
\* authorise a transition and of which package, whether the plan has the lockfile command, and
\* the files the proposer was shown in full.
Context ==
  [failure : {"none", "warning", "unnormalized", "peer_conflict", "dependency", "other"},
   transition : {"evidence", "no_evidence", "no_authority"}, blocking : STRING,
   lockfile : BOOLEAN, excerpts : SUBSET Paths]

Entry(o) == <<o.section, o.package, o.version>>
FieldsGiven(o) == "" \notin {o.section, o.package, o.version}
FieldsMissing(o) == {o.section, o.package, o.version} = {""}

ASSUME ProposalsAssumption ==
  /\ {Absent, NullText} \subseteq Texts
  /\ Workspaces \subseteq [SafePaths -> Texts]
  /\ Contexts \subseteq Context
  /\ Candidates \subseteq Candidate
  /\ \A c \in Candidates : \A i \in DOMAIN c.operations :
       FieldsGiven(c.operations[i]) => Entry(c.operations[i]) \in Word

\* The code of a check: its own if the condition holds, otherwise "ok".
Fails(condition, code) == IF condition THEN code ELSE "ok"

\* The first of several codes that is not "ok".
FirstFailure(codes) ==
  LET failed == {i \in DOMAIN codes : codes[i] # "ok"}
  IN IF failed = {} THEN "ok" ELSE codes[CHOOSE i \in failed : \A j \in failed : i <= j]

\* The code of the first of several results that failed.
FirstCode(results) == FirstFailure([i \in DOMAIN results |-> results[i].code])

-----------------------------------------------------------------------------
(* Texts. *)

Words(text) == [i \in DOMAIN text |-> text[i].word]

\* CRLF if more lines end with it than do not.
DominantNewline(text) ==
  LET crlf == {i \in DOMAIN text : text[i].eol = "crlf"}
  IN IF 2 * Cardinality(crlf) > Len(text) THEN "crlf" ELSE "lf"

Text(words, eol) == [i \in DOMAIN words |-> [word |-> words[i], eol |-> eol]]

Occurrences(words, part) ==
  Cardinality({i \in 1 .. Len(words) - Len(part) + 1 :
                 SubSeq(words, i, i + Len(part) - 1) = part})

\* replace_text_once: line endings are ignored when matching; the result has the target's.
ReplaceTextOnce(target, old, new) ==
  LET count == Occurrences(Words(target), Words(old))
      code == FirstFailure(<<
        Fails(old = <<>>, "REPAIR_REPLACEMENT_INVALID"),
        Fails(Words(old) = Words(new), "REPAIR_REPLACEMENT_NOOP"),
        Fails(count = 0, "REPAIR_REPLACEMENT_MISSING"),
        Fails(count > 1, "REPAIR_REPLACEMENT_AMBIGUOUS") >>)
  IN [code |-> code,
      text |-> IF code # "ok" THEN target
               ELSE Text(ReplaceFirstSubSeq(Words(new), Words(old), Words(target)),
                         DominantNewline(target))]

-----------------------------------------------------------------------------
(* Binding operations to the files: one mutation per path. *)

Entries(text) == {i \in DOMAIN text : Len(text[i].word) = 3}
Declared(text, package) == {i \in Entries(text) : text[i].word[2] = package}

\* DependencyAdditionPolicy: a registry package name and a registry semver expression.
PolicyAllows(o) == o.version # "url" /\ o.package # "bad name"

\* One dependency operation on the document; seen are the entries asked for so far.
DependencyStep(doc, o) ==
  LET add == o.operation = "dependency_add"
      found == Declared(doc.text, o.package)
      section == {doc.text[i].word[1] : i \in found}
      code == FirstFailure(<<
        doc.code,
        Fails(~FieldsGiven(o), "REPAIR_DEPENDENCY_INTENT_INVALID"),
        Fails(o.section \notin (IF add THEN AdditionSections ELSE DependencySections),
              "REPAIR_DEPENDENCY_SECTION_INVALID"),
        Fails(\E e \in doc.seen : e[1] = o.section /\ e[2] = o.package /\ e[3] # o.version,
              "REPAIR_DEPENDENCY_CONFLICT"),
        Fails(add /\ found # {}, "REPAIR_DEPENDENCY_ALREADY_PRESENT"),
        Fails(add /\ ~PolicyAllows(o), "REPAIR_DEPENDENCY_VERSION_INVALID"),
        Fails(~add /\ found = {}, "REPAIR_DEPENDENCY_PACKAGE_MISSING"),
        Fails(~add /\ Cardinality(found) > 1, "REPAIR_DEPENDENCY_PACKAGE_AMBIGUOUS"),
        Fails(~add /\ o.section \notin section, "REPAIR_DEPENDENCY_SECTION_MISMATCH"),
        Fails(~add /\ \A i \in found : doc.text[i].word = Entry(o),
              "REPAIR_REPLACEMENT_NOOP") >>)
      line == [word |-> Entry(o), eol |-> "lf"]
  IN [code |-> code,
      seen |-> doc.seen \cup {Entry(o)},
      text |-> CASE code # "ok" -> doc.text
                 [] code = "ok" /\ add -> Append(doc.text, line)
                 [] OTHER -> [i \in DOMAIN doc.text |-> IF i \in found THEN line
                                                        ELSE doc.text[i]]]

\* The document after each operation of the group, and the entries asked for so far.
Documents(group, current) ==
  LET after[i \in 0 .. Len(group)] == IF i = 0 THEN [code |-> "ok", seen |-> {}, text |-> current]
                                      ELSE DependencyStep(after[i - 1], group[i])
  IN after

\* The operations on the manifest: a single change without fields is a text replacement,
\* otherwise they are applied to the document one after the other.
CoalesceManifest(group, current, lockfile) ==
  LET actions == {group[i].operation : i \in DOMAIN group}
      first == group[1]
      textual == Len(group) = 1 /\ first.operation # "dependency_add" /\ FieldsMissing(first)
      replaced == ReplaceTextOnce(current, first.old, first.new)
      doc == Documents(group, current)[Len(group)]
      bound == [first EXCEPT !.old = current, !.preimage = current]
  IN [code |-> FirstFailure(<<
        Fails(first.path # Manifest, "REPAIR_DEPENDENCY_PATH_INVALID"),
        Fails(~(actions \subseteq {"dependency_change", "dependency_add"}),
              "REPAIR_OPERATION_AMBIGUOUS"),
        Fails(~lockfile, "STAGE_PLAN_COMMAND_AUTHORITY_MISSING"),
        Fails(textual /\ first.old = <<>>, "REPAIR_REPLACEMENT_PREIMAGE_REQUIRED"),
        Fails(textual, replaced.code),
        Fails(~textual, doc.code) >>),
      op |-> CASE textual -> [bound EXCEPT !.new = replaced.text]
               [] ~textual /\ Len(group) = 1 ->
                    [bound EXCEPT !.new = Text(Words(doc.text), DominantNewline(current))]
               [] OTHER ->
                    [bound EXCEPT !.new = Text(Words(doc.text), DominantNewline(current)),
                                  !.section = "", !.package = "", !.version = "",
                                  !.operation = IF "dependency_add" \in actions
                                                  THEN "dependency_add"
                                                  ELSE "dependency_change"]]

ReplaceStep(acc, o) ==
  LET next == ReplaceTextOnce(acc.text, o.old, o.new)
  IN IF acc.code = "ok" THEN next ELSE acc

\* The text after each replacement of the group.
Replacements(group, current) ==
  LET after[i \in 0 .. Len(group)] == IF i = 0 THEN [code |-> "ok", text |-> current]
                                      ELSE ReplaceStep(after[i - 1], group[i])
  IN after

\* Mutant: every replacement starts from the file, the last one wins.
CoalesceTextFromFile(group, current) ==
  LET after == ReplaceTextOnce(current, Last(group).old, Last(group).new)
  IN [code |-> after.code, op |-> [group[1] EXCEPT !.old = current, !.new = after.text,
                                                   !.preimage = current]]

\* Replacements of one file follow one another; together they are one replacement of it.
CoalesceText(group, current) ==
  LET after == Replacements(group, current)[Len(group)]
  IN [code |-> after.code,
      op |-> [group[1] EXCEPT !.old = current, !.new = after.text, !.preimage = current]]

\* The preimages of operations are taken from the files, or compared with them.
TakePreimages == TRUE
ComparePreimages == FALSE

\* The operations of one path, their preimages taken from the file (bind) or compared.
CoalesceGroup(group, ws, lockfile, bind) ==
  LET first == group[1]
      current == ws[first.path]
      actions == {group[i].operation : i \in DOMAIN group}
      creates == "create_text_file" \in actions
      deletes == "delete_text_file" \in actions
      manifest == first.path = Manifest \/ actions \cap {"dependency_change", "dependency_add"} # {}
      code == FirstFailure(<<
        Fails(actions = {"replace_text"} /\ \E i \in DOMAIN group : group[i].old = <<>>,
              "REPAIR_REPLACEMENT_PREIMAGE_REQUIRED"),
        Fails(creates /\ Len(group) # 1, "REPAIR_OPERATION_AMBIGUOUS"),
        Fails(creates /\ first.new = NullText, "REPAIR_CREATE_CONTENT_NULL"),
        Fails(creates /\ FileExists(ws, first.path), "REPAIR_CREATE_TARGET_EXISTS"),
        Fails(~creates /\ ~FileExists(ws, first.path), "REPAIR_PREIMAGE_INVALID"),
        Fails(~creates /\ ~bind /\ \E i \in DOMAIN group : group[i].preimage # current,
              "REPAIR_PREIMAGE_STALE"),
        Fails(deletes /\ ~manifest /\ Len(group) # 1, "REPAIR_OPERATION_AMBIGUOUS") >>)
  IN CASE code # "ok" -> [code |-> code, op |-> first]
       [] code = "ok" /\ creates -> [code |-> "ok", op |-> first]
       [] code = "ok" /\ ~creates /\ manifest -> CoalesceManifest(group, current, lockfile)
       [] code = "ok" /\ deletes /\ ~manifest ->
            [code |-> "ok", op |-> [first EXCEPT !.preimage = current]]
       [] OTHER -> CoalesceText(group, current)

\* The elements of s at the positions in I, in their order.
Picking(s, I) ==
  LET after[i \in 0 .. Len(s)] ==
        IF i = 0 THEN <<>> ELSE IF i \in I THEN Append(after[i - 1], s[i]) ELSE after[i - 1]
  IN after

Picked(s, I) == Picking(s, I)[Len(s)]

\* Paths in the order of their first appearance.
Distinct(paths) ==
  Picked(paths, {i \in DOMAIN paths : \A j \in 1 .. i - 1 : paths[j] # paths[i]})

PathsOf(edits) == [i \in DOMAIN edits |-> edits[i].path]

IsTransitionOp(o) == o.operation = "dependency_transition"
TransitionsIn(edits) == {i \in DOMAIN edits : IsTransitionOp(edits[i])}
HasTransition(edits) == TransitionsIn(edits) # {}

\* The operations of one path.
GroupOf(edits, path) == Picked(edits, {i \in DOMAIN edits \ TransitionsIn(edits) :
                                         edits[i].path = path})

\* The transitions, then what the group of each path was bound to.
Coalesced(transitions, unsafe, done) ==
  [code |-> FirstFailure(<<
     Fails(unsafe, "REPAIR_PATH_FORBIDDEN"),
     Fails(\E i \in DOMAIN transitions : transitions[i].path # Manifest,
           "REPAIR_DEPENDENCY_PATH_INVALID"),
     FirstCode(done) >>),
   ops |-> transitions \o [i \in DOMAIN done |-> done[i].op]]

\* _coalesce_operations: transitions first, then one operation for every path.
Coalesce(edits, ws, lockfile, bind) ==
  LET transitions == Picked(edits, TransitionsIn(edits))
      unsafe == \E i \in DOMAIN edits : edits[i].path \notin SafePaths
      groups == IF unsafe THEN <<>>
                ELSE Distinct(PathsOf(Picked(edits, DOMAIN edits \ TransitionsIn(edits))))
  IN Coalesced(transitions, unsafe,
       [i \in DOMAIN groups |-> CoalesceGroup(GroupOf(edits, groups[i]), ws, lockfile, bind)])

-----------------------------------------------------------------------------
(* The rules for a proposal as a whole. *)

FormatValid(c) == IF c.format = "operations" THEN c.operations # <<>> /\ c.diff = <<>>
                  ELSE c.operations = <<>> /\ c.diff # <<>>

\* The path a file of a unified diff stands for.
PatchPath(p) == IF p.to = DevNull THEN p.from ELSE p.to

\* _unified_diff_touched_files.
DiffFailure(diff) ==
  FirstFailure(<<
    Fails(\E i \in DOMAIN diff : {diff[i].from, diff[i].to} \ {DevNull} = {},
          "REPAIR_DIFF_INVALID"),
    Fails(\E i \in DOMAIN diff : ~({diff[i].from, diff[i].to} \subseteq SafePaths \cup {DevNull}),
          "REPAIR_PATH_FORBIDDEN"),
    Fails(\E i \in DOMAIN diff : PatchPath(diff[i]) = Manifest,
          "REPAIR_DEPENDENCY_OPERATION_REQUIRED"),
    Fails(\E i \in DOMAIN diff : ~diff[i].complete, "REPAIR_DIFF_INVALID") >>)

TransitionPackageDeclared(ws, ctx) ==
  {i \in Declared(ws[Manifest], ctx.blocking) :
     ws[Manifest][i].word[1] \in AdditionSections}

\* _bind_dependency_transition: what the candidate says may not contradict the evidence.
TransitionFailure(edits, ws, ctx) ==
  FirstFailure(<<
    Fails(Len(edits) # 1, "REPAIR_DEPENDENCY_TRANSITION_NOT_EXCLUSIVE"),
    Fails(ctx.transition = "no_authority", "REPAIR_DEPENDENCY_AUTHORITY_MISSING"),
    Fails(ctx.transition = "no_evidence", "REPAIR_DEPENDENCY_EVIDENCE_INVALID"),
    Fails(\E i \in DOMAIN edits : edits[i].intent = "conflicting",
          "REPAIR_DEPENDENCY_INTENT_INVALID"),
    Fails(Cardinality(TransitionPackageDeclared(ws, ctx)) # 1,
          "REPAIR_DEPENDENCY_PACKAGE_MISSING") >>)

\* _structural_rejection: documentation, --force in the manifest, or no change at all.
StructuralRejection(edits, touched) ==
  \/ \E i \in DOMAIN touched : touched[i] \in Documentation
  \/ \E i \in DOMAIN edits : /\ edits[i].operation \in {"replace_text", "create_text_file"}
                           /\ edits[i].path = Manifest
                           /\ \E j \in DOMAIN edits[i].new : edits[i].new[j].word = <<"--force">>
  \/ edits = <<>> /\ touched = <<>>

\* _peer_conflict_rejection: only a transition, alone, answers a peer conflict.
PeerConflictRejection(edits) == ~(Len(edits) = 1 /\ HasTransition(edits))

\* causal_rejection.
CausallyRejected(edits, touched, ctx) ==
  /\ ctx.failure \notin {"none", "warning"}
  /\ \/ StructuralRejection(edits, touched)
     \/ ctx.failure = "peer_conflict" /\ PeerConflictRejection(edits)
     \/ /\ ctx.failure = "dependency" /\ ~ctx.lockfile
        /\ Contains(touched, Manifest)

\* The proposal bound from a candidate whose operations coalesce to bound.
BoundProposal(c, ws, ctx, bound) ==
  LET patched == [i \in DOMAIN c.diff |-> PatchPath(c.diff[i])]
  IN [code |-> FirstFailure(<<
        Fails(HasTransition(c.operations) /\ (Len(c.operations) # 1 \/ c.diff # <<>>),
              "REPAIR_DEPENDENCY_TRANSITION_NOT_EXCLUSIVE"),
        Fails(~FormatValid(c), "REPAIR_PROPOSAL_FORMAT_INVALID"),
        bound.code,
        Fails(bound.ops = <<>>, DiffFailure(c.diff)),
        Fails(c.targets # "supported", "REPAIR_VALIDATION_TARGET_INVALID"),
        Fails(HasTransition(bound.ops), TransitionFailure(bound.ops, ws, ctx)) >>),
      ops |-> bound.ops, diff |-> c.diff,
      touched |-> IF bound.ops # <<>> THEN PathsOf(bound.ops) ELSE patched]

\* _bind_proposal_candidate.
Bind(c, ws, ctx) ==
  BoundProposal(c, ws, ctx, Coalesce(c.operations, ws, ctx.lockfile, TakePreimages))

\* The text of a file as _render_safe_diff shows it after the operation.
Rendered(o, ws) ==
  CASE o.operation = "create_text_file" -> o.new
    [] o.operation = "delete_text_file" -> Absent
    [] o.operation = "dependency_transition" -> ws[o.path]
    [] OTHER -> ReplaceTextOnce(ws[o.path], o.old, o.new).text

Replacing == {"replace_text", "dependency_change", "dependency_add"}

RenderFailure(edits, ws) ==
  LET unchanged == \A i \in DOMAIN edits :
                     ~IsTransitionOp(edits[i]) /\ Rendered(edits[i], ws) = ws[edits[i].path]
      replaced == [i \in DOMAIN edits |->
                     Fails(edits[i].operation \in Replacing,
                           ReplaceTextOnce(ws[edits[i].path], edits[i].old, edits[i].new).code)]
  IN FirstFailure(<<FirstFailure(replaced), Fails(unchanged, "REPAIR_EMPTY_DIFF")>>)

\* The rules for a bound proposal whose operations coalesce to again.
ValidatedProposal(b, ws, ctx, again) ==
  LET given == b.ops # <<>>
  IN [code |-> FirstFailure(<<
        b.code,
        Fails(given, again.code),
        Fails(given /\ Distinct(b.touched) # PathsOf(again.ops),
              "REPAIR_TOUCHED_FILES_MISMATCH"),
        Fails(~given /\ Distinct(b.touched) # b.touched, "REPAIR_PATH_DUPLICATE"),
        Fails(given, RenderFailure(again.ops, ws)),
        Fails(CausallyRejected(again.ops, b.touched, ctx), "REPAIR_CAUSAL_REJECTION") >>),
      ops |-> again.ops, diff |-> b.diff]

\* validate_proposal on what was bound, whose operations are coalesced once more.
Validate(b, ws, ctx) ==
  ValidatedProposal(b, ws, ctx, Coalesce(b.ops, ws, ctx.lockfile, ComparePreimages))

Judge(c, ws, ctx) == Validate(Bind(c, ws, ctx), ws, ctx)

-----------------------------------------------------------------------------
(* What a rejection means for the proposer. *)

SemanticRetryCodes ==
  {"REPAIR_REPLACEMENT_MISSING", "REPAIR_REPLACEMENT_AMBIGUOUS", "REPAIR_PREIMAGE_STALE",
   "REPAIR_CAUSAL_REJECTION", "REPAIR_DEPENDENCY_INTENT_INVALID",
   "REPAIR_DEPENDENCY_SECTION_MISMATCH", "REPAIR_REPLACEMENT_PREIMAGE_REQUIRED",
   "REPAIR_DEPENDENCY_TRANSITION_NOT_EXCLUSIVE", "REPAIR_CREATE_TARGET_EXISTS",
   "REPAIR_CREATE_CONTENT_NULL"}

HydratedCodes == {"REPAIR_REPLACEMENT_MISSING", "REPAIR_REPLACEMENT_PREIMAGE_REQUIRED",
                  "REPAIR_CREATE_TARGET_EXISTS"}

\* _hydrate_semantic_retry_context: the files the retry is to be shown, if there are any.
Hydration(c, ws, ctx) ==
  LET at(op) == {c.operations[i].path : i \in {j \in DOMAIN c.operations :
                                                 c.operations[j].operation = op}}
      edited == at("replace_text") \cup at("create_text_file")
      needed == (at("replace_text") \ ctx.excerpts)
                  \cup {p \in at("create_text_file") \cap SafePaths : FileExists(ws, p)}
  IN CASE ~(edited \subseteq SafePaths) -> "invalid"
       [] edited \subseteq SafePaths /\ needed = {} -> "none"
       [] OTHER -> IF \A p \in needed : FileExists(ws, p) THEN "hydrated" ELSE "invalid"

\* _semantic_retry_feedback: what the feedback of the retry is worded from.
FeedbackFrom(code) ==
  CASE code = "REPAIR_DEPENDENCY_TRANSITION_NOT_EXCLUSIVE" -> "code"
    [] code \in {"REPAIR_REPLACEMENT_MISSING", "REPAIR_CREATE_TARGET_EXISTS",
                 "REPAIR_DEPENDENCY_SECTION_MISMATCH"} -> "message"
    [] OTHER -> "default"

\* What propose makes of a candidate judged with this code.
OutcomeOf(code, c, ws, ctx) ==
  LET hydration == IF code \in HydratedCodes THEN Hydration(c, ws, ctx) ELSE "none"
  IN CASE code = "ok" -> "valid"
       [] code # "ok" /\ (code \notin SemanticRetryCodes \/ hydration = "invalid") -> "fatal"
       [] OTHER -> IF hydration = "hydrated" THEN "context" ELSE FeedbackFrom(code)

\* The outcome of propose for a candidate: "valid", "fatal", or the class of its retry.
Outcome(c, ws, ctx) == OutcomeOf(Judge(c, ws, ctx).code, c, ws, ctx)

Outcomes == {Outcome(c, ws, ctx) : c \in Candidates, ws \in Workspaces, ctx \in Contexts}

-----------------------------------------------------------------------------
(* Applying what was approved. *)

\* Without a context the lockfile command counts as part of the plan.
LockfileAssumed == TRUE

\* _prepare_operations: the operations are coalesced a third time, without a context.
PrepareOperations(edits, ws) ==
  LET bound == Coalesce(edits, ws, LockfileAssumed, ComparePreimages)
      written == Picked(bound.ops, DOMAIN bound.ops \ TransitionsIn(bound.ops))
  IN [code |-> bound.code,
      changes |-> [i \in DOMAIN written |->
        LET o == written[i]
        IN [path |-> o.path,
            content |-> IF o.operation = "delete_text_file" THEN Absent ELSE o.new,
            preimage |-> IF o.operation = "create_text_file" THEN Absent ELSE o.preimage]]]

\* _prepare_unified_diff: the file must exist, and a removed file is written, not deleted.
PrepareUnifiedDiff(diff, ws) ==
  LET target(p) == ws[PatchPath(p)]
      matches(p) == /\ p.at + Len(p.old) - 1 <= Len(target(p))
                    /\ SubSeq(Words(target(p)), p.at, p.at + Len(p.old) - 1) = Words(p.old)
      patched(p) == SubSeq(target(p), 1, p.at - 1) \o p.new
                      \o SubSeq(target(p), p.at + Len(p.old), Len(target(p)))
  IN [code |-> FirstFailure(<<
        Fails(\E i \in DOMAIN diff : ~FileExists(ws, PatchPath(diff[i])), "FileNotFoundError"),
        Fails(\E i \in DOMAIN diff : ~matches(diff[i]), "REPAIR_DIFF_STALE") >>),
      changes |-> [i \in DOMAIN diff |-> [path |-> PatchPath(diff[i]),
                                          content |-> patched(diff[i]),
                                          preimage |-> target(diff[i])]]]

Prepare(v, ws) == IF v.ops # <<>> THEN PrepareOperations(v.ops, ws)
                  ELSE PrepareUnifiedDiff(v.diff, ws)

\* Another process writes a file just before the step-th write, or after the last one; 0: never.
Aliens(changes) ==
  [step : 0 .. Len(changes) + 1, path : SafePaths,
   text : {Absent, Text(<< <<"alien">> >>, "lf")}]

Disturbed(ws, alien, step) == IF alien.step = step THEN [ws EXCEPT ![alien.path] = alien.text]
                              ELSE ws

\* One write of _apply_locked: the preimage is compared again just before.
ApplyChange(acc, change, alien) ==
  LET found == Disturbed(acc.ws, alien, acc.step)
      stale == acc.failed \/ found[change.path] # change.preimage
  IN [step |-> acc.step + 1,
      failed |-> stale,
      ws |-> IF stale THEN found ELSE [found EXCEPT ![change.path] = change.content]]

\* expected_manifest: the changes are of different files.
Overlay(ws, changes) ==
  [p \in SafePaths |->
     IF \E i \in DOMAIN changes : changes[i].path = p
       THEN changes[CHOOSE i \in DOMAIN changes : changes[i].path = p].content
       ELSE ws[p]]

\* Mutant: only the files written before the failing one are put back.
RollBackWritten(ws, found, changes) ==
  [p \in SafePaths |-> IF \E i \in DOMAIN changes :
                            changes[i].path = p /\ found[p] = changes[i].content
                       THEN ws[p] ELSE found[p]]

\* The files to be changed as they were, whether written yet or not.
RollBack(ws, found, changes) ==
  [p \in SafePaths |-> IF \E i \in DOMAIN changes : changes[i].path = p THEN ws[p] ELSE found[p]]

\* The writes one after the other.
Writes(changes, ws, alien) ==
  LET after[i \in 0 .. Len(changes)] ==
        IF i = 0 THEN [step |-> 1, failed |-> FALSE, ws |-> ws]
        ELSE ApplyChange(after[i - 1], changes[i], alien)
  IN after

\* _apply_locked: afterwards the workspace is as expected, or the changes are rolled back.
ApplyLocked(changes, ws, alien) ==
  LET written == Writes(changes, ws, alien)[Len(changes)]
      found == Disturbed(written.ws, alien, Len(changes) + 1)
      applied == ~written.failed /\ found = Overlay(ws, changes)
  IN [applied |-> applied, ws |-> IF applied THEN found ELSE RollBack(ws, found, changes)]

-----------------------------------------------------------------------------
(* What the proposals that pass are to be applied as. *)

\* The proposals that pass, with the files they were judged against.
Accepted ==
  {a \in {[c |-> c, ws |-> ws, ctx |-> ctx] :
            c \in Candidates, ws \in Workspaces, ctx \in Contexts} :
     Judge(a.c, a.ws, a.ctx).code = "ok"}

\* What the candidate's operations mean, one after the other, each on its own.
Meant(words, o) ==
  CASE o.operation = "replace_text" \/ (o.operation = "dependency_change" /\ FieldsMissing(o)) ->
         {ReplaceFirstSubSeq(Words(o.new), Words(o.old), words)}
    [] o.operation = "dependency_change" /\ FieldsGiven(o) ->
         {ReplaceAll(words, e, Entry(o)) :
            e \in {f \in ToSet(words) : Len(f) = 3 /\ f[2] = o.package}}
    [] o.operation = "dependency_add" -> {Append(words, Entry(o))}
    [] o.operation = "create_text_file" -> {Words(o.new)}
    [] o.operation = "delete_text_file" -> {Words(Absent)}
    [] OTHER -> {words}

MeantStep(texts, o, path) ==
  IF o.path = path THEN UNION {Meant(words, o) : words \in texts} ELSE texts

MeantAfter(edits, ws, path) ==
  LET after[i \in 0 .. Len(edits)] == IF i = 0 THEN {Words(ws[path])}
                                      ELSE MeantStep(after[i - 1], edits[i], path)
  IN after

MeantAll(edits, ws, path) == MeantAfter(edits, ws, path)[Len(edits)]

\* What PatchApplyService makes of an accepted proposal, if nobody interferes.
AfterApply(a, v) == Overlay(a.ws, Prepare(v, a.ws).changes)

\* The files after the apply of v are what a's operations mean and what was shown of them.
AsProposed(a, v, after) ==
  /\ Prepare(v, a.ws).code = "ok"
  /\ \A p \in SafePaths : MeantAll(a.c.operations, a.ws, p) = {Words(after[p])}
  /\ \A i \in DOMAIN v.ops : Rendered(v.ops[i], a.ws) = after[v.ops[i].path]
  /\ \A p \in SafePaths : FileExists(a.ws, p) /\ FileExists(after, p) =>
       after[p] = a.ws[p] \/ \A i \in DOMAIN after[p] :
                               after[p][i].eol = DominantNewline(a.ws[p])

JudgedAsProposed(a, v) == AsProposed(a, v, AfterApply(a, v))

AppliesAsProposed(a) == JudgedAsProposed(a, Judge(a.c, a.ws, a.ctx))

\* Whoever writes while the changes are applied, all of them are in place or none is.
AllOrNothing(a, prepared) ==
  LET changes == prepared.changes
      Changed(p) == \E i \in DOMAIN changes : changes[i].path = p
  IN prepared.code = "ok" =>
       \A alien \in Aliens(changes) :
         LET end == ApplyLocked(changes, a.ws, alien)
         IN IF end.applied THEN end.ws = Overlay(a.ws, changes)
            ELSE \A p \in SafePaths :
                   \/ end.ws[p] = a.ws[p]
                   \/ p = alien.path /\ end.ws[p] = alien.text /\ ~Changed(p)

AppliesAllOrNothing(a) == AllOrNothing(a, Prepare(Judge(a.c, a.ws, a.ctx), a.ws))

\* Accepted proposals for which one of the two fails.
Misapplied == {a \in Accepted : a.c.operations # <<>> /\ ~AppliesAsProposed(a)}
PartlyApplied == {a \in Accepted : ~AppliesAllOrNothing(a)}
=============================================================================
