--------------------------- MODULE MC_RepairCalls ---------------------------
(* Instances of RepairCalls for TLC. *)
EXTENDS RepairCalls, TLC

Symmetry == Permutations(Workers) \cup Permutations(Operators)

-----------------------------------------------------------------------------
(* The proposals: up to two operations, or a unified diff, on small files. *)

Lines(words) == Text([i \in DOMAIN words |-> <<words[i]>>], "lf")

\* "a" occurs once in source, "d" twice; rxjs and jest are declared, and zone twice.
ManifestWords == << <<"dependencies", "rxjs", "6">>, <<"--force">>,
                    <<"devDependencies", "jest", "28">>,
                    <<"dependencies", "zone", "1">>, <<"devDependencies", "zone", "1">> >>

Files(eols) ==
  [p \in SafePaths |->
     CASE p = Manifest -> Text(ManifestWords, eols[2])
       [] p = "source" -> [i \in 1 .. 4 |-> [Lines(<<"a", "b", "d", "d">>)[i] EXCEPT !.eol = eols[i]]]
       [] p = "readme" -> Lines(<<"a">>)
       [] OTHER -> Absent]

MCWorkspaces == {Files(<<"lf", "lf", "lf", "lf">>), Files(<<"crlf", "crlf", "lf", "crlf">>)}

ContextOf(failure, transition, blocking, lockfile, excerpts) ==
  [failure |-> failure, transition |-> transition, blocking |-> blocking,
   lockfile |-> lockfile, excerpts |-> excerpts]

MCContexts ==
  {ContextOf("other", "evidence", "rxjs", TRUE, {"source"}),
   ContextOf("dependency", "no_evidence", "rxjs", FALSE, {}),
   ContextOf("peer_conflict", "evidence", "rxjs", TRUE, {}),
   ContextOf("peer_conflict", "no_authority", "rxjs", TRUE, {}),
   ContextOf("warning", "evidence", "zone", TRUE, {})}

Op(operation, path, old, new, section, package, version) ==
  [operation |-> operation, path |-> path, old |-> old, new |-> new, section |-> section,
   package |-> package, version |-> version, preimage |-> <<>>, intent |-> "consistent"]

Replace(path, old, new) == Op("replace_text", path, Lines(old), Lines(new), "", "", "")
Create(path, text) == Op("create_text_file", path, <<>>, text, "", "", "")
Delete(path) == Op("delete_text_file", path, <<>>, <<>>, "", "", "")
Change(section, package, version) ==
  Op("dependency_change", Manifest, <<>>, <<>>, section, package, version)
Add(section, package, version) ==
  Op("dependency_add", Manifest, <<>>, <<>>, section, package, version)
Transition == Op("dependency_transition", Manifest, <<>>, <<>>, "", "", "")

MCOperations ==
  {Replace("source", <<"a">>, <<"c">>), Replace("source", <<"c">>, <<"a">>),
   Replace("source", <<"b">>, <<"a", "b">>), Replace("source", <<"d">>, <<"a">>),
   Replace("source", <<"x">>, <<"a">>), Replace("source", <<>>, <<"a">>),
   Replace("setup", <<"a">>, <<"b">>), Replace("readme", <<"a">>, <<"b">>),
   Replace("forbidden", <<"a">>, <<"b">>), Replace(Manifest, <<"--force">>, <<"a">>),
   Create("setup", Lines(<<"a">>)), Create("setup", <<>>), Create("setup", NullText),
   Create("source", Lines(<<"a">>)),
   Delete("source"), Delete("setup"),
   Change("dependencies", "rxjs", "7"), Change("dependencies", "rxjs", "8"),
   Change("dependencies", "rxjs", "6"), Change("devDependencies", "rxjs", "7"),
   Change("dependencies", "zone", "2"), Change("dependencies", "tslib", "2"),
   Change("dependencies", "rxjs", ""), Change("scripts", "rxjs", "7"),
   Op("dependency_change", Manifest, Lines(<<"--force">>), Lines(<<"a", "b">>), "", "", ""),
   Op("dependency_change", "source", Lines(<<"a">>), Lines(<<"b">>), "", "", ""),
   Add("dependencies", "tslib", "2"), Change("devDependencies", "jest", "29"),
   Add("dependencies", "rxjs", "7"), Add("dependencies", "tslib", "url"),
   Add("peerDependencies", "tslib", "2"),
   Transition, [Transition EXCEPT !.intent = "conflicting"],
   [Transition EXCEPT !.path = "source"]}

MCWord ==
  UNION {ToSet(Words(ws[p])) : ws \in MCWorkspaces, p \in SafePaths}
    \cup {<<w>> : w \in {"a", "b", "c", "d", "x", "--force", "absent", "null"}}
    \cup {Entry(o) : o \in MCOperations}

Patch(from, to, at, old, new, complete) ==
  [from |-> from, to |-> to, at |-> at, old |-> Lines(old), new |-> Lines(new),
   complete |-> complete]

MCPatches ==
  {Patch("source", "source", 1, <<"a">>, <<"c">>, TRUE),
   Patch("source", "source", 2, <<"a">>, <<"c">>, TRUE),
   Patch("source", "source", 2, <<"b", "d">>, <<>>, FALSE),
   Patch(DevNull, "setup", 1, <<>>, <<"a">>, TRUE),
   Patch("readme", DevNull, 1, <<"a">>, <<>>, TRUE),
   Patch(DevNull, DevNull, 1, <<>>, <<>>, TRUE),
   Patch("forbidden", "source", 1, <<"a">>, <<"c">>, TRUE),
   Patch(Manifest, Manifest, 2, <<"--force">>, <<"a">>, TRUE)}

MCCandidates ==
  LET candidate(format, edits, diff, targets) ==
        [format |-> format, operations |-> edits, diff |-> diff, targets |-> targets]
  IN {candidate("operations", edits, <<>>, "supported") :
        edits \in BoundedSeq(MCOperations, 2)}
       \cup {candidate("unified_diff", <<>>, diff, "supported") : diff \in BoundedSeq(MCPatches, 2)}
       \cup {candidate("operations", <<Delete("source")>>, <<>>, "unsupported"),
             candidate("unified_diff", <<Delete("source")>>, <<>>, "supported")}
=============================================================================
