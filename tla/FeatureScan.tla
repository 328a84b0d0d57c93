---------------------------- MODULE FeatureScan ----------------------------
(***************************************************************************)
(* The static scan of a parser's source (featurescan/src/scan.rs and       *)
(* lints.rs). A source file is a sequence of lines, each a record:         *)
(*   [does |-> "open", item, attr, unsafe]   an item begins                *)
(*   [does |-> "close"]                      the innermost item ends       *)
(*   [does |-> "unwrap" | "expect" | "combinator" | "panic" | "block"]     *)
(* where "combinator" is an expect that takes no message and "block" an    *)
(* unsafe block. item is "mod", "fn" (free or in an impl), "impl",         *)
(* "trait", "trait_fn" or "const", and attr is "none", "test", "cfg_test"  *)
(* or "cfg_not_test": has_cfg_test asks only whether the predicate of a    *)
(* cfg mentions test.                                                      *)
(***************************************************************************)
EXTENDS Integers, Sequences, FiniteSets
LOCAL INSTANCE SequencesExt

Counted == {"unwrap", "expect", "panic", "block", "unsafe_fns", "unsafe_impls"}
NoCounts == [c \in Counted |-> 0]

(* Whether the visitor stops at an item: a mod is asked for a cfg only     *)
(* (has_cfg_test), fns and impls for #[test], too (is_test_item), and the  *)
(* others are not asked at all.                                            *)
IsTestItem(line) ==
  \/ line.item \in {"mod", "fn", "impl"} /\ line.attr \in {"cfg_test", "cfg_not_test"}
  \/ line.item \in {"fn", "impl"} /\ line.attr = "test"

UnsafeOf(line) ==
  CASE line.unsafe /\ line.item = "fn"   -> {"unsafe_fns"}
    [] line.unsafe /\ line.item = "impl" -> {"unsafe_impls"}
    [] OTHER -> {}
Bump(counts, which) == [c \in Counted |-> counts[c] + IF c \in which THEN 1 ELSE 0]

\* Mutant: the skipped item is taken to end with the first item in it.
VisitLineShallow(s, line) ==
  CASE s.skip > 0 ->
         [s EXCEPT !.test_lines = @ + 1, !.skip = IF line.does = "close" THEN 0 ELSE @]
    [] s.skip = 0 /\ line.does = "open" /\ IsTestItem(line) ->
         [s EXCEPT !.test_lines = @ + 1, !.skip = 1]
    [] s.skip = 0 /\ line.does = "open" /\ ~IsTestItem(line) ->
         [s EXCEPT !.counts = Bump(@, UnsafeOf(line))]
    [] OTHER -> [s EXCEPT !.counts = Bump(@, {line.does} \cap Counted)]

(* The visitor, line by line: `skip` is the depth of the innermost items   *)
(* open in a skipped one, whose lines are those of tests.                  *)
VisitLine(s, line) ==
  CASE s.skip > 0 ->
         [s EXCEPT !.test_lines = @ + 1,
                   !.skip = IF line.does = "open" THEN @ + 1
                            ELSE IF line.does = "close" THEN @ - 1 ELSE @]
    [] s.skip = 0 /\ line.does = "open" /\ IsTestItem(line) ->
         [s EXCEPT !.test_lines = @ + 1, !.skip = 1]
    [] s.skip = 0 /\ line.does = "open" /\ ~IsTestItem(line) ->
         [s EXCEPT !.counts = Bump(@, UnsafeOf(line))]
    [] OTHER -> [s EXCEPT !.counts = Bump(@, {line.does} \cap Counted)]

(* scan_src over the files of a crate: a test path is left out, a file     *)
(* that does not parse has its lines counted and nothing else.             *)
EmptyScan == [counts |-> NoCounts, test_lines |-> 0, skip |-> 0, loc |-> 0,
              files |-> 0, parse_failures |-> 0]
ScanFile(s, file) ==
  IF file.test_path THEN s
  ELSE LET t == [s EXCEPT !.files = @ + 1, !.loc = @ + Len(file.lines)]
       IN  IF file.parses THEN FoldLeft(VisitLine, t, file.lines)
           ELSE [t EXCEPT !.parse_failures = @ + 1]
ScanSrc(files) ==
  LET s == FoldLeft(ScanFile, EmptyScan, files)
  IN  [counts |-> s.counts, files |-> s.files, parse_failures |-> s.parse_failures,
       code_loc |-> IF s.loc > s.test_lines THEN s.loc - s.test_lines ELSE 0]

-----------------------------------------------------------------------------
(* record: the strongest level seen of each relevant lint. A policy maps   *)
(* the lints seen to their level.                                          *)
Strength(level) == CASE level = "forbid" -> 3 [] level = "deny" -> 2
                     [] level = "warn" -> 1   [] OTHER -> 0
Relevant == {"unwrap_used", "unsafe_code"}
Record(policy, entry) ==
  IF entry.lint \notin Relevant THEN policy
  ELSE [policy EXCEPT ![entry.lint] =
          IF Strength(entry.level) >= Strength(@) THEN entry.level ELSE @]

(* collect: the manifest's tables, in the order of the names, then the     *)
(* attributes of lib.rs and of main.rs, as they stand.                     *)
Collect(entries) ==
  LET From(place) == SelectSeq(entries, LAMBDA e : e.place = place)
      ByName(s) == SortSeq(s, LAMBDA a, b : a.lint = "unsafe_code" /\ b.lint = "unwrap_used")
  IN  FoldLeft(Record, [l \in Relevant |-> ""],
               ByName(From("manifest")) \o From("lib") \o From("main"))
IsBanned(policy, lint) == policy[lint] \in {"deny", "forbid"}
=============================================================================
