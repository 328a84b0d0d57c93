------------------------------ MODULE Adapters ------------------------------
(***************************************************************************)
(* src/lib.rs: the entry points of a benchmarked parser. A script is a     *)
(* sequence of statements, and a statement is what the library does with   *)
(* it: "plain" parses and prints as itself, "own" only in the dialect's    *)
(* own mode, "drifts" and "swings" print as each other, "garbled" prints   *)
(* as something that does not parse, "noprint" panics when it is printed,  *)
(* "err" does not parse, "panic" panics.                                   *)
(***************************************************************************)
EXTENDS Integers, Sequences, SequencesExt

Dialects == {"postgresql", "mysql", "sqlite", "clickhouse", "hive", "trino", "duckdb",
             "sparksql", "tsql", "oracle", "bigquery", "redshift", "multi"}
Parsers == {"sqlparser", "pg_query", "pg_summary", "qusql", "polyglot", "databend",
            "sqlglot", "sqlite3", "turso"}

(* The mode a library is run in for a dialect, "none" if it has none.      *)
SqlparserDialect(d) == CASE d \in {"trino", "multi"} -> "generic"
                         [] d = "sparksql" -> "databricks"
                         [] OTHER -> d
PolyglotDialect(d) == IF d = "multi" THEN "generic" ELSE d
SqlglotDialect(d) == IF d = "multi" THEN "ansi" ELSE d
QusqlDialect(d) == CASE d = "mysql" -> "mariadb"
                     [] d \in {"postgresql", "sqlite"} -> d
                     [] OTHER -> "none"
DatabendDialect(d) == IF d \in {"postgresql", "mysql", "hive"} THEN d ELSE "none"
Only(own, d) == IF d = own THEN d ELSE "none"
Mode(p, d) == CASE p = "sqlparser" -> SqlparserDialect(d)
                [] p = "polyglot"  -> PolyglotDialect(d)
                [] p = "sqlglot"   -> SqlglotDialect(d)
                [] p = "qusql"     -> QusqlDialect(d)
                [] p = "databend"  -> DatabendDialect(d)
                [] p \in {"pg_query", "pg_summary"} -> Only("postgresql", d)
                [] p \in {"sqlite3", "turso"} -> Only("sqlite", d)

(* The library: how many statements it gets through, and how it ends.      *)
(* Databend's takes one statement.                                         *)
Parses(s, mode) == s \in {"plain", "drifts", "swings", "garbled", "noprint"}
                   \/ (s = "own" /\ mode \in Dialects)
Library(p, x, mode) ==
  LET bad == {i \in DOMAIN x : ~Parses(x[i], mode)}
      n   == IF bad = {} THEN Len(x) ELSE Min(bad) - 1
  IN  IF p = "databend" /\ n > 0 /\ Len(x) > 1 THEN [n |-> 1, end |-> "err"]
      ELSE [n |-> n, end |-> CASE bad = {} -> "ok"
                               [] bad # {} /\ x[n + 1] = "panic" -> "panic"
                               [] OTHER -> "err"]

(* catch_outcome and parse_outcome; try_parse folds a panic into a         *)
(* rejection, and so does the default parse_outcome of the trait.          *)
CatchOutcome(end) == CASE end = "ok"    -> "Accepted"
                       [] end = "err"   -> "Rejected"
                       [] end = "panic" -> "Panicked"
ParseOutcome(p, x, d) == IF Mode(p, d) = "none" THEN "Unsupported"
                         ELSE CatchOutcome(Library(p, x, Mode(p, d)).end)
TryParse(p, x, d) == CASE ParseOutcome(p, x, d) = "Unsupported" -> "None"
                       [] ParseOutcome(p, x, d) = "Accepted"    -> "Ok"
                       [] OTHER -> "Err"
Accepts(p, x, d) == TryParse(p, x, d) = "Ok"
Supports(p, d) == TryParse(p, <<>>, d) # "None" \/ TryParse(p, <<"plain">>, d) # "None"

(* parse_once, for timing: nothing is caught, and a dialect the parser     *)
(* does not model is parsed as the one it falls back to.                   *)
Fallback(p) == IF p \in {"sqlite3", "turso"} THEN "sqlite" ELSE "postgresql"
ParseOnce(p, x, d) ==
  LET mode == IF Mode(p, d) = "none" THEN Fallback(p) ELSE Mode(p, d)
      end  == Library(p, x, mode).end
  IN  IF end = "panic" THEN "abort" ELSE IF end = "ok" THEN "true" ELSE "false"

(* parse_batch: -1 for "no such entry point", -2 for a panic. The two      *)
(* streaming parsers count up to the first error, the others all or none.  *)
CanBatch(p) == p # "databend"

\* Mutant: a dialect the parser does not model is counted with its fallback.
ParseBatchUngated(p, x, d) ==
  LET mode == IF Mode(p, d) = "none" THEN Fallback(p) ELSE Mode(p, d)
      r == Library(p, x, mode)
  IN  CASE ~CanBatch(p) -> -1
        [] CanBatch(p) /\ r.end = "panic" -> -2
        [] OTHER -> IF r.end = "ok" \/ p \in {"sqlite3", "turso"} THEN r.n ELSE 0

ParseBatch(p, x, d) ==
  LET r == Library(p, x, Mode(p, d))
  IN  IF Mode(p, d) = "none" \/ ~CanBatch(p) THEN -1
      ELSE IF r.end = "panic" THEN -2
      ELSE IF r.end = "ok" \/ p \in {"sqlite3", "turso"} THEN r.n ELSE 0

(* measure_mem and measure_mem_batch: whether there is a measurement. What *)
(* libpg_query allocates is invisible.                                     *)
MeasureMem(p, x, d) ==
  IF p \in {"pg_query", "pg_summary"} \/ Mode(p, d) = "none" THEN "None"
  ELSE IF Library(p, x, Mode(p, d)).end = "panic" THEN "abort" ELSE "Some"
MeasureMemBatch(p, x, d) == IF CanBatch(p) THEN MeasureMem(p, x, d) ELSE "None"

(* reprint: the statements printed, or <<"None">>; polyglot prints the     *)
(* first only. Those of the helpers that do not catch a panic abort.       *)
Caught(p) == p \in {"polyglot", "databend", "sqlglot", "sqlite3", "turso"}
Printed(s) == CASE s = "drifts"  -> "swings"
                [] s = "swings"  -> "drifts"
                [] s = "garbled" -> "err"
                [] OTHER -> s
CanReprint(p, d) == p \notin {"qusql", "pg_summary"} /\ Mode(p, d) # "none"
ToPrint(p, x) == IF p = "polyglot" THEN SubSeq(x, 1, 1) ELSE x
Reprint(p, x, d) ==
  LET end == Library(p, x, Mode(p, d)).end
      y   == ToPrint(p, x)
  IN  IF ~CanReprint(p, d) \/ end = "err" \/ x = <<>> THEN <<"None">>
      ELSE IF end = "panic" \/ "noprint" \in ToSet(y)
           THEN IF Caught(p) THEN <<"None">> ELSE <<"abort">>
      ELSE [i \in DOMAIN y |-> Printed(y[i])]
Roundtrips(p, x, d) ==
  LET first  == Reprint(p, x, d)
      second == Reprint(p, first, d)
  IN  IF ~CanReprint(p, d) THEN "None"
      ELSE IF first = <<"None">> THEN "false"
      ELSE IF <<"abort">> \in {first, second} THEN "abort"
      ELSE IF first = second THEN "true" ELSE "false"
=============================================================================
