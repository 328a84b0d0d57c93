------------------------------ MODULE Versions ------------------------------
(***************************************************************************)
(* timemachine/src/families and registry.rs: the entry points of the       *)
(* historical versions. A version is a record [family, era]: the era is    *)
(* the oldest minor with the same set of dialects, and matters only for    *)
(* sqlparser. Scripts and libraries are those of Adapters.                 *)
(***************************************************************************)
EXTENDS Integers, Sequences, FiniteSets, SequencesExt
Lib == INSTANCE Adapters

(* The registry, oldest first in each family, one version for each era.    *)
Registered == [i \in 1..5 |-> [family |-> "sqlparser", era |-> <<6, 7, 8, 14, 18>>[i]]]
              \o [i \in 1..6 |-> [family |-> <<"sqlglot", "polyglot", "databend", "sqlite3",
                                              "qusql", "turso">>[i], era |-> 0]]
Families == FoldLeft(LAMBDA seen, v : IF v.family \in ToSet(seen) THEN seen
                                      ELSE Append(seen, v.family), <<>>, Registered)

(* The mode a version is run in: a dialect that sqlparser does not model   *)
(* yet, or never in all eras, is parsed as generic.                        *)
SqlparserArms(era) == {"postgresql", "mysql", "tsql"}
  \cup (IF era >= 7 THEN {"sqlite"} ELSE {}) \cup (IF era >= 8 THEN {"hive"} ELSE {})
  \cup (IF era >= 14 THEN {"clickhouse"} ELSE {}) \cup (IF era >= 18 THEN {"bigquery"} ELSE {})
Mode(v, d) ==
  CASE v.family = "sqlparser" -> IF d \in SqlparserArms(v.era) THEN d ELSE "generic"
    [] v.family = "sqlglot"   -> IF d = "multi" THEN "ansi" ELSE d
    [] v.family = "polyglot"  -> IF d = "multi" THEN "generic" ELSE d
    [] v.family = "databend"  -> IF d \in {"postgresql", "mysql", "hive"} THEN d ELSE "none"
    [] v.family = "qusql"     -> CASE d = "mysql" -> "mariadb"
                                   [] d \in {"postgresql", "sqlite"} -> d
                                   [] OTHER -> "none"
    [] v.family \in {"sqlite3", "turso"} -> IF d = "sqlite" THEN d ELSE "none"
Supports(v, d) == Mode(v, d) # "none"
End(v, x, d) == Lib!Library(v.family, x, Mode(v, d)).end

(* try_parse tells a panic from a rejection by its text only.              *)
TryParse(v, x, d) == CASE ~Supports(v, d) -> "None"
                       [] Supports(v, d) /\ End(v, x, d) = "ok"    -> "Ok"
                       [] Supports(v, d) /\ End(v, x, d) = "err"   -> "reason"
                       [] Supports(v, d) /\ End(v, x, d) = "panic" -> "panicked"
Accepts(v, x, d) == TryParse(v, x, d) = "Ok"
ParseOutcome(v, x, d) == CASE TryParse(v, x, d) = "None"     -> "Unsupported"
                           [] TryParse(v, x, d) = "Ok"       -> "Accepted"
                           [] TryParse(v, x, d) = "panicked" -> "Panicked"
                           [] OTHER -> "Rejected"

(* No fallback here: an unsupported dialect is simply not parsed.          *)
ParseOnce(v, x, d) == CASE ~Supports(v, d) -> "false"
                        [] Supports(v, d) /\ End(v, x, d) = "panic" -> "abort"
                        [] OTHER -> IF End(v, x, d) = "ok" THEN "true" ELSE "false"
CanBatch(v) == v.family # "databend"
ParseBatch(v, x, d) ==
  LET r == Lib!Library(v.family, x, Mode(v, d))
  IN  CASE ~Supports(v, d) \/ ~CanBatch(v) -> -1
        [] Supports(v, d) /\ CanBatch(v) /\ r.end = "panic" -> -2
        [] OTHER -> IF r.end = "ok" \/ v.family \in {"sqlite3", "turso"} THEN r.n ELSE 0
MeasureMem(v, x, d) == CASE ~Supports(v, d) -> "None"
                         [] Supports(v, d) /\ End(v, x, d) = "panic" -> "abort"
                         [] OTHER -> "Some"

(* Every printer is guarded; polyglot prints the first statement only.     *)
CanReprint(v, d) == v.family # "qusql" /\ Supports(v, d)
Reprint(v, x, d) ==
  LET y == Lib!ToPrint(v.family, x)
  IN  IF ~CanReprint(v, d) \/ x = <<>> \/ End(v, x, d) # "ok" \/ "noprint" \in ToSet(y)
      THEN <<"None">>
      ELSE [i \in DOMAIN y |-> Lib!Printed(y[i])]
Roundtrips(v, x, d) ==
  LET first == Reprint(v, x, d)
  IN  CASE ~CanReprint(v, d) -> "None"
        [] CanReprint(v, d) /\ first = <<"None">> -> "false"
        [] OTHER -> IF Reprint(v, first, d) = first THEN "true" ELSE "false"
=============================================================================
