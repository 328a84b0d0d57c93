--------------------------- MODULE MCTimeMachine ---------------------------
(* Two families; the oldest version does not support the second dialect, and *)
(* at most one version of the first family panics while it is timed.         *)
EXTENDS TimeMachine

MCFamilies == <<"sqlparser-rs", "qusql-parse">>
MCDialects == {"pg", "lite"}
MCSupports == (Version \X MCDialects) \ {<<1, "lite">>}
MCPanics   == {{}} \cup {{<<"sqlparser-rs", v, "pg">>} : v \in Version}
=============================================================================
