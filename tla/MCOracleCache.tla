--------------------------- MODULE MCOracleCache ---------------------------
(* Two dialects with an adapter, one name that is none, two statements. *)
EXTENDS OracleCache

MCDialectAll == <<"pg", "lite">>
MCImplemented == {"pg", "lite"}
MCStmts == {"s1", "s2"}
MCCorpora == {<<"s1", "s1">>, <<"s2">>}
MCArgLists == {<<"typo", "pg">>, <<"lite">>}
=============================================================================
