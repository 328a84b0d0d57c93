---------------------------- MODULE MCBenchmark ----------------------------
(* The benchmark and the tools around it, with their alphabets and bounds, *)
(* for TLC.                                                                *)
EXTENDS Benchmark, Tools

MCAlphabet == [
  script  |-> {"plain", "own", "drifts", "garbled", "noprint", "err", "panic"},
  grade   |-> {[label |-> l[1], contentious |-> l[2],
                does |-> [a |-> v[1], b |-> "unsupported", c |-> v[2]]] :
                 l \in {<<"valid", TRUE>>, <<"valid", FALSE>>, <<"invalid", TRUE>>,
                       <<"miss", FALSE>>},
                 v \in {<<"stable", "rejected">>, <<"unstable", "stable">>,
                       <<"rejected", "panicked">>, <<"panicked", "stable">>}},
  regen   |-> {},
  pipes   |-> {},
  batch   |-> {<<"a">>, <<"b">>, <<"a", ";">>, <<"a", "--">>, <<"copy">>,
               <<"a", ";", "b">>, <<"bad">>, <<"lone">>},
  memory  |-> {<<"alloc", 1>>, <<"alloc", 2>>, <<"resize", 1>>, <<"resize", 3>>,
               <<"free">>, <<"lazy", 4>>, <<"next">>},
  samples |-> {0, 1, 2, 5, 9},
  suite   |-> {"w", "q", "--", "/*", "*/", " ", "nl", ";", "CASE", "END"},
  trigger |-> {"w", "q", "[", "]", " ", ";", "CASE", "BEGIN", "END"},
  tcl     |-> {"KW", "{", "}", "\\", "\"", "nl", " "},
  spark   |-> {"w", "v", "q", "START", "STOP", "--", "/*", "*/", " ", "nl", ";"},
  oracle  |-> {"w", "q", "DIR", "SLASH", "BEGIN", "INSERT", "nl", " ", ";", "--"},
  plsql   |-> {"w", "PROCEDURE", "INSERT", "SLASH", "nl", " ", ";"},
  repair  |-> {"w", "GO", "END", "ELSE", "TRANSACTION", "q", "//", ";", " ", "nl"},
  mask    |-> {"w", "x", "s", "d", "--", "/*", "*/", " ", "nl"},
  list    |-> {"w", "x", "s", "d", ",", ")"},
  scan    |-> {[does |-> "open", item |-> i[1], attr |-> i[2], unsafe |-> i[3]] :
                 i \in {<<"fn", "none", TRUE>>, <<"fn", "test", FALSE>>,
                        <<"fn", "cfg_test", TRUE>>, <<"fn", "cfg_not_test", FALSE>>,
                        <<"impl", "none", TRUE>>, <<"impl", "cfg_test", TRUE>>,
                        <<"mod", "none", FALSE>>, <<"mod", "cfg_test", FALSE>>,
                        <<"trait", "none", FALSE>>, <<"trait", "cfg_test", FALSE>>,
                        <<"trait_fn", "cfg_test", TRUE>>, <<"const", "cfg_test", FALSE>>}}
              \cup {[does |-> d] : d \in {"close", "unwrap", "combinator", "panic", "block"}},
  lints   |-> [place : {"manifest", "lib", "main"}, lint : {"unwrap_used", "unsafe_code", "x"},
               level : {"forbid", "deny", "warn", "allow"}],
  score   |-> {[parser |-> p, dialect |-> 1, reference |-> TRUE, recall_excl |-> g[1],
                recall |-> 60, accept |-> -1, fp |-> g[2], roundtrip |-> g[3],
                median |-> c[1], peak |-> c[2], retained |-> c[3], panicked |-> 3] :
                 p \in 1..3, g \in {<<70, 30, -1>>, <<-1, 0, 80>>},
                 c \in {<<-1, -1, -1>>, <<8, 64, 0>>, <<64, 64, 8>>}}
              \cup {[parser |-> p, dialect |-> 2, reference |-> FALSE, recall_excl |-> -1,
                     recall |-> -1, accept |-> g, fp |-> -1, roundtrip |-> 40,
                     median |-> c[1], peak |-> c[2], retained |-> c[2], panicked |-> 0] :
                      p \in 1..2, g \in {-1, 90}, c \in {<<1, 8>>, <<8, 0>>, <<8, 64>>}},
  table   |-> [parser : 1..2, accepted : {1, 4}, median : {-1, 5, 8}, batch : {-1, 0, 7}]
              \cup [parser : {3}, accepted : {4}, median : {-1, 8}, batch : {0, 7}],
  history |-> UNION {[ds -> {[median |-> 5, recall |-> 50, accepted |-> 3],
                             [median |-> -1, recall |-> 0, accepted |-> 0],
                             [median |-> 9, recall |-> 100, accepted |-> 8],
                             [median |-> 40, recall |-> -1, accepted |-> -1]}] :
                       ds \in {{1}, {2}, {1, 2}}}]
MCBound == [script |-> 3, grade |-> 3, batch |-> 4, memory |-> 5, samples |-> 5,
            regen |-> 0, pipes |-> 0, suite |-> 4, trigger |-> 8, tcl |-> 5, spark |-> 4,
            oracle |-> 4, plsql |-> 7,
            repair |-> 4, mask |-> 4, list |-> 7, scan |-> 4, lints |-> 2, score |-> 3,
            table |-> 3, history |-> 3]
MCOpenings == [t \in DOMAIN MCAlphabet |->
  CASE t = "trigger" -> {<<"TRIGGER", " ", "BEGIN", " ">>}
    [] t = "plsql"   -> {<<"CREATE", " ">>, <<"DECLARE", " ">>, <<"BEGIN", " ">>}
    [] t = "list"    -> {<<"using", " ", "(">>}
    [] OTHER         -> {<<>>}]
MCParsers == <<"a", "b", "c">>
MCRegenParsers == <<"p", "q">>
MCRegenEdits == {[known |-> <<"p", "q">>, accepting |-> {"q"}],
                 [known |-> <<"p">>, accepting |-> {"p"}]}
MCScripts == UNION {[1..n -> BOOLEAN] : n \in 0..4}
=============================================================================
