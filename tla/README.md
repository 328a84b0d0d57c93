# Formal models of sql_ast_benchmark

sql_ast_benchmark measures SQL parsers: what they accept, how fast, with how much
memory, and how that changed over their versions. The numbers are published, so
the ways they can silently come out wrong are what this project models: TLA+
modules translated from the Rust sources, TLC configurations that check them on
small instances, and TLAPS proofs of most of the safety results for every instance.

`tlc -config X.cfg M` checks a run of the table below, `tlapm M.tla` the proofs of
a module. PROJECT.json maps every definition to the source lines it stands for.

## The system

| component | state | operations | what is hard | what makes it correct |
|---|---|---|---|---|
| Oracle adapters (`oracle/src/main.rs`) | verdicts so far, the session or container, counters of deaths, restarts, failures in a row | probe a statement, retry, reconnect, restart, give up, abort | the server dies, the network fails, an answer is lost, a statement kills the server | a verdict "valid" rests on an answer; nothing innocent is given up lightly; all verdicts or none; it ends |
| SQLite adapter (same file) | the script, the map from its lines to statements, initial labels | screen, write, run the CLI, read its errors | one piece of text decides how the next is read; the CLI dies half way | a label is the CLI's verdict on that statement alone |
| Oracle main loop, cache writer (same file) | one `labels/{dialect}.tsv.zst` per dialect | label the dialects asked for, truncate and fill a file | errors and kills between dialects and within a file | a failed labelling leaves every file alone |
| Cache reader (`src/oracle_cache.rs`) | a process-wide `OnceLock` of maps | load all files at the first lookup | threads race to initialise it; files change meanwhile | graded against the reference = graded by one completed labelling |
| Corpus builders (`src/bin/build_*_suite*.rs`, `repair_corpus.rs`) | automata over characters and lines | extract, split, harvest, normalise, deduplicate, repair | five hand-written lexers | nothing is lost or cut, what is written reads back |
| Corpus (`src/datasets.rs`) | `datasets/` | unpack, load | an unpacking that stops half way | what is graded is whole |
| Contentious rules (`src/contentious.rs`) | a registry | mask, match | the mask is one more lexer | no literal or comment matches |
| Parser adapters (`src/lib.rs`) and their historical versions (`timemachine/src/families`, `registry.rs`) | none | outcome, timing, batch, memory, reprint, round trip | the same match over nine libraries and seven families, guarded in some entry points | the entry points agree with the verdict, and the newest version with the current build |
| Grading (`src/report.rs`, `src/export.rs`) | counters per parser and chunk | grade chunks in threads, merge, list failures | panicking parsers, uneven chunks, unsigned subtractions | every statement counted once, three passes agree |
| Batches and benches (`src/batch.rs`, `benches/`) | a pool of indices, a generator, files in `target/` | shuffle, join, count, time | one statement swallows the next | distinct indices, exact counts |
| Memory counters (`src/mem.rs`, `membench`, `measure_mem`) | LIVE, PEAK | allocate, release, reset, read | process-wide counters | a window sees only its own allocations |
| Statistics (`src/stats.rs`, `src/bench_dist.rs`) | none | quantiles, curve, mean, raw files | sizes around the limit of the curve | ordered, within the data |
| Time machine (`timemachine/src/run.rs`) | per family a memory sidecar and a timing checkpoint, the history, modification times | memory pass, timing pass, refreshes, smoke and full | kills and failing writes at any file, stale files reused | the history is current and complete, smoke timings never pass for full ones |
| Depth probe (`featurescan/src/depth.rs`) | trials kept per parser | two binary searches over child processes | children crash; nothing is really monotonic | the depths reported are boundaries |
| Source scan (`featurescan/src/scan.rs`, `lints.rs`) | counters of a visitor | visit items, record lint levels | test items nested in others, kinds of items it does not ask | what is left out is left out whole, the rest counted once |
| Regeneration and export (`bin/sqlbench.rs`, `src/export.rs`) | files under `target/` and the bundle | seven steps, then read everything | leftovers of earlier runs, a step that fails, is killed or swallows an error | what is exported was measured by this run, the time machine since it was cleared |
| Scores (`web/src/score.rs`, `badges.rs`) | none | five dimensions, blends, ranks | relative to the field, parts that drop out | no perverse incentive |
| Viewer and charts (`web/src/components.rs`, `viz/src/chart.rs`) | a table's sort, the version picked | click, pick, render | every view selects anew | the views agree |

The oracle and the benchmark meet only in the cache files: the oracle labels a
corpus with a real engine, once, and the benchmark reads the labels much later, with
the corpus perhaps edited in between. The memory pass and the timing pass of the
time machine meet only in sidecars and their modification times. So most
hazards are stale or torn files, lost answers, and steps of two processes in an
order nobody planned.

## The modules

| module | models | composes |
|---|---|---|
| `Labelling` | what an adapter promises to `write_cache`: one verdict per statement, in order, "valid" only if the engine parsed it, all or nothing | – |
| `PgLabel` | `label_postgresql`, `is_copy_to_stdout` | implements `Labelling` |
| `ChLabel` | `label_clickhouse`, `clickhouse_classify`, `parse_clickhouse_code` | implements `Labelling` |
| `RetryLabel` | `label_mysql` and `label_tsql` | implements `Labelling` |
| `SqliteScript`, `MCSqliteScript` | `label_sqlite`, `is_sqlite_balanced`, `is_sqlite_invalid`, and the sqlite3 CLI (external) | – |
| `OracleCache`, `MCOracleCache` | `main`, `write_cache`, `oracle_cache.rs`, the reference mode of `grade_dialect` and `grade_chunk` | the oracle process, the grading threads of a benchmark, an editor of the corpus |
| `TimeMachine`, `MCTimeMachine` | `run_timing`, `run_memory`, `run_memory_refresh`, `run_refresh`, `cached_timing`, the reading and writing of their files | a sequence of passes, kills, a user who deletes sidecars |
| `DepthProbe` | `run_parent`, `analyze`, `boundary`, `probe` | – |
| `CorpusText` | the splitters, extractors and repairs of the corpus builders, over tokens | – |
| `Contentious` | `mask`, `duplicate_columns`, `classify` | – |
| `Adapters` | `BenchParser`: which mode each parser runs in, and its entry points | the parser libraries (external) |
| `Versions` | the registry and the entry points of the historical versions | the libraries of `Adapters` |
| `Loops` | – ; the loops of the next two: push what meets a condition, sum up | – |
| `Grading` | `grade_chunk`, `grade_dialect`, merging, coverage, failures, metrics | `Loops` |
| `Measures` | batches, benches, memory windows, statistics; the sizes of a batch and of a curve are its CONSTANTS | `Loops` |
| `FeatureScan` | the syntax visitor, the lint levels | – |
| `Score` | scores, ranks, badge colours | – |
| `Viewer` | tables and their sorting, trends, overview, axes | – |
| `Feeding` | – ; how the modules above from `CorpusText` on, which keep no state between calls, get their input | – |
| `Algorithms` | – ; properties of what the benchmark computes | `Feeding`, `Adapters`, `Versions`, `Grading`, `Measures` |
| `Tools` | – ; properties of the programs around it, and which inputs they can get (`Fits`) | `Feeding`, `CorpusText`, `Contentious`, `FeatureScan`, `Score`, `Viewer` |
| `Regen` | `run_regen` and the seven programs it starts, `export::run`, `badgegen` | – |
| `SqlitePipes` | the writer thread, the two pipes and the wait of `label_sqlite` | – |
| `Benchmark` | one system of `Algorithms`, `Regen` and `SqlitePipes`, with their liveness | those three |
| `MCBenchmark` | – ; the alphabets and bounds | `Benchmark` and `Tools` |
| `PgLabelProofs`, `ChLabelProofs`, `RetryLabelProofs`, `SqliteScriptProofs`, `OracleCacheProofs`, `TimeMachineProofs`, `DepthProbeProofs` | theorems and proofs about the module they are named for | – |
| `BenchmarkProofs` | theorems and proofs about `Regen`, `SqlitePipes`, `Grading`, `Adapters`, `Versions` and `Measures`, as parts of `Benchmark` | – |

`Algorithms` and `Tools` are two modules for the sake of the proofs: every obligation
about a module carries the definitions of all it instantiates, and only the first is proved about.

How they correspond to the code:

* **PgLabel.** `corpus` says of each statement whether the grammar accepts it,
  whether `is_copy_to_stdout` matches its text, and whether a probe of it ends the
  session. `pc` is the place in the two nested loops: "connect" is the head of
  `'session`, "probe" the head of the inner loop. A probe is one action per outcome:
  `Answer` and `ServerTrouble` (an SQLSTATE; 42601 is the grammar's "no"),
  and the arms of `NoSqlState`: `CopyToStdout`, `Retry`, `Death`. A death is
  `Death` (count it, reconnect) or `Poison` (the second at this statement: record
  "invalid", reconnect). `Reconnect` counts and tests the cap *after* the verdict is
  pushed, as the code does. `how` and `failed` are history variables.
* **ChLabel.** The same shape over HTTP: up to `MaxAttempts` posts of a query, then
  `Unreachable` (retry while the container lives, `Crash` or `Poison` once it is
  found dead).
* **RetryLabel.** `SetText` and `Answer` are the two requests of a MySQL probe,
  with `q` the session variable `@q`; SQL Server has only the second. `engine`
  selects the adapter.
* **Labelling** maps from them with `labels` empty once they abort (`?` drops the
  vector) and `textual` the statements that may be called valid without having been
  parsed: the COPYs for PostgreSQL, and all of them where the server answers with
  errors of its own that the adapter counts as "parsed".
* **SqliteScript.** A statement is a short sequence of tokens: quotes, brackets,
  comment openers and closers, an ordinary character. `Scan` is the code's
  automaton, `CliScan` the CLI's. The CLI reads one line per step, executes a piece
  when its terminator is outside of literals, and reports the *first line* of a
  piece that fails; `Label` maps those lines back through `batch`.
* **OracleCache.** The labelling of a dialect is one step here (its insides are
  the modules above): it delivers any verdicts at all, or fails; how far verdicts are the
  engine's is what the modules of the adapters say, and the disagreements below. `said`
  records the labellings that were completed. `Create` truncates, `FinishFile` completes. Killing
  the oracle between any two steps is `EndOracle`. On the other side `once` is the
  `OnceLock`, `loading` what its initialiser has still to read, and a grading thread
  goes through `HasReference` and `Grade`. A torn file does not decode, so its dialect
  has no reference.
* **TimeMachine.** A measurement is the number of the pass that took it. `Write`
  is `fs::write`: `Truncate`, then `Fill`, with a kill or an error possible in
  between. `memNewer` is the order of the two modification times of a family.
  `Fresh` is `cached_timing`, `Add` the checkpoint kept in memory, `Publish`
  `write_combined`.
* **DepthProbe.** `outcome` is what the children of the current parser do at each
  depth: any function at all. `cache` is the map inside the loop over parsers. Each
  iteration of `boundary` is a step, and `pc` says which search runs.
* **CorpusText, Contentious.** The automata of the builders, one step for each token
  or line. A token is what they tell apart: a quote, a comment opener, a terminator,
  a word of the grammar they look for, any other word. A doubled quote is a quote that
  closes and one that opens again, which is also how the code walks it.
* **Adapters, Versions.** A script is a sequence of statement kinds: what a library can
  do to a statement (parse it, print it differently, refuse, panic, print garbage, not
  print). `Mode` is the table of dialects; the entry points are match arms over it,
  with `"abort"` for a panic nobody catches. The releases of a family that share a
  table of dialects are one version.
* **Grading.** `GradeChunk` folds `GradeOne` over statements that say what each parser
  does to them; `GradeDialect` cuts into chunks for a number of threads and merges.
  `Failures` and `CoverageMatrix` are the two other passes over the same corpus; their
  loops are `Kept` (push what meets a condition) and `SumOf`.
* **Measures.** `SampleBatches` keeps the pool across batches as the code does; `JoinBatch`
  strips terminators and joins with one on a line of its own. Memory is a sequence of allocator events of a
  statement, run against the two counters.
* **FeatureScan, Score.** The visitor reads a stream of items that open and close.
  A score is of rows, one for each parser and dialect, and of the facts known of a parser,
  with every part and weight of the code: scores are integers in thousandths, and a part
  that does not apply is None.
* **Viewer.** A snapshot is the rows of one dialect, a history a sequence of releases.
  `Click` is the handler of a table header, `Sel` what `VersionHistory` makes of an
  index that may be left over from another parser. The axes are computed from what the
  code computes them from: an eCDF's from the minimum and the p99, although its curve is
  drawn to the largest sample.
* **Regen.** `rpc` is the program that runs, each writes its files one at a time, and
  `Fail` stops at any of them, as an error or a kill. Where the code ignores a failed write
  (raw files, memory files, sidecars, checkpoints, the history) the file is left as it was or
  cut off, `lost` notes it, and the step goes on. The two passes of the time machine skip a
  sidecar that exists and reuse a checkpoint that is no older (`SidecarStep`, `TimingStep`).
  Between runs the maintainer edits the registry of parsers, a list without repetitions,
  or clears what the time machine left (`since` is the first run after that). Every file and
  row carries the number of the run that wrote it.
* **SqlitePipes.** `Write`, `ChildStep` and `Main` are the writer thread, the process and
  the thread that drains stderr; both pipes hold `PipeSize` lines.

## The runs

| run | shows | bounds |
|---|---|---|
| `pg` | verdicts rest on what they should, the reconnect budget, refinement of `Labelling` (and with it, the end) | 3 statements of any of the 8 kinds, 2 failures a session, 3 reconnects |
| `ch` | the same for ClickHouse, and that without faults exactly the crashing statements are poisoned | 3 statements, 2 attempts, 2 failures in a row, 3 restarts |
| `retry` | MySQL and SQL Server: exact verdicts, a lost connection aborts, refinement | 4 statements, 3 failures in a row |
| `cache` | reference grading by one completed labelling, one mode per report, caches survive aborts and are about their corpus, no thread waits for ever | 2 dialects, 2 grading threads, 2 runs of the oracle, 1 edit |
| `sqlite` | each label is the CLI's verdict on that statement alone | three families of corpora: all pairs of short statements, triples, and single statements of up to 4 tokens |
| `time_machine` | memory in the history is the sidecars', no smoke timing in a full pass and none beside older rows, complete histories, refresh = full rerun, fresh work is reused | 2 families, 3 versions, 2 dialects, 3 passes, 1 kill, 1 failing write |
| `depth` | the searches end, on boundaries, that mean what is published | ceiling 7, 2 parsers, all 3^7 behaviours of each |
| `benchmark` | each algorithm, of the benchmark and of the tools, on every input up to a bound, the regeneration, the pipes; see below | `MCAlphabet`, `MCBound` (1,367,362 states, two minutes); 2 runs of regen and 1 mishap; scripts of up to 4 lines, pipes of 1 |
| `pg_copy`, `cache_drift`, `sqlite_comment`, `time_torn` | the four disagreements below | as small as shows them |

A behaviour of `benchmark` picks a tool in its initial state and exercises that one.
`Feed` appends an element that the algorithm admits to its input and every state is one
input, so the properties, which compute from the input, are checked on all of them:

| property | about | inputs |
|---|---|---|
| `SuiteReadsBack` | what the SQLite builder keeps, its own splitter reads back; TCL bodies too | 4 tokens of 10 kinds; 8 after the head of a trigger; 5 of TCL |
| `NothingIsLost` | the Spark, Oracle and PL/SQL splitters keep every word of code, in order | 4 tokens; 7 after the head of a unit |
| `RepairIsIdempotent` | a repaired corpus needs no repair, in five dialects | 4 tokens |
| `MaskHidesLiterals` | the mask blanks literals and comments, and rules see nothing of them | 4 tokens; column lists of 7 |
| `EntryPointsAgree` | the entry points of the current parsers and of the versions agree with their verdict and with each other | scripts of 3 statements of 7 kinds, all parsers and versions, all 13 dialects |
| `CorpusAddsUp` | the threads' counters are those of one pass (`ChunksAddUp`), the column sums of the coverage matrix those of the corpus, however it falls into files (`FilesAddUp`) | 3 statements, 4 threads, up to 5 files |
| `PublishedCountsAgree` | counters of one pass fit together, nothing underflows, no percentage exceeds 100 (`CountsFit`); the failure lists of another pass agree with them (`ListsFit`) | 3 statements, 1 failure shown, 2 downloaded |
| `BatchesAreWhole` | distinct statements, full counts, the same pairs timed and measured | pools of 4 statements of 8 kinds, batches of 2, 2 batches, all draws |
| `MemoryIsOwn` | a window measures its own blocks | 5 allocator events |
| `DistributionsAreSound` | quantiles, curve and mean are ordered and within the data | 5 samples, a curve of 3 points |
| `FeaturesAreOfTheLibrary` | items that are left out are left out whole, the rest is counted once; lint levels in any order | 4 lines of source, 2 lint entries |
| `ScoresAreFair` | an improvement never costs, but for the last unsafe block and the last dependency; competitors never gain; ranks and badges are ordered | 3 rows, 3 parsers, 2 dialects |
| `ViewsAgree` | tables, legends, trends, boxes and the overview show the same numbers; sorting is a sound order; trends, boxes and curves up to p99 are on their axes | 3 parsers; 3 releases of 2 dialects |
| `RegenPublishesThisRun` | a regen that succeeds publishes what this run measured and could write, and a time machine since it was cleared | all steps fail or are killed anywhere; 1 edit, clearing or write that fails |
| `ScriptIsAnswered` | the exchange with sqlite3 ends, with the errors of the whole script if labels come of it | all scripts, a process that may crash |

The bounds are the smallest at which each decision of the code has room on both
sides. Three statements let a death fall on the first, between two others, and on
the last; caps of 2 and 3 can be reached, exceeded by one, and left unreached, and
no comparison in the code depends on them being 6, 10 or 50. In `benchmark`, the bound of a lexer is the shortest input in
which two of its modes can meet with code on both sides; where a mode needs a
prologue (a trigger, a PL/SQL unit, a column list) `MCOpenings` starts in it and the
bound counts from the beginning. A curve of 3 points and batches of 2 meet their
limits with 5 samples and 4 statements. Pipes of one line fill at once, which is the
case the thread exists for. Two runs of regen and one mishap let the second run come upon the leftovers of a whole first
one, or of one that was cut off, with one thing changed in between or one file not written.
Two oracle runs and one
edit give a file older and one newer than the corpus. Three passes are a memory
pass, something that goes wrong, and a timing pass. With three versions a
refresh can list a version, its predecessor, its successor, or none of them. A
ceiling of 7 gives intervals of every parity down to the empty one.

Every constant of the code that is a cap (6 probes, 50 reconnects, 3 attempts, 10
failures) is a CONSTANT; `MaxRuns`, `MaxEdits`, `MaxMishaps`, `MaxKills`, `MaxWriteErrors` bound
the environment, not the program. `Faults` names the kinds of fault a run may meet, and the
variable `faults` picks a subset in the initial state, so one run covers the quiet
and the faulty behaviours.

`CHECK_DEADLOCK FALSE` is set everywhere: each of these programs ends, and its model
stops there. That none stops *early* is what the liveness properties say, except in
`sqlite` and `time_machine`, which make no liveness claim, and in the algorithms of
`benchmark`, which stop when their input has its bound.

### Fairness

Each adapter, and the depth probe, is one sequential task with nothing to wait for
but replies that come or time out, so it takes its next step: `WF_vars(Next)`. No
fairness is asked of any single action: whether a probe is answered stays open for
ever, and the caps of the code do the rest. In `OracleCache` only the threads of a
benchmark are fair, together (`WF_vars(ThreadStep)`): the scheduler runs some thread
that can run. The oracle and the editor may stop at any point. In `Benchmark` the two threads of
`label_sqlite` are each scheduled (`Write`, `Main`), and the process reads or
writes when it can (`ChildStep`); nothing makes it crash, and nothing makes anyone
run regen. `Labelling`'s
fairness is implied by that of the adapters, and is checked as part of the refinement.

### Disagreements between the code and what is said about it

* `pg_copy`: a COPY ... TO STDOUT is recorded as valid when its first probe ends
  without an SQLSTATE *for any reason*, so also for a dead connection and a COPY the
  grammar rejects. The comment above says a transport failure must never be recorded
  as valid.
* `cache_drift`: the first line of a cache file is there "for drift detection", and
  the reader skips it. The run labels a corpus of two statements, edits it to one, and
  grades it against the labels of the two.
* `sqlite_comment`: `is_sqlite_balanced` lets through a statement that ends in a line
  comment; its terminator is then part of the comment, it merges with the next
  statement, and a rejected statement keeps its label "valid".
* `time_torn`: a memory pass killed in the write of a sidecar leaves a torn file
  that no later pass measures again.

Also seen while modelling, without a run of their own. In the oracle and the time machine:

* every MySQL error but 1064 counts as "parsed", at the SET as at the PREPARE
  (`VerdictsExact` states how far that goes);
* a smoke memory pass leaves sidecars that the full pass skips, so smoke memory can
  reach the history (`FullTimesAreFull` is about timing only); a refresh after a smoke
  timing pass keeps the smoke timings of the versions it does not list
  (`FullTimesAreFull` says that nothing in such a history is older than they are);
* `regen` never clears `target/timemachine`: the passes of a second regen skip what the
  first one left, and publish its memory and its timings again until somebody deletes
  them (`RegenPublishesThisRun` has the exception as `TimeMachineAgrees`);
* the doc of `Parser::parse_outcome` says historical versions keep the default and their
  panic rate is not measured; every family overrides it, by comparing an error's text
  with "panicked" (`VersionsAgree` models what they do);
* an unsupported dialect is parsed in another one by the current `parse_once`, and is
  `false` for the versions; sqlparser versions run duckdb, redshift, sparksql and oracle as
  generic, unlike the current build;
* the printers of the versions are guarded, those of sqlparser and pg_query in the current
  build are not: one that panics takes the grading thread down (`CurrentAgree` has the
  exception), and `coverage_dialect` silently drops a worker that panicked.

In the corpus builders and the mask:

* comment removal in `split_spark` and `split_oracle` leaves no space and may glue
  two tokens (`NothingIsLost` is about scripts without comments); line-based lexers
  cut literals and comments that span lines; text before a QUERY-DELIMITER-START is not flushed;
* an unclosed CASE or BEGIN in `split_sql` takes the next statements in (`SuiteReadsBack`
  excludes them); `harvest_dml` strips only `BEGIN ` and `begin `;
* `mask` takes a quote in a double-quoted, backtick or bracket identifier for a literal
  (`Hidden` has the exception as `clash`), though its doc says identifiers are left intact.

In what is measured and published:

* the header of `scan.rs` (lines 6-9) says that items marked `#[cfg(test)]` or `#[test]` are
  skipped. The visitor asks mods, fns and impls only: an unwrap in a constant, a trait or a
  function of a trait that is there for the tests counts as library code, and so do the files
  behind `#[cfg(test)] mod x;`, while library code under `cfg(not(test))` is skipped
  (`FeaturesAreOfTheLibrary` names what is left out and what is not, and its inputs have all
  of these but the files); unsafe functions of traits are not counted; a root's `#![allow]` after a manifest's deny still counts as banned;
* `mem_for` publishes leftovers of earlier runs for parsers `membench` passes over; a row of
  perf with nothing accepted keeps an earlier run's curve and sorts first; failure lists of
  removed pairs are never deleted; `ensure_corpus` accepts a partially unpacked corpus
  (`RegenPublishesThisRun` says what holds all the same);
* the benches and `membench` ignore the error when a raw file cannot be written, and so do the
  passes of the time machine: the run succeeds with an older file, a torn one or none
  (`lost` in `RegenPublishesThisRun`);
* a raw retained size of 0 is dropped when it is read back; `relative_log` is 0/0, a NaN that
  passes every blend, when the ends of a field differ but are both at most 1; giving up
  the last unsafe block or the last dependency can lower a parser's health (`BetterFacts`
  leaves these two out);
* the axis of an eCDF ends at 1.3 times the greatest p99 while the curve goes on to the largest
  sample, which may be off the chart (`HistoryAgrees` stops at p99);
* the guards of the charts test `f64::MAX.is_finite()`, which is true: a chart of which no low
  end is positive (memory that nobody retains) gets an axis that starts at `f64::MAX`;
  a dialect that the newest version was not measured in disappears from all trends of a
  family (`HistoryAgrees` is about those shown);
* a parser that overflows already at depth 1 is reported to crash at 2 (`CrashIsBoundary`
  has the exception); `guarded` is `crash_depth.is_none()`, without the clean rejection that
  the note in `depth.json` promises.

## What is proved

Every theorem holds for all values of the constants that satisfy the assumptions next to
their declarations. Each of these says what the code's types or literals say (a cap is
positive, there is a first version, no parser is registered twice); no theorem but
`SqliteLabels` has a hypothesis of its own. Safety is proved by an inductive invariant, one
lemma per conjunct that an action can disturb.

`PgLabelProofs`, for every corpus, streak length and cap, from `PgAssumption`
(`MaxStreak` positive) alone:

* `TypeCorrect`, `Soundness` (`VerdictsSound`), `InvalidIsEarned`
  (`InnocentInvalidEarned`), `Budget` (`ReconnectBudget`).
* The inductive invariant is `TypeOK`, the cap (`reconnects` exceeds it only when the
  labelling is aborted), and `History`, which ties the program's counters to what
  happened: each verdict has the basis that `how` says (`BasisInv`), a pending death
  stands for a whole session of failing probes of that statement (`DeathInv`), and
  `failed` counts at least the failures the counters know of (`FailedInv`). None of
  the safety properties is inductive alone: that a given-up statement failed for two
  sessions follows only from what the first death left behind in `deathIdx`.
  `ReconnectBudget` needs the lemmas about `ByBasis`: how many verdicts of a kind
  there are after one is appended.
* `SafelyImplements`: under the mapping of `ImplementsLabelling`, initial states are
  abstract ones and every step is one of `Labelling` or a stutter. An abort maps to
  `Abandon` even when the same step records a verdict, since `?` drops it. Only
  `TypeOK` is needed.

`RetryLabelProofs`, for every corpus and limit on failures in a row, from `RetryAssumption`:

* `RetryTypeCorrect`, `RetryVerdicts` (`VerdictsExact`), `RetrySafelyImplements`.
* `VerdictsExact` is not inductive: MySQL's verdict is about the text in `@q`, set by an
  earlier request that may have been repeated since. `TextInv` says that between the two
  requests `@q` is the current statement's. `StreakInv` (a labelling that goes on is below
  the limit) keeps the counter in its type.

`ChLabelProofs`, for every corpus, number of attempts, streak and cap, from `ChAssumption`:

* `ChTypeCorrect`, `ChVerdicts` (`VerdictsAccounted`), `ChPoisonOrder` (`PoisonedInOrder`),
  `ChFaultFree` (`FaultFreeExact`), `ChSafelyImplements`.
* `FaultFreeExact` takes the argument the code relies on silently. Without faults, the
  engine is only ever down at a statement that crashes it, and a pending death is of the
  current statement (`EngineInv`); so each poisoned statement has cost two restarts, and
  only the cap aborts (`RestartInv`); so the poisoned statements behind are those that
  crash (`CrashInv`). `LoopInv` says how far a labelling has come that goes on or is done.

`SqliteScriptProofs`, for corpora of any number of statements of any length, from
`ScriptAssumption`:

* `SqliteTypeCorrect`, and `SqliteLabels` (`LabelsExact`) under the hypothesis
  `CommentsLast`: only the last statement of a corpus leaves a line comment open. It is
  there because without it the property is false (the run `sqlite_comment`), and the
  corpora of the run `sqlite` satisfy it.
* First, `LexersAgree`: the code's lexer of quotes and comments and the CLI's end in the same mode on
  every text, by induction over its length. `ScriptInv` says that the script has the
  closed statements, in order, and `batch` their places; `CliInv` that the CLI enters
  every line with nothing open, that only the last line may be pending, and that the errors
  so far are those of exactly the statements it has judged and rejects.

`OracleCacheProofs`, for any dialects, corpora, edits, runs of the oracle and number of grading
threads, from `CacheAssumption`:

* `CacheTypeCorrect`, `CacheGrades` (`GradedByOneLabelling`), `CacheOneMode` (`OneMode`), and
  the action property `CacheAbort` (`AbortKeepsCaches`).
* The invariant follows a labelling from the adapter to the report. While it is written,
  `snap` and `verdicts` are a labelling of the head of `todo` that was completed (`OracleInv`).
  A whole file and a map of the process are the first verdicts of one such labelling
  (`SaidInv`), and the answer of a thread is what that map says of its chunk (`AnswerInv`).
  `ThreadInv` says that who has asked has asked of a cache that is complete and no longer
  changes, which is all of `OneMode`, and why one labelling is behind the answers of all.

`TimeMachineProofs`, for any families, versions, dialects, panics, and number of passes, kills
and failing writes, from `TimeMachineAssumption`:

* `TimeMachineTypeCorrect`, `TimeMachineMergesCurrentMemory` (`MergedMemoryIsCurrent`),
  `TimeMachineFullTimes` (`FullTimesAreFull`), `TimeMachineHistoryComplete`
  (`HistoryComplete`), `TimeMachineRefresh` (`RefreshIsFullRerun`), and the action property
  `TimeMachineResumes` (`ResumeKeepsWork`).
* What has to be carried is what modification times mean: a checkpoint that is not older than
  its sidecar has the sidecar's memory, and one that is older does not (`CheckpointInv`). This
  holds through kills only because a torn sidecar is newer too, and because what the
  running memory pass measures is in no checkpoint yet. That smoke timings are the oldest
  of a history (`TimesInv`) needs that a smoke pass gathers only its own. `JobInv`, `RunsInv`,
  `DataInv`, `PublishInv` and `FilesInv` say what the running pass may be writing, which runs are smoke
  runs, and what is in its hands, about to be published, and on disk.

`DepthProbeProofs`, for every ceiling from 2, every number of parsers and every behaviour
of their children, from `DepthAssumption`:

* `DepthTypeCorrect`, `CrashBoundary`, `LimitBoundary`, `PublishedMeaning`.
* The inductive invariant adds to `TypeOK` that the kept trials are this parser's
  (`CacheInv`) and what each search knows about its two ends (`CrashInv`,
  `LimitInv`): the upper end satisfies the predicate, the lower end does not or is
  the untried 1. The code states this as a precondition of `boundary`; the proof shows
  that `analyze` establishes it, and that monotonicity is not needed for the result
  to be *a* boundary, only for it to be *the* boundary.

`BenchmarkProofs` is about `Benchmark` as a whole, so each theorem is about its `Spec`:

* `RegenPublishes` (`RegenPublishesThisRun`), for any parsers, edits of the registry, and runs
  that fail or are killed at any step, from `RegenAssumption`. The invariant is written along
  the pipeline: once the step that writes a file is behind, the file is of this run (`DiskInv`),
  while a step works through the parsers, the rows are of those it is through with
  (`BenchInv`, `BatchInv`, `MemInv`), and what is exported is read from that (`SnapshotInv`).
  `LostInv` types what the run went on without. `TimeInv` is about what a run may reuse: a sidecar
  is of a run since the last clearing, and a checkpoint that is no older than the sidecar has
  its memory; past its step a run has a sidecar, and past the next a history that agrees with it.
  `PipelineInv` says that the registry, and so what a step has still to come to, names no
  parser twice.
* `PipesAnswerIsWhole` (`AnswerIsWhole`, the safety half of `ScriptIsAnswered`) and
  `PipesNeverStuck`, for every script and size of the pipes, from `PipesAssumption`: unless
  everything has ended, the writer, the process or the main thread can step. `PipesInv`
  says that what is written, in the pipe and read adds up to the script, and what is reported, in the
  pipe and read to the errors of the lines read.
* `GradingCorpusAddsUp` (`CorpusAddsUp`, of `GradingChunksAddUp` and `GradingFilesAddUp`) and
  `GradingPublishedCountsAgree` (`PublishedCountsAgree`, of `GradingCountsFit` and
  `GradingListsFit`), for every corpus, any parsers, number of threads and caps of the lists,
  from `FeedingAssumption`, `AlgorithmsAssumption`, `GradedAssumption` and
  `FailuresAssumption` (the preview is no longer than the download). There is no invariant but
  that a corpus is a list of statements: everything is a fold over it. Each fold is shown to be
  a closed form (`Tally`: the numbers of statements in certain sets; `KeptRun`, `SumRun` for
  lists and sums), chunks are spans of positions, and the rest is counting.
* `AdaptersEntryPointsAgree` (`EntryPointsAgree`), for every script, parser, dialect and
  historical version: that a failing statement fails the script, that batches count
  what single parses accept, and that the newest versions read as the current build does.
* `MemoryWindowsAreOwn` (`MemoryIsOwn`), for any statements and allocator events, from
  `MeasuredAssumption`, which types what the measurements are fed. Within a window, what is live
  above the base is the sum of the blocks the parse holds, and the peak above it the largest such sum
  so far (`QuietWindow`), as long as nothing in it is a first use. So the
  numbers are a function of the events alone. The rest is that a run is
  quiet: the two warm-up parses have made all first uses of the first statement, and
  counters stay warm from then on.
* `PublishedDistributionsAreSound` (`DistributionsAreSound`), for every file of samples and every
  `MaxPts`. Sorting is taken apart by rank: the k-th of a sorted sample is a sample with fewer
  than k below it and at least k that are not above it (`SortedIsKth`), so it depends only on how
  often there is what, not on the order of the file. A nearest rank is a rank of the sample and
  grows with the fraction, so quantiles stay within the data and in order, and the curve climbs;
  the mean lies between the ends because a sum of n numbers lies between n times the bounds on
  them.
* `MeasuredBatchesAreWhole` (`BatchesAreWhole`), for every list of statements, every sequence of
  draws and every size and number of batches. A shuffle keeps the pool a permutation, through any
  number of batches, so the first so many of it are distinct (`ShuffledTyped`, `BatchesTyped`).
  For the counts, `Looks` says what one token does to the number of pieces and whether the last is
  blank; two scans that look alike stay alike (`ScanAlike`); and a terminator on a line of its
  own closes any comment, whatever came before, so that the scan then looks like a new one
  (`ScanOfBetween`). Hence each statement adds to a script what it counts alone (`JoinCounts`), which
  is one, by `eligible`.

A fold over a sequence is an operator the provers know nothing of. The library defines it by a
recursive function over sets of positions; `FoldExists` shows that there is one, for any step
given as a function, from minimal elements of the well-founded order on the natural numbers, and a
lemma for each loop restates it as the list of the values the accumulator goes through. From
there induction over positions is an argument about the least one where two such lists
differ.

Only model-checked:

* liveness: that of the refinements, `LostConnectionAborts`, `BenchEnds`, `Terminates`,
  `ScriptIsAnswered` (it needs ENABLED);
* the properties of `Tools`. Three compare a text with what is made of it by a lexer of several
  modes that looks ahead, cuts words apart and glues them (`SuiteReadsBack`, `NothingIsLost`,
  `RepairIsIdempotent`), and one two such lexers (`MaskHidesLiterals`); the others rest on sorts and
  filters the provers have no definition of that they can expand (`FeaturesAreOfTheLibrary`,
  `ViewsAgree`), or on a logarithm that is tabulated and on the field of competitors that changes
  with the score (`ScoresAreFair`). In the proofs they would also carry the definitions of all
  they instantiate into every obligation.

## Abstractions

* A statement is a record of the facts the adapters can tell apart; its text appears
  only in `SqliteScript`, as tokens. Corpora have one statement per line, as
  `load_dialect` reads them.
* In `benchmark`, texts are tokens: words are classified when they are read, keywords are
  taken as whole words of one case, and width and wording are left out. Numbers are
  integers (percentages, thousandths, times in units), and where the code takes a
  logarithm the inputs are powers of two.
* The parser libraries are what they can do to a statement; that a library is deterministic
  is the one assumption on them. Regular expressions of the contentious rules are a word
  to find, syn, toml and serde are given.
* The random generator of the batches is any sequence of draws.
* `statement_hash` is taken for injective on the corpus (64 bits).
* A dialect without an adapter and one without a corpus are both `Skip`.
* The context lines of the CLI's stderr, which `parse_sqlite_err` ignores, are left out.
* Modification times are strictly ordered: two files written within the resolution of
  the clock would compare as fresh in either order.
* The passes of the time machine run one after the other, as `sqlbench regen` and
  CONTRIBUTING order them. The registry and the corpus do not change between passes.
* In the depth probe, rejected, panicked and unsupported trials are one kind: the
  code distinguishes them nowhere.

## Not modelled

Not modelled, because there is nothing for a model checker to decide:

* DuckDB's adapter, a pure map with one in-process prepare per statement;
* rendering: layout, colours, text, highlighting, printed reports, the tables of facts
  in `metadata.rs`; the encoding of snapshots and histories;
* the clock, the sweeps that make a sample of it, the standard deviation;
* the walks over directories in the corpus builders, the load of rule files and manifests.
