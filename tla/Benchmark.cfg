CONSTANTS
  Alphabet <- MCAlphabet
  Bound <- MCBound
  Openings <- MCOpenings
  Admits <- Fits
  AllParsers <- MCParsers
  Unsupporting = {"b"}
  Printers = {"a"}
  FailPreview = 1
  FailCap = 2
  MaxThreads = 4
  BatchM = 2
  BatchK = 2
  MaxPts = 3
  RegenParsers <- MCRegenParsers
  RegenVisible = {"p"}
  RegenEdits <- MCRegenEdits
  MaxRuns = 2
  MaxMishaps = 1
  Scripts <- MCScripts
  PipeSize = 1
SPECIFICATION Spec
INVARIANTS EntryPointsAgree CorpusAddsUp PublishedCountsAgree BatchesAreWhole MemoryIsOwn DistributionsAreSound RegenPublishesThisRun SuiteReadsBack NothingIsLost RepairIsIdempotent MaskHidesLiterals FeaturesAreOfTheLibrary ScoresAreFair ViewsAgree
PROPERTIES ScriptIsAnswered
CHECK_DEADLOCK FALSE
