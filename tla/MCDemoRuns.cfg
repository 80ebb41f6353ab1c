SPECIFICATION DemoSpec
CONSTANTS
  ref = ref
  Null = Null
  Torn = Torn
  Algo = "sha256"
  Ref <- MCRef
  Chunk <- MCChunk
  SeqNo <- MCSeqNo
  Embedded <- MCEmbedded
  DemoRef = ref
  Edits <- MCEdits
  Flip <- MCFlip
  Scenarios <- MCScenarios
  Overrides <- MCOverrides
  OpenInputs <- MCOpenInputs
  UnitInputs <- MCUnitInputs
INVARIANTS
  GoodRunsPass
  BadRunsShowOneRefusal
  DemoAnswers
PROPERTY
  RunsEnd
