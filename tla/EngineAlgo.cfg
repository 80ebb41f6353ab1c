SPECIFICATION Spec
CONSTANTS
  r1 = r1
  r2 = r2
  a = a
  b = b
  d = d
  Null = Null
  Algo = "shake_128"
  Budgets <- CutBudget
  Criteria <- OneCriterion
  Ref <- MCRef
  Chunk <- MCChunk
  SeqNo <- MCSeqNo
  Embedded <- MCEmbedded
  RefParts <- MCRefParts
  OpenInputs <- MCOpenInputs
  UnitInputs <- MCUnitInputs
INVARIANT
  AlgoFailsFast
