SPECIFICATION Spec
CONSTANTS
  r1 = r1
  r2 = r2
  c1 = c1
  c2 = c2
  Null = Null
  Ref <- MCRef
  Chunk <- MCChunk
  SeqNo <- MCSeqNo
  Embedded <- MCEmbedded
INVARIANTS
  TypeOK
  LadderSound
  CriteriaOrdered
  ReasonNamesFirstFailure
  CommitmentBinds
