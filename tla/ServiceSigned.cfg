SPECIFICATION Spec
CONSTANTS
  r1 = r1
  r2 = r2
  a = a
  b = b
  q1 = q1
  q2 = q2
  q3 = q3
  Null = Null
  NotHex = NotHex
  Algo = "sha256"
  SeedPinned = TRUE
  MaxRestarts = 1
  PayeePubkey = "pay"
  Ref <- MCRef
  Chunk <- MCChunk
  SeqNo <- MCSeqNo
  Embedded <- MCEmbedded
  RefParts <- MCRefParts
  KeyText <- MCKeyText
  Normalize <- MCNormalize
  GoodKeys <- MCGoodKeys
  TrustedTexts <- MCTrustedTexts
  Request <- TwoRequests
  Bodies <- SignedBodies
INVARIANTS
  OnlyVouchedUnitsEnter
  SignedAnswersVerify
