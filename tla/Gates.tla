--------------------------------- MODULE Gates ---------------------------------
(***************************************************************************)
(* The verification ladder of gates.py: L1 (the unit arrived), L2 (its     *)
(* bytes match the checksum it declares), L3 (they are the bytes the buyer *)
(* committed to, and name the deal).  evaluate_unit climbs as far as the   *)
(* criterion asks and stops at the first rung that fails.                  *)
(***************************************************************************)
EXTENDS Contract

\* hashlib.new(algo, chunk).hexdigest() without a length: TypeError for an XOF.
DigestRaises(algo) == algo \in ExtendableAlgos

DigestHex(algo, chunk) == Digest(algo, chunk)

\* Mutant of GateResult: free text instead of a token for what was refused.
GateResultFreeText(passed, reason) ==
  [passed |-> passed, reason |-> IF passed THEN reason ELSE "the unit was refused"]

GateResult(passed, reason) == [passed |-> passed, reason |-> reason]

\* Mutant of L1Ack: arrival taken for granted.
L1AckAssumed(ctx) == TRUE

L1Ack(ctx) == ctx.ack_received

\* Mutant of L2Checksum: sha256 whatever the engine's digest is.
L2ChecksumSha256(ctx, algo) ==
  ctx.declared_checksum # Null /\ DigestHex("sha256", ctx.chunk) = ctx.declared_checksum

L2Checksum(ctx, algo) ==
  /\ ctx.declared_checksum # Null
  /\ DigestHex(algo, ctx.chunk) = ctx.declared_checksum

\* Mutant of L3ArtifactMatch: the committed hash will do, whichever deal the bytes name.
L3ArtifactMatchAnyDeal(ctx, expected_sha256, task_id) ==
  Digest("sha256", ctx.chunk) = expected_sha256

\* External: nest_core's artifact_match, sha256 whatever the L2 algorithm is.
L3ArtifactMatch(ctx, expected_sha256, task_id) ==
  /\ Digest("sha256", ctx.chunk) = expected_sha256
  /\ task_id \in Embedded[ctx.chunk]

\* Mutant of EvaluateUnit: artifact_match goes straight to the committed hash.
EvaluateUnitSkipsL2(ctx, criterion, expected_sha256, task_id, algo) ==
  IF criterion = "ack_received" THEN GateResult(L1Ack(ctx), "ack")
  ELSE IF criterion = "checksum" THEN GateResult(L1Ack(ctx) /\ L2Checksum(ctx, algo), "checksum-ok")
  ELSE GateResult(L1Ack(ctx) /\ L3ArtifactMatch(ctx, expected_sha256, task_id), "artifact-match")

EvaluateUnit(ctx, criterion, expected_sha256, task_id, algo) ==
  IF ~L1Ack(ctx) THEN GateResult(FALSE, "no-ack")
  ELSE IF criterion = "ack_received" THEN GateResult(TRUE, "ack")
  ELSE IF ctx.declared_checksum = Null THEN GateResult(FALSE, "checksum-null")
  ELSE IF ~L2Checksum(ctx, algo) THEN GateResult(FALSE, "checksum-mismatch")
  ELSE IF criterion = "checksum" THEN GateResult(TRUE, "checksum-ok")
  ELSE IF expected_sha256 = Null THEN GateResult(FALSE, "no-expected-hash")
  ELSE IF task_id = Null THEN GateResult(FALSE, "no-task-id")
  ELSE IF L3ArtifactMatch(ctx, expected_sha256, task_id)
       THEN GateResult(TRUE, "artifact-match")
  ELSE GateResult(FALSE, "artifact-mismatch")

\* The digest is only taken on the way past the null check.
EvaluateRaises(ctx, criterion, algo) ==
  /\ L1Ack(ctx)
  /\ criterion # "ack_received"
  /\ ctx.declared_checksum # Null
  /\ DigestRaises(algo)
================================================================================
