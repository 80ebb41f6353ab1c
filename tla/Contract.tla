------------------------------- MODULE Contract -------------------------------
(***************************************************************************)
(* The wire shapes of the settlement contract (contract.py): which         *)
(* requests pass validation and so can reach the engine.  Everything a     *)
(* pydantic validator refuses is simply outside these sets.                *)
(*                                                                         *)
(* Data the properties do not look into are atoms: a deal reference, the   *)
(* bytes of a delivered chunk.  A digest is the pair of its algorithm and  *)
(* the chunk it was taken of, which makes hashing injective.               *)
(***************************************************************************)
EXTENDS Integers, FiniteSets

CONSTANTS Ref,       \* deal references; task_id is one of them too
          Chunk,     \* delivered byte strings
          SeqNo,     \* unit sequence numbers a caller uses
          Embedded,  \* Embedded[c]: the references that occur in the bytes of c
          Null       \* JSON null, Python None

ASSUME ContractAssumption ==
  /\ SeqNo \subseteq Nat
  /\ Embedded \in [Chunk -> SUBSET Ref]

Criterion == {"artifact_match", "checksum", "ack_received"}

Verdict == {"pass", "fail"}

(***************************************************************************)
(* hashlib's names, by what their digests look like on the wire: 64 hex    *)
(* digits, some other fixed length, or a length the caller must supply     *)
(* (the extendable-output functions).                                      *)
(***************************************************************************)
Sha256SizedAlgos == {"sha256", "sha3_256"}
OtherSizedAlgos  == {"sha512"}
ExtendableAlgos  == {"shake_128"}
AlgorithmsAvailable == Sha256SizedAlgos \cup OtherSizedAlgos \cup ExtendableAlgos

Digest(algo, chunk) == <<algo, chunk>>

\* What _require_sha256_hex lets through: 64 lowercase hex digits.
Sha256Hex == Sha256SizedAlgos \X Chunk

ExpectedMap == UNION {[S -> Sha256Hex] : S \in SUBSET SeqNo}

CommittedReference ==
  {c \in [criterion : Criterion, task_id : Ref, expected : ExpectedMap] :
     c.criterion = "artifact_match" => DOMAIN c.expected # {}}

AttestorTier == {"hash-only", "signed"}

SettleOpenIn ==
  {o \in [ref : Ref, rate : Nat, max_total : Nat, attestor : AttestorTier,
          committed_reference : CommittedReference] :
     o.committed_reference.task_id = o.ref}

\* A missing value is neither a reference nor a digest.
ASSUME NullAssumption == Null \notin Ref /\ Null \notin AlgorithmsAvailable \X Chunk

UnitIn == [seq : SeqNo, chunk : Chunk, declared_checksum : Sha256Hex \cup {Null}]

\* The stable reason tokens of the ladder.
ReasonToken ==
  {"ack", "no-ack", "checksum-null", "checksum-mismatch", "checksum-ok",
   "no-expected-hash", "no-task-id", "artifact-match", "artifact-mismatch"}

PerUnit == [seq : SeqNo, verdict : Verdict, reason : ReasonToken]

Passed(v) == v.verdict = "pass"

\* The number of verdicts in the list vs that are a pass.
VerifiedCount(vs) == Cardinality({i \in DOMAIN vs : Passed(vs[i])})
===============================================================================
