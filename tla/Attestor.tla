-------------------------------- MODULE Attestor --------------------------------
(***************************************************************************)
(* Keys and signatures (signing.py) and the tier guard that runs before a  *)
(* unit may reach the engine (attestor.py).  Ed25519 is ideal: a signature *)
(* is the pair of the key that made it and the message it covers, and      *)
(* anything else a caller sends as one is NotHex or a pair that does not   *)
(* fit.  A public key travels as text; two spellings of one key differ in  *)
(* case and blanks, which Normalize removes.                               *)
(***************************************************************************)
EXTENDS Contract

CONSTANTS KeyText,      \* public keys as they may be spelled
          Normalize,    \* strip and lowercase: KeyText -> KeyText
          GoodKeys,     \* normalized texts that decode to 32 bytes
          TrustedTexts, \* the configured allow-list, as spelled
          PayeePubkey,  \* as spelled, or Null
          NotHex        \* a signature field that is not hex

ASSUME AttestorAssumption ==
  /\ Normalize \in [KeyText -> KeyText]
  /\ \A t \in KeyText : Normalize[Normalize[t]] = Normalize[t]
  /\ GoodKeys \subseteq {Normalize[t] : t \in KeyText}
  /\ TrustedTexts \subseteq KeyText
  /\ PayeePubkey \in KeyText \cup {Null}

SignBytes(key, message) == [key |-> key, over |-> message]

Verifies(key, sig, message) == sig = SignBytes(key, message)

VerdictMessage(receipt, trace) == [receipt |-> receipt, trace |-> trace]

SignVerdict(key, receipt, trace) == SignBytes(key, VerdictMessage(receipt, trace))

\* False, never an error, for whatever is not this key's signature of this verdict.
VerifyVerdict(key, sig, receipt, trace) ==
  sig # NotHex /\ Verifies(key, sig, VerdictMessage(receipt, trace))

AttestationMessage(ref, unit) == [ref |-> ref, unit |-> unit]

\* What the party that vouches for a delivery makes.
SignAttestation(key, ref, unit) ==
  [signer_pubkey |-> key, sig |-> SignBytes(key, AttestationMessage(ref, unit))]

TrustedKeys == {Normalize[t] : t \in TrustedTexts}

Decision(cleared, reason) == [cleared |-> cleared, reason |-> reason]

\* Mutant of ClearForRelease: the signature is checked, the allow-list is not.
ClearForReleaseAnySigner(tier, ref, unit, attestation) ==
  IF tier = "hash-only" THEN Decision(TRUE, "hash-only")
  ELSE IF attestation = Null THEN Decision(FALSE, "attestation-required")
  ELSE Decision(Verifies(attestation.signer_pubkey, attestation.sig,
                         AttestationMessage(ref, unit)), "attested")

ClearForRelease(tier, ref, unit, attestation) ==
  LET signer == Normalize[attestation.signer_pubkey]
  IN  IF tier = "hash-only" THEN Decision(TRUE, "hash-only")
      ELSE IF attestation = Null THEN Decision(FALSE, "attestation-required")
      ELSE IF signer \notin TrustedKeys THEN Decision(FALSE, "untrusted-pubkey")
      ELSE IF PayeePubkey # Null /\ signer = Normalize[PayeePubkey]
           THEN Decision(FALSE, "payee-signed")
      ELSE IF signer \notin GoodKeys THEN Decision(FALSE, "bad-pubkey")
      ELSE IF attestation.sig = NotHex THEN Decision(FALSE, "bad-attestation-sig")
      ELSE IF ~Verifies(signer, attestation.sig, AttestationMessage(ref, unit))
           THEN Decision(FALSE, "bad-attestation-sig")
      ELSE Decision(TRUE, "attested")
=================================================================================
