-------------------------- MODULE MCSettlementService --------------------------
(***************************************************************************)
(* SettlementService for TLC.                                              *)
(***************************************************************************)
EXTENDS ServiceProperties

CONSTANTS r1, r2, a, b, q1, q2, q3

MCRef == {r1, r2}
MCChunk == {a, b}
MCSeqNo == 0 .. 2
MCEmbedded == [c \in MCChunk |-> {r1, r2}]
MCRefParts == [r \in MCRef |-> <<r>>]
TwoRequests == {q1, q2}
ThreeRequests == {q1, q2, q3}
SlotSymmetry == Permutations(Request)

\* The auditor's key in two spellings, the payee's, a key nobody trusts, and a trusted
\* entry that is no key.
MCKeyText == {"aud", " AUD", "pay", "eve", "zz"}
MCNormalize == [t \in MCKeyText |-> IF t = " AUD" THEN "aud" ELSE t]
MCGoodKeys == {"aud", "pay", "eve"}
MCTrustedTexts == {" AUD", "pay", "zz"}

Sha(c) == Digest("sha256", c)
Unit(s, c) == [seq |-> s, chunk |-> c, declared_checksum |-> Sha(c)]
Corrupt(s) == [seq |-> s, chunk |-> b, declared_checksum |-> Sha(a)]

OpenBody(r, rate, cap, tier) ==
  [op |-> "open", ref |-> r,
   open_in |-> [ref |-> r, rate |-> rate, max_total |-> cap, attestor |-> tier,
                committed_reference |->
                  [criterion |-> "checksum", task_id |-> r, expected |-> <<>>]]]
AdvanceBody(r, u, att) == [op |-> "advance", ref |-> r, unit |-> u, attestation |-> att]
CloseBody(r) == [op |-> "close", ref |-> r]

\* One deal under load: three good units or a corrupted one, the cap cuts the second.
RaceBodies ==
  {OpenBody(r1, 2, 3, "hash-only"), OpenBody(r1, 0, 3, "hash-only"), CloseBody(r1)}
  \cup {AdvanceBody(r1, u, Null) : u \in {Unit(0, a), Unit(1, a), Unit(2, b), Corrupt(2)}}

Att(spelled, key, r, u) ==
  [SignAttestation(key, r, u) EXCEPT !.signer_pubkey = spelled]

\* Two deals side by side.  The hash-only one has a unit that comes genuine or
\* corrupted; the signed one's cap is used up by its first unit, and the second, which
\* finds nothing left, comes with or without its attestation.
TwoDealBodies ==
  {OpenBody(r1, 2, 3, "hash-only"), CloseBody(r1),
   OpenBody(r2, 5, 3, "signed"), CloseBody(r2),
   AdvanceBody(r1, Unit(0, a), Null), AdvanceBody(r1, Unit(2, b), Null),
   AdvanceBody(r1, Corrupt(2), Null),
   AdvanceBody(r2, Unit(0, b), Att("aud", "aud", r2, Unit(0, b))),
   AdvanceBody(r2, Unit(1, a), Att("aud", "aud", r2, Unit(1, a))),
   AdvanceBody(r2, Unit(1, a), Null)}

\* The signed tier: one unit properly vouched for, and every way not to be.
SignedBodies ==
  {OpenBody(r1, 2, 3, "signed"), CloseBody(r1)}
  \cup {AdvanceBody(r1, Unit(0, a), Att(t, "aud", r1, Unit(0, a))) : t \in {"aud", " AUD"}}
  \cup {AdvanceBody(r1, Unit(0, b), Att("aud", "aud", r1, Unit(0, a))),
        AdvanceBody(r1, Unit(1, a), Null),
        AdvanceBody(r1, Unit(1, a), Att("aud", "aud", r1, Unit(0, a))),
        AdvanceBody(r1, Unit(1, a), Att("aud", "aud", r2, Unit(1, a))),
        AdvanceBody(r1, Unit(1, a), Att("pay", "pay", r1, Unit(1, a))),
        AdvanceBody(r1, Unit(1, a), Att("eve", "eve", r1, Unit(1, a))),
        AdvanceBody(r1, Unit(1, a), Att("zz", "zz", r1, Unit(1, a))),
        AdvanceBody(r1, Unit(1, a), [signer_pubkey |-> "aud", sig |-> NotHex])}

Deal1 == INSTANCE Settlement WITH
  Terms <- AllTerms, Deliveries <- AllUnits, L2Algo <- Algo,
  terms <- EngineAt(r1).open_in, verdicts <- EngineAt(r1).per_unit,
  billed <- EngineAt(r1).settled, status <- StatusOf(r1)

Deal2 == INSTANCE Settlement WITH
  Terms <- AllTerms, Deliveries <- AllUnits, L2Algo <- Algo,
  terms <- EngineAt(r2).open_in, verdicts <- EngineAt(r2).per_unit,
  billed <- EngineAt(r2).settled, status <- StatusOf(r2)

\* Every deal's session implements Settlement while requests on it and on the other
\* interleave: judged by its own terms, paid unit by unit, ended by the first refusal
\* (app.py:277-312).
DealsKeepPromise == Deal1!Spec /\ Deal2!Spec
================================================================================
