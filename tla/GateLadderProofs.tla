---------------------------- MODULE GateLadderProofs ----------------------------
(***************************************************************************)
(* The ladder is right for every unit, commitment and algorithm, not only  *)
(* for the small sets TLC goes through.                                    *)
(***************************************************************************)
EXTENDS GateLadder, TLAPS

\* What the state always is: a unit, and the ladder's answer to it.
Answered ==
  /\ ctx \in Context
  /\ asked \in Asked
  /\ result = Evaluate(asked, ctx)

\* The result on record is always the ladder's answer to the unit on record.
LEMMA AlwaysAnswered == Spec => []Answered
<1>1. Init => Answered
  BY DEF Init, Answered
<1>2. Answered /\ [Next]_vars => Answered'
  BY DEF Answered, Next, NextUnit, vars
<1> QED
  BY <1>1, <1>2, PTL DEF Spec

\* A unit passes exactly when it satisfies everything the criterion asks for.
LEMMA EvaluateSound ==
  ASSUME NEW a \in Asked, NEW c \in Context
  PROVE  Evaluate(a, c).passed <=> Satisfies(a, c)
BY DEF Evaluate, EvaluateUnit, GateResult, L1Ack, L2Checksum, L3ArtifactMatch, DigestHex,
       Satisfies, Arrived, Intact, Committed, Asked, Context, Criterion

\* The answer is always a verdict with one of the stable reason tokens (gates.py:46-48).
THEOREM TypeCorrect == Spec => []TypeOK
<1>1. Answered => TypeOK
  BY DEF Answered, TypeOK, Evaluate, EvaluateUnit, GateResult, ReasonToken
<1> QED
  BY <1>1, AlwaysAnswered, PTL

\* The ladder implements the criterion (gates.py:105-126), for all inputs.
THEOREM LadderSoundAlways == Spec => []LadderSound
<1>1. Answered => LadderSound
  BY EvaluateSound DEF Answered, LadderSound
<1> QED
  BY <1>1, AlwaysAnswered, PTL

\* A more demanding criterion never passes what a less demanding one refuses.
THEOREM CriteriaOrderedAlways == Spec => []CriteriaOrdered
<1>1. Answered => CriteriaOrdered
  <2> SUFFICES ASSUME Answered PROVE CriteriaOrdered
    OBVIOUS
  <2> DEFINE with(k) == [asked EXCEPT !.criterion = k]
  <2>1. \A k \in Criterion : /\ with(k) \in Asked
                             /\ Evaluate(with(k), ctx).passed <=> Satisfies(with(k), ctx)
    BY EvaluateSound DEF Answered, Asked
  <2>2. /\ Satisfies(with("artifact_match"), ctx) => Satisfies(with("checksum"), ctx)
        /\ Satisfies(with("checksum"), ctx) => Satisfies(with("ack_received"), ctx)
    BY DEF Satisfies, Intact, Answered, Asked
  <2> QED
    BY <2>1, <2>2 DEF CriteriaOrdered, Criterion
<1> QED
  BY <1>1, AlwaysAnswered, PTL

\* The token always names the first rung that failed.
THEOREM ReasonNamesFirstFailureAlways == Spec => []ReasonNamesFirstFailure
<1>1. Answered => ReasonNamesFirstFailure
  BY DEF Answered, ReasonNamesFirstFailure, Evaluate, EvaluateUnit, GateResult, L1Ack,
         L2Checksum, L3ArtifactMatch, DigestHex, Arrived, Intact, Committed, Asked, Context,
         Criterion
<1> QED
  BY <1>1, AlwaysAnswered, PTL

\* What passes under one committed hash, for this deal or another, is one set of bytes,
\* and every deal it passes for is named in them.
THEOREM CommitmentBindsAlways == Spec => []CommitmentBinds
<1>1. Answered => CommitmentBinds
  <2> SUFFICES ASSUME Answered,
                      NEW c \in Context, NEW t \in Ref, NEW other,
                      other = [asked EXCEPT !.task_id = t],
                      asked.criterion = "artifact_match", result.passed,
                      Evaluate(other, c).passed
               PROVE  c.chunk = ctx.chunk /\ t \in Embedded[ctx.chunk]
    BY DEF CommitmentBinds
  <2>1. other \in Asked
    BY DEF Answered, Asked
  <2>2. Satisfies(asked, ctx) /\ Satisfies(other, c)
    BY <2>1, EvaluateSound DEF Answered
  <2>3. /\ other.criterion = "artifact_match"
        /\ other.expected = asked.expected /\ other.task_id = t
    BY DEF Answered, Asked
  <2> QED
    BY <2>2, <2>3 DEF Satisfies, Committed, Digest
<1> QED
  BY <1>1, AlwaysAnswered, PTL
=================================================================================
