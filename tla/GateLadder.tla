------------------------------- MODULE GateLadder -------------------------------
(***************************************************************************)
(* One rung-by-rung evaluation after another: a deal fixes the criterion,  *)
(* the committed hash, the task id and the L2 algorithm, and units are put *)
(* to EvaluateUnit.                                                        *)
(***************************************************************************)
EXTENDS Gates

VARIABLES asked, ctx, result

vars == <<asked, ctx, result>>

Context == [ack_received : BOOLEAN, chunk : Chunk,
            declared_checksum : Sha256Hex \cup {Null}]

Asked == [criterion : Criterion, expected : Sha256Hex \cup {Null},
          task_id : Ref \cup {Null}, algo : AlgorithmsAvailable]

Evaluate(a, c) == EvaluateUnit(c, a.criterion, a.expected, a.task_id, a.algo)

Raises(a, c) == EvaluateRaises(c, a.criterion, a.algo)

Init ==
  /\ asked \in Asked
  /\ ctx \in {c \in Context : ~Raises(asked, c)}
  /\ result = Evaluate(asked, ctx)

NextUnit(c) ==
  /\ ~Raises(asked, c)
  /\ ctx' = c
  /\ result' = Evaluate(asked, c)
  /\ UNCHANGED asked

Next == \E c \in Context : NextUnit(c)

Spec == Init /\ [][Next]_vars

TypeOK ==
  /\ asked \in Asked
  /\ ctx \in Context
  /\ result \in [passed : BOOLEAN, reason : ReasonToken]

---------------------------------------------------------------------------------
(***************************************************************************)
(* What each criterion asks of a unit, with no order between the parts.    *)
(***************************************************************************)
Arrived(c) == c.ack_received

Intact(a, c) == c.declared_checksum # Null /\ c.declared_checksum = Digest(a.algo, c.chunk)

Committed(a, c) ==
  /\ a.expected # Null /\ a.expected = Digest("sha256", c.chunk)
  /\ a.task_id # Null /\ a.task_id \in Embedded[c.chunk]

Satisfies(a, c) ==
  /\ Arrived(c)
  /\ a.criterion \in {"checksum", "artifact_match"} => Intact(a, c)
  /\ a.criterion = "artifact_match" => Committed(a, c)

\* The early returns of evaluate_unit add up to the criterion: a unit settles
\* exactly when it satisfies every part the criterion asks for (gates.py:105-126).
LadderSound == result.passed <=> Satisfies(asked, ctx)

\* A criterion that asks for more never passes a unit that one asking for less
\* refuses: each rung is reached only through the ones below (gates.py:111-119).
CriteriaOrdered ==
  LET passes(k) == Evaluate([asked EXCEPT !.criterion = k], ctx).passed
  IN  ~DigestRaises(asked.algo) =>
        /\ passes("artifact_match") => passes("checksum")
        /\ passes("checksum") => passes("ack_received")

\* The reason token, which ends up in PerUnit.reason and in the stream-close line,
\* names a rung that really failed, and no later rung is blamed for an earlier
\* one's failure (gates.py:46-48).
ReasonNamesFirstFailure ==
  /\ result.reason = "no-ack" <=> ~Arrived(ctx)
  /\ result.reason \in {"checksum-null", "checksum-mismatch"} =>
       Arrived(ctx) /\ ~Intact(asked, ctx)
  /\ result.reason = "checksum-null" => ctx.declared_checksum = Null
  /\ result.reason \in {"no-expected-hash", "no-task-id", "artifact-mismatch"} =>
       Arrived(ctx) /\ Intact(asked, ctx) /\ ~Committed(asked, ctx)
  /\ result.reason = "artifact-mismatch" => Null \notin {asked.expected, asked.task_id}

\* A commitment fixes bytes and deal: whatever else is delivered under the hash this
\* unit passed with, and for whichever deal, it only passes as the same bytes, and only
\* for a deal these bytes name; one artifact does not settle a deal it was not made for
\* (gates.py:82-88, 121-126).
CommitmentBinds ==
  \A c \in Context, t \in Ref :
    LET other == [asked EXCEPT !.task_id = t]
    IN  asked.criterion = "artifact_match" /\ result.passed /\ Evaluate(other, c).passed
          => c.chunk = ctx.chunk /\ t \in Embedded[ctx.chunk]
=================================================================================
