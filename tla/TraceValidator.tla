----------------------------- MODULE TraceValidator -----------------------------
(***************************************************************************)
(* What a validator recovers from the trace alone.  It splits a line on    *)
(* ":" from the left and picks fields by position (test_engine.py:63-69),  *)
(* so a line is here the sequence of its parts.  RefParts gives the parts  *)
(* a reference itself falls into: one, unless it contains a ":".           *)
(***************************************************************************)
EXTENDS TraceLines, FiniteSets

CONSTANT RefParts

Split(line) ==
  CASE line.kind = "stream-open" ->
         <<"stream-open">> \o RefParts[line.ref]
           \o <<"buyer", "seller", line.rate, line.max_total, line.at>>
    [] line.kind = "tick" ->
         <<"tick">> \o RefParts[line.ref] \o <<line.seq, line.amount, line.at>>
    [] line.kind = "ack" /\ "chunk" \notin DOMAIN line ->
         <<"ack">> \o RefParts[line.ref] \o <<line.seq>>
    [] line.kind = "ack" /\ "chunk" \in DOMAIN line ->
         <<"ack">> \o RefParts[line.ref] \o <<line.seq, line.chunk, line.declared>>
    [] line.kind = "gate" ->
         <<"gate">> \o RefParts[line.ref] \o <<line.seq, line.verdict>>
    [] line.kind = "stream-close" ->
         <<"stream-close">> \o RefParts[line.ref]
           \o <<line.seq, line.drained, line.at, line.reason>>

\* Lines by the kind their first field states.
LinesOf(trace, kind) == {i \in DOMAIN trace : Split(trace[i])[1] = kind}

AmountOf(line) == IF Split(line)[1] = "tick" THEN Split(line)[4] ELSE 0

\* _billed_from_trace: the fourth field of every tick line, added up line by line.
BilledFromTrace(trace) ==
  LET upTo[n \in 0 .. Len(trace)] ==
        IF n = 0 THEN 0 ELSE upTo[n - 1] + AmountOf(trace[n])
  IN  upTo[Len(trace)]

\* Is the line the verdict that lets its unit be paid?  A gate line says so itself; an
\* L1 ack (three fields) is its own verdict.
Clears(line) ==
  LET fields == Split(line)
  IN  \/ fields[1] = "gate" /\ fields[4] = "pass"
      \/ fields[1] = "ack" /\ Len(fields) = 3

VerifiedFromTrace(trace) == Cardinality({i \in DOMAIN trace : Clears(trace[i])})

\* The fifth field of the line the session begins with.
RateFromTrace(trace) == Split(trace[1])[5]
=================================================================================
