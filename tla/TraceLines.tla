------------------------------- MODULE TraceLines -------------------------------
(***************************************************************************)
(* The S7 trace: one record per line trace.py formats.  The engine appends *)
(* them; validators that see nothing else recover what was billed and what *)
(* was verified from them.  Payer and payee are fixed names and left out.  *)
(***************************************************************************)
EXTENDS Integers, Sequences

StreamOpenLine(ref, rate, max_total, opened) ==
  [kind |-> "stream-open", ref |-> ref, rate |-> rate, max_total |-> max_total,
   at |-> opened]

TickLine(ref, seq, amount, now) ==
  [kind |-> "tick", ref |-> ref, seq |-> seq, amount |-> amount, at |-> now]

AckL1Line(ref, seq) == [kind |-> "ack", ref |-> ref, seq |-> seq]

AckContentLine(ref, seq, chunk, declared) ==
  [kind |-> "ack", ref |-> ref, seq |-> seq, chunk |-> chunk, declared |-> declared]

GateLine(ref, seq, passed) ==
  [kind |-> "gate", ref |-> ref, seq |-> seq, verdict |-> IF passed THEN "pass" ELSE "fail"]

StreamCloseLine(ref, seq, drained, now, reason) ==
  [kind |-> "stream-close", ref |-> ref, seq |-> seq, drained |-> drained,
   at |-> now, reason |-> reason]
=================================================================================
