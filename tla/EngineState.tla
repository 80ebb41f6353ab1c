------------------------------ MODULE EngineState ------------------------------
(***************************************************************************)
(* The fields of one SettlementEngine object and the synchronous stretches *)
(* of its methods, each from one await to the next, as functions from the  *)
(* object's state to its state.  SettlementEngine and SettlementService    *)
(* put them together into steps.                                           *)
(***************************************************************************)
EXTENDS Gates, PaymentStream, TraceLines, Display

CONSTANT Algo  \* the --algo of the engine

ASSUME AlgoAssumption == Algo \in AlgorithmsAvailable

(***************************************************************************)
(* The types of the fields, for engines opened with one of opens.          *)
(***************************************************************************)
CloseReason == ReasonToken \cup {"none", "closed", "cap-reached"}

Line ==
  [kind : {"stream-open"}, ref : Ref, rate : Nat, max_total : Nat, at : Int]
  \cup [kind : {"tick"}, ref : Ref, seq : Nat, amount : Int, at : Int]
  \cup [kind : {"ack"}, ref : Ref, seq : Nat]
  \cup [kind : {"ack"}, ref : Ref, seq : Nat, chunk : Chunk, declared : Sha256Hex \cup {Null}]
  \cup [kind : {"gate"}, ref : Ref, seq : Nat, verdict : Verdict]
  \cup [kind : {"stream-close"}, ref : Ref, seq : Nat, drained : Int, at : Int,
        reason : CloseReason]

EngineRecord(opens) ==
  [open_in : opens \cup {Null}, plugin : Stream \cup {Null}, tick : Int,
   settled : Int, closed : BOOLEAN, per_unit : Seq(PerUnit), trace : Seq(Line),
   seen_seqs : SUBSET SeqNo]

NewEngine ==
  [open_in |-> Null, plugin |-> Null, tick |-> 0, settled |-> 0, closed |-> FALSE,
   per_unit |-> <<>>, trace |-> <<>>, seen_seqs |-> {}]

IsOpened(e) == e.open_in # Null

\* What open() refuses although the contract admits it.
Unmeterable(i) == i.rate < 1 \/ i.max_total < 1

\* Mutant of Opened: the plugin object stays local to open().
OpenedNoPlugin(e, i) ==
  [e EXCEPT !.open_in = i,
            !.trace = Append(@, StreamOpenLine(i.ref, i.rate, i.max_total, 0))]

Opened(e, i) ==
  [e EXCEPT !.open_in = i,
            !.plugin = OpenStream(i.rate, i.max_total),
            !.trace = Append(@, StreamOpenLine(i.ref, i.rate, i.max_total, 0))]

CriterionOf(e) == e.open_in.committed_reference.criterion

ContextOf(u) ==
  [ack_received |-> TRUE, chunk |-> u.chunk, declared_checksum |-> u.declared_checksum]

\* Mutant of ExpectedFor: any committed hash does, whatever the seq.
ExpectedForAnySeq(e, u) ==
  LET expected == e.open_in.committed_reference.expected
  IN  IF CriterionOf(e) # "artifact_match" THEN Null
      ELSE IF u.seq \in DOMAIN expected THEN expected[u.seq]
      ELSE expected[CHOOSE s \in DOMAIN expected : TRUE]

ExpectedFor(e, u) ==
  LET expected == e.open_in.committed_reference.expected
  IN  IF CriterionOf(e) = "artifact_match" /\ u.seq \in DOMAIN expected
      THEN expected[u.seq] ELSE Null

ResultOf(e, u) ==
  EvaluateUnit(ContextOf(u), CriterionOf(e), ExpectedFor(e, u), e.open_in.ref, Algo)

DecisionRaises(e, u) == EvaluateRaises(ContextOf(u), CriterionOf(e), Algo)

\* advance() up to the call of evaluate_unit: the unit counts as seen and as
\* delivered whatever becomes of it.
Received(e, u) ==
  LET ack == IF CriterionOf(e) = "ack_received"
             THEN AckL1Line(e.open_in.ref, u.seq)
             ELSE AckContentLine(e.open_in.ref, u.seq, u.chunk, u.declared_checksum)
  IN  [e EXCEPT !.seen_seqs = @ \cup {u.seq}, !.trace = Append(@, ack)]

\* Mutant of Judged: only passing units are kept in per_unit.
JudgedPassesOnly(e, u) ==
  LET r == ResultOf(e, u)
  IN  [Received(e, u) EXCEPT
         !.per_unit = IF r.passed
                      THEN Append(@, [seq |-> u.seq, verdict |-> "pass", reason |-> r.reason])
                      ELSE @,
         !.trace = IF CriterionOf(e) = "ack_received" THEN @
                   ELSE Append(@, GateLine(e.open_in.ref, u.seq, r.passed))]

\* ... and on to the recorded verdict.
Judged(e, u) ==
  LET r == ResultOf(e, u)
      v == [seq |-> u.seq, verdict |-> IF r.passed THEN "pass" ELSE "fail",
            reason |-> r.reason]
      gate == GateLine(e.open_in.ref, u.seq, r.passed)
  IN  [Received(e, u) EXCEPT
         !.per_unit = Append(@, v),
         !.trace = IF CriterionOf(e) = "ack_received" THEN @ ELSE Append(@, gate)]

Remaining(e) == e.open_in.max_total - e.settled

Ticked(e) == [e EXCEPT !.tick = @ + 1]

\* Mutant of Billed: the total is overwritten instead of added to.
BilledOverwrites(e, seq, amount) ==
  [e EXCEPT !.settled = amount,
            !.trace = Append(@, TickLine(e.open_in.ref, seq, amount, e.tick))]

\* Mutant of Billed: the tick line states the rate, not what the cap left of it.
BilledTracesRate(e, seq, amount) ==
  [e EXCEPT !.settled = @ + amount,
            !.trace = Append(@, TickLine(e.open_in.ref, seq, e.open_in.rate, e.tick))]

\* advance() after the plugin returned: the amount is added and traced.
Billed(e, seq, amount) ==
  [e EXCEPT !.settled = @ + amount,
            !.trace = Append(@, TickLine(e.open_in.ref, seq, amount, e.tick))]

LastSeq(e) == IF e.per_unit = <<>> THEN 0 ELSE e.per_unit[Len(e.per_unit)].seq

\* _close_plugin after the plugin returned its receipt.
ClosedWith(e, seq, amount, reason) ==
  [e EXCEPT !.settled = amount,
            !.closed = TRUE,
            !.trace = Append(@, StreamCloseLine(e.open_in.ref, seq, amount, e.tick, reason))]

Receipt(e) ==
  [ref |-> e.open_in.ref, per_unit |-> e.per_unit, settled_total |-> e.settled,
   remainder_unspent |-> Remaining(e)]

\* Mutant of Snapshot: the answer holds the latest verdict only.
SnapshotLatest(e) ==
  [per_unit |-> IF e.per_unit = <<>> THEN <<>> ELSE <<e.per_unit[Len(e.per_unit)]>>,
   settled_total |-> e.settled, remainder_unspent |-> Remaining(e), trace |-> e.trace,
   display |-> RenderDisplay(e.open_in, e.per_unit, e.settled, e.closed)]

Snapshot(e) ==
  [per_unit |-> e.per_unit, settled_total |-> e.settled,
   remainder_unspent |-> Remaining(e), trace |-> e.trace,
   display |-> RenderDisplay(e.open_in, e.per_unit, e.settled, e.closed)]
================================================================================
