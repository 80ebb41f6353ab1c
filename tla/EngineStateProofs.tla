---------------------------- MODULE EngineStateProofs ----------------------------
(***************************************************************************)
(* What each stretch of the engine's methods writes: its fields and its    *)
(* meter first, then seen seqs, verdicts and trace lines.  Nothing here    *)
(* depends on who calls the methods: the theorems about one engine, about  *)
(* the service's engines and about the demo's all rest on these lemmas.    *)
(***************************************************************************)
EXTENDS Meter, FiniteSetTheorems, SequencesExt, SequenceTheorems, TLAPS

(***************************************************************************)
(* The count of verified units.                                            *)
(***************************************************************************)

\* A list of verdicts has a natural number of passing ones.
LEMMA VerifiedCountType ==
  ASSUME NEW vs \in Seq(PerUnit)
  PROVE  /\ IsFiniteSet({i \in DOMAIN vs : Passed(vs[i])})
         /\ VerifiedCount(vs) \in Nat
<1>1. IsFiniteSet(1 .. Len(vs))
  BY FS_Interval
<1>2. {i \in DOMAIN vs : Passed(vs[i])} \subseteq 1 .. Len(vs)
  OBVIOUS
<1>3. IsFiniteSet({i \in DOMAIN vs : Passed(vs[i])})
  BY <1>1, <1>2, FS_Subset
<1> QED
  BY <1>3, FS_CardinalityType DEF VerifiedCount

\* Recording one more verdict counts one more verified unit exactly when it passed.
LEMMA VerifiedCountAppend ==
  ASSUME NEW vs \in Seq(PerUnit), NEW v \in PerUnit
  PROVE  VerifiedCount(Append(vs, v))
           = IF Passed(v) THEN VerifiedCount(vs) + 1 ELSE VerifiedCount(vs)
<1> DEFINE ws == Append(vs, v)
           last == Len(vs) + 1
           old == {i \in DOMAIN vs : Passed(vs[i])}
           new == {i \in DOMAIN ws : Passed(ws[i])}
<1>1. /\ DOMAIN ws = DOMAIN vs \cup {last}
      /\ ws[last] = v
      /\ last \notin DOMAIN vs
      /\ \A i \in DOMAIN vs : ws[i] = vs[i]
  OBVIOUS
<1>2. IsFiniteSet(old)
  BY VerifiedCountType
<1>3. CASE Passed(v)
  <2>1. new = old \cup {last}
    BY <1>1, <1>3
  <2>2. last \notin old
    BY <1>1
  <2>3. Cardinality(old \cup {last}) = Cardinality(old) + 1
    BY <1>2, <2>2, FS_AddElement
  <2> QED
    BY <1>3, <2>1, <2>3 DEF VerifiedCount
<1>4. CASE ~Passed(v)
  <2>1. new = old
    BY <1>1, <1>4
  <2> QED
    BY <1>4, <2>1 DEF VerifiedCount
<1> QED
  BY <1>3, <1>4

(***************************************************************************)
(* What the stretches of the engine's methods do to its fields.            *)
(***************************************************************************)

\* The ladder answers with a verdict and one of its tokens.
LEMMA EvaluateUnitType ==
  ASSUME NEW ctx, NEW criterion, NEW expected, NEW task, NEW algo
  PROVE  EvaluateUnit(ctx, criterion, expected, task, algo)
           \in [passed : BOOLEAN, reason : ReasonToken]
BY DEF EvaluateUnit, GateResult, ReasonToken

\* Receiving a unit marks its seq and adds an ack line.
LEMMA ReceivedType ==
  ASSUME NEW opens \in SUBSET SettleOpenIn, NEW e \in EngineRecord(opens),
         e.open_in \in opens, NEW u \in UnitIn
  PROVE  /\ Received(e, u) \in EngineRecord(opens)
         /\ \A f \in {"open_in", "plugin", "tick", "settled", "closed", "per_unit"} :
              Received(e, u)[f] = e[f]
<1>1. e.open_in.ref \in Ref
  BY DEF SettleOpenIn
<1>2. /\ u.seq \in SeqNo /\ u.seq \in Nat /\ u.chunk \in Chunk
      /\ u.declared_checksum \in Sha256Hex \cup {Null}
  BY ContractAssumption DEF UnitIn
<1>3. /\ AckL1Line(e.open_in.ref, u.seq) \in Line
      /\ AckContentLine(e.open_in.ref, u.seq, u.chunk, u.declared_checksum) \in Line
  BY <1>1, <1>2 DEF Line, AckL1Line, AckContentLine
<1>4. Received(e, u) =
        [e EXCEPT !.seen_seqs = e.seen_seqs \cup {u.seq},
                  !.trace = Append(e.trace, IF CriterionOf(e) = "ack_received"
                                            THEN AckL1Line(e.open_in.ref, u.seq)
                                            ELSE AckContentLine(e.open_in.ref, u.seq, u.chunk,
                                                                u.declared_checksum))]
  BY DEF Received
<1>5. e.trace \in Seq(Line) /\ e.seen_seqs \subseteq SeqNo
  BY DEF EngineRecord
<1>6. Received(e, u).trace \in Seq(Line)
  BY <1>3, <1>4, <1>5 DEF EngineRecord
<1>7. Received(e, u).seen_seqs \in SUBSET SeqNo
  BY <1>2, <1>4, <1>5 DEF EngineRecord
<1> QED
  BY <1>4, <1>6, <1>7 DEF EngineRecord

\* Judging it appends one verdict, the ladder's, and changes nothing else but what
\* receiving it changed and the trace.
LEMMA JudgedType ==
  ASSUME NEW opens \in SUBSET SettleOpenIn, NEW e \in EngineRecord(opens),
         e.open_in \in opens, NEW u \in UnitIn
  PROVE  /\ Judged(e, u) \in EngineRecord(opens)
         /\ \A f \in {"open_in", "plugin", "tick", "settled", "closed"} :
              Judged(e, u)[f] = e[f]
         /\ \E v \in PerUnit :
              /\ Judged(e, u).per_unit = Append(e.per_unit, v)
              /\ Passed(v) <=> ResultOf(e, u).passed
<1> DEFINE r == ResultOf(e, u)
           v == [seq |-> u.seq, verdict |-> IF r.passed THEN "pass" ELSE "fail",
                 reason |-> r.reason]
           gate == GateLine(e.open_in.ref, u.seq, r.passed)
           d == Received(e, u)
<1>1. r \in [passed : BOOLEAN, reason : ReasonToken]
  BY EvaluateUnitType DEF ResultOf
<1>2. u.seq \in SeqNo /\ u.seq \in Nat /\ e.open_in.ref \in Ref
  BY ContractAssumption DEF UnitIn, SettleOpenIn
<1>3. v \in PerUnit /\ (Passed(v) <=> r.passed)
  BY <1>1, <1>2 DEF PerUnit, Verdict, Passed
<1>4. gate \in Line
  BY <1>2 DEF Line, GateLine, Verdict
<1>5. /\ d \in EngineRecord(opens)
      /\ \A f \in {"open_in", "plugin", "tick", "settled", "closed", "per_unit"} : d[f] = e[f]
  BY ReceivedType
<1> HIDE DEF r, v, gate, d
<1>6. Judged(e, u) =
        [d EXCEPT !.per_unit = Append(d.per_unit, v),
                  !.trace = IF CriterionOf(e) = "ack_received" THEN d.trace
                            ELSE Append(d.trace, gate)]
  BY DEF Judged, r, v, gate, d
<1>7. d.trace \in Seq(Line) /\ d.per_unit \in Seq(PerUnit) /\ d.per_unit = e.per_unit
  BY <1>5 DEF EngineRecord
<1>8. Append(d.trace, gate) \in Seq(Line) /\ Append(d.per_unit, v) \in Seq(PerUnit)
  BY <1>3, <1>4, <1>7
<1>9. Judged(e, u).trace \in Seq(Line)
  BY <1>5, <1>6, <1>7, <1>8 DEF EngineRecord
<1>10. Judged(e, u).per_unit = Append(e.per_unit, v)
  BY <1>5, <1>6, <1>7 DEF EngineRecord
<1>11. Judged(e, u) \in EngineRecord(opens)
  BY <1>5, <1>6, <1>7, <1>8, <1>9 DEF EngineRecord
<1>12. \A f \in {"open_in", "plugin", "tick", "settled", "closed"} : Judged(e, u)[f] = e[f]
  BY <1>5, <1>6 DEF EngineRecord
<1> QED
  BY <1>3, <1>10, <1>11, <1>12 DEF r

\* Opening installs the request and a stream that has paid nothing.
LEMMA OpenedType ==
  ASSUME NEW opens \in SUBSET SettleOpenIn, NEW e \in EngineRecord(opens),
         NEW i \in opens
  PROVE  /\ Opened(e, i) \in EngineRecord(opens)
         /\ Opened(e, i).open_in = i
         /\ Opened(e, i).plugin = OpenStream(i.rate, i.max_total)
         /\ OpenStream(i.rate, i.max_total) \in Stream
         /\ \A f \in {"tick", "settled", "closed", "per_unit", "seen_seqs"} :
              Opened(e, i)[f] = e[f]
<1>1. i.ref \in Ref /\ i.rate \in Nat /\ i.max_total \in Nat
  BY DEF SettleOpenIn
<1>2. StreamOpenLine(i.ref, i.rate, i.max_total, 0) \in Line
  BY <1>1 DEF Line, StreamOpenLine
<1>3. OpenStream(i.rate, i.max_total) \in Stream
  BY <1>1 DEF OpenStream, Stream
<1> DEFINE line == StreamOpenLine(i.ref, i.rate, i.max_total, 0)
           p == OpenStream(i.rate, i.max_total)
<1> HIDE DEF line, p
<1>4. Opened(e, i) = [e EXCEPT !.open_in = i, !.plugin = p, !.trace = Append(e.trace, line)]
  BY DEF Opened, line, p
<1>5. Append(e.trace, line) \in Seq(Line)
  BY <1>2 DEF EngineRecord, line
<1> QED
  BY <1>3, <1>4, <1>5 DEF EngineRecord, p

\* Adding up a drained amount.
LEMMA BilledType ==
  ASSUME NEW opens \in SUBSET SettleOpenIn, NEW e \in EngineRecord(opens),
         e.open_in \in opens, NEW s \in Nat, NEW n \in Int
  PROVE  /\ Billed(e, s, n) \in EngineRecord(opens)
         /\ Billed(e, s, n).settled = e.settled + n
         /\ \A f \in {"open_in", "plugin", "tick", "closed", "per_unit", "seen_seqs"} :
              Billed(e, s, n)[f] = e[f]
<1> DEFINE line == TickLine(e.open_in.ref, s, n, e.tick)
<1>1. e.open_in.ref \in Ref /\ e.tick \in Int
  BY DEF SettleOpenIn, EngineRecord
<1>2. line \in Line
  BY <1>1 DEF Line, TickLine
<1> HIDE DEF line
<1>3. Billed(e, s, n) = [e EXCEPT !.settled = e.settled + n, !.trace = Append(e.trace, line)]
  BY DEF Billed, line
<1>4. Append(e.trace, line) \in Seq(Line) /\ e.settled + n \in Int
  BY <1>2 DEF EngineRecord
<1> QED
  BY <1>3, <1>4 DEF EngineRecord

\* Closing with the plugin's total.
LEMMA ClosedWithType ==
  ASSUME NEW opens \in SUBSET SettleOpenIn, NEW e \in EngineRecord(opens),
         e.open_in \in opens, NEW s \in Nat, NEW n \in Int,
         NEW why \in CloseReason
  PROVE  /\ ClosedWith(e, s, n, why) \in EngineRecord(opens)
         /\ ClosedWith(e, s, n, why).settled = n
         /\ ClosedWith(e, s, n, why).closed
         /\ \A f \in {"open_in", "plugin", "tick", "per_unit", "seen_seqs"} :
              ClosedWith(e, s, n, why)[f] = e[f]
<1> DEFINE line == StreamCloseLine(e.open_in.ref, s, n, e.tick, why)
<1>1. e.open_in.ref \in Ref /\ e.tick \in Int
  BY DEF SettleOpenIn, EngineRecord
<1>2. line \in Line
  BY <1>1 DEF Line, StreamCloseLine
<1> HIDE DEF line
<1>3. ClosedWith(e, s, n, why) =
        [e EXCEPT !.settled = n, !.closed = TRUE, !.trace = Append(e.trace, line)]
  BY DEF ClosedWith, line
<1>4. Append(e.trace, line) \in Seq(Line)
  BY <1>2 DEF EngineRecord
<1> QED
  BY <1>3, <1>4 DEF EngineRecord

\* The plugin's own moves keep a stream a stream, whose terms do not change.
LEMMA StreamType ==
  ASSUME NEW p \in Stream, NEW now \in Int
  PROVE  /\ Owed(p, now) \in Int
         /\ AdvanceStream(p, now) \in Stream
         /\ \A q \in CloseStream(p, now) : q \in Stream
<1>1. Owed(p, now) \in Int
  BY DEF Owed, Lesser, Stream
<1>2. p.drained + Owed(p, now) \in Int
  BY <1>1 DEF Stream
<1>3. AdvanceStream(p, now) \in Stream
  BY <1>2 DEF AdvanceStream, Stream
<1>4. \A q \in CloseStream(p, now) : q \in Stream
  BY <1>2 DEF CloseStream, Stream
<1> QED
  BY <1>1, <1>3, <1>4

\* The seq a close is recorded under is one that was judged, or 0.
LEMMA LastSeqType ==
  ASSUME NEW opens, NEW e \in EngineRecord(opens)
  PROVE  LastSeq(e) \in Nat
<1>1. e.per_unit \in Seq(PerUnit)
  BY DEF EngineRecord
<1>2. CASE e.per_unit = <<>>
  BY <1>2 DEF LastSeq
<1>3. CASE e.per_unit # <<>>
  <2>1. e.per_unit[Len(e.per_unit)] \in PerUnit
    BY <1>1, <1>3
  <2> QED
    BY <1>3, <2>1, ContractAssumption DEF LastSeq, PerUnit
<1> QED
  BY <1>2, <1>3

---------------------------------------------------------------------------------
(***************************************************************************)
(* The meter: arithmetic of the cap, then one lemma per stretch.           *)
(***************************************************************************)

\* One more tick pays what one more verified unit is due.
LEMMA DueStep ==
  ASSUME NEW rate \in Nat, NEW cap \in Nat, NEW n \in Nat
  PROVE  LET paid == Lesser(rate * n, cap)
             due  == Lesser(rate * (n + 1), cap)
         IN  /\ paid \in Nat /\ due \in Nat /\ paid <= rate * n /\ paid <= cap
             /\ paid >= cap => due = paid
             /\ paid < cap => paid + Lesser(rate, cap - paid) = due
             /\ paid <= due /\ due <= rate * (n + 1)
<1>1. rate * (n + 1) = rate * n + rate /\ rate * n \in Nat
  OBVIOUS
<1> QED
  BY <1>1 DEF Lesser

\* A stream whose clock has not moved owes nothing.
LEMMA NothingOwed ==
  ASSUME NEW p \in Stream, p.drained <= p.max_total
  PROVE  Owed(p, p.at) = 0
<1>1. p.rate * (p.at - p.at) = 0
  BY DEF Stream
<1> QED
  BY <1>1 DEF Owed, Lesser, Stream

\* One tick behind, it owes the rate or what the cap leaves.
LEMMA OneTickOwed ==
  ASSUME NEW p \in Stream
  PROVE  Owed(p, p.at + 1) = Lesser(p.rate, p.max_total - p.drained)
<1>1. p.rate * ((p.at + 1) - p.at) = p.rate
  <2>1. (p.at + 1) - p.at = 1
    BY DEF Stream
  <2> QED
    BY <2>1 DEF Stream
<1> QED
  BY <1>1 DEF Owed

\* An open engine of one of the deals opens, well typed, its meter as the await asks.
OnMeter(opens, e, await, amount) ==
  /\ e \in EngineRecord(opens) /\ e.open_in \in opens /\ e.plugin \in Stream
  /\ Metered(e, await, amount)

\* Its rate, cap and counts are numbers, and what is due stays within both bounds.
LEMMA MeterNumbers ==
  ASSUME NEW opens \in SUBSET SettleOpenIn, NEW e, NEW await, NEW amount,
         OnMeter(opens, e, await, amount)
  PROVE  /\ e.open_in.rate \in Nat /\ e.open_in.max_total \in Nat
         /\ e.settled \in Int /\ e.tick \in Int
         /\ e.per_unit \in Seq(PerUnit)
         /\ Verified(e) \in Nat
         /\ Due(e) \in Nat /\ Due(e) <= e.open_in.max_total
         /\ Due(e) <= e.open_in.rate * Verified(e)
<1>1. e.open_in.rate \in Nat /\ e.open_in.max_total \in Nat
  BY DEF OnMeter, SettleOpenIn
<1>2. e.settled \in Int /\ e.tick \in Int /\ e.per_unit \in Seq(PerUnit)
  BY DEF OnMeter, EngineRecord
<1>3. Verified(e) \in Nat
  BY <1>2, VerifiedCountType DEF Verified
<1>4. Due(e) \in Nat /\ Due(e) <= e.open_in.max_total /\ Due(e) <= e.open_in.rate * Verified(e)
  BY <1>1, <1>3, DueStep DEF Due
<1> QED
  BY <1>1, <1>2, <1>3, <1>4

\* The meter reads the engine's fields, not its trace or the seqs it has seen.
LEMMA MeterFields ==
  ASSUME NEW e, NEW d, NEW await, NEW amount,
         \A f \in {"open_in", "plugin", "tick", "settled", "closed", "per_unit"} : d[f] = e[f]
  PROVE  Metered(d, await, amount) <=> Metered(e, await, amount)
BY DEF Metered, Settled, Unpaid, PaidOut, InStep, Due, Verified, Refused, Unmeterable

\* open() starts a meter at which nothing is due and nothing paid.
LEMMA MeterOpened ==
  ASSUME NEW opens \in SUBSET SettleOpenIn, NEW e \in EngineRecord(opens), NEW i \in opens,
         ~Unmeterable(i), ~e.closed, e.per_unit = <<>>, e.settled = 0, e.tick = 0
  PROVE  OnMeter(opens, Opened(e, i), "none", 0)
<1> DEFINE d == Opened(e, i)
<1>1. i.rate \in Nat /\ i.max_total \in Nat
  BY DEF SettleOpenIn
<1>2. /\ d \in EngineRecord(opens) /\ d.open_in = i
      /\ d.plugin = OpenStream(i.rate, i.max_total) /\ d.plugin \in Stream
      /\ ~d.closed /\ d.per_unit = <<>> /\ d.settled = 0 /\ d.tick = 0
  BY OpenedType
<1> HIDE DEF d
<1>3. VerifiedCount(d.per_unit) = 0
  BY <1>2, FS_EmptySet DEF VerifiedCount
<1>4. Lesser(i.rate * 0, i.max_total) = 0
  BY <1>1 DEF Lesser
<1>5. Settled(d) /\ ~Refused(d)
  BY <1>2, <1>3, <1>4 DEF Settled, InStep, Due, Verified, Refused, OpenStream
<1>6. d.plugin.rate = i.rate /\ d.plugin.max_total = i.max_total
  BY <1>2 DEF OpenStream
<1>7. Metered(d, "none", 0)
  BY <1>2, <1>5, <1>6 DEF Metered
<1> QED
  BY <1>2, <1>7 DEF OnMeter, d

\* advance() up to a digest that raises leaves the meter as it was.
LEMMA MeterReceived ==
  ASSUME NEW opens \in SUBSET SettleOpenIn, NEW e, OnMeter(opens, e, "none", 0),
         NEW u \in UnitIn
  PROVE  OnMeter(opens, Received(e, u), "none", 0)
<1>1. /\ Received(e, u) \in EngineRecord(opens)
      /\ \A f \in {"open_in", "plugin", "tick", "settled", "closed", "per_unit"} :
           Received(e, u)[f] = e[f]
  BY ReceivedType DEF OnMeter
<1>2. Metered(Received(e, u), "none", 0)
  BY <1>1, MeterFields DEF OnMeter
<1> QED
  BY <1>1, <1>2 DEF OnMeter

\* What judging a unit in an open, idle session does to the counts.
LEMMA MeterJudged ==
  ASSUME NEW opens \in SUBSET SettleOpenIn, NEW e, OnMeter(opens, e, "none", 0),
         ~e.closed, NEW u \in UnitIn
  PROVE  LET d == Judged(e, u)
         IN  /\ d \in EngineRecord(opens)
             /\ \A f \in {"open_in", "plugin", "tick", "settled", "closed"} : d[f] = e[f]
             /\ Verified(d) = IF ResultOf(e, u).passed THEN Verified(e) + 1 ELSE Verified(e)
             /\ ResultOf(e, u).passed => ~Refused(d)
<1>1. e \in EngineRecord(opens) /\ e.open_in \in opens /\ e.per_unit \in Seq(PerUnit)
  BY DEF OnMeter, EngineRecord
<1>2. ~Refused(e)
  BY DEF OnMeter, Metered
<1>3. PICK v \in PerUnit :
        /\ Judged(e, u).per_unit = Append(e.per_unit, v)
        /\ Passed(v) <=> ResultOf(e, u).passed
  BY <1>1, JudgedType
<1>4. VerifiedCount(Append(e.per_unit, v)) = IF Passed(v) THEN Verified(e) + 1 ELSE Verified(e)
  BY <1>1, VerifiedCountAppend DEF Verified
<1>5. ASSUME Passed(v) PROVE \A i \in DOMAIN Append(e.per_unit, v) :
                              Passed(Append(e.per_unit, v)[i])
  BY <1>1, <1>2, <1>5 DEF Refused
<1>6. /\ Judged(e, u) \in EngineRecord(opens)
      /\ \A f \in {"open_in", "plugin", "tick", "settled", "closed"} : Judged(e, u)[f] = e[f]
  BY <1>1, JudgedType
<1> QED
  BY <1>3, <1>4, <1>5, <1>6 DEF Verified, Refused

\* A unit that passes moves the clock before the money (engine.py:202).
LEMMA MeterPass ==
  ASSUME NEW opens \in SUBSET SettleOpenIn, NEW e, OnMeter(opens, e, "none", 0),
         ~e.closed, NEW u \in UnitIn, ResultOf(e, u).passed, Remaining(e) > 0
  PROVE  OnMeter(opens, Ticked(Judged(e, u)), "advance", 0)
<1> DEFINE j == Judged(e, u)
           d == Ticked(j)
<1>1. /\ j \in EngineRecord(opens)
      /\ \A f \in {"open_in", "plugin", "tick", "settled", "closed"} : j[f] = e[f]
      /\ Verified(j) = Verified(e) + 1 /\ ~Refused(j)
  BY MeterJudged
<1>2. /\ e.open_in.rate \in Nat /\ e.open_in.max_total \in Nat /\ e.settled \in Int
      /\ e.tick \in Int /\ Verified(e) \in Nat
  BY MeterNumbers
<1> HIDE DEF j
<1>3. /\ d \in EngineRecord(opens) /\ d.tick = e.tick + 1
      /\ \A f \in {"open_in", "plugin", "settled", "closed", "per_unit"} : d[f] = j[f]
  <2>1. j.tick = e.tick /\ j.tick + 1 \in Int
    BY <1>1, <1>2
  <2>2. d = [j EXCEPT !.tick = j.tick + 1]
    BY DEF Ticked
  <2> QED
    BY <1>1, <2>1, <2>2 DEF EngineRecord
<1> HIDE DEF d
<1>4. Verified(d) = Verified(e) + 1 /\ ~Refused(d)
  BY <1>1, <1>3 DEF Verified, Refused
<1>5. Verified(d) - 1 = Verified(e) /\ Verified(d) >= 1 /\ d.tick - 1 = e.tick
  BY <1>2, <1>3, <1>4
<1>6. e.settled < e.open_in.max_total
  BY <1>2 DEF Remaining
<1>7. d.open_in = e.open_in /\ d.plugin = e.plugin /\ d.settled = e.settled /\ d.closed = e.closed
  BY <1>1, <1>3
<1>8. Unpaid(d)
  BY <1>4, <1>5, <1>6, <1>7 DEF Unpaid, OnMeter, Metered, Settled, InStep, Due
<1>9. Metered(d, "advance", 0)
  BY <1>7, <1>8 DEF OnMeter, Metered
<1> QED
  BY <1>3, <1>7, <1>9 DEF OnMeter, d, j

\* One that passes when the cap is used up, and one that fails, leave nothing owed.
LEMMA MeterStops ==
  ASSUME NEW opens \in SUBSET SettleOpenIn, NEW e, OnMeter(opens, e, "none", 0),
         ~e.closed, NEW u \in UnitIn, ResultOf(e, u).passed => Remaining(e) <= 0
  PROVE  OnMeter(opens, Judged(e, u), "close_stream", 0)
<1> DEFINE d == Judged(e, u)
           rate == e.open_in.rate
           cap == e.open_in.max_total
<1>1. /\ d \in EngineRecord(opens)
      /\ \A f \in {"open_in", "plugin", "tick", "settled", "closed"} : d[f] = e[f]
      /\ Verified(d) = IF ResultOf(e, u).passed THEN Verified(e) + 1 ELSE Verified(e)
  BY MeterJudged
<1>2. rate \in Nat /\ cap \in Nat /\ e.settled \in Int /\ Verified(e) \in Nat
  BY MeterNumbers
<1>3. e.settled = Lesser(rate * Verified(e), cap)
  BY DEF OnMeter, Metered, Settled, Due
<1> HIDE DEF d
<1>4. Lesser(rate * Verified(d), cap) = e.settled
  <2>1. CASE ResultOf(e, u).passed
    <3>1. Lesser(rate * Verified(e), cap) >= cap /\ Verified(d) = Verified(e) + 1
      BY <1>1, <1>2, <1>3, <2>1 DEF Remaining
    <3> HIDE DEF rate, cap
    <3>2. Lesser(rate * (Verified(e) + 1), cap) = Lesser(rate * Verified(e), cap)
      BY <1>2, <3>1, DueStep
    <3> QED
      BY <1>3, <3>1, <3>2
  <2>2. CASE ~ResultOf(e, u).passed
    BY <1>1, <1>3, <2>2
  <2> QED
    BY <2>1, <2>2
<1>5. Settled(d)
  BY <1>1, <1>4 DEF OnMeter, Metered, Settled, InStep, Due
<1>6. Metered(d, "close_stream", 0)
  BY <1>1, <1>5 DEF OnMeter, Metered
<1> QED
  BY <1>1, <1>6 DEF OnMeter, d

\* close() asks the plugin at once (engine.py:219-221).
LEMMA MeterCloses ==
  ASSUME NEW opens, NEW e, OnMeter(opens, e, "none", 0), ~e.closed
  PROVE  OnMeter(opens, e, "close_stream", 0)
BY DEF OnMeter, Metered

\* The plugin pays for the tick that has elapsed, as far as the cap goes.
LEMMA MeterPays ==
  ASSUME NEW opens \in SUBSET SettleOpenIn, NEW e, NEW n, OnMeter(opens, e, "advance", n)
  PROVE  LET owed == Owed(e.plugin, e.tick)
         IN  /\ owed \in Nat
             /\ OnMeter(opens, [e EXCEPT !.plugin = AdvanceStream(@, e.tick)], "drained", owed)
<1> DEFINE owed == Owed(e.plugin, e.tick)
           p == AdvanceStream(e.plugin, e.tick)
           d == [e EXCEPT !.plugin = AdvanceStream(@, e.tick)]
           rate == e.open_in.rate
           cap == e.open_in.max_total
           m == Verified(e) - 1
<1>1. /\ rate \in Nat /\ cap \in Nat /\ e.settled \in Int /\ e.tick \in Int
      /\ Verified(e) \in Nat /\ e.plugin \in Stream /\ e \in EngineRecord(opens)
  BY MeterNumbers DEF OnMeter
<1>2. /\ Unpaid(e) /\ ~e.closed /\ ~Unmeterable(e.open_in)
      /\ e.plugin.rate = rate /\ e.plugin.max_total = cap
  BY DEF OnMeter, Metered
<1>3. owed = Lesser(rate, cap - e.settled)
  <2>1. e.tick = e.plugin.at + 1
    BY <1>1, <1>2 DEF Unpaid, Stream
  <2> QED
    BY <1>1, <1>2, <2>1, OneTickOwed DEF Unpaid
<1>4. /\ p.at = e.tick /\ p.drained = e.settled + owed /\ p \in Stream
      /\ p.rate = rate /\ p.max_total = cap
  BY <1>1, <1>2, StreamType DEF AdvanceStream, Stream, Unpaid
<1>5. m \in Nat /\ Verified(e) = m + 1 /\ e.settled = Lesser(rate * m, cap) /\ e.settled < cap
  BY <1>1, <1>2 DEF Unpaid
<1>6. d = [e EXCEPT !.plugin = p]
  OBVIOUS
<1> HIDE DEF owed, p, d, m
<1>7. e.settled + owed = Due(e) /\ e.settled \in Nat /\ e.settled <= Due(e)
  BY <1>1, <1>3, <1>5, DueStep DEF Due
<1>8. owed \in Nat
  <2>1. Due(e) \in Nat
    BY MeterNumbers
  <2>2. owed \in Int
    BY <1>1, StreamType DEF owed
  <2> QED
    BY <1>1, <1>7, <2>1, <2>2
<1>9. /\ d \in EngineRecord(opens) /\ d.plugin = p
      /\ \A f \in {"open_in", "tick", "settled", "closed", "per_unit"} : d[f] = e[f]
  BY <1>1, <1>4, <1>6 DEF EngineRecord
<1>10. PaidOut(d, owed)
  BY <1>2, <1>4, <1>7, <1>9 DEF PaidOut, Unpaid, Due, Verified, Refused
<1>11. Metered(d, "drained", owed)
  BY <1>2, <1>4, <1>9, <1>10 DEF Metered
<1> QED
  BY <1>4, <1>8, <1>9, <1>11 DEF OnMeter, owed, d

\* Adding the amount up settles the account.
LEMMA MeterBilled ==
  ASSUME NEW opens \in SUBSET SettleOpenIn, NEW e, NEW s \in Nat, NEW n \in Int,
         OnMeter(opens, e, "drained", n)
  PROVE  /\ OnMeter(opens, Billed(e, s, n), "none", 0)
         /\ n >= 0
<1> DEFINE d == Billed(e, s, n)
<1>1. /\ e \in EngineRecord(opens) /\ e.open_in \in opens /\ PaidOut(e, n)
      /\ ~e.closed /\ e.settled \in Int /\ Due(e) \in Nat
  BY MeterNumbers DEF OnMeter, Metered
<1>2. /\ d \in EngineRecord(opens) /\ d.settled = e.settled + n
      /\ \A f \in {"open_in", "plugin", "tick", "closed", "per_unit"} : d[f] = e[f]
  BY <1>1, BilledType
<1> HIDE DEF d
<1>3. Settled(d) /\ ~Refused(d)
  BY <1>1, <1>2 DEF Settled, InStep, PaidOut, Due, Verified, Refused
<1>4. Metered(d, "none", 0)
  BY <1>2, <1>3 DEF OnMeter, Metered
<1>5. n >= 0
  BY <1>1 DEF PaidOut
<1> QED
  BY <1>2, <1>4, <1>5 DEF OnMeter, d

\* The plugin's close pays nothing, settle what it may: nothing is owed by then.
LEMMA MeterPluginCloses ==
  ASSUME NEW opens \in SUBSET SettleOpenIn, NEW e, NEW n, OnMeter(opens, e, "close_stream", n),
         NEW p \in CloseStream(e.plugin, e.tick)
  PROVE  /\ OnMeter(opens, [e EXCEPT !.plugin = p], "receipt", p.drained)
         /\ p.drained = e.settled /\ p.drained = e.plugin.drained
<1> DEFINE d == [e EXCEPT !.plugin = p]
<1>1. /\ e \in EngineRecord(opens) /\ e.open_in \in opens /\ e.plugin \in Stream
      /\ Settled(e) /\ ~e.closed /\ ~Unmeterable(e.open_in)
      /\ e.plugin.rate = e.open_in.rate /\ e.plugin.max_total = e.open_in.max_total
  BY DEF OnMeter, Metered
<1>2. Due(e) <= e.open_in.max_total /\ e.settled \in Int /\ e.tick \in Int
  BY MeterNumbers
<1>3. Owed(e.plugin, e.tick) = 0
  BY <1>1, <1>2, NothingOwed DEF Settled, InStep
<1>4. /\ e.plugin.at = e.tick /\ e.plugin.drained = e.settled
      /\ e.plugin.drained + 0 = e.settled
  BY <1>1 DEF Settled, InStep, Stream
<1>5. \/ p = [e.plugin EXCEPT !.open = FALSE]
      \/ p = [e.plugin EXCEPT !.open = FALSE, !.drained = e.plugin.drained + 0, !.at = e.tick]
  BY <1>3 DEF CloseStream
<1>6. /\ p.at = e.tick /\ p.drained = e.settled
      /\ p.rate = e.open_in.rate /\ p.max_total = e.open_in.max_total
  BY <1>1, <1>4, <1>5 DEF Stream
<1>7. p \in Stream
  BY <1>1, <1>2, StreamType
<1>8. /\ d \in EngineRecord(opens) /\ d.plugin = p
      /\ \A f \in {"open_in", "tick", "settled", "closed", "per_unit"} : d[f] = e[f]
  BY <1>1, <1>7 DEF EngineRecord
<1> HIDE DEF d
<1>9. Settled(d)
  BY <1>1, <1>6, <1>8 DEF Settled, InStep, Due, Verified
<1>10. Metered(d, "receipt", p.drained)
  BY <1>1, <1>6, <1>8, <1>9 DEF Metered
<1> QED
  BY <1>1, <1>4, <1>6, <1>7, <1>8, <1>10 DEF OnMeter, d

\* Taking the plugin's total over closes the session with the total it had.
LEMMA MeterClosed ==
  ASSUME NEW opens \in SUBSET SettleOpenIn, NEW e, NEW s \in Nat, NEW n \in Int,
         NEW why \in CloseReason, OnMeter(opens, e, "receipt", n)
  PROVE  /\ OnMeter(opens, ClosedWith(e, s, n, why), "none", 0)
         /\ ClosedWith(e, s, n, why).settled = e.settled
<1> DEFINE d == ClosedWith(e, s, n, why)
<1>1. /\ e \in EngineRecord(opens) /\ e.open_in \in opens /\ Settled(e) /\ n = e.settled
  BY DEF OnMeter, Metered
<1>2. /\ d \in EngineRecord(opens) /\ d.settled = n /\ d.closed
      /\ \A f \in {"open_in", "plugin", "tick", "per_unit"} : d[f] = e[f]
  BY <1>1, ClosedWithType
<1> HIDE DEF d
<1>3. Settled(d)
  BY <1>1, <1>2 DEF Settled, InStep, Due, Verified
<1>4. Metered(d, "none", 0)
  BY <1>2, <1>3 DEF OnMeter, Metered
<1> QED
  BY <1>1, <1>2, <1>4 DEF OnMeter, d

\* Whatever the await, the total is within rate for each verified unit and the cap.
LEMMA MeterBounds ==
  ASSUME NEW opens \in SUBSET SettleOpenIn, NEW e, NEW n,
         NEW await \in {"none", "advance", "drained", "close_stream", "receipt"},
         OnMeter(opens, e, await, n)
  PROVE  e.settled <= e.open_in.rate * Verified(e) /\ e.settled <= e.open_in.max_total
<1> DEFINE rate == e.open_in.rate
           cap == e.open_in.max_total
<1>1. /\ rate \in Nat /\ cap \in Nat /\ Verified(e) \in Nat /\ e.settled \in Int
      /\ Due(e) \in Nat /\ Due(e) <= rate * Verified(e) /\ Due(e) <= cap
  BY MeterNumbers
<1>2. CASE await = "advance"
  <2> DEFINE m == Verified(e) - 1
  <2>1. m \in Nat /\ Verified(e) = m + 1 /\ e.settled = Lesser(rate * m, cap)
    BY <1>1, <1>2 DEF OnMeter, Metered, Unpaid
  <2> HIDE DEF m, rate, cap
  <2>2. rate \in Nat /\ cap \in Nat
    BY <1>1
  <2>3. /\ Lesser(rate * m, cap) <= Lesser(rate * (m + 1), cap)
        /\ Lesser(rate * (m + 1), cap) <= rate * (m + 1)
        /\ Lesser(rate * m, cap) <= cap
        /\ Lesser(rate * (m + 1), cap) \in Nat
    BY <2>1, <2>2, DueStep
  <2>4. rate * (m + 1) \in Nat
    BY <2>1, <2>2
  <2>5. e.settled <= rate * (m + 1) /\ e.settled <= cap
    BY <1>1, <2>1, <2>3, <2>4
  <2> QED
    BY <2>1, <2>5 DEF rate, cap
<1>3. CASE await # "advance"
  <2>1. e.settled <= Due(e)
    BY <1>1, <1>3 DEF OnMeter, Metered, Settled, PaidOut
  <2>2. rate * Verified(e) \in Nat
    BY <1>1
  <2> QED
    BY <1>1, <2>1, <2>2
<1> QED
  BY <1>2, <1>3

---------------------------------------------------------------------------------
(***************************************************************************)
(* Sequences that grow.                                                    *)
(***************************************************************************)

\* t extends s, position by position.
Extends(s, t) == Len(s) <= Len(t) /\ \A i \in 1 .. Len(s) : t[i] = s[i]

\* That is what IsPrefix says.
LEMMA ExtendsIsPrefix ==
  ASSUME NEW S, NEW s \in Seq(S), NEW t \in Seq(S), Extends(s, t)
  PROVE  IsPrefix(s, t)
<1> DEFINE n == Len(s)
<1>1. n \in Nat /\ Len(t) \in Nat /\ n <= Len(t)
  BY DEF Extends
<1>2. SubSeq(s, 1, n) = s
  BY SubSeqFull
<1>3. /\ SubSeq(t, 1, n) \in Seq(S) /\ Len(SubSeq(t, 1, n)) = n
      /\ \A i \in 1 .. n : SubSeq(t, 1, n)[i] = t[i]
  BY <1>1, SubSeqProperties
<1>4. SubSeq(t, 1, n) = s
  BY <1>1, <1>3, SeqEqual DEF Extends
<1> QED
  BY <1>1, <1>2, <1>4 DEF IsPrefix

\* A sequence extends itself, what it extended before one more element came, and what
\* that extended.
LEMMA ExtendsGrows ==
  ASSUME NEW S, NEW s \in Seq(S), NEW t \in Seq(S), NEW x
  PROVE  /\ Extends(s, s)
         /\ Extends(s, t) => Extends(s, Append(t, x))
         /\ \A r \in Seq(S) : Extends(r, s) /\ Extends(s, t) => Extends(r, t)
<1>1. Extends(s, s)
  BY DEF Extends
<1>2. Extends(s, t) => Extends(s, Append(t, x))
  BY DEF Extends
<1>3. \A r \in Seq(S) : Extends(r, s) /\ Extends(s, t) => Extends(r, t)
  BY DEF Extends
<1> QED
  BY <1>1, <1>2, <1>3

\* d differs from e at most in its plugin and its tick.
SameBooks(e, d) ==
  \A f \in {"open_in", "settled", "closed", "per_unit", "seen_seqs", "trace"} : d[f] = e[f]

(***************************************************************************)
(* What each stretch writes.                                               *)
(***************************************************************************)

\* Receiving a unit marks its seq and adds one ack line, the verdict's own in L1.
LEMMA ReceivedRecords ==
  ASSUME NEW opens \in SUBSET SettleOpenIn, NEW e \in EngineRecord(opens),
         e.open_in \in opens, NEW u \in UnitIn
  PROVE  /\ Received(e, u).seen_seqs = e.seen_seqs \cup {u.seq}
         /\ \E l \in Line :
              /\ l.kind = "ack" /\ Received(e, u).trace = Append(e.trace, l)
              /\ CriterionOf(e) = "ack_received" => l = AckL1Line(e.open_in.ref, u.seq)
<1> DEFINE l == IF CriterionOf(e) = "ack_received" THEN AckL1Line(e.open_in.ref, u.seq)
                ELSE AckContentLine(e.open_in.ref, u.seq, u.chunk, u.declared_checksum)
<1>1. /\ u.seq \in Nat /\ u.chunk \in Chunk /\ u.declared_checksum \in Sha256Hex \cup {Null}
      /\ e.open_in.ref \in Ref
  BY ContractAssumption DEF UnitIn, SettleOpenIn
<1>2. AckL1Line(e.open_in.ref, u.seq) \in Line /\ AckL1Line(e.open_in.ref, u.seq).kind = "ack"
  BY <1>1 DEF Line, AckL1Line
<1>3. /\ AckContentLine(e.open_in.ref, u.seq, u.chunk, u.declared_checksum) \in Line
      /\ AckContentLine(e.open_in.ref, u.seq, u.chunk, u.declared_checksum).kind = "ack"
  BY <1>1 DEF Line, AckContentLine
<1>4. l \in Line /\ l.kind = "ack"
  BY <1>2, <1>3
<1>5. Received(e, u) = [e EXCEPT !.seen_seqs = e.seen_seqs \cup {u.seq},
                                 !.trace = Append(e.trace, l)]
  BY DEF Received
<1>6. CriterionOf(e) = "ack_received" => l = AckL1Line(e.open_in.ref, u.seq)
  OBVIOUS
<1> HIDE DEF l
<1> QED
  BY <1>4, <1>5, <1>6 DEF EngineRecord

\* Judging it adds no tick line, and ends, when the unit passes, on the line that clears it.
LEMMA JudgedRecords ==
  ASSUME NEW opens \in SUBSET SettleOpenIn, NEW e \in EngineRecord(opens),
         e.open_in \in opens, NEW u \in UnitIn
  PROVE  /\ Judged(e, u).seen_seqs = e.seen_seqs \cup {u.seq}
         /\ Judged(e, u).per_unit =
              Append(e.per_unit, [seq |-> u.seq,
                                  verdict |-> IF ResultOf(e, u).passed THEN "pass" ELSE "fail",
                                  reason |-> ResultOf(e, u).reason])
         /\ \E l \in Line, m \in Line :
              /\ l.kind # "tick" /\ m.kind # "tick"
              /\ \/ Judged(e, u).trace = Append(e.trace, l)
                 \/ Judged(e, u).trace = Append(Append(e.trace, m), l)
              /\ ResultOf(e, u).passed =>
                   l \in {GateLine(e.open_in.ref, u.seq, TRUE), AckL1Line(e.open_in.ref, u.seq)}
<1> DEFINE r == ResultOf(e, u)
           v == [seq |-> u.seq, verdict |-> IF r.passed THEN "pass" ELSE "fail",
                 reason |-> r.reason]
           ref == e.open_in.ref
           gate == GateLine(ref, u.seq, r.passed)
           d == Judged(e, u)
           c == Received(e, u)
<1>1. PICK m \in Line : /\ m.kind = "ack" /\ c.trace = Append(e.trace, m)
                        /\ CriterionOf(e) = "ack_received" => m = AckL1Line(ref, u.seq)
  BY ReceivedRecords
<1>2. u.seq \in Nat /\ ref \in Ref /\ r.passed \in BOOLEAN
  BY EvaluateUnitType, ContractAssumption DEF UnitIn, SettleOpenIn, ResultOf
<1>3. gate \in Line /\ gate.kind = "gate" /\ (r.passed => gate = GateLine(ref, u.seq, TRUE))
  BY <1>2 DEF Line, GateLine, Verdict
<1>4. /\ c \in EngineRecord(opens) /\ c.per_unit = e.per_unit
      /\ c.seen_seqs = e.seen_seqs \cup {u.seq}
  BY ReceivedType, ReceivedRecords
<1> HIDE DEF c, r, gate
<1>5. d = [c EXCEPT !.per_unit = Append(c.per_unit, v),
                    !.trace = IF CriterionOf(e) = "ack_received" THEN c.trace
                              ELSE Append(c.trace, gate)]
  BY DEF Judged, c, r, gate
<1> HIDE DEF v, d
<1>6. /\ d.seen_seqs = e.seen_seqs \cup {u.seq} /\ d.per_unit = Append(e.per_unit, v)
      /\ d.trace = IF CriterionOf(e) = "ack_received" THEN c.trace ELSE Append(c.trace, gate)
  BY <1>4, <1>5 DEF EngineRecord
<1>7. CASE CriterionOf(e) = "ack_received"
  BY <1>1, <1>6, <1>7 DEF v, d, r
<1>8. CASE CriterionOf(e) # "ack_received"
  BY <1>1, <1>3, <1>6, <1>8 DEF v, d, r
<1> QED
  BY <1>7, <1>8

(***************************************************************************)
(* What the ladder decides, said without an order of checks.               *)
(***************************************************************************)

\* A unit passes if and only if its checksum is that of its bytes, where the criterion asks
\* for one, and its bytes are the committed ones and name the deal, where it asks for that.
LEMMA LadderPasses ==
  ASSUME NEW e, e.open_in \in SettleOpenIn, NEW u \in UnitIn
  PROVE  LET t == e.open_in
             k == t.committed_reference.criterion
             expected == t.committed_reference.expected
         IN  ResultOf(e, u).passed
               <=> /\ k # "ack_received" => u.declared_checksum = Digest(Algo, u.chunk)
                   /\ k = "artifact_match" => /\ u.seq \in DOMAIN expected
                                              /\ expected[u.seq] = Digest("sha256", u.chunk)
                                              /\ t.ref \in Embedded[u.chunk]
<1> DEFINE t == e.open_in
           k == t.committed_reference.criterion
           expected == t.committed_reference.expected
<1>1. /\ t.ref \in Ref /\ t.ref # Null /\ k \in Criterion
      /\ u.declared_checksum \in Sha256Hex \cup {Null} /\ u.chunk \in Chunk
  BY NullAssumption DEF SettleOpenIn, CommittedReference, UnitIn
<1>n. Null \notin Sha256Hex
  BY NullAssumption DEF Sha256Hex, AlgorithmsAvailable
<1>2. \A s \in DOMAIN expected : expected[s] \in Sha256Hex /\ expected[s] # Null
  BY <1>n DEF SettleOpenIn, CommittedReference, ExpectedMap
<1>3. Digest("sha256", u.chunk) \in Sha256Hex /\ Digest("sha256", u.chunk) # Null
  BY <1>1, <1>n DEF Digest, Sha256Hex, Sha256SizedAlgos
<1>4. ExpectedFor(e, u) = IF k = "artifact_match" /\ u.seq \in DOMAIN expected
                          THEN expected[u.seq] ELSE Null
  BY DEF ExpectedFor, CriterionOf
<1>5. Digest(Algo, u.chunk) # Null
  BY <1>1, NullAssumption, AlgoAssumption DEF Digest
<1>6. u.declared_checksum # Null /\ u.declared_checksum = Digest(Algo, u.chunk)
      <=> u.declared_checksum = Digest(Algo, u.chunk)
  BY <1>5
<1> DEFINE x == ExpectedFor(e, u)
<1>7. x # Null /\ Digest("sha256", u.chunk) = x
      <=> k = "artifact_match" /\ u.seq \in DOMAIN expected
          /\ expected[u.seq] = Digest("sha256", u.chunk)
  BY <1>2, <1>3, <1>4
<1> HIDE DEF x, k, expected, t
<1>8. ResultOf(e, u).passed
        <=> /\ k # "ack_received" => u.declared_checksum # Null
                                     /\ Digest(Algo, u.chunk) = u.declared_checksum
            /\ k = "artifact_match" => /\ x # Null
                                       /\ Digest("sha256", u.chunk) = x
                                       /\ t.ref \in Embedded[u.chunk]
  BY <1>1 DEF ResultOf, EvaluateUnit, ContextOf, L1Ack, L2Checksum, L3ArtifactMatch, DigestHex,
              GateResult, CriterionOf, Criterion, x, k, t
<1> QED
  BY <1>6, <1>7, <1>8 DEF k, expected, t

(***************************************************************************)
(* What no stretch takes back.                                             *)
(***************************************************************************)
Grows(e, d) ==
  /\ d.open_in = e.open_in
  /\ Extends(e.per_unit, d.per_unit)
  /\ Extends(e.trace, d.trace)
  /\ e.settled <= d.settled

\* A stretch that leaves these alone takes nothing back.
LEMMA GrowsStill ==
  ASSUME NEW opens, NEW e \in EngineRecord(opens), NEW d,
         \A f \in {"open_in", "per_unit", "trace", "settled"} : d[f] = e[f]
  PROVE  Grows(e, d)
BY ExtendsGrows DEF Grows, EngineRecord

\* Receiving a unit adds a line.
LEMMA GrowsReceived ==
  ASSUME NEW opens \in SUBSET SettleOpenIn, NEW e \in EngineRecord(opens),
         e.open_in \in opens, NEW u \in UnitIn
  PROVE  Grows(e, Received(e, u))
<1>0. e.per_unit \in Seq(PerUnit) /\ e.trace \in Seq(Line) /\ e.settled \in Int
  BY DEF EngineRecord
<1>1. PICK l \in Line : Received(e, u).trace = Append(e.trace, l)
  BY ReceivedRecords
<1>2. \A f \in {"open_in", "settled", "per_unit"} : Received(e, u)[f] = e[f]
  BY ReceivedType
<1> QED
  BY <1>0, <1>1, <1>2, ExtendsGrows DEF Grows

\* Judging it adds a verdict and one or two lines, with or without the tick.
LEMMA GrowsJudged ==
  ASSUME NEW opens \in SUBSET SettleOpenIn, NEW e \in EngineRecord(opens),
         e.open_in \in opens, NEW u \in UnitIn
  PROVE  Grows(e, Judged(e, u)) /\ Grows(e, Ticked(Judged(e, u)))
<1> DEFINE j == Judged(e, u)
<1>0. e.per_unit \in Seq(PerUnit) /\ e.trace \in Seq(Line) /\ e.settled \in Int
  BY DEF EngineRecord
<1>1. j \in EngineRecord(opens) /\ \A f \in {"open_in", "settled"} : j[f] = e[f]
  BY JudgedType
<1>2. PICK v \in PerUnit : j.per_unit = Append(e.per_unit, v)
  BY JudgedType
<1>3. PICK l \in Line, m \in Line :
        /\ l.kind # "tick" /\ m.kind # "tick"
        /\ \/ j.trace = Append(e.trace, l)
           \/ j.trace = Append(Append(e.trace, m), l)
        /\ ResultOf(e, u).passed =>
             l \in {GateLine(e.open_in.ref, u.seq, TRUE), AckL1Line(e.open_in.ref, u.seq)}
  BY JudgedRecords, Zenon
<1> HIDE DEF j
<1>4. Append(e.trace, m) \in Seq(Line)
  BY <1>0
<1>5. /\ Extends(e.trace, e.trace) /\ Extends(e.trace, Append(e.trace, l))
      /\ Extends(e.trace, Append(e.trace, m))
  BY <1>0, ExtendsGrows
<1>6. Extends(e.trace, Append(Append(e.trace, m), l))
  BY <1>0, <1>4, <1>5, ExtendsGrows
<1>7. Extends(e.per_unit, Append(e.per_unit, v))
  BY <1>0, ExtendsGrows
<1>8. Grows(e, j)
  <2>1. Extends(e.trace, j.trace)
    BY <1>3, <1>5, <1>6
  <2>2. Extends(e.per_unit, j.per_unit)
    BY <1>2, <1>7
  <2> QED
    BY <1>0, <1>1, <2>1, <2>2 DEF Grows
<1>9. \A f \in {"open_in", "per_unit", "trace", "settled"} : Ticked(j)[f] = j[f]
  BY <1>1 DEF Ticked, EngineRecord
<1>10. Grows(e, Ticked(j))
  BY <1>8, <1>9 DEF Grows
<1> QED
  BY <1>8, <1>10 DEF j

\* Billing adds an amount that is not negative, and its line.
LEMMA GrowsBilled ==
  ASSUME NEW opens \in SUBSET SettleOpenIn, NEW e, NEW s \in Nat, NEW n \in Int,
         OnMeter(opens, e, "drained", n)
  PROVE  Grows(e, Billed(e, s, n))
<1>0. /\ e \in EngineRecord(opens) /\ e.open_in \in opens
      /\ e.per_unit \in Seq(PerUnit) /\ e.trace \in Seq(Line) /\ e.settled \in Int
  BY DEF OnMeter, EngineRecord
<1>1. n >= 0
  BY MeterBilled
<1>2. /\ Billed(e, s, n).open_in = e.open_in /\ Billed(e, s, n).per_unit = e.per_unit
      /\ Billed(e, s, n).settled = e.settled + n
  BY <1>0, BilledType
<1>3. Billed(e, s, n).trace = Append(e.trace, TickLine(e.open_in.ref, s, n, e.tick))
  BY <1>0 DEF Billed, EngineRecord
<1> DEFINE d == Billed(e, s, n)
<1> HIDE DEF d
<1>4. Grows(e, d)
  BY <1>0, <1>1, <1>2, <1>3, ExtendsGrows DEF Grows, d
<1> QED
  BY <1>4 DEF d

\* Closing adds its line and keeps the total.
LEMMA GrowsClosed ==
  ASSUME NEW opens \in SUBSET SettleOpenIn, NEW e, NEW s \in Nat, NEW n \in Int,
         NEW why \in CloseReason, OnMeter(opens, e, "receipt", n)
  PROVE  Grows(e, ClosedWith(e, s, n, why))
<1> DEFINE d == ClosedWith(e, s, n, why)
<1>0. /\ e \in EngineRecord(opens) /\ e.open_in \in opens
      /\ e.per_unit \in Seq(PerUnit) /\ e.trace \in Seq(Line) /\ e.settled \in Int
  BY DEF OnMeter, EngineRecord
<1>1. d.settled = e.settled
  BY MeterClosed
<1>2. d.open_in = e.open_in /\ d.per_unit = e.per_unit
  BY <1>0, ClosedWithType
<1>3. d.trace = Append(e.trace, StreamCloseLine(e.open_in.ref, s, n, e.tick, why))
  BY <1>0 DEF ClosedWith, EngineRecord
<1> HIDE DEF d
<1>4. Grows(e, d)
  BY <1>0, <1>1, <1>2, <1>3, ExtendsGrows DEF Grows
<1> QED
  BY <1>4 DEF d
==================================================================================
