--------------------------- MODULE EngineRecordProofs ---------------------------
(***************************************************************************)
(* What a SettlementEngine keeps on record: the seqs it has seen, its      *)
(* verdicts, its trace and the answers it gave, and with it that the       *)
(* engine keeps the promise of Settlement.                                 *)
(***************************************************************************)
EXTENDS SettlementEngineProofs, TraceProofs

(***************************************************************************)
(* Answers are cumulative.                                                 *)
(***************************************************************************)

\* Verdicts and lines are only appended, and the total only goes up.
LEMMA GrowsStep ==
  ASSUME TypeOK, TypeOK', MeterInv, [Next]_vars, IsOpened(eng)
  PROVE  Grows(eng, eng')
<1>a. /\ OpenInputs \in SUBSET SettleOpenIn /\ Null \notin OpenInputs
      /\ \A u \in UnitInputs : u \in UnitIn
  BY InputAssumption
<1>b. /\ eng \in Engine /\ eng \in EngineRecord(OpenInputs) /\ eng.open_in \in OpenInputs
      /\ eng.per_unit \in Seq(PerUnit) /\ eng.trace \in Seq(Line) /\ eng.settled \in Int
      /\ call.amount \in Int /\ call.seq \in Nat /\ call.reason \in CloseReason
      /\ OnMeter(OpenInputs, eng, call.await, call.amount)
  BY OpenOnMeter DEF TypeOK, Engine, EngineRecord, IsOpened, Call
<1>1. CASE UNCHANGED eng
  BY <1>1, <1>b, GrowsStill
<1>2. ASSUME NEW p, eng' = [eng EXCEPT !.plugin = p] PROVE Grows(eng, eng')
  <2>1. \A f \in {"open_in", "per_unit", "trace", "settled"} : eng'[f] = eng[f]
    BY <1>2, <1>b DEF EngineRecord
  <2> QED
    BY <1>b, <2>1, GrowsStill
<1>3. ASSUME NEW u \in UnitInputs, eng' = Received(eng, u) PROVE Grows(eng, eng')
  BY <1>3, <1>a, <1>b, GrowsReceived
<1>4. ASSUME NEW u \in UnitInputs, eng' = Judged(eng, u) \/ eng' = Ticked(Judged(eng, u))
      PROVE  Grows(eng, eng')
  <2>1. Grows(eng, Judged(eng, u)) /\ Grows(eng, Ticked(Judged(eng, u)))
    BY <1>a, <1>b, GrowsJudged
  <2> QED
    BY <1>4, <2>1
<1>5. CASE AdvanceResume
  <2>1. /\ eng' = Billed(eng, call.seq, call.amount)
        /\ OnMeter(OpenInputs, eng, "drained", call.amount)
    BY <1>5, <1>b DEF AdvanceResume
  <2> QED
    BY <1>a, <1>b, <2>1, GrowsBilled
<1>6. CASE CloseResume
  <2>1. /\ eng' = ClosedWith(eng, call.seq, call.amount, call.reason)
        /\ OnMeter(OpenInputs, eng, "receipt", call.amount)
    BY <1>6, <1>b DEF CloseResume
  <2> QED
    BY <1>a, <1>b, <2>1, GrowsClosed
<1>7. ~OpenResume
  BY DEF OpenResume, TypeOK, IsOpened
<1> QED
  BY <1>1, <1>2, <1>3, <1>4, <1>5, <1>6, <1>7 DEF Next, OpenAgain, OpenRefused, OpenBegin,
     BeforeOpen, RefMismatch, AdvanceClosed, Advance, AdvanceDuplicate, AdvanceRaises,
     AdvancePass, AdvanceCapReached, AdvanceFail, CloseBegin, CloseAgain, Resume,
     PluginAdvance, PluginClose, vars

\* The last answer is a part of what the engine has on record.
AnswerOnRecord ==
  out # Null =>
    /\ IsOpened(eng)
    /\ out.per_unit \in Seq(PerUnit) /\ out.trace \in Seq(Line) /\ out.settled_total \in Int
    /\ Extends(out.per_unit, eng.per_unit)
    /\ Extends(out.trace, eng.trace)
    /\ out.settled_total <= eng.settled
    /\ out.settled_total + out.remainder_unspent = eng.open_in.max_total

\* An answer is either the old one or a snapshot of an open engine.
LEMMA AnswerStep ==
  ASSUME TypeOK, TypeOK', [Next]_vars, MeterInv
  PROVE  out' = out \/ (out' = Snapshot(eng') /\ IsOpened(eng'))
<1>1. CASE OpenResume
  <2>1. call.open_in \in OpenInputs /\ eng \in EngineRecord(OpenInputs)
    BY <1>1 DEF OpenResume, TypeOK, Call, Engine
  <2>2. eng'.open_in = call.open_in
    BY <1>1, <2>1, InputAssumption, OpenedType DEF OpenResume
  <2> QED
    BY <1>1, <2>1, <2>2, InputAssumption DEF OpenResume, Returns, IsOpened
<1>2. ASSUME IsOpened(eng) PROVE IsOpened(eng')
  BY <1>2, GrowsStep DEF Grows, IsOpened
<1>3. CASE AdvanceResume \/ CloseResume
  <2>1. IsOpened(eng)
    BY <1>3 DEF AdvanceResume, CloseResume, TypeOK, IsOpened
  <2>2. out' = Snapshot(eng')
    BY <1>3 DEF AdvanceResume, CloseResume, Returns
  <2> QED
    BY <1>2, <2>1, <2>2
<1>4. CASE AdvanceClosed \/ CloseAgain
  <2>1. IsOpened(eng) /\ out' = Snapshot(eng')
    BY <1>4 DEF AdvanceClosed, CloseAgain, Returns
  <2> QED
    BY <1>2, <2>1
<1>5. OpenAgain \/ BeforeOpen \/ RefMismatch => out' = out
  BY DEF OpenAgain, BeforeOpen, RefMismatch, Raise
<1>6. ASSUME NEW i \in OpenInputs, OpenRefused(i) \/ OpenBegin(i) PROVE out' = out
  BY <1>6 DEF OpenRefused, OpenBegin, Raise, Suspends
<1>7. ASSUME NEW u \in UnitInputs, Advance(u) PROVE out' = out
  BY <1>7 DEF Advance, AdvanceDuplicate, AdvanceRaises, AdvancePass, AdvanceCapReached,
     AdvanceFail, Raise, Suspends
<1>8. CloseBegin \/ PluginAdvance \/ PluginClose \/ UNCHANGED vars => out' = out
  BY DEF CloseBegin, PluginAdvance, PluginClose, vars, Suspends
<1> QED
  BY <1>1, <1>3, <1>4, <1>5, <1>6, <1>7, <1>8 DEF Next, Resume

\* A snapshot is on record at once.
LEMMA SnapshotOnRecord ==
  ASSUME NEW e \in Engine, IsOpened(e)
  PROVE  LET o == Snapshot(e)
         IN  /\ o.per_unit = e.per_unit /\ o.trace = e.trace /\ o.settled_total = e.settled
             /\ o.settled_total + o.remainder_unspent = e.open_in.max_total
             /\ Extends(e.per_unit, e.per_unit) /\ Extends(e.trace, e.trace)
             /\ e.per_unit \in Seq(PerUnit) /\ e.trace \in Seq(Line) /\ e.settled \in Int
<1>1. e.open_in.max_total \in Nat /\ e.settled \in Int
  BY InputAssumption DEF Engine, EngineRecord, IsOpened, SettleOpenIn
<1>2. e.settled + Remaining(e) = e.open_in.max_total
  BY <1>1 DEF Remaining
<1>3. e.per_unit \in Seq(PerUnit) /\ e.trace \in Seq(Line)
  BY DEF Engine, EngineRecord
<1> QED
  BY <1>1, <1>2, <1>3, ExtendsGrows DEF Snapshot

\* The inductive step, and what it says of two answers.
LEMMA AnswerOnRecordStep ==
  ASSUME TypeOK, TypeOK', MeterInv, AnswerOnRecord, [Next]_vars
  PROVE  /\ AnswerOnRecord'
         /\ out # Null =>
              /\ IsPrefix(out.per_unit, out'.per_unit)
              /\ IsPrefix(out.trace, out'.trace)
              /\ out.settled_total <= out'.settled_total
              /\ out'.settled_total + out'.remainder_unspent = eng.open_in.max_total
<1>a. eng \in Engine /\ eng' \in Engine
  BY DEF TypeOK
<1>b. ASSUME NEW e \in Engine
      PROVE  e.per_unit \in Seq(PerUnit) /\ e.trace \in Seq(Line) /\ e.settled \in Int
  BY DEF Engine, EngineRecord
<1>1. ASSUME out # Null
      PROVE  /\ Grows(eng, eng') /\ IsOpened(eng')
             /\ Extends(out.per_unit, eng'.per_unit) /\ Extends(out.trace, eng'.trace)
             /\ out.settled_total <= eng'.settled
             /\ Extends(out.per_unit, out.per_unit) /\ Extends(out.trace, out.trace)
  <2>1. Grows(eng, eng') /\ IsOpened(eng')
    BY <1>1, GrowsStep DEF AnswerOnRecord, Grows, IsOpened
  <2>2. Extends(out.per_unit, eng'.per_unit) /\ Extends(out.per_unit, out.per_unit)
    BY <1>1, <1>a, <1>b, <2>1, ExtendsGrows DEF AnswerOnRecord, Grows
  <2>3. Extends(out.trace, eng'.trace) /\ Extends(out.trace, out.trace)
    BY <1>1, <1>a, <1>b, <2>1, ExtendsGrows DEF AnswerOnRecord, Grows
  <2>4. out.settled_total <= eng'.settled
    BY <1>1, <1>a, <1>b, <2>1 DEF AnswerOnRecord, Grows
  <2> QED
    BY <2>1, <2>2, <2>3, <2>4
<1>2. CASE out' = out
  <2>1. AnswerOnRecord'
    BY <1>1, <1>2 DEF AnswerOnRecord, Grows
  <2>2. out # Null => IsPrefix(out.per_unit, out.per_unit) /\ IsPrefix(out.trace, out.trace)
    BY <1>1, ExtendsIsPrefix DEF AnswerOnRecord
  <2> QED
    BY <1>2, <2>1, <2>2 DEF AnswerOnRecord
<1>3. CASE out' = Snapshot(eng') /\ IsOpened(eng')
  <2>1. /\ out'.per_unit = eng'.per_unit /\ out'.trace = eng'.trace
        /\ out'.settled_total = eng'.settled
        /\ out'.settled_total + out'.remainder_unspent = eng'.open_in.max_total
        /\ Extends(eng'.per_unit, eng'.per_unit) /\ Extends(eng'.trace, eng'.trace)
    BY <1>a, <1>3, SnapshotOnRecord
  <2>2. AnswerOnRecord'
    BY <1>a, <1>b, <1>3, <2>1 DEF AnswerOnRecord
  <2>3. out # Null => IsPrefix(out.per_unit, eng'.per_unit) /\ IsPrefix(out.trace, eng'.trace)
    BY <1>a, <1>b, <1>1, ExtendsIsPrefix DEF AnswerOnRecord
  <2>4. out # Null => eng'.open_in = eng.open_in
    BY <1>1 DEF Grows
  <2> QED
    BY <1>1, <2>1, <2>2, <2>3, <2>4
<1> QED
  BY <1>2, <1>3, AnswerStep

\* Each SettleOut extends the one before it (engine.py:11), for every sequence of calls.
THEOREM CumulativeOutAlways == Spec => CumulativeOut
<1> DEFINE Extended == out # Null =>
             /\ IsPrefix(out.per_unit, out'.per_unit)
             /\ IsPrefix(out.trace, out'.trace)
             /\ out.settled_total <= out'.settled_total
             /\ out'.settled_total + out'.remainder_unspent = eng.open_in.max_total
<1>1. Init => AnswerOnRecord
  BY DEF Init, AnswerOnRecord
<1>2. TypeOK /\ TypeOK' /\ MeterInv /\ AnswerOnRecord /\ [Next]_vars => AnswerOnRecord'
  BY AnswerOnRecordStep
<1>3. TypeOK /\ TypeOK' /\ MeterInv /\ AnswerOnRecord /\ [Next]_vars => [Extended]_vars
  BY AnswerOnRecordStep
<1> QED
  BY <1>1, <1>2, <1>3, TypeCorrect, MeterCorrect, PTL DEF Spec, CumulativeOut

---------------------------------------------------------------------------------
(***************************************************************************)
(* Seen units are judged, and ticks are earned.                            *)
(***************************************************************************)
SeqsOf(vs) == {vs[i].seq : i \in DOMAIN vs}

TickIndices(t) == {i \in DOMAIN t : t[i].kind = "tick"}

TickSeqs(t) == {t[i].seq : i \in TickIndices(t)}

\* The lines that let unit seq of deal ref be paid.
Clearing(ref, seq) == {GateLine(ref, seq, TRUE), AckL1Line(ref, seq)}

Earned(t) ==
  \A i \in TickIndices(t) :
    /\ i > 1 /\ t[i - 1] \in Clearing(t[i].ref, t[i].seq)
    /\ \A j \in TickIndices(t) : t[j].seq = t[i].seq => j = i

\* Judged units count as seen and only they are paid; one that waits for its money has
\* none yet, and its clearing line is the last one written.
RecordInv ==
  /\ SeqsOf(eng.per_unit) \subseteq eng.seen_seqs
  /\ Earned(eng.trace)
  /\ TickSeqs(eng.trace) \subseteq eng.seen_seqs
  /\ call.await \in {"advance", "drained"} =>
       /\ call.seq \in eng.seen_seqs \ TickSeqs(eng.trace)
       /\ eng.trace # <<>>
       /\ eng.trace[Len(eng.trace)] \in Clearing(eng.open_in.ref, call.seq)

\* One verdict more is one judged seq more.
LEMMA SeqsAppend ==
  ASSUME NEW S, NEW vs \in Seq(S), NEW v
  PROVE  SeqsOf(Append(vs, v)) = SeqsOf(vs) \cup {v.seq}
<1> DEFINE ws == Append(vs, v)
<1>1. /\ DOMAIN vs = 1 .. Len(vs) /\ DOMAIN ws = 1 .. Len(vs) + 1 /\ Len(vs) \in Nat
      /\ ws[Len(vs) + 1] = v /\ \A i \in DOMAIN vs : ws[i] = vs[i]
  OBVIOUS
<1>2. DOMAIN ws = DOMAIN vs \cup {Len(vs) + 1}
  BY <1>1
<1> HIDE DEF ws
<1>3. SeqsOf(ws) = SeqsOf(vs) \cup {v.seq}
  BY <1>1, <1>2 DEF SeqsOf
<1> QED
  BY <1>3 DEF ws

\* A line that is no tick leaves the ticks as they were.
LEMMA NoNewTick ==
  ASSUME NEW t \in Seq(Line), NEW l, l.kind # "tick"
  PROVE  /\ TickIndices(Append(t, l)) = TickIndices(t)
         /\ TickSeqs(Append(t, l)) = TickSeqs(t)
         /\ Earned(t) => Earned(Append(t, l))
<1> DEFINE w == Append(t, l)
<1>1. /\ DOMAIN t = 1 .. Len(t) /\ DOMAIN w = 1 .. Len(t) + 1 /\ Len(t) \in Nat
      /\ w[Len(t) + 1] = l /\ \A i \in DOMAIN t : w[i] = t[i]
  OBVIOUS
<1> HIDE DEF w
<1>2. TickIndices(w) = TickIndices(t)
  BY <1>1 DEF TickIndices
<1>3. \A i \in TickIndices(t) : i \in DOMAIN t /\ w[i] = t[i] /\ (i > 1 => w[i - 1] = t[i - 1])
  BY <1>1 DEF TickIndices
<1>4. TickSeqs(w) = TickSeqs(t)
  BY <1>2, <1>3 DEF TickSeqs
<1>5. Earned(t) => Earned(w)
  BY <1>2, <1>3 DEF Earned
<1> QED
  BY <1>2, <1>4, <1>5 DEF w

\* A tick after the line that clears its unit, the first for it, is earned.
LEMMA NewTick ==
  ASSUME NEW t \in Seq(Line), t # <<>>, Earned(t), NEW l, l.kind = "tick",
         t[Len(t)] \in Clearing(l.ref, l.seq), l.seq \notin TickSeqs(t)
  PROVE  /\ TickSeqs(Append(t, l)) = TickSeqs(t) \cup {l.seq}
         /\ Earned(Append(t, l))
<1> DEFINE w == Append(t, l)
           n == Len(t) + 1
<1>1. /\ DOMAIN t = 1 .. Len(t) /\ DOMAIN w = 1 .. n /\ Len(t) \in Nat
      /\ w[n] = l /\ \A i \in DOMAIN t : w[i] = t[i]
  OBVIOUS
<1>0. Len(t) >= 1
  OBVIOUS
<1> HIDE DEF w
<1>2. n > 1 /\ n - 1 = Len(t) /\ n \notin DOMAIN t /\ w[n - 1] = t[Len(t)]
  BY <1>0, <1>1
<1> HIDE DEF w, n
<1>3. TickIndices(w) = TickIndices(t) \cup {n}
  BY <1>1, <1>2 DEF TickIndices, n
<1>4. \A i \in TickIndices(t) :
        i \in DOMAIN t /\ w[i] = t[i] /\ i # n /\ t[i].seq # l.seq /\ (i > 1 => w[i - 1] = t[i - 1])
  BY <1>1, <1>2 DEF TickIndices, TickSeqs
<1>5. TickSeqs(w) = TickSeqs(t) \cup {l.seq}
  BY <1>1, <1>3, <1>4 DEF TickSeqs
<1>6. \A i \in TickIndices(w) :
        /\ i > 1 /\ w[i - 1] \in Clearing(w[i].ref, w[i].seq)
        /\ \A j \in TickIndices(w) : w[j].seq = w[i].seq => j = i
  <2> TAKE i \in TickIndices(w)
  <2>1. CASE i = n
    BY <1>1, <1>2, <1>3, <1>4, <2>1
  <2>2. CASE i \in TickIndices(t)
    BY <1>1, <1>3, <1>4, <2>2 DEF Earned
  <2> QED
    BY <1>3, <2>1, <2>2
<1>7. Earned(w)
  BY <1>6 DEF Earned
<1> QED
  BY <1>5, <1>7 DEF w

\* The inductive step of RecordInv.
LEMMA RecordStep == TypeOK /\ TypeOK' /\ RecordInv /\ [Next]_vars => RecordInv'
<1> SUFFICES ASSUME TypeOK, TypeOK', RecordInv, [Next]_vars PROVE RecordInv'
  OBVIOUS
<1>a. /\ OpenInputs \in SUBSET SettleOpenIn /\ Null \notin OpenInputs
      /\ \A u \in UnitInputs : u \in UnitIn
  BY InputAssumption
<1>b. /\ eng \in Engine /\ eng \in EngineRecord(OpenInputs) /\ call \in Call
      /\ eng.per_unit \in Seq(PerUnit) /\ eng.trace \in Seq(Line)
      /\ call.amount \in Int /\ call.seq \in Nat /\ call.reason \in CloseReason
  BY DEF TypeOK, Engine, EngineRecord, Call
<1>c. /\ SeqsOf(eng.per_unit) \subseteq eng.seen_seqs
      /\ Earned(eng.trace) /\ TickSeqs(eng.trace) \subseteq eng.seen_seqs
  BY DEF RecordInv
\* The record stays, and whoever waits for money waited before.
<1>1. ASSUME \A f \in {"open_in", "per_unit", "seen_seqs", "trace"} : eng'[f] = eng[f],
             call'.await \in {"advance", "drained"} =>
               call.await \in {"advance", "drained"} /\ call'.seq = call.seq
      PROVE  RecordInv'
  BY <1>1 DEF RecordInv
<1>2. CASE UNCHANGED vars
  BY <1>1, <1>2 DEF vars
<1>3. ASSUME UNCHANGED eng, call' = NoCall PROVE RecordInv'
  BY <1>1, <1>3 DEF NoCall
<1>4. CASE OpenAgain \/ BeforeOpen \/ RefMismatch \/ AdvanceClosed \/ CloseAgain
  BY <1>3, <1>4 DEF OpenAgain, BeforeOpen, RefMismatch, AdvanceClosed, CloseAgain, Raise, Returns
<1>5. ASSUME NEW i \in OpenInputs, OpenRefused(i) \/ OpenBegin(i) PROVE RecordInv'
  <2>1. UNCHANGED eng /\ call'.await \in {"none", "open_stream"}
    <3>1. CASE OpenRefused(i)
      BY <3>1 DEF OpenRefused, Raise, NoCall
    <3>2. CASE OpenBegin(i)
      BY <3>2 DEF OpenBegin, Suspends, NoCall
    <3> QED
      BY <1>5, <3>1, <3>2
  <2> QED
    BY <1>1, <2>1
<1>6. CASE CloseBegin
  BY <1>1, <1>6 DEF CloseBegin, Suspends, NoCall
<1>7. CASE PluginAdvance
  BY <1>1, <1>7, <1>b DEF PluginAdvance, EngineRecord, Call
<1>8. CASE PluginClose
  <2>1. PICK p : /\ eng' = [eng EXCEPT !.plugin = p]
                 /\ call' = [call EXCEPT !.await = "receipt", !.amount = p.drained]
    BY <1>8 DEF PluginClose
  <2> QED
    BY <1>1, <1>b, <2>1 DEF EngineRecord, Call
<1>9. CASE OpenResume
  <2> DEFINE l == StreamOpenLine(call.open_in.ref, call.open_in.rate, call.open_in.max_total, 0)
  <2>1. /\ call.open_in \in OpenInputs /\ eng' = Opened(eng, call.open_in) /\ call' = NoCall
        /\ l.kind = "stream-open"
    BY <1>9 DEF OpenResume, Returns, TypeOK, Call, StreamOpenLine
  <2>2. eng'.per_unit = eng.per_unit /\ eng'.seen_seqs = eng.seen_seqs
    BY <1>a, <1>b, <2>1, OpenedType
  <2>3. eng'.trace = Append(eng.trace, l)
    BY <1>b, <2>1 DEF Opened, EngineRecord
  <2> HIDE DEF l
  <2> QED
    BY <1>b, <1>c, <2>1, <2>2, <2>3, NoNewTick DEF RecordInv, NoCall
<1>10. ASSUME NEW u \in UnitInputs, Advance(u) PROVE RecordInv'
  <2>1. CASE AdvanceDuplicate(u)
    BY <1>3, <2>1 DEF AdvanceDuplicate, Raise
  <2> SUFFICES ASSUME NewUnit(u) PROVE RecordInv'
    BY <1>10, <2>1 DEF Advance, AdvanceRaises, AdvancePass, AdvanceCapReached, AdvanceFail,
                       Decided
  <2>2. eng.open_in \in OpenInputs /\ u \in UnitIn /\ u.seq \notin eng.seen_seqs
    BY <1>a, <1>b DEF NewUnit, Accepting, IsOpened, EngineRecord
  <2>3. CASE AdvanceRaises(u)
    <3>1. eng' = Received(eng, u) /\ call' = NoCall
      BY <2>3 DEF AdvanceRaises, Raise
    <3>2. PICK l \in Line : l.kind = "ack" /\ Received(eng, u).trace = Append(eng.trace, l)
      BY <1>a, <1>b, <2>2, ReceivedRecords
    <3>3. /\ eng'.seen_seqs = eng.seen_seqs \cup {u.seq}
          /\ eng'.per_unit = eng.per_unit
      BY <1>a, <1>b, <2>2, <3>1, ReceivedRecords, ReceivedType
    <3> QED
      BY <1>b, <1>c, <3>1, <3>2, <3>3, NoNewTick DEF RecordInv, NoCall
  <2> DEFINE j == Judged(eng, u)
             v == [seq |-> u.seq, verdict |-> IF ResultOf(eng, u).passed THEN "pass" ELSE "fail",
                   reason |-> ResultOf(eng, u).reason]
  <2>4. /\ j \in EngineRecord(OpenInputs) /\ j.open_in = eng.open_in
        /\ j.seen_seqs = eng.seen_seqs \cup {u.seq}
        /\ j.per_unit = Append(eng.per_unit, v) /\ v.seq = u.seq
    BY <1>a, <1>b, <2>2, JudgedType, JudgedRecords
  <2>5. PICK l \in Line, m \in Line :
          /\ l.kind # "tick" /\ m.kind # "tick"
          /\ \/ j.trace = Append(eng.trace, l)
             \/ j.trace = Append(Append(eng.trace, m), l)
          /\ ResultOf(eng, u).passed =>
               l \in {GateLine(eng.open_in.ref, u.seq, TRUE), AckL1Line(eng.open_in.ref, u.seq)}
    BY <1>a, <1>b, <2>2, JudgedRecords, Zenon
  <2> HIDE DEF j, v
  <2>6. SeqsOf(j.per_unit) \subseteq j.seen_seqs
    BY <1>b, <1>c, <2>4, SeqsAppend
  <2>7. Append(eng.trace, m) \in Seq(Line)
    BY <1>b
  <2>8. /\ Earned(j.trace) /\ TickSeqs(j.trace) = TickSeqs(eng.trace)
        /\ j.trace # <<>> /\ j.trace[Len(j.trace)] = l
    <3>1. ASSUME NEW t \in Seq(Line), NEW x
          PROVE  Append(t, x) # <<>> /\ Append(t, x)[Len(Append(t, x))] = x
      OBVIOUS
    <3>2. CASE j.trace = Append(eng.trace, l)
      BY <1>b, <1>c, <2>5, <3>1, <3>2, NoNewTick
    <3>3. CASE j.trace = Append(Append(eng.trace, m), l)
      <4>1. /\ Earned(Append(eng.trace, m))
            /\ TickSeqs(Append(eng.trace, m)) = TickSeqs(eng.trace)
        BY <1>b, <1>c, <2>5, NoNewTick
      <4> DEFINE t == Append(eng.trace, m)
      <4>2. t \in Seq(Line) /\ j.trace = Append(t, l) /\ l.kind # "tick"
        BY <2>5, <2>7, <3>3
      <4> HIDE DEF t
      <4>3. /\ Earned(t) => Earned(j.trace)
            /\ TickSeqs(j.trace) = TickSeqs(t)
        BY <4>2, NoNewTick
      <4>4. j.trace # <<>> /\ j.trace[Len(j.trace)] = l
        BY <3>1, <4>2
      <4> QED
        BY <4>1, <4>3, <4>4 DEF t
    <3> QED
      BY <2>5, <3>2, <3>3
  <2>9. ASSUME NEW d, \A f \in {"open_in", "per_unit", "seen_seqs", "trace"} : d[f] = j[f],
               eng' = d,
               call'.await = "advance" => ResultOf(eng, u).passed /\ call'.seq = u.seq,
               call'.await # "drained"
        PROVE  RecordInv'
    BY <1>c, <2>2, <2>4, <2>5, <2>6, <2>8, <2>9 DEF RecordInv, Clearing
  <2>10. CASE AdvancePass(u)
    <3>1. eng' = Ticked(j) /\ call'.await = "advance" /\ call'.seq = u.seq
      BY <2>10 DEF AdvancePass, Suspends, NoCall, j
    <3>2. \A f \in {"open_in", "per_unit", "seen_seqs", "trace"} : Ticked(j)[f] = j[f]
      BY <2>4 DEF Ticked, EngineRecord
    <3> QED
      BY <2>9, <2>10, <3>1, <3>2 DEF AdvancePass
  <2>11. CASE AdvanceCapReached(u) \/ AdvanceFail(u)
    <3>1. eng' = j /\ call'.await = "close_stream"
      <4>1. CASE AdvanceCapReached(u)
        BY <4>1 DEF AdvanceCapReached, Suspends, NoCall, j
      <4>2. CASE AdvanceFail(u)
        BY <4>2 DEF AdvanceFail, Suspends, NoCall, j
      <4> QED
        BY <2>11, <4>1, <4>2
    <3> QED
      BY <2>9, <3>1
  <2> QED
    BY <1>10, <2>1, <2>3, <2>10, <2>11 DEF Advance
<1>11. CASE AdvanceResume
  <2> DEFINE l == TickLine(eng.open_in.ref, call.seq, call.amount, eng.tick)
  <2>1. /\ eng' = Billed(eng, call.seq, call.amount) /\ call' = NoCall
        /\ call.await = "drained" /\ eng.open_in \in OpenInputs
    BY <1>11, <1>b DEF AdvanceResume, Returns, TypeOK, Engine, EngineRecord
  <2>2. eng'.per_unit = eng.per_unit /\ eng'.seen_seqs = eng.seen_seqs
    BY <1>a, <1>b, <2>1, BilledType
  <2>3. eng'.trace = Append(eng.trace, l)
    BY <1>b, <2>1 DEF Billed, EngineRecord
  <2>4. l.kind = "tick" /\ l.ref = eng.open_in.ref /\ l.seq = call.seq
    BY DEF TickLine
  <2>5. /\ call.seq \in eng.seen_seqs \ TickSeqs(eng.trace)
        /\ eng.trace # <<>>
        /\ eng.trace[Len(eng.trace)] \in Clearing(eng.open_in.ref, call.seq)
    BY <2>1 DEF RecordInv
  <2> HIDE DEF l
  <2>6. Earned(eng'.trace) /\ TickSeqs(eng'.trace) = TickSeqs(eng.trace) \cup {call.seq}
    BY <1>b, <1>c, <2>3, <2>4, <2>5, NewTick
  <2> QED
    BY <1>c, <2>1, <2>2, <2>5, <2>6 DEF RecordInv, NoCall
<1>12. CASE CloseResume
  <2> DEFINE l == StreamCloseLine(eng.open_in.ref, call.seq, call.amount, eng.tick, call.reason)
  <2>1. /\ eng' = ClosedWith(eng, call.seq, call.amount, call.reason) /\ call' = NoCall
        /\ eng.open_in \in OpenInputs /\ l.kind = "stream-close"
    BY <1>12, <1>b DEF CloseResume, Returns, TypeOK, Engine, EngineRecord, StreamCloseLine
  <2>2. eng'.per_unit = eng.per_unit /\ eng'.seen_seqs = eng.seen_seqs
    BY <1>a, <1>b, <2>1, ClosedWithType
  <2>3. eng'.trace = Append(eng.trace, l)
    BY <1>b, <2>1 DEF ClosedWith, EngineRecord
  <2> HIDE DEF l
  <2> QED
    BY <1>b, <1>c, <2>1, <2>2, <2>3, NoNewTick DEF RecordInv, NoCall
<1> QED
  BY <1>2, <1>4, <1>5, <1>6, <1>7, <1>8, <1>9, <1>10, <1>11, <1>12 DEF Next, Resume

\* A new record is empty.
LEMMA RecordInit == Init => RecordInv
BY DEF Init, NewEngine, NoCall, RecordInv, Earned, TickIndices, TickSeqs, SeqsOf

\* The record keeps its invariant.
LEMMA RecordCorrect == Spec => []RecordInv
BY RecordInit, RecordStep, TypeCorrect, PTL DEF Spec

\* What the invariant says of the tick lines.
LEMMA RecordEarned == RecordInv => TicksAreEarned
BY DEF RecordInv, Earned, TickIndices, Clearing, TicksAreEarned

\* No unit is paid before it is cleared, and none twice (engine.py:13-17), whatever is
\* delivered in whatever order.
THEOREM TicksAreEarnedAlways == Spec => []TicksAreEarned
BY RecordEarned, RecordCorrect, PTL

\* With a digest that gives a value, no delivered unit is swallowed: what can never be
\* delivered again has its verdict (engine.py:146-148, 187-193).
THEOREM SeenUnitsAreJudgedAlways ==
  ASSUME ~DigestRaises(Algo)
  PROVE  Spec => []SeenUnitsAreJudged
<1> DEFINE SeenIsJudged == eng.seen_seqs = SeqsOf(eng.per_unit)
<1>1. Init => SeenIsJudged
  BY DEF Init, NewEngine, SeqsOf
<1>2. TypeOK /\ SeenIsJudged /\ [Next]_vars => SeenIsJudged'
  <2> SUFFICES ASSUME TypeOK, SeenIsJudged, [Next]_vars PROVE SeenIsJudged'
    OBVIOUS
  <2>a. /\ OpenInputs \in SUBSET SettleOpenIn /\ Null \notin OpenInputs
        /\ \A u \in UnitInputs : u \in UnitIn
    BY InputAssumption
  <2>b. /\ eng \in EngineRecord(OpenInputs) /\ call \in Call
        /\ eng.per_unit \in Seq(PerUnit)
        /\ call.amount \in Int /\ call.seq \in Nat /\ call.reason \in CloseReason
    BY DEF TypeOK, Engine, EngineRecord, Call
  <2>1. ASSUME \A f \in {"per_unit", "seen_seqs"} : eng'[f] = eng[f] PROVE SeenIsJudged'
    BY <2>1
  <2>2. CASE UNCHANGED eng
    BY <2>1, <2>2
  <2>3. CASE PluginAdvance \/ PluginClose
    <3>1. PICK p : eng' = [eng EXCEPT !.plugin = p]
      BY <2>3 DEF PluginAdvance, PluginClose
    <3> QED
      BY <2>1, <2>b, <3>1 DEF EngineRecord
  <2>4. CASE OpenResume
    <3>1. call.open_in \in OpenInputs /\ eng' = Opened(eng, call.open_in)
      BY <2>4 DEF OpenResume, TypeOK, Call
    <3> QED
      BY <2>1, <2>a, <2>b, <3>1, OpenedType
  <2>5. CASE AdvanceResume
    <3>1. eng.open_in \in OpenInputs /\ eng' = Billed(eng, call.seq, call.amount)
      BY <2>5, <2>b DEF AdvanceResume, TypeOK, EngineRecord
    <3> QED
      BY <2>1, <2>a, <2>b, <3>1, BilledType
  <2>6. CASE CloseResume
    <3>1. eng.open_in \in OpenInputs /\ eng' = ClosedWith(eng, call.seq, call.amount, call.reason)
      BY <2>6, <2>b DEF CloseResume, TypeOK, EngineRecord
    <3> QED
      BY <2>1, <2>a, <2>b, <3>1, ClosedWithType
  <2>7. ASSUME NEW u \in UnitInputs, IsOpened(eng),
               eng' = Judged(eng, u) \/ eng' = Ticked(Judged(eng, u))
        PROVE  SeenIsJudged'
    <3> DEFINE j == Judged(eng, u)
               v == [seq |-> u.seq,
                     verdict |-> IF ResultOf(eng, u).passed THEN "pass" ELSE "fail",
                     reason |-> ResultOf(eng, u).reason]
    <3>1. eng.open_in \in OpenInputs /\ u \in UnitIn
      BY <2>7, <2>a, <2>b DEF IsOpened, EngineRecord
    <3>a. j \in EngineRecord(OpenInputs)
      BY <2>a, <2>b, <3>1, JudgedType
    <3>b. /\ j.seen_seqs = eng.seen_seqs \cup {u.seq}
          /\ j.per_unit = Append(eng.per_unit, v)
      BY <2>a, <2>b, <3>1, JudgedRecords
    <3>2. /\ j \in EngineRecord(OpenInputs)
          /\ j.seen_seqs = eng.seen_seqs \cup {u.seq}
          /\ j.per_unit = Append(eng.per_unit, v) /\ v.seq = u.seq
      BY <3>a, <3>b
    <3>3. \A f \in {"per_unit", "seen_seqs"} : eng'[f] = j[f]
      <4>1. \A f \in {"per_unit", "seen_seqs"} : Ticked(j)[f] = j[f]
        BY <3>a DEF Ticked, EngineRecord
      <4> QED
        BY <2>7, <4>1
    <3> HIDE DEF j, v
    <3>4. SeqsOf(Append(eng.per_unit, v)) = SeqsOf(eng.per_unit) \cup {v.seq}
      BY <2>b, SeqsAppend
    <3>5. eng'.seen_seqs = j.seen_seqs /\ eng'.per_unit = j.per_unit
      BY <3>3
    <3> QED
      BY <3>2, <3>4, <3>5
  <2>8. ASSUME NEW u \in UnitInputs, Advance(u) PROVE SeenIsJudged'
    <3>1. ~AdvanceRaises(u)
      BY DEF AdvanceRaises, DecisionRaises, EvaluateRaises
    <3>2. CASE AdvanceDuplicate(u)
      BY <2>2, <3>2 DEF AdvanceDuplicate
    <3>3. CASE AdvancePass(u) \/ AdvanceCapReached(u) \/ AdvanceFail(u)
      BY <2>7, <3>3 DEF AdvancePass, AdvanceCapReached, AdvanceFail, Decided, NewUnit, Accepting
    <3> QED
      BY <2>8, <3>1, <3>2, <3>3 DEF Advance
  <2>9. ASSUME NEW i \in OpenInputs, OpenRefused(i) \/ OpenBegin(i) PROVE UNCHANGED eng
    BY <2>9 DEF OpenRefused, OpenBegin
  <2>10. ASSUME OpenAgain \/ BeforeOpen \/ RefMismatch \/ AdvanceClosed \/ CloseBegin
                \/ CloseAgain \/ UNCHANGED vars
         PROVE  UNCHANGED eng
    BY <2>10 DEF OpenAgain, BeforeOpen, RefMismatch, AdvanceClosed, CloseBegin, CloseAgain, vars
  <2> QED
    BY <2>2, <2>3, <2>4, <2>5, <2>6, <2>8, <2>9, <2>10 DEF Next, Resume
<1>3. SeenIsJudged => SeenUnitsAreJudged
  BY DEF SeenUnitsAreJudged, SeqsOf
<1> QED
  BY <1>1, <1>2, <1>3, TypeCorrect, PTL DEF Spec

---------------------------------------------------------------------------------
(***************************************************************************)
(* The trace tells what is on the books, and so does the transcript.       *)
(***************************************************************************)

\* What a step of the engine does to the deal, the total, the verdicts and the trace.
LEMMA EngineStretches ==
  ASSUME TypeOK, [Next]_vars
  PROVE  \/ \A f \in {"open_in", "settled", "closed", "per_unit", "seen_seqs", "trace"} :
              eng'[f] = eng[f]
         \/ ~IsOpened(eng) /\ \E i \in OpenInputs : eng' = Opened(eng, i)
         \/ \E u \in UnitInputs :
              /\ NewUnit(u)
              /\ \/ DecisionRaises(eng, u) /\ eng' = Received(eng, u)
                 \/ /\ ~DecisionRaises(eng, u)
                    /\ eng' \in {Judged(eng, u), Ticked(Judged(eng, u))}
         \/ AdvanceResume /\ IsOpened(eng)
         \/ CloseResume /\ IsOpened(eng)
<1>b. eng \in EngineRecord(OpenInputs)
  BY DEF TypeOK, Engine
<1>1. UNCHANGED eng => \A f \in {"open_in", "settled", "closed", "per_unit", "seen_seqs", "trace"} :
                         eng'[f] = eng[f]
  OBVIOUS
<1>2. ASSUME PluginAdvance \/ PluginClose
      PROVE  \A f \in {"open_in", "settled", "closed", "per_unit", "seen_seqs", "trace"} :
               eng'[f] = eng[f]
  <2>1. PICK p : eng' = [eng EXCEPT !.plugin = p]
    BY <1>2 DEF PluginAdvance, PluginClose
  <2> QED
    BY <1>b, <2>1 DEF EngineRecord
<1>3. ASSUME OpenResume
      PROVE  ~IsOpened(eng) /\ \E i \in OpenInputs : eng' = Opened(eng, i)
  BY <1>3 DEF OpenResume, TypeOK, Call, IsOpened
<1>4. ASSUME NEW u \in UnitInputs, Advance(u), ~UNCHANGED eng
      PROVE  /\ NewUnit(u)
             /\ \/ DecisionRaises(eng, u) /\ eng' = Received(eng, u)
                \/ /\ ~DecisionRaises(eng, u)
                    /\ eng' \in {Judged(eng, u), Ticked(Judged(eng, u))}
  BY <1>4 DEF Advance, AdvanceDuplicate, AdvanceRaises, AdvancePass, AdvanceCapReached,
              AdvanceFail, Decided
<1>5. AdvanceResume => IsOpened(eng)
  BY DEF AdvanceResume, TypeOK, IsOpened
<1>6. CloseResume => IsOpened(eng)
  BY DEF CloseResume, TypeOK, IsOpened
<1>7. ASSUME NEW i \in OpenInputs, OpenRefused(i) \/ OpenBegin(i) PROVE UNCHANGED eng
  BY <1>7 DEF OpenRefused, OpenBegin
<1>8. ASSUME OpenAgain \/ BeforeOpen \/ RefMismatch \/ AdvanceClosed \/ CloseBegin
             \/ CloseAgain \/ UNCHANGED vars
      PROVE  UNCHANGED eng
  BY <1>8 DEF OpenAgain, BeforeOpen, RefMismatch, AdvanceClosed, CloseBegin, CloseAgain, vars
<1> QED
  BY <1>1, <1>2, <1>3, <1>4, <1>5, <1>6, <1>7, <1>8 DEF Next, Resume

\* The same with the books at the awaits, when the plugin does not fail.
LEMMA EngineMoves ==
  ASSUME TypeOK, MeterInv, [Next]_vars
  PROVE  \/ \A f \in {"open_in", "settled", "closed", "per_unit", "seen_seqs", "trace"} :
              eng'[f] = eng[f]
         \/ ~IsOpened(eng) /\ \E i \in OpenInputs : eng' = Opened(eng, i)
         \/ \E u \in UnitInputs :
              /\ NewUnit(u)
              /\ \/ DecisionRaises(eng, u) /\ eng' = Received(eng, u)
                 \/ eng' \in {Judged(eng, u), Ticked(Judged(eng, u))}
         \/ /\ IsOpened(eng) /\ OnMeter(OpenInputs, eng, "drained", call.amount)
            /\ eng' = Billed(eng, call.seq, call.amount)
         \/ /\ IsOpened(eng) /\ OnMeter(OpenInputs, eng, "receipt", call.amount)
            /\ eng' = ClosedWith(eng, call.seq, call.amount, call.reason)
<1>1. AdvanceResume => OnMeter(OpenInputs, eng, "drained", call.amount)
  BY OpenOnMeter DEF AdvanceResume, TypeOK, IsOpened
<1>2. CloseResume => OnMeter(OpenInputs, eng, "receipt", call.amount)
  BY OpenOnMeter DEF CloseResume, TypeOK, IsOpened
<1> QED
  BY <1>1, <1>2, EngineStretches DEF AdvanceResume, CloseResume

\* The lines that tell of unit s.
UnitLines(t, s) == {j \in DOMAIN t : t[j].kind \in {"ack", "gate", "tick"} /\ t[j].seq = s}

\* Only units seen have lines, and one that is gone has its ack line and no other.
HalfTold(t, seen, gone) ==
  /\ \A j \in DOMAIN t : t[j].kind \in {"ack", "gate", "tick"} => t[j].seq \in seen
  /\ \A s \in gone : \E i \in DOMAIN t : t[i].kind = "ack" /\ UnitLines(t, s) = {i}

\* A further line leaves the units that are gone alone when it is about another one, or
\* about none; the first line of a unit may be the ack line of one that is gone.
LEMMA HalfToldAppend ==
  ASSUME NEW t \in Seq(Line), NEW seen, NEW gone, gone \subseteq seen, HalfTold(t, seen, gone),
         NEW l \in Line
  PROVE  /\ (l.kind \in {"ack", "gate", "tick"} => l.seq \in seen \ gone)
              => HalfTold(Append(t, l), seen, gone)
         /\ l.kind = "ack" /\ l.seq \notin seen
              => HalfTold(Append(t, l), seen \cup {l.seq}, gone \cup {l.seq})
<1> DEFINE w == Append(t, l)
           n == Len(t) + 1
<1>1. /\ DOMAIN w = DOMAIN t \cup {n} /\ n \notin DOMAIN t
      /\ w[n] = l /\ \A i \in DOMAIN t : w[i] = t[i]
  OBVIOUS
<1> HIDE DEF w, n
<1>2. ASSUME NEW s, ~(l.kind \in {"ack", "gate", "tick"} /\ l.seq = s)
      PROVE  UnitLines(w, s) = UnitLines(t, s)
  BY <1>1, <1>2 DEF UnitLines
<1>3. ASSUME l.kind \in {"ack", "gate", "tick"} => l.seq \in seen \ gone
      PROVE  HalfTold(w, seen, gone)
  <2>1. \A j \in DOMAIN w : w[j].kind \in {"ack", "gate", "tick"} => w[j].seq \in seen
    BY <1>1, <1>3 DEF HalfTold
  <2>2. ASSUME NEW s \in gone
        PROVE  \E i \in DOMAIN w : w[i].kind = "ack" /\ UnitLines(w, s) = {i}
    <3>1. PICK i \in DOMAIN t : t[i].kind = "ack" /\ UnitLines(t, s) = {i}
      BY <2>2 DEF HalfTold
    <3>2. UnitLines(w, s) = UnitLines(t, s)
      BY <1>2, <1>3, <2>2
    <3> QED
      BY <1>1, <3>1, <3>2
  <2> QED
    BY <2>1, <2>2 DEF HalfTold
<1>4. ASSUME l.kind = "ack", l.seq \notin seen
      PROVE  HalfTold(w, seen \cup {l.seq}, gone \cup {l.seq})
  <2>1. \A j \in DOMAIN w : w[j].kind \in {"ack", "gate", "tick"} => w[j].seq \in seen \cup {l.seq}
    BY <1>1 DEF HalfTold
  <2>2. UnitLines(t, l.seq) = {}
    BY <1>4 DEF HalfTold, UnitLines
  <2>3. UnitLines(w, l.seq) = {n}
    BY <1>1, <1>4, <2>2 DEF UnitLines
  <2>4. ASSUME NEW s \in gone
        PROVE  \E i \in DOMAIN w : w[i].kind = "ack" /\ UnitLines(w, s) = {i}
    <3>1. PICK i \in DOMAIN t : t[i].kind = "ack" /\ UnitLines(t, s) = {i}
      BY <2>4 DEF HalfTold
    <3>2. UnitLines(w, s) = UnitLines(t, s)
      BY <1>2, <1>4, <2>4
    <3> QED
      BY <1>1, <3>1, <3>2
  <2>5. w[n].kind = "ack" /\ n \in DOMAIN w
    BY <1>1, <1>4
  <2> QED
    BY <2>1, <2>3, <2>4, <2>5 DEF HalfTold
<1> QED
  BY <1>3, <1>4 DEF w

\* The lines written for a unit carry its seq.
LEMMA UnitsOwnLines ==
  ASSUME NEW opens \in SUBSET SettleOpenIn, NEW e \in EngineRecord(opens),
         e.open_in \in opens, NEW u \in UnitIn
  PROVE  \E m \in Line :
           /\ m.kind = "ack" /\ m.seq = u.seq /\ Received(e, u).trace = Append(e.trace, m)
           /\ \E l \in Line :
                /\ l.kind = "gate" /\ l.seq = u.seq
                /\ Judged(e, u).trace \in {Append(e.trace, m), Append(Append(e.trace, m), l)}
<1> DEFINE m == IF CriterionOf(e) = "ack_received" THEN AckL1Line(e.open_in.ref, u.seq)
                ELSE AckContentLine(e.open_in.ref, u.seq, u.chunk, u.declared_checksum)
           l == GateLine(e.open_in.ref, u.seq, ResultOf(e, u).passed)
           c == Received(e, u)
           d == Judged(e, u)
<1>1. /\ u.seq \in Nat /\ u.chunk \in Chunk /\ u.declared_checksum \in Sha256Hex \cup {Null}
      /\ e.open_in.ref \in Ref
  BY ContractAssumption DEF UnitIn, SettleOpenIn
<1>2. m \in Line /\ m.kind = "ack" /\ m.seq = u.seq
  <2>1. /\ AckL1Line(e.open_in.ref, u.seq) \in Line
        /\ AckL1Line(e.open_in.ref, u.seq).kind = "ack"
        /\ AckL1Line(e.open_in.ref, u.seq).seq = u.seq
    BY <1>1 DEF Line, AckL1Line
  <2> DEFINE k == AckContentLine(e.open_in.ref, u.seq, u.chunk, u.declared_checksum)
  <2>2. k \in Line /\ k.kind = "ack" /\ k.seq = u.seq
    BY <1>1 DEF Line, AckContentLine
  <2> QED
    BY <2>1, <2>2
<1>3. l \in Line /\ l.kind = "gate" /\ l.seq = u.seq
  BY <1>1 DEF Line, GateLine, Verdict
<1>4. c = [e EXCEPT !.seen_seqs = e.seen_seqs \cup {u.seq}, !.trace = Append(e.trace, m)]
  BY DEF Received
<1> HIDE DEF m, l
<1>5. c.trace = Append(e.trace, m)
  BY <1>4 DEF EngineRecord
<1>6. c \in EngineRecord(opens)
  BY ReceivedType
<1> HIDE DEF c
<1>7. PICK vs : d = [c EXCEPT !.per_unit = vs,
                              !.trace = IF CriterionOf(e) = "ack_received" THEN c.trace
                                        ELSE Append(c.trace, l)]
  BY DEF Judged, c, l
<1> HIDE DEF d
<1>8. d.trace \in {c.trace, Append(c.trace, l)}
  BY <1>6, <1>7 DEF EngineRecord
<1>9. d.trace \in {Append(e.trace, m), Append(Append(e.trace, m), l)}
  BY <1>5, <1>8
<1> QED
  BY <1>2, <1>3, <1>5, <1>9 DEF c, d

\* Units that count as seen and have no verdict.
Gone(e) == e.seen_seqs \ SeqsOf(e.per_unit)

\* A session in which the digest of a unit's bytes can raise.
MayRaise(e) == IsOpened(e) /\ DigestRaises(Algo) /\ CriterionOf(e) # "ack_received"

\* Units are gone only in such a session, no unit of which ever passes, and each has its
\* ack line and no other; a unit that waits for its tick is in another session.
HalfDoneInv ==
  /\ SeqsOf(eng.per_unit) \subseteq eng.seen_seqs
  /\ Gone(eng) # {} => MayRaise(eng)
  /\ MayRaise(eng) => Verified(eng) = 0
  /\ HalfTold(eng.trace, eng.seen_seqs, Gone(eng))
  /\ call.await = "drained" => Verified(eng) >= 1

\* What was paid out went to a unit that had been verified.
LEMMA DrainedIsVerified ==
  ASSUME TypeOK, MeterInv, HalfDoneInv, [Next]_vars, call'.await = "drained"
  PROVE  Verified(eng') >= 1
<1>1. CASE PluginAdvance
  <2>1. IsOpened(eng) /\ call.await = "advance"
    BY <1>1 DEF PluginAdvance, TypeOK, IsOpened
  <2>2. Verified(eng) >= 1
    BY <2>1 DEF MeterInv, Metered, Unpaid
  <2>3. eng'.per_unit = eng.per_unit
    BY <1>1 DEF PluginAdvance, TypeOK, Engine, EngineRecord
  <2> QED
    BY <2>2, <2>3 DEF Verified
<1>2. CASE UNCHANGED vars
  BY <1>2 DEF vars, HalfDoneInv
<1>3. ASSUME NEW u \in UnitInputs, Advance(u) PROVE FALSE
  <2>1. ~(AdvanceDuplicate(u) \/ AdvanceRaises(u))
    BY DEF AdvanceDuplicate, AdvanceRaises, Raise, NoCall
  <2>2. ASSUME AdvancePass(u) PROVE call'.await = "advance"
    BY <2>2 DEF AdvancePass, Suspends, NoCall
  <2>3. ASSUME AdvanceCapReached(u) \/ AdvanceFail(u) PROVE call'.await = "close_stream"
    BY <2>3 DEF AdvanceCapReached, AdvanceFail, Suspends, NoCall
  <2> QED
    BY <1>3, <2>1, <2>2, <2>3 DEF Advance
<1>4. ASSUME NEW i \in OpenInputs, OpenRefused(i) PROVE FALSE
  BY <1>4 DEF OpenRefused, Raise, NoCall
<1>5. ASSUME NEW i \in OpenInputs, OpenBegin(i) PROVE FALSE
  BY <1>5 DEF OpenBegin, Suspends, NoCall
<1>6. /\ ~OpenAgain /\ ~BeforeOpen /\ ~RefMismatch /\ ~AdvanceClosed /\ ~CloseAgain
      /\ ~CloseBegin
  <2>1. ~OpenAgain /\ ~BeforeOpen /\ ~RefMismatch
    BY DEF OpenAgain, BeforeOpen, RefMismatch, Raise, NoCall
  <2>2. ~AdvanceClosed /\ ~CloseAgain
    BY DEF AdvanceClosed, CloseAgain, Returns, NoCall
  <2>3. ~CloseBegin
    BY DEF CloseBegin, Suspends, NoCall
  <2> QED
    BY <2>1, <2>2, <2>3
<1>7. ~(OpenResume \/ AdvanceResume \/ CloseResume)
  BY DEF OpenResume, AdvanceResume, CloseResume, Returns, NoCall
<1>8. ~PluginClose
  BY DEF PluginClose, TypeOK, Call
<1> QED
  BY <1>1, <1>2, <1>3, <1>4, <1>5, <1>6, <1>7, <1>8 DEF Next, Resume

\* The inductive step.
LEMMA HalfDoneStep ==
  ASSUME TypeOK, MeterInv, RecordInv, HalfDoneInv, [Next]_vars
  PROVE  HalfDoneInv'
<1>a. /\ OpenInputs \in SUBSET SettleOpenIn /\ Null \notin OpenInputs
      /\ \A u \in UnitInputs : u \in UnitIn
  BY InputAssumption
<1>b. /\ eng \in EngineRecord(OpenInputs) /\ eng.trace \in Seq(Line)
      /\ eng.per_unit \in Seq(PerUnit)
      /\ IsOpened(eng) => eng.open_in \in OpenInputs
  BY DEF TypeOK, Engine, EngineRecord, IsOpened
<1>c. Gone(eng) \subseteq eng.seen_seqs
  BY DEF Gone
<1> DEFINE Kept == /\ SeqsOf(eng'.per_unit) \subseteq eng'.seen_seqs
                   /\ Gone(eng') # {} => MayRaise(eng')
                   /\ MayRaise(eng') => Verified(eng') = 0
                   /\ HalfTold(eng'.trace, eng'.seen_seqs, Gone(eng'))
<1>0. ASSUME Kept PROVE HalfDoneInv'
  BY <1>0, DrainedIsVerified DEF HalfDoneInv
<1>1. ASSUME \A f \in {"open_in", "per_unit", "seen_seqs"} : eng'[f] = eng[f],
             \/ eng'.trace = eng.trace
             \/ \E l \in Line :
                  /\ eng'.trace = Append(eng.trace, l)
                  /\ l.kind \in {"ack", "gate", "tick"} => l.seq \in eng.seen_seqs \ Gone(eng)
      PROVE  Kept
  <2>1. Gone(eng') = Gone(eng) /\ (MayRaise(eng') <=> MayRaise(eng)) /\ Verified(eng') = Verified(eng)
    BY <1>1 DEF Gone, MayRaise, IsOpened, CriterionOf, Verified
  <2>2. HalfTold(eng.trace, eng.seen_seqs, Gone(eng))
    BY DEF HalfDoneInv
  <2>3. HalfTold(eng'.trace, eng.seen_seqs, Gone(eng))
    <3>1. CASE eng'.trace = eng.trace
      BY <2>2, <3>1
    <3>2. CASE eng'.trace # eng.trace
      <4>1. PICK l \in Line : /\ eng'.trace = Append(eng.trace, l)
                              /\ l.kind \in {"ack", "gate", "tick"}
                                   => l.seq \in eng.seen_seqs \ Gone(eng)
        BY <1>1, <3>2
      <4>2. HalfTold(Append(eng.trace, l), eng.seen_seqs, Gone(eng))
        BY <1>b, <1>c, <2>2, <4>1, HalfToldAppend
      <4> QED
        BY <4>1, <4>2
    <3> QED
      BY <3>1, <3>2
  <2> QED
    BY <1>1, <2>1, <2>3 DEF HalfDoneInv
<1>2. ASSUME ~IsOpened(eng), NEW i \in OpenInputs, eng' = Opened(eng, i)
      PROVE  Kept
  <2> DEFINE l == StreamOpenLine(i.ref, i.rate, i.max_total, 0)
  <2>1. eng.per_unit = <<>> /\ Gone(eng) = {}
    BY <1>2 DEF MeterInv, HalfDoneInv, MayRaise
  <2>2. l \in Line /\ l.kind = "stream-open"
    BY <1>a DEF SettleOpenIn, Line, StreamOpenLine
  <2>3. eng'.trace = Append(eng.trace, l)
    BY <1>2, <1>b DEF Opened, EngineRecord
  <2>4. eng'.per_unit = <<>> /\ eng'.seen_seqs = eng.seen_seqs
    BY <1>2, <1>a, <1>b, <2>1, OpenedType
  <2>5. Gone(eng') = Gone(eng) /\ Verified(eng') = 0
    BY <2>1, <2>4, FS_EmptySet DEF Gone, Verified, VerifiedCount
  <2> HIDE DEF l
  <2>6. HalfTold(eng.trace, eng.seen_seqs, Gone(eng))
    BY DEF HalfDoneInv
  <2>7. HalfTold(eng'.trace, eng.seen_seqs, Gone(eng))
    BY <1>b, <1>c, <2>2, <2>3, <2>6, HalfToldAppend
  <2> QED
    BY <2>1, <2>4, <2>5, <2>7 DEF HalfDoneInv
<1>3. ASSUME NEW u \in UnitInputs, NewUnit(u), DecisionRaises(eng, u), eng' = Received(eng, u)
      PROVE  Kept
  <2>1. IsOpened(eng) /\ eng.open_in \in OpenInputs /\ u \in UnitIn /\ u.seq \notin eng.seen_seqs
    BY <1>3, <1>a, <1>b DEF NewUnit, Accepting
  <2>2. PICK l \in Line : l.kind = "ack" /\ l.seq = u.seq /\ eng'.trace = Append(eng.trace, l)
    BY <1>3, <1>a, <1>b, <2>1, UnitsOwnLines
  <2>3. eng'.open_in = eng.open_in /\ eng'.per_unit = eng.per_unit
    BY <1>3, <1>a, <1>b, <2>1, ReceivedType
  <2>4. eng'.seen_seqs = eng.seen_seqs \cup {u.seq}
    BY <1>3, <1>a, <1>b, <2>1, ReceivedRecords
  <2>5. Gone(eng') = Gone(eng) \cup {u.seq} /\ SeqsOf(eng'.per_unit) \subseteq eng'.seen_seqs
    BY <2>1, <2>3, <2>4 DEF Gone, HalfDoneInv
  <2>6. MayRaise(eng) /\ MayRaise(eng')
    BY <1>3, <2>1, <2>3 DEF MayRaise, IsOpened, CriterionOf, DecisionRaises, EvaluateRaises
  <2>7. Verified(eng') = 0
    BY <2>3, <2>6 DEF Verified, HalfDoneInv
  <2>8. HalfTold(eng.trace, eng.seen_seqs, Gone(eng))
    BY DEF HalfDoneInv
  <2>9. HalfTold(eng'.trace, eng.seen_seqs \cup {u.seq}, Gone(eng) \cup {u.seq})
    BY <1>b, <1>c, <2>1, <2>2, <2>8, HalfToldAppend
  <2> QED
    BY <2>4, <2>5, <2>6, <2>7, <2>9
<1>4. ASSUME NEW u \in UnitInputs, NewUnit(u), ~DecisionRaises(eng, u),
             eng' \in {Judged(eng, u), Ticked(Judged(eng, u))}
      PROVE  Kept
  <2> DEFINE d == Judged(eng, u)
             seen == eng.seen_seqs \cup {u.seq}
             gone == Gone(eng)
  <2>1. IsOpened(eng) /\ eng.open_in \in OpenInputs /\ u \in UnitIn /\ u.seq \notin eng.seen_seqs
    BY <1>4, <1>a, <1>b DEF NewUnit, Accepting
  <2>2. PICK m \in Line, l \in Line :
          /\ m.kind = "ack" /\ m.seq = u.seq /\ l.kind = "gate" /\ l.seq = u.seq
          /\ d.trace \in {Append(eng.trace, m), Append(Append(eng.trace, m), l)}
    BY <1>a, <1>b, <2>1, UnitsOwnLines
  <2>3. PICK v \in PerUnit : /\ d.per_unit = Append(eng.per_unit, v)
                             /\ Passed(v) <=> ResultOf(eng, u).passed
    BY <1>a, <1>b, <2>1, JudgedType
  <2>4. d \in EngineRecord(OpenInputs) /\ d.open_in = eng.open_in
    BY <1>a, <1>b, <2>1, JudgedType
  <2>5. d.seen_seqs = seen
    BY <1>a, <1>b, <2>1, JudgedRecords
  <2>6. PICK x : d.per_unit = Append(eng.per_unit, x) /\ x.seq = u.seq
    <3>1. d.per_unit = Append(eng.per_unit, [seq |-> u.seq,
                                  verdict |-> IF ResultOf(eng, u).passed THEN "pass" ELSE "fail",
                                  reason |-> ResultOf(eng, u).reason])
      BY <1>a, <1>b, <2>1, JudgedRecords
    <3> QED
      BY <3>1
  <2>7. SeqsOf(d.per_unit) = SeqsOf(eng.per_unit) \cup {u.seq}
    BY <1>b, <2>6, SeqsAppend
  <2>8. \A f \in {"open_in", "per_unit", "seen_seqs", "trace"} : eng'[f] = d[f]
    <3>1. \A f \in {"open_in", "per_unit", "seen_seqs", "trace"} : Ticked(d)[f] = d[f]
      BY <2>4 DEF Ticked, EngineRecord
    <3> QED
      BY <1>4, <3>1
  <2>9. MayRaise(eng) => ~ResultOf(eng, u).passed
    <3>1. SUFFICES ASSUME MayRaise(eng), ResultOf(eng, u).passed PROVE FALSE
      OBVIOUS
    <3>2. eng.open_in \in SettleOpenIn
      BY <1>a, <2>1
    <3>3. u.declared_checksum = Digest(Algo, u.chunk)
      BY <2>1, <3>1, <3>2, LadderPasses DEF MayRaise, CriterionOf
    <3>4. Digest(Algo, u.chunk) # Null
      BY <2>1, NullAssumption, AlgoAssumption DEF Digest, UnitIn
    <3>5. u.declared_checksum = Null
      BY <1>4, <3>1 DEF MayRaise, DecisionRaises, EvaluateRaises, ContextOf, L1Ack
    <3> QED
      BY <3>3, <3>4, <3>5
  <2> HIDE DEF d
  <2>10. MayRaise(eng) => Verified(d) = 0
    <3>1. VerifiedCount(Append(eng.per_unit, v))
            = IF Passed(v) THEN VerifiedCount(eng.per_unit) + 1 ELSE VerifiedCount(eng.per_unit)
      BY <1>b, VerifiedCountAppend
    <3> QED
      BY <2>3, <2>9, <3>1 DEF Verified, HalfDoneInv
  <2>11. Gone(d) = gone
    BY <2>1, <2>5, <2>7 DEF Gone, HalfDoneInv
  <2>12. gone \subseteq seen /\ u.seq \in seen \ gone
    BY <2>1 DEF Gone
  <2>13. HalfTold(eng.trace, seen, gone)
    BY DEF HalfDoneInv, HalfTold
  <2> HIDE DEF seen, gone
  <2>14. HalfTold(Append(eng.trace, m), seen, gone) /\ Append(eng.trace, m) \in Seq(Line)
    <3>1. HalfTold(Append(eng.trace, m), seen, gone)
      BY <1>b, <2>2, <2>12, <2>13, HalfToldAppend
    <3>2. Append(eng.trace, m) \in Seq(Line)
      BY <1>b, <2>2
    <3> QED
      BY <3>1, <3>2
  <2>15. HalfTold(Append(Append(eng.trace, m), l), seen, gone)
    BY <2>2, <2>12, <2>14, HalfToldAppend
  <2>16. HalfTold(d.trace, seen, gone)
    BY <2>2, <2>14, <2>15
  <2>17. /\ eng'.per_unit = d.per_unit /\ eng'.seen_seqs = seen /\ eng'.trace = d.trace
         /\ Gone(eng') = gone /\ (MayRaise(eng') <=> MayRaise(eng)) /\ Verified(eng') = Verified(d)
    BY <2>4, <2>5, <2>8, <2>11 DEF Gone, MayRaise, IsOpened, CriterionOf, Verified
  <2>18. SeqsOf(d.per_unit) \subseteq seen
    BY <2>7 DEF HalfDoneInv, seen
  <2>19. gone # {} => MayRaise(eng)
    BY DEF HalfDoneInv, gone
  <2> QED
    BY <2>10, <2>16, <2>17, <2>18, <2>19
<1>5. ASSUME AdvanceResume, IsOpened(eng) PROVE Kept
  <2> DEFINE l == TickLine(eng.open_in.ref, call.seq, call.amount, eng.tick)
  <2>1. /\ call.await = "drained" /\ call.seq \in Nat /\ call.amount \in Int
        /\ eng.open_in \in OpenInputs /\ eng.tick \in Int /\ eng.open_in.ref \in Ref
        /\ eng' = Billed(eng, call.seq, call.amount)
    BY <1>5, <1>a, <1>b DEF AdvanceResume, TypeOK, Call, EngineRecord, SettleOpenIn
  <2>2. l \in Line /\ l.seq = call.seq
    BY <2>1 DEF Line, TickLine
  <2>3. eng'.trace = Append(eng.trace, l)
    BY <1>b, <2>1 DEF Billed, EngineRecord
  <2>4. \A f \in {"open_in", "per_unit", "seen_seqs"} : eng'[f] = eng[f]
    BY <1>a, <1>b, <2>1, BilledType
  <2>5. call.seq \in eng.seen_seqs /\ Gone(eng) = {}
    BY <2>1 DEF RecordInv, HalfDoneInv
  <2> HIDE DEF l
  <2> QED
    BY <1>1, <2>2, <2>3, <2>4, <2>5
<1>6. ASSUME CloseResume, IsOpened(eng) PROVE Kept
  <2> DEFINE l == StreamCloseLine(eng.open_in.ref, call.seq, call.amount, eng.tick, call.reason)
  <2>1. /\ call.seq \in Nat /\ call.amount \in Int /\ call.reason \in CloseReason
        /\ eng.open_in \in OpenInputs /\ eng.tick \in Int /\ eng.open_in.ref \in Ref
        /\ eng' = ClosedWith(eng, call.seq, call.amount, call.reason)
    BY <1>6, <1>a, <1>b DEF CloseResume, TypeOK, Call, EngineRecord, SettleOpenIn
  <2>2. l \in Line /\ l.kind = "stream-close"
    BY <2>1 DEF Line, StreamCloseLine
  <2>3. eng'.trace = Append(eng.trace, l)
    BY <1>b, <2>1 DEF ClosedWith, EngineRecord
  <2>4. \A f \in {"open_in", "per_unit", "seen_seqs"} : eng'[f] = eng[f]
    BY <1>a, <1>b, <2>1, ClosedWithType
  <2> HIDE DEF l
  <2> QED
    BY <1>1, <2>2, <2>3, <2>4
<1>7. ASSUME \A f \in {"open_in", "settled", "closed", "per_unit", "seen_seqs", "trace"} :
               eng'[f] = eng[f]
      PROVE  Kept
  <2>1. \A f \in {"open_in", "per_unit", "seen_seqs"} : eng'[f] = eng[f]
    BY <1>7
  <2>2. eng'.trace = eng.trace
    BY <1>7
  <2> HIDE DEF Kept
  <2> QED
    BY <1>1, <2>1, <2>2
<1> HIDE DEF Kept
<1>8. Kept
  BY <1>2, <1>3, <1>4, <1>5, <1>6, <1>7, EngineStretches
<1> QED
  BY <1>0, <1>8

\* Where a unit is swallowed because its digest raises half way through advance()
\* (engine.py:148-181, gates.py:62), its one ack line is all that is left of it, and its
\* session has paid nothing, for every digest.
THEOREM HalfDoneIsUnpaidAlways == Spec => []HalfDoneIsUnpaid
<1>1. Init => HalfDoneInv
  <2> SUFFICES ASSUME Init PROVE HalfDoneInv
    OBVIOUS
  <2>1. /\ eng.seen_seqs = {} /\ eng.trace = <<>> /\ eng.per_unit = <<>> /\ ~IsOpened(eng)
        /\ call.await = "none"
    BY DEF Init, NewEngine, NoCall, IsOpened
  <2>2. SeqsOf(eng.per_unit) = {}
    BY <2>1 DEF SeqsOf
  <2> QED
    BY <2>1, <2>2 DEF HalfDoneInv, Gone, MayRaise, HalfTold
<1>2. TypeOK /\ MeterInv /\ RecordInv /\ HalfDoneInv /\ [Next]_vars => HalfDoneInv'
  BY HalfDoneStep
<1>3. TypeOK /\ MeterInv /\ HalfDoneInv => HalfDoneIsUnpaid
  <2> SUFFICES ASSUME TypeOK, MeterInv, HalfDoneInv PROVE HalfDoneIsUnpaid
    OBVIOUS
  <2>1. \A s \in Gone(eng) : \E i \in DOMAIN eng.trace :
          eng.trace[i].kind = "ack" /\ UnitLines(eng.trace, s) = {i}
    BY DEF HalfDoneInv, HalfTold
  <2>2. ASSUME Gone(eng) # {} PROVE eng.settled = 0
    <3>1. IsOpened(eng) /\ Verified(eng) = 0
      BY <2>2 DEF HalfDoneInv, MayRaise
    <3>2. /\ OnMeter(OpenInputs, eng, call.await, call.amount)
          /\ call.await \in Await \ {"open_stream"}
          /\ OpenInputs \in SUBSET SettleOpenIn
      BY <3>1, OpenOnMeter
    <3>3. /\ eng.open_in.rate \in Nat /\ eng.open_in.max_total \in Nat /\ eng.settled \in Int
          /\ Due(eng) \in Nat /\ Due(eng) <= eng.open_in.rate * Verified(eng)
      BY <3>2, MeterNumbers
    <3>4. Due(eng) = 0
      BY <3>1, <3>3
    <3> QED
      BY <3>1, <3>2, <3>3, <3>4 DEF OnMeter, Metered, Settled, Unpaid, PaidOut, Await
  <2> QED
    BY <2>1, <2>2 DEF HalfDoneIsUnpaid, Gone, SeqsOf, UnitLines
<1> QED
  BY <1>1, <1>2, <1>3, TypeCorrect, MeterCorrect, RecordCorrect, PTL DEF Spec

\* The trace of an open engine tells what it has on its books, also at the awaits.
TraceInv == IF IsOpened(eng) THEN TraceTells(eng) ELSE eng.trace = <<>>

\* The inductive step.
LEMMA TraceStep ==
  ASSUME PlainRefs, TypeOK, TypeOK', MeterInv, TraceInv, [Next]_vars
  PROVE  TraceInv'
<1>a. /\ OpenInputs \in SUBSET SettleOpenIn /\ Null \notin OpenInputs
      /\ \A u \in UnitInputs : u \in UnitIn
  BY InputAssumption
<1>b. /\ eng \in EngineRecord(OpenInputs)
      /\ IsOpened(eng) => eng.open_in \in OpenInputs
      /\ call.amount \in Int /\ call.seq \in Nat /\ call.reason \in CloseReason
  BY DEF TypeOK, Engine, EngineRecord, Call, IsOpened
<1>1. CASE \A f \in {"open_in", "settled", "closed", "per_unit", "seen_seqs", "trace"} :
             eng'[f] = eng[f]
  <2>1. IsOpened(eng)' <=> IsOpened(eng)
    BY <1>1 DEF IsOpened
  <2>2. ASSUME TraceTells(eng) PROVE TraceTells(eng')
    BY <1>1, <2>2, TellsStill
  <2> QED
    BY <1>1, <2>1, <2>2 DEF TraceInv
<1>2. ASSUME ~IsOpened(eng), NEW i \in OpenInputs, eng' = Opened(eng, i) PROVE TraceInv'
  <2>1. eng.trace = <<>> /\ eng.per_unit = <<>> /\ eng.settled = 0 /\ ~eng.closed
    BY <1>2 DEF TraceInv, MeterInv
  <2>2. TraceTells(Opened(eng, i)) /\ Opened(eng, i).open_in = i
    BY <1>a, <1>b, <2>1, TellsOpened, OpenedType
  <2> QED
    BY <1>a, <1>2, <2>2 DEF TraceInv, IsOpened
<1>3. ASSUME NEW u \in UnitInputs, NewUnit(u), DecisionRaises(eng, u), eng' = Received(eng, u)
      PROVE  TraceInv'
  <2>1. /\ IsOpened(eng) /\ ~eng.closed /\ TraceTells(eng)
        /\ CriterionOf(eng) # "ack_received"
    BY <1>3 DEF NewUnit, Accepting, TraceInv, DecisionRaises, EvaluateRaises
  <2>2. TraceTells(Received(eng, u)) /\ Received(eng, u).open_in = eng.open_in
    BY <1>a, <1>b, <2>1, TellsReceived, ReceivedType
  <2> QED
    BY <1>3, <2>1, <2>2 DEF TraceInv, IsOpened
<1>4. ASSUME NEW u \in UnitInputs, NewUnit(u), eng' \in {Judged(eng, u), Ticked(Judged(eng, u))}
      PROVE  TraceInv'
  <2>1. IsOpened(eng) /\ ~eng.closed /\ TraceTells(eng)
    BY <1>4 DEF NewUnit, Accepting, TraceInv
  <2>2. TraceTells(eng')
    BY <1>a, <1>b, <1>4, <2>1, TellsJudged
  <2>3. TraceTells(eng') => TraceInv'
    <3>1. IsOpened(eng')
      <4>1. Judged(eng, u) \in EngineRecord(OpenInputs) /\ Judged(eng, u).open_in = eng.open_in
        BY <1>a, <1>b, <2>1, JudgedType
      <4>2. Ticked(Judged(eng, u)).open_in = Judged(eng, u).open_in
        BY <4>1 DEF Ticked, EngineRecord
      <4> QED
        BY <1>4, <2>1, <4>1, <4>2 DEF IsOpened
    <3> QED
      BY <3>1 DEF TraceInv
  <2> QED
    BY <2>2, <2>3
<1>5. ASSUME IsOpened(eng), OnMeter(OpenInputs, eng, "drained", call.amount),
             eng' = Billed(eng, call.seq, call.amount)
      PROVE  TraceInv'
  <2>1. ~eng.closed /\ TraceTells(eng)
    BY <1>5 DEF OnMeter, Metered, TraceInv
  <2>2. TraceTells(eng') /\ eng'.open_in = eng.open_in
    BY <1>a, <1>b, <1>5, <2>1, TellsBilled, BilledType
  <2> QED
    BY <1>5, <2>2 DEF TraceInv, IsOpened
<1>6. ASSUME IsOpened(eng), OnMeter(OpenInputs, eng, "receipt", call.amount),
             eng' = ClosedWith(eng, call.seq, call.amount, call.reason)
      PROVE  TraceInv'
  <2>1. ~eng.closed /\ TraceTells(eng) /\ call.amount = eng.settled
    BY <1>6 DEF OnMeter, Metered, TraceInv
  <2>2. TraceTells(eng') /\ eng'.open_in = eng.open_in
    BY <1>a, <1>b, <1>6, <2>1, TellsClosed, ClosedWithType
  <2> QED
    BY <1>6, <2>2 DEF TraceInv, IsOpened
<1> QED
  BY <1>1, <1>2, <1>3, <1>4, <1>5, <1>6, EngineMoves

\* The trace and the books are never apart.
LEMMA TraceCorrect ==
  ASSUME PlainRefs
  PROVE  Spec => []TraceInv
<1>1. Init => TraceInv
  BY DEF Init, NewEngine, TraceInv, IsOpened
<1>2. TypeOK /\ TypeOK' /\ MeterInv /\ TraceInv /\ [Next]_vars => TraceInv'
  BY TraceStep
<1> QED
  BY <1>1, <1>2, TypeCorrect, MeterCorrect, PTL DEF Spec

\* A validator that has the trace and nothing else recovers the agreed rate, the total, the
\* number of verified units and the close (trace.py:5-6), whatever the calls were, provided
\* no ref contains the separator.
THEOREM TraceReconcilesAlways ==
  ASSUME PlainRefs
  PROVE  Spec => []TraceReconciles
<1>1. TypeOK /\ MeterInv /\ TraceInv => TraceReconciles
  <2> SUFFICES ASSUME TypeOK, MeterInv, TraceInv, Idle, IsOpened(eng)
               PROVE  LET t == eng.trace
                      IN  /\ LinesOf(t, "stream-open") = {1} /\ RateFromTrace(t) = eng.open_in.rate
                          /\ BilledFromTrace(t) = eng.settled
                          /\ BilledFromTrace(t) <= RateFromTrace(t) * VerifiedFromTrace(t)
                          /\ VerifiedFromTrace(t) = Verified(eng)
                          /\ LinesOf(t, "stream-close") = (IF eng.closed THEN {Len(t)} ELSE {})
                          /\ eng.closed => Split(t[Len(t)])[4] = eng.settled
    BY DEF TraceReconciles
  <2>1. Tells(eng.trace, eng.open_in.rate, eng.settled, Verified(eng), eng.closed)
    BY DEF TraceInv, TraceTells
  <2>2. eng.settled <= eng.open_in.rate * Verified(eng)
    BY IdleOnMeter, OpenOnMeter, MeterBounds
  <2> QED
    BY <2>1, <2>2 DEF Tells
<1> QED
  BY <1>1, TypeCorrect, MeterCorrect, TraceCorrect, PTL

\* A refused unit is the last one judged, and no money was released for it.
RefusedIsLast(e) ==
  \A i \in DOMAIN e.per_unit :
    ~Passed(e.per_unit[i]) =>
      i = Len(e.per_unit) /\ e.per_unit[i].seq \notin TickSeqs(e.trace)

\* The inductive step: nothing is judged after a refusal, and nothing paid.
LEMMA RefusedIsLastStep ==
  ASSUME TypeOK, TypeOK', MeterInv, RecordInv, RefusedIsLast(eng), [Next]_vars
  PROVE  RefusedIsLast(eng')
<1>a. /\ OpenInputs \in SUBSET SettleOpenIn /\ Null \notin OpenInputs
      /\ \A u \in UnitInputs : u \in UnitIn
  BY InputAssumption
<1>b. /\ eng \in EngineRecord(OpenInputs)
      /\ IsOpened(eng) => eng.open_in \in OpenInputs
      /\ eng.per_unit \in Seq(PerUnit) /\ eng.trace \in Seq(Line)
      /\ call.amount \in Int /\ call.seq \in Nat /\ call.reason \in CloseReason
  BY DEF TypeOK, Engine, EngineRecord, Call, IsOpened
\* Lines that are no ticks may be added.
<1>0. ASSUME eng'.per_unit = eng.per_unit, TickSeqs(eng'.trace) = TickSeqs(eng.trace)
      PROVE  RefusedIsLast(eng')
  BY <1>0 DEF RefusedIsLast
<1>1. CASE \A f \in {"open_in", "settled", "closed", "per_unit", "seen_seqs", "trace"} :
             eng'[f] = eng[f]
  BY <1>0, <1>1
<1>2. ASSUME ~IsOpened(eng), NEW i \in OpenInputs, eng' = Opened(eng, i)
      PROVE  RefusedIsLast(eng')
  <2>1. eng.per_unit = <<>> /\ eng'.per_unit = eng.per_unit
    BY <1>a, <1>b, <1>2, OpenedType DEF MeterInv
  <2> QED
    BY <2>1 DEF RefusedIsLast
<1>3. ASSUME NEW u \in UnitInputs, NewUnit(u), DecisionRaises(eng, u), eng' = Received(eng, u)
      PROVE  RefusedIsLast(eng')
  <2>1. IsOpened(eng)
    BY <1>3 DEF NewUnit, Accepting
  <2>2. PICK l \in Line : l.kind = "ack" /\ Received(eng, u).trace = Append(eng.trace, l)
    BY <1>a, <1>b, <2>1, ReceivedRecords
  <2>3. TickSeqs(eng'.trace) = TickSeqs(eng.trace)
    BY <1>b, <1>3, <2>2, NoNewTick
  <2>4. eng'.per_unit = eng.per_unit
    BY <1>a, <1>b, <1>3, <2>1, ReceivedType
  <2> QED
    BY <1>0, <2>3, <2>4
<1>4. ASSUME NEW u \in UnitInputs, NewUnit(u), eng' \in {Judged(eng, u), Ticked(Judged(eng, u))}
      PROVE  RefusedIsLast(eng')
  <2> DEFINE j == Judged(eng, u)
             v == [seq |-> u.seq, verdict |-> IF ResultOf(eng, u).passed THEN "pass" ELSE "fail",
                   reason |-> ResultOf(eng, u).reason]
  <2>1. IsOpened(eng) /\ Idle /\ ~eng.closed /\ u.seq \notin eng.seen_seqs
    BY <1>4 DEF NewUnit, Accepting
  <2>2. ~Refused(eng)
    BY <2>1, OpenOnMeter DEF OnMeter, Metered, Idle
  <2>3. u.seq \notin TickSeqs(eng.trace)
    BY <2>1 DEF RecordInv
  <2>4. j \in EngineRecord(OpenInputs) /\ j.per_unit = Append(eng.per_unit, v) /\ v.seq = u.seq
    <3>1. j \in EngineRecord(OpenInputs)
      BY <1>a, <1>b, <2>1, JudgedType
    <3>2. j.per_unit = Append(eng.per_unit, v)
      BY <1>a, <1>b, <2>1, JudgedRecords
    <3> QED
      BY <3>1, <3>2
  <2>5. PICK l \in Line, m \in Line :
          /\ l.kind # "tick" /\ m.kind # "tick"
          /\ \/ j.trace = Append(eng.trace, l)
             \/ j.trace = Append(Append(eng.trace, m), l)
          /\ ResultOf(eng, u).passed =>
               l \in {GateLine(eng.open_in.ref, u.seq, TRUE), AckL1Line(eng.open_in.ref, u.seq)}
    BY <1>a, <1>b, <2>1, JudgedRecords, Zenon
  <2> HIDE DEF j, v
  <2>6. TickSeqs(j.trace) = TickSeqs(eng.trace)
    <3> DEFINE t == Append(eng.trace, m)
    <3>1. t \in Seq(Line) /\ TickSeqs(t) = TickSeqs(eng.trace)
      BY <1>b, <2>5, NoNewTick
    <3>2. j.trace = Append(eng.trace, l) \/ j.trace = Append(t, l)
      BY <2>5
    <3> HIDE DEF t
    <3> QED
      BY <1>b, <2>5, <3>1, <3>2, NoNewTick
  <2>7. eng'.per_unit = j.per_unit /\ eng'.trace = j.trace
    <3>1. Ticked(j).per_unit = j.per_unit /\ Ticked(j).trace = j.trace
      BY <2>4 DEF Ticked, EngineRecord
    <3> QED
      BY <1>4, <3>1 DEF j
  <2>8. \A i \in DOMAIN Append(eng.per_unit, v) :
          \/ i \in DOMAIN eng.per_unit /\ Append(eng.per_unit, v)[i] = eng.per_unit[i]
          \/ i = Len(Append(eng.per_unit, v)) /\ Append(eng.per_unit, v)[i] = v
    BY <1>b
  <2> QED
    BY <2>2, <2>3, <2>4, <2>6, <2>7, <2>8 DEF RefusedIsLast, Refused
<1>5. ASSUME IsOpened(eng), OnMeter(OpenInputs, eng, "drained", call.amount),
             eng' = Billed(eng, call.seq, call.amount)
      PROVE  RefusedIsLast(eng')
  <2>1. ~Refused(eng) /\ eng'.per_unit = eng.per_unit
    BY <1>a, <1>b, <1>5, BilledType DEF OnMeter, Metered, PaidOut
  <2> QED
    BY <2>1 DEF RefusedIsLast, Refused
<1>6. ASSUME IsOpened(eng), OnMeter(OpenInputs, eng, "receipt", call.amount),
             eng' = ClosedWith(eng, call.seq, call.amount, call.reason)
      PROVE  RefusedIsLast(eng')
  <2> DEFINE l == StreamCloseLine(eng.open_in.ref, call.seq, call.amount, eng.tick, call.reason)
  <2>1. eng'.trace = Append(eng.trace, l) /\ l.kind = "stream-close"
    BY <1>b, <1>6 DEF ClosedWith, EngineRecord, StreamCloseLine
  <2>2. eng'.per_unit = eng.per_unit
    BY <1>a, <1>b, <1>6, ClosedWithType
  <2> HIDE DEF l
  <2>3. TickSeqs(eng'.trace) = TickSeqs(eng.trace)
    BY <1>b, <2>1, NoNewTick
  <2> QED
    BY <1>0, <2>2, <2>3
<1> QED
  BY <1>1, <1>2, <1>3, <1>4, <1>5, <1>6, EngineMoves

\* So it is in every state.
LEMMA RefusedIsLastCorrect == Spec => []RefusedIsLast(eng)
<1>1. Init => RefusedIsLast(eng)
  BY DEF Init, NewEngine, RefusedIsLast
<1>2. TypeOK /\ TypeOK' /\ MeterInv /\ RecordInv /\ RefusedIsLast(eng) /\ [Next]_vars
        => RefusedIsLast(eng)'
  BY RefusedIsLastStep
<1> QED
  BY <1>1, <1>2, TypeCorrect, MeterCorrect, RecordCorrect, PTL DEF Spec

\* An answer's snapshot is taken with nothing running.
LEMMA AnswersAtRest ==
  ASSUME TypeOK, TypeOK', MeterInv, [Next]_vars
  PROVE  out' = out \/ (out' = Snapshot(eng') /\ IsOpened(eng') /\ Idle')
<1>1. ASSUME Returns PROVE Idle'
  BY <1>1 DEF Returns, Idle, NoCall
<1>2. out' = out \/ Returns
  BY DEF Next, OpenAgain, OpenRefused, OpenBegin, BeforeOpen, RefMismatch, AdvanceClosed, Advance,
         AdvanceDuplicate, AdvanceRaises, AdvancePass, AdvanceCapReached, AdvanceFail, CloseBegin,
         CloseAgain, Resume, OpenResume, PluginAdvance, AdvanceResume, PluginClose, CloseResume,
         Raise, Suspends, vars
<1> QED
  BY <1>1, <1>2, AnswerStep

\* What DisplayMatchesTrace says of answer o.
Matches(o) ==
  /\ o.display.total_paid = BilledFromTrace(o.trace)
  /\ \A i \in DOMAIN o.display.rows :
       o.display.rows[i].stopped_here =>
         /\ i = Len(o.display.rows) /\ o.display.complete
         /\ o.display.rows[i].item \notin TickSeqs(o.trace)

\* It holds of the snapshot of an engine at rest.
LEMMA SnapshotMatches ==
  ASSUME NEW e \in Engine, TraceTells(e), RefusedIsLast(e), Refused(e) => e.closed
  PROVE  Matches(Snapshot(e))
<1> DEFINE o == Snapshot(e)
           rows == [i \in DOMAIN e.per_unit |-> Row(e.per_unit[i])]
<1>1. /\ o.trace = e.trace /\ o.display.total_paid = e.settled
      /\ o.display.complete = e.closed /\ o.display.rows = rows
  BY DEF Snapshot, RenderDisplay
<1>2. BilledFromTrace(e.trace) = e.settled
  BY DEF TraceTells, Tells
<1>3. e.per_unit \in Seq(PerUnit)
  BY DEF Engine, EngineRecord
<1>4. Len(rows) = Len(e.per_unit) /\ DOMAIN rows = DOMAIN e.per_unit
  BY <1>3
<1>5. \A i \in DOMAIN rows :
        /\ rows[i].item = e.per_unit[i].seq
        /\ rows[i].stopped_here => ~Passed(e.per_unit[i])
  BY DEF Row, Passed
<1> HIDE DEF rows, o
<1>6. \A i \in DOMAIN rows :
        rows[i].stopped_here =>
          i = Len(rows) /\ e.closed /\ rows[i].item \notin TickSeqs(e.trace)
  BY <1>4, <1>5 DEF RefusedIsLast, Refused
<1>7. Matches(o)
  BY <1>1, <1>2, <1>6 DEF Matches
<1> QED
  BY <1>7 DEF o

\* The transcript a person reads and the trace a machine checks tell the same story
\* (engine.py:271-315), whatever the calls were, provided no ref contains the separator.
THEOREM DisplayMatchesTraceAlways ==
  ASSUME PlainRefs
  PROVE  Spec => []DisplayMatchesTrace
<1> DEFINE DisplayInv == out # Null => Matches(out)
<1>1. Init => DisplayInv
  BY DEF Init
<1>2. TypeOK /\ TypeOK' /\ MeterInv /\ MeterInv' /\ TraceInv' /\ RefusedIsLast(eng)'
        /\ DisplayInv /\ [Next]_vars => DisplayInv'
  <2> SUFFICES ASSUME TypeOK, TypeOK', MeterInv, MeterInv', TraceInv', RefusedIsLast(eng)',
                      DisplayInv, [Next]_vars
               PROVE  DisplayInv'
    OBVIOUS
  <2>1. CASE out' = out
    BY <2>1
  <2>2. CASE out' = Snapshot(eng') /\ IsOpened(eng') /\ Idle'
    <3>1. eng' \in Engine /\ TraceTells(eng') /\ RefusedIsLast(eng')
      BY <2>2 DEF TypeOK, TraceInv
    <3>2. Refused(eng') => eng'.closed
      BY <2>2 DEF MeterInv, Metered, Idle
    <3> QED
      BY <2>2, <3>1, <3>2, SnapshotMatches
  <2> QED
    BY <2>1, <2>2, AnswersAtRest
<1>3. DisplayInv => DisplayMatchesTrace
  BY DEF Matches, DisplayMatchesTrace, TickSeqs, TickIndices
<1> QED
  BY <1>1, <1>2, <1>3, TypeCorrect, MeterCorrect, TraceCorrect, RefusedIsLastCorrect, PTL DEF Spec

--------------------------------------------------------------------------------
(***************************************************************************)
(* How far the documentation's statements hold: for each one a run refutes *)
(* the condition under which the code keeps it.                            *)
(***************************************************************************)

\* The units money was released for.
Funded(t) == {t[i].seq : i \in {j \in TickIndices(t) : t[j].amount >= 1}}

\* A longer trace funds no fewer units.
LEMMA FundedGrows ==
  ASSUME NEW s \in Seq(Line), NEW t \in Seq(Line), Extends(s, t)
  PROVE  Funded(s) \subseteq Funded(t)
<1>1. \A i \in DOMAIN s : i \in DOMAIN t /\ t[i] = s[i]
  BY DEF Extends
<1> QED
  BY <1>1 DEF Funded, TickIndices

\* A verified unit that is not funded waits for its money, or it found the cap used up and
\* the session ends with it.
Pending(e, c, seq) ==
  \/ c.await \in {"advance", "drained"} /\ c.seq = seq
  \/ /\ e.settled = e.open_in.max_total
     /\ e.closed \/ c.await \in {"close_stream", "receipt"}

ReleaseInv ==
  /\ call.await = "drained" => call.amount >= 1
  /\ \A i \in DOMAIN eng.per_unit :
       Passed(eng.per_unit[i]) =>
         \/ eng.per_unit[i].seq \in Funded(eng.trace)
         \/ i = Len(eng.per_unit) /\ Pending(eng, call, eng.per_unit[i].seq)

\* The inductive step.
LEMMA ReleaseStep ==
  ASSUME TypeOK, TypeOK', MeterInv, MeterInv', ReleaseInv, [Next]_vars
  PROVE  ReleaseInv'
<1>a. /\ OpenInputs \in SUBSET SettleOpenIn /\ Null \notin OpenInputs
      /\ \A u \in UnitInputs : u \in UnitIn
  BY InputAssumption
<1>b. /\ eng \in EngineRecord(OpenInputs) /\ call \in Call
      /\ IsOpened(eng) => eng.open_in \in OpenInputs
      /\ eng.per_unit \in Seq(PerUnit) /\ eng.trace \in Seq(Line) /\ eng'.trace \in Seq(Line)
      /\ call.amount \in Int /\ call.seq \in Nat /\ call.reason \in CloseReason
  BY DEF TypeOK, Engine, EngineRecord, Call, IsOpened
<1>1. ASSUME ~IsOpened(eng) PROVE ReleaseInv'
  <2>1. eng.per_unit = <<>> /\ call.await \in {"none", "open_stream"}
    BY <1>1 DEF MeterInv, TypeOK, IsOpened, Call, Await
  <2>2. CASE OpenResume
    <3>1. eng'.per_unit = eng.per_unit
      BY <1>a, <1>b, <2>2, OpenedType DEF OpenResume, TypeOK, Call
    <3>2. call'.await = "none"
      BY <2>2 DEF OpenResume, Returns, NoCall
    <3> QED
      BY <2>1, <3>1, <3>2 DEF ReleaseInv
  <2>3. CASE eng' = eng /\ call'.await # "drained"
    BY <2>1, <2>3 DEF ReleaseInv
  <2>4. ASSUME NEW i \in OpenInputs, OpenRefused(i) \/ OpenBegin(i)
        PROVE  eng' = eng /\ call'.await # "drained"
    <3>1. CASE OpenRefused(i)
      BY <3>1 DEF OpenRefused, Raise, NoCall
    <3>2. CASE OpenBegin(i)
      BY <3>2 DEF OpenBegin, Suspends, NoCall
    <3> QED
      BY <2>4, <3>1, <3>2
  <2>5. ASSUME OpenAgain \/ BeforeOpen \/ RefMismatch \/ AdvanceClosed \/ CloseBegin
               \/ CloseAgain \/ UNCHANGED vars
        PROVE  eng' = eng /\ call'.await # "drained"
    BY <1>1, <2>1, <2>5 DEF OpenAgain, BeforeOpen, RefMismatch, AdvanceClosed, CloseBegin,
                            CloseAgain, Raise, Accepting, NoCall, vars
  <2>6. ASSUME NEW u \in UnitInputs PROVE ~Advance(u)
    BY <1>1 DEF Advance, AdvanceDuplicate, AdvanceRaises, AdvancePass, AdvanceCapReached,
                AdvanceFail, Decided, NewUnit, Accepting
  <2> QED
    BY <2>1, <2>2, <2>3, <2>4, <2>5, <2>6
       DEF Next, Resume, PluginAdvance, AdvanceResume, PluginClose, CloseResume
<1> SUFFICES ASSUME IsOpened(eng) PROVE ReleaseInv'
  BY <1>1
<1>c. eng.open_in \in OpenInputs /\ eng.open_in \in SettleOpenIn
  BY <1>a, <1>b
<1>2. Funded(eng.trace) \subseteq Funded(eng'.trace)
  BY <1>b, GrowsStep, FundedGrows DEF Grows
\* No new verdict: whoever was pending still is, or is funded.
<1>3. ASSUME eng'.per_unit = eng.per_unit, call'.await = "drained" => call'.amount >= 1,
             \A seq : Pending(eng, call, seq) =>
                        Pending(eng', call', seq) \/ seq \in Funded(eng'.trace)
      PROVE  ReleaseInv'
  BY <1>2, <1>3 DEF ReleaseInv
<1>4. ASSUME Idle, eng' = eng, call' = NoCall PROVE ReleaseInv'
  <2>1. \A seq : Pending(eng, call, seq) => Pending(eng', call', seq)
    BY <1>4 DEF Pending, Idle
  <2> QED
    BY <1>3, <1>4, <2>1 DEF NoCall
\* An engine that is at rest and open has nothing pending.
<1>5. ASSUME Accepting PROVE \A seq : ~Pending(eng, call, seq)
  BY <1>5 DEF Accepting, Pending, Idle
<1>6. CASE UNCHANGED vars
  BY <1>6, <1>3 DEF vars, ReleaseInv
<1>7. CASE OpenAgain \/ BeforeOpen \/ RefMismatch \/ AdvanceClosed \/ CloseAgain
  BY <1>4, <1>7 DEF OpenAgain, BeforeOpen, RefMismatch, AdvanceClosed, CloseAgain, Raise, Returns
<1>8. CASE CloseBegin
  <2>1. Accepting /\ eng' = eng /\ call'.await = "close_stream"
    BY <1>8 DEF CloseBegin, Suspends, NoCall
  <2> QED
    BY <1>3, <1>5, <2>1
<1>9. CASE PluginAdvance
  <2> DEFINE owed == Owed(eng.plugin, eng.tick)
  <2>1. /\ eng' = [eng EXCEPT !.plugin = AdvanceStream(eng.plugin, eng.tick)]
        /\ call' = [call EXCEPT !.await = "drained", !.amount = owed]
        /\ call.await = "advance"
    BY <1>9 DEF PluginAdvance
  <2>2. owed >= 1
    <3>1. /\ Unpaid(eng) /\ eng.plugin \in Stream /\ ~Unmeterable(eng.open_in)
          /\ eng.plugin.rate = eng.open_in.rate /\ eng.plugin.max_total = eng.open_in.max_total
      BY <2>1, OpenOnMeter DEF OnMeter, Metered
    <3>2. /\ eng.plugin.rate \in Nat /\ eng.plugin.max_total \in Nat
          /\ eng.plugin.drained \in Int /\ eng.plugin.at \in Int /\ eng.tick \in Int
      BY <1>b, <3>1 DEF Stream, EngineRecord
    <3>3. eng.tick = eng.plugin.at + 1
      BY <3>1, <3>2 DEF Unpaid
    <3>4. owed = Lesser(eng.plugin.rate, eng.plugin.max_total - eng.plugin.drained)
      BY <3>1, <3>3, OneTickOwed
    <3>5. eng.plugin.rate >= 1 /\ eng.plugin.drained < eng.plugin.max_total
      BY <3>1, <3>2 DEF Unpaid, Unmeterable
    <3> HIDE DEF owed
    <3> QED
      BY <3>2, <3>4, <3>5 DEF Lesser
  <2> HIDE DEF owed
  <2>3. \A f \in {"open_in", "per_unit", "settled", "closed"} : eng'[f] = eng[f]
    BY <1>b, <2>1 DEF EngineRecord
  <2>4. call'.await = "drained" /\ call'.amount = owed /\ call'.seq = call.seq
    BY <1>b, <2>1 DEF Call
  <2>5. \A seq : Pending(eng, call, seq) => Pending(eng', call', seq)
    BY <2>1, <2>3, <2>4 DEF Pending
  <2> QED
    BY <1>3, <2>2, <2>3, <2>4, <2>5
<1>10. CASE PluginClose
  <2>1. PICK p : /\ eng' = [eng EXCEPT !.plugin = p]
                 /\ call' = [call EXCEPT !.await = "receipt", !.amount = p.drained]
    BY <1>10 DEF PluginClose
  <2>2. \A f \in {"open_in", "per_unit", "settled", "closed"} : eng'[f] = eng[f]
    BY <1>b, <2>1 DEF EngineRecord
  <2>3. call.await = "close_stream" /\ call'.await = "receipt"
    BY <1>b, <1>10, <2>1 DEF PluginClose, Call
  <2>4. \A seq : Pending(eng, call, seq) => Pending(eng', call', seq)
    BY <2>2, <2>3 DEF Pending
  <2> QED
    BY <1>3, <2>2, <2>3, <2>4
<1>11. CASE AdvanceResume
  <2> DEFINE l == TickLine(eng.open_in.ref, call.seq, call.amount, eng.tick)
  <2>1. /\ eng' = Billed(eng, call.seq, call.amount) /\ call'.await = "none"
        /\ call.await = "drained"
    BY <1>11 DEF AdvanceResume, Returns, NoCall
  <2>2. eng'.per_unit = eng.per_unit
    BY <1>a, <1>b, <1>c, <2>1, BilledType
  <2>3. eng'.trace = Append(eng.trace, l)
    BY <1>b, <2>1 DEF Billed, EngineRecord
  <2>4. l.kind = "tick" /\ l.seq = call.seq /\ l.amount >= 1
    BY <2>1 DEF TickLine, ReleaseInv
  <2> HIDE DEF l
  <2>5. /\ Len(eng.trace) + 1 \in DOMAIN eng'.trace
        /\ eng'.trace[Len(eng.trace) + 1] = l
    BY <1>b, <2>3
  <2>6. call.seq \in Funded(eng'.trace)
    BY <2>4, <2>5 DEF Funded, TickIndices
  <2>7. \A seq : Pending(eng, call, seq) => seq \in Funded(eng'.trace) \/ Pending(eng', call', seq)
    <3>1. ~eng.closed
      BY <2>1, OpenOnMeter DEF OnMeter, Metered
    <3> QED
      BY <2>1, <2>6, <3>1 DEF Pending
  <2> QED
    BY <1>3, <2>1, <2>2, <2>7
<1>12. CASE CloseResume
  <2>1. /\ eng' = ClosedWith(eng, call.seq, call.amount, call.reason) /\ call'.await = "none"
        /\ call.await = "receipt"
    BY <1>12 DEF CloseResume, Returns, NoCall
  <2>2. /\ \A f \in {"open_in", "per_unit"} : eng'[f] = eng[f]
        /\ eng'.settled = call.amount /\ eng'.closed
    BY <1>a, <1>b, <1>c, <2>1, ClosedWithType
  <2>3. call.amount = eng.settled
    BY <2>1, OpenOnMeter DEF OnMeter, Metered
  <2>4. \A seq : Pending(eng, call, seq) => Pending(eng', call', seq)
    BY <2>1, <2>2, <2>3 DEF Pending
  <2> QED
    BY <1>3, <2>1, <2>2, <2>4
<1>13. ASSUME NEW u \in UnitInputs, Advance(u) PROVE ReleaseInv'
  <2>1. CASE AdvanceDuplicate(u)
    BY <1>4, <2>1 DEF AdvanceDuplicate, Accepting, Raise
  <2> SUFFICES ASSUME NewUnit(u) PROVE ReleaseInv'
    BY <1>13, <2>1 DEF Advance, AdvanceRaises, AdvancePass, AdvanceCapReached, AdvanceFail,
                       Decided
  <2>2. Accepting /\ u \in UnitIn
    BY <1>a DEF NewUnit
  <2>3. CASE AdvanceRaises(u)
    <3>1. eng' = Received(eng, u) /\ call'.await = "none"
      BY <2>3 DEF AdvanceRaises, Raise, NoCall
    <3>2. eng'.per_unit = eng.per_unit
      BY <1>a, <1>b, <1>c, <2>2, <3>1, ReceivedType
    <3> QED
      BY <1>3, <1>5, <2>2, <3>1, <3>2
  <2> DEFINE j == Judged(eng, u)
             v == [seq |-> u.seq, verdict |-> IF ResultOf(eng, u).passed THEN "pass" ELSE "fail",
                   reason |-> ResultOf(eng, u).reason]
  <2>4. \A f \in {"open_in", "settled"} : j[f] = eng[f]
    BY <1>a, <1>b, <1>c, <2>2, JudgedType
  <2>5. /\ j \in EngineRecord(OpenInputs)
    BY <1>a, <1>b, <1>c, <2>2, JudgedType
  <2>6. j.per_unit = Append(eng.per_unit, v)
    BY <1>a, <1>b, <1>c, <2>2, JudgedRecords
  <2>7. v.seq = u.seq /\ (Passed(v) => ResultOf(eng, u).passed)
    BY DEF Passed
  <2> HIDE DEF j, v
  <2>8. ASSUME \A f \in {"open_in", "settled", "per_unit"} : eng'[f] = j[f],
               call'.await # "drained",
               ResultOf(eng, u).passed => Pending(eng', call', u.seq)
        PROVE  ReleaseInv'
    <3>1. \A i \in DOMAIN Append(eng.per_unit, v) :
            \/ i \in DOMAIN eng.per_unit /\ Append(eng.per_unit, v)[i] = eng.per_unit[i]
            \/ i = Len(Append(eng.per_unit, v)) /\ Append(eng.per_unit, v)[i] = v
      BY <1>b
    <3>2. \A i \in DOMAIN eng.per_unit :
            Passed(eng.per_unit[i]) => eng.per_unit[i].seq \in Funded(eng'.trace)
      BY <1>2, <1>5, <2>2 DEF ReleaseInv
    <3>3. eng'.per_unit = Append(eng.per_unit, v)
      BY <2>6, <2>8
    <3> QED
      BY <2>7, <2>8, <3>1, <3>2, <3>3 DEF ReleaseInv
  <2>9. CASE AdvancePass(u)
    <3>1. eng' = Ticked(j) /\ call'.await = "advance" /\ call'.seq = u.seq
      BY <2>9 DEF AdvancePass, Suspends, NoCall, j
    <3>2. \A f \in {"open_in", "settled", "per_unit"} : eng'[f] = j[f]
      BY <2>5, <3>1 DEF Ticked, EngineRecord
    <3> QED
      BY <2>8, <3>1, <3>2 DEF Pending
  <2>10. CASE AdvanceCapReached(u)
    <3>1. eng' = j /\ call'.await = "close_stream" /\ Remaining(eng) <= 0
      BY <2>10 DEF AdvanceCapReached, Suspends, NoCall, j
    <3>2. eng.settled = eng.open_in.max_total
      <4>1. OnMeter(OpenInputs, eng, "none", 0)
        BY <2>2, IdleOnMeter DEF Accepting
      <4>2. eng.settled \in Int /\ eng.open_in.max_total \in Nat /\ Due(eng) <= eng.open_in.max_total
        BY <1>a, <4>1, MeterNumbers
      <4>3. eng.settled = Due(eng)
        BY <4>1 DEF OnMeter, Metered, Settled
      <4> QED
        BY <3>1, <4>2, <4>3 DEF Remaining
    <3> QED
      BY <2>4, <2>8, <3>1, <3>2 DEF Pending
  <2>11. CASE AdvanceFail(u)
    <3>1. eng' = j /\ call'.await = "close_stream" /\ ~ResultOf(eng, u).passed
      BY <2>11 DEF AdvanceFail, Suspends, NoCall, j
    <3> QED
      BY <2>8, <3>1
  <2> QED
    BY <1>13, <2>1, <2>3, <2>9, <2>10, <2>11 DEF Advance
<1>14. ASSUME NEW i \in OpenInputs PROVE ~OpenRefused(i) /\ ~OpenBegin(i)
  BY DEF OpenRefused, OpenBegin
<1>15. ~OpenResume
  BY DEF OpenResume, TypeOK, IsOpened
<1> QED
  BY <1>6, <1>7, <1>8, <1>9, <1>10, <1>11, <1>12, <1>13, <1>14, <1>15 DEF Next, Resume

\* Every verified unit is funded, waits for its money, or met the end of the cap.
LEMMA ReleaseCorrect == Spec => []ReleaseInv
<1>1. Init => ReleaseInv
  BY DEF Init, NewEngine, NoCall, ReleaseInv
<1>2. TypeOK /\ TypeOK' /\ MeterInv /\ MeterInv' /\ ReleaseInv /\ [Next]_vars => ReleaseInv'
  BY ReleaseStep
<1> QED
  BY <1>1, <1>2, TypeCorrect, MeterCorrect, PTL DEF Spec

\* An item shown as PAID had money released for it, at least 1, or it is the last item of a
\* finished settlement that left nothing of the cap.
PaidOrCapUsed(o) ==
  \A i \in DOMAIN o.display.rows :
    o.display.rows[i].paid =>
      \/ o.display.rows[i].item \in Funded(o.trace)
      \/ /\ i = Len(o.display.rows) /\ o.display.complete /\ o.remainder_unspent = 0

\* It holds of the snapshot of an engine at rest.
LEMMA SnapshotShowsFunded ==
  ASSUME NEW e \in Engine, IsOpened(e), NEW c, c.await = "none",
         \A i \in DOMAIN e.per_unit :
           Passed(e.per_unit[i]) =>
             \/ e.per_unit[i].seq \in Funded(e.trace)
             \/ i = Len(e.per_unit) /\ Pending(e, c, e.per_unit[i].seq)
  PROVE  PaidOrCapUsed(Snapshot(e))
<1> DEFINE o == Snapshot(e)
           rows == [i \in DOMAIN e.per_unit |-> Row(e.per_unit[i])]
<1>1. /\ o.trace = e.trace /\ o.remainder_unspent = e.open_in.max_total - e.settled
      /\ o.display.complete = e.closed /\ o.display.rows = rows
  BY DEF Snapshot, RenderDisplay, Remaining
<1>2. e.settled = e.open_in.max_total => o.remainder_unspent = 0
  <2>1. e.open_in.max_total \in Nat
    BY InputAssumption DEF Engine, EngineRecord, IsOpened, SettleOpenIn
  <2> QED
    BY <1>1, <2>1
<1>3. e.per_unit \in Seq(PerUnit)
  BY DEF Engine, EngineRecord
<1>4. Len(rows) = Len(e.per_unit) /\ DOMAIN rows = DOMAIN e.per_unit
  BY <1>3
<1>5. \A i \in DOMAIN rows :
        /\ rows[i].item = e.per_unit[i].seq
        /\ rows[i].paid => Passed(e.per_unit[i])
  BY DEF Row, Passed
<1> HIDE DEF rows, o
<1>6. PaidOrCapUsed(o)
  BY <1>1, <1>2, <1>4, <1>5 DEF PaidOrCapUsed, Pending
<1> QED
  BY <1>6 DEF o

\* "which items were paid" (SKILL.md:58) fails for one item at most, the last, and only when
\* the cap is used up (engine.py:196-200, 304).
THEOREM PaidUnlessCapUsed ==
  Spec => [](out # Null =>
               /\ PaidOrCapUsed(out)
               /\ out.remainder_unspent # 0 => PaidItemsWerePaid)
<1> DEFINE ShownInv == out # Null => PaidOrCapUsed(out)
<1>1. Init => ShownInv
  BY DEF Init
<1>2. TypeOK /\ TypeOK' /\ MeterInv /\ ReleaseInv' /\ ShownInv /\ [Next]_vars => ShownInv'
  <2> SUFFICES ASSUME TypeOK, TypeOK', MeterInv, ReleaseInv', ShownInv, [Next]_vars
               PROVE  ShownInv'
    OBVIOUS
  <2>1. CASE out' = out
    BY <2>1
  <2>2. CASE out' = Snapshot(eng') /\ IsOpened(eng') /\ Idle'
    <3>1. eng' \in Engine /\ call'.await = "none"
      BY <2>2 DEF TypeOK, Idle
    <3>2. PaidOrCapUsed(Snapshot(eng'))
      BY <2>2, <3>1, SnapshotShowsFunded DEF ReleaseInv
    <3> QED
      BY <2>2, <3>2
  <2> QED
    BY <2>1, <2>2, AnswersAtRest
<1>3. ShownInv => (out # Null => /\ PaidOrCapUsed(out)
                                 /\ out.remainder_unspent # 0 => PaidItemsWerePaid)
  BY DEF PaidOrCapUsed, PaidItemsWerePaid, Funded, TickIndices
<1> QED
  BY <1>1, <1>2, <1>3, TypeCorrect, MeterCorrect, ReleaseCorrect, PTL DEF Spec

(***************************************************************************)
(* Reading a line by position.                                             *)
(***************************************************************************)

\* The fields the emitter of line l puts behind one another (trace.py:25-62).
FieldsOf(l) ==
  CASE l.kind = "stream-open" ->
         <<l.kind, l.ref, "buyer", "seller", l.rate, l.max_total, l.at>>
    [] l.kind = "tick" -> <<l.kind, l.ref, l.seq, l.amount, l.at>>
    [] l.kind = "ack" /\ "chunk" \notin DOMAIN l -> <<l.kind, l.ref, l.seq>>
    [] l.kind = "ack" /\ "chunk" \in DOMAIN l -> <<l.kind, l.ref, l.seq, l.chunk, l.declared>>
    [] l.kind = "gate" -> <<l.kind, l.ref, l.seq, l.verdict>>
    [] l.kind = "stream-close" -> <<l.kind, l.ref, l.seq, l.drained, l.at, l.reason>>

\* Two sequences hold the same parts at the same positions.
SameParts(s, f) == Len(s) = Len(f) /\ \A i \in 1 .. Len(f) : s[i] = f[i]

\* Who splits line l on ":" from the left finds each field where its emitter put it.
ReadsBack(l) == SameParts(Split(l), FieldsOf(l))

\* Parts put behind one another.
LEMMA Joined ==
  ASSUME NEW k, NEW r, NEW u, NEW v, NEW x, NEW y, NEW z
  PROVE  /\ SameParts(<<k>> \o <<r>> \o <<x>>, <<k, r, x>>)
         /\ SameParts(<<k>> \o <<r>> \o <<x, y>>, <<k, r, x, y>>)
         /\ SameParts(<<k>> \o <<r>> \o <<x, y, z>>, <<k, r, x, y, z>>)
         /\ SameParts(<<k>> \o <<r>> \o <<x, y, z, u>>, <<k, r, x, y, z, u>>)
         /\ SameParts(<<k>> \o <<r>> \o <<u, v, x, y, z>>, <<k, r, u, v, x, y, z>>)
<1>1. SameParts(<<k>> \o <<r>> \o <<x>>, <<k, r, x>>)
  BY DEF SameParts
<1>2. SameParts(<<k>> \o <<r>> \o <<x, y>>, <<k, r, x, y>>)
  BY DEF SameParts
<1>3. SameParts(<<k>> \o <<r>> \o <<x, y, z>>, <<k, r, x, y, z>>)
  BY DEF SameParts
<1>4. SameParts(<<k>> \o <<r>> \o <<x, y, z, u>>, <<k, r, x, y, z, u>>)
  BY DEF SameParts
<1>5. SameParts(<<k>> \o <<r>> \o <<u, v, x, y, z>>, <<k, r, u, v, x, y, z>>)
  BY DEF SameParts
<1> QED
  BY <1>1, <1>2, <1>3, <1>4, <1>5

\* Behind a plain ref nothing is shifted.
LEMMA PlainReadsBack ==
  ASSUME PlainRefs, NEW l \in Line
  PROVE  ReadsBack(l)
<1>0. RefParts[l.ref] = <<l.ref>>
  BY DEF PlainRefs, Line
<1>1. CASE l \in [kind : {"stream-open"}, ref : Ref, rate : Nat, max_total : Nat, at : Int]
  <2>1. l.kind = "stream-open"
    BY <1>1
  <2>2. Split(l) = <<"stream-open">> \o <<l.ref>> \o <<"buyer", "seller", l.rate, l.max_total, l.at>>
    BY <1>0, <2>1 DEF Split
  <2>3. FieldsOf(l) = <<"stream-open", l.ref, "buyer", "seller", l.rate, l.max_total, l.at>>
    BY <2>1 DEF FieldsOf
  <2> QED
    BY <2>2, <2>3, Joined DEF ReadsBack
<1>2. CASE l \in [kind : {"tick"}, ref : Ref, seq : Nat, amount : Int, at : Int]
  <2>1. l.kind = "tick"
    BY <1>2
  <2>2. Split(l) = <<"tick">> \o <<l.ref>> \o <<l.seq, l.amount, l.at>>
    BY <1>0, <2>1 DEF Split
  <2>3. FieldsOf(l) = <<"tick", l.ref, l.seq, l.amount, l.at>>
    BY <2>1 DEF FieldsOf
  <2> QED
    BY <2>2, <2>3, Joined DEF ReadsBack
<1>3. CASE l \in [kind : {"ack"}, ref : Ref, seq : Nat]
  <2>1. l.kind = "ack" /\ "chunk" \notin DOMAIN l
    BY <1>3
  <2>2. Split(l) = <<"ack">> \o <<l.ref>> \o <<l.seq>>
    BY <1>0, <2>1 DEF Split
  <2>3. FieldsOf(l) = <<"ack", l.ref, l.seq>>
    BY <2>1 DEF FieldsOf
  <2> QED
    BY <2>2, <2>3, Joined DEF ReadsBack
<1>4. CASE l \in [kind : {"ack"}, ref : Ref, seq : Nat, chunk : Chunk,
                   declared : Sha256Hex \cup {Null}]
  <2>1. l.kind = "ack" /\ "chunk" \in DOMAIN l
    BY <1>4
  <2>2. Split(l) = <<"ack">> \o <<l.ref>> \o <<l.seq, l.chunk, l.declared>>
    BY <1>0, <2>1 DEF Split
  <2>3. FieldsOf(l) = <<"ack", l.ref, l.seq, l.chunk, l.declared>>
    BY <2>1 DEF FieldsOf
  <2> QED
    BY <2>2, <2>3, Joined DEF ReadsBack
<1>5. CASE l \in [kind : {"gate"}, ref : Ref, seq : Nat, verdict : Verdict]
  <2>1. l.kind = "gate"
    BY <1>5
  <2>2. Split(l) = <<"gate">> \o <<l.ref>> \o <<l.seq, l.verdict>>
    BY <1>0, <2>1 DEF Split
  <2>3. FieldsOf(l) = <<"gate", l.ref, l.seq, l.verdict>>
    BY <2>1 DEF FieldsOf
  <2> QED
    BY <2>2, <2>3, Joined DEF ReadsBack
<1>6. CASE l \in [kind : {"stream-close"}, ref : Ref, seq : Nat, drained : Int, at : Int,
                   reason : CloseReason]
  <2>1. l.kind = "stream-close"
    BY <1>6
  <2>2. Split(l) = <<"stream-close">> \o <<l.ref>> \o <<l.seq, l.drained, l.at, l.reason>>
    BY <1>0, <2>1 DEF Split
  <2>3. FieldsOf(l) = <<"stream-close", l.ref, l.seq, l.drained, l.at, l.reason>>
    BY <2>1 DEF FieldsOf
  <2> QED
    BY <2>2, <2>3, Joined DEF ReadsBack
<1> QED
  BY <1>1, <1>2, <1>3, <1>4, <1>5, <1>6 DEF Line

\* "so a validator can split on ':' from the left unambiguously" (trace.py:17-19): it can,
\* if "Every embedded value is colon-free" is true of the refs.  In every answer's trace
\* each line falls into exactly the fields its emitter wrote, each at its position, and the
\* amounts found in the tick lines add up to the stated total.
THEOREM SplitIsUnambiguousForPlainRefs ==
  ASSUME PlainRefs
  PROVE  Spec => [](/\ SplitIsUnambiguous
                    /\ out # Null => \A i \in DOMAIN out.trace : ReadsBack(out.trace[i]))
<1> DEFINE Readable == out # Null => \A i \in DOMAIN out.trace : ReadsBack(out.trace[i])
<1>1. Init => SplitIsUnambiguous /\ Readable
  BY DEF Init, SplitIsUnambiguous
<1>2. TypeOK /\ TypeOK' /\ MeterInv /\ TraceInv' /\ SplitIsUnambiguous /\ Readable /\ [Next]_vars
        => SplitIsUnambiguous' /\ Readable'
  <2> SUFFICES ASSUME TypeOK, TypeOK', MeterInv, TraceInv', SplitIsUnambiguous, Readable,
                      [Next]_vars
               PROVE  SplitIsUnambiguous' /\ Readable'
    OBVIOUS
  <2>1. CASE out' = out
    BY <2>1 DEF SplitIsUnambiguous
  <2>2. CASE out' = Snapshot(eng') /\ IsOpened(eng')
    <3>1. out'.trace = eng'.trace /\ out'.settled_total = eng'.settled
      BY <2>2 DEF Snapshot
    <3>2. SplitIsUnambiguous'
      BY <2>2, <3>1 DEF TraceInv, TraceTells, Tells, SplitIsUnambiguous
    <3>3. eng'.trace \in Seq(Line)
      BY DEF TypeOK, Engine, EngineRecord
    <3>4. \A i \in DOMAIN eng'.trace : eng'.trace[i] \in Line
      BY <3>3
    <3>5. \A l \in Line : ReadsBack(l)
      BY PlainReadsBack
    <3>6. Readable'
      BY <3>1, <3>4, <3>5
    <3> QED
      BY <3>2, <3>6
  <2> QED
    BY <2>1, <2>2, AnswerStep
<1> QED
  BY <1>1, <1>2, TypeCorrect, MeterCorrect, TraceCorrect, PTL DEF Spec

--------------------------------------------------------------------------------
(***************************************************************************)
(* SettlementEngine implements Settlement, for every set of deals and      *)
(* units: each stretch of a method is a step of the promise or a stutter.  *)
(***************************************************************************)

\* The ladder passes exactly the units that meet the terms.
LEMMA LadderMeets ==
  ASSUME NEW e, e.open_in \in SettleOpenIn, NEW u \in UnitIn, ~DecisionRaises(e, u)
  PROVE  ResultOf(e, u).passed <=> Promise!Meets(e.open_in, u)
BY LadderPasses DEF Promise!Meets, Promise!HonestChecksum, Promise!AsCommitted, Promise!Digest,
                    Digest

\* Both sides count verdicts and what they entitle to alike.
LEMMA SameDue ==
  ASSUME NEW e
  PROVE  Promise!Due(e.open_in, e.per_unit) = Due(e)
<1>1. Promise!VerifiedCount(e.per_unit) = Verified(e)
  BY DEF Promise!VerifiedCount, VerifiedCount, Verified, Promise!Passed, Passed,
         Promise!Cardinality, Cardinality
<1> QED
  BY <1>1 DEF Promise!Due, Promise!AtMost, Due, Lesser

\* A stretch that leaves deal, verdicts, total and closed flag alone is a stutter.
LEMMA PromiseStutters ==
  ASSUME \A f \in {"open_in", "per_unit", "settled", "closed"} : eng'[f] = eng[f]
  PROVE  UNCHANGED Promise!vars
BY DEF Promise!vars, IsOpened

\* A verdict is reached when nothing is owed, is the first for its seq, follows passes
\* only, and says whether the unit meets the terms.
LEMMA PromiseJudges ==
  ASSUME TypeOK, MeterInv, RecordInv, NEW u \in UnitInputs, Decided(u),
         NEW d, eng' = d,
         \A f \in {"open_in", "per_unit", "settled", "closed"} : d[f] = Judged(eng, u)[f]
  PROVE  Promise!Judge(u)
<1> DEFINE r == ResultOf(eng, u)
           v == [seq |-> u.seq, verdict |-> IF r.passed THEN "pass" ELSE "fail",
                 reason |-> r.reason]
<1>1. /\ Idle /\ IsOpened(eng) /\ ~eng.closed /\ u.seq \notin eng.seen_seqs
      /\ ~DecisionRaises(eng, u)
      /\ OpenInputs \in SUBSET SettleOpenIn /\ u \in UnitIn
  BY InputAssumption DEF Decided, NewUnit, Accepting
<1>2. /\ eng \in EngineRecord(OpenInputs) /\ eng.open_in \in OpenInputs
      /\ eng.open_in \in SettleOpenIn /\ eng.per_unit \in Seq(PerUnit)
  BY <1>1 DEF TypeOK, Engine, EngineRecord, IsOpened
<1>3. Metered(eng, "none", call.amount)
  BY <1>1 DEF MeterInv, Idle
<1>4. eng.settled = Promise!Due(eng.open_in, eng.per_unit)
  BY <1>3, SameDue DEF Metered, Settled
<1>5. \A i \in DOMAIN eng.per_unit :
        Promise!Passed(eng.per_unit[i]) /\ eng.per_unit[i].seq # u.seq
  BY <1>1, <1>3 DEF Metered, Refused, RecordInv, SeqsOf, Promise!Passed, Passed
<1>6. /\ \A f \in {"open_in", "settled", "closed"} : Judged(eng, u)[f] = eng[f]
      /\ Judged(eng, u).per_unit = Append(eng.per_unit, v)
  <2>1. \A f \in {"open_in", "settled", "closed"} : Judged(eng, u)[f] = eng[f]
    BY <1>1, <1>2, JudgedType
  <2>2. Judged(eng, u).per_unit = Append(eng.per_unit, v)
    BY <1>1, <1>2, JudgedRecords
  <2> QED
    BY <2>1, <2>2
<1>7. r.passed \in BOOLEAN /\ r.reason \in Promise!ReasonToken
  BY EvaluateUnitType DEF ResultOf, Promise!ReasonToken, ReasonToken
<1>8. r.passed <=> Promise!Meets(eng.open_in, u)
  BY <1>1, <1>2, LadderMeets
<1> HIDE DEF r
<1>9. \E x \in Promise!Verdict, why \in Promise!ReasonToken :
        /\ x = "pass" <=> Promise!Meets(eng.open_in, u)
        /\ Append(eng.per_unit, v) = Append(eng.per_unit, [seq |-> u.seq, verdict |-> x, reason |-> why])
  <2>1. (IF r.passed THEN "pass" ELSE "fail") \in Promise!Verdict
    BY DEF Promise!Verdict
  <2>2. (IF r.passed THEN "pass" ELSE "fail") = "pass" <=> Promise!Meets(eng.open_in, u)
    BY <1>8
  <2> QED
    BY <1>7, <2>1, <2>2
<1> HIDE DEF v
<1>10. eng'.per_unit = Append(eng.per_unit, v) /\ eng'.open_in = eng.open_in
       /\ eng'.settled = eng.settled /\ eng'.closed = eng.closed
  BY <1>6
<1> QED
  BY <1>1, <1>4, <1>5, <1>9, <1>10 DEF Promise!Judge, IsOpened

\* Every step of the engine is a step of the promise, or none.
LEMMA PromiseStep ==
  TypeOK /\ MeterInv /\ RecordInv /\ [Next]_vars => [Promise!Next]_(Promise!vars)
<1> SUFFICES ASSUME TypeOK, MeterInv, RecordInv, [Next]_vars
             PROVE  Promise!Next \/ UNCHANGED Promise!vars
  OBVIOUS
<1>a. /\ OpenInputs \in SUBSET SettleOpenIn /\ Null \notin OpenInputs
      /\ \A u \in UnitInputs : u \in UnitIn
  BY InputAssumption
<1>b. /\ eng \in EngineRecord(OpenInputs) /\ call \in Call
      /\ call.amount \in Int /\ call.seq \in Nat /\ call.reason \in CloseReason
  BY DEF TypeOK, Engine, EngineRecord, Call
<1>1. CASE UNCHANGED eng
  BY <1>1, PromiseStutters
<1>2. CASE PluginAdvance \/ PluginClose
  <2>1. PICK p : eng' = [eng EXCEPT !.plugin = p]
    BY <1>2 DEF PluginAdvance, PluginClose
  <2> QED
    BY <1>b, <2>1, PromiseStutters DEF EngineRecord
<1>3. CASE OpenResume
  <2>1. /\ call.open_in \in OpenInputs /\ eng' = Opened(eng, call.open_in)
        /\ eng.open_in = Null /\ ~Unmeterable(call.open_in) /\ ~eng.closed
    BY <1>3 DEF OpenResume, TypeOK, Call, MeterInv, IsOpened
  <2>2. /\ eng'.open_in = call.open_in
        /\ \A f \in {"settled", "closed", "per_unit"} : eng'[f] = eng[f]
    BY <1>a, <1>b, <2>1, OpenedType
  <2>3. call.open_in.rate >= 1 /\ call.open_in.max_total >= 1
    <3>1. call.open_in.rate \in Nat /\ call.open_in.max_total \in Nat
      BY <1>a, <2>1 DEF SettleOpenIn
    <3> QED
      BY <2>1, <3>1 DEF Unmeterable
  <2>4. Promise!Open(call.open_in)
    BY <1>a, <2>1, <2>2, <2>3 DEF Promise!Open, IsOpened
  <2> QED
    BY <2>1, <2>4 DEF Promise!Next
<1>4. CASE AdvanceResume
  <2>1. /\ eng' = Billed(eng, call.seq, call.amount) /\ eng.open_in \in OpenInputs
        /\ OnMeter(OpenInputs, eng, "drained", call.amount)
    BY <1>4, <1>b, OpenOnMeter DEF AdvanceResume, TypeOK, IsOpened, Engine, EngineRecord
  <2>2. OnMeter(OpenInputs, eng', "none", 0)
    BY <1>a, <1>b, <2>1, MeterBilled
  <2>3. \A f \in {"open_in", "closed", "per_unit"} : eng'[f] = eng[f]
    BY <1>a, <1>b, <2>1, BilledType
  <2>4. eng'.settled = Due(eng) /\ Due(eng') = Due(eng)
    BY <2>2, <2>3 DEF OnMeter, Metered, Settled, Due, Verified
  <2>5. eng.settled <= Due(eng) /\ ~eng.closed /\ eng.settled \in Int /\ Due(eng) \in Nat
    BY <1>a, <2>1, MeterNumbers DEF OnMeter, Metered, PaidOut
  <2>6. CASE eng.settled = Due(eng)
    BY <2>3, <2>4, <2>6, PromiseStutters
  <2>7. CASE eng.settled < Due(eng)
    BY <1>a, <2>1, <2>3, <2>4, <2>5, <2>7, SameDue DEF Promise!Next, Promise!Release, IsOpened
  <2> QED
    BY <2>5, <2>6, <2>7
<1>5. CASE CloseResume
  <2>1. /\ eng' = ClosedWith(eng, call.seq, call.amount, call.reason)
        /\ eng.open_in \in OpenInputs
        /\ OnMeter(OpenInputs, eng, "receipt", call.amount)
    BY <1>5, <1>b, OpenOnMeter DEF CloseResume, TypeOK, IsOpened, Engine, EngineRecord
  <2>2. eng'.settled = eng.settled
    BY <1>a, <1>b, <2>1, MeterClosed
  <2>3. eng'.closed /\ \A f \in {"open_in", "per_unit"} : eng'[f] = eng[f]
    BY <1>a, <1>b, <2>1, ClosedWithType
  <2>4. eng.settled = Due(eng) /\ ~eng.closed
    BY <2>1 DEF OnMeter, Metered, Settled
  <2>5. Promise!Close
    BY <1>a, <2>1, <2>2, <2>3, <2>4, SameDue DEF Promise!Close, IsOpened
  <2> QED
    BY <2>5 DEF Promise!Next
<1>6. ASSUME NEW u \in UnitInputs, AdvancePass(u) \/ AdvanceCapReached(u) \/ AdvanceFail(u)
      PROVE  Promise!Next
  <2>1. Decided(u) /\ (eng' = Judged(eng, u) \/ eng' = Ticked(Judged(eng, u)))
    BY <1>6 DEF AdvancePass, AdvanceCapReached, AdvanceFail
  <2>2. Judged(eng, u) \in EngineRecord(OpenInputs)
    BY <1>a, <1>b, <2>1, JudgedType DEF Decided, NewUnit, Accepting, IsOpened, EngineRecord
  <2>3. \A f \in {"open_in", "per_unit", "settled", "closed"} :
          eng'[f] = Judged(eng, u)[f]
    BY <2>1, <2>2 DEF Ticked, EngineRecord
  <2>4. Promise!Judge(u)
    BY <2>1, <2>3, PromiseJudges
  <2> QED
    BY <2>4 DEF Promise!Next
<1>7. ASSUME NEW u \in UnitInputs, AdvanceDuplicate(u) \/ AdvanceRaises(u)
      PROVE  Promise!Next \/ UNCHANGED Promise!vars
  <2>1. CASE AdvanceDuplicate(u)
    BY <1>1, <2>1 DEF AdvanceDuplicate
  <2>2. CASE AdvanceRaises(u)
    <3>1. eng' = Received(eng, u) /\ eng.open_in \in OpenInputs
      BY <1>b, <2>2 DEF AdvanceRaises, NewUnit, Accepting, IsOpened, EngineRecord
    <3> QED
      BY <1>a, <1>b, <3>1, ReceivedType, PromiseStutters
  <2> QED
    BY <1>7, <2>1, <2>2
<1>8. ASSUME NEW i \in OpenInputs, OpenRefused(i) \/ OpenBegin(i) PROVE UNCHANGED eng
  BY <1>8 DEF OpenRefused, OpenBegin
<1>9. ASSUME OpenAgain \/ BeforeOpen \/ RefMismatch \/ AdvanceClosed \/ CloseBegin
             \/ CloseAgain \/ UNCHANGED vars
      PROVE  UNCHANGED eng
  BY <1>9 DEF OpenAgain, BeforeOpen, RefMismatch, AdvanceClosed, CloseBegin, CloseAgain, vars
<1> QED
  BY <1>1, <1>2, <1>3, <1>4, <1>5, <1>6, <1>7, <1>8, <1>9 DEF Next, Resume, Advance

\* The engine implements the promise: what the buyer and the seller may rely on, whatever
\* the caller does (engine.py:5-17).  The promise's fairness is left to the run.
THEOREM KeepsPromiseSafely == Spec => Promise!Init /\ [][Promise!Next]_(Promise!vars)
<1>1. Init => Promise!Init
  BY DEF Init, NewEngine, Promise!Init, IsOpened
<1> QED
  BY <1>1, PromiseStep, TypeCorrect, MeterCorrect, RecordCorrect, PTL DEF Spec
================================================================================
