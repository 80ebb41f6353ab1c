------------------------------ MODULE TraceProofs ------------------------------
(***************************************************************************)
(* A validator recovers from the trace what the engine has on its books:   *)
(* each stretch of a method adds to both alike.  One engine and the        *)
(* engines of a service use these lemmas.                                  *)
(***************************************************************************)
EXTENDS EngineStateProofs, TraceValidator, WellFoundedInduction

(***************************************************************************)
(* Induction over the naturals, without an operator for a parameter: the   *)
(* numbers that have the property are given as a set.                      *)
(***************************************************************************)

\* A set of naturals that is not empty has a least element.
LEMMA LeastNatural ==
  ASSUME NEW T, T \subseteq Nat, T # {}
  PROVE  \E n \in T : \A m \in T : n <= m
<1> DEFINE R == OpToRel(<, Nat)
<1>1. IsWellFoundedOn(R, Nat)
  BY NatLessThanWellFounded
<1>2. \A m, n \in Nat : m < n => <<m, n>> \in R
  BY DEF OpToRel
<1> HIDE DEF R
<1>3. PICK n \in T : \A m \in T : <<m, n>> \notin R
  BY <1>1, WFMin
<1>4. \A m \in T : ~ (m < n)
  BY <1>2, <1>3
<1>5. n \in Nat /\ \A m \in T : m \in Nat
  BY <1>3
<1>6. \A m \in T : n <= m
  BY <1>4, <1>5
<1> QED
  BY <1>3, <1>6

\* What holds of 0, and of n + 1 whenever of n, holds of every natural.
LEMMA SetInduction ==
  ASSUME NEW S, 0 \in S, \A n \in Nat : n \in S => n + 1 \in S
  PROVE  Nat \subseteq S
<1> DEFINE T == Nat \ S
<1> SUFFICES ASSUME T # {} PROVE FALSE
  OBVIOUS
<1>1. PICK n \in T : \A m \in T : n <= m
  BY LeastNatural
<1>2. n # 0
  BY <1>1
<1>3. n - 1 \in Nat /\ n - 1 \notin T
  BY <1>1, <1>2
<1> QED
  BY <1>1, <1>3

(***************************************************************************)
(* The sum of the tick lines, line by line.                                *)
(***************************************************************************)

\* f holds the running totals of BilledFromTrace over trace t.
Tally(t, f) ==
  f = [n \in 0 .. Len(t) |-> IF n = 0 THEN 0 ELSE f[n - 1] + AmountOf(t[n])]

Summable(t) == Len(t) \in Nat /\ \A i \in 1 .. Len(t) : AmountOf(t[i]) \in Int

\* The loop's result is the last running total.
LEMMA BilledDef ==
  ASSUME NEW t
  PROVE  BilledFromTrace(t) = (CHOOSE f : Tally(t, f))[Len(t)]
BY DEF BilledFromTrace, Tally

\* The running totals exist.
LEMMA TallyExists ==
  ASSUME NEW t, Summable(t)
  PROVE  \E f : Tally(t, f) /\ f[Len(t)] \in Int
<1> DEFINE Part(n, f) == /\ f \in [0 .. n -> Int] /\ f[0] = 0
                         /\ \A k \in 1 .. n : f[k] = f[k - 1] + AmountOf(t[k])
           S == {n \in Nat : n <= Len(t) => \E f : Part(n, f)}
<1>1. 0 \in S
  <2>1. Part(0, [k \in 0 .. 0 |-> 0])
    OBVIOUS
  <2> QED
    BY <2>1
<1>2. ASSUME NEW n \in Nat, n \in S PROVE n + 1 \in S
  <2> SUFFICES ASSUME n + 1 <= Len(t) PROVE \E f : Part(n + 1, f)
    OBVIOUS
  <2>0. Len(t) \in Nat /\ AmountOf(t[n + 1]) \in Int
    BY DEF Summable
  <2>1. PICK f : Part(n, f)
    <3>1. n <= Len(t)
      BY <2>0
    <3> QED
      BY <1>2, <3>1, Zenon
  <2> DEFINE g == [k \in 0 .. n + 1 |-> IF k = n + 1 THEN f[n] + AmountOf(t[n + 1]) ELSE f[k]]
  <2>2. g \in [0 .. n + 1 -> Int]
    BY <2>0, <2>1
  <2>3. g[n + 1] = g[n] + AmountOf(t[n + 1]) /\ g[0] = 0
    BY <2>1
  <2>4. ASSUME NEW k \in 1 .. n PROVE g[k] = g[k - 1] + AmountOf(t[k])
    BY <2>1
  <2> HIDE DEF g
  <2>5. Part(n + 1, g)
    BY <2>2, <2>3, <2>4
  <2> QED
    BY <2>5
<1>3. Len(t) \in S
  <2> HIDE DEF S
  <2> QED
    BY <1>1, <1>2, SetInduction DEF Summable
<1>4. PICK f : Part(Len(t), f)
  BY <1>3
<1>5. Tally(t, f) /\ f[Len(t)] \in Int
  BY <1>4 DEF Tally, Summable
<1> QED
  BY <1>5

\* A trace and one that extends it have the same running totals up to its end.
LEMMA TallyPrefix ==
  ASSUME NEW t, NEW w, Len(t) \in Nat, Len(w) \in Nat, Len(t) <= Len(w),
         \A i \in 1 .. Len(t) : w[i] = t[i],
         NEW f, Tally(t, f), NEW g, Tally(w, g)
  PROVE  \A n \in 0 .. Len(t) : g[n] = f[n]
<1> DEFINE S == {n \in Nat : n <= Len(t) => g[n] = f[n]}
<1>1. 0 \in S
  BY DEF Tally
<1>2. ASSUME NEW n \in Nat, n \in S PROVE n + 1 \in S
  <2> SUFFICES ASSUME n + 1 <= Len(t) PROVE g[n + 1] = f[n + 1]
    OBVIOUS
  <2>1. g[n] = f[n]
    BY <1>2
  <2>2. f[n + 1] = f[n] + AmountOf(t[n + 1])
    BY DEF Tally
  <2>3. g[n + 1] = g[n] + AmountOf(w[n + 1])
    BY DEF Tally
  <2> QED
    BY <2>1, <2>2, <2>3
<1> HIDE DEF S
<1>3. Nat \subseteq S
  BY <1>1, <1>2, SetInduction
<1> QED
  BY <1>3 DEF S

\* One more line adds its amount.
LEMMA BilledAppend ==
  ASSUME NEW S, NEW t \in Seq(S), Summable(t), NEW l \in S, AmountOf(l) \in Int
  PROVE  /\ Summable(Append(t, l))
         /\ BilledFromTrace(Append(t, l)) = BilledFromTrace(t) + AmountOf(l)
<1> DEFINE w == Append(t, l)
<1>1. /\ Len(t) \in Nat /\ Len(w) = Len(t) + 1 /\ w[Len(t) + 1] = l
      /\ \A i \in 1 .. Len(t) : w[i] = t[i]
  OBVIOUS
<1> HIDE DEF w
<1>2. Summable(w)
  BY <1>1 DEF Summable
<1> DEFINE f == CHOOSE f : Tally(t, f)
           g == CHOOSE g : Tally(w, g)
<1>3. Tally(t, f) /\ Tally(w, g)
  BY <1>2, TallyExists
<1>4. BilledFromTrace(t) = f[Len(t)] /\ BilledFromTrace(w) = g[Len(w)]
  BY BilledDef
<1> HIDE DEF f, g
<1>5. g[Len(t)] = f[Len(t)]
  BY <1>1, <1>3, TallyPrefix
<1>6. g[Len(t) + 1] = g[Len(t)] + AmountOf(w[Len(t) + 1])
  BY <1>1, <1>3 DEF Tally
<1> QED
  BY <1>1, <1>2, <1>4, <1>5, <1>6 DEF w

(***************************************************************************)
(* The fields of a line.                                                   *)
(***************************************************************************)

\* No ref contains a ":", so each is one part of its line, itself.
PlainRefs == \A r \in Ref : RefParts[r] = <<r>>

\* The fields of a line split behind a plain ref.
LEMMA Fields ==
  ASSUME NEW k, NEW r, NEW u, NEW v, NEW x, NEW y, NEW z
  PROVE  LET open == <<k>> \o <<r>> \o <<u, v, x, y, z>>
             five == <<k>> \o <<r>> \o <<x, y, z>>
             six == <<k>> \o <<r>> \o <<x, y, z, u>>
             four == <<k>> \o <<r>> \o <<x, y>>
             three == <<k>> \o <<r>> \o <<x>>
         IN  /\ open[1] = k /\ open[5] = x
             /\ five[1] = k /\ five[4] = y /\ Len(five) = 5
             /\ six[1] = k /\ six[4] = y
             /\ four[1] = k /\ four[4] = y /\ Len(four) = 4
             /\ three[1] = k /\ Len(three) = 3
OBVIOUS

\* What a validator reads of a line, by the kind the emitters give it.
LEMMA LineFields ==
  ASSUME PlainRefs, NEW l \in Line
  PROVE  /\ Split(l)[1] = l.kind
         /\ AmountOf(l) = IF l.kind = "tick" THEN l.amount ELSE 0
         /\ AmountOf(l) \in Int
         /\ l.kind = "stream-open" => Split(l)[5] = l.rate
         /\ l.kind = "stream-close" => Split(l)[4] = l.drained
         /\ Clears(l) <=> \/ l.kind = "gate" /\ l.verdict = "pass"
                          \/ l.kind = "ack" /\ "chunk" \notin DOMAIN l
<1>0. l.ref \in Ref /\ RefParts[l.ref] = <<l.ref>>
  BY DEF PlainRefs, Line
<1>1. CASE l \in [kind : {"stream-open"}, ref : Ref, rate : Nat, max_total : Nat, at : Int]
  <2>1. Split(l) = <<"stream-open">> \o <<l.ref>>
                     \o <<"buyer", "seller", l.rate, l.max_total, l.at>>
    BY <1>0, <1>1 DEF Split
  <2>2. Split(l)[1] = "stream-open" /\ Split(l)[5] = l.rate
    BY <2>1, Fields
  <2> QED
    BY <1>1, <2>2 DEF AmountOf, Clears
<1>2. CASE l \in [kind : {"tick"}, ref : Ref, seq : Nat, amount : Int, at : Int]
  <2>1. Split(l) = <<"tick">> \o <<l.ref>> \o <<l.seq, l.amount, l.at>>
    BY <1>0, <1>2 DEF Split
  <2>2. Split(l)[1] = "tick" /\ Split(l)[4] = l.amount
    BY <2>1, Fields
  <2> QED
    BY <1>2, <2>2 DEF AmountOf, Clears
<1>3. CASE l \in [kind : {"ack"}, ref : Ref, seq : Nat]
  <2>0. l.kind = "ack" /\ "chunk" \notin DOMAIN l
    BY <1>3
  <2>1. Split(l) = <<"ack">> \o <<l.ref>> \o <<l.seq>>
    BY <1>0, <2>0 DEF Split
  <2>2. Split(l)[1] = "ack" /\ Len(Split(l)) = 3
    BY <2>1, Fields
  <2> QED
    BY <2>0, <2>2 DEF AmountOf, Clears
<1>4. CASE l \in [kind : {"ack"}, ref : Ref, seq : Nat, chunk : Chunk,
                   declared : Sha256Hex \cup {Null}]
  <2>0. l.kind = "ack" /\ "chunk" \in DOMAIN l
    BY <1>4
  <2>1. Split(l) = <<"ack">> \o <<l.ref>> \o <<l.seq, l.chunk, l.declared>>
    BY <1>0, <2>0 DEF Split
  <2>2. Split(l)[1] = "ack" /\ Len(Split(l)) = 5
    BY <2>1, Fields
  <2> QED
    BY <2>0, <2>2 DEF AmountOf, Clears
<1>5. CASE l \in [kind : {"gate"}, ref : Ref, seq : Nat, verdict : Verdict]
  <2>1. Split(l) = <<"gate">> \o <<l.ref>> \o <<l.seq, l.verdict>>
    BY <1>0, <1>5 DEF Split
  <2>2. Split(l)[1] = "gate" /\ Split(l)[4] = l.verdict
    BY <2>1, Fields
  <2> QED
    BY <1>5, <2>2 DEF AmountOf, Clears
<1>6. CASE l \in [kind : {"stream-close"}, ref : Ref, seq : Nat, drained : Int, at : Int,
                   reason : CloseReason]
  <2>1. Split(l) = <<"stream-close">> \o <<l.ref>> \o <<l.seq, l.drained, l.at, l.reason>>
    BY <1>0, <1>6 DEF Split
  <2>2. Split(l)[1] = "stream-close" /\ Split(l)[4] = l.drained
    BY <2>1, Fields
  <2> QED
    BY <1>6, <2>2 DEF AmountOf, Clears
<1> QED
  BY <1>1, <1>2, <1>3, <1>4, <1>5, <1>6 DEF Line

(***************************************************************************)
(* What a trace tells.                                                     *)
(***************************************************************************)

\* Trace t tells of a session at that rate: so much billed, so many units verified, and
\* whether it was closed.
Tells(t, rate, billed, verified, closed) ==
  /\ t # <<>> /\ Summable(t)
  /\ LinesOf(t, "stream-open") = {1} /\ RateFromTrace(t) = rate
  /\ BilledFromTrace(t) = billed
  /\ VerifiedFromTrace(t) = verified
  /\ LinesOf(t, "stream-close") = (IF closed THEN {Len(t)} ELSE {})
  /\ closed => Split(t[Len(t)])[4] = billed

TraceTells(e) == Tells(e.trace, e.open_in.rate, e.settled, Verified(e), e.closed)

\* A first line that opens a session tells of nothing billed and nothing verified.
LEMMA TellsFirst ==
  ASSUME PlainRefs, NEW l \in Line, l.kind = "stream-open"
  PROVE  Tells(Append(<<>>, l), l.rate, 0, 0, FALSE)
<1> DEFINE t == Append(<<>>, l)
<1>1. /\ Len(<<>>) = 0 /\ <<>> \in Seq(Line)
      /\ t # <<>> /\ Len(t) = 1 /\ t[1] = l /\ DOMAIN t = {1}
  OBVIOUS
<1> HIDE DEF t
<1>2. /\ Split(l)[1] = "stream-open" /\ Split(l)[5] = l.rate /\ AmountOf(l) = 0 /\ ~Clears(l)
  BY LineFields
<1>3. LinesOf(t, "stream-open") = {1} /\ LinesOf(t, "stream-close") = {} /\ RateFromTrace(t) = l.rate
  BY <1>1, <1>2 DEF LinesOf, RateFromTrace
<1>4. VerifiedFromTrace(t) = 0
  <2>1. {i \in DOMAIN t : Clears(t[i])} = {}
    BY <1>1, <1>2
  <2> QED
    BY <2>1, FS_EmptySet DEF VerifiedFromTrace
<1>5. Summable(t)
  BY <1>1, <1>2 DEF Summable
<1>6. BilledFromTrace(t) = 0
  <2> DEFINE f == CHOOSE f : Tally(t, f)
  <2>1. Tally(t, f)
    BY <1>5, TallyExists
  <2>2. BilledFromTrace(t) = f[1]
    BY <1>1, BilledDef
  <2> HIDE DEF f
  <2>3. f[1] = f[0] + AmountOf(l) /\ f[0] = 0
    BY <1>1, <2>1 DEF Tally
  <2> QED
    BY <1>2, <2>2, <2>3
<1> QED
  BY <1>1, <1>3, <1>4, <1>5, <1>6 DEF Tells, t

\* One more line that clears a unit is one more verified unit.
LEMMA VerifiedFromAppend ==
  ASSUME NEW t \in Seq(Line), NEW l
  PROVE  VerifiedFromTrace(Append(t, l))
           = VerifiedFromTrace(t) + (IF Clears(l) THEN 1 ELSE 0)
<1> DEFINE w == Append(t, l)
           last == Len(t) + 1
           old == {i \in DOMAIN t : Clears(t[i])}
           new == {i \in DOMAIN w : Clears(w[i])}
<1>1. /\ DOMAIN w = DOMAIN t \cup {last} /\ w[last] = l /\ last \notin DOMAIN t
      /\ \A i \in DOMAIN t : w[i] = t[i]
  OBVIOUS
<1>2. IsFiniteSet(old) /\ Cardinality(old) \in Nat
  <2>1. IsFiniteSet(1 .. Len(t)) /\ old \subseteq 1 .. Len(t)
    BY FS_Interval
  <2>2. IsFiniteSet(old)
    BY <2>1, FS_Subset
  <2> QED
    BY <2>2, FS_CardinalityType
<1> HIDE DEF w, last
<1>3. new = IF Clears(l) THEN old \cup {last} ELSE old
  BY <1>1
<1>4. last \notin old
  BY <1>1
<1> HIDE DEF old, new
<1>5. Cardinality(old \cup {last}) = Cardinality(old) + 1
  BY <1>2, <1>4, FS_AddElement
<1>6. VerifiedFromTrace(t) = Cardinality(old) /\ VerifiedFromTrace(w) = Cardinality(new)
  BY DEF VerifiedFromTrace, old, new
<1> QED
  BY <1>2, <1>3, <1>5, <1>6 DEF w

\* A later line adds its amount and, when it clears a unit, that unit; a close line that
\* repeats the total ends the session.
LEMMA TellsMore ==
  ASSUME PlainRefs, NEW t \in Seq(Line), NEW rate, NEW billed \in Int, NEW verified,
         Tells(t, rate, billed, verified, FALSE),
         NEW l \in Line, l.kind # "stream-open",
         l.kind = "stream-close" => l.drained = billed
  PROVE  LET more == verified + (IF Clears(l) THEN 1 ELSE 0)
         IN  /\ l.kind # "stream-close" =>
                  Tells(Append(t, l), rate, billed + AmountOf(l), more, FALSE)
             /\ l.kind = "stream-close" =>
                  Tells(Append(t, l), rate, billed + AmountOf(l), more, TRUE)
<1> DEFINE w == Append(t, l)
           last == Len(t) + 1
<1>1. /\ DOMAIN w = DOMAIN t \cup {last} /\ w[last] = l /\ last \notin DOMAIN t
      /\ \A i \in DOMAIN t : w[i] = t[i]
      /\ w # <<>> /\ Len(w) = last
  OBVIOUS
<1>2. /\ Split(l)[1] = l.kind /\ AmountOf(l) \in Int
      /\ l.kind = "stream-close" => Split(l)[4] = billed /\ AmountOf(l) = 0
  BY LineFields
<1>3. Summable(w) /\ BilledFromTrace(w) = billed + AmountOf(l)
  BY <1>2, BilledAppend DEF Tells
<1>4. VerifiedFromTrace(w) = verified + (IF Clears(l) THEN 1 ELSE 0)
  BY VerifiedFromAppend DEF Tells
<1>5. /\ LinesOf(t, "stream-open") = {1} /\ RateFromTrace(t) = rate
      /\ LinesOf(t, "stream-close") = {}
  BY DEF Tells
<1>6. 1 \in DOMAIN t
  BY <1>5 DEF LinesOf
<1> HIDE DEF w, last
<1>7. LinesOf(w, "stream-open") = {1}
  BY <1>1, <1>2, <1>5 DEF LinesOf
<1>8. RateFromTrace(w) = rate
  BY <1>1, <1>5, <1>6 DEF RateFromTrace
<1>9. LinesOf(w, "stream-close") = IF l.kind = "stream-close" THEN {last} ELSE {}
  BY <1>1, <1>2, <1>5 DEF LinesOf
<1>10. l.kind = "stream-close" => Split(w[Len(w)])[4] = billed + AmountOf(l)
  BY <1>1, <1>2
<1> QED
  BY <1>1, <1>3, <1>4, <1>7, <1>8, <1>9, <1>10 DEF Tells, w

(***************************************************************************)
(* Each stretch keeps books and trace in step.                             *)
(***************************************************************************)

\* A stretch that leaves these fields alone.
LEMMA TellsStill ==
  ASSUME NEW e, NEW d, TraceTells(e),
         \A f \in {"open_in", "settled", "closed", "per_unit", "trace"} : d[f] = e[f]
  PROVE  TraceTells(d)
BY DEF TraceTells, Verified

\* open() writes the line that names the rate.
LEMMA TellsOpened ==
  ASSUME PlainRefs, NEW opens \in SUBSET SettleOpenIn, NEW e \in EngineRecord(opens),
         NEW i \in opens, e.trace = <<>>, e.per_unit = <<>>, e.settled = 0, ~e.closed
  PROVE  TraceTells(Opened(e, i))
<1> DEFINE line == StreamOpenLine(i.ref, i.rate, i.max_total, 0)
           d == Opened(e, i)
<1>1. i.ref \in Ref /\ i.rate \in Nat /\ i.max_total \in Nat
  BY DEF SettleOpenIn
<1>2. line \in Line /\ line.kind = "stream-open" /\ line.rate = i.rate
  BY <1>1 DEF Line, StreamOpenLine
<1>3. d.trace = Append(<<>>, line)
  BY DEF Opened, EngineRecord
<1>4. d.open_in = i /\ d.settled = 0 /\ d.closed = FALSE /\ d.per_unit = <<>>
  BY OpenedType DEF EngineRecord
<1>5. Verified(d) = 0
  BY <1>4, FS_EmptySet DEF Verified, VerifiedCount
<1> HIDE DEF d, line
<1>6. Tells(Append(<<>>, line), line.rate, 0, 0, FALSE)
  BY <1>2, TellsFirst
<1>7. TraceTells(d)
  BY <1>2, <1>3, <1>4, <1>5, <1>6 DEF TraceTells
<1> QED
  BY <1>7 DEF d

\* Receiving a unit whose digest raises writes a line that clears nothing.
LEMMA TellsReceived ==
  ASSUME PlainRefs, NEW opens \in SUBSET SettleOpenIn, NEW e \in EngineRecord(opens),
         e.open_in \in opens, NEW u \in UnitIn, ~e.closed, TraceTells(e),
         CriterionOf(e) # "ack_received"
  PROVE  TraceTells(Received(e, u))
<1> DEFINE line == AckContentLine(e.open_in.ref, u.seq, u.chunk, u.declared_checksum)
           d == Received(e, u)
<1>1. /\ u.seq \in Nat /\ u.chunk \in Chunk /\ u.declared_checksum \in Sha256Hex \cup {Null}
      /\ e.open_in.ref \in Ref
  BY ContractAssumption DEF UnitIn, SettleOpenIn
<1>2. line \in Line /\ line.kind = "ack" /\ "chunk" \in DOMAIN line
  BY <1>1 DEF Line, AckContentLine
<1>3. d.trace = Append(e.trace, line)
  BY DEF Received, EngineRecord
<1>4. \A f \in {"open_in", "settled", "closed", "per_unit"} : d[f] = e[f]
  BY ReceivedType
<1>5. /\ e.trace \in Seq(Line) /\ e.settled \in Int /\ Verified(e) \in Nat
      /\ e.closed = FALSE
      /\ Tells(e.trace, e.open_in.rate, e.settled, Verified(e), FALSE)
  BY VerifiedCountType DEF EngineRecord, TraceTells, Verified
<1> HIDE DEF line, d
<1>6. AmountOf(line) = 0 /\ ~Clears(line)
  BY <1>2, LineFields
<1>7. Tells(d.trace, e.open_in.rate, e.settled + 0, Verified(e) + 0, FALSE)
  BY <1>2, <1>3, <1>5, <1>6, TellsMore
<1>8. /\ d.open_in = e.open_in /\ d.settled = e.settled + 0 /\ d.closed = FALSE
      /\ Verified(d) = Verified(e) + 0
  BY <1>4, <1>5 DEF Verified
<1>9. TraceTells(d)
  BY <1>7, <1>8 DEF TraceTells
<1> QED
  BY <1>9 DEF d

\* A judged unit is verified on the books and in the trace, or in neither.
LEMMA TellsJudged ==
  ASSUME PlainRefs, NEW opens \in SUBSET SettleOpenIn, NEW e \in EngineRecord(opens),
         e.open_in \in opens, NEW u \in UnitIn, ~e.closed, TraceTells(e)
  PROVE  TraceTells(Judged(e, u)) /\ TraceTells(Ticked(Judged(e, u)))
<1> DEFINE r == ResultOf(e, u)
           ref == e.open_in.ref
           l1 == AckL1Line(ref, u.seq)
           gate == GateLine(ref, u.seq, r.passed)
           c == Received(e, u)
           d == Judged(e, u)
<1>1. u.seq \in Nat /\ ref \in Ref /\ r.passed \in BOOLEAN
  BY EvaluateUnitType, ContractAssumption DEF UnitIn, SettleOpenIn, ResultOf
<1>2. l1 \in Line /\ l1.kind = "ack" /\ "chunk" \notin DOMAIN l1
  BY <1>1 DEF Line, AckL1Line
<1>3. gate \in Line /\ gate.kind = "gate" /\ (gate.verdict = "pass" <=> r.passed)
  BY <1>1 DEF Line, GateLine, Verdict
<1>4. d \in EngineRecord(opens) /\ \A f \in {"open_in", "settled", "closed"} : d[f] = e[f]
  BY JudgedType
<1>5. PICK v \in PerUnit : d.per_unit = Append(e.per_unit, v) /\ (Passed(v) <=> r.passed)
  BY JudgedType
<1>6. Verified(d) = Verified(e) + (IF r.passed THEN 1 ELSE 0)
  <2>1. e.per_unit \in Seq(PerUnit) /\ VerifiedCount(e.per_unit) \in Nat
    BY VerifiedCountType DEF EngineRecord
  <2>2. VerifiedCount(Append(e.per_unit, v))
          = IF Passed(v) THEN VerifiedCount(e.per_unit) + 1 ELSE VerifiedCount(e.per_unit)
    BY <2>1, VerifiedCountAppend
  <2> HIDE DEF d, r
  <2> QED
    BY <1>5, <2>1, <2>2 DEF Verified
<1>7. /\ e.trace \in Seq(Line) /\ e.settled \in Int /\ Verified(e) \in Nat
      /\ e.closed = FALSE
      /\ Tells(e.trace, e.open_in.rate, e.settled, Verified(e), FALSE)
  BY VerifiedCountType DEF EngineRecord, TraceTells, Verified
<1>8. /\ c \in EngineRecord(opens)
      /\ \A f \in {"open_in", "settled", "closed", "per_unit"} : c[f] = e[f]
  BY ReceivedType
<1>9. ASSUME CriterionOf(e) = "ack_received" PROVE TraceTells(d)
  <2>1. d.trace = Append(e.trace, l1)
    BY <1>9 DEF Judged, Received, EngineRecord
  <2>2. r.passed
    BY <1>9 DEF ResultOf, EvaluateUnit, GateResult, L1Ack, ContextOf
  <2> HIDE DEF l1, d, r
  <2>3. AmountOf(l1) = 0 /\ Clears(l1)
    BY <1>2, LineFields
  <2>4. Tells(d.trace, e.open_in.rate, e.settled + 0, Verified(e) + 1, FALSE)
    BY <1>2, <1>7, <2>1, <2>3, TellsMore
  <2>5. d.open_in = e.open_in /\ d.settled = e.settled + 0 /\ d.closed = FALSE
    BY <1>4, <1>7
  <2>6. Verified(d) = Verified(e) + 1
    BY <1>6, <2>2
  <2> QED
    BY <2>4, <2>5, <2>6 DEF TraceTells
<1>10. ASSUME CriterionOf(e) # "ack_received" PROVE TraceTells(d)
  <2>1. TraceTells(c)
    BY <1>10, TellsReceived
  <2>2. d.trace = Append(c.trace, gate)
    <3> HIDE DEF c
    <3>1. d = [c EXCEPT !.per_unit = Append(c.per_unit,
                                [seq |-> u.seq, verdict |-> IF r.passed THEN "pass" ELSE "fail",
                                 reason |-> r.reason]),
                        !.trace = Append(c.trace, gate)]
      BY <1>10 DEF Judged, c
    <3> QED
      BY <1>8, <3>1 DEF EngineRecord
  <2> HIDE DEF gate, c, d, r
  <2>3. AmountOf(gate) = 0 /\ (Clears(gate) <=> gate.verdict = "pass")
    <3>1. gate \in Line /\ gate.kind = "gate"
      BY <1>3
    <3>2. AmountOf(gate) = 0
      BY <3>1, LineFields
    <3>3. Clears(gate) <=> gate.verdict = "pass"
      BY <3>1, LineFields
    <3> QED
      BY <3>2, <3>3
  <2>4. c.trace \in Seq(Line) /\ Tells(c.trace, e.open_in.rate, e.settled, Verified(e), FALSE)
    BY <1>8, <2>1 DEF TraceTells, Verified, EngineRecord
  <2>5. Tells(d.trace, e.open_in.rate, e.settled + 0,
              Verified(e) + (IF Clears(gate) THEN 1 ELSE 0), FALSE)
    BY <1>3, <1>7, <2>2, <2>3, <2>4, TellsMore
  <2>6. d.open_in = e.open_in /\ d.settled = e.settled + 0 /\ d.closed = FALSE
    BY <1>4, <1>7
  <2>7. Verified(d) = Verified(e) + (IF Clears(gate) THEN 1 ELSE 0)
    BY <1>3, <1>6, <2>3
  <2> QED
    BY <2>5, <2>6, <2>7 DEF TraceTells
<1> HIDE DEF d
<1>11. TraceTells(d)
  BY <1>9, <1>10
<1>12. \A f \in {"open_in", "settled", "closed", "per_unit", "trace"} : Ticked(d)[f] = d[f]
  BY <1>4 DEF Ticked, EngineRecord
<1>13. TraceTells(Ticked(d))
  BY <1>11, <1>12, TellsStill
<1> QED
  BY <1>11, <1>13 DEF d

\* Billing adds one amount to the total and the same to the trace.
LEMMA TellsBilled ==
  ASSUME PlainRefs, NEW opens \in SUBSET SettleOpenIn, NEW e \in EngineRecord(opens),
         e.open_in \in opens, NEW s \in Nat, NEW n \in Int, ~e.closed, TraceTells(e)
  PROVE  TraceTells(Billed(e, s, n))
<1> DEFINE line == TickLine(e.open_in.ref, s, n, e.tick)
           d == Billed(e, s, n)
<1>1. e.open_in.ref \in Ref /\ e.tick \in Int
  BY DEF SettleOpenIn, EngineRecord
<1>2. line \in Line /\ line.kind = "tick" /\ line.amount = n
  BY <1>1 DEF Line, TickLine
<1>3. d.trace = Append(e.trace, line)
  BY DEF Billed, EngineRecord
<1>4. d.settled = e.settled + n /\ \A f \in {"open_in", "closed", "per_unit"} : d[f] = e[f]
  BY BilledType
<1>5. /\ e.trace \in Seq(Line) /\ e.settled \in Int /\ Verified(e) \in Nat
      /\ e.closed = FALSE
      /\ Tells(e.trace, e.open_in.rate, e.settled, Verified(e), FALSE)
  BY VerifiedCountType DEF EngineRecord, TraceTells, Verified
<1> HIDE DEF line, d
<1>6. AmountOf(line) = n /\ ~Clears(line)
  BY <1>2, LineFields
<1>7. Tells(d.trace, e.open_in.rate, e.settled + n, Verified(e) + 0, FALSE)
  BY <1>2, <1>3, <1>5, <1>6, TellsMore
<1>8. /\ d.open_in = e.open_in /\ d.settled = e.settled + n /\ d.closed = FALSE
      /\ Verified(d) = Verified(e) + 0
  BY <1>4, <1>5 DEF Verified
<1>9. TraceTells(d)
  BY <1>7, <1>8 DEF TraceTells
<1> QED
  BY <1>9 DEF d

\* Closing with the total the engine has writes that total down.
LEMMA TellsClosed ==
  ASSUME PlainRefs, NEW opens \in SUBSET SettleOpenIn, NEW e \in EngineRecord(opens),
         e.open_in \in opens, NEW s \in Nat, NEW n \in Int, n = e.settled,
         NEW why \in CloseReason, ~e.closed, TraceTells(e)
  PROVE  TraceTells(ClosedWith(e, s, n, why))
<1> DEFINE line == StreamCloseLine(e.open_in.ref, s, n, e.tick, why)
           d == ClosedWith(e, s, n, why)
<1>1. e.open_in.ref \in Ref /\ e.tick \in Int
  BY DEF SettleOpenIn, EngineRecord
<1>2. line \in Line /\ line.kind = "stream-close" /\ line.drained = e.settled
  BY <1>1 DEF Line, StreamCloseLine
<1>3. d.trace = Append(e.trace, line)
  BY DEF ClosedWith, EngineRecord
<1>4. d.settled = e.settled /\ d.closed /\ \A f \in {"open_in", "per_unit"} : d[f] = e[f]
  BY ClosedWithType
<1>5. /\ e.trace \in Seq(Line) /\ e.settled \in Int /\ Verified(e) \in Nat
      /\ e.closed = FALSE /\ d.closed = TRUE
      /\ Tells(e.trace, e.open_in.rate, e.settled, Verified(e), FALSE)
  <2>1. d \in EngineRecord(opens) /\ d.closed
    BY ClosedWithType
  <2> HIDE DEF d
  <2>2. e.trace \in Seq(Line) /\ e.settled \in Int /\ e.closed = FALSE /\ Verified(e) \in Nat
    BY VerifiedCountType DEF EngineRecord, Verified
  <2>3. d.closed = TRUE
    BY <2>1 DEF EngineRecord
  <2> QED
    BY <2>2, <2>3 DEF TraceTells
<1> HIDE DEF line, d
<1>6. AmountOf(line) = 0 /\ ~Clears(line)
  BY <1>2, LineFields
<1>7. Tells(d.trace, e.open_in.rate, e.settled + 0, Verified(e) + 0, TRUE)
  BY <1>2, <1>3, <1>5, <1>6, TellsMore
<1>8. /\ d.open_in = e.open_in /\ d.settled = e.settled + 0 /\ d.closed = TRUE
      /\ Verified(d) = Verified(e) + 0
  BY <1>4, <1>5 DEF Verified
<1>9. TraceTells(d)
  BY <1>7, <1>8 DEF TraceTells
<1> QED
  BY <1>9 DEF d
================================================================================
