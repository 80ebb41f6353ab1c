--------------------------- MODULE EngineFaultsProofs ---------------------------
(***************************************************************************)
(* The money bounds survive a failing plugin: for every set of deals and   *)
(* units, whichever calls fail, before or after they took effect.          *)
(***************************************************************************)
EXTENDS EngineFaults, EngineRecordProofs

\* A plugin call that fails changes no field of the engine.
LEMMA FaultTypeStep == TypeOK /\ [FaultNext]_vars => TypeOK'
<1>1. ASSUME TypeOK, Interrupted PROVE TypeOK'
  <2>1. NoCall \in Call
    BY DEF NoCall, Call, Await, CloseReason
  <2> QED
    BY <1>1, <2>1 DEF Interrupted, Raise, TypeOK, NoCall, Outcome
<1>2. ASSUME TypeOK, [Next]_vars PROVE TypeOK'
  BY <1>2, TypeStep
<1> QED
  BY <1>1, <1>2 DEF FaultNext

\* The fields keep their types under failures.
THEOREM FaultTypeCorrect == FaultSpec => []TypeOK
BY TypeInit, FaultTypeStep, PTL DEF FaultSpec

---------------------------------------------------------------------------------
\* However far its clock lags, the plugin pays no more than rate per tick and the cap.
LEMMA StreamPays ==
  ASSUME NEW p \in Stream, NEW now \in Int, 0 <= p.at, p.at <= now,
         p.drained <= p.rate * p.at, p.drained <= p.max_total
  PROVE  LET owed == Owed(p, now)
         IN  /\ owed \in Nat
             /\ p.drained + owed <= p.rate * now
             /\ p.drained + owed <= p.max_total
<1> DEFINE rate == p.rate
           lag == now - p.at
<1>1. rate \in Nat /\ p.at \in Int /\ p.drained \in Int /\ p.max_total \in Nat /\ lag \in Nat
  BY DEF Stream
<1>2. now = p.at + lag
  BY <1>1
<1> HIDE DEF lag
<1>3. rate * now = rate * p.at + rate * lag
  BY <1>1, <1>2
<1>4. rate * lag \in Nat /\ rate * p.at \in Int
  BY <1>1
<1>5. Owed(p, now) = IF rate * lag <= p.max_total - p.drained THEN rate * lag
                     ELSE p.max_total - p.drained
  BY DEF Owed, Lesser, lag
<1> QED
  BY <1>1, <1>3, <1>4, <1>5

\* FaultMetered reads the engine's fields, not its trace or the seqs it has seen.
LEMMA FaultFields ==
  ASSUME NEW e, NEW d, NEW await, NEW amount,
         \A f \in {"open_in", "plugin", "tick", "settled", "closed", "per_unit"} : d[f] = e[f]
  PROVE  FaultMetered(d, await, amount) <=> FaultMetered(e, await, amount)
BY DEF FaultMetered, Verified, Unmeterable

\* An open session's numbers.
LEMMA FaultNumbers ==
  ASSUME TypeOK, FaultInv, IsOpened(eng)
  PROVE  /\ eng \in EngineRecord(OpenInputs) /\ eng.open_in \in OpenInputs
         /\ OpenInputs \in SUBSET SettleOpenIn
         /\ eng.plugin \in Stream /\ eng.per_unit \in Seq(PerUnit)
         /\ eng.open_in.rate \in Nat /\ eng.open_in.max_total \in Nat
         /\ eng.settled \in Int /\ eng.tick \in Int /\ Verified(eng) \in Nat
         /\ call.amount \in Int /\ call.seq \in Nat /\ call.reason \in CloseReason
         /\ FaultMetered(eng, call.await, call.amount)
<1>1. /\ eng \in EngineRecord(OpenInputs) /\ eng.open_in \in OpenInputs /\ eng.plugin \in Stream
      /\ OpenInputs \in SUBSET SettleOpenIn /\ FaultMetered(eng, call.await, call.amount)
      /\ call \in Call
  BY InputAssumption DEF TypeOK, FaultInv, IsOpened, Engine, EngineRecord
<1>2. eng.per_unit \in Seq(PerUnit) /\ eng.settled \in Int /\ eng.tick \in Int
  BY <1>1 DEF EngineRecord
<1> QED
  BY <1>1, <1>2, VerifiedCountType DEF Verified, SettleOpenIn, Call

\* A new engine owes nothing to anyone.
LEMMA FaultInit == Init => FaultInv
BY DEF Init, NewEngine, NoCall, FaultInv, IsOpened

\* Every stretch of every method, and every failure between two of them, keeps the
\* plugin within the verified units and the engine within the plugin.
LEMMA FaultStep == TypeOK /\ TypeOK' /\ FaultInv /\ [FaultNext]_vars => FaultInv'
<1> SUFFICES ASSUME TypeOK, TypeOK', FaultInv, [FaultNext]_vars PROVE FaultInv'
  OBVIOUS
<1>a. /\ OpenInputs \in SUBSET SettleOpenIn /\ Null \notin OpenInputs
      /\ \A u \in UnitInputs : u \in UnitIn
  BY InputAssumption
<1>b. ASSUME IsOpened(eng'), call'.await # "open_stream",
             FaultMetered(eng', call'.await, call'.amount)
      PROVE  FaultInv'
  BY <1>b DEF FaultInv
<1>c. ASSUME call' = NoCall \/ call' = call, UNCHANGED eng,
             call.await = "open_stream" \/ ~eng.closed \/ Idle
      PROVE  FaultInv'
  BY <1>c DEF FaultInv, FaultMetered, NoCall, IsOpened, Idle, Unmeterable, Verified
<1>d. ASSUME ~Idle, IsOpened(eng) PROVE ~eng.closed
  BY <1>d DEF FaultInv, FaultMetered, Idle
<1>1. CASE OpenAgain \/ BeforeOpen \/ RefMismatch \/ AdvanceClosed \/ CloseAgain
  BY <1>1, <1>c DEF OpenAgain, BeforeOpen, RefMismatch, AdvanceClosed, CloseAgain, Raise,
                   Returns
<1>2. ASSUME NEW i \in OpenInputs, OpenRefused(i) PROVE FaultInv'
  BY <1>2, <1>c DEF OpenRefused, Raise
<1>3. ASSUME NEW i \in OpenInputs, OpenBegin(i) PROVE FaultInv'
  BY <1>3 DEF OpenBegin, Suspends, FaultInv, NoCall, IsOpened, Idle
<1>4. CASE OpenResume
  <2> DEFINE i == call.open_in
  <2>1. /\ i \in OpenInputs /\ ~Unmeterable(i) /\ eng \in EngineRecord(OpenInputs)
        /\ eng' = Opened(eng, i) /\ call' = NoCall
        /\ ~eng.closed /\ eng.per_unit = <<>> /\ eng.settled = 0 /\ eng.tick = 0
    BY <1>4 DEF OpenResume, Returns, TypeOK, Call, FaultInv, IsOpened, Engine
  <2>2. OnMeter(OpenInputs, eng', "none", 0)
    BY <1>a, <2>1, MeterOpened
  <2>3. /\ eng'.plugin = OpenStream(i.rate, i.max_total) /\ eng'.tick = 0 /\ ~eng'.closed
        /\ eng'.open_in = i /\ eng'.settled = 0 /\ eng'.per_unit = <<>>
    BY <1>a, <2>1, OpenedType
  <2>4. i.rate \in Nat /\ i.max_total \in Nat /\ i.rate * 0 = 0 /\ i # Null
    BY <1>a, <2>1 DEF SettleOpenIn
  <2>5. Verified(eng') = 0
    BY <2>3, FS_EmptySet DEF Verified, VerifiedCount
  <2>6. FaultMetered(eng', "none", 0)
    BY <2>1, <2>3, <2>4, <2>5 DEF FaultMetered, OpenStream
  <2> QED
    BY <1>b, <2>1, <2>3, <2>4, <2>6 DEF NoCall, IsOpened
<1>5. ASSUME NEW u \in UnitInputs, Advance(u) PROVE FaultInv'
  <2>1. CASE AdvanceDuplicate(u)
    BY <1>c, <2>1 DEF AdvanceDuplicate, Accepting, Raise
  <2> SUFFICES ASSUME NewUnit(u) PROVE FaultInv'
    BY <1>5, <2>1 DEF Advance, AdvanceRaises, AdvancePass, AdvanceCapReached, AdvanceFail,
                      Decided
  <2>2. /\ IsOpened(eng) /\ ~eng.closed /\ u \in UnitIn
        /\ eng \in EngineRecord(OpenInputs) /\ eng.open_in \in OpenInputs
        /\ eng.per_unit \in Seq(PerUnit)
        /\ eng.tick \in Int /\ Verified(eng) \in Nat
        /\ FaultMetered(eng, "none", 0)
    <3>1. IsOpened(eng) /\ ~eng.closed /\ call.await = "none"
      BY DEF NewUnit, Accepting, Idle
    <3> QED
      BY <1>a, <3>1, FaultNumbers DEF FaultMetered
  <2>3. CASE AdvanceRaises(u)
    <3>1. FaultMetered(Received(eng, u), "none", 0) /\ Received(eng, u).open_in = eng.open_in
      BY <1>a, <2>2, ReceivedType, FaultFields
    <3> QED
      BY <1>b, <2>2, <2>3, <3>1 DEF AdvanceRaises, Raise, NoCall, IsOpened
  <2> DEFINE j == Judged(eng, u)
  <2>4. PICK v \in PerUnit : /\ j.per_unit = Append(eng.per_unit, v)
                             /\ Passed(v) <=> ResultOf(eng, u).passed
    BY <1>a, <2>2, JudgedType
  <2>5. /\ j \in EngineRecord(OpenInputs)
        /\ \A f \in {"open_in", "plugin", "tick", "settled", "closed"} : j[f] = eng[f]
    BY <1>a, <2>2, JudgedType
  <2>6. Verified(j) = IF ResultOf(eng, u).passed THEN Verified(eng) + 1 ELSE Verified(eng)
    BY <2>2, <2>4, VerifiedCountAppend DEF Verified
  <2> HIDE DEF j
  <2>7. ASSUME NEW w \in {"advance", "close_stream"}, call'.await = w, ~eng'.closed,
               \A f \in {"open_in", "plugin", "settled"} : eng'[f] = eng[f],
               eng'.tick \in Int, eng.tick <= eng'.tick, eng'.tick <= Verified(eng')
        PROVE  FaultInv'
    <3>1. eng.plugin.at \in Int
      BY <2>2 DEF IsOpened, TypeOK, Stream
    <3>2. eng.plugin.at <= eng'.tick
      BY <2>2, <2>7, <3>1 DEF FaultMetered
    <3>3. FaultMetered(eng', w, call'.amount)
      BY <2>2, <2>7, <3>2 DEF FaultMetered
    <3> QED
      BY <1>b, <2>2, <2>7, <3>3 DEF IsOpened
  <2>8. CASE AdvancePass(u)
    <3>1. eng' = [j EXCEPT !.tick = eng.tick + 1] /\ Verified(j) = Verified(eng) + 1
      BY <2>5, <2>6, <2>8 DEF AdvancePass, Ticked, j
    <3>2. /\ \A f \in {"open_in", "plugin", "settled", "closed"} : eng'[f] = eng[f]
          /\ eng'.tick = eng.tick + 1 /\ eng'.per_unit = j.per_unit
      BY <2>5, <3>1 DEF EngineRecord
    <3>3. eng'.tick <= Verified(eng')
      BY <2>2, <3>1, <3>2 DEF FaultMetered, Verified
    <3>4. call'.await = "advance"
      BY <2>8 DEF AdvancePass, Suspends, NoCall
    <3> QED
      BY <2>2, <2>7, <3>2, <3>3, <3>4
  <2>9. CASE AdvanceCapReached(u) \/ AdvanceFail(u)
    <3>1. eng' = j /\ call'.await = "close_stream"
      BY <2>9 DEF AdvanceCapReached, AdvanceFail, Suspends, NoCall, j
    <3>2. eng'.tick <= Verified(eng')
      BY <2>2, <2>5, <2>6, <3>1 DEF FaultMetered
    <3> QED
      BY <2>2, <2>5, <2>7, <3>1, <3>2
  <2> QED
    BY <1>5, <2>1, <2>3, <2>8, <2>9 DEF Advance
<1>6. CASE CloseBegin
  BY <1>6, FaultNumbers DEF CloseBegin, Accepting, Suspends, NoCall, FaultInv, FaultMetered,
     IsOpened, Idle
<1>7. CASE PluginAdvance
  <2> DEFINE p == AdvanceStream(eng.plugin, eng.tick)
             owed == Owed(eng.plugin, eng.tick)
  <2>1. call.await = "advance" /\ IsOpened(eng) /\ ~eng.closed
    BY <1>7, <1>d DEF PluginAdvance, Idle, TypeOK, IsOpened
  <2>2. /\ eng \in EngineRecord(OpenInputs) /\ eng.plugin \in Stream
        /\ FaultMetered(eng, "advance", call.amount)
        /\ eng.tick \in Int /\ eng.settled \in Int
    BY <2>1, FaultNumbers
  <2>3. owed \in Nat /\ eng.plugin.drained + owed <= eng.plugin.rate * eng.tick
        /\ eng.plugin.drained + owed <= eng.plugin.max_total
    BY <2>2, StreamPays DEF FaultMetered
  <2>4. /\ p.drained = eng.plugin.drained + owed /\ p.at = eng.tick
        /\ p.rate = eng.plugin.rate /\ p.max_total = eng.plugin.max_total /\ p \in Stream
    BY <2>2, StreamType DEF AdvanceStream, Stream
  <2>5. /\ eng' = [eng EXCEPT !.plugin = p]
        /\ call'.await = "drained" /\ call'.amount = owed
    BY <1>7 DEF PluginAdvance, TypeOK, Call
  <2> HIDE DEF p, owed
  <2>6. /\ \A f \in {"open_in", "tick", "settled", "closed", "per_unit"} : eng'[f] = eng[f]
        /\ eng'.plugin = p
    BY <2>2, <2>5 DEF EngineRecord
  <2>7. eng.settled + owed <= p.drained /\ eng.settled <= p.drained /\ 0 <= eng.tick
    BY <2>2, <2>3, <2>4 DEF FaultMetered, Stream
  <2>8. FaultMetered(eng', "drained", owed)
    BY <2>1, <2>2, <2>3, <2>4, <2>6, <2>7 DEF FaultMetered, Verified
  <2> QED
    BY <1>b, <2>1, <2>5, <2>6, <2>8 DEF IsOpened
<1>8. CASE AdvanceResume
  <2>1. call.await = "drained" /\ IsOpened(eng) /\ ~eng.closed
    BY <1>8, <1>d DEF AdvanceResume, Idle, TypeOK, IsOpened
  <2>2. eng' = Billed(eng, call.seq, call.amount) /\ call' = NoCall
    BY <1>8 DEF AdvanceResume, Returns
  <2>3. /\ Billed(eng, call.seq, call.amount).settled = eng.settled + call.amount
        /\ \A f \in {"open_in", "plugin", "tick", "closed", "per_unit"} :
             Billed(eng, call.seq, call.amount)[f] = eng[f]
    <3>1. /\ eng \in EngineRecord(OpenInputs) /\ eng.open_in \in OpenInputs
          /\ call.amount \in Int /\ call.seq \in Nat
      BY <2>1, FaultNumbers
    <3> QED
      BY <1>a, <3>1, BilledType
  <2>4. FaultMetered(eng', "none", 0)
    BY <2>1, <2>2, <2>3, FaultNumbers DEF FaultMetered, Verified
  <2> QED
    BY <1>b, <2>1, <2>2, <2>3, <2>4 DEF NoCall, IsOpened
<1>9. CASE PluginClose
  <2> DEFINE owed == Owed(eng.plugin, eng.tick)
  <2>1. call.await = "close_stream" /\ IsOpened(eng) /\ ~eng.closed
    BY <1>9, <1>d DEF PluginClose, Idle, TypeOK, IsOpened
  <2>2. /\ eng \in EngineRecord(OpenInputs) /\ eng.plugin \in Stream
        /\ FaultMetered(eng, "close_stream", call.amount)
        /\ eng.tick \in Int /\ eng.settled \in Int
    BY <2>1, FaultNumbers
  <2>3. owed \in Nat /\ eng.plugin.drained + owed <= eng.plugin.rate * eng.tick
        /\ eng.plugin.drained + owed <= eng.plugin.max_total
    BY <2>2, StreamPays DEF FaultMetered
  <2>4. PICK p \in CloseStream(eng.plugin, eng.tick) :
          /\ eng' = [eng EXCEPT !.plugin = p]
          /\ call' = [call EXCEPT !.await = "receipt", !.amount = p.drained]
    BY <1>9 DEF PluginClose
  <2>5. \/ p = [eng.plugin EXCEPT !.open = FALSE]
        \/ p = [eng.plugin EXCEPT !.open = FALSE, !.drained = eng.plugin.drained + owed,
                                  !.at = eng.tick]
    BY DEF CloseStream
  <2> HIDE DEF owed
  <2>6. /\ p.rate = eng.plugin.rate /\ p.max_total = eng.plugin.max_total
        /\ \/ p.drained = eng.plugin.drained /\ p.at = eng.plugin.at
           \/ p.drained = eng.plugin.drained + owed /\ p.at = eng.tick
    BY <2>2, <2>5 DEF Stream
  <2>7. /\ \A f \in {"open_in", "tick", "settled", "closed", "per_unit"} : eng'[f] = eng[f]
        /\ eng'.plugin = p /\ call'.await = "receipt" /\ call'.amount = p.drained
    BY <2>2, <2>4 DEF EngineRecord, TypeOK, Call
  <2>8. /\ 0 <= p.at /\ p.at <= eng.tick /\ p.drained <= eng.open_in.rate * p.at
        /\ p.drained <= eng.open_in.max_total /\ eng.settled <= p.drained
    BY <2>2, <2>3, <2>6 DEF FaultMetered, Stream
  <2>9. FaultMetered(eng', "receipt", p.drained)
    BY <2>1, <2>2, <2>6, <2>7, <2>8 DEF FaultMetered, Verified
  <2> QED
    BY <1>b, <2>1, <2>7, <2>9 DEF IsOpened
<1>10. CASE CloseResume
  <2>1. call.await = "receipt" /\ IsOpened(eng)
    BY <1>10 DEF CloseResume, TypeOK, IsOpened
  <2>2. /\ eng' = ClosedWith(eng, call.seq, call.amount, call.reason) /\ call' = NoCall
        /\ eng'.settled = call.amount /\ eng'.closed
        /\ \A f \in {"open_in", "plugin", "tick", "per_unit"} : eng'[f] = eng[f]
    BY <1>10, <2>1, FaultNumbers, ClosedWithType DEF CloseResume, Returns
  <2>3. FaultMetered(eng', "none", 0)
    BY <2>1, <2>2, FaultNumbers DEF FaultMetered, Verified, Stream
  <2> QED
    BY <1>b, <2>1, <2>2, <2>3 DEF NoCall, IsOpened
<1>11. CASE Interrupted
  BY <1>c, <1>d, <1>11 DEF Interrupted, Raise, TypeOK, Call, Await, Idle, IsOpened
<1>12. CASE UNCHANGED vars
  BY <1>12 DEF vars, FaultInv, IsOpened, FaultMetered, Unmeterable, Verified
<1> QED
  BY <1>1, <1>2, <1>3, <1>4, <1>5, <1>6, <1>7, <1>8, <1>9, <1>10, <1>11, <1>12
     DEF FaultNext, Next, Resume

\* The invariant of an engine whose plugin may fail.
THEOREM FaultInvCorrect == FaultSpec => []FaultInv
BY FaultTypeCorrect, TypeInit, FaultTypeStep, FaultInit, FaultStep, PTL DEF FaultSpec

---------------------------------------------------------------------------------
\* billed <= rate * verified and billed <= max_total (engine.py:15-17) do not depend on
\* the plugin's calls coming back.
THEOREM BilledWithinVerifiedUnderFaults == FaultSpec => []BilledWithinVerified
<1>1. TypeOK /\ FaultInv => BilledWithinVerified
  <2> SUFFICES ASSUME TypeOK, FaultInv, IsOpened(eng)
               PROVE  /\ eng.settled <= eng.open_in.rate * Verified(eng)
                      /\ eng.settled <= eng.open_in.max_total
    BY DEF BilledWithinVerified
  <2> DEFINE rate == eng.open_in.rate
             at == eng.plugin.at
             ahead == Verified(eng) - at
  <2>1. /\ rate \in Nat /\ eng.open_in.max_total \in Nat /\ eng.settled \in Int
        /\ Verified(eng) \in Nat /\ eng.tick \in Int
        /\ at \in Int /\ eng.plugin.drained \in Int
        /\ FaultMetered(eng, call.await, call.amount)
    BY FaultNumbers DEF Stream
  <2>2. ahead \in Nat /\ Verified(eng) = at + ahead
    BY <2>1 DEF FaultMetered
  <2>3. eng.settled <= rate * at
    <3>1. rate * at \in Int /\ eng.plugin.drained <= rate * at /\ eng.settled <= eng.plugin.drained
      BY <2>1 DEF FaultMetered
    <3> QED
      BY <2>1, <3>1
  <2> HIDE DEF ahead, at, rate
  <2>4. /\ rate * (at + ahead) = rate * at + rate * ahead
        /\ rate * ahead \in Nat /\ rate * at \in Int
    BY <2>1, <2>2
  <2>5. eng.settled <= rate * Verified(eng)
    BY <2>1, <2>2, <2>3, <2>4
  <2>6. eng.settled <= eng.open_in.max_total
    BY <2>1 DEF FaultMetered
  <2> QED
    BY <2>5, <2>6 DEF rate
<1> QED
  BY <1>1, FaultTypeCorrect, FaultInvCorrect, PTL

\* An open session's trace tells what the engine has on its books; a closed one's ticks
\* claim no more than the total its close line states.
FaultTraceInv ==
  IF ~IsOpened(eng) THEN eng.trace = <<>>
  ELSE /\ ~eng.closed => TraceTells(eng)
       /\ eng.closed => /\ BilledFromTrace(eng.trace) \in Int
                        /\ BilledFromTrace(eng.trace) <= eng.settled
                        /\ Split(eng.trace[Len(eng.trace)])[4] = eng.settled

\* A close line states the plugin's total, more than the ticks say when some never arrived.
LEMMA FaultTraceCloses ==
  ASSUME PlainRefs, NEW opens \in SUBSET SettleOpenIn, NEW e \in EngineRecord(opens),
         e.open_in \in opens, NEW s \in Nat, NEW n \in Int, NEW why \in CloseReason,
         TraceTells(e), e.settled <= n
  PROVE  LET d == ClosedWith(e, s, n, why)
         IN  /\ d.open_in = e.open_in /\ d.closed
             /\ BilledFromTrace(d.trace) \in Int /\ BilledFromTrace(d.trace) <= d.settled
             /\ Split(d.trace[Len(d.trace)])[4] = d.settled
<1> DEFINE line == StreamCloseLine(e.open_in.ref, s, n, e.tick, why)
           d == ClosedWith(e, s, n, why)
<1>1. e.open_in.ref \in Ref /\ e.tick \in Int
  BY DEF SettleOpenIn, EngineRecord
<1>2. line \in Line /\ line.kind = "stream-close" /\ line.drained = n
  BY <1>1 DEF Line, StreamCloseLine
<1>3. d.trace = Append(e.trace, line)
  BY DEF ClosedWith, EngineRecord
<1>4. d.settled = n /\ d.closed /\ d.open_in = e.open_in
  BY ClosedWithType
<1>5. /\ e.trace \in Seq(Line) /\ e.settled \in Int
      /\ Summable(e.trace) /\ BilledFromTrace(e.trace) = e.settled
  BY DEF EngineRecord, TraceTells, Tells
<1> HIDE DEF line, d
<1>6. AmountOf(line) = 0 /\ Split(line)[4] = n
  BY <1>2, LineFields
<1>7. BilledFromTrace(d.trace) = e.settled + 0
  BY <1>2, <1>3, <1>5, <1>6, BilledAppend
<1>8. d.trace[Len(d.trace)] = line
  BY <1>2, <1>3, <1>5
<1>9. /\ d.open_in = e.open_in /\ d.closed
      /\ BilledFromTrace(d.trace) \in Int /\ BilledFromTrace(d.trace) <= d.settled
      /\ Split(d.trace[Len(d.trace)])[4] = d.settled
  BY <1>4, <1>5, <1>6, <1>7, <1>8
<1> QED
  BY <1>9 DEF d

\* The inductive step.
LEMMA FaultTraceStep ==
  ASSUME PlainRefs, TypeOK, TypeOK', FaultInv, FaultTraceInv, [FaultNext]_vars
  PROVE  FaultTraceInv'
<1>a. /\ OpenInputs \in SUBSET SettleOpenIn /\ Null \notin OpenInputs
      /\ \A u \in UnitInputs : u \in UnitIn
  BY InputAssumption
<1>b. /\ eng \in EngineRecord(OpenInputs)
      /\ IsOpened(eng) => eng.open_in \in OpenInputs
  BY DEF TypeOK, Engine, EngineRecord, IsOpened
<1>c. ~Idle /\ IsOpened(eng) => ~eng.closed
  BY DEF FaultInv, FaultMetered, Idle
<1>d. ASSUME TraceTells(eng'), IsOpened(eng'), ~eng'.closed PROVE FaultTraceInv'
  BY <1>d DEF FaultTraceInv
<1>1. ASSUME \A f \in {"open_in", "settled", "closed", "per_unit", "seen_seqs", "trace"} :
               eng'[f] = eng[f]
      PROVE  FaultTraceInv'
  BY <1>1 DEF FaultTraceInv, IsOpened, TraceTells, Verified
<1>2. ASSUME ~IsOpened(eng), NEW i \in OpenInputs, eng' = Opened(eng, i)
      PROVE  FaultTraceInv'
  <2>1. ~eng.closed /\ eng.per_unit = <<>> /\ eng.settled = 0 /\ eng.trace = <<>>
    BY <1>2 DEF FaultInv, FaultTraceInv
  <2>2. TraceTells(eng')
    BY <1>a, <1>b, <1>2, <2>1, TellsOpened
  <2>3. eng'.open_in = i /\ eng'.closed = eng.closed
    BY <1>a, <1>b, <1>2, OpenedType
  <2> QED
    BY <1>a, <1>d, <2>1, <2>2, <2>3 DEF IsOpened
<1>3. ASSUME NEW u \in UnitInputs, NewUnit(u),
             \/ DecisionRaises(eng, u) /\ eng' = Received(eng, u)
             \/ eng' \in {Judged(eng, u), Ticked(Judged(eng, u))}
      PROVE  FaultTraceInv'
  <2>1. IsOpened(eng) /\ ~eng.closed /\ eng.open_in \in OpenInputs /\ u \in UnitIn
    BY <1>a, <1>b, <1>3 DEF NewUnit, Accepting
  <2>2. TraceTells(eng)
    BY <2>1 DEF FaultTraceInv
  <2>3. CASE DecisionRaises(eng, u) /\ eng' = Received(eng, u)
    <3>1. CriterionOf(eng) # "ack_received"
      BY <2>3 DEF DecisionRaises, EvaluateRaises
    <3>2. TraceTells(Received(eng, u))
      BY <1>a, <1>b, <2>1, <2>2, <3>1, TellsReceived
    <3>3. eng'.open_in = eng.open_in /\ eng'.closed = eng.closed
      BY <1>a, <1>b, <2>1, <2>3, ReceivedType
    <3> QED
      BY <1>d, <2>1, <2>3, <3>2, <3>3 DEF IsOpened
  <2>4. CASE eng' \in {Judged(eng, u), Ticked(Judged(eng, u))}
    <3>1. TraceTells(Judged(eng, u)) /\ TraceTells(Ticked(Judged(eng, u)))
      BY <1>a, <1>b, <2>1, <2>2, TellsJudged
    <3>2. /\ Judged(eng, u) \in EngineRecord(OpenInputs)
          /\ Judged(eng, u).open_in = eng.open_in /\ Judged(eng, u).closed = eng.closed
      BY <1>a, <1>b, <2>1, JudgedType
    <3>3. /\ Ticked(Judged(eng, u)).open_in = eng.open_in
          /\ Ticked(Judged(eng, u)).closed = eng.closed
      BY <3>2 DEF Ticked, EngineRecord
    <3> QED
      BY <1>d, <2>1, <2>4, <3>1, <3>2, <3>3 DEF IsOpened
  <2> QED
    BY <1>3, <2>3, <2>4
<1>4. ASSUME AdvanceResume, IsOpened(eng) PROVE FaultTraceInv'
  <2>1. /\ ~eng.closed /\ eng.open_in \in OpenInputs
        /\ call.seq \in Nat /\ call.amount \in Int
        /\ eng' = Billed(eng, call.seq, call.amount)
    BY <1>b, <1>c, <1>4 DEF AdvanceResume, Idle, TypeOK, Call
  <2>2. TraceTells(eng)
    BY <1>4, <2>1 DEF FaultTraceInv
  <2>3. TraceTells(eng')
    BY <1>a, <1>b, <2>1, <2>2, TellsBilled
  <2>4. eng'.open_in = eng.open_in /\ eng'.closed = eng.closed
    BY <1>a, <1>b, <2>1, BilledType
  <2> QED
    BY <1>4, <1>d, <2>1, <2>3, <2>4 DEF IsOpened
<1>5. ASSUME CloseResume, IsOpened(eng) PROVE FaultTraceInv'
  <2>1. /\ ~eng.closed /\ eng.open_in \in OpenInputs
        /\ call.seq \in Nat /\ call.amount \in Int /\ call.reason \in CloseReason
        /\ eng' = ClosedWith(eng, call.seq, call.amount, call.reason)
    BY <1>b, <1>c, <1>5 DEF CloseResume, Idle, TypeOK, Call
  <2>2. eng.settled <= call.amount
    BY <1>5 DEF CloseResume, FaultInv, FaultMetered
  <2>3. TraceTells(eng)
    BY <1>5, <2>1 DEF FaultTraceInv
  <2>4. /\ eng'.open_in = eng.open_in /\ eng'.closed
        /\ BilledFromTrace(eng'.trace) \in Int /\ BilledFromTrace(eng'.trace) <= eng'.settled
        /\ Split(eng'.trace[Len(eng'.trace)])[4] = eng'.settled
    BY <1>a, <1>b, <2>1, <2>2, <2>3, FaultTraceCloses
  <2> QED
    BY <1>5, <2>4 DEF FaultTraceInv, IsOpened
<1>6. CASE Interrupted
  BY <1>1, <1>6 DEF Interrupted
<1>7. CASE [Next]_vars
  BY <1>1, <1>2, <1>3, <1>4, <1>5, <1>7, EngineStretches
<1> QED
  BY <1>6, <1>7 DEF FaultNext

\* The ticks of a trace never claim money the plugin did not move, and a close line states
\* the plugin's own total, whichever of its calls fail (engine.py:203-205, 250-257).
THEOREM TraceNeverOverstatesAlways ==
  ASSUME PlainRefs PROVE FaultSpec => []TraceNeverOverstates
<1>1. Init => FaultTraceInv
  BY DEF Init, NewEngine, FaultTraceInv, IsOpened
<1>2. TypeOK /\ TypeOK' /\ FaultInv /\ FaultTraceInv /\ [FaultNext]_vars => FaultTraceInv'
  BY FaultTraceStep
<1>3. TypeOK /\ FaultInv /\ FaultTraceInv => TraceNeverOverstates
  <2> SUFFICES ASSUME TypeOK, FaultInv, FaultTraceInv, IsOpened(eng)
               PROVE  /\ BilledFromTrace(eng.trace) <= eng.plugin.drained
                      /\ ~eng.closed => BilledFromTrace(eng.trace) = eng.settled
                      /\ eng.closed => Split(eng.trace[Len(eng.trace)])[4] = eng.plugin.drained
    BY DEF TraceNeverOverstates
  <2>1. FaultMetered(eng, call.await, call.amount)
    BY FaultNumbers
  <2>2. ~eng.closed => BilledFromTrace(eng.trace) = eng.settled
    BY DEF FaultTraceInv, TraceTells, Tells
  <2> QED
    BY <2>1, <2>2 DEF FaultMetered, FaultTraceInv
<1> QED
  BY <1>1, <1>2, <1>3, FaultTypeCorrect, FaultInvCorrect, PTL DEF FaultSpec

\* No unit is paid before it is cleared, and none twice, although a method may end between
\* the line that clears a unit and its tick (engine.py:196-206).
THEOREM TicksAreEarnedUnderFaults == FaultSpec => []TicksAreEarned
<1>1. TypeOK /\ TypeOK' /\ RecordInv /\ [FaultNext]_vars => RecordInv'
  <2> SUFFICES ASSUME TypeOK, TypeOK', RecordInv, [FaultNext]_vars PROVE RecordInv'
    OBVIOUS
  <2>1. CASE Interrupted
    BY <2>1 DEF Interrupted, Raise, RecordInv, NoCall
  <2>2. CASE [Next]_vars
    BY <2>2, RecordStep
  <2> QED
    BY <2>1, <2>2 DEF FaultNext
<1> QED
  BY <1>1, RecordInit, RecordEarned, TypeInit, FaultTypeStep, PTL DEF FaultSpec

\* Close stays terminal (engine.py:140-142, 219): a method that fails inside the plugin
\* fails before the session is closed.
THEOREM ClosedIsFinalUnderFaults == FaultSpec => ClosedIsFinal
<1>1. FaultInv /\ [FaultNext]_vars => [eng.closed => UNCHANGED eng]_vars
  <2> SUFFICES ASSUME FaultInv, FaultNext, eng.closed PROVE UNCHANGED eng
    BY DEF vars
  <2>1. Idle /\ IsOpened(eng)
    BY DEF FaultInv, FaultMetered, Idle
  <2> QED
    BY <2>1 DEF FaultNext, Interrupted, Next, OpenAgain, OpenRefused, OpenBegin, BeforeOpen,
         RefMismatch, AdvanceClosed, Advance, AdvanceDuplicate, AdvanceRaises, AdvancePass,
         AdvanceCapReached, AdvanceFail, Decided, NewUnit, Accepting, CloseBegin,
         CloseAgain, Resume, OpenResume, PluginAdvance, AdvanceResume, PluginClose,
         CloseResume, Idle
<1> QED
  BY <1>1, FaultInvCorrect, PTL DEF FaultSpec, ClosedIsFinal
=================================================================================
