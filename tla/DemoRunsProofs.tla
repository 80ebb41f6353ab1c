----------------------------- MODULE DemoRunsProofs -----------------------------
(***************************************************************************)
(* What the two demonstrations show, for every version of the scenario,    *)
(* every edit of the fixtures and every rate and cap they are run with.    *)
(*                                                                         *)
(* A demonstration makes calls the engine's own caller could make, so the  *)
(* types and the meter carry over; what is new is that the verdicts are    *)
(* those of the script's units, one after the other, and that the script   *)
(* is what the fixtures of that moment were.                               *)
(***************************************************************************)
EXTENDS DemoRuns, SettlementEngineProofs

(***************************************************************************)
(* The fixtures.                                                           *)
(***************************************************************************)
ScriptUnit == [seq : {0, 1}, chunk : Chunk, declared_checksum : {"sha256"} \X Chunk]

\* Both items, in the order of their seqs.
Delivery(units) ==
  /\ units \in Seq(ScriptUnit) /\ Len(units) = 2
  /\ units[1].seq = 0 /\ units[2].seq = 1

\* Whatever was written, torn or edited, a file that can be read is one of its kind.
DiskInv ==
  /\ scenario \in Scenarios
  /\ DOMAIN disk = {"committed", "good", "bad"}
  /\ Unreadable(disk.committed)
     \/ \E s \in Scenarios : disk.committed = Commitment(s[1], s[2])
  /\ Unreadable(disk.good) \/ Delivery(disk.good)
  /\ Unreadable(disk.bad) \/ Delivery(disk.bad)

(***************************************************************************)
(* The script of the run in progress, or of the last one to report.        *)
(***************************************************************************)
Reported == proc.exit \in {"OK", "UNEXPECTED", "answered"}

ScriptInv ==
  LET o == proc.open_in
      units == proc.units
  IN  /\ o \in OpenInputs /\ Delivery(units)
      /\ \E s \in Scenarios : /\ o.ref = DemoRef
                              /\ o.committed_reference = Commitment(s[1], s[2]).committed_reference
      /\ proc.case = "good" => GoodFixtureHolds(o, units)
      /\ proc.case \in {"l3", "l2"} =>
           /\ units = UnitsOf(proc.case)
           /\ o.committed_reference = disk.committed.committed_reference
      /\ proc.case \in Demo =>
           \E s \in Scenarios :
             /\ o = Commitment(s[1], s[2])
             /\ units[1] = Artifact(0, s[1])
             /\ units[2] = Artifact(1, IF proc.case = "demo-good" THEN s[2] ELSE s[3])

(***************************************************************************)
(* How far the engine has got with it.                                     *)
(***************************************************************************)

\* The verdict on a unit, by the terms alone.
VerdictOn(o, u) ==
  LET r == ResultOf([open_in |-> o], u)
  IN  [seq |-> u.seq, verdict |-> IF r.passed THEN "pass" ELSE "fail", reason |-> r.reason]

\* The number of units delivered after n calls.
Delivered(n) == IF n <= 2 THEN n - 1 ELSE 2

Stopping(e, await) == e.closed \/ await \in {"close_stream", "receipt"}

\* The engine has judged every unit delivered to it, up to the first it refused, and it
\* stops on that one, on the last, or on close.
Keeping(e, await, o, units, n) ==
  LET k == Len(e.per_unit)
  IN  /\ e.open_in = o
      /\ k <= Delivered(n)
      /\ \A i \in 1 .. k : e.per_unit[i] = VerdictOn(o, units[i])
      /\ k < Delivered(n) => Refused(e)
      /\ Stopping(e, await) /\ n <= 3 => Refused(e) \/ k = 2
      /\ n = 4 => Stopping(e, await)

PlayInv ==
  /\ proc.done \in 0 .. 4
  /\ outcome = "running" <=> ~Idle
  /\ proc.done = 0 => ~IsOpened(eng) /\ outcome = "none"
  /\ proc.done > 0 => outcome # "none"
  /\ call.await = "open_stream" => proc.done = 1 /\ call.open_in = proc.open_in
  /\ outcome = "ok" => IsOpened(eng) /\ out = Snapshot(eng)
  /\ IsOpened(eng) /\ outcome \in {"ok", "running"} =>
       Keeping(eng, call.await, proc.open_in, proc.units, proc.done)

ProcFields == {"stage", "case", "open_in", "units", "done", "exit"}

ProcInv ==
  /\ DOMAIN proc = ProcFields
  /\ proc.case \in Smoke \cup Demo
  /\ proc.stage = "regen" => proc.done \in 0 .. 3
  /\ proc.stage # "ended" => proc.exit = "none"
  /\ proc.stage = "playing" => ScriptInv /\ PlayInv
  /\ Reported =>
       /\ ScriptInv /\ PlayInv
       /\ Idle /\ outcome = "ok" /\ proc.done = 4
       /\ proc.exit = "answered" <=> proc.case \in Demo
       /\ proc.exit = "OK" => ExpectedOk
       /\ proc.exit = "UNEXPECTED" => ~ExpectedOk

\* The inductive invariant of the demonstrations.
DemoInv == DiskInv /\ ProcInv

---------------------------------------------------------------------------------
(***************************************************************************)
(* How the verdicts come about.                                            *)
(***************************************************************************)

\* Two units are what a demonstration delivers, and the engine's caller might.
LEMMA ScriptUnits ==
  /\ ScriptUnit \in SUBSET UnitInputs /\ ScriptUnit \in SUBSET UnitIn
  /\ \A units : Delivery(units) => units[1] \in ScriptUnit /\ units[2] \in ScriptUnit
<1>1. ScriptUnit \in SUBSET UnitInputs
  BY ScriptAssumption DEF ScriptUnit
<1>2. ASSUME NEW units, Delivery(units) PROVE units[1] \in ScriptUnit /\ units[2] \in ScriptUnit
  <2>1. units \in Seq(ScriptUnit) /\ 1 \in 1 .. Len(units) /\ 2 \in 1 .. Len(units)
    BY <1>2 DEF Delivery
  <2> QED
    BY <2>1
<1> QED
  BY <1>1, <1>2, InputAssumption

\* The terms of an engine decide as VerdictOn says.
LEMMA VerdictOfTerms ==
  ASSUME NEW e, NEW u
  PROVE  /\ ResultOf(e, u) = ResultOf([open_in |-> e.open_in], u)
         /\ Passed(VerdictOn(e.open_in, u)) <=> ResultOf(e, u).passed
<1>1. ResultOf(e, u) = ResultOf([open_in |-> e.open_in], u)
  BY DEF ResultOf, ExpectedFor, CriterionOf
<1> QED
  BY <1>1 DEF VerdictOn, Passed

\* What Keeping reads of the engine.
LEMMA KeepingFields ==
  ASSUME NEW e, NEW d, NEW w, NEW x, NEW o, NEW units, NEW n, Keeping(e, w, o, units, n),
         \A f \in {"open_in", "per_unit"} : d[f] = e[f],
         Stopping(d, x) <=> Stopping(e, w)
  PROVE  Keeping(d, x, o, units, n)
BY DEF Keeping, Refused

\* A new session has judged nothing.
LEMMA KeepingOpened ==
  ASSUME NEW e \in EngineRecord(OpenInputs), ~e.closed, e.per_unit = <<>>,
         NEW o \in OpenInputs, NEW units
  PROVE  Keeping(Opened(e, o), "none", o, units, 1)
<1>1. Opened(e, o).open_in = o /\ Opened(e, o).per_unit = <<>> /\ ~Opened(e, o).closed
  BY InputAssumption, OpenedType
<1>2. Len(<<>>) = 0 /\ Delivered(1) = 0 /\ 1 .. 0 = {}
  BY DEF Delivered
<1> QED
  BY <1>1, <1>2 DEF Keeping, Stopping

\* A session that has not refused a unit has judged every one.
LEMMA KeepingAll ==
  ASSUME NEW e, e.per_unit \in Seq(PerUnit), NEW w, NEW o, NEW units, NEW n \in 1 .. 4,
         Keeping(e, w, o, units, n), ~Refused(e)
  PROVE  Len(e.per_unit) = Delivered(n)
BY DEF Keeping, Delivered

\* Judging the next one adds its verdict, and stops the session only on a refusal or on
\* the last: the cap is at least 1, so the first unit that passes is paid.
LEMMA KeepingJudged ==
  ASSUME NEW e, OnMeter(OpenInputs, e, "none", 0), ~e.closed,
         NEW o, NEW units, Delivery(units), NEW n \in 1 .. 2,
         Keeping(e, "none", o, units, n),
         NEW d, d.open_in = e.open_in, d.closed = e.closed,
         d.per_unit = Judged(e, units[n]).per_unit,
         NEW w \in {"advance", "close_stream"},
         w = "close_stream" /\ ResultOf(e, units[n]).passed => Remaining(e) <= 0
  PROVE  Keeping(d, w, o, units, n + 1)
<1> DEFINE k == Len(e.per_unit)
           v == VerdictOn(o, units[n])
<1>1. /\ OpenInputs \in SUBSET SettleOpenIn /\ e \in EngineRecord(OpenInputs)
      /\ e.open_in \in OpenInputs /\ e.per_unit \in Seq(PerUnit) /\ e.open_in = o
      /\ units[n] \in UnitIn
  BY InputAssumption, ScriptUnits DEF OnMeter, EngineRecord, Keeping
<1>2. ~Refused(e) /\ Settled(e) /\ ~Unmeterable(e.open_in)
  BY DEF OnMeter, Metered
<1>3. k = n - 1 /\ k \in Nat
  <2>1. n \in 1 .. 4 /\ Delivered(n) = n - 1
    BY DEF Delivered
  <2>2. Len(e.per_unit) = Delivered(n)
    BY <1>1, <1>2, <2>1, KeepingAll
  <2> QED
    BY <2>1, <2>2
<1>4. ResultOf(e, units[n]) = ResultOf([open_in |-> o], units[n])
  BY <1>1, VerdictOfTerms
<1>5. d.per_unit = Append(e.per_unit, v)
  <2>1. Judged(e, units[n]).per_unit =
          Append(e.per_unit, [seq |-> units[n].seq,
                              verdict |-> IF ResultOf(e, units[n]).passed THEN "pass" ELSE "fail",
                              reason |-> ResultOf(e, units[n]).reason])
    BY <1>1, JudgedRecords
  <2> QED
    BY <1>4, <2>1 DEF VerdictOn
<1>6. Passed(v) <=> ResultOf(e, units[n]).passed
  BY <1>1, VerdictOfTerms
<1> HIDE DEF v
<1>7. /\ Len(d.per_unit) = k + 1 /\ d.per_unit[k + 1] = v
      /\ \A i \in 1 .. k : d.per_unit[i] = e.per_unit[i]
      /\ DOMAIN d.per_unit = 1 .. k + 1
  BY <1>1, <1>5
<1>8. \A i \in 1 .. k + 1 : d.per_unit[i] = VerdictOn(o, units[i])
  <2> TAKE i \in 1 .. k + 1
  <2>1. CASE i = k + 1
    BY <1>3, <1>7, <2>1 DEF v
  <2>2. CASE i \in 1 .. k
    BY <1>7, <2>2 DEF Keeping
  <2> QED
    BY <1>3, <2>1, <2>2
<1>9. ASSUME w = "close_stream", n = 1 PROVE Refused(d)
  <2>1. CASE ResultOf(e, units[n]).passed
    <3>1. e.per_unit = <<>>
      BY <1>1, <1>3, <1>9
    <3>2. Verified(e) = 0
      BY <3>1, FS_EmptySet DEF Verified, VerifiedCount
    <3>3. o.rate \in Nat /\ o.max_total \in Nat /\ o.rate * 0 = 0
      BY <1>1 DEF SettleOpenIn
    <3>4. e.settled = 0 /\ Remaining(e) = o.max_total
      BY <1>1, <1>2, <3>2, <3>3 DEF Settled, Due, Lesser, Remaining
    <3> QED
      BY <1>1, <1>2, <1>9, <2>1, <3>3, <3>4 DEF Unmeterable
  <2>2. CASE ~ResultOf(e, units[n]).passed
    <3>1. k + 1 \in DOMAIN d.per_unit /\ ~Passed(d.per_unit[k + 1])
      BY <1>3, <1>6, <1>7, <2>2
    <3> QED
      BY <3>1 DEF Refused
  <2> QED
    BY <2>1, <2>2
<1>10. Delivered(n + 1) = k + 1 /\ n + 1 # 4 /\ (n = 2 => k + 1 = 2)
  BY <1>3 DEF Delivered
<1>11. Stopping(d, w) => Refused(d) \/ k + 1 = 2
  BY <1>9, <1>10 DEF Stopping
<1> QED
  BY <1>1, <1>3, <1>7, <1>8, <1>10, <1>11 DEF Keeping

\* A unit delivered to a closed session comes after one it refused.
LEMMA KeepingLate ==
  ASSUME NEW e, e.per_unit \in Seq(PerUnit), e.closed, NEW o, NEW units, NEW n \in 1 .. 2,
         Keeping(e, "none", o, units, n)
  PROVE  Keeping(e, "none", o, units, n + 1)
<1>1. Len(e.per_unit) \in Nat /\ Len(e.per_unit) <= 1
  BY DEF Keeping, Delivered
<1>2. Refused(e)
  <2>1. Stopping(e, "none")
    BY Zenon DEF Stopping
  <2>2. n <= 3
    OBVIOUS
  <2>3. Len(e.per_unit) # 2
    <3>1. ASSUME NEW k \in Nat, k <= 1 PROVE k # 2
      BY <3>1
    <3> QED
      BY <1>1, <3>1
  <2> QED
    BY <2>1, <2>2, <2>3 DEF Keeping
<1> QED
  BY <1>1, <1>2 DEF Keeping, Delivered, Stopping

\* close() comes after the last unit, and stops what has not stopped.
LEMMA KeepingClose ==
  ASSUME NEW e, NEW o, NEW units, NEW w, Keeping(e, "none", o, units, 3), Stopping(e, w)
  PROVE  Keeping(e, w, o, units, 4)
BY DEF Keeping, Delivered, Stopping

---------------------------------------------------------------------------------
(***************************************************************************)
(* A step of the run in progress.                                          *)
(***************************************************************************)

\* A call counts, and leaves the rest of the run's state alone.
LEMMA CalledFields ==
  ASSUME DOMAIN proc = ProcFields, Called
  PROVE  /\ DOMAIN proc' = ProcFields /\ proc'.done = proc.done + 1
         /\ \A f \in {"stage", "case", "open_in", "units", "exit"} : proc'[f] = proc[f]
         /\ UNCHANGED <<scenario, disk>>
BY DEF Called, ProcFields

\* An engine that is open and at rest, or waits at w, and has not raised.
LEMMA PlayKeeps ==
  ASSUME PlayInv, IsOpened(eng), outcome \in {"ok", "running"}
  PROVE  /\ Keeping(eng, call.await, proc.open_in, proc.units, proc.done)
         /\ proc.done \in 1 .. 4
BY DEF PlayInv

\* An engine that has just raised an error is at rest and plays no further part.
LEMMA PlayRaised ==
  ASSUME PlayInv, proc'.done \in 1 .. 4, call' = NoCall,
         outcome' \notin {"none", "ok", "running"}
  PROVE  PlayInv'
BY DEF PlayInv, Idle, NoCall

\* One that has just answered holds what it answered.
LEMMA PlayAnswered ==
  ASSUME PlayInv, proc'.done \in 1 .. 4, Returns, IsOpened(eng'),
         Keeping(eng', "none", proc'.open_in, proc'.units, proc'.done)
  PROVE  PlayInv'
BY DEF PlayInv, Idle, NoCall, Returns

\* One that waits has not answered yet.
LEMMA PlayWaits ==
  ASSUME PlayInv, proc'.done \in 1 .. 4, outcome' = "running",
         call'.await \notin {"none", "open_stream"},
         Keeping(eng', call'.await, proc'.open_in, proc'.units, proc'.done)
  PROVE  PlayInv'
BY DEF PlayInv, Idle

\* The run opens its session.
LEMMA PlayOpenStep ==
  ASSUME TypeOK, ScriptInv, PlayInv, DOMAIN proc = ProcFields, PlayOpen
  PROVE  PlayInv'
<1>1. /\ proc.done = 0 /\ proc'.done = 1 /\ proc'.open_in = proc.open_in
      /\ ~IsOpened(eng) /\ outcome = "none"
  BY CalledFields DEF PlayOpen, PlayInv
<1>2. CASE OpenRefused(proc.open_in)
  BY <1>1, <1>2, PlayRaised DEF OpenRefused, Raise
<1>3. CASE OpenBegin(proc.open_in)
  <2>1. /\ eng' = eng /\ outcome' = "running"
        /\ call'.await = "open_stream" /\ call'.open_in = proc.open_in
    BY <1>3 DEF OpenBegin, Suspends, NoCall
  <2> QED
    BY <1>1, <2>1 DEF PlayInv, Idle, IsOpened
<1> QED
  BY <1>2, <1>3 DEF PlayOpen

\* The run delivers a unit.
LEMMA PlayUnitStep ==
  ASSUME TypeOK, MeterInv, ScriptInv, PlayInv, DOMAIN proc = ProcFields, PlayUnit
  PROVE  PlayInv'
<1> DEFINE n == proc.done
           u == proc.units[n]
<1>1. Delivery(proc.units) /\ Len(proc.units) = 2
  BY DEF ScriptInv, Delivery
<1>2. /\ n \in 1 .. 2 /\ outcome = "ok" /\ IsOpened(eng) /\ Idle /\ u \in UnitIn
  BY <1>1, ScriptUnits DEF PlayUnit, PlayInv
<1>3. /\ proc'.done = n + 1 /\ proc'.done \in 1 .. 4
      /\ proc'.open_in = proc.open_in /\ proc'.units = proc.units
  BY <1>2, CalledFields DEF PlayUnit
<1>4. /\ Keeping(eng, "none", proc.open_in, proc.units, n)
      /\ OnMeter(OpenInputs, eng, "none", 0)
      /\ OpenInputs \in SUBSET SettleOpenIn
      /\ eng \in EngineRecord(OpenInputs) /\ eng.open_in \in OpenInputs
      /\ eng.per_unit \in Seq(PerUnit)
  BY <1>2, PlayKeeps, IdleOnMeter, InputAssumption DEF Idle, OnMeter, EngineRecord
<1>5. CASE AdvanceClosed
  <2>1. eng.closed /\ eng' = eng /\ Returns
    BY <1>5 DEF AdvanceClosed
  <2>2. Keeping(eng, "none", proc.open_in, proc.units, n + 1)
    BY <1>2, <1>4, <2>1, KeepingLate
  <2> QED
    BY <1>2, <1>3, <2>1, <2>2, PlayAnswered
<1>6. CASE AdvanceDuplicate(u) \/ AdvanceRaises(u)
  BY <1>3, <1>6, PlayRaised DEF AdvanceDuplicate, AdvanceRaises, Raise
<1> DEFINE j == Judged(eng, u)
<1>7. /\ j \in EngineRecord(OpenInputs) /\ j.open_in = eng.open_in /\ j.closed = eng.closed
  BY <1>2, <1>4, JudgedType
<1>8. ASSUME NEW w \in {"advance", "close_stream"}, call'.await = w, outcome' = "running",
             \A f \in {"open_in", "closed", "per_unit"} : eng'[f] = j[f],
             w = "close_stream" /\ ResultOf(eng, u).passed => Remaining(eng) <= 0,
             NewUnit(u)
      PROVE  PlayInv'
  <2>1. eng'.open_in = eng.open_in /\ eng'.closed = eng.closed /\ ~eng.closed
    BY <1>7, <1>8 DEF NewUnit, Accepting
  <2>2. Keeping(eng', w, proc.open_in, proc.units, n + 1)
    BY <1>1, <1>2, <1>4, <1>8, <2>1, KeepingJudged
  <2> QED
    BY <1>3, <1>8, <2>2, PlayWaits
<1>9. CASE AdvancePass(u)
  <2>1. eng' = Ticked(j) /\ call'.await = "advance" /\ outcome' = "running" /\ NewUnit(u)
    BY <1>9 DEF AdvancePass, Decided, Suspends, NoCall
  <2>2. \A f \in {"open_in", "closed", "per_unit"} : Ticked(j)[f] = j[f]
    BY <1>7 DEF Ticked, EngineRecord
  <2> HIDE DEF j, u
  <2> QED
    BY <1>8, <2>1, <2>2
<1>10. CASE AdvanceCapReached(u) \/ AdvanceFail(u)
  <2>1. /\ eng' = j /\ call'.await = "close_stream" /\ outcome' = "running" /\ NewUnit(u)
        /\ ResultOf(eng, u).passed => Remaining(eng) <= 0
    <3>1. CASE AdvanceCapReached(u)
      BY <3>1 DEF AdvanceCapReached, Decided, Suspends, NoCall
    <3>2. CASE AdvanceFail(u)
      BY <3>2 DEF AdvanceFail, Decided, Suspends, NoCall
    <3> QED
      BY <1>10, <3>1, <3>2
  <2> HIDE DEF j, u
  <2> QED
    BY <1>8, <2>1
<1> QED
  BY <1>5, <1>6, <1>9, <1>10 DEF PlayUnit, Advance

\* The run closes its session.
LEMMA PlayCloseStep ==
  ASSUME TypeOK, ScriptInv, PlayInv, DOMAIN proc = ProcFields, PlayClose
  PROVE  PlayInv'
<1>1. /\ proc.done = 3 /\ proc'.done = 4 /\ proc'.done \in 1 .. 4
      /\ proc'.open_in = proc.open_in /\ proc'.units = proc.units
      /\ outcome = "ok" /\ IsOpened(eng) /\ Idle
  BY CalledFields DEF PlayClose, ScriptInv, Delivery, PlayInv
<1>2. Keeping(eng, "none", proc.open_in, proc.units, 3)
  BY <1>1, PlayKeeps DEF Idle
<1>3. CASE CloseBegin
  <2>1. eng' = eng /\ call'.await = "close_stream" /\ outcome' = "running"
    BY <1>3 DEF CloseBegin, Suspends, NoCall
  <2>2. Keeping(eng, "close_stream", proc.open_in, proc.units, 4)
    BY <1>2, KeepingClose DEF Stopping
  <2> QED
    BY <1>1, <2>1, <2>2, PlayWaits
<1>4. CASE CloseAgain
  <2>1. eng' = eng /\ eng.closed /\ Returns
    BY <1>4 DEF CloseAgain
  <2>2. Stopping(eng, "none")
    BY <2>1, Zenon DEF Stopping
  <2>3. Keeping(eng, "none", proc.open_in, proc.units, 4)
    BY <1>2, <2>2, KeepingClose
  <2> QED
    BY <1>1, <2>1, <2>3, PlayAnswered
<1> QED
  BY <1>3, <1>4 DEF PlayClose

\* The method in progress goes on.
LEMMA PlayOnStep ==
  ASSUME TypeOK, MeterInv, PlayInv, Resume, UNCHANGED proc
  PROVE  PlayInv'
<1>1. ~Idle /\ outcome = "running" /\ call \in Call /\ eng \in EngineRecord(OpenInputs)
  BY DEF Resume, OpenResume, PluginAdvance, AdvanceResume, PluginClose, CloseResume, Idle,
         PlayInv, TypeOK, Engine
<1>2. CASE OpenResume
  <2> DEFINE o == proc.open_in
  <2>1. /\ call.open_in = o /\ proc.done = 1 /\ o \in OpenInputs /\ o # Null
        /\ eng' = Opened(eng, o) /\ Returns
        /\ ~IsOpened(eng)
    BY <1>2 DEF OpenResume, PlayInv, TypeOK, Call, IsOpened
  <2>2. ~eng.closed /\ eng.per_unit = <<>>
    BY <2>1 DEF MeterInv
  <2>3. Keeping(Opened(eng, o), "none", o, proc.units, 1)
    BY <1>1, <2>1, <2>2, KeepingOpened
  <2>4. eng'.open_in = o
    BY <2>1, <2>3 DEF Keeping
  <2> QED
    BY <2>1, <2>3, <2>4, PlayAnswered DEF IsOpened
<1> DEFINE w == call.await
<1>x. ASSUME w \in {"advance", "drained", "close_stream", "receipt"}
      PROVE  /\ IsOpened(eng) /\ proc.done \in 1 .. 4 /\ proc'.done \in 1 .. 4
             /\ Keeping(eng, w, proc'.open_in, proc'.units, proc'.done)
             /\ eng.open_in \in OpenInputs
             /\ call.seq \in Nat /\ call.amount \in Int /\ call.reason \in CloseReason
  <2>1. IsOpened(eng) /\ eng.open_in \in OpenInputs
    BY <1>1, <1>x DEF TypeOK, IsOpened, EngineRecord
  <2> QED
    BY <1>1, <2>1, PlayKeeps DEF Call
<1>a. OpenInputs \in SUBSET SettleOpenIn
  BY InputAssumption
<1>3. CASE PluginAdvance
  <2>1. w = "advance" /\ call'.await = "drained" /\ outcome' = "running"
    BY <1>1, <1>3 DEF PluginAdvance, Call
  <2>2. \A f \in {"open_in", "per_unit", "closed"} : eng'[f] = eng[f]
    BY <1>1, <1>3 DEF PluginAdvance, EngineRecord
  <2>3. Keeping(eng', "drained", proc'.open_in, proc'.units, proc'.done)
    BY <1>x, <2>1, <2>2, KeepingFields DEF Stopping
  <2> QED
    BY <1>x, <2>1, <2>3, PlayWaits
<1>4. CASE AdvanceResume
  <2>1. w = "drained" /\ Returns /\ eng' = Billed(eng, call.seq, call.amount)
    BY <1>4 DEF AdvanceResume
  <2>2. \A f \in {"open_in", "per_unit", "closed"} : eng'[f] = eng[f]
    BY <1>1, <1>a, <1>x, <2>1, BilledType
  <2>3. Keeping(eng', "none", proc'.open_in, proc'.units, proc'.done)
    BY <1>x, <2>1, <2>2, KeepingFields DEF Stopping
  <2> QED
    BY <1>x, <2>1, <2>2, <2>3, PlayAnswered DEF IsOpened
<1>5. CASE PluginClose
  <2>1. PICK p : /\ eng' = [eng EXCEPT !.plugin = p]
                 /\ call' = [call EXCEPT !.await = "receipt", !.amount = p.drained]
    BY <1>5 DEF PluginClose
  <2>2. w = "close_stream" /\ call'.await = "receipt" /\ outcome' = "running"
    BY <1>1, <1>5, <2>1 DEF PluginClose, Call
  <2>3. \A f \in {"open_in", "per_unit", "closed"} : eng'[f] = eng[f]
    BY <1>1, <2>1 DEF EngineRecord
  <2>4. Keeping(eng', "receipt", proc'.open_in, proc'.units, proc'.done)
    BY <1>x, <2>2, <2>3, KeepingFields DEF Stopping
  <2> QED
    BY <1>x, <2>2, <2>4, PlayWaits
<1>6. CASE CloseResume
  <2>1. w = "receipt" /\ Returns /\ eng' = ClosedWith(eng, call.seq, call.amount, call.reason)
    BY <1>6 DEF CloseResume
  <2>2. eng'.closed /\ \A f \in {"open_in", "per_unit"} : eng'[f] = eng[f]
    BY <1>1, <1>a, <1>x, <2>1, ClosedWithType
  <2>3. Stopping(eng', "none") /\ Stopping(eng, w)
    <3>1. Stopping(eng', "none")
      BY <2>2, Zenon DEF Stopping
    <3>2. Stopping(eng, w)
      BY <2>1 DEF Stopping
    <3> QED
      BY <3>1, <3>2
  <2>4. Keeping(eng', "none", proc'.open_in, proc'.units, proc'.done)
    BY <1>x, <2>1, <2>2, <2>3, KeepingFields
  <2> QED
    BY <1>x, <2>1, <2>2, <2>4, PlayAnswered DEF IsOpened
<1> QED
  BY <1>2, <1>3, <1>4, <1>5, <1>6 DEF Resume

---------------------------------------------------------------------------------
(***************************************************************************)
(* What is played.                                                         *)
(***************************************************************************)

\* Two artifacts make a delivery.
LEMMA DeliveryOfTwo ==
  ASSUME NEW c0 \in Chunk, NEW c1 \in Chunk
  PROVE  /\ Delivery(<<Artifact(0, c0), Artifact(1, c1)>>)
         /\ <<Artifact(0, c0), Artifact(1, c1)>>[1] = Artifact(0, c0)
         /\ <<Artifact(0, c0), Artifact(1, c1)>>[2] = Artifact(1, c1)
<1>1. /\ Artifact(0, c0) \in ScriptUnit /\ Artifact(1, c1) \in ScriptUnit
      /\ Artifact(0, c0).seq = 0 /\ Artifact(1, c1).seq = 1
  BY DEF Artifact, ScriptUnit, Digest
<1> QED
  BY <1>1 DEF Delivery

\* The second item of a delivery may be replaced.
LEMMA DeliveryReplaced ==
  ASSUME NEW f, Delivery(f), NEW u \in ScriptUnit, u.seq = 1
  PROVE  /\ Last(f) = f[2]
         /\ Delivery(Append(Front(f), u))
         /\ Append(Front(f), u)[1] = f[1] /\ Append(Front(f), u)[2] = u
<1>1. f \in Seq(ScriptUnit) /\ Len(f) = 2 /\ 1 \in 1 .. Len(f) /\ f[1] \in ScriptUnit /\ f[1].seq = 0
  <2>1. f \in Seq(ScriptUnit) /\ Len(f) = 2 /\ 1 \in 1 .. Len(f) /\ f[1].seq = 0
    BY DEF Delivery
  <2> QED
    BY <2>1
<1> DEFINE g == Front(f)
<1>2. g \in Seq(ScriptUnit) /\ Len(g) = 1 /\ g[1] = f[1]
  <2>1. g = SubSeq(f, 1, 1)
    BY <1>1 DEF Front
  <2>2. /\ SubSeq(f, 1, 1) \in Seq(ScriptUnit) /\ Len(SubSeq(f, 1, 1)) = 1
        /\ SubSeq(f, 1, 1)[1] = f[1]
    BY <1>1
  <2> QED
    BY <2>1, <2>2
<1> HIDE DEF g
<1>3. /\ Append(g, u) \in Seq(ScriptUnit) /\ Len(Append(g, u)) = 2
      /\ Append(g, u)[1] = f[1] /\ Append(g, u)[2] = u
  <2>1. ASSUME NEW S, NEW x \in S, NEW h \in Seq(S)
        PROVE  /\ Append(h, x) \in Seq(S) /\ Len(Append(h, x)) = Len(h) + 1
               /\ \A i \in 1 .. Len(h) : Append(h, x)[i] = h[i]
               /\ Append(h, x)[Len(h) + 1] = x
    OBVIOUS
  <2>2. /\ Append(g, u) \in Seq(ScriptUnit) /\ Len(Append(g, u)) = Len(g) + 1
        /\ \A i \in 1 .. Len(g) : Append(g, u)[i] = g[i]
        /\ Append(g, u)[Len(g) + 1] = u
    BY <1>2, <2>1
  <2>3. Len(g) + 1 = 2 /\ 1 \in 1 .. Len(g)
    BY <1>2
  <2> QED
    BY <1>2, <2>2, <2>3
<1>4. Last(f) = f[2]
  BY <1>1 DEF Last
<1> QED
  BY <1>1, <1>3, <1>4 DEF Delivery, g

\* A scenario's bodies are bytes.
LEMMA ScenarioChunks ==
  ASSUME NEW s \in Scenarios
  PROVE  /\ s[1] \in Chunk /\ s[2] \in Chunk /\ s[3] \in Chunk /\ s[3] # s[2]
         /\ \A i \in 1 .. 3 : s[i] \notin Edits /\ DemoRef \in Embedded[s[i]]
         /\ Delivery(Fixtures(s).good) /\ Delivery(Fixtures(s).bad)
         /\ Fixtures(s).committed = Commitment(s[1], s[2])
<1>1. /\ s[1] \in Chunk /\ s[2] \in Chunk /\ s[3] \in Chunk /\ s[3] # s[2]
      /\ \A i \in 1 .. 3 : s[i] \notin Edits /\ DemoRef \in Embedded[s[i]]
  BY DemoAssumption
<1>2. /\ Delivery(<<Artifact(0, s[1]), Artifact(1, s[2])>>)
      /\ Delivery(<<Artifact(0, s[1]), Artifact(1, s[3])>>)
  BY <1>1, DeliveryOfTwo
<1> QED
  BY <1>1, <1>2 DEF Fixtures

\* What a case delivers, when its file can be read.
LEMMA UnitsDelivered ==
  ASSUME DiskInv, NEW case \in Smoke, ~Unreadable(DeliveryOf(case))
  PROVE  Delivery(UnitsOf(case))
<1>1. Delivery(DeliveryOf(case))
  BY DEF DiskInv, DeliveryOf
<1>2. CASE case = "l2"
  <2>1. DeliveryOf(case)[2] \in ScriptUnit /\ DeliveryOf(case)[2].seq = 1
    BY <1>1, ScriptUnits DEF Delivery
  <2>2. /\ CorruptL2(DeliveryOf(case)[2]) \in ScriptUnit
        /\ CorruptL2(DeliveryOf(case)[2]).seq = 1
    BY <2>1, DemoAssumption DEF CorruptL2, ScriptUnit
  <2>3. Last(DeliveryOf(case)) = DeliveryOf(case)[2]
    BY <1>1, <2>2, DeliveryReplaced
  <2> QED
    BY <1>1, <1>2, <2>2, <2>3, DeliveryReplaced DEF UnitsOf
<1>3. CASE case # "l2"
  BY <1>1, <1>3 DEF UnitsOf
<1> QED
  BY <1>2, <1>3

\* A run that starts has its script, and an engine of its own.
LEMMA PlaysStarts ==
  ASSUME NEW case \in Smoke \cup Demo, NEW o, NEW units, Plays(case, o, units)
  PROVE  /\ DOMAIN proc' = ProcFields
         /\ proc'.stage = "playing" /\ proc'.exit = "none" /\ proc'.done = 0
         /\ proc'.case = case /\ proc'.open_in = o /\ proc'.units = units
         /\ PlayInv'
<1>1. /\ DOMAIN proc' = ProcFields
      /\ proc'.stage = "playing" /\ proc'.exit = "none" /\ proc'.done = 0
      /\ proc'.case = case /\ proc'.open_in = o /\ proc'.units = units
  BY DEF Plays, NewRun, ProcFields
<1> QED
  BY <1>1 DEF Plays, PlayInv, NewEngine, NoCall, IsOpened, Idle

\* A run of the smoke program starts or fails.
LEMMA StartSmokeStep ==
  ASSUME DemoInv, NEW case \in Smoke, NEW over \in Overrides, StartSmoke(case, over)
  PROVE  DemoInv'
<1>1. DiskInv' /\ UNCHANGED disk
  BY DEF StartSmoke, DemoInv, DiskInv
<1>2. ASSUME NEW exit \in {"missing fixtures", "traceback", "fixture broken"}, Fails(case, exit)
      PROVE  DemoInv'
  <2>1. /\ DOMAIN proc' = ProcFields /\ proc'.stage = "ended" /\ proc'.exit = exit
        /\ proc'.case = case
    BY <1>2 DEF Fails, NewRun, ProcFields
  <2> QED
    BY <1>1, <1>2, <2>1 DEF DemoInv, ProcInv, Reported
<1>3. ASSUME ~Unreadable(disk.committed), ~Unreadable(DeliveryOf(case)),
             Plays(case, LoadOpen(over), UnitsOf(case)),
             case = "good" => GoodFixtureHolds(LoadOpen(over), UnitsOf(case))
      PROVE  DemoInv'
  <2> DEFINE o == LoadOpen(over)
             units == UnitsOf(case)
  <2>1. PICK s \in Scenarios : disk.committed = Commitment(s[1], s[2])
    BY <1>3 DEF DemoInv, DiskInv
  <2>2. /\ o \in OpenInputs /\ o.ref = DemoRef
        /\ o.committed_reference = Commitment(s[1], s[2]).committed_reference
    <3>1. o = Overridden(Commitment(s[1], s[2]), over)
      BY <2>1 DEF LoadOpen
    <3>2. o \in OpenInputs
      BY <3>1, ScriptAssumption
    <3>3. /\ o.ref = Commitment(s[1], s[2]).ref
          /\ o.committed_reference = Commitment(s[1], s[2]).committed_reference
      BY <3>1 DEF Overridden, Commitment
    <3> QED
      BY <3>2, <3>3 DEF Commitment
  <2>3. Delivery(units)
    BY <1>3, UnitsDelivered DEF DemoInv
  <2>4. /\ DOMAIN proc' = ProcFields
        /\ proc'.stage = "playing" /\ proc'.exit = "none" /\ proc'.done = 0
        /\ proc'.case = case /\ proc'.open_in = o /\ proc'.units = units
        /\ PlayInv'
    BY <1>3, PlaysStarts
  <2>5. UNCHANGED UnitsOf(case) /\ case \notin Demo
    BY <1>1 DEF UnitsOf, DeliveryOf, Smoke, Demo
  <2> HIDE DEF o, units
  <2>6. case = "good" => GoodFixtureHolds(o, units)
    BY <1>3 DEF o, units
  <2>7. ScriptInv'
    <3>1. proc'.case \in {"l3", "l2"} => units = UnitsOf(case)'
      BY <2>5 DEF units
    <3> QED
      BY <1>1, <2>1, <2>2, <2>3, <2>4, <2>5, <2>6, <3>1 DEF ScriptInv
  <2> QED
    BY <1>1, <2>4, <2>7 DEF DemoInv, ProcInv, Reported
<1> QED
  BY <1>2, <1>3 DEF StartSmoke

\* The service's demonstration starts.
LEMMA StartDemoStep ==
  ASSUME DemoInv, NEW case \in Demo, StartDemo(case)
  PROVE  DemoInv'
<1> DEFINE s == scenario
           c == IF case = "demo-good" THEN s[2] ELSE s[3]
           o == Commitment(s[1], s[2])
<1>1. DiskInv' /\ UNCHANGED disk /\ s \in Scenarios
  BY DEF StartDemo, DemoInv, DiskInv
<1>2. s[1] \in Chunk /\ c \in Chunk
  BY <1>1, ScenarioChunks
<1>3. /\ Delivery(DemoUnits(case))
      /\ DemoUnits(case)[1] = Artifact(0, s[1]) /\ DemoUnits(case)[2] = Artifact(1, c)
  BY <1>2, DeliveryOfTwo DEF DemoUnits
<1>4. /\ DOMAIN proc' = ProcFields
      /\ proc'.stage = "playing" /\ proc'.exit = "none" /\ proc'.done = 0
      /\ proc'.case = case /\ proc'.open_in = o /\ proc'.units = DemoUnits(case)
      /\ PlayInv'
  BY PlaysStarts DEF StartDemo
<1>5. o \in OpenInputs /\ o.ref = DemoRef
  BY <1>1, ScriptAssumption DEF Commitment
<1>6. case \notin {"good", "l3", "l2"} /\ case \in Smoke \cup Demo
  BY DEF Demo
<1> HIDE DEF s, c, o
<1>7. ScriptInv'
  <2>1. /\ proc'.open_in = o /\ o = Commitment(s[1], s[2])
        /\ proc'.units[1] = Artifact(0, s[1])
        /\ proc'.units[2] = Artifact(1, IF proc'.case = "demo-good" THEN s[2] ELSE s[3])
    BY <1>3, <1>4 DEF o, c
  <2> QED
    BY <1>1, <1>3, <1>4, <1>5, <1>6, <2>1 DEF ScriptInv
<1> QED
  BY <1>1, <1>4, <1>6, <1>7 DEF DemoInv, ProcInv, Reported

\* While it plays, its script and the fixtures stay.
LEMMA PlayStep ==
  ASSUME TypeOK, MeterInv, DemoInv, PlayOpen \/ PlayUnit \/ PlayClose \/ PlayOn
  PROVE  DemoInv'
<1>1. /\ proc.stage = "playing" /\ proc.exit = "none" /\ DOMAIN proc = ProcFields
      /\ ScriptInv /\ PlayInv /\ proc.case \in Smoke \cup Demo
  BY DEF PlayOpen, PlayUnit, PlayClose, PlayOn, Playing, DemoInv, ProcInv
<1>2. /\ UNCHANGED <<scenario, disk>> /\ DOMAIN proc' = ProcFields
      /\ \A f \in {"stage", "case", "open_in", "units", "exit"} : proc'[f] = proc[f]
  <2>1. CASE Called
    BY <1>1, <2>1, CalledFields
  <2>2. CASE UNCHANGED <<scenario, disk, proc>>
    BY <1>1, <2>2
  <2> QED
    BY <2>1, <2>2 DEF PlayOpen, PlayUnit, PlayClose, PlayOn
<1>3. PlayInv'
  BY <1>1, PlayOpenStep, PlayUnitStep, PlayCloseStep, PlayOnStep DEF PlayOn
<1>4. DiskInv'
  BY <1>2 DEF DemoInv, DiskInv
<1>5. UNCHANGED UnitsOf(proc.case)
  BY <1>2 DEF UnitsOf, DeliveryOf
<1>6. ScriptInv'
  BY <1>1, <1>2, <1>5 DEF ScriptInv
<1> QED
  BY <1>1, <1>2, <1>3, <1>4, <1>6 DEF DemoInv, ProcInv, Reported

\* A run that ends reports what its engine answered last.
LEMMA EndStep ==
  ASSUME DemoInv, PlayFails \/ PlayEnds
  PROVE  DemoInv'
<1>1. /\ proc.stage = "playing" /\ DOMAIN proc = ProcFields
      /\ ScriptInv /\ PlayInv /\ proc.case \in Smoke \cup Demo
      /\ UNCHANGED <<vars, scenario, disk>>
  BY DEF PlayFails, PlayEnds, Playing, DemoInv, ProcInv
<1>2. ASSUME NEW exit, Ends(exit)
      PROVE  /\ DOMAIN proc' = ProcFields /\ proc'.stage = "ended" /\ proc'.exit = exit
             /\ \A f \in {"case", "open_in", "units", "done"} : proc'[f] = proc[f]
  BY <1>1, <1>2 DEF Ends, ProcFields
<1>3. DiskInv'
  BY <1>1 DEF DemoInv, DiskInv
<1>4. CASE PlayFails
  <2>1. Ends("traceback")
    BY <1>4 DEF PlayFails
  <2> QED
    BY <1>1, <1>2, <1>3, <2>1 DEF DemoInv, ProcInv, Reported
<1>5. CASE PlayEnds
  <2> DEFINE exit == IF proc.case \in Demo THEN "answered"
                     ELSE IF ExpectedOk THEN "OK" ELSE "UNEXPECTED"
  <2>1. Idle /\ outcome = "ok" /\ proc.done = 4 /\ Ends(exit)
    BY <1>1, <1>5 DEF PlayEnds, ScriptInv, Delivery
  <2>2. /\ DOMAIN proc' = ProcFields /\ proc'.stage = "ended" /\ proc'.exit = exit
        /\ \A f \in {"case", "open_in", "units", "done"} : proc'[f] = proc[f]
    BY <1>2, <2>1
  <2> HIDE DEF exit
  <2>3. UNCHANGED <<UnitsOf(proc.case), eng, call, outcome, out>>
    BY <1>1, <2>2 DEF UnitsOf, DeliveryOf, vars
  <2>4. ScriptInv'
    BY <1>1, <2>2, <2>3 DEF ScriptInv
  <2>5. PlayInv'
    BY <1>1, <2>2, <2>3 DEF PlayInv, Idle
  <2>6. ExpectedOk' <=> ExpectedOk
    BY <2>2, <2>3 DEF ExpectedOk
  <2>7. Idle' /\ outcome' = "ok" /\ proc'.done = 4
    BY <2>1, <2>2, <2>3 DEF Idle
  <2>8. /\ exit = "answered" <=> proc.case \in Demo
        /\ exit = "OK" => ExpectedOk
        /\ exit = "UNEXPECTED" => ~ExpectedOk
    BY DEF exit
  <2> QED
    BY <1>1, <1>3, <2>2, <2>4, <2>5, <2>6, <2>7, <2>8 DEF DemoInv, ProcInv
<1> QED
  BY <1>4, <1>5

\* Whatever happens to the fixtures between runs, a file is one of its kind.
LEMMA BetweenStep ==
  ASSUME DemoInv, RegenStarts \/ Regen \/ RegenKilled \/ EditGood
  PROVE  DemoInv'
<1>1. DOMAIN proc = ProcFields /\ proc.case \in Smoke \cup Demo /\ DiskInv
  BY DEF DemoInv, ProcInv
<1>2. ASSUME DOMAIN proc' = ProcFields, proc'.case \in Smoke \cup Demo, DiskInv',
             \/ proc'.stage = "regen" /\ proc'.done \in 0 .. 3 /\ proc'.exit = "none"
             \/ proc'.stage = "idle" /\ proc'.exit = "none"
             \/ proc'.stage = "ended" /\ proc'.exit \in {"regenerated", "killed"}
      PROVE  DemoInv'
  BY <1>2 DEF DemoInv, ProcInv, Reported
<1>3. ASSUME NEW exit \in {"regenerated", "killed"}, Ends(exit), DiskInv' PROVE DemoInv'
  <2>1. /\ DOMAIN proc' = ProcFields /\ proc'.stage = "ended" /\ proc'.exit = exit
        /\ proc'.case = proc.case
    BY <1>1, <1>3 DEF Ends, ProcFields
  <2> QED
    BY <1>1, <1>2, <1>3, <2>1
<1>4. CASE RegenStarts
  <2>1. /\ DOMAIN proc' = ProcFields /\ proc'.stage = "regen" /\ proc'.exit = "none"
        /\ proc'.case = "good" /\ proc'.done = 0
    BY <1>4 DEF RegenStarts, NewRun, ProcFields
  <2>2. DiskInv'
    BY <1>1, <1>4 DEF RegenStarts, DiskInv
  <2> QED
    BY <1>2, <2>1, <2>2 DEF Smoke
<1>w. ASSUME NEW file \in {"committed", "good", "bad"},
             NEW x \in {Torn, Fixtures(scenario)[file]},
             disk' = [disk EXCEPT ![file] = x], UNCHANGED scenario
      PROVE  DiskInv'
  <2>1. scenario \in Scenarios /\ DOMAIN disk = {"committed", "good", "bad"}
    BY <1>1 DEF DiskInv
  <2>2. /\ DOMAIN disk' = {"committed", "good", "bad"} /\ disk'[file] = x
        /\ \A g \in {"committed", "good", "bad"} \ {file} : disk'[g] = disk[g]
    BY <1>w, <2>1
  <2>3. Unreadable(Torn)
    BY DEF Unreadable
  <2>4. /\ Delivery(Fixtures(scenario).good) /\ Delivery(Fixtures(scenario).bad)
        /\ Fixtures(scenario).committed = Commitment(scenario[1], scenario[2])
    BY <2>1, ScenarioChunks
  <2> HIDE DEF DiskInv
  <2>5. CASE file = "committed"
    BY <1>1, <1>w, <2>1, <2>2, <2>3, <2>4, <2>5 DEF DiskInv
  <2>6. CASE file = "good"
    BY <1>1, <1>w, <2>1, <2>2, <2>3, <2>4, <2>6 DEF DiskInv
  <2>7. CASE file = "bad"
    BY <1>1, <1>w, <2>1, <2>2, <2>3, <2>4, <2>7 DEF DiskInv
  <2> QED
    BY <2>5, <2>6, <2>7
<1>f. ASSUME NEW n \in 0 .. 3, n < 3 PROVE Files[n + 1] \in {"committed", "good", "bad"}
  BY <1>f DEF Files
<1>5. CASE RegenWrites
  <2>1. proc.stage = "regen" /\ proc.done \in 0 .. 3 /\ proc.done < 3 /\ proc.exit = "none"
    BY <1>5 DEF RegenWrites, DemoInv, ProcInv
  <2>2. DiskInv'
    BY <1>5, <1>f, <1>w, <2>1 DEF RegenWrites
  <2>3. /\ DOMAIN proc' = ProcFields /\ proc'.stage = "regen" /\ proc'.exit = "none"
        /\ proc'.case = proc.case /\ proc'.done = proc.done + 1
    BY <1>1, <1>5, <2>1 DEF RegenWrites, ProcFields
  <2> QED
    BY <1>1, <1>2, <2>1, <2>2, <2>3
<1>6. CASE RegenEnds
  BY <1>1, <1>3, <1>6 DEF RegenEnds, DiskInv
<1>7. CASE RegenKilled
  <2>1. proc.done \in 0 .. 3 /\ Ends("killed") /\ UNCHANGED scenario
    BY <1>7 DEF RegenKilled, DemoInv, ProcInv
  <2>2. CASE UNCHANGED disk
    BY <1>1, <1>3, <2>1, <2>2 DEF DiskInv
  <2>3. CASE proc.done < 3 /\ disk' = [disk EXCEPT ![Files[proc.done + 1]] = Torn]
    BY <1>3, <1>f, <1>w, <2>1, <2>3
  <2> QED
    BY <1>7, <2>2, <2>3 DEF RegenKilled
<1>8. CASE EditGood
  <2>1. Delivery(disk.good) /\ UNCHANGED scenario
    BY <1>1, <1>8 DEF EditGood, DiskInv
  <2>2. disk.good[2] \in ScriptUnit /\ disk.good[2].seq = 1
    BY <2>1, ScriptUnits DEF Delivery
  <2>3. Last(disk.good) = disk.good[2]
    BY <2>1, <2>2, DeliveryReplaced
  <2> DEFINE edited(chunk) == [Last(disk.good) EXCEPT !.chunk = chunk]
  <2>4. PICK chunk \in Edits :
          \E unit \in {edited(chunk), Artifact(edited(chunk).seq, chunk)} :
            disk' = [disk EXCEPT !.good = Append(Front(disk.good), unit)]
    BY <1>8 DEF EditGood
  <2>5. chunk \in Chunk
    BY DemoAssumption
  <2>6. /\ edited(chunk) \in ScriptUnit /\ edited(chunk).seq = 1
        /\ Artifact(1, chunk) \in ScriptUnit /\ Artifact(1, chunk).seq = 1
    BY <2>2, <2>3, <2>5 DEF ScriptUnit, Artifact, Digest
  <2>7. PICK unit \in ScriptUnit :
          unit.seq = 1 /\ disk' = [disk EXCEPT !.good = Append(Front(disk.good), unit)]
    BY <2>4, <2>6
  <2>8. Delivery(Append(Front(disk.good), unit))
    BY <2>1, <2>7, DeliveryReplaced
  <2>9. DiskInv'
    BY <1>1, <2>1, <2>7, <2>8 DEF DiskInv
  <2>10. /\ DOMAIN proc' = ProcFields /\ proc'.stage = "idle" /\ proc'.exit = "none"
         /\ proc'.case = "good"
    BY <1>8 DEF EditGood, NewRun, ProcFields
  <2> QED
    BY <1>2, <2>9, <2>10 DEF Smoke
<1> QED
  BY <1>4, <1>5, <1>6, <1>7, <1>8 DEF Regen

\* Nothing a report depends on moves with the scenario.
LEMMA StillStep ==
  ASSUME DemoInv, UNCHANGED <<vars, disk, proc>>, scenario' \in Scenarios
  PROVE  DemoInv'
<1>1. UNCHANGED <<eng, call, outcome, out>>
  BY DEF vars
<1>2. DiskInv'
  BY DEF DemoInv, DiskInv
<1>3. /\ UNCHANGED UnitsOf(proc.case) /\ (Reported' <=> Reported)
      /\ ExpectedOk' <=> ExpectedOk
      /\ Idle' <=> Idle
  BY <1>1 DEF UnitsOf, DeliveryOf, Reported, ExpectedOk, Idle
<1>4. ScriptInv => ScriptInv'
  BY <1>3 DEF ScriptInv
<1>5. PlayInv => PlayInv'
  BY <1>1, <1>3 DEF PlayInv
<1> QED
  BY <1>1, <1>2, <1>3, <1>4, <1>5 DEF DemoInv, ProcInv

---------------------------------------------------------------------------------
(***************************************************************************)
(* The invariant holds.                                                    *)
(***************************************************************************)

\* Every step of a demonstration is one the engine's own caller could have made it take,
\* or the start of a run, with a new engine.
LEMMA DemoIsEngine ==
  ASSUME DemoInv, [DemoNext]_demoVars
  PROVE  [Next]_vars \/ Init'
<1>1. CASE UNCHANGED vars
  BY <1>1
<1>2. ASSUME NEW case, NEW o, NEW units, Plays(case, o, units) PROVE Init'
  BY <1>2 DEF Plays, Init
<1>3. ASSUME NEW case \in Smoke, NEW over \in Overrides, StartSmoke(case, over)
      PROVE  UNCHANGED vars \/ Init'
  BY <1>2, <1>3 DEF StartSmoke, Fails
<1>4. ASSUME NEW case \in Demo, StartDemo(case) PROVE Init'
  BY <1>2, <1>4 DEF StartDemo
<1>5. ASSUME Playing
      PROVE  /\ proc.open_in \in OpenInputs
             /\ proc.done \in 1 .. Len(proc.units) => proc.units[proc.done] \in UnitInputs
  <2>1. proc.open_in \in OpenInputs /\ Delivery(proc.units)
    BY <1>5 DEF Playing, DemoInv, ProcInv, ScriptInv
  <2> QED
    BY <2>1, ScriptUnits DEF Delivery
<1>6. CASE PlayOpen
  BY <1>5, <1>6 DEF PlayOpen, Next
<1>7. CASE PlayUnit
  BY <1>5, <1>7 DEF PlayUnit, Next
<1>8. CASE PlayClose \/ PlayOn
  BY <1>8 DEF PlayClose, PlayOn, Next
<1>9. CASE PlayFails \/ PlayEnds \/ RegenStarts \/ Regen \/ RegenKilled \/ EditScenario \/ EditGood
  BY <1>1, <1>9 DEF PlayFails, PlayEnds, RegenStarts, Regen, RegenWrites, RegenEnds,
                    RegenKilled, EditScenario, EditGood
<1>10. CASE UNCHANGED demoVars
  BY <1>1, <1>10 DEF demoVars
<1> QED
  BY <1>1, <1>3, <1>4, <1>6, <1>7, <1>8, <1>9, <1>10 DEF DemoNext, Play

\* The inductive step of DemoInv.
LEMMA DemoStep ==
  ASSUME TypeOK, MeterInv, DemoInv, [DemoNext]_demoVars
  PROVE  DemoInv'
<1>1. CASE EditScenario
  BY <1>1, StillStep DEF EditScenario
<1>2. CASE UNCHANGED demoVars
  BY <1>2, StillStep DEF demoVars, DemoInv, DiskInv
<1> QED
  BY <1>1, <1>2, StartSmokeStep, StartDemoStep, PlayStep, EndStep, BetweenStep
     DEF DemoNext, Play

\* Before the first run there is nothing to report.
LEMMA DemoStart == DemoInit => DemoInv
<1> SUFFICES ASSUME DemoInit PROVE DemoInv
  OBVIOUS
<1>1. /\ DOMAIN proc = ProcFields /\ proc.stage = "idle" /\ proc.exit = "none"
      /\ proc.case \in Smoke
  BY DEF DemoInit, NewRun, ProcFields, Smoke
<1>2. scenario \in Scenarios /\ disk \in {NoFixtures, Fixtures(scenario)}
  BY DEF DemoInit
<1>3. DiskInv
  <2>1. CASE disk = NoFixtures
    BY <1>2, <2>1 DEF NoFixtures, DiskInv, Unreadable
  <2>2. CASE disk = Fixtures(scenario)
    <3>1. DOMAIN disk = {"committed", "good", "bad"}
      BY <2>2 DEF Fixtures
    <3> QED
      BY <1>2, <2>2, <3>1, ScenarioChunks DEF DiskInv
  <2> QED
    BY <1>2, <2>1, <2>2
<1> QED
  BY <1>1, <1>3 DEF DemoInv, ProcInv, Reported

\* The engine of a demonstration is in a state some caller of SettlementEngine can bring
\* it to, and it has got as far with its script as DemoInv says.
THEOREM DemoCorrect == DemoSpec => [](TypeOK /\ MeterInv /\ DemoInv)
<1>1. DemoInit => Init
  BY DEF DemoInit
<1>2. TypeOK /\ MeterInv /\ DemoInv /\ [DemoNext]_demoVars => DemoInv'
  BY DemoStep
<1>3. DemoInv /\ [DemoNext]_demoVars => [Next]_vars \/ Init'
  BY DemoIsEngine
<1> QED
  BY <1>1, <1>2, <1>3, DemoStart, TypeInit, MeterInit, TypeStep, MeterStep, PTL DEF DemoSpec

---------------------------------------------------------------------------------
(***************************************************************************)
(* What the runs show.                                                     *)
(***************************************************************************)

\* Against a commitment to s, a unit passes if and only if its checksum is honest and it is
\* the artifact committed to; the reason says which of the two it is not.
LEMMA VerdictOnScript ==
  ASSUME NEW s \in Scenarios, NEW o, o.ref = DemoRef,
         o.committed_reference = Commitment(s[1], s[2]).committed_reference,
         NEW u \in ScriptUnit
  PROVE  LET v == VerdictOn(o, u)
             promised == IF u.seq = 0 THEN s[1] ELSE s[2]
             honest == u.declared_checksum = Digest("sha256", u.chunk)
         IN  /\ Passed(v) <=> honest /\ u.chunk = promised
             /\ ~honest => v.reason = "checksum-mismatch"
             /\ honest /\ u.chunk # promised => v.reason = "artifact-mismatch"
<1> DEFINE e == [open_in |-> o]
           v == VerdictOn(o, u)
           promised == IF u.seq = 0 THEN s[1] ELSE s[2]
           honest == u.declared_checksum = Digest("sha256", u.chunk)
           expected == o.committed_reference.expected
           x == ExpectedFor(e, u)
           r == ResultOf(e, u)
<1>1. /\ u.seq \in {0, 1} /\ u.chunk \in Chunk
      /\ s[1] \in Chunk /\ s[2] \in Chunk
      /\ DemoRef \in Embedded[s[1]] /\ DemoRef \in Embedded[s[2]]
      /\ DemoRef # Null
  BY ScenarioChunks, DemoAssumption, NullAssumption DEF ScriptUnit
<1>2. u.declared_checksum # Null
  <2>1. u.declared_checksum \in {"sha256"} \X Chunk
    BY DEF ScriptUnit
  <2> QED
    BY <2>1, NullAssumption DEF AlgorithmsAvailable, Sha256SizedAlgos
<1>3. \A c \in Chunk : Digest("sha256", c) # Null
  BY NullAssumption DEF Digest, AlgorithmsAvailable, Sha256SizedAlgos
<1>4. /\ CriterionOf(e) = "artifact_match"
      /\ expected = [seq \in {0, 1} |-> Digest("sha256", IF seq = 0 THEN s[1] ELSE s[2])]
  BY DEF CriterionOf, Commitment
<1>5. DOMAIN expected = {0, 1} /\ expected[0] = Digest("sha256", s[1])
      /\ expected[1] = Digest("sha256", s[2])
  BY <1>4
<1>6. x = Digest("sha256", promised)
  BY <1>1, <1>4, <1>5 DEF ExpectedFor, CriterionOf
<1>7. promised \in Chunk /\ DemoRef \in Embedded[promised] /\ x # Null
  BY <1>1, <1>3, <1>6
<1>8. Digest("sha256", u.chunk) = x <=> u.chunk = promised
  BY <1>6 DEF Digest
<1> HIDE DEF x, promised, honest, expected
<1>9. r = EvaluateUnit(ContextOf(u), "artifact_match", x, DemoRef, "sha256")
  BY <1>4, ScriptAssumption DEF ResultOf, x
<1>10. r = IF ~honest THEN GateResult(FALSE, "checksum-mismatch")
           ELSE IF u.chunk = promised THEN GateResult(TRUE, "artifact-match")
           ELSE GateResult(FALSE, "artifact-mismatch")
  BY <1>1, <1>2, <1>7, <1>8, <1>9
     DEF EvaluateUnit, ContextOf, L1Ack, L2Checksum, DigestHex, L3ArtifactMatch, honest
<1>11. /\ r.passed <=> honest /\ u.chunk = promised
       /\ ~honest => r.reason = "checksum-mismatch"
       /\ honest /\ u.chunk # promised => r.reason = "artifact-mismatch"
  BY <1>10 DEF GateResult
<1>12. v.reason = r.reason /\ (Passed(v) <=> r.passed)
  BY DEF VerdictOn, Passed
<1> QED
  BY <1>11, <1>12 DEF promised, honest

\* A run that has reported holds the answer to close(), and its account is settled.
LEMMA ReportedFacts ==
  ASSUME TypeOK, MeterInv, DemoInv, Reported
  PROVE  LET o == proc.open_in
         IN  /\ eng.closed /\ eng.per_unit \in Seq(PerUnit) /\ Len(eng.per_unit) <= 2
             /\ \A i \in 1 .. Len(eng.per_unit) : eng.per_unit[i] = VerdictOn(o, proc.units[i])
             /\ Len(eng.per_unit) < 2 => Refused(eng)
             /\ out.per_unit = eng.per_unit
             /\ o.rate \in Nat /\ o.max_total \in Nat
             /\ out.settled_total = Lesser(o.rate * Verified(eng), o.max_total)
             /\ out.remainder_unspent = o.max_total - out.settled_total
<1> DEFINE o == proc.open_in
<1>1. /\ ScriptInv /\ PlayInv /\ Idle /\ outcome = "ok" /\ proc.done = 4
      /\ IsOpened(eng) /\ out = Snapshot(eng)
  BY DEF DemoInv, ProcInv, PlayInv
<1>2. Keeping(eng, "none", o, proc.units, 4)
  BY <1>1, PlayKeeps DEF Idle
<1>3. /\ OnMeter(OpenInputs, eng, "none", 0) /\ eng.open_in = o
      /\ OpenInputs \in SUBSET SettleOpenIn
  BY <1>1, <1>2, IdleOnMeter, InputAssumption DEF Keeping
<1>4. Stopping(eng, "none") /\ eng.closed
  BY <1>2 DEF Keeping, Stopping
<1>5. /\ Len(eng.per_unit) <= 2
      /\ \A i \in 1 .. Len(eng.per_unit) : eng.per_unit[i] = VerdictOn(o, proc.units[i])
      /\ Len(eng.per_unit) < 2 => Refused(eng)
  BY <1>2 DEF Keeping, Delivered
<1>6. /\ o.rate \in Nat /\ o.max_total \in Nat /\ eng.per_unit \in Seq(PerUnit)
      /\ eng.settled = Lesser(o.rate * Verified(eng), o.max_total)
  BY <1>3, MeterNumbers DEF OnMeter, Metered, Settled, Due
<1>7. /\ out.per_unit = eng.per_unit /\ out.settled_total = eng.settled
      /\ out.remainder_unspent = o.max_total - eng.settled
  BY <1>1, <1>3 DEF Snapshot, Remaining
<1> QED
  BY <1>4, <1>5, <1>6, <1>7

\* When the first item passes, both have been judged.
LEMMA BothJudged ==
  ASSUME TypeOK, MeterInv, DemoInv, Reported, Passed(VerdictOn(proc.open_in, proc.units[1]))
  PROVE  LET second == VerdictOn(proc.open_in, proc.units[2])
         IN  /\ Len(out.per_unit) = 2 /\ DOMAIN out.per_unit = {1, 2}
             /\ Passed(out.per_unit[1]) /\ out.per_unit[2] = second
             /\ Verified(eng) = IF Passed(second) THEN 2 ELSE 1
<1> DEFINE vs == eng.per_unit
           k == Len(vs)
           second == VerdictOn(proc.open_in, proc.units[2])
<1>1. /\ out.per_unit = vs /\ vs \in Seq(PerUnit) /\ k \in Nat /\ k <= 2
      /\ \A i \in 1 .. k : vs[i] = VerdictOn(proc.open_in, proc.units[i])
      /\ k < 2 => Refused(eng)
  BY ReportedFacts
<1>2. k = 2
  <2>1. ASSUME k < 2 PROVE FALSE
    <3>1. PICK i \in DOMAIN vs : ~Passed(vs[i])
      BY <1>1, <2>1 DEF Refused
    <3>2. i = 1 /\ i \in 1 .. k
      BY <1>1, <2>1, <3>1
    <3> QED
      BY <1>1, <3>1, <3>2
  <2> HIDE DEF k
  <2>2. k \in Nat /\ k <= 2 /\ ~(k < 2)
    BY <1>1, <2>1 DEF k
  <2> QED
    BY <2>2
<1>3. DOMAIN vs = {1, 2} /\ Passed(vs[1]) /\ vs[2] = second
  BY <1>1, <1>2
<1> HIDE DEF vs, second
<1>4. {i \in DOMAIN vs : Passed(vs[i])} = IF Passed(second) THEN {1, 2} ELSE {1}
  BY <1>3
<1>5. Cardinality({1}) = 1 /\ Cardinality({1, 2}) = 2
  <2>1. IsFiniteSet({1}) /\ Cardinality({1}) = 1
    BY FS_Singleton
  <2>2. {1, 2} = {1} \cup {2} /\ 2 \notin {1}
    OBVIOUS
  <2> QED
    BY <2>1, <2>2, FS_AddElement
<1>6. Verified(eng) = IF Passed(second) THEN 2 ELSE 1
  BY <1>4, <1>5 DEF Verified, VerifiedCount, vs
<1> QED
  BY <1>1, <1>2, <1>3, <1>6 DEF vs, second

\* Artifacts carry the checksum of their bytes.
LEMMA ArtifactFields ==
  ASSUME NEW n, NEW c
  PROVE  /\ Artifact(n, c).seq = n /\ Artifact(n, c).chunk = c
         /\ Artifact(n, c).declared_checksum = Digest("sha256", c)
BY DEF Artifact

\* What the fixture check accepts, the engine settles to the last unit the cap pays for:
\* a good run never ends UNEXPECTED (smoke.py:142-171).
THEOREM GoodRunsPassAlways == DemoSpec => []GoodRunsPass
<1>1. TypeOK /\ MeterInv /\ DemoInv => GoodRunsPass
  <2> SUFFICES ASSUME TypeOK, MeterInv, DemoInv, Finished("good"),
                      proc.exit \in {"OK", "UNEXPECTED"}
               PROVE  proc.exit = "OK" /\ \A i \in DOMAIN proc.units : proc.units[i].chunk \notin Edits
    BY DEF GoodRunsPass
  <2> DEFINE o == proc.open_in
             units == proc.units
  <2>1. /\ Reported /\ proc.case = "good" /\ Delivery(units) /\ GoodFixtureHolds(o, units)
        /\ proc.exit = "UNEXPECTED" => ~ExpectedOk
    BY DEF Finished, Reported, DemoInv, ProcInv, ScriptInv
  <2>2. PICK s \in Scenarios :
          /\ o.ref = DemoRef
          /\ o.committed_reference = Commitment(s[1], s[2]).committed_reference
    BY <2>1 DEF DemoInv, ProcInv, ScriptInv
  <2>3. o.committed_reference.expected =
          [seq \in {0, 1} |-> Digest("sha256", IF seq = 0 THEN s[1] ELSE s[2])]
    BY <2>2 DEF Commitment
  <2>4. /\ DOMAIN units = {1, 2} /\ units[1].seq = 0 /\ units[2].seq = 1
        /\ units[1] \in ScriptUnit /\ units[2] \in ScriptUnit
    BY <2>1, ScriptUnits DEF Delivery
  <2>5. /\ units[1].declared_checksum = Digest("sha256", units[1].chunk)
        /\ units[2].declared_checksum = Digest("sha256", units[2].chunk)
        /\ Digest("sha256", units[1].chunk) = Digest("sha256", s[1])
        /\ Digest("sha256", units[2].chunk) = Digest("sha256", s[2])
    BY <2>1, <2>3, <2>4 DEF GoodFixtureHolds
  <2>6. units[1].chunk = s[1] /\ units[2].chunk = s[2]
    BY <2>5 DEF Digest
  <2>7. Passed(VerdictOn(o, units[1])) /\ Passed(VerdictOn(o, units[2]))
    <3>1. Passed(VerdictOn(o, units[1]))
      BY <2>2, <2>4, <2>5, <2>6, VerdictOnScript
    <3>2. Passed(VerdictOn(o, units[2]))
      BY <2>2, <2>4, <2>5, <2>6, VerdictOnScript
    <3> QED
      BY <3>1, <3>2
  <2>8. /\ DOMAIN out.per_unit = {1, 2}
        /\ Passed(out.per_unit[1]) /\ Passed(out.per_unit[2]) /\ Verified(eng) = 2
    BY <2>1, <2>7, BothJudged
  <2>9. {i \in DOMAIN out.per_unit : ~Passed(out.per_unit[i])} = {}
    BY <2>8
  <2>10. out.settled_total = Lesser(o.rate * Len(units), o.max_total)
    BY <2>1, <2>8, ReportedFacts DEF Delivery
  <2>11. ExpectedOk
    BY <2>1, <2>9, <2>10 DEF ExpectedOk
  <2>12. s[1] \notin Edits /\ s[2] \notin Edits
    BY ScenarioChunks
  <2> QED
    BY <2>1, <2>4, <2>6, <2>11, <2>12
<1> QED
  BY <1>1, DemoCorrect, PTL

\* The tick of the first item and the refusal of the second, and their arithmetic: what
\* both kinds of bad run come down to.
LEMMA OneRefusal ==
  ASSUME TypeOK, MeterInv, DemoInv, Reported,
         Passed(VerdictOn(proc.open_in, proc.units[1])),
         ~Passed(VerdictOn(proc.open_in, proc.units[2]))
  PROVE  LET o == proc.open_in
         IN  /\ Len(out.per_unit) = 2 /\ Passed(out.per_unit[1])
             /\ out.per_unit[2] = VerdictOn(o, proc.units[2])
             /\ out.settled_total = Lesser(o.rate, o.max_total)
             /\ out.remainder_unspent = o.max_total - out.settled_total
             /\ proc.case # "good" => (ExpectedOk <=> o.rate < o.max_total)
<1> DEFINE o == proc.open_in
<1>1. /\ Len(out.per_unit) = 2 /\ DOMAIN out.per_unit = {1, 2}
      /\ Passed(out.per_unit[1]) /\ out.per_unit[2] = VerdictOn(o, proc.units[2])
      /\ Verified(eng) = 1
  BY BothJudged
<1>2. /\ o.rate \in Nat /\ o.max_total \in Nat
      /\ out.settled_total = Lesser(o.rate * 1, o.max_total)
      /\ out.remainder_unspent = o.max_total - out.settled_total
  BY <1>1, ReportedFacts
<1> HIDE DEF o
<1>3. out.settled_total = Lesser(o.rate, o.max_total)
  BY <1>2
<1>4. {i \in DOMAIN out.per_unit : ~Passed(out.per_unit[i])} = {2}
  BY <1>1 DEF o
<1>5. Cardinality({2}) = 1
  BY FS_Singleton
<1>6. out.remainder_unspent > 0 <=> o.rate < o.max_total
  BY <1>2, <1>3 DEF Lesser
<1>7. proc.case # "good" => (ExpectedOk <=> o.rate < o.max_total)
  BY <1>4, <1>5, <1>6 DEF ExpectedOk
<1> QED
  BY <1>1, <1>2, <1>3, <1>7 DEF o

\* On fixtures that belong together a bad run shows one tick and one refusal, at the rung
\* its mode is about (smoke.py:8-15, 134-139, 172-173).
THEOREM BadRunsShowOneRefusalAlways == DemoSpec => []BadRunsShowOneRefusal
<1>1. TypeOK /\ MeterInv /\ DemoInv => BadRunsShowOneRefusal
  <2> SUFFICES ASSUME TypeOK, MeterInv, DemoInv,
                      NEW case \in {"l3", "l2"}, Finished(case), Consistent,
                      proc.exit \in {"OK", "UNEXPECTED"}
               PROVE  /\ proc.exit = "OK" <=> proc.open_in.rate < proc.open_in.max_total
                      /\ Len(out.per_unit) = 2 /\ Passed(out.per_unit[1])
                      /\ out.per_unit[2].reason =
                           IF case = "l3" THEN "artifact-mismatch" ELSE "checksum-mismatch"
                      /\ out.settled_total = Lesser(proc.open_in.rate, proc.open_in.max_total)
    BY DEF BadRunsShowOneRefusal
  <2> DEFINE o == proc.open_in
             units == proc.units
  <2>1. /\ Reported /\ proc.case = case /\ Delivery(units) /\ units = UnitsOf(case)
        /\ o.ref = DemoRef
        /\ o.committed_reference = disk.committed.committed_reference
        /\ proc.exit = "OK" => ExpectedOk
        /\ proc.exit = "UNEXPECTED" => ~ExpectedOk
    BY DEF Finished, Reported, DemoInv, ProcInv, ScriptInv
  <2>2. PICK s \in Scenarios : disk = Fixtures(s)
    BY DEF Consistent
  <2>3. /\ s[1] \in Chunk /\ s[2] \in Chunk /\ s[3] \in Chunk /\ s[3] # s[2]
    BY ScenarioChunks
  <2>4. /\ disk.committed = Commitment(s[1], s[2])
        /\ disk.good = <<Artifact(0, s[1]), Artifact(1, s[2])>>
        /\ disk.bad = <<Artifact(0, s[1]), Artifact(1, s[3])>>
    BY <2>2 DEF Fixtures
  <2>5. o.committed_reference = Commitment(s[1], s[2]).committed_reference
    BY <2>1, <2>4
  <2>6. /\ units[1] \in ScriptUnit /\ units[2] \in ScriptUnit
        /\ units[1].seq = 0 /\ units[2].seq = 1
    BY <2>1, ScriptUnits DEF Delivery
  <2>7. /\ units[1] = Artifact(0, s[1])
        /\ units[2] = IF case = "l3" THEN Artifact(1, s[3]) ELSE CorruptL2(Artifact(1, s[2]))
    <3>1. CASE case = "l3"
      BY <2>1, <2>4, <3>1 DEF UnitsOf, DeliveryOf
    <3>2. CASE case = "l2"
      <4> DEFINE u == CorruptL2(Artifact(1, s[2]))
      <4>1. /\ Delivery(disk.good) /\ disk.good[1] = Artifact(0, s[1])
            /\ disk.good[2] = Artifact(1, s[2])
        BY <2>3, <2>4, DeliveryOfTwo
      <4>2. u \in ScriptUnit /\ u.seq = 1
        BY <2>3, DemoAssumption DEF CorruptL2, Artifact, ScriptUnit, Digest
      <4> HIDE DEF u
      <4>3. /\ Last(disk.good) = disk.good[2]
            /\ Append(Front(disk.good), u)[1] = disk.good[1]
            /\ Append(Front(disk.good), u)[2] = u
        BY <4>1, <4>2, DeliveryReplaced
      <4>4. units = Append(Front(disk.good), u)
        BY <2>1, <3>2, <4>1, <4>3 DEF UnitsOf, DeliveryOf, u
      <4> QED
        BY <3>2, <4>1, <4>3, <4>4 DEF u
    <3> QED
      BY <3>1, <3>2
  <2>8. Passed(VerdictOn(o, units[1]))
    BY <2>1, <2>5, <2>6, <2>7, VerdictOnScript, ArtifactFields
  <2>9. /\ ~Passed(VerdictOn(o, units[2]))
        /\ VerdictOn(o, units[2]).reason =
             IF case = "l3" THEN "artifact-mismatch" ELSE "checksum-mismatch"
    <3>1. CASE case = "l3"
      BY <2>1, <2>3, <2>5, <2>6, <2>7, <3>1, VerdictOnScript, ArtifactFields
    <3>2. CASE case = "l2"
      <4>1. /\ units[2].declared_checksum = Digest("sha256", s[2])
            /\ units[2].chunk = Flip[s[2]] /\ Flip[s[2]] # s[2]
        BY <2>3, <2>7, <3>2, DemoAssumption DEF CorruptL2, Artifact
      <4>2. units[2].declared_checksum # Digest("sha256", units[2].chunk)
        BY <4>1 DEF Digest
      <4> QED
        BY <2>1, <2>5, <2>6, <3>2, <4>2, VerdictOnScript
    <3> QED
      BY <3>1, <3>2
  <2> QED
    BY <2>1, <2>8, <2>9, OneRefusal
<1> QED
  BY <1>1, DemoCorrect, PTL

\* The two answers anyone is invited to check the service with (SKILL.md:62-67).
THEOREM DemoAnswersAlways == DemoSpec => []DemoAnswers
<1>1. TypeOK /\ MeterInv /\ DemoInv => DemoAnswers
  <2> SUFFICES ASSUME TypeOK, MeterInv, DemoInv, proc.exit = "answered" PROVE DemoAnswers
    BY DEF DemoAnswers
  <2> DEFINE o == proc.open_in
             units == proc.units
  <2>1. Reported /\ proc.case \in Demo /\ ScriptInv
    BY DEF Reported, DemoInv, ProcInv
  <2>2. PICK s \in Scenarios :
          /\ o = Commitment(s[1], s[2]) /\ units[1] = Artifact(0, s[1])
          /\ units[2] = Artifact(1, IF proc.case = "demo-good" THEN s[2] ELSE s[3])
    BY <2>1 DEF ScriptInv
  <2>3. /\ o.rate = 100 /\ o.max_total = 500 /\ o.ref = DemoRef
        /\ o.committed_reference = Commitment(s[1], s[2]).committed_reference
    BY <2>2 DEF Commitment, RATE, MAX_TOTAL
  <2>4. units[1] \in ScriptUnit /\ units[2] \in ScriptUnit /\ s[3] # s[2]
    BY <2>1, ScriptUnits, ScenarioChunks DEF ScriptInv
  <2>5. Passed(VerdictOn(o, units[1]))
    BY <2>2, <2>3, <2>4, VerdictOnScript, ArtifactFields
  <2>6. /\ eng.closed /\ out.settled_total = Lesser(o.rate * Verified(eng), o.max_total)
        /\ out.remainder_unspent = o.max_total - out.settled_total
    BY <2>1, ReportedFacts
  <2>7. ASSUME proc.case = "demo-good"
        PROVE  /\ \A i \in 1 .. 2 : Passed(out.per_unit[i])
               /\ out.settled_total = 200 /\ out.remainder_unspent = 300
    <3>1. Passed(VerdictOn(o, units[2]))
      BY <2>2, <2>3, <2>4, <2>7, VerdictOnScript, ArtifactFields
    <3>2. Passed(out.per_unit[1]) /\ Passed(out.per_unit[2]) /\ Verified(eng) = 2
      BY <2>1, <2>5, <3>1, BothJudged
    <3>3. \A i \in 1 .. 2 : i = 1 \/ i = 2
      OBVIOUS
    <3>4. out.settled_total = 200
      BY <2>3, <2>6, <3>2 DEF Lesser
    <3> QED
      BY <2>3, <2>6, <3>2, <3>3, <3>4
  <2>8. ASSUME proc.case = "demo-bad"
        PROVE  /\ Passed(out.per_unit[1]) /\ out.per_unit[2].reason = "artifact-mismatch"
               /\ out.settled_total = 100 /\ out.remainder_unspent = 400
    <3>1. /\ ~Passed(VerdictOn(o, units[2]))
          /\ VerdictOn(o, units[2]).reason = "artifact-mismatch"
      BY <2>2, <2>3, <2>4, <2>8, VerdictOnScript, ArtifactFields
    <3>2. /\ Passed(out.per_unit[1]) /\ out.per_unit[2] = VerdictOn(o, units[2])
          /\ out.settled_total = Lesser(o.rate, o.max_total)
      BY <2>1, <2>5, <3>1, OneRefusal
    <3>3. out.settled_total = 100
      BY <2>3, <3>2 DEF Lesser
    <3> QED
      BY <2>3, <2>6, <3>1, <3>2, <3>3
  <2> QED
    BY <2>6, <2>7, <2>8 DEF DemoAnswers
<1> QED
  BY <1>1, DemoCorrect, PTL
=================================================================================
