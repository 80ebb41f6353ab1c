------------------------------ MODULE ServiceProofs ------------------------------
(***************************************************************************)
(* Theorems about the service.  The inductive invariant says of every slot *)
(* what its stage entitles it to, of every session who may be inside its   *)
(* engine, and that the engine's meter stands as that request's await      *)
(* demands.  Everything an engine does is one of two kinds of step: Stay   *)
(* (the request goes on waiting) and Leave (it is answered).               *)
(***************************************************************************)
EXTENDS ServiceProperties, TraceProofs

EngineAwaits == {"advance", "drained", "close_stream", "receipt"}

Progress ==
  [await : {"none", "open_stream"} \cup EngineAwaits, seq : Nat, reason : CloseReason,
   amount : Int]

InsideOf(q, r) == Await(q) \in EngineAwaits /\ BodyOf(q).ref = r

SlotOK(q) ==
  /\ req[q] = [stage |-> req[q].stage, body |-> req[q].body, call |-> req[q].call,
               reply |-> req[q].reply]
  /\ req[q].call \in Progress
  /\ req[q].stage \in {"idle", "waiting", "running", "done"}
  /\ req[q].stage # "idle" => BodyOf(q) \in Bodies
  /\ req[q].stage = "running" <=> Await(q) # "none"

\* Whoever opens holds open_lock and has found no session under its ref.
OpenerOK(q) ==
  Await(q) = "open_stream" =>
    /\ HoldsOpenLock(q) /\ BodyOf(q).op = "open"
    /\ SessionOf(q) = Null /\ ~Unmeterable(BodyOf(q).open_in)

\* Whoever is inside an engine holds its session's lock.
WorkerOK(q) ==
  Await(q) \in EngineAwaits =>
    BodyOf(q).op \in {"advance", "close"} /\ SessionOf(q) # Null /\ HoldsSession(q)

SessionOK(r) ==
  sessions[r] # Null =>
    /\ sessions[r] \in Session
    /\ sessions[r].engine.open_in.ref = r
    /\ sessions[r].tier = sessions[r].engine.open_in.attestor

\* The meter of deal r stands as the await of the request inside its engine demands.
MeterOK(r) ==
  sessions[r] # Null =>
    /\ (\A q \in Request : ~InsideOf(q, r))
         => OnMeter(SettleOpenIn, sessions[r].engine, "none", 0)
    /\ \A q \in Request :
         InsideOf(q, r)
           => OnMeter(SettleOpenIn, sessions[r].engine, Await(q), req[q].call.amount)

ServiceInv ==
  /\ life \in 0 .. MaxRestarts
  /\ DOMAIN sessions = Ref /\ DOMAIN req = Request
  /\ open_queue \in Seq(Request)
  /\ \A q \in Request : SlotOK(q) /\ OpenerOK(q) /\ WorkerOK(q)
  /\ \A r \in Ref : SessionOK(r) /\ MeterOK(r)

\* The call records the handlers make.
LEMMA CallType ==
  /\ \A await \in EngineAwaits, s \in Nat, reason \in CloseReason :
       LET c == CallAt(await, s, reason)
       IN  c \in Progress /\ c.await = await /\ c.amount = 0
  /\ \A c \in Progress, await \in EngineAwaits, n \in Int :
       LET d == [c EXCEPT !.await = await, !.amount = n]
       IN  d \in Progress /\ d.await = await /\ d.amount = n
<1>1. \A await \in EngineAwaits, s \in Nat, reason \in CloseReason :
        LET c == CallAt(await, s, reason)
        IN  c \in Progress /\ c.await = await /\ c.amount = 0
  BY DEF CallAt, Progress
<1>2. \A c \in Progress, await \in EngineAwaits, n \in Int :
        LET d == [c EXCEPT !.await = await, !.amount = n]
        IN  d \in Progress /\ d.await = await /\ d.amount = n
  BY DEF Progress
<1> QED
  BY <1>1, <1>2

\* No call is in progress in one of them.
LEMMA NoCallType == NoCall \in Progress /\ NoCall.await = "none" /\ NoCall.amount = 0
BY DEF NoCall, CallAt, Progress, CloseReason

\* q has its session's lock.
Entitled(q) ==
  /\ req[q].stage \in {"waiting", "running"} /\ Await(q) # "open_stream"
  /\ BodyOf(q).op \in {"advance", "close"} /\ SessionOf(q) # Null /\ HoldsSession(q)

(***************************************************************************)
(* The two kinds of step.                                                  *)
(***************************************************************************)

\* Two requests are never inside one engine.
LEMMA Alone ==
  ASSUME ServiceInv, NEW q \in Request, Entitled(q)
  PROVE  /\ BodyOf(q) \in Bodies /\ BodyOf(q).ref \in Ref
         /\ SlotOK(q) /\ SessionOK(BodyOf(q).ref) /\ MeterOK(BodyOf(q).ref)
         /\ \A p \in Request : InsideOf(p, BodyOf(q).ref) => p = q
         /\ Await(q) = "none" => OnMeter(SettleOpenIn, EngineOf(q), "none", 0)
         /\ Await(q) # "none" =>
              OnMeter(SettleOpenIn, EngineOf(q), Await(q), req[q].call.amount)
         /\ SessionOf(q).queue # <<>>
<1>1. SlotOK(q) /\ BodyOf(q) \in Bodies /\ BodyOf(q).ref \in Ref
  BY BodyAssumption DEF ServiceInv, Entitled, SlotOK
<1>2. SessionOK(BodyOf(q).ref) /\ MeterOK(BodyOf(q).ref)
  BY <1>1 DEF ServiceInv
<1>3. \A p \in Request : InsideOf(p, BodyOf(q).ref) => p = q
  BY DEF ServiceInv, WorkerOK, InsideOf, Entitled, HoldsSession, SessionOf
<1>4. Await(q) \in {"none"} \cup EngineAwaits
  BY <1>1 DEF SlotOK, Progress, Entitled, Await, EngineAwaits
<1>5. CASE Await(q) = "none"
  <2>1. \A p \in Request : ~InsideOf(p, BodyOf(q).ref)
    BY <1>3, <1>5 DEF InsideOf, EngineAwaits
  <2> QED
    BY <1>1, <1>2, <1>3, <1>5, <2>1 DEF MeterOK, Entitled, SessionOf, EngineOf, HoldsSession
<1>6. CASE Await(q) \in EngineAwaits
  <2>1. InsideOf(q, BodyOf(q).ref) /\ Await(q) # "none"
    BY <1>6 DEF InsideOf, EngineAwaits
  <2> QED
    BY <1>1, <1>2, <1>3, <2>1 DEF MeterOK, Entitled, SessionOf, EngineOf, HoldsSession
<1> QED
  BY <1>4, <1>5, <1>6

\* A step of q's on its session, which becomes t: q waits at an await of the engine's or
\* is answered.
LEMMA SessionStep ==
  ASSUME ServiceInv, NEW q \in Request, Entitled(q),
         NEW t \in Session, NEW call \in Progress, NEW reply,
         \/ call.await = "none" /\ call.amount = 0
         \/ call.await \in EngineAwaits /\ t.queue = SessionOf(q).queue,
         OnMeter(SettleOpenIn, t.engine, call.await, call.amount),
         t.engine.open_in = EngineOf(q).open_in, t.tier = SessionOf(q).tier,
         sessions' = [sessions EXCEPT ![BodyOf(q).ref] = t],
         DOMAIN req' = Request, \A p \in Request : p # q => req'[p] = req[p],
         req'[q] = [stage |-> IF call.await = "none" THEN "done" ELSE "running",
                    body |-> BodyOf(q), call |-> call, reply |-> reply],
         UNCHANGED <<open_queue, life>>
  PROVE  ServiceInv'
<1> DEFINE ref == BodyOf(q).ref
           s == sessions[ref]
<1>1. /\ BodyOf(q) \in Bodies /\ ref \in Ref /\ SlotOK(q) /\ SessionOK(ref)
      /\ \A p \in Request : InsideOf(p, ref) => p = q
  BY Alone
<1>2. s # Null /\ s \in Session /\ DOMAIN sessions = Ref /\ DOMAIN req = Request
  BY <1>1 DEF SessionOK, Entitled, SessionOf, ServiceInv
<1>3. open_queue' = open_queue /\ life' = life
  OBVIOUS
<1>4. t # Null
  BY NoSessionAssumption
<1>5. /\ sessions'[ref] = t /\ \A r \in Ref : r # ref => sessions'[r] = sessions[r]
      /\ DOMAIN sessions' = Ref /\ DOMAIN req' = Request
  BY <1>1, <1>2
<1>6. /\ \A p \in Request : p # q => req'[p] = req[p]
      /\ req'[q] = [stage |-> IF call.await = "none" THEN "done" ELSE "running",
                    body |-> req[q].body, call |-> call, reply |-> reply]
  BY <1>2 DEF BodyOf
<1>7. \A p \in Request : (SlotOK(p) /\ OpenerOK(p) /\ WorkerOK(p))'
  <2> SUFFICES ASSUME NEW p \in Request
               PROVE  SlotOK(p)' /\ OpenerOK(p)' /\ WorkerOK(p)'
    OBVIOUS
  <2>1. CASE p = q
    <3>1. SlotOK(q)'
      BY <1>1, <1>6 DEF SlotOK, EngineAwaits, BodyOf, Await
    <3>2. OpenerOK(q)'
      BY <1>6 DEF OpenerOK, Await, EngineAwaits
    <3>3. WorkerOK(q)'
      BY <1>4, <1>5, <1>6
         DEF WorkerOK, Await, BodyOf, SessionOf, HoldsSession, Entitled, EngineAwaits
    <3> QED
      BY <2>1, <3>1, <3>2, <3>3
  <2>2. CASE p # q
    <3>0. SlotOK(p) /\ OpenerOK(p) /\ WorkerOK(p) /\ req'[p] = req[p]
      BY <1>6, <2>2 DEF ServiceInv
    <3>1. SlotOK(p)'
      BY <3>0 DEF SlotOK, BodyOf, Await
    <3>2. OpenerOK(p)'
      <4> SUFFICES ASSUME Await(p) = "open_stream"
                   PROVE  OpenerOK(p)'
        BY <3>0 DEF OpenerOK, Await
      <4>1. BodyOf(p) \in Bodies /\ BodyOf(p).ref \in Ref
        BY <3>0, BodyAssumption DEF SlotOK, Await
      <4>2. BodyOf(p).ref # ref
        BY <1>2, <3>0 DEF OpenerOK, SessionOf
      <4> QED
        BY <3>0, <4>1, <4>2, <1>3, <1>5
           DEF OpenerOK, SessionOf, BodyOf, Await, HoldsOpenLock
    <3>3. WorkerOK(p)'
      <4> SUFFICES ASSUME Await(p) \in EngineAwaits
                   PROVE  WorkerOK(p)'
        BY <3>0 DEF WorkerOK, Await
      <4>1. BodyOf(p) \in Bodies /\ BodyOf(p).ref \in Ref
        BY <3>0, BodyAssumption DEF SlotOK, Await, EngineAwaits
      <4>2. BodyOf(p).ref # ref
        BY <1>1, <2>2 DEF InsideOf
      <4> QED
        BY <3>0, <4>1, <4>2, <1>5 DEF WorkerOK, SessionOf, BodyOf, Await, HoldsSession
    <3> QED
      BY <3>1, <3>2, <3>3
  <2> QED
    BY <2>1, <2>2
<1>8. \A r \in Ref : (SessionOK(r) /\ MeterOK(r))'
  <2> SUFFICES ASSUME NEW r \in Ref
               PROVE  SessionOK(r)' /\ MeterOK(r)'
    OBVIOUS
  <2>0. /\ InsideOf(q, r)' <=> call.await \in EngineAwaits /\ r = ref
        /\ ~InsideOf(q, r) \/ r = ref
        /\ \A p \in Request : p # q => (InsideOf(p, r)' <=> InsideOf(p, r))
    BY <1>6 DEF InsideOf, BodyOf, Await
  <2>1. CASE r = ref
    <3>1. SessionOK(r)'
      BY <1>1, <1>2, <1>4, <1>5, <2>1 DEF SessionOK, EngineOf, SessionOf
    <3>2. MeterOK(r)'
      <4>1. CASE call.await = "none"
        BY <1>1, <1>5, <1>6, <2>0, <2>1, <4>1 DEF MeterOK, Await, EngineAwaits
      <4>2. CASE call.await \in EngineAwaits
        BY <1>1, <1>5, <1>6, <2>0, <2>1, <4>2 DEF MeterOK, Await
      <4> QED
        BY <4>1, <4>2
    <3> QED
      BY <3>1, <3>2
  <2>2. CASE r # ref
    <3>1. SessionOK(r) /\ MeterOK(r) /\ sessions'[r] = sessions[r]
      BY <1>5, <2>2 DEF ServiceInv
    <3>2. MeterOK(r)'
      BY <1>6, <2>0, <2>2, <3>1 DEF MeterOK, Await
    <3> QED
      BY <3>1, <3>2 DEF SessionOK
  <2> QED
    BY <2>1, <2>2
<1> QED
  BY <1>3, <1>5, <1>7, <1>8 DEF ServiceInv

\* The request waits at an await with the engine in state e.
LEMMA StayKeeps ==
  ASSUME ServiceInv, NEW q \in Request, Entitled(q), NEW e, NEW call \in Progress,
         call.await \in EngineAwaits,
         OnMeter(SettleOpenIn, e, call.await, call.amount),
         e.open_in = EngineOf(q).open_in, Stay(q, e, call)
  PROVE  ServiceInv'
<1> DEFINE s == SessionOf(q)
           t == [s EXCEPT !.engine = e]
<1>1. s \in Session /\ SlotOK(q) /\ BodyOf(q).ref \in Ref
  BY Alone DEF SessionOK, Entitled, SessionOf
<1>2. t \in Session /\ t.engine = e /\ t.tier = s.tier /\ t.queue = s.queue
  BY <1>1 DEF Session, OnMeter
<1>3. sessions' = [sessions EXCEPT ![BodyOf(q).ref] = t]
  BY DEF Stay, SessionOf
<1>4. /\ DOMAIN req' = Request /\ \A p \in Request : p # q => req'[p] = req[p]
      /\ req'[q] = [stage |-> IF call.await = "none" THEN "done" ELSE "running",
                    body |-> BodyOf(q), call |-> call, reply |-> req[q].reply]
  BY <1>1 DEF Stay, SlotOK, EngineAwaits, BodyOf, ServiceInv
<1>5. UNCHANGED <<open_queue, life>>
  BY DEF Stay
<1> HIDE DEF t, s
<1> QED
  BY <1>2, <1>3, <1>4, <1>5, SessionStep DEF s

\* The request is answered and gives the lock back, with the engine in state e.
LEMMA LeaveKeeps ==
  ASSUME ServiceInv, NEW q \in Request, Entitled(q), NEW e, NEW reply,
         OnMeter(SettleOpenIn, e, "none", 0),
         e.open_in = EngineOf(q).open_in, Leave(q, e, reply)
  PROVE  ServiceInv'
<1> DEFINE s == SessionOf(q)
           t == [engine |-> e, tier |-> s.tier, queue |-> Tail(s.queue)]
           c == NoCall
<1>1. s \in Session /\ s.queue # <<>> /\ SlotOK(q) /\ BodyOf(q).ref \in Ref
  BY Alone DEF SessionOK, Entitled, SessionOf
<1>2. t \in Session /\ t.engine = e /\ t.tier = s.tier
  <2>1. s.queue \in Seq(Request) /\ Tail(s.queue) \in Seq(Request)
    BY <1>1 DEF Session
  <2>2. e \in EngineRecord(SettleOpenIn)
    BY DEF OnMeter
  <2> QED
    BY <1>1, <2>1, <2>2 DEF Session
<1>3. sessions' = [sessions EXCEPT ![BodyOf(q).ref] = t]
  BY DEF Leave
<1>4. c \in Progress /\ c.await = "none" /\ c.amount = 0
  BY NoCallType
<1>5. /\ DOMAIN req' = Request /\ \A p \in Request : p # q => req'[p] = req[p]
      /\ req'[q] = [stage |-> IF c.await = "none" THEN "done" ELSE "running",
                    body |-> BodyOf(q), call |-> c, reply |-> reply]
  BY <1>1, <1>4 DEF Leave, Answer, SlotOK, BodyOf, ServiceInv
<1>6. UNCHANGED <<open_queue, life>>
  BY DEF Leave
<1>7. /\ OnMeter(SettleOpenIn, t.engine, c.await, c.amount)
      /\ t.engine.open_in = EngineOf(q).open_in /\ t.tier = SessionOf(q).tier
  BY <1>2, <1>4
<1>8. \/ c.await = "none" /\ c.amount = 0
      \/ c.await \in EngineAwaits /\ t.queue = SessionOf(q).queue
  BY <1>4
<1>9. c \in Progress /\ t \in Session
  BY <1>2, <1>4
<1> HIDE DEF t, s, c
<1> QED
  BY <1>3, <1>5, <1>6, <1>7, <1>8, <1>9, SessionStep

(***************************************************************************)
(* What a stretch adds to the delivery lines.                              *)
(***************************************************************************)

\* The delivery lines of unit u for deal r.
AcksOf(r, u) ==
  {AckL1Line(r, u.seq), AckContentLine(r, u.seq, u.chunk, u.declared_checksum)}

\* Every delivery line of t is one of s, at its place, or one of lines.
AddsAcks(s, t, lines) ==
  \A i \in DOMAIN t :
    t[i].kind = "ack" => (i \in DOMAIN s /\ t[i] = s[i]) \/ t[i] \in lines

\* A line appended is an ack of lines or no ack.
LEMMA AddsAcksAppend ==
  ASSUME NEW s \in Seq(Line), NEW t \in Seq(Line), NEW lines, AddsAcks(s, t, lines),
         NEW l, l.kind = "ack" => l \in lines
  PROVE  AddsAcks(s, Append(t, l), lines)
<1>1. \A i \in DOMAIN Append(t, l) :
        \/ i \in DOMAIN t /\ Append(t, l)[i] = t[i]
        \/ Append(t, l)[i] = l
  OBVIOUS
<1> QED
  BY <1>1 DEF AddsAcks

\* Judging a unit adds a delivery line of that unit and no other.
LEMMA JudgedAcks ==
  ASSUME NEW e \in EngineRecord(SettleOpenIn), e.open_in \in SettleOpenIn, NEW u \in UnitIn
  PROVE  AddsAcks(e.trace, Judged(e, u).trace, AcksOf(e.open_in.ref, u))
<1> DEFINE c == Received(e, u)
           l == IF CriterionOf(e) = "ack_received" THEN AckL1Line(e.open_in.ref, u.seq)
                ELSE AckContentLine(e.open_in.ref, u.seq, u.chunk, u.declared_checksum)
           gate == GateLine(e.open_in.ref, u.seq, ResultOf(e, u).passed)
           lines == AcksOf(e.open_in.ref, u)
<1>1. c.trace = Append(e.trace, l) /\ l \in lines
  BY DEF Received, EngineRecord, AcksOf
<1>2. c \in EngineRecord(SettleOpenIn) /\ c.trace \in Seq(Line) /\ e.trace \in Seq(Line)
  BY ReceivedType DEF EngineRecord
<1>3. gate.kind = "gate"
  BY DEF GateLine
<1> HIDE DEF c, l, gate, lines
<1>4. Judged(e, u).trace = IF CriterionOf(e) = "ack_received" THEN c.trace
                           ELSE Append(c.trace, gate)
  BY <1>2 DEF Judged, EngineRecord, c, gate
<1>5. AddsAcks(e.trace, e.trace, lines)
  BY DEF AddsAcks
<1>6. AddsAcks(e.trace, c.trace, lines)
  BY <1>1, <1>2, <1>5, AddsAcksAppend
<1>7. AddsAcks(e.trace, Append(c.trace, gate), lines)
  BY <1>2, <1>3, <1>6, AddsAcksAppend
<1> QED
  BY <1>4, <1>6, <1>7 DEF lines

\* What one handler does to the engine it is in: nothing a client could see, a verdict
\* on a unit that was sent, the pay for it, or the end of the session.
Stretch(e, d) ==
  \/ SameBooks(e, d)
  \/ \E u \in AllUnits :
       /\ ~e.closed /\ u.seq \notin e.seen_seqs
       /\ OnMeter(SettleOpenIn, e, "none", 0)
       /\ d \in {Judged(e, u), Ticked(Judged(e, u))}
  \/ \E s \in Nat, n \in Int :
       OnMeter(SettleOpenIn, e, "drained", n) /\ d = Billed(e, s, n)
  \/ \E s \in Nat, n \in Int, why \in CloseReason :
       OnMeter(SettleOpenIn, e, "receipt", n) /\ d = ClosedWith(e, s, n, why)

(***************************************************************************)
(* Every handler that touches an engine takes one of the two kinds of      *)
(* step, with the meter as it should be, nothing taken back, and no        *)
(* delivery recorded that the tier guard has not cleared.                  *)
(***************************************************************************)
Advances(q, e) ==
  /\ Entitled(q)
  /\ Grows(EngineOf(q), e)
  /\ Stretch(EngineOf(q), e)
  /\ AddsAcks(EngineOf(q).trace, e.trace,
              IF BodyOf(q).op = "advance" /\ Guard(q).cleared
              THEN AcksOf(BodyOf(q).ref, BodyOf(q).unit) ELSE {})
  /\ \/ \E call \in Progress :
          /\ call.await \in EngineAwaits
          /\ OnMeter(SettleOpenIn, e, call.await, call.amount)
          /\ Stay(q, e, call)
     \/ \E reply :
          /\ OnMeter(SettleOpenIn, e, "none", 0)
          /\ reply.status = 200 => reply = Ok(e, SessionOf(q).tier)
          /\ Leave(q, e, reply)

InEngine(q) ==
  \/ TrustRefused(q) \/ AdvanceAfterClose(q) \/ AdvanceDuplicate(q) \/ AdvanceJudged(q)
  \/ PluginAdvances(q) \/ AdvanceEnds(q) \/ CloseBegins(q) \/ CloseAgain(q)
  \/ PluginCloses(q) \/ CloseEnds(q)

\* The step keeps the invariant.
LEMMA AdvancesKeeps ==
  ASSUME ServiceInv, NEW q \in Request, NEW e, Advances(q, e)
  PROVE  ServiceInv'
<1>1. Entitled(q) /\ e.open_in = EngineOf(q).open_in
  BY DEF Advances, Grows
<1>2. ASSUME NEW call \in Progress, call.await \in EngineAwaits,
             OnMeter(SettleOpenIn, e, call.await, call.amount), Stay(q, e, call)
      PROVE  ServiceInv'
  BY <1>1, <1>2, StayKeeps
<1>3. ASSUME NEW reply, OnMeter(SettleOpenIn, e, "none", 0), Leave(q, e, reply)
      PROVE  ServiceInv'
  BY <1>1, <1>3, LeaveKeeps
<1> QED
  BY <1>2, <1>3 DEF Advances

\* A request that is given the lock finds the engine at rest.
LEMMA GrantedEntitled ==
  ASSUME ServiceInv, NEW q \in Request, NEW op \in {"advance", "close"}, Granted(q, op)
  PROVE  /\ Entitled(q) /\ BodyOf(q) \in Bodies /\ BodyOf(q).op = op
         /\ OnMeter(SettleOpenIn, EngineOf(q), "none", 0)
         /\ EngineOf(q).open_in.ref = BodyOf(q).ref
<1>1. SlotOK(q) /\ Await(q) = "none"
  BY DEF ServiceInv, SlotOK, Granted
<1>2. Entitled(q) /\ BodyOf(q).op = op
  BY <1>1 DEF Granted, Entitled
<1> QED
  BY <1>1, <1>2, Alone DEF SessionOK, Entitled, SessionOf, EngineOf

\* A request at one of the engine's awaits has the lock, and the meter stands as it must.
LEMMA AwaitEntitled ==
  ASSUME ServiceInv, NEW q \in Request, Await(q) \in EngineAwaits
  PROVE  /\ Entitled(q) /\ BodyOf(q) \in Bodies
         /\ OnMeter(SettleOpenIn, EngineOf(q), Await(q), req[q].call.amount)
         /\ req[q].call \in Progress
<1>1. SlotOK(q) /\ WorkerOK(q) /\ Await(q) # "none" /\ Await(q) # "open_stream"
  BY DEF ServiceInv, EngineAwaits
<1>2. Entitled(q)
  BY <1>1 DEF SlotOK, WorkerOK, Entitled
<1> QED
  BY <1>1, <1>2, Alone DEF SlotOK

\* An answer that leaves the engine as it is.
LEMMA AnsweredAsIs ==
  ASSUME ServiceInv, NEW q \in Request, NEW op \in {"advance", "close"}, Granted(q, op),
         NEW reply, reply.status = 200 => reply = Ok(EngineOf(q), SessionOf(q).tier),
         Leave(q, EngineOf(q), reply)
  PROVE  Advances(q, EngineOf(q))
<1>1. Entitled(q) /\ OnMeter(SettleOpenIn, EngineOf(q), "none", 0)
  BY GrantedEntitled
<1>2. Grows(EngineOf(q), EngineOf(q))
  BY <1>1, GrowsStill DEF OnMeter
<1>3. \A lines : AddsAcks(EngineOf(q).trace, EngineOf(q).trace, lines)
  BY DEF AddsAcks
<1>4. Stretch(EngineOf(q), EngineOf(q))
  BY DEF Stretch, SameBooks
<1> QED
  BY <1>1, <1>2, <1>3, <1>4 DEF Advances

\* A request that is refused, or finds the stream closed, is answered with the engine as it is.
LEMMA TrustRefusedAdvances ==
  ASSUME ServiceInv, NEW q \in Request,
         TrustRefused(q) \/ AdvanceAfterClose(q) \/ AdvanceDuplicate(q) \/ CloseAgain(q)
  PROVE  Advances(q, EngineOf(q))
<1> DEFINE e == EngineOf(q)
           tier == SessionOf(q).tier
<1>1. \A n \in {403, 422} : Refusal(n).status # 200
  BY DEF Refusal, NoReply
<1> HIDE DEF e, tier
<1>2. CASE TrustRefused(q)
  BY <1>1, <1>2, AnsweredAsIs DEF TrustRefused, e
<1>3. CASE AdvanceAfterClose(q)
  BY <1>1, <1>3, AnsweredAsIs DEF AdvanceAfterClose, AdvanceCleared, e, tier
<1>4. CASE AdvanceDuplicate(q)
  BY <1>1, <1>4, AnsweredAsIs DEF AdvanceDuplicate, AdvanceCleared, e
<1>5. CASE CloseAgain(q)
  BY <1>1, <1>5, AnsweredAsIs DEF CloseAgain, e, tier
<1> QED
  BY <1>2, <1>3, <1>4, <1>5

\* A unit is judged only once cleared, by the engine it is for.
LEMMA AdvanceJudgedAdvances ==
  ASSUME ServiceInv, NEW q \in Request, AdvanceJudged(q)
  PROVE  \E e : Advances(q, e)
<1> DEFINE u == BodyOf(q).unit
           e == EngineOf(q)
           j == Judged(e, u)
           lines == IF BodyOf(q).op = "advance" /\ Guard(q).cleared
                    THEN AcksOf(BodyOf(q).ref, BodyOf(q).unit) ELSE {}
           waits(await, reason) == CallAt(await, u.seq, reason)
<1>1. Granted(q, "advance") /\ Guard(q).cleared /\ ~e.closed
  BY DEF AdvanceJudged, Judges, AdvanceCleared
<1>2. /\ Entitled(q) /\ BodyOf(q) \in Bodies /\ BodyOf(q).op = "advance"
      /\ OnMeter(SettleOpenIn, e, "none", 0) /\ e.open_in.ref = BodyOf(q).ref
  BY <1>1, GrantedEntitled
<1>3. /\ u \in UnitIn /\ u.seq \in Nat
      /\ e \in EngineRecord(SettleOpenIn) /\ e.open_in \in SettleOpenIn
  BY <1>2, BodyAssumption, ContractAssumption DEF OnMeter, UnitIn
<1>4. Grows(e, j) /\ Grows(e, Ticked(j))
  BY <1>3, GrowsJudged
<1>s. Stretch(e, j) /\ Stretch(e, Ticked(j))
  BY <1>1, <1>2 DEF Stretch, AllUnits, AdvanceJudged, Judges
<1>5. AddsAcks(e.trace, j.trace, lines)
  BY <1>1, <1>2, <1>3, JudgedAcks
<1>6. Ticked(j).trace = j.trace
  BY <1>3, JudgedType DEF Ticked, EngineRecord
<1>7. ResultOf(e, u).reason \in ReasonToken /\ ResultOf(e, u).passed \in BOOLEAN
  BY EvaluateUnitType DEF ResultOf
<1>8. \A await \in EngineAwaits, reason \in CloseReason :
        /\ waits(await, reason) \in Progress /\ waits(await, reason).await = await
        /\ waits(await, reason).amount = 0
  BY <1>3, CallType
<1>9. CASE ResultOf(e, u).passed /\ Remaining(e) > 0
  <2>1. Stay(q, Ticked(j), waits("advance", "none"))
    <3>1. ~(Remaining(e) <= 0)
      BY <1>2, <1>9, MeterNumbers DEF Remaining
    <3> QED
      BY <1>9, <3>1 DEF AdvanceJudged
  <2>2. OnMeter(SettleOpenIn, Ticked(j), "advance", 0)
    BY <1>1, <1>2, <1>3, <1>9, MeterPass
  <2> HIDE DEF j, e, u, waits, lines
  <2>3. waits("advance", "none") \in Progress /\ waits("advance", "none").await = "advance"
        /\ waits("advance", "none").amount = 0
    BY <1>8 DEF EngineAwaits, CloseReason
  <2>4. Advances(q, Ticked(j))
    BY <1>2, <1>4, <1>s, <1>5, <1>6, <2>1, <2>2, <2>3 DEF Advances, e, lines, EngineAwaits
  <2> QED
    BY <2>4
<1>10. CASE ResultOf(e, u).passed => Remaining(e) <= 0
  <2>1. PICK reason \in CloseReason : Stay(q, j, waits("close_stream", reason))
    <3>1. ~(ResultOf(e, u).passed /\ Remaining(e) > 0)
      BY <1>2, <1>10, MeterNumbers DEF Remaining
    <3>2. \/ Stay(q, j, waits("close_stream", "cap-reached"))
          \/ Stay(q, j, waits("close_stream", ResultOf(e, u).reason))
      BY <3>1 DEF AdvanceJudged
    <3> QED
      BY <1>7, <3>2 DEF CloseReason
  <2>2. OnMeter(SettleOpenIn, j, "close_stream", 0)
    BY <1>1, <1>2, <1>3, <1>10, MeterStops
  <2> HIDE DEF j, e, u, waits, lines
  <2>3. /\ waits("close_stream", reason) \in Progress
        /\ waits("close_stream", reason).await = "close_stream"
        /\ waits("close_stream", reason).amount = 0
    BY <1>8 DEF EngineAwaits
  <2>4. Advances(q, j)
    BY <1>2, <1>4, <1>s, <1>5, <2>1, <2>2, <2>3 DEF Advances, e, lines, EngineAwaits
  <2> QED
    BY <2>4
<1>11. (ResultOf(e, u).passed /\ Remaining(e) > 0) \/ (ResultOf(e, u).passed => Remaining(e) <= 0)
  BY <1>2, MeterNumbers DEF Remaining
<1> QED
  BY <1>9, <1>10, <1>11

\* The plugin pays.
LEMMA PluginAdvancesAdvances ==
  ASSUME ServiceInv, NEW q \in Request, PluginAdvances(q)
  PROVE  \E e : Advances(q, e)
<1> DEFINE e == EngineOf(q)
           owed == Owed(e.plugin, e.tick)
           d == [e EXCEPT !.plugin = AdvanceStream(@, e.tick)]
           c == [req[q].call EXCEPT !.await = "drained", !.amount = owed]
<1>1. Await(q) = "advance" /\ Await(q) \in EngineAwaits /\ Stay(q, d, c)
  BY DEF PluginAdvances, EngineAwaits
<1>2. /\ Entitled(q) /\ OnMeter(SettleOpenIn, e, "advance", req[q].call.amount)
      /\ req[q].call \in Progress
  BY <1>1, AwaitEntitled
<1>3. owed \in Nat /\ OnMeter(SettleOpenIn, d, "drained", owed)
  BY <1>2, MeterPays
<1>4. c \in Progress /\ c.await = "drained" /\ c.amount = owed
  <2>1. req[q].call \in Progress /\ "drained" \in EngineAwaits /\ owed \in Int
    BY <1>2, <1>3 DEF EngineAwaits
  <2> HIDE DEF owed
  <2> QED
    BY <2>1 DEF Progress
<1>5. /\ e \in EngineRecord(SettleOpenIn)
      /\ SameBooks(e, d)
  BY <1>2 DEF OnMeter, EngineRecord, SameBooks
<1>6. Grows(e, d) /\ Stretch(e, d)
  BY <1>5, GrowsStill DEF SameBooks, Stretch
<1>7. \A lines : AddsAcks(e.trace, d.trace, lines)
  BY <1>5 DEF AddsAcks, SameBooks
<1> HIDE DEF d, c, owed, e
<1> QED
  BY <1>1, <1>2, <1>3, <1>4, <1>6, <1>7 DEF Advances, EngineAwaits, e

\* The engine adds it up and answers.
LEMMA AdvanceEndsAdvances ==
  ASSUME ServiceInv, NEW q \in Request, AdvanceEnds(q)
  PROVE  \E e : Advances(q, e)
<1> DEFINE e == EngineOf(q)
           c == req[q].call
           d == Billed(e, c.seq, c.amount)
           reply == Ok(d, SessionOf(q).tier)
<1>1. Await(q) = "drained" /\ Await(q) \in EngineAwaits /\ Leave(q, d, reply)
  BY DEF AdvanceEnds, EngineAwaits
<1>2. Entitled(q) /\ OnMeter(SettleOpenIn, e, "drained", c.amount) /\ c \in Progress
  BY <1>1, AwaitEntitled
<1>3. c.seq \in Nat /\ c.amount \in Int
  BY <1>2 DEF Progress
<1>4. OnMeter(SettleOpenIn, d, "none", 0) /\ Grows(e, d)
  BY <1>2, <1>3, MeterBilled, GrowsBilled
<1>5. e \in EngineRecord(SettleOpenIn) /\ e.trace \in Seq(Line)
  BY <1>2 DEF OnMeter, EngineRecord
<1>6. d.trace = Append(e.trace, TickLine(e.open_in.ref, c.seq, c.amount, e.tick))
  BY <1>5 DEF Billed, EngineRecord
<1>7. \A lines : AddsAcks(e.trace, d.trace, lines)
  BY <1>5, <1>6, AddsAcksAppend DEF AddsAcks, TickLine
<1>8. Stretch(e, d)
  BY <1>2, <1>3 DEF Stretch
<1>9. reply = Ok(d, SessionOf(q).tier)
  OBVIOUS
<1> HIDE DEF d, c, reply, e
<1> QED
  BY <1>1, <1>2, <1>4, <1>7, <1>8, <1>9 DEF Advances, e

\* A close asks the plugin for its receipt.
LEMMA CloseBeginsAdvances ==
  ASSUME ServiceInv, NEW q \in Request, CloseBegins(q)
  PROVE  \E e : Advances(q, e)
<1> DEFINE e == EngineOf(q)
           n == LastSeq(e)
           c == CallAt("close_stream", n, "closed")
<1>1. Granted(q, "close") /\ ~e.closed /\ Stay(q, e, c)
  BY DEF CloseBegins
<1>2. Entitled(q) /\ OnMeter(SettleOpenIn, e, "none", 0)
  BY <1>1, GrantedEntitled
<1>3. OnMeter(SettleOpenIn, e, "close_stream", 0)
  BY <1>1, <1>2, MeterCloses
<1>4. LastSeq(e) \in Nat /\ e \in EngineRecord(SettleOpenIn)
  BY <1>2, LastSeqType DEF OnMeter
<1>5. c \in Progress /\ c.await = "close_stream" /\ c.amount = 0
  <2>1. "close_stream" \in EngineAwaits /\ "closed" \in CloseReason
    BY DEF EngineAwaits, CloseReason
  <2>2. n \in Nat
    BY <1>4
  <2> HIDE DEF n
  <2> QED
    BY <2>1, <2>2 DEF CallAt, Progress
<1>6. Grows(e, e) /\ Stretch(e, e)
  BY <1>4, GrowsStill DEF Stretch, SameBooks
<1>7. \A lines : AddsAcks(e.trace, e.trace, lines)
  BY DEF AddsAcks
<1> HIDE DEF c, e
<1> QED
  BY <1>1, <1>2, <1>3, <1>5, <1>6, <1>7 DEF Advances, EngineAwaits, e

\* The plugin gives it.
LEMMA PluginClosesAdvances ==
  ASSUME ServiceInv, NEW q \in Request, PluginCloses(q)
  PROVE  \E e : Advances(q, e)
<1> DEFINE e == EngineOf(q)
<1>1. Await(q) = "close_stream" /\ Await(q) \in EngineAwaits
  BY DEF PluginCloses, EngineAwaits
<1>2. PICK p \in CloseStream(e.plugin, e.tick) :
        Stay(q, [e EXCEPT !.plugin = p],
             [req[q].call EXCEPT !.await = "receipt", !.amount = p.drained])
  BY DEF PluginCloses
<1> DEFINE d == [e EXCEPT !.plugin = p]
           c == [req[q].call EXCEPT !.await = "receipt", !.amount = p.drained]
<1>3. /\ Entitled(q) /\ OnMeter(SettleOpenIn, e, "close_stream", req[q].call.amount)
      /\ req[q].call \in Progress
  BY <1>1, AwaitEntitled
<1>4. OnMeter(SettleOpenIn, d, "receipt", p.drained)
  BY <1>3, MeterPluginCloses
<1>5. e.plugin \in Stream /\ e.tick \in Int /\ e \in EngineRecord(SettleOpenIn)
  BY <1>3 DEF OnMeter, EngineRecord
<1>6. p \in Stream /\ p.drained \in Int
  BY <1>5, StreamType DEF Stream
<1>7. c \in Progress /\ c.await = "receipt" /\ c.amount = p.drained
  BY <1>3, <1>6 DEF Progress, EngineAwaits
<1>8. SameBooks(e, d)
  BY <1>5 DEF EngineRecord, SameBooks
<1>9. Grows(e, d) /\ Stretch(e, d)
  BY <1>5, <1>8, GrowsStill DEF SameBooks, Stretch
<1>10. \A lines : AddsAcks(e.trace, d.trace, lines)
  BY <1>8 DEF AddsAcks, SameBooks
<1>11. Stay(q, d, c)
  BY <1>2
<1> HIDE DEF d, c, e
<1> QED
  BY <1>3, <1>4, <1>7, <1>9, <1>10, <1>11 DEF Advances, EngineAwaits, e

\* The engine takes the receipt over and answers.
LEMMA CloseEndsAdvances ==
  ASSUME ServiceInv, NEW q \in Request, CloseEnds(q)
  PROVE  \E e : Advances(q, e)
<1> DEFINE e == EngineOf(q)
           c == req[q].call
           d == ClosedWith(e, c.seq, c.amount, c.reason)
           reply == Ok(d, SessionOf(q).tier)
<1>1. Await(q) = "receipt" /\ Await(q) \in EngineAwaits /\ Leave(q, d, reply)
  BY DEF CloseEnds, EngineAwaits
<1>2. Entitled(q) /\ OnMeter(SettleOpenIn, e, "receipt", c.amount) /\ c \in Progress
  BY <1>1, AwaitEntitled
<1>3. c.seq \in Nat /\ c.amount \in Int /\ c.reason \in CloseReason
  BY <1>2 DEF Progress
<1>4. OnMeter(SettleOpenIn, d, "none", 0) /\ Grows(e, d)
  BY <1>2, <1>3, MeterClosed, GrowsClosed
<1>5. e \in EngineRecord(SettleOpenIn) /\ e.trace \in Seq(Line)
  BY <1>2 DEF OnMeter, EngineRecord
<1>6. d.trace = Append(e.trace,
                       StreamCloseLine(e.open_in.ref, c.seq, c.amount, e.tick, c.reason))
  BY <1>5 DEF ClosedWith, EngineRecord
<1>7. \A lines : AddsAcks(e.trace, d.trace, lines)
  BY <1>5, <1>6, AddsAcksAppend DEF AddsAcks, StreamCloseLine
<1>8. Stretch(e, d)
  BY <1>2, <1>3 DEF Stretch
<1>9. reply = Ok(d, SessionOf(q).tier)
  OBVIOUS
<1> HIDE DEF d, c, reply, e
<1> QED
  BY <1>1, <1>2, <1>4, <1>7, <1>8, <1>9 DEF Advances, e

\* So every handler inside an engine does.
LEMMA EngineAdvances ==
  ASSUME ServiceInv, NEW q \in Request, InEngine(q)
  PROVE  \E e : Advances(q, e)
BY TrustRefusedAdvances, AdvanceJudgedAdvances, PluginAdvancesAdvances, AdvanceEndsAdvances,
   CloseBeginsAdvances, PluginClosesAdvances, CloseEndsAdvances DEF InEngine

(***************************************************************************)
(* Arrivals and /settle/open: no engine that is registered moves.          *)
(***************************************************************************)

\* Deal r's session keeps its engine, its terms and whoever heads its lock.
KeepsSession(r) ==
  sessions[r] # Null =>
    /\ sessions'[r] # Null /\ sessions'[r] \in Session
    /\ sessions'[r].engine = sessions[r].engine /\ sessions'[r].tier = sessions[r].tier
    /\ sessions[r].queue # <<>> => /\ sessions'[r].queue # <<>>
                                  /\ sessions'[r].queue[1] = sessions[r].queue[1]

\* A step of one slot outside the engines keeps the invariant if it spares the others.
LEMMA SlotStep ==
  ASSUME ServiceInv, NEW q \in Request, Await(q) \notin EngineAwaits,
         DOMAIN req' = Request, \A p \in Request : p # q => req'[p] = req[p],
         SlotOK(q)', Await(q)' \notin EngineAwaits, OpenerOK(q)',
         DOMAIN sessions' = Ref, \A r \in Ref : KeepsSession(r),
         \A r \in Ref : sessions[r] = Null => SessionOK(r)' /\ MeterOK(r)',
         \A p \in Request :
           p # q /\ Await(p) = "open_stream" => HoldsOpenLock(p)' /\ SessionOf(p)' = Null,
         open_queue' \in Seq(Request), life' = life
  PROVE  ServiceInv'
<1>1. \A r : \A p \in Request : InsideOf(p, r)' <=> InsideOf(p, r)
  BY DEF InsideOf, BodyOf, Await
<1>2. ASSUME NEW p \in Request, p # q
      PROVE  SlotOK(p)' /\ OpenerOK(p)' /\ WorkerOK(p)'
  <2>0. SlotOK(p) /\ OpenerOK(p) /\ WorkerOK(p) /\ req'[p] = req[p]
    BY <1>2 DEF ServiceInv
  <2>1. SlotOK(p)'
    BY <2>0 DEF SlotOK, BodyOf, Await
  <2>2. OpenerOK(p)'
    BY <1>2, <2>0 DEF OpenerOK, BodyOf, Await
  <2>3. WorkerOK(p)'
    <3> SUFFICES ASSUME Await(p) \in EngineAwaits
                 PROVE  WorkerOK(p)'
      BY <2>0 DEF WorkerOK, Await
    <3>1. BodyOf(p) \in Bodies /\ BodyOf(p).ref \in Ref
      BY <2>0, BodyAssumption DEF SlotOK, Await, EngineAwaits
    <3>2. KeepsSession(BodyOf(p).ref)
      BY <3>1
    <3> QED
      BY <2>0, <3>1, <3>2 DEF WorkerOK, KeepsSession, SessionOf, BodyOf, Await, HoldsSession
  <2> QED
    BY <2>1, <2>2, <2>3
<1>3. WorkerOK(q)'
  BY DEF WorkerOK
<1>4. ASSUME NEW r \in Ref
      PROVE  SessionOK(r)' /\ MeterOK(r)'
  <2>1. CASE sessions[r] = Null
    BY <2>1
  <2>2. CASE sessions[r] # Null
    <3>1. SessionOK(r) /\ MeterOK(r) /\ KeepsSession(r)
      BY DEF ServiceInv
    <3>2. SessionOK(r)'
      BY <2>2, <3>1 DEF SessionOK, KeepsSession
    <3>3. (\A p \in Request : ~InsideOf(p, r))'
            => OnMeter(SettleOpenIn, sessions'[r].engine, "none", 0)
      BY <1>1, <2>2, <3>1 DEF MeterOK, KeepsSession
    <3>4. ASSUME NEW p \in Request, InsideOf(p, r)'
          PROVE  OnMeter(SettleOpenIn, sessions'[r].engine, Await(p)', req'[p].call.amount)
      <4>1. InsideOf(p, r) /\ p # q /\ req'[p] = req[p]
        BY <1>1, <3>4 DEF InsideOf
      <4> QED
        BY <2>2, <3>1, <4>1 DEF MeterOK, KeepsSession, Await
    <3> QED
      BY <3>2, <3>3, <3>4 DEF MeterOK
  <2> QED
    BY <2>1, <2>2
<1> QED
  BY <1>2, <1>3, <1>4 DEF ServiceInv

\* A request that asks for open_lock.
LEMMA OpenArrivesKeeps ==
  ASSUME ServiceInv, NEW q \in Request, NEW b \in Bodies, OpenArrives(q, b)
  PROVE  ServiceInv'
<1>1. /\ req' = [req EXCEPT ![q] = [IdleSlot EXCEPT !.stage = "waiting", !.body = b]]
      /\ open_queue' = Append(open_queue, q) /\ sessions' = sessions /\ life' = life
      /\ Free(q)
  BY DEF OpenArrives, Enter
<1>2. SlotOK(q) /\ DOMAIN req = Request /\ DOMAIN sessions = Ref /\ open_queue \in Seq(Request)
  BY DEF ServiceInv
<1>3. Await(q) = "none"
  BY <1>1, <1>2 DEF Free, SlotOK
<1>4. /\ DOMAIN req' = Request /\ \A p \in Request : p # q => req'[p] = req[p]
      /\ req'[q] = [stage |-> "waiting", body |-> b, call |-> NoCall, reply |-> NoReply]
  BY <1>1, <1>2 DEF IdleSlot
<1>5. SlotOK(q)' /\ Await(q)' = "none"
  BY <1>4, NoCallType DEF SlotOK, BodyOf, Await
<1>6. OpenerOK(q)'
  BY <1>5 DEF OpenerOK
<1>7. \A r \in Ref : KeepsSession(r)
  BY <1>1 DEF ServiceInv, SessionOK, KeepsSession
<1>8. \A r \in Ref : sessions[r] = Null => SessionOK(r)' /\ MeterOK(r)'
  BY <1>1 DEF SessionOK, MeterOK
<1>9. \A p \in Request :
        p # q /\ Await(p) = "open_stream" => HoldsOpenLock(p)' /\ SessionOf(p)' = Null
  BY <1>1, <1>2, <1>4 DEF ServiceInv, OpenerOK, HoldsOpenLock, SessionOf, BodyOf
<1>10. open_queue' \in Seq(Request)
  BY <1>1, <1>2
<1>11. Await(q) \notin EngineAwaits /\ Await(q)' \notin EngineAwaits
  BY <1>3, <1>5 DEF EngineAwaits
<1> QED
  BY <1>1, <1>2, <1>4, <1>5, <1>6, <1>7, <1>8, <1>9, <1>10, <1>11, SlotStep

\* A request that asks for its session's lock, or for a deal without a session.
LEMMA SessionArrivesKeeps ==
  ASSUME ServiceInv, NEW q \in Request, NEW b \in Bodies, SessionArrives(q, b)
  PROVE  ServiceInv'
<1>1. SlotOK(q) /\ DOMAIN req = Request /\ DOMAIN sessions = Ref /\ open_queue \in Seq(Request)
  BY DEF ServiceInv
<1>2. Await(q) = "none"
  BY <1>1 DEF SessionArrives, Free, SlotOK
<1>3. open_queue' = open_queue /\ life' = life /\ b.ref \in Ref
  BY BodyAssumption DEF SessionArrives
<1>4. PICK stage \in {"waiting", "done"} :
        /\ DOMAIN req' = Request /\ \A p \in Request : p # q => req'[p] = req[p]
        /\ req'[q] = [stage |-> stage, body |-> b, call |-> NoCall, reply |-> req'[q].reply]
  <2>1. CASE req' = [req EXCEPT ![q] = [IdleSlot EXCEPT !.stage = "done", !.body = b,
                                                        !.reply = Refusal(404)]]
    BY <1>1, <2>1 DEF IdleSlot
  <2>2. CASE Enter(q, b)
    BY <1>1, <2>2 DEF IdleSlot, Enter
  <2> QED
    BY <2>1, <2>2 DEF SessionArrives
<1>5. SlotOK(q)' /\ Await(q)' = "none"
  BY <1>4, NoCallType DEF SlotOK, BodyOf, Await
<1>6. OpenerOK(q)'
  BY <1>5 DEF OpenerOK
<1>7. /\ DOMAIN sessions' = Ref
      /\ \A r \in Ref : r # b.ref \/ sessions[r] = Null => sessions'[r] = sessions[r]
      /\ \/ sessions'[b.ref] = sessions[b.ref]
         \/ sessions'[b.ref] =
              [sessions[b.ref] EXCEPT !.queue = Append(sessions[b.ref].queue, q)]
  BY <1>1, <1>3 DEF SessionArrives
<1>8. ASSUME NEW r \in Ref
      PROVE  KeepsSession(r)
  <2> SUFFICES ASSUME sessions[r] # Null
               PROVE  KeepsSession(r)
    BY DEF KeepsSession
  <2>1. sessions[r] \in Session
    BY DEF ServiceInv, SessionOK
  <2>2. CASE sessions'[r] = sessions[r]
    BY <2>1, <2>2 DEF KeepsSession
  <2>3. CASE sessions'[r] = [sessions[r] EXCEPT !.queue = Append(sessions[r].queue, q)]
    <3> DEFINE s == sessions[r]
               t == [s EXCEPT !.queue = Append(s.queue, q)]
    <3>1. s.queue \in Seq(Request) /\ Append(s.queue, q) \in Seq(Request)
      BY <2>1 DEF Session
    <3>2. /\ t \in Session /\ t.engine = s.engine /\ t.tier = s.tier
          /\ t.queue = Append(s.queue, q)
      BY <2>1, <3>1 DEF Session
    <3>3. t # Null
      BY <3>2, NoSessionAssumption
    <3>4. s.queue # <<>> => t.queue # <<>> /\ t.queue[1] = s.queue[1]
      BY <3>1, <3>2
    <3> HIDE DEF t
    <3> QED
      BY <2>3, <3>2, <3>3, <3>4 DEF KeepsSession, t
  <2> QED
    BY <1>7, <2>2, <2>3
<1>9. \A r \in Ref : sessions[r] = Null => SessionOK(r)' /\ MeterOK(r)'
  BY <1>7 DEF SessionOK, MeterOK
<1>10. \A p \in Request :
         p # q /\ Await(p) = "open_stream" => HoldsOpenLock(p)' /\ SessionOf(p)' = Null
  <2> SUFFICES ASSUME NEW p \in Request, p # q, Await(p) = "open_stream"
               PROVE  HoldsOpenLock(p)' /\ SessionOf(p)' = Null
    OBVIOUS
  <2>1. SlotOK(p) /\ OpenerOK(p) /\ req'[p] = req[p]
    BY <1>4 DEF ServiceInv
  <2>2. BodyOf(p).ref \in Ref /\ SessionOf(p) = Null /\ HoldsOpenLock(p)
    BY <2>1, BodyAssumption DEF SlotOK, OpenerOK
  <2> QED
    BY <1>3, <1>7, <2>1, <2>2 DEF HoldsOpenLock, SessionOf, BodyOf
<1>11. Await(q) \notin EngineAwaits /\ Await(q)' \notin EngineAwaits
  BY <1>2, <1>5 DEF EngineAwaits
<1> QED
  BY <1>1, <1>3, <1>4, <1>5, <1>6, <1>7, <1>8, <1>9, <1>10, <1>11, SlotStep

\* The head of open_lock, about to look for a session.
LEMMA OpeningEntitled ==
  ASSUME ServiceInv, NEW q \in Request, Opening(q) \/ Await(q) = "open_stream"
  PROVE  /\ SlotOK(q) /\ BodyOf(q) \in Bodies /\ BodyOf(q).op = "open"
         /\ BodyOf(q).ref \in Ref /\ BodyOf(q).open_in \in SettleOpenIn
         /\ BodyOf(q).open_in.ref = BodyOf(q).ref
         /\ HoldsOpenLock(q) /\ Await(q) \notin EngineAwaits
         /\ \A p \in Request : p # q => Await(p) # "open_stream"
         /\ Tail(open_queue) \in Seq(Request)
         /\ DOMAIN req = Request /\ DOMAIN sessions = Ref
<1>1. /\ SlotOK(q) /\ OpenerOK(q) /\ open_queue \in Seq(Request)
      /\ DOMAIN req = Request /\ DOMAIN sessions = Ref
  BY DEF ServiceInv
<1>2. /\ BodyOf(q) \in Bodies /\ BodyOf(q).op = "open" /\ HoldsOpenLock(q)
      /\ Await(q) \in {"none", "open_stream"}
  BY <1>1 DEF Opening, SlotOK, OpenerOK, BodyOf
<1>3. \A p \in Request : p # q => Await(p) # "open_stream"
  BY <1>2 DEF ServiceInv, OpenerOK, HoldsOpenLock
<1>4. Tail(open_queue) \in Seq(Request)
  BY <1>1, <1>2 DEF HoldsOpenLock
<1> QED
  BY <1>1, <1>2, <1>3, <1>4, BodyAssumption DEF EngineAwaits

\* An open that is refused, or that begins.
LEMMA OpenRefusedBeginsKeeps ==
  ASSUME ServiceInv, NEW q \in Request, OpenRefused(q) \/ OpenBegins(q)
  PROVE  ServiceInv'
<1>1. /\ SlotOK(q) /\ BodyOf(q) \in Bodies /\ BodyOf(q).op = "open" /\ HoldsOpenLock(q)
      /\ Await(q) \notin EngineAwaits
      /\ \A p \in Request : p # q => Await(p) # "open_stream"
      /\ DOMAIN req = Request /\ DOMAIN sessions = Ref
  BY OpeningEntitled DEF OpenRefused, OpenBegins
<1>2. sessions' = sessions /\ life' = life
  BY DEF OpenRefused, OpenBegins
<1>3. open_queue' \in Seq(Request)
  BY OpeningEntitled DEF OpenRefused, OpenBegins, ServiceInv
<1>4. DOMAIN req' = Request /\ \A p \in Request : p # q => req'[p] = req[p]
  BY <1>1 DEF OpenRefused, OpenBegins, Answer
<1>5. SlotOK(q)' /\ Await(q)' \notin EngineAwaits /\ OpenerOK(q)'
  <2>1. CASE OpenRefused(q)
    <3>0. PICK reply : Answer(q, reply)
      BY <2>1 DEF OpenRefused
    <3>1. req'[q] = [stage |-> "done", body |-> req[q].body, call |-> NoCall, reply |-> reply]
      BY <1>1, <3>0 DEF Answer, SlotOK
    <3> QED
      BY <1>1, <3>1, NoCallType DEF SlotOK, BodyOf, Await, OpenerOK, EngineAwaits
  <2>2. CASE OpenBegins(q)
    <3> DEFINE c == [req[q].call EXCEPT !.await = "open_stream"]
    <3>1. req'[q] = [stage |-> "running", body |-> req[q].body, call |-> c,
                     reply |-> req[q].reply]
      BY <1>1, <2>2 DEF OpenBegins, SlotOK
    <3>2. c \in Progress /\ c.await = "open_stream"
      BY <1>1 DEF SlotOK, Progress
    <3>3. open_queue' = open_queue /\ SessionOf(q) = Null /\ ~Unmeterable(BodyOf(q).open_in)
      BY <2>2 DEF OpenBegins
    <3> HIDE DEF c
    <3>4. SlotOK(q)' /\ Await(q)' \notin EngineAwaits
      BY <1>1, <3>1, <3>2 DEF SlotOK, BodyOf, Await, EngineAwaits
    <3>5. OpenerOK(q)'
      BY <1>1, <1>2, <3>1, <3>3 DEF OpenerOK, BodyOf, SessionOf, HoldsOpenLock
    <3> QED
      BY <3>4, <3>5
  <2> QED
    BY <2>1, <2>2
<1>6. \A r \in Ref : KeepsSession(r)
  BY <1>2 DEF ServiceInv, SessionOK, KeepsSession
<1>7. \A r \in Ref : sessions[r] = Null => SessionOK(r)' /\ MeterOK(r)'
  BY <1>2 DEF SessionOK, MeterOK
<1> QED
  BY <1>1, <1>2, <1>3, <1>4, <1>5, <1>6, <1>7, SlotStep

\* An open that ends registers a session whose meter has just started.
LEMMA OpenEndsKeeps ==
  ASSUME ServiceInv, NEW q \in Request, OpenEnds(q)
  PROVE  /\ ServiceInv' /\ SessionOf(q) = Null /\ BodyOf(q).ref \in Ref
         /\ \A r \in Ref : sessions[r] # Null => sessions'[r] = sessions[r]
<1> DEFINE i == BodyOf(q).open_in
           e == Opened(NewEngine, i)
           s == [engine |-> e, tier |-> i.attestor, queue |-> <<>>]
           reply == Ok(e, "hash-only")
<1>1. /\ SlotOK(q) /\ BodyOf(q) \in Bodies /\ BodyOf(q).op = "open" /\ i \in SettleOpenIn
      /\ BodyOf(q).ref \in Ref /\ i.ref = BodyOf(q).ref
      /\ Await(q) \notin EngineAwaits
      /\ \A p \in Request : p # q => Await(p) # "open_stream"
      /\ Tail(open_queue) \in Seq(Request)
      /\ DOMAIN req = Request /\ DOMAIN sessions = Ref
  BY OpeningEntitled DEF OpenEnds
<1>2. SessionOf(q) = Null /\ ~Unmeterable(i)
  BY DEF ServiceInv, OpenerOK, OpenEnds
<1>3. /\ sessions' = [sessions EXCEPT ![i.ref] = s] /\ life' = life
      /\ open_queue' = Tail(open_queue) /\ Answer(q, reply)
  BY DEF OpenEnds
<1>4. NewEngine \in EngineRecord(SettleOpenIn)
  BY DEF NewEngine, EngineRecord
<1>5. /\ e \in EngineRecord(SettleOpenIn) /\ e.open_in = i
      /\ OnMeter(SettleOpenIn, e, "none", 0)
  BY <1>1, <1>2, <1>4, OpenedType, MeterOpened DEF NewEngine
<1> HIDE DEF e, reply
<1>6. s \in Session /\ s.engine = e /\ s.tier = i.attestor
  BY <1>1, <1>5 DEF Session, SettleOpenIn
<1>7. /\ DOMAIN req' = Request /\ \A p \in Request : p # q => req'[p] = req[p]
      /\ req'[q] = [stage |-> "done", body |-> req[q].body, call |-> NoCall, reply |-> reply]
  BY <1>1, <1>3 DEF Answer, SlotOK
<1>8. SlotOK(q)' /\ Await(q)' \notin EngineAwaits /\ OpenerOK(q)'
  BY <1>1, <1>7, NoCallType DEF SlotOK, BodyOf, Await, OpenerOK, EngineAwaits
<1>9. /\ DOMAIN sessions' = Ref /\ sessions'[i.ref] = s
      /\ \A r \in Ref : r # i.ref => sessions'[r] = sessions[r]
  BY <1>1, <1>3
<1> HIDE DEF s
<1>10. \A r \in Ref : sessions[r] # Null => sessions'[r] = sessions[r]
  BY <1>1, <1>2, <1>9 DEF SessionOf
<1>11. \A r \in Ref : KeepsSession(r)
  BY <1>10 DEF ServiceInv, SessionOK, KeepsSession
<1>12. ASSUME NEW r \in Ref, sessions[r] = Null
       PROVE  SessionOK(r)' /\ MeterOK(r)'
  <2>1. CASE r # i.ref
    BY <1>9, <1>12, <2>1 DEF SessionOK, MeterOK
  <2>2. CASE r = i.ref
    <3>1. \A p \in Request : ~InsideOf(p, r)'
      <4> SUFFICES ASSUME NEW p \in Request, InsideOf(p, r)'
                   PROVE  FALSE
        OBVIOUS
      <4>1. p # q /\ req'[p] = req[p]
        BY <1>7, <1>8 DEF InsideOf
      <4>2. WorkerOK(p) /\ Await(p) \in EngineAwaits /\ BodyOf(p).ref = r
        BY <4>1 DEF InsideOf, Await, BodyOf, ServiceInv
      <4> QED
        BY <1>12, <4>2 DEF WorkerOK, SessionOf
    <3>2. SessionOK(r)'
      BY <1>5, <1>6, <1>9, <2>2 DEF SessionOK
    <3>3. MeterOK(r)'
      BY <1>5, <1>6, <1>9, <2>2, <3>1 DEF MeterOK
    <3> QED
      BY <3>2, <3>3
  <2> QED
    BY <2>1, <2>2
<1>13. ServiceInv'
  BY <1>1, <1>3, <1>7, <1>8, <1>9, <1>11, <1>12, SlotStep
<1> QED
  BY <1>1, <1>2, <1>10, <1>13

\* A restart leaves nobody inside an engine, for there is none.
LEMMA RestartKeeps ==
  ASSUME ServiceInv, Restart
  PROVE  ServiceInv'
<1>1. /\ life' \in 0 .. MaxRestarts /\ open_queue' \in Seq(Request)
      /\ DOMAIN sessions' = Ref /\ \A r \in Ref : sessions'[r] = Null
      /\ DOMAIN req' = Request
  <2>1. MaxRestarts \in Nat /\ life \in 0 .. MaxRestarts /\ life < MaxRestarts /\ life' = life + 1
    <3>1. MaxRestarts \in Nat /\ life \in 0 .. MaxRestarts
      BY ServiceAssumption DEF ServiceInv
    <3>2. life < MaxRestarts /\ life' = life + 1
      BY DEF Restart
    <3> QED
      BY <3>1, <3>2
  <2>2. life' \in 0 .. MaxRestarts
    BY <2>1
  <2>3. open_queue' \in Seq(Request)
    <3>1. open_queue' = <<>>
      BY DEF Restart
    <3> QED
      BY <3>1
  <2>4. DOMAIN sessions' = Ref /\ \A r \in Ref : sessions'[r] = Null
    BY DEF Restart
  <2>5. DOMAIN req' = Request
    BY DEF Restart
  <2> QED
    BY <2>2, <2>3, <2>4, <2>5
<1>2. ASSUME NEW q \in Request
      PROVE  SlotOK(q)' /\ Await(q)' = "none"
  <2>0. SlotOK(q)
    BY DEF ServiceInv
  <2>1. CASE Free(q)
    <3>1. req'[q] = req[q] /\ Await(q) = "none"
      BY <2>0, <2>1 DEF Restart, Free, SlotOK
    <3> QED
      BY <2>0, <3>1 DEF SlotOK, BodyOf, Await
  <2>2. CASE ~Free(q)
    <3>1. req'[q] = [stage |-> "done", body |-> req[q].body, call |-> NoCall,
                     reply |-> Refusal(0)]
      BY <2>0, <2>2 DEF Restart, SlotOK
    <3> QED
      BY <2>0, <2>2, <3>1, NoCallType DEF SlotOK, BodyOf, Await, Free
  <2> QED
    BY <2>1, <2>2
<1>3. \A q \in Request : OpenerOK(q)' /\ WorkerOK(q)'
  BY <1>2 DEF OpenerOK, WorkerOK, EngineAwaits
<1>4. \A r \in Ref : SessionOK(r)' /\ MeterOK(r)'
  BY <1>1 DEF SessionOK, MeterOK
<1> QED
  BY <1>1, <1>2, <1>3, <1>4 DEF ServiceInv

\* A step that changes nothing.
LEMMA StutterKeeps ==
  ASSUME ServiceInv, UNCHANGED vars
  PROVE  ServiceInv'
BY DEF vars, ServiceInv, SlotOK, OpenerOK, WorkerOK, SessionOK, MeterOK, InsideOf, Await,
       BodyOf, SessionOf, HoldsOpenLock, HoldsSession

(***************************************************************************)
(* The invariant.                                                          *)
(***************************************************************************)

\* It holds when the process starts.
LEMMA ServiceStart == Init => ServiceInv
<1> SUFFICES ASSUME Init
             PROVE  ServiceInv
  OBVIOUS
<1>1. /\ life \in 0 .. MaxRestarts /\ open_queue \in Seq(Request)
      /\ DOMAIN sessions = Ref /\ \A r \in Ref : sessions[r] = Null
      /\ DOMAIN req = Request
  BY ServiceAssumption DEF Init
<1>2. ASSUME NEW q \in Request
      PROVE  SlotOK(q) /\ Await(q) = "none"
  BY NoCallType DEF Init, IdleSlot, SlotOK, BodyOf, Await
<1> QED
  BY <1>1, <1>2 DEF ServiceInv, OpenerOK, WorkerOK, SessionOK, MeterOK, EngineAwaits

\* Every step keeps it.
LEMMA ServiceStep == ServiceInv /\ [Next]_vars => ServiceInv'
<1> SUFFICES ASSUME ServiceInv, [Next]_vars
             PROVE  ServiceInv'
  OBVIOUS
<1>1. ASSUME NEW q \in Request, NEW b \in Bodies, OpenArrives(q, b) \/ SessionArrives(q, b)
      PROVE  ServiceInv'
  BY <1>1, OpenArrivesKeeps, SessionArrivesKeeps
<1>2. ASSUME NEW q \in Request, OpenRefused(q) \/ OpenBegins(q) \/ OpenEnds(q)
      PROVE  ServiceInv'
  BY <1>2, OpenRefusedBeginsKeeps, OpenEndsKeeps
<1>3. ASSUME NEW q \in Request, InEngine(q)
      PROVE  ServiceInv'
  BY <1>3, EngineAdvances, AdvancesKeeps
<1>4. CASE Restart
  BY <1>4, RestartKeeps
<1>5. CASE UNCHANGED vars
  BY <1>5, StutterKeeps
<1> QED
  BY <1>1, <1>2, <1>3, <1>4, <1>5 DEF Next, Handle, InEngine

\* What each slot, each lock and each meter is entitled to, whatever requests interleave.
THEOREM ServiceCorrect == Spec => []ServiceInv
BY ServiceStart, ServiceStep, PTL DEF Spec
\* Two requests on one deal never tear its accounts, whatever the number of slots, the
\* bodies and the terms: at rest the meter has paid exactly what is due.
THEOREM LedgersAgreeAlways == Spec => []LedgersAgree
<1>1. ServiceInv => LedgersAgree
  <2> SUFFICES ASSUME ServiceInv, NEW r \in Ref, AtRest(r)
               PROVE  LET e == sessions[r].engine
                      IN  /\ e.plugin.drained = e.settled /\ e.plugin.at = e.tick
                          /\ e.settled <= e.open_in.rate * VerifiedCount(e.per_unit)
                          /\ e.settled <= e.open_in.max_total
    BY DEF LedgersAgree
  <2> DEFINE e == sessions[r].engine
  <2>1. sessions[r] # Null /\ MeterOK(r)
    BY DEF AtRest, ServiceInv
  <2>2. \A q \in Request : ~InsideOf(q, r)
    BY DEF AtRest, ServiceInv, SlotOK, InsideOf, EngineAwaits
  <2>3. OnMeter(SettleOpenIn, e, "none", 0)
    BY <2>1, <2>2 DEF MeterOK
  <2> HIDE DEF e
  <2>4. e.plugin.drained = e.settled /\ e.plugin.at = e.tick
    BY <2>3 DEF OnMeter, Metered, Settled, InStep
  <2>5. e.settled <= e.open_in.rate * Verified(e) /\ e.settled <= e.open_in.max_total
    BY <2>3, MeterBounds
  <2> QED
    BY <2>4, <2>5 DEF e, Verified
<1> QED
  BY <1>1, ServiceCorrect, PTL

(***************************************************************************)
(* What one step does to one session.                                      *)
(***************************************************************************)

\* Where a request moves an engine, its own session changes and no other.
LEMMA AdvancesMoves ==
  ASSUME ServiceInv, NEW q \in Request, NEW e, Advances(q, e), NEW r \in Ref
  PROVE  /\ r # BodyOf(q).ref => sessions'[r] = sessions[r]
         /\ r = BodyOf(q).ref => /\ sessions[r] # Null /\ sessions'[r] # Null
                                /\ sessions'[r].engine = e
                                /\ sessions'[r].tier = sessions[r].tier
         /\ life' = life
<1>1. /\ BodyOf(q).ref \in Ref /\ SessionOf(q) # Null /\ SessionOf(q) \in Session
      /\ DOMAIN sessions = Ref
  BY Alone DEF Advances, Entitled, SessionOK, SessionOf, ServiceInv
<1>2. SessionOf(q).queue \in Seq(Request) /\ SessionOf(q).queue # <<>>
  BY <1>1, Alone DEF Advances, Session
<1>3. e \in EngineRecord(SettleOpenIn)
  BY DEF Advances, OnMeter
<1>4. \E queue \in Seq(Request) :
        sessions' = [sessions EXCEPT ![BodyOf(q).ref] =
                      [engine |-> e, tier |-> SessionOf(q).tier, queue |-> queue]]
  <2>1. ASSUME NEW call, Stay(q, e, call)
        PROVE  sessions' = [sessions EXCEPT ![BodyOf(q).ref] =
                 [engine |-> e, tier |-> SessionOf(q).tier, queue |-> SessionOf(q).queue]]
    <3>1. [SessionOf(q) EXCEPT !.engine = e]
            = [engine |-> e, tier |-> SessionOf(q).tier, queue |-> SessionOf(q).queue]
      BY <1>1 DEF Session
    <3>2. sessions' = [sessions EXCEPT ![BodyOf(q).ref] = [SessionOf(q) EXCEPT !.engine = e]]
      BY <2>1 DEF Stay, SessionOf
    <3> QED
      BY <3>1, <3>2
  <2>2. ASSUME NEW reply, Leave(q, e, reply)
        PROVE  sessions' = [sessions EXCEPT ![BodyOf(q).ref] =
                 [engine |-> e, tier |-> SessionOf(q).tier, queue |-> Tail(SessionOf(q).queue)]]
    BY <2>2 DEF Leave
  <2>3. Tail(SessionOf(q).queue) \in Seq(Request)
    BY <1>2
  <2> QED
    BY <1>2, <2>1, <2>2, <2>3 DEF Advances
<1>5. PICK queue \in Seq(Request) :
        sessions' = [sessions EXCEPT ![BodyOf(q).ref] =
                      [engine |-> e, tier |-> SessionOf(q).tier, queue |-> queue]]
  BY <1>4
<1> DEFINE t == [engine |-> e, tier |-> SessionOf(q).tier, queue |-> queue]
<1>6. t \in Session /\ t # Null /\ t.engine = e /\ t.tier = SessionOf(q).tier
  BY <1>1, <1>3, NoSessionAssumption DEF Session
<1> HIDE DEF t
<1>7. life' = life
  BY DEF Advances, Stay, Leave
<1> QED
  BY <1>1, <1>5, <1>6, <1>7 DEF SessionOf, t

\* A session stands still, is moved by one request on it, or starts; a restart apart.
LEMMA SessionMoves ==
  ASSUME ServiceInv, [Next]_vars, life' = life, NEW r \in Ref
  PROVE  /\ sessions[r] # Null =>
              /\ sessions'[r] # Null /\ sessions'[r].tier = sessions[r].tier
              /\ \/ sessions'[r].engine = sessions[r].engine
                 \/ \E q \in Request :
                      BodyOf(q).ref = r /\ Advances(q, sessions'[r].engine)
         /\ sessions[r] = Null /\ sessions'[r] # Null =>
              \E i \in AllTerms : /\ i \in SettleOpenIn /\ i.ref = r /\ ~Unmeterable(i)
                                 /\ sessions'[r].engine = Opened(NewEngine, i)
<1> DEFINE Moves ==
      /\ sessions[r] # Null =>
           /\ sessions'[r] # Null /\ sessions'[r].tier = sessions[r].tier
           /\ \/ sessions'[r].engine = sessions[r].engine
              \/ \E q \in Request : BodyOf(q).ref = r /\ Advances(q, sessions'[r].engine)
      /\ sessions[r] = Null /\ sessions'[r] # Null =>
           \E i \in AllTerms : /\ i \in SettleOpenIn /\ i.ref = r /\ ~Unmeterable(i)
                              /\ sessions'[r].engine = Opened(NewEngine, i)
<1>0. /\ sessions[r] # Null => sessions[r] \in Session
      /\ DOMAIN sessions = Ref /\ life \in Int
  BY DEF ServiceInv, SessionOK
<1>1. ASSUME sessions' = sessions
      PROVE  Moves
  BY <1>1
<1>2. ASSUME NEW q \in Request, NEW b \in Bodies, SessionArrives(q, b)
      PROVE  Moves
  <2>1. CASE sessions' = sessions
    BY <2>1
  <2>2. CASE /\ sessions[b.ref] # Null
             /\ sessions' = [sessions EXCEPT ![b.ref].queue = Append(@, q)]
    <3>1. CASE r # b.ref
      BY <1>0, <2>2, <3>1
    <3>2. CASE r = b.ref
      <4>1. sessions'[r] = [sessions[r] EXCEPT !.queue = Append(sessions[r].queue, q)]
        BY <1>0, <2>2, <3>2
      <4>2. sessions[r].queue \in Seq(Request) /\ Append(sessions[r].queue, q) \in Seq(Request)
        BY <1>0, <2>2, <3>2 DEF Session
      <4>3. sessions'[r] \in Session /\ sessions'[r].engine = sessions[r].engine
            /\ sessions'[r].tier = sessions[r].tier
        BY <1>0, <2>2, <3>2, <4>1, <4>2 DEF Session
      <4>4. sessions'[r] # Null
        BY <4>3, NoSessionAssumption
      <4> QED
        BY <2>2, <3>2, <4>3, <4>4
    <3> QED
      BY <3>1, <3>2
  <2> QED
    BY <1>2, <2>1, <2>2 DEF SessionArrives
<1>3. ASSUME NEW q \in Request, OpenEnds(q)
      PROVE  Moves
  <2>1. CASE sessions[r] # Null
    BY <1>3, <2>1, OpenEndsKeeps
  <2>2. CASE sessions[r] = Null
    <3>1. /\ BodyOf(q).open_in \in SettleOpenIn /\ BodyOf(q).open_in \in AllTerms
          /\ ~Unmeterable(BodyOf(q).open_in)
      BY <1>3, OpeningEntitled DEF OpenEnds, AllTerms, ServiceInv, OpenerOK
    <3>2. r # BodyOf(q).open_in.ref => sessions'[r] = sessions[r]
      BY <1>0, <1>3 DEF OpenEnds
    <3>3. r = BodyOf(q).open_in.ref
            => sessions'[r].engine = Opened(NewEngine, BodyOf(q).open_in)
      BY <1>0, <1>3 DEF OpenEnds
    <3> QED
      BY <2>2, <3>1, <3>2, <3>3
  <2> QED
    BY <2>1, <2>2
<1>4. ASSUME NEW q \in Request, InEngine(q)
      PROVE  Moves
  <2>1. PICK e : Advances(q, e)
    BY <1>4, EngineAdvances
  <2>2. CASE r # BodyOf(q).ref
    BY <2>1, <2>2, AdvancesMoves
  <2>3. CASE r = BodyOf(q).ref
    <3>1. /\ sessions[r] # Null /\ sessions'[r] # Null /\ sessions'[r].engine = e
          /\ sessions'[r].tier = sessions[r].tier
      BY <2>1, <2>3, AdvancesMoves
    <3> QED
      BY <2>1, <2>3, <3>1
  <2> QED
    BY <2>2, <2>3
<1>5. ~Restart
  <2> SUFFICES ASSUME Restart
               PROVE  FALSE
    OBVIOUS
  <2>1. life' = life + 1
    BY DEF Restart
  <2> QED
    BY <1>0, <2>1
<1>6. ASSUME UNCHANGED vars
      PROVE  Moves
  BY <1>1, <1>6 DEF vars
<1>7. ASSUME NEW q \in Request, NEW b \in Bodies, OpenArrives(q, b)
      PROVE  Moves
  BY <1>1, <1>7 DEF OpenArrives
<1>8. ASSUME NEW q \in Request, OpenRefused(q) \/ OpenBegins(q)
      PROVE  Moves
  BY <1>1, <1>8 DEF OpenRefused, OpenBegins
<1> HIDE DEF Moves
<1>9. Moves
  BY <1>2, <1>3, <1>4, <1>5, <1>6, <1>7, <1>8 DEF Next, Handle, InEngine
<1> QED
  BY <1>9 DEF Moves

\* Only a restart counts a new life.
LEMMA LifeMoves ==
  ASSUME ServiceInv, [Next]_vars
  PROVE  life' = life \/ Restart
<1>1. ASSUME NEW q \in Request, InEngine(q)
      PROVE  life' = life
  BY <1>1, EngineAdvances DEF Advances, Stay, Leave
<1>2. ASSUME NEW q \in Request, OpenRefused(q) \/ OpenBegins(q) \/ OpenEnds(q)
      PROVE  life' = life
  BY <1>2 DEF OpenRefused, OpenBegins, OpenEnds
<1>3. ASSUME NEW q \in Request, NEW b \in Bodies, OpenArrives(q, b) \/ SessionArrives(q, b)
      PROVE  life' = life
  BY <1>3 DEF OpenArrives, SessionArrives
<1> QED
  BY <1>1, <1>2, <1>3 DEF Next, Handle, InEngine, vars

\* The engine of a session that stands stays typed and only grows.
LEMMA SessionGrows ==
  ASSUME ServiceInv, [Next]_vars, life' = life, NEW r \in Ref, sessions[r] # Null
  PROVE  /\ sessions'[r] # Null
         /\ sessions[r].engine \in EngineRecord(SettleOpenIn)
         /\ sessions'[r].engine \in EngineRecord(SettleOpenIn)
         /\ Grows(sessions[r].engine, sessions'[r].engine)
<1>1. sessions'[r] # Null /\ ServiceInv'
  BY SessionMoves, ServiceStep
<1>2. /\ sessions[r].engine \in EngineRecord(SettleOpenIn)
      /\ sessions'[r].engine \in EngineRecord(SettleOpenIn)
  BY <1>1 DEF ServiceInv, SessionOK, Session
<1>3. CASE sessions'[r].engine = sessions[r].engine
  BY <1>1, <1>2, <1>3, GrowsStill
<1>4. ASSUME NEW q \in Request, BodyOf(q).ref = r, Advances(q, sessions'[r].engine)
      PROVE  Grows(sessions[r].engine, sessions'[r].engine)
  BY <1>4 DEF Advances, EngineOf, SessionOf
<1> QED
  BY <1>1, <1>2, <1>3, <1>4, SessionMoves

\* A deal has one session in the life of a process: no open, concurrent or late, replaces
\* its terms or takes back a line of its trace.
THEOREM OpenNeverReplacesAlways == Spec => OpenNeverReplaces
<1> DEFINE Keeps ==
      life' = life =>
        \A r \in Ref : sessions[r] # Null =>
          /\ sessions'[r].engine.open_in = sessions[r].engine.open_in
          /\ IsPrefix(sessions[r].engine.trace, sessions'[r].engine.trace)
<1>1. ServiceInv /\ [Next]_vars => [Keeps]_vars
  <2> SUFFICES ASSUME ServiceInv, [Next]_vars, life' = life, NEW r \in Ref, sessions[r] # Null
               PROVE  /\ sessions'[r].engine.open_in = sessions[r].engine.open_in
                      /\ IsPrefix(sessions[r].engine.trace, sessions'[r].engine.trace)
    OBVIOUS
  <2> DEFINE s == sessions[r].engine.trace
             t == sessions'[r].engine.trace
  <2>1. /\ Grows(sessions[r].engine, sessions'[r].engine)
        /\ s \in Seq(Line) /\ t \in Seq(Line)
    BY SessionGrows DEF EngineRecord
  <2>2. IsPrefix(s, t)
    BY <2>1, ExtendsIsPrefix DEF Grows
  <2> QED
    BY <2>1, <2>2 DEF Grows
<1> QED
  BY <1>1, ServiceCorrect, PTL DEF Spec, OpenNeverReplaces

\* What the tier guard clears in the signed tier a trusted third party has signed.
LEMMA ClearedIsVouched ==
  ASSUME NEW q, BodyOf(q) \in Bodies, BodyOf(q).op = "advance",
         SessionOf(q).tier = "signed", Guard(q).cleared,
         NEW l \in AcksOf(BodyOf(q).ref, BodyOf(q).unit)
  PROVE  Vouched(BodyOf(q).ref, l)
<1> DEFINE b == BodyOf(q)
           signer == Normalize[b.attestation.signer_pubkey]
<1>1. /\ b.attestation # Null /\ signer \in TrustedKeys /\ signer \in GoodKeys
      /\ PayeePubkey # Null => signer # Normalize[PayeePubkey]
      /\ b.attestation.sig = SignBytes(signer, AttestationMessage(b.ref, b.unit))
  BY DEF Guard, ClearForRelease, Decision, Verifies
<1> HIDE DEF signer
<1> QED
  BY <1>1 DEF Vouched, AcksOf

\* In the signed tier nothing enters an engine that no trusted third party signed, for any
\* keys, bodies and interleaving.
THEOREM OnlyVouchedUnitsEnterAlways == Spec => []OnlyVouchedUnitsEnter
<1>1. Init => OnlyVouchedUnitsEnter
  BY DEF Init, OnlyVouchedUnitsEnter
<1>2. ServiceInv /\ OnlyVouchedUnitsEnter /\ [Next]_vars => OnlyVouchedUnitsEnter'
  <2> SUFFICES ASSUME ServiceInv, OnlyVouchedUnitsEnter, [Next]_vars,
                      NEW r \in Ref, sessions'[r] # Null, sessions'[r].tier = "signed",
                      NEW i \in DOMAIN sessions'[r].engine.trace,
                      sessions'[r].engine.trace[i].kind = "ack"
               PROVE  Vouched(r, sessions'[r].engine.trace[i])
    BY DEF OnlyVouchedUnitsEnter, Vouched
  <2> DEFINE e == sessions[r].engine
             d == sessions'[r].engine
  <2>1. life' = life
    BY LifeMoves DEF Restart
  <2>2. CASE sessions[r] = Null
    <3>1. PICK o \in AllTerms : d = Opened(NewEngine, o)
      BY <2>1, <2>2, SessionMoves
    <3>2. d.trace = <<StreamOpenLine(o.ref, o.rate, o.max_total, 0)>>
      BY <3>1 DEF Opened, NewEngine
    <3> QED
      BY <3>2 DEF StreamOpenLine
  <2>3. CASE sessions[r] # Null
    <3>1. sessions[r].tier = "signed"
      BY <2>1, <2>3, SessionMoves
    <3>2. \A j \in DOMAIN e.trace : e.trace[j].kind = "ack" => Vouched(r, e.trace[j])
      BY <2>3, <3>1 DEF OnlyVouchedUnitsEnter
    <3>3. CASE d = e
      BY <3>2, <3>3
    <3>4. ASSUME NEW q \in Request, BodyOf(q).ref = r, Advances(q, d)
          PROVE  Vouched(r, d.trace[i])
      <4>1. BodyOf(q) \in Bodies /\ EngineOf(q) = e /\ SessionOf(q).tier = "signed"
        BY <3>1, <3>4, Alone DEF Advances, EngineOf, SessionOf
      <4>2. \/ i \in DOMAIN e.trace /\ d.trace[i] = e.trace[i]
            \/ /\ BodyOf(q).op = "advance" /\ Guard(q).cleared
               /\ d.trace[i] \in AcksOf(r, BodyOf(q).unit)
        BY <3>4, <4>1 DEF Advances, AddsAcks
      <4> HIDE DEF d, e
      <4>3. CASE i \in DOMAIN e.trace /\ d.trace[i] = e.trace[i]
        BY <3>2, <4>3 DEF d
      <4>4. CASE /\ BodyOf(q).op = "advance" /\ Guard(q).cleared
                 /\ d.trace[i] \in AcksOf(r, BodyOf(q).unit)
        BY <3>4, <4>1, <4>4, ClearedIsVouched
      <4> QED
        BY <4>2, <4>3, <4>4
    <3> QED
      BY <2>1, <2>3, <3>3, <3>4, SessionMoves
  <2> QED
    BY <2>2, <2>3
<1> QED
  BY <1>1, <1>2, ServiceCorrect, PTL DEF Spec

(***************************************************************************)
(* The trace of each session tells what is on its books.                   *)
(***************************************************************************)

\* No stretch parts the trace from the books.
LEMMA StretchTells ==
  ASSUME PlainRefs, NEW e \in EngineRecord(SettleOpenIn), e.open_in \in SettleOpenIn,
         TraceTells(e), NEW d, Stretch(e, d)
  PROVE  TraceTells(d)
<1>1. CASE SameBooks(e, d)
  BY <1>1, TellsStill DEF SameBooks
<1>2. ASSUME NEW u \in AllUnits, ~e.closed, d \in {Judged(e, u), Ticked(Judged(e, u))}
      PROVE  TraceTells(d)
  <2>1. u \in UnitIn
    BY BodyAssumption DEF AllUnits
  <2>2. TraceTells(Judged(e, u)) /\ TraceTells(Ticked(Judged(e, u)))
    BY <1>2, <2>1, TellsJudged
  <2> QED
    BY <1>2, <2>2
<1>3. ASSUME NEW s \in Nat, NEW n \in Int, OnMeter(SettleOpenIn, e, "drained", n),
             d = Billed(e, s, n)
      PROVE  TraceTells(d)
  <2>1. ~e.closed
    BY <1>3 DEF OnMeter, Metered
  <2> QED
    BY <1>3, <2>1, TellsBilled
<1>4. ASSUME NEW s \in Nat, NEW n \in Int, NEW why \in CloseReason,
             OnMeter(SettleOpenIn, e, "receipt", n), d = ClosedWith(e, s, n, why)
      PROVE  TraceTells(d)
  <2>1. ~e.closed /\ n = e.settled
    BY <1>4 DEF OnMeter, Metered
  <2> QED
    BY <1>4, <2>1, TellsClosed
<1> QED
  BY <1>1, <1>2, <1>3, <1>4 DEF Stretch

BooksInv == \A r \in Ref : sessions[r] # Null => TraceTells(sessions[r].engine)

\* So none does, at any await of any session.
LEMMA BooksStep ==
  ASSUME PlainRefs, ServiceInv, BooksInv, [Next]_vars
  PROVE  BooksInv'
<1> SUFFICES ASSUME NEW r \in Ref, sessions'[r] # Null
             PROVE  TraceTells(sessions'[r].engine)
  BY DEF BooksInv
<1> DEFINE e == sessions[r].engine
           d == sessions'[r].engine
<1>1. life' = life
  BY LifeMoves DEF Restart
<1>2. CASE sessions[r] = Null
  <2>1. PICK i \in SettleOpenIn : d = Opened(NewEngine, i)
    BY <1>1, <1>2, SessionMoves
  <2>2. /\ NewEngine \in EngineRecord(SettleOpenIn) /\ NewEngine.trace = <<>>
        /\ NewEngine.per_unit = <<>> /\ NewEngine.settled = 0 /\ ~NewEngine.closed
    BY DEF NewEngine, EngineRecord
  <2>3. TraceTells(Opened(NewEngine, i))
    BY <2>2, TellsOpened
  <2> QED
    BY <2>1, <2>3
<1>3. CASE sessions[r] # Null
  <2>1. TraceTells(e) /\ e \in EngineRecord(SettleOpenIn)
    BY <1>3 DEF BooksInv, ServiceInv, SessionOK, Session
  <2>2. ASSUME NEW q \in Request, BodyOf(q).ref = r, Advances(q, d)
        PROVE  TraceTells(d)
    <3>1. Stretch(e, d) /\ e.open_in \in SettleOpenIn
      BY <2>2, Alone DEF Advances, EngineOf, SessionOf, OnMeter
    <3> HIDE DEF e, d
    <3> QED
      BY <2>1, <3>1, StretchTells
  <2> QED
    BY <1>1, <1>3, <2>1, <2>2, SessionMoves
<1> QED
  BY <1>2, <1>3

\* Whoever reads a trace, at rest or not, finds every amount of the total in it once,
\* whatever requests interleave, provided no ref contains the separator.
THEOREM TracesAgreeAlways ==
  ASSUME PlainRefs
  PROVE  Spec => []TracesAgree
<1>1. Init => BooksInv
  BY DEF Init, BooksInv
<1>2. ServiceInv /\ BooksInv /\ [Next]_vars => BooksInv'
  BY BooksStep
<1>3. BooksInv => TracesAgree
  BY DEF BooksInv, TracesAgree, AtRest, TraceTells, Tells
<1> QED
  BY <1>1, <1>2, <1>3, ServiceCorrect, PTL DEF Spec

(***************************************************************************)
(* Every session keeps the promise.                                        *)
(***************************************************************************)
Deal(r) == INSTANCE Settlement WITH
  Terms <- AllTerms, Deliveries <- AllUnits, L2Algo <- Algo,
  terms <- EngineAt(r).open_in, verdicts <- EngineAt(r).per_unit,
  billed <- EngineAt(r).settled, status <- StatusOf(r)

\* What was judged counts as seen.
JudgedSeen(e) == \A i \in DOMAIN e.per_unit : e.per_unit[i].seq \in e.seen_seqs

SeenInv == \A r \in Ref : sessions[r] # Null => JudgedSeen(sessions[r].engine)

\* Each stretch keeps it so.
LEMMA StretchSeen ==
  ASSUME NEW e \in EngineRecord(SettleOpenIn), e.open_in \in SettleOpenIn,
         JudgedSeen(e), NEW d, Stretch(e, d)
  PROVE  JudgedSeen(d)
<1>0. e.per_unit \in Seq(PerUnit)
  BY DEF EngineRecord
<1>1. CASE SameBooks(e, d)
  BY <1>1 DEF SameBooks, JudgedSeen
<1>2. ASSUME NEW u \in AllUnits, d \in {Judged(e, u), Ticked(Judged(e, u))}
      PROVE  JudgedSeen(d)
  <2> DEFINE v == [seq |-> u.seq,
                   verdict |-> IF ResultOf(e, u).passed THEN "pass" ELSE "fail",
                   reason |-> ResultOf(e, u).reason]
             j == Judged(e, u)
  <2>1. u \in UnitIn
    BY BodyAssumption DEF AllUnits
  <2>2. j.seen_seqs = e.seen_seqs \cup {u.seq} /\ j.per_unit = Append(e.per_unit, v)
    BY <2>1, JudgedRecords
  <2>3. j \in EngineRecord(SettleOpenIn)
    BY <2>1, JudgedType
  <2>4. Ticked(j).seen_seqs = j.seen_seqs /\ Ticked(j).per_unit = j.per_unit
    BY <2>3 DEF Ticked, EngineRecord
  <2>5. d.seen_seqs = e.seen_seqs \cup {u.seq} /\ d.per_unit = Append(e.per_unit, v)
    BY <1>2, <2>2, <2>4
  <2>6. v.seq = u.seq
    OBVIOUS
  <2> HIDE DEF v, j
  <2>7. \A i \in DOMAIN Append(e.per_unit, v) :
          \/ i \in DOMAIN e.per_unit /\ Append(e.per_unit, v)[i] = e.per_unit[i]
          \/ Append(e.per_unit, v)[i] = v
    BY <1>0
  <2> QED
    BY <2>5, <2>6, <2>7 DEF JudgedSeen
<1>3. ASSUME NEW s \in Nat, NEW n \in Int, d = Billed(e, s, n)
      PROVE  JudgedSeen(d)
  BY <1>3 DEF Billed, EngineRecord, JudgedSeen
<1>4. ASSUME NEW s \in Nat, NEW n \in Int, NEW why \in CloseReason, d = ClosedWith(e, s, n, why)
      PROVE  JudgedSeen(d)
  BY <1>4 DEF ClosedWith, EngineRecord, JudgedSeen
<1> QED
  BY <1>1, <1>2, <1>3, <1>4 DEF Stretch

\* So does every step of the service.
LEMMA SeenStep ==
  ASSUME ServiceInv, SeenInv, [Next]_vars
  PROVE  SeenInv'
<1> SUFFICES ASSUME NEW r \in Ref, sessions'[r] # Null
             PROVE  JudgedSeen(sessions'[r].engine)
  BY DEF SeenInv
<1> DEFINE e == sessions[r].engine
           d == sessions'[r].engine
<1>1. life' = life
  BY LifeMoves DEF Restart
<1>2. CASE sessions[r] = Null
  <2>1. PICK i \in SettleOpenIn : d = Opened(NewEngine, i)
    BY <1>1, <1>2, SessionMoves
  <2>2. d.per_unit = <<>>
    BY <2>1 DEF Opened, NewEngine
  <2> QED
    BY <2>2 DEF JudgedSeen
<1>3. CASE sessions[r] # Null
  <2>1. JudgedSeen(e) /\ e \in EngineRecord(SettleOpenIn)
    BY <1>3 DEF SeenInv, ServiceInv, SessionOK, Session
  <2>2. ASSUME NEW q \in Request, BodyOf(q).ref = r, Advances(q, d)
        PROVE  JudgedSeen(d)
    <3>1. Stretch(e, d) /\ e.open_in \in SettleOpenIn
      BY <2>2, Alone DEF Advances, EngineOf, SessionOf, OnMeter
    <3> HIDE DEF e, d
    <3> QED
      BY <2>1, <3>1, StretchSeen
  <2> QED
    BY <1>1, <1>3, <2>1, <2>2, SessionMoves
<1> QED
  BY <1>2, <1>3

\* The service counts verdicts, and what they entitle to, as the promise does.
LEMMA DealDue ==
  ASSUME NEW r \in Ref, NEW e
  PROVE  Deal(r)!Due(e.open_in, e.per_unit) = Due(e)
<1>1. Deal(r)!VerifiedCount(e.per_unit) = Verified(e)
  BY DEF Deal!VerifiedCount, VerifiedCount, Verified, Deal!Passed, Passed,
         Deal!Cardinality, Cardinality
<1> QED
  BY <1>1 DEF Deal!Due, Deal!AtMost, Due, Lesser

\* The ladder passes exactly the units that meet the deal's terms.
LEMMA DealMeets ==
  ASSUME NEW r \in Ref, NEW e, e.open_in \in SettleOpenIn, NEW u \in UnitIn
  PROVE  ResultOf(e, u).passed <=> Deal(r)!Meets(e.open_in, u)
BY LadderPasses DEF Deal!Meets, Deal!HonestChecksum, Deal!AsCommitted, Deal!Digest, Digest

\* A verdict is reached when nothing is owed, is the first for its seq, follows passes
\* only, and says whether the unit meets the terms.
LEMMA DealJudges ==
  ASSUME NEW r \in Ref, sessions[r] # Null, sessions'[r] # Null,
         NEW e, e = sessions[r].engine, NEW d, d = sessions'[r].engine,
         e.open_in \in SettleOpenIn, JudgedSeen(e), NEW u \in AllUnits,
         ~e.closed, u.seq \notin e.seen_seqs, OnMeter(SettleOpenIn, e, "none", 0),
         d \in {Judged(e, u), Ticked(Judged(e, u))}
  PROVE  Deal(r)!Judge(u)
<1> DEFINE x == ResultOf(e, u)
           v == [seq |-> u.seq, verdict |-> IF x.passed THEN "pass" ELSE "fail",
                 reason |-> x.reason]
           j == Judged(e, u)
<1>1. u \in UnitIn
  BY BodyAssumption DEF AllUnits
<1>2. e \in EngineRecord(SettleOpenIn) /\ e.per_unit \in Seq(PerUnit) /\ e.closed = FALSE
  BY DEF OnMeter, EngineRecord
<1>3. e.settled = Deal(r)!Due(e.open_in, e.per_unit)
  BY DealDue DEF OnMeter, Metered, Settled
<1>4. \A i \in DOMAIN e.per_unit :
        Deal(r)!Passed(e.per_unit[i]) /\ e.per_unit[i].seq # u.seq
  BY DEF OnMeter, Metered, Refused, JudgedSeen, Deal!Passed, Passed
<1>5. j \in EngineRecord(SettleOpenIn) /\ \A f \in {"open_in", "settled", "closed"} : j[f] = e[f]
  BY <1>1, <1>2, JudgedType
<1>6. j.per_unit = Append(e.per_unit, v)
  BY <1>1, <1>2, JudgedRecords
<1>7. \A f \in {"open_in", "per_unit", "settled", "closed"} : Ticked(j)[f] = j[f]
  BY <1>5 DEF Ticked, EngineRecord
<1>8. x.passed \in BOOLEAN /\ x.reason \in Deal(r)!ReasonToken
  BY EvaluateUnitType DEF ResultOf, Deal!ReasonToken, ReasonToken
<1>9. x.passed <=> Deal(r)!Meets(e.open_in, u)
  BY <1>1, DealMeets
<1> HIDE DEF x, j
<1>10. \E w \in Deal(r)!Verdict, why \in Deal(r)!ReasonToken :
         /\ w = "pass" <=> Deal(r)!Meets(e.open_in, u)
         /\ Append(e.per_unit, v) = Append(e.per_unit, [seq |-> u.seq, verdict |-> w, reason |-> why])
  <2>1. (IF x.passed THEN "pass" ELSE "fail") \in Deal(r)!Verdict
    BY DEF Deal!Verdict
  <2>2. (IF x.passed THEN "pass" ELSE "fail") = "pass" <=> Deal(r)!Meets(e.open_in, u)
    BY <1>9
  <2> QED
    BY <1>8, <2>1, <2>2
<1> HIDE DEF v
<1>11. /\ d.per_unit = Append(e.per_unit, v) /\ d.open_in = e.open_in
       /\ d.settled = e.settled /\ d.closed = FALSE
  BY <1>2, <1>5, <1>6, <1>7 DEF j
<1>12. /\ EngineAt(r) = e /\ EngineAt(r)' = d
       /\ StatusOf(r) = "open" /\ StatusOf(r)' = "open"
  BY <1>2, <1>11 DEF EngineAt, StatusOf
<1> QED
  BY <1>3, <1>4, <1>10, <1>11, <1>12 DEF Deal!Judge

\* A stretch of a request inside the engine is a step of the promise, or none.
LEMMA StretchPromised ==
  ASSUME NEW r \in Ref, sessions[r] # Null, sessions'[r] # Null,
         NEW e, e = sessions[r].engine, NEW d, d = sessions'[r].engine,
         e \in EngineRecord(SettleOpenIn), e.open_in \in SettleOpenIn, JudgedSeen(e),
         Stretch(e, d)
  PROVE  Deal(r)!Next \/ UNCHANGED Deal(r)!vars
<1>0. /\ EngineAt(r) = e /\ EngineAt(r)' = d
      /\ StatusOf(r) = (IF e.closed THEN "closed" ELSE "open")
      /\ StatusOf(r)' = (IF d.closed THEN "closed" ELSE "open")
  BY DEF EngineAt, StatusOf
<1>1. ASSUME \A f \in {"open_in", "settled", "closed", "per_unit"} : d[f] = e[f]
      PROVE  UNCHANGED Deal(r)!vars
  BY <1>0, <1>1 DEF Deal!vars
<1>2. CASE SameBooks(e, d)
  BY <1>1, <1>2 DEF SameBooks
<1>3. ASSUME NEW u \in AllUnits, ~e.closed, u.seq \notin e.seen_seqs,
             OnMeter(SettleOpenIn, e, "none", 0), d \in {Judged(e, u), Ticked(Judged(e, u))}
      PROVE  Deal(r)!Next
  <2>1. Deal(r)!Judge(u)
    BY <1>3, DealJudges
  <2> QED
    BY <2>1 DEF Deal!Next
<1>4. ASSUME NEW s \in Nat, NEW n \in Int, OnMeter(SettleOpenIn, e, "drained", n),
             d = Billed(e, s, n)
      PROVE  Deal(r)!Next \/ UNCHANGED Deal(r)!vars
  <2>1. OnMeter(SettleOpenIn, d, "none", 0)
    BY <1>4, MeterBilled
  <2>2. \A f \in {"open_in", "closed", "per_unit"} : d[f] = e[f]
    BY <1>4, BilledType
  <2>3. d.settled = Due(e)
    BY <2>1, <2>2 DEF OnMeter, Metered, Settled, Due, Verified
  <2>4. e.settled <= Due(e) /\ ~e.closed /\ e.settled \in Int /\ Due(e) \in Nat
    BY <1>4, MeterNumbers DEF OnMeter, Metered, PaidOut
  <2>5. CASE e.settled = Due(e)
    BY <1>1, <2>2, <2>3, <2>5
  <2>6. CASE e.settled < Due(e)
    <3>1. Deal(r)!Due(e.open_in, e.per_unit) = Due(e)
      BY DealDue
    <3>2. Deal(r)!Release
      BY <1>0, <2>2, <2>3, <2>4, <2>6, <3>1 DEF Deal!Release
    <3> QED
      BY <3>2 DEF Deal!Next
  <2> QED
    BY <2>4, <2>5, <2>6
<1>5. ASSUME NEW s \in Nat, NEW n \in Int, NEW why \in CloseReason,
             OnMeter(SettleOpenIn, e, "receipt", n), d = ClosedWith(e, s, n, why)
      PROVE  Deal(r)!Next
  <2>1. d.settled = e.settled
    <3>1. SettleOpenIn \in SUBSET SettleOpenIn
      OBVIOUS
    <3>2. ClosedWith(e, s, n, why).settled = e.settled
      BY <1>5, <3>1, MeterClosed, Zenon
    <3> QED
      BY <1>5, <3>2
  <2>2. d.closed /\ d.open_in = e.open_in /\ d.per_unit = e.per_unit
    BY <1>5, ClosedWithType
  <2>3. e.settled = Due(e) /\ ~e.closed
    BY <1>5 DEF OnMeter, Metered, Settled
  <2>4. Deal(r)!Due(e.open_in, e.per_unit) = Due(e)
    BY DealDue
  <2>5. Deal(r)!Close
    BY <1>0, <2>1, <2>2, <2>3, <2>4 DEF Deal!Close
  <2> QED
    BY <2>5 DEF Deal!Next
<1> QED
  BY <1>2, <1>3, <1>4, <1>5 DEF Stretch

\* Whatever requests interleave, each step of the service is for each deal a step of the
\* promise, or none; a restart takes the deal back to the start.
LEMMA DealStep ==
  ASSUME ServiceInv, SeenInv, [Next]_vars, NEW r \in Ref
  PROVE  \/ Deal(r)!Next \/ UNCHANGED Deal(r)!vars
         \/ life' = life + 1 /\ Deal(r)!Init'
<1>1. CASE Restart
  <2>1. sessions'[r] = Null /\ life' = life + 1
    BY <1>1 DEF Restart
  <2>2. Deal(r)!Init'
    BY <2>1 DEF Deal!Init, EngineAt, StatusOf, NewEngine
  <2> QED
    BY <2>1, <2>2
<1>2. CASE life' = life
  <2>1. CASE sessions[r] = Null /\ sessions'[r] = Null
    BY <2>1 DEF Deal!vars, EngineAt, StatusOf
  <2>2. CASE sessions[r] = Null /\ sessions'[r] # Null
    <3>1. PICK i \in AllTerms : /\ i \in SettleOpenIn /\ ~Unmeterable(i)
                                /\ sessions'[r].engine = Opened(NewEngine, i)
      BY <1>2, <2>2, SessionMoves
    <3>2. /\ sessions'[r].engine.open_in = i /\ sessions'[r].engine.per_unit = <<>>
          /\ sessions'[r].engine.settled = 0 /\ sessions'[r].engine.closed = FALSE
      BY <3>1 DEF Opened, NewEngine
    <3>3. i.rate >= 1 /\ i.max_total >= 1
      <4>1. i.rate \in Nat /\ i.max_total \in Nat
        BY <3>1 DEF SettleOpenIn
      <4> QED
        BY <3>1, <4>1 DEF Unmeterable
    <3>4. /\ StatusOf(r) = "unopened" /\ StatusOf(r)' = "open"
          /\ EngineAt(r) = NewEngine /\ EngineAt(r)' = sessions'[r].engine
      BY <2>2, <3>2 DEF StatusOf, EngineAt
    <3>5. Deal(r)!Open(i)
      BY <3>2, <3>3, <3>4 DEF Deal!Open, NewEngine
    <3> QED
      BY <3>1, <3>5 DEF Deal!Next
  <2>3. CASE sessions[r] # Null
    <3> DEFINE e == sessions[r].engine
               d == sessions'[r].engine
    <3>1. e \in EngineRecord(SettleOpenIn) /\ JudgedSeen(e) /\ sessions'[r] # Null
      BY <1>2, <2>3, SessionGrows DEF SeenInv
    <3>2. CASE d = e
      BY <2>3, <3>1, <3>2 DEF Deal!vars, EngineAt, StatusOf
    <3>3. ASSUME NEW q \in Request, BodyOf(q).ref = r, Advances(q, d)
          PROVE  Deal(r)!Next \/ UNCHANGED Deal(r)!vars
      <4>1. Stretch(e, d) /\ e.open_in \in SettleOpenIn
        BY <3>3, Alone DEF Advances, EngineOf, SessionOf, OnMeter
      <4> QED
        BY <2>3, <3>1, <4>1, StretchPromised
    <3> QED
      BY <1>2, <2>3, <3>2, <3>3, SessionMoves
  <2> QED
    BY <2>1, <2>2, <2>3
<1> QED
  BY <1>1, <1>2, LifeMoves

\* Every deal's session implements the promise for the life of a process, whatever the
\* bodies, the number of slots and the interleaving; only a restart takes it back to the
\* start.  The promise's fairness is left to the run.
THEOREM DealsKeepPromiseSafely ==
  ASSUME NEW r \in Ref
  PROVE  Spec => /\ Deal(r)!Init
                 /\ [][Deal(r)!Next \/ (life' = life + 1 /\ Deal(r)!Init')]_(Deal(r)!vars)
<1>1. Init => Deal(r)!Init
  BY DEF Init, Deal!Init, EngineAt, StatusOf, NewEngine
<1>2. Init => SeenInv
  BY DEF Init, SeenInv
<1>3. ServiceInv /\ SeenInv /\ [Next]_vars => SeenInv'
  BY SeenStep
<1>4. ServiceInv /\ SeenInv /\ [Next]_vars
        => [Deal(r)!Next \/ (life' = life + 1 /\ Deal(r)!Init')]_(Deal(r)!vars)
  BY DealStep
<1> QED
  BY <1>1, <1>2, <1>3, <1>4, ServiceCorrect, PTL DEF Spec

(***************************************************************************)
(* The answers.                                                            *)
(***************************************************************************)
ReplyOK(q) ==
  LET x == req[q].reply
  IN  x.status = 200 =>
        /\ BodyOf(q) \in Bodies /\ x.life \in 0 .. life
        /\ x.out.trace \in Seq(Line) /\ x.out.settled_total \in Int
        /\ x.life = life =>
             /\ SessionOf(q) # Null
             /\ Extends(x.out.trace, EngineOf(q).trace)
             /\ x.out.settled_total <= EngineOf(q).settled

\* A slot's answer goes, stays, or is that of its session's engine as it now is.
ReplyMoves(q) ==
  LET x == req'[q].reply
  IN  \/ x.status # 200
      \/ x = req[q].reply /\ req'[q].body = req[q].body
      \/ /\ req'[q].body \in Bodies /\ sessions'[req'[q].body.ref] # Null /\ x.life = life
         /\ x.out = Snapshot(sessions'[req'[q].body.ref].engine)
         /\ req'[q].body.op # "open" =>
              x = Ok(sessions'[req'[q].body.ref].engine, sessions'[req'[q].body.ref].tier)

\* Each handler writes one answer at most, and nobody else's.
LEMMA RepliesMove ==
  ASSUME ServiceInv, [Next]_vars, life' = life, NEW p \in Request
  PROVE  ReplyMoves(p)
<1>0. /\ \A q \in Request : SlotOK(q)
      /\ DOMAIN req = Request /\ DOMAIN sessions = Ref /\ life \in Int
  BY DEF ServiceInv
<1>1. ASSUME NEW q \in Request, NEW b \in Bodies, OpenArrives(q, b) \/ SessionArrives(q, b)
      PROVE  ReplyMoves(p)
  <2>1. CASE Enter(q, b)
    BY <1>0, <2>1 DEF Enter, IdleSlot, NoReply, ReplyMoves
  <2>2. CASE req' = [req EXCEPT ![q] = [IdleSlot EXCEPT !.stage = "done", !.body = b,
                                                        !.reply = Refusal(404)]]
    BY <1>0, <2>2 DEF IdleSlot, NoReply, Refusal, ReplyMoves
  <2> QED
    BY <1>1, <2>1, <2>2 DEF OpenArrives, SessionArrives
<1>2. ASSUME NEW q \in Request, OpenRefused(q)
      PROVE  ReplyMoves(p)
  <2>1. PICK n \in {409, 422} : Answer(q, Refusal(n))
    BY <1>2 DEF OpenRefused
  <2>2. Refusal(n).status # 200
    BY <2>1 DEF Refusal, NoReply
  <2> QED
    BY <1>0, <2>1, <2>2 DEF Answer, ReplyMoves, SlotOK
<1>3. ASSUME NEW q \in Request, OpenBegins(q)
      PROVE  ReplyMoves(p)
  BY <1>0, <1>3 DEF OpenBegins, ReplyMoves, SlotOK
<1>4. ASSUME NEW q \in Request, OpenEnds(q)
      PROVE  ReplyMoves(p)
  <2> DEFINE i == BodyOf(q).open_in
             e == Opened(NewEngine, i)
             s == [engine |-> e, tier |-> i.attestor, queue |-> <<>>]
             reply == Ok(e, "hash-only")
  <2>1. /\ sessions' = [sessions EXCEPT ![i.ref] = s] /\ Answer(q, reply)
    BY <1>4 DEF OpenEnds
  <2>2. /\ i.ref = BodyOf(q).ref /\ i.ref \in Ref /\ BodyOf(q) \in Bodies
        /\ ServiceInv' /\ SessionOf(q) = Null
    BY <1>4, OpeningEntitled, OpenEndsKeeps DEF OpenEnds
  <2>3. reply.out = Snapshot(e) /\ reply.life = life
    BY DEF Ok
  <2>4. s.engine = e /\ sessions'[i.ref] = s
    BY <1>0, <2>1, <2>2
  <2>5. s # Null
    <3>1. NewEngine \in EngineRecord(SettleOpenIn)
      BY DEF NewEngine, EngineRecord
    <3>2. i \in SettleOpenIn
      BY <1>4, OpeningEntitled DEF OpenEnds
    <3>3. e \in EngineRecord(SettleOpenIn)
      BY <3>1, <3>2, OpenedType
    <3>4. i.attestor \in AttestorTier
      BY <3>2 DEF SettleOpenIn
    <3> HIDE DEF e, i
    <3>5. s \in Session
      BY <3>3, <3>4 DEF Session
    <3> QED
      BY <3>5, NoSessionAssumption
  <2> HIDE DEF e, s, reply, i
  <2>6. /\ p # q => req'[p] = req[p]
        /\ req'[q].reply = reply /\ req'[q].body = BodyOf(q)
    BY <1>0, <2>1 DEF Answer, SlotOK, BodyOf
  <2>7. BodyOf(q).op = "open"
    BY <1>4, OpeningEntitled DEF OpenEnds
  <2> QED
    BY <2>2, <2>3, <2>4, <2>5, <2>6, <2>7 DEF ReplyMoves
<1>5. ASSUME NEW q \in Request, InEngine(q)
      PROVE  ReplyMoves(p)
  <2>1. PICK e : Advances(q, e)
    BY <1>5, EngineAdvances
  <2>2. ASSUME NEW call, Stay(q, e, call)
        PROVE  ReplyMoves(p)
    BY <1>0, <2>2 DEF Stay, ReplyMoves, SlotOK
  <2>3. ASSUME NEW reply, Leave(q, e, reply),
               reply.status = 200 => reply = Ok(e, SessionOf(q).tier)
        PROVE  ReplyMoves(p)
    <3>1. /\ BodyOf(q) \in Bodies /\ BodyOf(q).ref \in Ref
          /\ sessions'[BodyOf(q).ref] # Null /\ sessions'[BodyOf(q).ref].engine = e
          /\ sessions'[BodyOf(q).ref].tier = SessionOf(q).tier
      BY <2>1, Alone, AdvancesMoves DEF Advances, SessionOf
    <3>2. /\ p # q => req'[p] = req[p]
          /\ req'[q].reply = reply /\ req'[q].body = BodyOf(q)
      BY <1>0, <2>3 DEF Leave, Answer, SlotOK, BodyOf
    <3>3. \A tier : Ok(e, tier).out = Snapshot(e) /\ Ok(e, tier).life = life
      BY DEF Ok
    <3> QED
      BY <2>3, <3>1, <3>2, <3>3 DEF ReplyMoves
  <2> QED
    BY <2>1, <2>2, <2>3 DEF Advances
<1>6. ~Restart
  <2> SUFFICES ASSUME Restart
               PROVE  FALSE
    OBVIOUS
  <2>1. life' = life + 1
    BY DEF Restart
  <2> QED
    BY <1>0, <2>1
<1>7. ASSUME UNCHANGED vars
      PROVE  ReplyMoves(p)
  BY <1>7 DEF vars, ReplyMoves
<1> QED
  BY <1>1, <1>2, <1>3, <1>4, <1>5, <1>6, <1>7 DEF Next, Handle, InEngine

\* Growing twice is growing.
LEMMA ExtendsTransitive ==
  ASSUME NEW S, NEW r \in Seq(S), NEW s \in Seq(S), NEW t \in Seq(S),
         Extends(r, s), Extends(s, t)
  PROVE  Extends(r, t)
BY DEF Extends

\* Every answer of this life was, when given, how its session's engine stood.
LEMMA ReplyStep ==
  ASSUME ServiceInv, [Next]_vars, \A q \in Request : ReplyOK(q), NEW p \in Request
  PROVE  ReplyOK(p)'
<1>0. life \in 0 .. MaxRestarts /\ MaxRestarts \in Nat
  BY ServiceAssumption DEF ServiceInv
<1>1. CASE Restart
  <2>1. life' = life + 1
    BY <1>1 DEF Restart
  <2>2. CASE Free(p)
    <3>1. req'[p] = req[p]
      BY <1>1, <2>2 DEF Restart, ServiceInv
    <3> QED
      BY <1>0, <2>1, <3>1 DEF ReplyOK, BodyOf
  <2>3. CASE ~Free(p)
    <3>1. req'[p] = [req[p] EXCEPT !.stage = "done", !.call = NoCall, !.reply = Refusal(0)]
      BY <1>1, <2>3 DEF Restart, ServiceInv
    <3>2. Refusal(0).status = 0
      BY DEF Refusal, NoReply
    <3>3. req'[p].reply = Refusal(0)
      BY <3>1 DEF ServiceInv, SlotOK
    <3> QED
      BY <3>2, <3>3 DEF ReplyOK
  <2> QED
    BY <2>2, <2>3
<1>2. CASE life' = life
  <2> SUFFICES ASSUME req'[p].reply.status = 200
               PROVE  ReplyOK(p)'
    BY DEF ReplyOK
  <2> DEFINE x == req'[p].reply
             r == req'[p].body.ref
             d == sessions'[r].engine
  <2>1. ServiceInv'
    BY ServiceStep
  <2>2. CASE x = req[p].reply /\ req'[p].body = req[p].body
    <3>1. ReplyOK(p)
      OBVIOUS
    <3>2. CASE x.life # life
      BY <1>2, <2>2, <3>1, <3>2 DEF ReplyOK, BodyOf
    <3>3. CASE x.life = life
      <4> DEFINE e == sessions[r].engine
      <4>1. /\ req[p].body \in Bodies /\ r \in Ref /\ sessions[r] # Null
            /\ x.out.trace \in Seq(Line) /\ x.out.settled_total \in Int
            /\ Extends(x.out.trace, e.trace) /\ x.out.settled_total <= e.settled
            /\ x.life \in 0 .. life
        BY <2>2, <3>1, <3>3, BodyAssumption DEF ReplyOK, BodyOf, SessionOf, EngineOf
      <4>2. /\ sessions'[r] # Null /\ Grows(e, d)
            /\ e \in EngineRecord(SettleOpenIn) /\ d \in EngineRecord(SettleOpenIn)
        BY <1>2, <4>1, SessionGrows
      <4>3. /\ e.trace \in Seq(Line) /\ d.trace \in Seq(Line)
            /\ e.settled \in Int /\ d.settled \in Int
        BY <4>2 DEF EngineRecord
      <4>6. e.settled <= d.settled /\ Extends(e.trace, d.trace)
        BY <4>2 DEF Grows
      <4> HIDE DEF e, d
      <4>4. Extends(x.out.trace, d.trace)
        <5> HIDE DEF x
        <5> QED
          BY <4>1, <4>3, <4>6, ExtendsTransitive
      <4>5. x.out.settled_total <= d.settled
        <5> HIDE DEF x
        <5> QED
          BY <4>1, <4>3, <4>6
      <4> USE DEF d
      <4> QED
        BY <1>2, <2>2, <4>1, <4>2, <4>4, <4>5 DEF ReplyOK, BodyOf, SessionOf, EngineOf
    <3> QED
      BY <3>2, <3>3
  <2>3. CASE /\ req'[p].body \in Bodies /\ sessions'[r] # Null /\ x.life = life
             /\ x.out = Snapshot(d)
    <3>1. r \in Ref
      BY <2>3, BodyAssumption
    <3>2. d \in EngineRecord(SettleOpenIn)
      BY <2>1, <2>3, <3>1 DEF ServiceInv, SessionOK, Session
    <3>3. d.trace \in Seq(Line) /\ d.settled \in Int
      BY <3>2 DEF EngineRecord
    <3>4. x.out.trace = d.trace /\ x.out.settled_total = d.settled
      BY <2>3 DEF Snapshot
    <3>5. Extends(d.trace, d.trace)
      BY <3>3 DEF Extends
    <3> QED
      BY <1>0, <1>2, <2>3, <3>3, <3>4, <3>5 DEF ReplyOK, BodyOf, SessionOf, EngineOf
  <2> QED
    BY <1>2, <2>2, <2>3, RepliesMove DEF ReplyMoves
<1> QED
  BY <1>1, <1>2, LifeMoves

Agreeing(x, y) ==
  \/ IsPrefix(x.out.trace, y.out.trace) /\ x.out.settled_total <= y.out.settled_total
  \/ IsPrefix(y.out.trace, x.out.trace) /\ y.out.settled_total <= x.out.settled_total

\* An answer and the very state of its session's engine agree with each other.
LEMMA NewestAgrees ==
  ASSUME NEW x, NEW y, NEW e,
         x.out.trace \in Seq(Line), y.out.trace \in Seq(Line),
         Extends(x.out.trace, e.trace), x.out.settled_total <= e.settled,
         y.out = Snapshot(e)
  PROVE  Agreeing(x, y) /\ Agreeing(y, x)
<1>1. y.out.trace = e.trace /\ y.out.settled_total = e.settled
  BY DEF Snapshot
<1>2. IsPrefix(x.out.trace, y.out.trace) /\ x.out.settled_total <= y.out.settled_total
  BY <1>1, ExtendsIsPrefix
<1> QED
  BY <1>2 DEF Agreeing

\* Answers that agreed go on agreeing, and each new one agrees with all of them.
LEMMA AnswersStep ==
  ASSUME ServiceInv, [Next]_vars, AnswersAgree, \A q \in Request : ReplyOK(q)
  PROVE  AnswersAgree'
<1> SUFFICES ASSUME NEW p \in Request, NEW q \in Request,
                    req'[p].reply.status = 200, req'[q].reply.status = 200,
                    req'[p].reply.life = req'[q].reply.life,
                    req'[p].body.ref = req'[q].body.ref
             PROVE  Agreeing(req'[p].reply, req'[q].reply)
  BY DEF AnswersAgree, Agreeing, BodyOf
<1>0. \A s \in Request : ReplyOK(s)'
  BY ReplyStep
<1>1. ASSUME req'[p].reply = req[p].reply, req'[p].body = req[p].body,
             req'[q].reply = req[q].reply, req'[q].body = req[q].body
      PROVE  Agreeing(req'[p].reply, req'[q].reply)
  BY <1>1 DEF AnswersAgree, Agreeing, BodyOf
<1>2. CASE Restart
  <2>1. \A s \in Request : req'[s].reply.status = 200
                            => req'[s].reply = req[s].reply /\ req'[s].body = req[s].body
    <3> SUFFICES ASSUME NEW s \in Request, req'[s].reply.status = 200
                 PROVE  req'[s].reply = req[s].reply /\ req'[s].body = req[s].body
      OBVIOUS
    <3>1. CASE Free(s)
      BY <1>2, <3>1 DEF Restart, ServiceInv
    <3>2. CASE ~Free(s)
      <4>1. req'[s] = [req[s] EXCEPT !.stage = "done", !.call = NoCall, !.reply = Refusal(0)]
        BY <1>2, <3>2 DEF Restart, ServiceInv
      <4>2. req'[s].reply = Refusal(0)
        BY <4>1 DEF ServiceInv, SlotOK
      <4> QED
        BY <4>2 DEF Refusal, NoReply
    <3> QED
      BY <3>1, <3>2
  <2> QED
    BY <1>1, <2>1
<1>3. CASE life' = life
  <2> DEFINE New(s) == /\ req'[s].reply.life = life
                       /\ req'[s].reply.out = Snapshot(sessions'[req'[s].body.ref].engine)
  <2>1. \A s \in Request :
          req'[s].reply.status = 200
            => \/ req'[s].reply = req[s].reply /\ req'[s].body = req[s].body
               \/ New(s)
    BY <1>3, RepliesMove DEF ReplyMoves
  <2>2. CASE New(q)
    <3> DEFINE x == req'[p].reply
               y == req'[q].reply
               e == sessions'[req'[q].body.ref].engine
    <3>1. x.life = life' /\ y.out = Snapshot(e)
      BY <1>3, <2>2
    <3>2. /\ x.out.trace \in Seq(Line) /\ y.out.trace \in Seq(Line)
          /\ Extends(x.out.trace, e.trace) /\ x.out.settled_total <= e.settled
      BY <1>0, <3>1 DEF ReplyOK, EngineOf, SessionOf, BodyOf
    <3> HIDE DEF x, y, e
    <3>3. Agreeing(x, y) /\ Agreeing(y, x)
      BY <3>1, <3>2, NewestAgrees
    <3> QED
      BY <3>3 DEF x, y
  <2>3. CASE New(p)
    <3> DEFINE x == req'[q].reply
               y == req'[p].reply
               e == sessions'[req'[p].body.ref].engine
    <3>1. x.life = life' /\ y.out = Snapshot(e)
      BY <1>3, <2>3
    <3>2. /\ x.out.trace \in Seq(Line) /\ y.out.trace \in Seq(Line)
          /\ Extends(x.out.trace, e.trace) /\ x.out.settled_total <= e.settled
      BY <1>0, <3>1 DEF ReplyOK, EngineOf, SessionOf, BodyOf
    <3> HIDE DEF x, y, e
    <3>3. Agreeing(x, y) /\ Agreeing(y, x)
      BY <3>1, <3>2, NewestAgrees
    <3> QED
      BY <3>3 DEF x, y
  <2> QED
    BY <1>1, <2>1, <2>2, <2>3
<1> QED
  BY <1>2, <1>3, LifeMoves

\* Whoever got two answers about one deal, in whichever order they came, holds two
\* prefixes of one history.
THEOREM AnswersAgreeAlways == Spec => []AnswersAgree
<1> DEFINE Replies == \A q \in Request : ReplyOK(q)
<1>1. Init => Replies /\ AnswersAgree
  BY DEF Init, IdleSlot, NoReply, ReplyOK, AnswersAgree
<1>2. ServiceInv /\ Replies /\ AnswersAgree /\ [Next]_vars => Replies' /\ AnswersAgree'
  BY ReplyStep, AnswersStep
<1> QED
  BY <1>1, <1>2, ServiceCorrect, PTL DEF Spec

(***************************************************************************)
(* The signed receipts.                                                    *)
(***************************************************************************)

\* A session's terms are those of an open request for its deal.
TermsInv ==
  \A r \in Ref :
    sessions[r] # Null =>
      sessions[r].engine.open_in \in AllTerms /\ sessions[r].engine.open_in.ref = r

\* They are what they were when it was opened.
LEMMA TermsStep ==
  ASSUME ServiceInv, TermsInv, [Next]_vars
  PROVE  TermsInv'
<1> SUFFICES ASSUME NEW r \in Ref, sessions'[r] # Null
             PROVE  /\ sessions'[r].engine.open_in \in AllTerms
                    /\ sessions'[r].engine.open_in.ref = r
  BY DEF TermsInv, AllTerms
<1>1. life' = life
  BY LifeMoves DEF Restart
<1>2. CASE sessions[r] = Null
  <2>1. PICK i \in AllTerms : /\ i \in SettleOpenIn /\ i.ref = r
                              /\ sessions'[r].engine = Opened(NewEngine, i)
    BY <1>1, <1>2, SessionMoves
  <2>2. Opened(NewEngine, i).open_in = i
    BY DEF Opened, NewEngine
  <2> QED
    BY <2>1, <2>2
<1>3. CASE sessions[r] # Null
  <2>1. sessions'[r].engine.open_in = sessions[r].engine.open_in
    BY <1>1, <1>3, SessionGrows DEF Grows
  <2> QED
    BY <1>3, <2>1 DEF TermsInv
<1> QED
  BY <1>2, <1>3

\* Deal r is opened in the signed tier or not at all.
OnlySigned(r) ==
  \A b \in Bodies : b.op = "open" /\ b.ref = r => b.open_in.attestor = "signed"

\* The answer carries the pinned key's signature of what it says.
SignedOK(q) ==
  LET x == req[q].reply
  IN  x.status = 200 /\ BodyOf(q).op # "open" /\ OnlySigned(BodyOf(q).ref) =>
        /\ x.signature \in VerdictSignature
        /\ x.signature = SignVerdict(<<"pinned">>, KeptReceipt(BodyOf(q).ref, x.out), x.out.trace)

\* What _sign_if_signed makes of an engine's state in the signed tier.
LEMMA OkIsSigned ==
  ASSUME SeedPinned, NEW e \in EngineRecord(SettleOpenIn), e.open_in \in SettleOpenIn
  PROVE  LET x == Ok(e, "signed")
         IN  /\ x.signature \in VerdictSignature
             /\ x.signature = SignVerdict(<<"pinned">>, KeptReceipt(e.open_in.ref, x.out),
                                          x.out.trace)
<1> DEFINE x == Ok(e, "signed")
           receipt == Receipt(e)
           sig == SignVerdict(<<"pinned">>, receipt, e.trace)
<1>1. VerdictKey = <<"pinned">>
  BY DEF VerdictKey
<1>2. x.signature = sig /\ x.out = Snapshot(e)
  BY <1>1 DEF Ok
<1>3. /\ e.open_in.ref \in Ref /\ e.per_unit \in Seq(PerUnit) /\ e.settled \in Int
      /\ e.open_in.max_total \in Int /\ Remaining(e) \in Int /\ e.trace \in Seq(Line)
  BY DEF EngineRecord, SettleOpenIn, Remaining
<1>4. receipt \in [ref : Ref, per_unit : Seq(PerUnit), settled_total : Int,
                   remainder_unspent : Int]
  BY <1>3 DEF Receipt
<1>5. KeptReceipt(e.open_in.ref, Snapshot(e)) = receipt /\ Snapshot(e).trace = e.trace
  BY DEF KeptReceipt, Snapshot, Receipt
<1> HIDE DEF receipt
<1>6. sig \in VerdictSignature
  BY <1>3, <1>4 DEF SignVerdict, SignBytes, VerdictMessage, VerdictSignature
<1> QED
  BY <1>2, <1>5, <1>6

\* An answer is signed when given and stays as it was.
LEMMA SignedStep ==
  ASSUME SeedPinned, ServiceInv, ServiceInv', TermsInv', [Next]_vars, NEW p \in Request,
         SignedOK(p)
  PROVE  SignedOK(p)'
<1> SUFFICES ASSUME req'[p].reply.status = 200, req'[p].body.op # "open",
                    OnlySigned(req'[p].body.ref)
             PROVE  LET x == req'[p].reply
                    IN  /\ x.signature \in VerdictSignature
                        /\ x.signature = SignVerdict(<<"pinned">>,
                                           KeptReceipt(req'[p].body.ref, x.out), x.out.trace)
  BY DEF SignedOK, BodyOf, OnlySigned
<1> DEFINE x == req'[p].reply
           r == req'[p].body.ref
           d == sessions'[r].engine
<1>1. ASSUME req'[p].reply = req[p].reply, req'[p].body = req[p].body
      PROVE  /\ x.signature \in VerdictSignature
             /\ x.signature = SignVerdict(<<"pinned">>, KeptReceipt(r, x.out), x.out.trace)
  BY <1>1 DEF SignedOK, BodyOf
<1>2. CASE Restart
  <2>1. CASE Free(p)
    <3>1. req'[p] = req[p]
      BY <1>2, <2>1 DEF Restart, ServiceInv
    <3> QED
      BY <1>1, <3>1
  <2>2. CASE ~Free(p)
    <3>1. req'[p] = [req[p] EXCEPT !.stage = "done", !.call = NoCall, !.reply = Refusal(0)]
      BY <1>2, <2>2 DEF Restart, ServiceInv
    <3>2. req'[p].reply = Refusal(0)
      BY <3>1 DEF ServiceInv, SlotOK
    <3> QED
      BY <3>2 DEF Refusal, NoReply
  <2> QED
    BY <2>1, <2>2
<1>3. ASSUME life' = life, req'[p].body \in Bodies, sessions'[r] # Null,
             x = Ok(d, sessions'[r].tier)
      PROVE  /\ x.signature \in VerdictSignature
             /\ x.signature = SignVerdict(<<"pinned">>, KeptReceipt(r, x.out), x.out.trace)
  <2>1. r \in Ref
    BY <1>3, BodyAssumption
  <2>2. /\ d \in EngineRecord(SettleOpenIn) /\ sessions'[r].tier = d.open_in.attestor
        /\ d.open_in \in AllTerms /\ d.open_in.ref = r
    BY <1>3, <2>1 DEF ServiceInv, SessionOK, Session, TermsInv, AllTerms
  <2>3. PICK b \in Bodies : b.op = "open" /\ d.open_in = b.open_in
    BY <2>2 DEF AllTerms
  <2>4. b.ref = r /\ d.open_in \in SettleOpenIn
    BY <2>2, <2>3, BodyAssumption
  <2>5. x = Ok(d, "signed")
    BY <1>3, <2>2, <2>3, <2>4 DEF OnlySigned
  <2> HIDE DEF x, d, r
  <2> QED
    BY <2>2, <2>4, <2>5, OkIsSigned
<1>4. CASE life' = life
  BY <1>1, <1>3, <1>4, RepliesMove DEF ReplyMoves
<1> QED
  BY <1>2, <1>4, LifeMoves

\* Under a pinned seed an answered advance or close of a deal of the signed tier verifies,
\* then and in any later life of the process.
THEOREM SignedAnswersVerifyAlways ==
  ASSUME SeedPinned
  PROVE  Spec => []SignedAnswersVerify
<1> DEFINE SignedInv == \A q \in Request : SignedOK(q)
<1>1. Init => TermsInv /\ SignedInv
  BY DEF Init, TermsInv, SignedOK, IdleSlot, NoReply
<1>2. ServiceInv /\ TermsInv /\ [Next]_vars => TermsInv'
  BY TermsStep
<1>3. ServiceInv /\ ServiceInv' /\ TermsInv' /\ SignedInv /\ [Next]_vars => SignedInv'
  BY SignedStep
<1>4. SignedInv => SignedAnswersVerify
  <2> SUFFICES ASSUME NEW q \in Request, SignedOK(q), req[q].reply.status = 200,
                      BodyOf(q).op # "open", OnlySigned(BodyOf(q).ref)
               PROVE  Verify(BodyOf(q).ref, req[q].reply) = "signature-valid"
    BY DEF SignedAnswersVerify, OnlySigned
  <2>1. req[q].reply.signature # Null /\ req[q].reply.signature # NotHex
    BY SignatureAssumption DEF SignedOK
  <2>2. VerdictKey = <<"pinned">>
    BY DEF VerdictKey
  <2> QED
    BY <2>1, <2>2 DEF SignedOK, Verify, VerifyVerdict, Verifies, SignVerdict
<1> QED
  BY <1>1, <1>2, <1>3, <1>4, ServiceCorrect, PTL DEF Spec

(***************************************************************************)
(* The cap.                                                                *)
(***************************************************************************)

\* The line open() writes for terms i.
OpenLineOf(i) == StreamOpenLine(i.ref, i.rate, i.max_total, 0)

\* Answer o opens with the terms of this deal's session, which some buyer sent, and
\* states amounts within these very terms.
WithinTerms(r, o) ==
  LET agreed == o.trace[1]
  IN  /\ o.trace # <<>> /\ \E i \in AllTerms : i.ref = r /\ agreed = OpenLineOf(i)
      /\ o.settled_total <= agreed.rate * VerifiedCount(o.per_unit)
      /\ o.settled_total <= agreed.max_total
      /\ o.remainder_unspent = agreed.max_total - o.settled_total

CapOK(q) == req[q].reply.status = 200 => WithinTerms(BodyOf(q).ref, req[q].reply.out)

\* The first line of a session's trace states the terms it was opened with.
HeadedBy(e) == e.trace # <<>> /\ e.trace[1] = OpenLineOf(e.open_in)

HeadInv == \A r \in Ref : sessions[r] # Null => HeadedBy(sessions[r].engine)

\* The line is there from the start, and neither it nor the terms ever change.
LEMMA HeadStep ==
  ASSUME ServiceInv, HeadInv, [Next]_vars
  PROVE  HeadInv'
<1> SUFFICES ASSUME NEW r \in Ref, sessions'[r] # Null
             PROVE  HeadedBy(sessions'[r].engine)
  BY DEF HeadInv
<1>1. life' = life
  BY LifeMoves DEF Restart
<1>2. CASE sessions[r] = Null
  <2>1. PICK i \in AllTerms : sessions'[r].engine = Opened(NewEngine, i)
    BY <1>1, <1>2, SessionMoves
  <2> DEFINE line == StreamOpenLine(i.ref, i.rate, i.max_total, 0)
  <2>2. /\ Opened(NewEngine, i).open_in = i
        /\ Opened(NewEngine, i).trace = Append(<<>>, line)
    BY DEF Opened, NewEngine
  <2> HIDE DEF line
  <2>3. Append(<<>>, line) # <<>> /\ Append(<<>>, line)[1] = line
    OBVIOUS
  <2> QED
    BY <2>1, <2>2, <2>3 DEF HeadedBy, OpenLineOf, line
<1>3. CASE sessions[r] # Null
  <2> DEFINE e == sessions[r].engine
             d == sessions'[r].engine
  <2>1. /\ e.trace \in Seq(Line) /\ d.trace \in Seq(Line)
        /\ d.open_in = e.open_in /\ Extends(e.trace, d.trace)
    BY <1>1, <1>3, SessionGrows DEF Grows, EngineRecord
  <2>2. HeadedBy(e)
    BY <1>3 DEF HeadInv
  <2> HIDE DEF e, d
  <2>3. Len(e.trace) >= 1
    BY <2>1, <2>2 DEF HeadedBy
  <2>4. d.trace[1] = e.trace[1] /\ d.trace # <<>>
    BY <2>1, <2>3 DEF Extends
  <2>5. HeadedBy(d)
    BY <2>1, <2>2, <2>4 DEF HeadedBy
  <2> QED
    BY <2>5 DEF d
<1> QED
  BY <1>2, <1>3

\* A session's engine, whoever is inside it, can be answered for.
SessionsWithinTerms ==
  \A r \in Ref : sessions[r] # Null => WithinTerms(r, Snapshot(sessions[r].engine))

\* Its meter sees to that.
LEMMA SessionsKeepTheCap ==
  ASSUME ServiceInv, TermsInv, HeadInv
  PROVE  SessionsWithinTerms
<1> SUFFICES ASSUME NEW r \in Ref, sessions[r] # Null
             PROVE  WithinTerms(r, Snapshot(sessions[r].engine))
  BY DEF SessionsWithinTerms
<1> DEFINE e == sessions[r].engine
           o == Snapshot(e)
<1>1. MeterOK(r) /\ e.open_in \in AllTerms /\ e.open_in.ref = r /\ HeadedBy(e)
  BY DEF ServiceInv, TermsInv, HeadInv
<1>2. e.settled <= e.open_in.rate * Verified(e) /\ e.settled <= e.open_in.max_total
  <2>1. CASE \A q \in Request : ~InsideOf(q, r)
    <3>1. OnMeter(SettleOpenIn, e, "none", 0)
      BY <1>1, <2>1 DEF MeterOK
    <3> HIDE DEF e
    <3> QED
      BY <3>1, MeterBounds
  <2>2. ASSUME NEW q \in Request, InsideOf(q, r)
        PROVE  e.settled <= e.open_in.rate * Verified(e) /\ e.settled <= e.open_in.max_total
    <3>1. OnMeter(SettleOpenIn, e, Await(q), req[q].call.amount)
      BY <1>1, <2>2 DEF MeterOK
    <3>2. Await(q) \in {"none", "advance", "drained", "close_stream", "receipt"}
      BY <2>2 DEF InsideOf, EngineAwaits
    <3> HIDE DEF e
    <3> QED
      BY <3>1, <3>2, MeterBounds
  <2> QED
    BY <2>1, <2>2
<1>3. /\ o.settled_total = e.settled /\ o.per_unit = e.per_unit
      /\ o.remainder_unspent = e.open_in.max_total - e.settled
      /\ o.trace = e.trace
  BY DEF Snapshot, Remaining
<1> HIDE DEF e, o
<1>4. OpenLineOf(e.open_in).rate = e.open_in.rate
      /\ OpenLineOf(e.open_in).max_total = e.open_in.max_total
  BY DEF OpenLineOf, StreamOpenLine
<1>5. WithinTerms(r, o)
  BY <1>1, <1>2, <1>3, <1>4 DEF WithinTerms, Verified, HeadedBy
<1> QED
  BY <1>5 DEF o, e

\* An answer keeps the cap when given and stays as it was.
LEMMA CapStep ==
  ASSUME ServiceInv, SessionsWithinTerms', [Next]_vars, NEW p \in Request, CapOK(p)
  PROVE  CapOK(p)'
<1> SUFFICES ASSUME req'[p].reply.status = 200
             PROVE  WithinTerms(req'[p].body.ref, req'[p].reply.out)
  BY DEF CapOK, BodyOf, WithinTerms
<1>1. ASSUME req'[p].reply = req[p].reply, req'[p].body = req[p].body
      PROVE  WithinTerms(req'[p].body.ref, req'[p].reply.out)
  BY <1>1 DEF CapOK, BodyOf
<1>2. CASE Restart
  <2>1. CASE Free(p)
    <3>1. req'[p] = req[p]
      BY <1>2, <2>1 DEF Restart, ServiceInv
    <3> QED
      BY <1>1, <3>1
  <2>2. CASE ~Free(p)
    <3>1. req'[p] = [req[p] EXCEPT !.stage = "done", !.call = NoCall, !.reply = Refusal(0)]
      BY <1>2, <2>2 DEF Restart, ServiceInv
    <3>2. req'[p].reply = Refusal(0)
      BY <3>1 DEF ServiceInv, SlotOK
    <3> QED
      BY <3>2 DEF Refusal, NoReply
  <2> QED
    BY <2>1, <2>2
<1>3. ASSUME req'[p].body \in Bodies, sessions'[req'[p].body.ref] # Null,
             req'[p].reply.out = Snapshot(sessions'[req'[p].body.ref].engine)
      PROVE  WithinTerms(req'[p].body.ref, req'[p].reply.out)
  <2>1. req'[p].body.ref \in Ref
    BY <1>3, BodyAssumption
  <2> QED
    BY <1>3, <2>1 DEF SessionsWithinTerms
<1>4. CASE life' = life
  BY <1>1, <1>3, <1>4, RepliesMove DEF ReplyMoves
<1> QED
  BY <1>2, <1>4, LifeMoves

\* Whatever a client is told of a deal, in whichever life of the process, begins with the
\* terms the session was opened with, and is within their rate for each verified unit and
\* their cap; the sum over several lives is not (CapHoldsForTheDeal).
THEOREM AnswersKeepTheCap ==
  Spec => [](\A q \in Request :
               req[q].reply.status = 200 => WithinTerms(BodyOf(q).ref, req[q].reply.out))
<1> DEFINE CapInv == \A q \in Request : CapOK(q)
<1>1. Init => TermsInv /\ HeadInv /\ CapInv
  BY DEF Init, TermsInv, HeadInv, CapOK, IdleSlot, NoReply
<1>2. ServiceInv /\ TermsInv /\ HeadInv /\ [Next]_vars => TermsInv' /\ HeadInv'
  BY TermsStep, HeadStep
<1>3. ServiceInv /\ TermsInv /\ HeadInv => SessionsWithinTerms
  BY SessionsKeepTheCap
<1>4. ServiceInv /\ SessionsWithinTerms' /\ CapInv /\ [Next]_vars => CapInv'
  BY CapStep
<1>5. CapInv => (\A q \in Request :
                   req[q].reply.status = 200 => WithinTerms(BodyOf(q).ref, req[q].reply.out))
  BY DEF CapOK
<1> QED
  BY <1>1, <1>2, <1>3, <1>4, <1>5, ServiceCorrect, PTL DEF Spec

(***************************************************************************)
(* The locks.                                                              *)
(***************************************************************************)
Pending(p) == req[p].stage \in {"waiting", "running"}

\* The requests that asked for open_lock and for the lock of deal r's session.
Openers == {p \in Request : Pending(p) /\ BodyOf(p).op = "open"}

Askers(r) ==
  {p \in Request : Pending(p) /\ BodyOf(p).op \in {"advance", "close"} /\ BodyOf(p).ref = r}

\* The lock of deal r's session; a deal without one has no lock to queue for.
LockOf(r) == IF sessions[r] = Null THEN <<>> ELSE sessions[r].queue

\* S queues, each once.
Orderly(queue, S) ==
  /\ IsInjective(queue)
  /\ \A i \in DOMAIN queue : queue[i] \in S
  /\ \A p \in S : \E i \in DOMAIN queue : queue[i] = p

QueueInv ==
  /\ Orderly(open_queue, Openers)
  /\ \A r \in Ref : Orderly(LockOf(r), Askers(r))

\* A queue and the requests in it, before and after a step: a newcomer joins at the end,
\* the head leaves, or nothing happens.
QueueMoves(s, S, t, T) ==
  \/ t = s /\ T = S
  \/ \E q \in Request : q \notin S /\ t = Append(s, q) /\ T = S \cup {q}
  \/ s # <<>> /\ t = Tail(s) /\ T = S \ {s[1]}

\* Each of them keeps a queue orderly.
LEMMA OrderlyMoves ==
  ASSUME NEW s \in Seq(Request), NEW S, NEW t, NEW T, Orderly(s, S), QueueMoves(s, S, t, T)
  PROVE  Orderly(t, T)
<1>1. CASE t = s /\ T = S
  BY <1>1
<1>2. ASSUME NEW q \in Request, q \notin S, t = Append(s, q), T = S \cup {q}
      PROVE  Orderly(t, T)
  <2>1. /\ DOMAIN s = 1 .. Len(s) /\ Len(s) \in Nat
        /\ DOMAIN t = 1 .. (Len(s) + 1)
        /\ \A i \in 1 .. Len(s) : t[i] = s[i]
        /\ t[Len(s) + 1] = q
    BY <1>2
  <2>2. /\ \A i \in 1 .. (Len(s) + 1) : i \in 1 .. Len(s) \/ i = Len(s) + 1
        /\ \A i \in 1 .. Len(s) : i \in 1 .. (Len(s) + 1)
        /\ Len(s) + 1 \in 1 .. (Len(s) + 1)
    BY <2>1
  <2> QED
    BY <1>2, <2>1, <2>2 DEF Orderly, IsInjective
<1>3. CASE s # <<>> /\ t = Tail(s) /\ T = S \ {s[1]}
  <2>1. \A i \in DOMAIN t : i + 1 \in DOMAIN s /\ t[i] = s[i + 1] /\ i \in Nat /\ i + 1 # 1
    BY <1>3
  <2>2. 1 \in DOMAIN s
    BY <1>3
  <2>3. \A j \in DOMAIN s : j # 1 => j - 1 \in DOMAIN t /\ t[j - 1] = s[j]
    BY <1>3
  <2>4. \A i \in DOMAIN t : t[i] \in T
    BY <1>3, <2>1, <2>2 DEF Orderly, IsInjective
  <2>5. \A i, j \in DOMAIN t : t[i] = t[j] => i = j
    <3> SUFFICES ASSUME NEW i \in DOMAIN t, NEW j \in DOMAIN t, t[i] = t[j]
                 PROVE  i = j
      OBVIOUS
    <3>1. i + 1 = j + 1
      BY <2>1 DEF Orderly, IsInjective
    <3> QED
      BY <2>1, <3>1
  <2>6. ASSUME NEW p \in T PROVE \E i \in DOMAIN t : t[i] = p
    <3>1. PICK j \in DOMAIN s : s[j] = p
      BY <1>3, <2>6 DEF Orderly
    <3>2. j # 1
      BY <1>3, <2>6, <3>1
    <3> QED
      BY <2>3, <3>1, <3>2
  <2> QED
    BY <2>4, <2>5, <2>6 DEF Orderly, IsInjective
<1> QED
  BY <1>1, <1>2, <1>3 DEF QueueMoves

\* Nobody is in an empty queue.
LEMMA OrderlyEmpty == Orderly(<<>>, {})
BY DEF Orderly, IsInjective

\* Every lock of the service moves so.
Queues ==
  /\ QueueMoves(open_queue, Openers, open_queue', Openers')
  /\ \A r \in Ref : QueueMoves(LockOf(r), Askers(r), LockOf(r)', Askers(r)')

\* Requests queue in the order they came, for the one lock they asked for, until they are
\* answered; only a restart sends everybody away.
LEMMA QueueStep ==
  ASSUME ServiceInv, [Next]_vars
  PROVE  \/ Queues
         \/ /\ Restart
            /\ open_queue' = <<>> /\ Openers' = {}
            /\ \A r \in Ref : LockOf(r)' = <<>> /\ Askers(r)' = {}
<1>0. /\ DOMAIN req = Request /\ DOMAIN sessions = Ref /\ open_queue \in Seq(Request)
      /\ \A q \in Request : SlotOK(q)
      /\ \A r \in Ref : sessions[r] # Null =>
           sessions[r] \in Session /\ sessions[r].queue \in Seq(Request)
  BY DEF ServiceInv, SessionOK, Session
<1>1. ASSUME NEW q \in Request, NEW b \in Bodies, OpenArrives(q, b)
      PROVE  Queues
  <2>1. /\ \A p \in Request : p # q => req'[p] = req[p]
        /\ req'[q].stage = "waiting" /\ req'[q].body = b
        /\ q \notin Openers /\ \A r \in Ref : q \notin Askers(r)
    BY <1>0, <1>1 DEF OpenArrives, Enter, IdleSlot, Free, Openers, Askers, Pending
  <2>2. /\ Openers' = Openers \cup {q}
        /\ \A r \in Ref : Askers(r)' = Askers(r)
    BY <1>1, <2>1 DEF OpenArrives, Openers, Askers, Pending, BodyOf
  <2>3. open_queue' = Append(open_queue, q) /\ \A r \in Ref : LockOf(r)' = LockOf(r)
    BY <1>1 DEF OpenArrives, LockOf
  <2> QED
    BY <2>1, <2>2, <2>3 DEF Queues, QueueMoves
<1>2. ASSUME NEW q \in Request, NEW b \in Bodies, SessionArrives(q, b)
      PROVE  Queues
  <2>1. /\ \A p \in Request : p # q => req'[p] = req[p]
        /\ q \notin Openers /\ \A r \in Ref : q \notin Askers(r)
        /\ req'[q].body = b /\ b.op \in {"advance", "close"}
        /\ req'[q].stage \in {"waiting", "done"}
    BY <1>0, <1>2 DEF SessionArrives, Enter, IdleSlot, Free, Openers, Askers, Pending
  <2>2. b.ref \in Ref
    BY BodyAssumption
  <2>3. /\ Openers' = Openers
        /\ \A r \in Ref : r # b.ref => Askers(r)' = Askers(r)
        /\ req'[q].stage = "waiting" => Askers(b.ref)' = Askers(b.ref) \cup {q}
        /\ req'[q].stage = "done" => Askers(b.ref)' = Askers(b.ref)
    <3>1. Openers' = Openers
      BY <2>1 DEF Openers, Pending, BodyOf
    <3>2. ASSUME NEW r \in Ref, r # b.ref PROVE Askers(r)' = Askers(r)
      BY <2>1, <3>2 DEF Askers, Pending, BodyOf
    <3>3. ASSUME req'[q].stage = "waiting" PROVE Askers(b.ref)' = Askers(b.ref) \cup {q}
      BY <2>1, <3>3 DEF Askers, Pending, BodyOf
    <3>4. ASSUME req'[q].stage = "done" PROVE Askers(b.ref)' = Askers(b.ref)
      <4>1. q \notin Askers(b.ref)' /\ q \notin Askers(b.ref)
        BY <2>1, <2>2, <3>4 DEF Askers, Pending
      <4>2. \A p \in Request : p # q => (p \in Askers(b.ref)' <=> p \in Askers(b.ref))
        BY <2>1 DEF Askers, Pending, BodyOf
      <4> QED
        BY <4>1, <4>2 DEF Askers
    <3> QED
      BY <3>1, <3>2, <3>3, <3>4
  <2>4. CASE sessions' = sessions /\ req'[q].stage = "done"
    <3>1. \A r \in Ref : LockOf(r)' = LockOf(r) /\ Askers(r)' = Askers(r)
      BY <2>3, <2>4 DEF LockOf
    <3> QED
      BY <1>2, <2>3, <3>1 DEF SessionArrives, Queues, QueueMoves
  <2>5. CASE /\ sessions[b.ref] # Null /\ req'[q].stage = "waiting"
             /\ sessions' = [sessions EXCEPT ![b.ref].queue = Append(@, q)]
    <3>1. sessions'[b.ref] # Null /\ sessions'[b.ref].queue = Append(sessions[b.ref].queue, q)
      <4>1. sessions[b.ref] \in Session /\ sessions[b.ref].queue \in Seq(Request)
        BY <1>0, <2>2, <2>5
      <4>2. sessions'[b.ref] = [sessions[b.ref] EXCEPT !.queue = Append(sessions[b.ref].queue, q)]
        BY <1>0, <2>2, <2>5
      <4>3. Append(sessions[b.ref].queue, q) \in Seq(Request)
        BY <4>1
      <4>4. /\ sessions'[b.ref] \in Session
            /\ sessions'[b.ref].queue = Append(sessions[b.ref].queue, q)
        BY <4>1, <4>2, <4>3 DEF Session
      <4> QED
        BY <4>4, NoSessionAssumption
    <3>2. LockOf(b.ref)' = Append(LockOf(b.ref), q)
      BY <2>5, <3>1 DEF LockOf
    <3>3. \A r \in Ref : r # b.ref => LockOf(r)' = LockOf(r)
      BY <1>0, <2>5 DEF LockOf
    <3> QED
      BY <1>2, <2>1, <2>3, <2>5, <3>2, <3>3 DEF SessionArrives, Queues, QueueMoves
  <2> QED
    BY <1>0, <1>2, <2>4, <2>5 DEF SessionArrives, Enter, IdleSlot
<1>3. ASSUME NEW q \in Request, OpenRefused(q) \/ OpenEnds(q)
      PROVE  Queues
  <2>1. /\ HoldsOpenLock(q) /\ BodyOf(q).op = "open" /\ open_queue' = Tail(open_queue)
    BY <1>3, OpeningEntitled DEF OpenRefused, OpenEnds
  <2>2. /\ \A p \in Request : p # q => req'[p] = req[p]
        /\ req'[q].stage = "done" /\ req'[q].body = req[q].body
    BY <1>0, <1>3 DEF OpenRefused, OpenEnds, Answer, SlotOK
  <2>3. Openers' = Openers \ {q} /\ \A r \in Ref : Askers(r)' = Askers(r)
    BY <2>1, <2>2 DEF Openers, Askers, Pending, BodyOf
  <2>4. ASSUME NEW r \in Ref PROVE LockOf(r)' = LockOf(r)
    <3>1. CASE sessions'[r] = sessions[r]
      BY <3>1 DEF LockOf
    <3>2. CASE sessions[r] = Null /\ sessions'[r].queue = <<>>
      BY <3>2 DEF LockOf
    <3>3. OpenEnds(q) => SessionOf(q) = Null /\ BodyOf(q) \in Bodies
                         /\ BodyOf(q).open_in.ref = BodyOf(q).ref
      BY <1>0, BodyAssumption DEF OpenEnds, ServiceInv, OpenerOK, SlotOK
    <3> QED
      BY <1>0, <1>3, <3>1, <3>2, <3>3 DEF OpenRefused, OpenEnds, SessionOf
  <2> QED
    BY <2>1, <2>3, <2>4 DEF HoldsOpenLock, Queues, QueueMoves
<1>4. ASSUME NEW q \in Request, OpenBegins(q)
      PROVE  Queues
  <2>1. /\ \A p \in Request : p # q => req'[p] = req[p]
        /\ req'[q].stage = "running" /\ req'[q].body = req[q].body
        /\ req[q].stage = "waiting"
        /\ sessions' = sessions /\ open_queue' = open_queue
    BY <1>0, <1>4 DEF OpenBegins, SlotOK, Opening
  <2>2. /\ Openers' = Openers
        /\ \A r \in Ref : Askers(r)' = Askers(r) /\ LockOf(r)' = LockOf(r)
    BY <2>1 DEF Openers, Askers, Pending, BodyOf, LockOf
  <2> QED
    BY <2>1, <2>2 DEF Queues, QueueMoves
<1>5. ASSUME NEW q \in Request, InEngine(q)
      PROVE  Queues
  <2>1. PICK e : Advances(q, e)
    BY <1>5, EngineAdvances
  <2>2. BodyOf(q).ref \in Ref
    BY <2>1, Alone DEF Advances
  <2>3. PICK ref \in Ref : ref = BodyOf(q).ref
    BY <2>2
  <2>4. /\ Entitled(q) /\ ref \in Ref /\ sessions[ref] # Null /\ sessions[ref].queue # <<>>
        /\ sessions[ref].queue[1] = q /\ sessions[ref] \in Session
    BY <1>0, <2>1, <2>3, Alone DEF Advances, Entitled, SessionOf, HoldsSession
  <2>5. /\ \A p \in Request : p # q => req'[p] = req[p]
        /\ open_queue' = open_queue
        /\ \A r \in Ref : r # ref => LockOf(r)' = LockOf(r)
        /\ req'[q].body = req[q].body
    BY <1>0, <2>1, <2>4, <2>3 DEF Advances, Stay, Leave, Answer, LockOf, SlotOK
  <2>6. Openers' = Openers /\ \A r \in Ref : r # ref => Askers(r)' = Askers(r)
    BY <2>4, <2>5, <2>3 DEF Openers, Askers, Pending, BodyOf, Entitled
  <2>7. sessions'[ref] # Null
    BY <2>1, <2>3, AdvancesMoves
  <2>8. \/ LockOf(ref)' = LockOf(ref) /\ Askers(ref)' = Askers(ref)
        \/ LockOf(ref)' = Tail(LockOf(ref)) /\ Askers(ref)' = Askers(ref) \ {q}
    <3>1. ASSUME NEW call, Stay(q, e, call)
          PROVE  LockOf(ref)' = LockOf(ref) /\ Askers(ref)' = Askers(ref)
      <4>1. sessions'[ref].queue = sessions[ref].queue
        BY <1>0, <2>4, <2>3, <3>1 DEF Stay, Session
      <4>2. LockOf(ref)' = LockOf(ref)
        BY <2>4, <2>7, <4>1 DEF LockOf
      <4>3. req'[q].stage = "running" /\ req'[q].body = req[q].body
        BY <1>0, <3>1 DEF Stay, SlotOK
      <4> QED
        BY <2>4, <2>5, <2>3, <4>2, <4>3 DEF Askers, Pending, BodyOf, Entitled
    <3>2. ASSUME NEW reply, Leave(q, e, reply)
          PROVE  LockOf(ref)' = Tail(LockOf(ref)) /\ Askers(ref)' = Askers(ref) \ {q}
      <4>1. sessions'[ref].queue = Tail(sessions[ref].queue)
        BY <1>0, <2>4, <2>3, <3>2 DEF Leave, SessionOf
      <4>2. LockOf(ref)' = Tail(LockOf(ref))
        BY <2>4, <2>7, <4>1 DEF LockOf
      <4>3. req'[q].stage = "done"
        BY <1>0, <3>2 DEF Leave, Answer, SlotOK
      <4> QED
        BY <2>5, <4>2, <4>3 DEF Askers, Pending, BodyOf
    <3> QED
      BY <2>1, <3>1, <3>2 DEF Advances
  <2>9. LockOf(ref) # <<>> /\ LockOf(ref)[1] = q
    BY <2>4 DEF LockOf
  <2>10. ASSUME NEW r \in Ref PROVE QueueMoves(LockOf(r), Askers(r), LockOf(r)', Askers(r)')
    <3>1. CASE r # ref
      BY <2>5, <2>6, <3>1 DEF QueueMoves
    <3>2. CASE r = ref
      BY <2>8, <2>9, <3>2 DEF QueueMoves
    <3> QED
      BY <3>1, <3>2
  <2> QED
    BY <2>5, <2>6, <2>10 DEF Queues, QueueMoves
<1>6. CASE Restart
  <2>1. open_queue' = <<>> /\ \A r \in Ref : LockOf(r)' = <<>>
    BY <1>6 DEF Restart, LockOf
  <2>2. ASSUME NEW p \in Request PROVE ~Pending(p)'
    <3>1. CASE Free(p)
      BY <1>6, <3>1 DEF Restart, Free, Pending
    <3>2. CASE ~Free(p)
      <4>1. req'[p] = [req[p] EXCEPT !.stage = "done", !.call = NoCall, !.reply = Refusal(0)]
        BY <1>6, <3>2 DEF Restart
      <4>2. req'[p].stage = "done"
        BY <1>0, <4>1 DEF SlotOK
      <4> QED
        BY <4>2 DEF Pending
    <3> QED
      BY <3>1, <3>2
  <2> QED
    BY <1>6, <2>1, <2>2 DEF Openers, Askers
<1>7. CASE UNCHANGED vars
  BY <1>7 DEF vars, Queues, QueueMoves, Openers, Askers, Pending, BodyOf, LockOf
<1> QED
  BY <1>1, <1>2, <1>3, <1>4, <1>5, <1>6, <1>7 DEF Next, Handle, InEngine

\* Who queues is who waits: the inductive step.
LEMMA QueueInvStep == ServiceInv /\ QueueInv /\ [Next]_vars => QueueInv'
<1> SUFFICES ASSUME ServiceInv, QueueInv, [Next]_vars PROVE QueueInv'
  OBVIOUS
<1>1. CASE Queues
  <2>1. open_queue \in Seq(Request) /\ \A r \in Ref : LockOf(r) \in Seq(Request)
    BY DEF ServiceInv, SessionOK, Session, LockOf
  <2> QED
    BY <1>1, <2>1, OrderlyMoves DEF Queues, QueueInv
<1> QED
  BY <1>1, QueueStep, OrderlyEmpty DEF QueueInv

\* The inductive invariant of the locks: each queue holds exactly the requests that wait
\* for its lock or hold it, each of them once (app.py:58-65).
THEOREM QueuesCorrect == Spec => []QueueInv
<1>1. Init => QueueInv
  <2> SUFFICES ASSUME Init PROVE QueueInv
    OBVIOUS
  <2>1. \A p \in Request : ~Pending(p)
    BY DEF Init, Pending, IdleSlot
  <2>2. Openers = {} /\ \A r \in Ref : Askers(r) = {} /\ LockOf(r) = <<>>
    BY <2>1 DEF Init, Openers, Askers, LockOf
  <2> QED
    BY <2>2, OrderlyEmpty DEF Init, QueueInv
<1> QED
  BY <1>1, QueueInvStep, ServiceCorrect, PTL DEF Spec

\* Nobody queues twice, and whoever is inside an engine has its lock, whatever the bodies
\* and the number of slots.
THEOREM ServiceTypeOKAlways == Spec => []ServiceTypeOK
<1>1. ServiceInv /\ QueueInv => ServiceTypeOK
  <2> SUFFICES ASSUME ServiceInv, QueueInv
               PROVE  ServiceTypeOK
    OBVIOUS
  <2>1. \A r \in Ref : sessions[r] # Null =>
          sessions[r].queue \in Seq(Request) /\ IsInjective(sessions[r].queue)
    BY DEF ServiceInv, SessionOK, Session, QueueInv, LockOf, Orderly
  <2>2. \A q \in Request : Await(q) \notin {"none", "open_stream"} => Await(q) \in EngineAwaits
    BY DEF ServiceInv, SlotOK, Progress, Await
  <2> QED
    BY <2>1, <2>2 DEF ServiceTypeOK, ServiceInv, QueueInv, Orderly, SessionOK, SlotOK, WorkerOK
<1> QED
  BY <1>1, ServiceCorrect, QueuesCorrect, PTL

\* Whoever waits for a lock waits for somebody: at the head of its queue stands a request
\* that has been granted the lock and may run, or that waits for the plugin inside.  No
\* lock is held by a request that was answered or lost (app.py:151, 191, 239).
THEOREM EveryLockHasItsHolder ==
  Spec => [](/\ Openers # {} =>
                  \E p \in Openers : Opening(p) \/ (HoldsOpenLock(p) /\ Await(p) = "open_stream")
             /\ \A r \in Ref : Askers(r) # {} =>
                  \E p \in Askers(r) :
                    \/ \E op \in {"advance", "close"} : Granted(p, op)
                    \/ HoldsSession(p) /\ Await(p) \in EngineAwaits)
<1> DEFINE OpenHeld == Openers # {} =>
                         \E p \in Openers :
                           Opening(p) \/ (HoldsOpenLock(p) /\ Await(p) = "open_stream")
           Held(r) == Askers(r) # {} =>
                        \E p \in Askers(r) :
                          \/ \E op \in {"advance", "close"} : Granted(p, op)
                          \/ HoldsSession(p) /\ Await(p) \in EngineAwaits
<1>1. ServiceInv /\ QueueInv => OpenHeld /\ \A r \in Ref : Held(r)
  <2> SUFFICES ASSUME ServiceInv, QueueInv
               PROVE  OpenHeld /\ \A r \in Ref : Held(r)
    OBVIOUS
  <2>1. ASSUME NEW s \in Seq(Request), NEW S, Orderly(s, S), S # {}
        PROVE  s # <<>> /\ s[1] \in S
    BY <2>1 DEF Orderly
  <2>2. \A q \in Request : /\ SlotOK(q) /\ OpenerOK(q) /\ WorkerOK(q)
                           /\ Await(q) \in {"none", "open_stream"} \cup EngineAwaits
    BY DEF ServiceInv, SlotOK, Progress, Await
  <2>3. ASSUME Openers # {}
        PROVE  \E p \in Openers : Opening(p) \/ (HoldsOpenLock(p) /\ Await(p) = "open_stream")
    <3>1. open_queue # <<>> /\ open_queue[1] \in Openers
      BY <2>1, <2>3 DEF QueueInv, ServiceInv
    <3>2. PICK p \in Openers : p = open_queue[1] /\ HoldsOpenLock(p)
      BY <3>1 DEF HoldsOpenLock
    <3> QED
      BY <2>2, <3>2 DEF Openers, Pending, Opening, SlotOK, WorkerOK, EngineAwaits
  <2>4. ASSUME NEW r \in Ref, Askers(r) # {}
        PROVE  Held(r)
    <3>1. LockOf(r) \in Seq(Request) /\ Orderly(LockOf(r), Askers(r))
      BY DEF ServiceInv, SessionOK, Session, LockOf, QueueInv
    <3>2. LockOf(r) # <<>> /\ LockOf(r)[1] \in Askers(r)
      BY <2>1, <2>4, <3>1
    <3>3. PICK p \in Askers(r) : p = LockOf(r)[1]
      BY <3>2
    <3>4. SessionOf(p) # Null /\ HoldsSession(p)
      BY <3>2, <3>3 DEF Askers, SessionOf, HoldsSession, LockOf
    <3>5. BodyOf(p).op \in {"advance", "close"} /\ Pending(p) /\ p \in Request
      BY <3>3 DEF Askers
    <3>6. CASE req[p].stage = "waiting"
      <4>1. Granted(p, BodyOf(p).op)
        BY <3>4, <3>6 DEF Granted
      <4> QED
        BY <3>3, <3>5, <4>1
    <3>7. CASE req[p].stage = "running"
      <4>1. Await(p) \in EngineAwaits
        BY <2>2, <3>5, <3>7 DEF SlotOK, OpenerOK
      <4> QED
        BY <3>3, <3>4, <4>1
    <3> QED
      BY <3>5, <3>6, <3>7 DEF Pending
  <2> QED
    BY <2>3, <2>4
<1> QED
  BY <1>1, ServiceCorrect, QueuesCorrect, PTL
==================================================================================
