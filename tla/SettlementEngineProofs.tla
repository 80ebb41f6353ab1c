------------------------- MODULE SettlementEngineProofs -------------------------
(***************************************************************************)
(* Theorems about SettlementEngine, for every set of deals, chunks and     *)
(* inputs, every rate and cap.                                             *)
(***************************************************************************)
EXTENDS EngineProperties, EngineStateProofs

---------------------------------------------------------------------------------
(***************************************************************************)
(* Type correctness.                                                       *)
(***************************************************************************)

\* A new engine (engine.py:79-88) has its fields' types.
LEMMA TypeInit == Init => TypeOK
<1> SUFFICES ASSUME Init PROVE TypeOK
  OBVIOUS
<1>1. eng \in Engine
  BY DEF Init, NewEngine, Engine, EngineRecord
<1>2. call \in Call
  BY DEF Init, NoCall, Call, Await, CloseReason
<1> QED
  BY <1>1, <1>2 DEF Init, NewEngine, NoCall, TypeOK, Outcome

\* ... and every stretch of every method keeps them: the inductive step of TypeCorrect.
LEMMA TypeStep == TypeOK /\ [Next]_vars => TypeOK'
<1> SUFFICES ASSUME TypeOK, [Next]_vars PROVE TypeOK'
  OBVIOUS
<1> USE DEF TypeOK, Engine
<1>a. /\ OpenInputs \in SUBSET SettleOpenIn /\ Null \notin OpenInputs
      /\ \A u \in UnitInputs : u \in UnitIn
  BY InputAssumption
<1>0. NoCall \in Call
  BY DEF NoCall, Call, Await, CloseReason
<1>1. ASSUME call' = NoCall, outcome' \in Outcome, UNCHANGED eng PROVE TypeOK'
  BY <1>0, <1>1 DEF NoCall
<1>2. CASE OpenAgain
  BY <1>1, <1>2 DEF OpenAgain, Raise, Outcome
<1>3. ASSUME NEW i \in OpenInputs, OpenRefused(i) PROVE TypeOK'
  BY <1>1, <1>3 DEF OpenRefused, Raise, Outcome
<1>4. ASSUME NEW i \in OpenInputs, OpenBegin(i) PROVE TypeOK'
  <2>1. i # Null
    BY InputAssumption
  <2>2. call' \in Call /\ call'.await = "open_stream" /\ call'.open_in = i
    BY <1>0, <1>4 DEF OpenBegin, Suspends, NoCall, Call, Await
  <2> QED
    BY <1>4, <2>1, <2>2 DEF OpenBegin, Suspends, Outcome, IsOpened
<1>5. CASE OpenResume
  <2>1. call.open_in \in OpenInputs /\ eng' = Opened(eng, call.open_in)
    BY <1>5 DEF OpenResume, Call
  <2>2. eng' \in Engine /\ eng'.plugin \in Stream
    BY <1>a, <2>1, OpenedType
  <2> QED
    BY <1>0, <1>5, <2>2 DEF OpenResume, Returns, NoCall, Outcome
<1>6. CASE BeforeOpen
  BY <1>1, <1>6 DEF BeforeOpen, Raise, Outcome
<1>7. CASE RefMismatch
  BY <1>1, <1>7 DEF RefMismatch, Raise, Outcome
<1>8. CASE AdvanceClosed
  BY <1>1, <1>8 DEF AdvanceClosed, Returns, Outcome
<1>9. ASSUME NEW u \in UnitInputs, Advance(u) PROVE TypeOK'
  <2>1. CASE AdvanceDuplicate(u)
    BY <1>1, <2>1 DEF AdvanceDuplicate, Raise, Outcome
  <2> SUFFICES ASSUME NewUnit(u) PROVE TypeOK'
    BY <1>9, <2>1 DEF Advance, AdvanceRaises, AdvancePass, AdvanceCapReached, AdvanceFail,
                      Decided
  <2>2. eng.open_in \in OpenInputs /\ eng.plugin \in Stream
    BY DEF NewUnit, Accepting, IsOpened, EngineRecord
  <2>3. u.seq \in Nat
    BY InputAssumption, ContractAssumption DEF UnitIn
  <2>4. CASE AdvanceRaises(u)
    <3>1. Received(eng, u) \in Engine /\ Received(eng, u).plugin = eng.plugin
      BY <1>a, <2>2, ReceivedType
    <3> QED
      BY <1>0, <2>2, <2>4, <3>1 DEF AdvanceRaises, Raise, NoCall, Outcome
  <2>5. ASSUME eng' \in Engine, eng'.open_in = eng.open_in, eng'.plugin = eng.plugin,
               outcome' = "running",
               call' \in [await : {"advance", "close_stream"}, open_in : {Null}, seq : Nat,
                          reason : CloseReason, amount : {0}]
        PROVE  TypeOK'
    <3>1. call' \in Call
      BY <2>5 DEF Call, Await
    <3> QED
      BY <2>2, <2>5, <3>1, InputAssumption DEF Outcome
  <2>6. /\ Judged(eng, u) \in Engine
        /\ Judged(eng, u).open_in = eng.open_in
        /\ Judged(eng, u).plugin = eng.plugin
    BY <1>a, <2>2, JudgedType
  <2>7. CASE AdvancePass(u)
    <3>1. eng' \in Engine /\ eng'.open_in = eng.open_in /\ eng'.plugin = eng.plugin
      BY <2>6, <2>7 DEF AdvancePass, Ticked, EngineRecord
    <3> QED
      BY <2>3, <2>5, <2>7, <3>1 DEF AdvancePass, Suspends, NoCall, CloseReason
  <2>8. CASE AdvanceCapReached(u)
    BY <2>3, <2>5, <2>6, <2>8 DEF AdvanceCapReached, Suspends, NoCall, CloseReason
  <2>9. CASE AdvanceFail(u)
    <3>1. ResultOf(eng, u).reason \in CloseReason
      BY EvaluateUnitType DEF ResultOf, CloseReason
    <3> QED
      BY <2>3, <2>5, <2>6, <2>9, <3>1 DEF AdvanceFail, Suspends, NoCall
  <2> QED
    BY <1>9, <2>1, <2>4, <2>7, <2>8, <2>9 DEF Advance
<1>10. CASE CloseBegin
  <2>1. LastSeq(eng) \in Nat
    BY LastSeqType
  <2>2. call' = [await |-> "close_stream", open_in |-> Null, seq |-> LastSeq(eng),
                 reason |-> "closed", amount |-> 0]
    BY <1>10 DEF CloseBegin, Suspends, NoCall
  <2>3. call' \in Call /\ call'.await = "close_stream"
    BY <2>1, <2>2 DEF Call, Await, CloseReason
  <2> QED
    BY <1>10, <2>3 DEF CloseBegin, Suspends, Accepting, IsOpened, Outcome
<1>11. CASE CloseAgain
  BY <1>1, <1>11 DEF CloseAgain, Returns, Outcome
<1>12. CASE PluginAdvance
  <2>1. eng.plugin \in Stream /\ eng.tick \in Int
    BY <1>12 DEF PluginAdvance, EngineRecord
  <2>2. AdvanceStream(eng.plugin, eng.tick) \in Stream /\ Owed(eng.plugin, eng.tick) \in Int
    BY <2>1, StreamType
  <2>3. eng' \in Engine /\ eng'.open_in = eng.open_in /\ eng'.plugin \in Stream
    BY <1>12, <2>2 DEF PluginAdvance, EngineRecord
  <2>4. call' \in Call /\ call'.await = "drained"
    BY <1>12, <2>2 DEF PluginAdvance, Call, Await
  <2> QED
    BY <1>12, <2>3, <2>4 DEF PluginAdvance
<1>13. CASE AdvanceResume
  <2>1. eng.open_in \in OpenInputs /\ call.seq \in Nat /\ call.amount \in Int
    BY <1>13 DEF AdvanceResume, EngineRecord, Call
  <2>2. eng' = Billed(eng, call.seq, call.amount)
    BY <1>13 DEF AdvanceResume
  <2>3. eng' \in Engine /\ eng'.plugin = eng.plugin
    BY <2>1, <2>2, <1>a, BilledType
  <2> QED
    BY <1>0, <1>13, <2>1, <2>3 DEF AdvanceResume, Returns, NoCall, Outcome
<1>14. CASE PluginClose
  <2>1. eng.plugin \in Stream /\ eng.tick \in Int
    BY <1>14 DEF PluginClose, EngineRecord
  <2>2. PICK p \in CloseStream(eng.plugin, eng.tick) :
          /\ eng' = [eng EXCEPT !.plugin = p]
          /\ call' = [call EXCEPT !.await = "receipt", !.amount = p.drained]
    BY <1>14 DEF PluginClose
  <2>3. p \in Stream /\ p.drained \in Int
    BY <2>1, StreamType DEF Stream
  <2>4. eng' \in Engine /\ eng'.open_in = eng.open_in /\ eng'.plugin \in Stream
    BY <2>2, <2>3 DEF EngineRecord
  <2>5. call' \in Call /\ call'.await = "receipt"
    BY <2>2, <2>3 DEF Call, Await
  <2> QED
    BY <1>14, <2>4, <2>5 DEF PluginClose
<1>15. CASE CloseResume
  <2>1. /\ eng.open_in \in OpenInputs /\ call.seq \in Nat /\ call.amount \in Int
        /\ call.reason \in CloseReason
    BY <1>15 DEF CloseResume, EngineRecord, Call
  <2>2. eng' = ClosedWith(eng, call.seq, call.amount, call.reason)
    BY <1>15 DEF CloseResume
  <2>3. eng' \in Engine /\ eng'.plugin = eng.plugin
    BY <2>1, <2>2, <1>a, ClosedWithType
  <2> QED
    BY <1>0, <1>15, <2>1, <2>3 DEF CloseResume, Returns, NoCall, Outcome
<1>16. CASE UNCHANGED vars
  BY <1>16 DEF vars
<1> QED
  BY <1>2, <1>3, <1>4, <1>5, <1>6, <1>7, <1>8, <1>9, <1>10, <1>11, <1>12, <1>13, <1>14,
     <1>15, <1>16 DEF Next, Resume

\* The fields of an engine keep their types, whatever it is asked to do.
THEOREM TypeCorrect == Spec => []TypeOK
BY TypeInit, TypeStep, PTL DEF Spec

---------------------------------------------------------------------------------
(***************************************************************************)
(* The meter.                                                              *)
(***************************************************************************)

\* Between the two: an open engine is on the meter of the await its method has reached.
LEMMA OpenOnMeter ==
  ASSUME TypeOK, MeterInv, IsOpened(eng)
  PROVE  /\ OnMeter(OpenInputs, eng, call.await, call.amount)
         /\ call.await \in Await \ {"open_stream"}
         /\ OpenInputs \in SUBSET SettleOpenIn
BY InputAssumption DEF TypeOK, MeterInv, OnMeter, IsOpened, Engine, EngineRecord, Call

\* At rest the plugin's amount does not matter.
LEMMA IdleOnMeter ==
  ASSUME TypeOK, MeterInv, IsOpened(eng), Idle
  PROVE  OnMeter(OpenInputs, eng, "none", 0)
BY OpenOnMeter DEF OnMeter, Metered, Idle

\* A new engine has no stream, no verdicts and no money.
LEMMA MeterInit == Init => MeterInv
BY DEF Init, NewEngine, NoCall, MeterInv, IsOpened, Idle

\* Every stretch of every method takes the relation of the await it leaves to that of
\* the await it reaches: the inductive step of MeterCorrect.
LEMMA MeterStep == TypeOK /\ TypeOK' /\ MeterInv /\ [Next]_vars => MeterInv'
<1> SUFFICES ASSUME TypeOK, TypeOK', MeterInv, [Next]_vars PROVE MeterInv'
  OBVIOUS
<1>a. /\ OpenInputs \in SUBSET SettleOpenIn /\ Null \notin OpenInputs
      /\ \A u \in UnitInputs : u \in UnitIn
  BY InputAssumption
<1>b. ASSUME IsOpened(eng'), call'.await # "open_stream",
             OnMeter(OpenInputs, eng', call'.await, call'.amount)
      PROVE  MeterInv'
  BY <1>b DEF MeterInv, OnMeter, IsOpened
<1>c. ASSUME OnMeter(OpenInputs, eng', "none", 0), call' = NoCall PROVE MeterInv'
  BY <1>a, <1>b, <1>c DEF OnMeter, NoCall, IsOpened
<1>1. ASSUME Idle, call' = NoCall, UNCHANGED eng PROVE MeterInv'
  BY <1>1 DEF MeterInv, Idle, NoCall, IsOpened, Metered
<1>2. CASE OpenAgain
  BY <1>1, <1>2 DEF OpenAgain, Raise
<1>3. ASSUME NEW i \in OpenInputs, OpenRefused(i) PROVE MeterInv'
  BY <1>1, <1>3 DEF OpenRefused, Raise
<1>4. ASSUME NEW i \in OpenInputs, OpenBegin(i) PROVE MeterInv'
  BY <1>4 DEF OpenBegin, Suspends, MeterInv, NoCall, IsOpened, Idle
<1>5. CASE OpenResume
  <2> DEFINE i == call.open_in
  <2>1. /\ i \in OpenInputs /\ ~Unmeterable(i) /\ eng \in EngineRecord(OpenInputs)
        /\ eng' = Opened(eng, i) /\ call' = NoCall
        /\ ~eng.closed /\ eng.per_unit = <<>> /\ eng.settled = 0 /\ eng.tick = 0
    BY <1>5 DEF OpenResume, Returns, TypeOK, Call, MeterInv, IsOpened, Engine
  <2>2. OnMeter(OpenInputs, eng', "none", 0)
    BY <1>a, <2>1, MeterOpened
  <2> QED
    BY <1>c, <2>1, <2>2
<1>6. CASE BeforeOpen
  BY <1>1, <1>6 DEF BeforeOpen, Raise
<1>7. CASE RefMismatch
  BY <1>1, <1>7 DEF RefMismatch, Raise
<1>8. CASE AdvanceClosed
  BY <1>1, <1>8 DEF AdvanceClosed, Returns
<1>9. ASSUME NEW u \in UnitInputs, Advance(u) PROVE MeterInv'
  <2>1. CASE AdvanceDuplicate(u)
    BY <1>1, <2>1 DEF AdvanceDuplicate, Accepting, Raise
  <2> SUFFICES ASSUME NewUnit(u) PROVE MeterInv'
    BY <1>9, <2>1 DEF Advance, AdvanceRaises, AdvancePass, AdvanceCapReached, AdvanceFail,
                      Decided
  <2>2. /\ OnMeter(OpenInputs, eng, "none", 0) /\ ~eng.closed
        /\ u \in UnitIn /\ Remaining(eng) \in Int
    <3>1. OnMeter(OpenInputs, eng, "none", 0) /\ ~eng.closed
      BY IdleOnMeter DEF NewUnit, Accepting
    <3> QED
      BY <1>a, <3>1, MeterNumbers DEF Remaining
  <2>3. CASE AdvanceRaises(u)
    BY <1>a, <1>c, <2>2, <2>3, MeterReceived DEF AdvanceRaises, Raise
  <2>4. CASE AdvancePass(u)
    <3>1. OnMeter(OpenInputs, eng', "advance", 0)
      BY <1>a, <2>2, <2>4, MeterPass DEF AdvancePass
    <3> QED
      BY <1>a, <1>b, <2>4, <3>1 DEF AdvancePass, Suspends, NoCall, OnMeter, IsOpened
  <2>5. ASSUME AdvanceCapReached(u) \/ AdvanceFail(u) PROVE MeterInv'
    <3>1. OnMeter(OpenInputs, eng', "close_stream", 0)
      BY <1>a, <2>2, <2>5, MeterStops DEF AdvanceCapReached, AdvanceFail
    <3>2. call'.await = "close_stream" /\ call'.amount = 0
      BY <2>5 DEF AdvanceCapReached, AdvanceFail, Suspends, NoCall
    <3> QED
      BY <1>a, <1>b, <3>1, <3>2 DEF OnMeter, IsOpened
  <2> QED
    BY <1>9, <2>1, <2>3, <2>4, <2>5 DEF Advance
<1>10. CASE CloseBegin
  <2>1. OnMeter(OpenInputs, eng', "close_stream", 0)
    BY <1>10, IdleOnMeter, MeterCloses DEF CloseBegin, Accepting
  <2> QED
    BY <1>10, <1>a, <1>b, <2>1 DEF CloseBegin, Suspends, NoCall, OnMeter, IsOpened
<1>11. CASE CloseAgain
  BY <1>1, <1>11 DEF CloseAgain, Returns
<1>x. ASSUME NEW w \in {"advance", "drained", "close_stream", "receipt"}, call.await = w
      PROVE  OnMeter(OpenInputs, eng, w, call.amount)
  BY <1>x, OpenOnMeter DEF TypeOK, IsOpened
<1>12. CASE PluginAdvance
  <2>1. OnMeter(OpenInputs, eng, "advance", call.amount)
    BY <1>x, <1>12 DEF PluginAdvance
  <2>2. /\ call'.await = "drained" /\ call'.amount = Owed(eng.plugin, eng.tick)
        /\ OnMeter(OpenInputs, eng', "drained", call'.amount)
    BY <1>a, <1>12, <2>1, MeterPays DEF PluginAdvance, TypeOK, Call
  <2> QED
    BY <1>a, <1>b, <2>2 DEF OnMeter, IsOpened
<1>13. CASE AdvanceResume
  <2>1. OnMeter(OpenInputs, eng, "drained", call.amount)
    BY <1>x, <1>13 DEF AdvanceResume
  <2>2. OnMeter(OpenInputs, eng', "none", 0)
    BY <1>a, <1>13, <2>1, MeterBilled DEF AdvanceResume, TypeOK, Call
  <2> QED
    BY <1>c, <1>13, <2>2 DEF AdvanceResume, Returns
<1>14. CASE PluginClose
  <2>1. OnMeter(OpenInputs, eng, "close_stream", call.amount)
    BY <1>x, <1>14 DEF PluginClose
  <2>2. PICK p \in CloseStream(eng.plugin, eng.tick) :
          /\ eng' = [eng EXCEPT !.plugin = p]
          /\ call' = [call EXCEPT !.await = "receipt", !.amount = p.drained]
    BY <1>14 DEF PluginClose
  <2>3. call'.await = "receipt" /\ call'.amount = p.drained
    BY <2>2 DEF TypeOK, Call
  <2>4. OnMeter(OpenInputs, eng', "receipt", call'.amount)
    BY <1>a, <2>1, <2>2, <2>3, MeterPluginCloses
  <2> QED
    BY <1>a, <1>b, <2>3, <2>4 DEF OnMeter, IsOpened
<1>15. CASE CloseResume
  <2>1. OnMeter(OpenInputs, eng, "receipt", call.amount)
    BY <1>x, <1>15 DEF CloseResume
  <2>2. OnMeter(OpenInputs, eng', "none", 0)
    BY <1>a, <1>15, <2>1, MeterClosed DEF CloseResume, TypeOK, Call
  <2> QED
    BY <1>c, <1>15, <2>2 DEF CloseResume, Returns
<1>16. CASE UNCHANGED vars
  BY <1>16 DEF vars, MeterInv, IsOpened, Metered
<1> QED
  BY <1>2, <1>3, <1>4, <1>5, <1>6, <1>7, <1>8, <1>9, <1>10, <1>11, <1>12, <1>13, <1>14,
     <1>15, <1>16 DEF Next, Resume

\* The money invariant holds at every await of every run.
THEOREM MeterCorrect == Spec => []MeterInv
BY TypeCorrect, TypeInit, TypeStep, MeterInit, MeterStep, PTL DEF Spec

---------------------------------------------------------------------------------
(***************************************************************************)
(* What follows from it.                                                   *)
(***************************************************************************)

\* billed <= rate * verified and billed <= max_total, at every await, for every rate,
\* cap and order of deliveries (engine.py:15-17).
THEOREM BilledWithinVerifiedAlways == Spec => []BilledWithinVerified
<1>1. TypeOK /\ MeterInv => BilledWithinVerified
  <2> SUFFICES ASSUME TypeOK, MeterInv, IsOpened(eng)
               PROVE  /\ eng.settled <= eng.open_in.rate * Verified(eng)
                      /\ eng.settled <= eng.open_in.max_total
    BY DEF BilledWithinVerified
  <2> QED
    BY OpenOnMeter, MeterBounds DEF Await
<1> QED
  BY <1>1, TypeCorrect, MeterCorrect, PTL

\* A closed session never changes again (engine.py:140-142, 219).
THEOREM ClosedIsFinalAlways == Spec => ClosedIsFinal
<1>1. MeterInv /\ [Next]_vars => [eng.closed => UNCHANGED eng]_vars
  <2> SUFFICES ASSUME MeterInv, Next, eng.closed PROVE UNCHANGED eng
    BY DEF vars
  <2>1. Idle /\ IsOpened(eng)
    BY DEF MeterInv, Metered, Idle
  <2> QED
    BY <2>1 DEF Next, OpenAgain, OpenRefused, OpenBegin, BeforeOpen, RefMismatch,
         AdvanceClosed, Advance, AdvanceDuplicate, AdvanceRaises, AdvancePass,
         AdvanceCapReached, AdvanceFail, Decided, NewUnit, Accepting, CloseBegin,
         CloseAgain, Resume, OpenResume, PluginAdvance, AdvanceResume, PluginClose,
         CloseResume, Idle
<1> QED
  BY <1>1, MeterCorrect, PTL DEF Spec, ClosedIsFinal

\* After a refused unit neither ledger moves, whichever way close_stream treats elapsed
\* time (engine.py:208-210).
THEOREM NothingAfterRefusalAlways == Spec => NothingAfterRefusal
<1> DEFINE Still == /\ eng'.settled = eng.settled
                    /\ eng'.plugin.drained = eng.plugin.drained
<1>1. TypeOK /\ MeterInv /\ [Next]_vars => [Refused(eng) => Still]_vars
  <2> SUFFICES ASSUME TypeOK, MeterInv, Next, Refused(eng) PROVE Still
    BY DEF vars
  <2>1. IsOpened(eng)
    BY DEF MeterInv, Refused
  <2>2. /\ OnMeter(OpenInputs, eng, call.await, call.amount)
        /\ OpenInputs \in SUBSET SettleOpenIn
        /\ call.await \in {"none", "close_stream", "receipt"}
    BY <2>1, OpenOnMeter DEF OnMeter, Metered, Await, Unpaid, PaidOut
  <2>3. CASE UNCHANGED eng
    BY <2>3
  <2>4. CASE PluginClose
    <3>1. PICK p \in CloseStream(eng.plugin, eng.tick) : eng' = [eng EXCEPT !.plugin = p]
      BY <2>4 DEF PluginClose
    <3>2. p.drained = eng.plugin.drained
      BY <2>2, <2>4, MeterPluginCloses DEF PluginClose
    <3> QED
      BY <2>2, <3>1, <3>2 DEF OnMeter, EngineRecord
  <2>5. CASE CloseResume
    <3>1. call.seq \in Nat /\ call.amount \in Int /\ call.reason \in CloseReason
      BY DEF TypeOK, Call
    <3>2. OnMeter(OpenInputs, eng, "receipt", call.amount)
      BY <2>2, <2>5 DEF CloseResume
    <3>3. eng' = ClosedWith(eng, call.seq, call.amount, call.reason)
      BY <2>5 DEF CloseResume
    <3> QED
      BY <2>2, <3>1, <3>2, <3>3, MeterClosed, ClosedWithType DEF OnMeter
  <2>6. UNCHANGED eng \/ PluginClose \/ CloseResume
    <3>1. CASE Idle
      <4>1. eng.closed
        BY <2>2, <3>1 DEF OnMeter, Metered, Idle
      <4> QED
        BY <2>1, <3>1, <4>1 DEF Next, OpenAgain, OpenRefused, OpenBegin, BeforeOpen,
             RefMismatch, AdvanceClosed, Advance, AdvanceDuplicate, AdvanceRaises,
             AdvancePass, AdvanceCapReached, AdvanceFail, Decided, NewUnit, Accepting,
             CloseBegin, CloseAgain, Resume, OpenResume, PluginAdvance, AdvanceResume,
             PluginClose, CloseResume, Idle
    <3>2. CASE ~Idle
      BY <2>2, <3>2 DEF Next, OpenAgain, OpenRefused, OpenBegin, BeforeOpen,
           RefMismatch, AdvanceClosed, Advance, AdvanceDuplicate, AdvanceRaises,
           AdvancePass, AdvanceCapReached, AdvanceFail, Decided, NewUnit, Accepting,
           CloseBegin, CloseAgain, Resume, OpenResume, PluginAdvance, AdvanceResume,
           Idle
    <3> QED
      BY <3>1, <3>2
  <2> QED
    BY <2>3, <2>4, <2>5, <2>6
<1> QED
  BY <1>1, TypeCorrect, MeterCorrect, PTL DEF Spec, NothingAfterRefusal

---------------------------------------------------------------------------------
(***************************************************************************)
(* The parts of CallsComplete and RefusalCloses that need no fairness:     *)
(* what brings a method to its end, once the event loop goes on.           *)
(***************************************************************************)

\* The awaits a method still has to pass before it returns, its present one included.
AwaitsLeft ==
  [a \in Await |-> CASE a = "none" -> 0
                     [] a \in {"open_stream", "drained", "receipt"} -> 1
                     [] a \in {"advance", "close_stream"} -> 2]

\* A method in progress runs alone, each await brings it closer to its return, and past
\* its first await it does not raise: no method loops, and only a plugin call that does
\* not end can keep one from answering (engine.py:114, 195, 235).
THEOREM NoMethodLoops ==
  Spec => [][~Idle => /\ AwaitsLeft[call'.await] < AwaitsLeft[call.await]
                      /\ outcome' \in {outcome, "ok"}]_vars
<1> DEFINE Closer == /\ AwaitsLeft[call'.await] < AwaitsLeft[call.await]
                     /\ outcome' \in {outcome, "ok"}
<1>1. TypeOK /\ [Next]_vars => [~Idle => Closer]_vars
  <2> SUFFICES ASSUME TypeOK, Next, ~Idle PROVE Closer
    BY DEF vars
  <2>1. Resume
    BY DEF Next, OpenAgain, OpenRefused, OpenBegin, BeforeOpen, RefMismatch,
         AdvanceClosed, Advance, AdvanceDuplicate, AdvanceRaises, AdvancePass,
         AdvanceCapReached, AdvanceFail, Decided, NewUnit, Accepting, CloseBegin,
         CloseAgain, Idle
  <2>2. ASSUME call.await \in {"open_stream", "drained", "receipt"}, Returns PROVE Closer
    BY <2>2 DEF Returns, NoCall, AwaitsLeft, Await
  <2>3. CASE OpenResume \/ AdvanceResume \/ CloseResume
    BY <2>2, <2>3 DEF OpenResume, AdvanceResume, CloseResume
  <2>4. CASE PluginAdvance
    <3>1. call.await = "advance" /\ call'.await = "drained" /\ outcome' = outcome
      BY <2>4 DEF PluginAdvance, TypeOK, Call
    <3> QED
      BY <3>1 DEF AwaitsLeft, Await
  <2>5. CASE PluginClose
    <3>1. call.await = "close_stream" /\ call'.await = "receipt" /\ outcome' = outcome
      BY <2>5 DEF PluginClose, TypeOK, Call
    <3> QED
      BY <3>1 DEF AwaitsLeft, Await
  <2> QED
    BY <2>1, <2>3, <2>4, <2>5 DEF Resume
<1> QED
  BY <1>1, TypeCorrect, PTL DEF Spec

\* From the moment a refused verdict is recorded the session is closed, or the method
\* that recorded it is on its way through _close_plugin(): no state is reachable in
\* which a refusal stands and the stream is left open (engine.py:208-210).
THEOREM RefusalIsClosing ==
  Spec => [](Refused(eng) => eng.closed \/ call.await \in {"close_stream", "receipt"})
<1>1. TypeOK /\ MeterInv =>
        (Refused(eng) => eng.closed \/ call.await \in {"close_stream", "receipt"})
  <2> SUFFICES ASSUME TypeOK, MeterInv, Refused(eng)
               PROVE  eng.closed \/ call.await \in {"close_stream", "receipt"}
    OBVIOUS
  <2>1. IsOpened(eng)
    BY DEF MeterInv, Refused
  <2>2. OnMeter(OpenInputs, eng, call.await, call.amount) /\ call.await \in Await
    BY <2>1, OpenOnMeter
  <2>3. /\ call.await \notin {"open_stream", "advance", "drained"}
        /\ call.await = "none" => eng.closed
    BY <2>2, OpenOnMeter, <2>1 DEF OnMeter, Metered, Unpaid, PaidOut
  <2> QED
    BY <2>2, <2>3 DEF Await
<1> QED
  BY <1>1, TypeCorrect, MeterCorrect, PTL
=================================================================================
