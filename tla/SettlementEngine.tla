---------------------------- MODULE SettlementEngine ----------------------------
(***************************************************************************)
(* One SettlementEngine object (engine.py) and a caller that uses it one   *)
(* method at a time, as the service's session lock makes it: any method,   *)
(* any argument the contract admits, in any order.                         *)
(*                                                                         *)
(* A method runs without interruption from one await of the plugin to the  *)
(* next; each stretch is one action.  call says which await the method in  *)
(* progress has reached and what it still holds in local variables:        *)
(*   none          no method is running                                    *)
(*   open_stream   open() waits for plugin.open_stream                     *)
(*   advance       advance() waits, plugin.advance has yet to run          *)
(*   drained       ... plugin.advance has run and returned amount          *)
(*   close_stream  _close_plugin() waits, close_stream has yet to run      *)
(*   receipt       ... close_stream has run and returned amount            *)
(* outcome is how the last method ended, out the last SettleOut returned.  *)
(***************************************************************************)
EXTENDS EngineState

CONSTANTS OpenInputs,  \* the open requests a caller may make
          UnitInputs   \* the units a caller may deliver

ASSUME InputAssumption ==
  /\ OpenInputs \subseteq SettleOpenIn /\ Null \notin OpenInputs
  /\ UnitInputs \subseteq UnitIn

VARIABLES eng, call, outcome, out

vars == <<eng, call, outcome, out>>

Await == {"none", "open_stream", "advance", "drained", "close_stream", "receipt"}

NoCall == [await |-> "none", open_in |-> Null, seq |-> 0, reason |-> "none", amount |-> 0]

Init == eng = NewEngine /\ call = NoCall /\ outcome = "none" /\ out = Null

Idle == call.await = "none"

Returns ==
  /\ call' = NoCall
  /\ outcome' = "ok"
  /\ out' = Snapshot(eng')

Raise(error) ==
  /\ call' = NoCall
  /\ outcome' = error
  /\ UNCHANGED out

Suspends(c) == call' = c /\ outcome' = "running" /\ UNCHANGED out

---------------------------------------------------------------------------------
(* open *)

OpenAgain == Idle /\ IsOpened(eng) /\ Raise("RuntimeError") /\ UNCHANGED eng

OpenRefused(i) ==
  /\ Idle /\ ~IsOpened(eng)
  /\ Unmeterable(i)
  /\ Raise("ValueError") /\ UNCHANGED eng

OpenBegin(i) ==
  /\ Idle /\ ~IsOpened(eng)
  /\ ~Unmeterable(i)
  /\ Suspends([NoCall EXCEPT !.await = "open_stream", !.open_in = i])
  /\ UNCHANGED eng

\* The plugin object is local to open() until it returns.
OpenResume ==
  /\ call.await = "open_stream"
  /\ eng' = Opened(eng, call.open_in)
  /\ Returns

\* advance() or close() on an engine that was never opened.
BeforeOpen == Idle /\ ~IsOpened(eng) /\ Raise("RuntimeError") /\ UNCHANGED eng

\* advance() or close() with another deal's ref, even on a closed engine.
RefMismatch ==
  /\ Idle /\ IsOpened(eng)
  /\ \E r \in Ref : r # eng.open_in.ref
  /\ Raise("ValueError") /\ UNCHANGED eng

---------------------------------------------------------------------------------
(* advance *)

\* Mutant of Accepting: the closed flag is not looked at.
AcceptingClosed == Idle /\ IsOpened(eng)

Accepting == Idle /\ IsOpened(eng) /\ ~eng.closed

\* Answers a snapshot, also when the seq was never seen: a late unit is no error.
AdvanceClosed == Idle /\ IsOpened(eng) /\ eng.closed /\ UNCHANGED eng /\ Returns

AdvanceDuplicate(u) ==
  /\ Accepting /\ u.seq \in eng.seen_seqs
  /\ Raise("ValueError") /\ UNCHANGED eng

\* Mutant of NewUnit: a seq may come twice.
NewUnitAnySeq(u) == Accepting

NewUnit(u) == Accepting /\ u.seq \notin eng.seen_seqs

\* hexdigest() of an extendable-output digest: TypeError, half way through.
AdvanceRaises(u) ==
  /\ NewUnit(u)
  /\ DecisionRaises(eng, u)
  /\ eng' = Received(eng, u)
  /\ Raise("TypeError")

Decided(u) == NewUnit(u) /\ ~DecisionRaises(eng, u)

AdvancePass(u) ==
  /\ Decided(u)
  /\ ResultOf(eng, u).passed
  /\ Remaining(eng) > 0
  /\ eng' = Ticked(Judged(eng, u))
  /\ Suspends([NoCall EXCEPT !.await = "advance", !.seq = u.seq])

AdvanceCapReached(u) ==
  /\ Decided(u)
  /\ ResultOf(eng, u).passed
  /\ Remaining(eng) <= 0
  /\ eng' = Judged(eng, u)
  /\ Suspends([NoCall EXCEPT !.await = "close_stream", !.seq = u.seq,
                             !.reason = "cap-reached"])

\* Mutant of AdvanceFail: the clock moves before the verdict is looked at.
AdvanceFailTicks(u) ==
  /\ Decided(u)
  /\ ~ResultOf(eng, u).passed
  /\ eng' = Ticked(Judged(eng, u))
  /\ Suspends([NoCall EXCEPT !.await = "close_stream", !.seq = u.seq,
                             !.reason = ResultOf(eng, u).reason])

\* Mutant of AdvanceFail: the failed unit is recorded and the stream left open.
AdvanceFailStaysOpen(u) ==
  /\ Decided(u)
  /\ ~ResultOf(eng, u).passed
  /\ eng' = Judged(eng, u)
  /\ Returns

AdvanceFail(u) ==
  /\ Decided(u)
  /\ ~ResultOf(eng, u).passed
  /\ eng' = Judged(eng, u)
  /\ Suspends([NoCall EXCEPT !.await = "close_stream", !.seq = u.seq,
                             !.reason = ResultOf(eng, u).reason])

PluginAdvance ==
  /\ call.await = "advance"
  /\ eng' = [eng EXCEPT !.plugin = AdvanceStream(@, eng.tick)]
  /\ call' = [call EXCEPT !.await = "drained", !.amount = Owed(eng.plugin, eng.tick)]
  /\ UNCHANGED <<outcome, out>>

\* Mutant of AdvanceResume: waits until the full rate has arrived.
AdvanceResumeInFull ==
  /\ call.await = "drained" /\ call.amount = eng.open_in.rate
  /\ eng' = Billed(eng, call.seq, call.amount)
  /\ Returns

AdvanceResume ==
  /\ call.await = "drained"
  /\ eng' = Billed(eng, call.seq, call.amount)
  /\ Returns

---------------------------------------------------------------------------------
(* close *)

CloseBegin ==
  /\ Accepting
  /\ Suspends([NoCall EXCEPT !.await = "close_stream", !.seq = LastSeq(eng),
                             !.reason = "closed"])
  /\ UNCHANGED eng

CloseAgain == Idle /\ IsOpened(eng) /\ eng.closed /\ UNCHANGED eng /\ Returns

PluginClose ==
  /\ call.await = "close_stream"
  /\ \E p \in CloseStream(eng.plugin, eng.tick) :
       /\ eng' = [eng EXCEPT !.plugin = p]
       /\ call' = [call EXCEPT !.await = "receipt", !.amount = p.drained]
  /\ UNCHANGED <<outcome, out>>

CloseResume ==
  /\ call.await = "receipt"
  /\ eng' = ClosedWith(eng, call.seq, call.amount, call.reason)
  /\ Returns

---------------------------------------------------------------------------------
Advance(u) ==
  \/ AdvanceDuplicate(u)
  \/ AdvanceRaises(u)
  \/ AdvancePass(u)
  \/ AdvanceCapReached(u)
  \/ AdvanceFail(u)

Resume ==
  \/ OpenResume
  \/ PluginAdvance
  \/ AdvanceResume
  \/ PluginClose
  \/ CloseResume

Next ==
  \/ OpenAgain
  \/ \E i \in OpenInputs : OpenRefused(i) \/ OpenBegin(i)
  \/ BeforeOpen
  \/ RefMismatch
  \/ AdvanceClosed
  \/ \E u \in UnitInputs : Advance(u)
  \/ CloseBegin
  \/ CloseAgain
  \/ Resume

(***************************************************************************)
(* The event loop resumes a coroutine whose await is over, and the         *)
(* plugin's calls end.  Nothing obliges the caller to call.                *)
(***************************************************************************)
Spec == Init /\ [][Next]_vars /\ WF_vars(Resume)
=================================================================================
