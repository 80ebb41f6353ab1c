------------------------------ MODULE EngineFaults ------------------------------
(***************************************************************************)
(* A SettlementEngine whose plugin fails.  A call of the plugin may raise, *)
(* or the task that waits for it may be cancelled, before or after the     *)
(* plugin has moved; nothing in engine.py catches that, so the method ends *)
(* at its await with everything it has done until then, and the session    *)
(* goes on being served.  A stream the plugin has closed takes no further  *)
(* call: what the engine asks of it raises.                                *)
(***************************************************************************)
EXTENDS EngineProperties

Interrupted == ~Idle /\ Raise("Error") /\ UNCHANGED eng

StreamTakesCall == call.await \in {"advance", "close_stream"} => eng.plugin.open

FaultNext == (Next /\ StreamTakesCall) \/ Interrupted

FaultSpec == Init /\ [][FaultNext]_vars

\* What the plugin has paid is paid for: its clock never runs ahead of the engine's,
\* the engine's never ahead of the verified units, and the engine never counts money
\* the plugin did not move (engine.py:202-204).
FaultMetered(e, await, amount) ==
  /\ ~Unmeterable(e.open_in)
  /\ e.plugin.rate = e.open_in.rate /\ e.plugin.max_total = e.open_in.max_total
  /\ 0 <= e.plugin.at /\ e.plugin.at <= e.tick /\ e.tick <= Verified(e)
  /\ e.plugin.drained <= e.open_in.rate * e.plugin.at
  /\ e.plugin.drained <= e.open_in.max_total
  /\ e.settled <= e.plugin.drained
  /\ await = "drained" => e.settled + amount <= e.plugin.drained
  /\ await = "receipt" => amount = e.plugin.drained
  /\ e.closed => await = "none" /\ e.settled = e.plugin.drained

\* FaultMetered on every open session, at every await and after every failure: the
\* inductive invariant of the money.
FaultInv ==
  /\ ~IsOpened(eng) =>
       ~eng.closed /\ eng.per_unit = <<>> /\ eng.settled = 0 /\ eng.tick = 0
  /\ call.await = "open_stream" => ~Unmeterable(call.open_in)
  /\ IsOpened(eng) => FaultMetered(eng, call.await, call.amount)

\* The ticks of the trace never claim money the plugin did not move, at no await and after
\* no failure.  While the session is open they add up to the engine's total; money paid
\* while the engine was not listening is missing from them, and turns up in the close line,
\* which states the plugin's own total (engine.py:203-205, 250-257).
TraceNeverOverstates ==
  LET t == eng.trace
  IN  IsOpened(eng) =>
        /\ BilledFromTrace(t) <= eng.plugin.drained
        /\ ~eng.closed => BilledFromTrace(t) = eng.settled
        /\ eng.closed => Split(t[Len(t)])[4] = eng.plugin.drained
=================================================================================
