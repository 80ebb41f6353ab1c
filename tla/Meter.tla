--------------------------------- MODULE Meter ---------------------------------
(***************************************************************************)
(* The money of one engine: at every await, how the plugin's clock and     *)
(* ledger stand to the engine's tick, total and verdicts.                  *)
(***************************************************************************)
EXTENDS EngineState

Verified(e) == VerifiedCount(e.per_unit)

Due(e) == Lesser(e.open_in.rate * Verified(e), e.open_in.max_total)

Refused(e) == \E i \in DOMAIN e.per_unit : ~Passed(e.per_unit[i])

InStep(e) == e.plugin.at = e.tick /\ e.plugin.drained = e.settled

\* Nothing is owed: every verified unit before the call has been paid.
Settled(e) == InStep(e) /\ e.settled = Due(e)

\* The unit just verified has moved the clock, and no money yet.
Unpaid(e) ==
  /\ e.plugin.at = e.tick - 1 /\ e.plugin.drained = e.settled
  /\ Verified(e) >= 1
  /\ e.settled = Lesser(e.open_in.rate * (Verified(e) - 1), e.open_in.max_total)
  /\ e.settled < e.open_in.max_total
  /\ ~Refused(e)

\* The plugin has paid amount, the engine has not added it up.
PaidOut(e, amount) ==
  /\ e.plugin.at = e.tick
  /\ e.plugin.drained = e.settled + amount
  /\ e.plugin.drained = Due(e)
  /\ 0 <= e.settled /\ e.settled <= Due(e)
  /\ ~Refused(e)

\* An open engine whose running method, if any, waits at await and was given amount.
Metered(e, await, amount) ==
  /\ ~Unmeterable(e.open_in)
  /\ e.plugin.rate = e.open_in.rate /\ e.plugin.max_total = e.open_in.max_total
  /\ e.closed => await = "none"
  /\ await = "none" => Settled(e) /\ (Refused(e) => e.closed)
  /\ await = "advance" => Unpaid(e)
  /\ await = "drained" => PaidOut(e, amount)
  /\ await = "close_stream" => Settled(e)
  /\ await = "receipt" => Settled(e) /\ amount = e.settled
================================================================================
