----------------------------- MODULE PaymentStream -----------------------------
(***************************************************************************)
(* The metering plugin, OutcomeVerifiedSettlement, as the engine uses it.  *)
(* It is imported and never edited, so this is what the engine's calls     *)
(* assume of it: money flows with time alone.  advance(now) pays the rate  *)
(* for every tick since the last settlement, bounded by the cap; nothing   *)
(* in it knows whether a unit passed.  Whether close_stream settles ticks  *)
(* that elapsed since the last advance is left open.                       *)
(***************************************************************************)
EXTENDS Integers

Stream == [rate : Nat, max_total : Nat, at : Int, drained : Int, open : BOOLEAN]

OpenStream(rate, max_total) ==
  [rate |-> rate, max_total |-> max_total, at |-> 0, drained |-> 0, open |-> TRUE]

Lesser(m, n) == IF m <= n THEN m ELSE n

Owed(p, now) == Lesser(p.rate * (now - p.at), p.max_total - p.drained)

AdvanceStream(p, now) == [p EXCEPT !.drained = @ + Owed(p, now), !.at = now]

CloseStream(p, now) ==
  { [p EXCEPT !.open = FALSE],
    [p EXCEPT !.open = FALSE, !.drained = @ + Owed(p, now), !.at = now] }
================================================================================
