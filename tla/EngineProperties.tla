---------------------------- MODULE EngineProperties ----------------------------
(***************************************************************************)
(* What must hold of a SettlementEngine.                                   *)
(***************************************************************************)
EXTENDS SettlementEngine, Meter, TraceValidator, SequencesExt

Engine == EngineRecord(OpenInputs)

Call == [await : Await, open_in : OpenInputs \cup {Null}, seq : Nat,
         reason : CloseReason, amount : Int]

\* "Error" is whatever a call of the plugin raises.
Outcome == {"none", "running", "ok", "ValueError", "RuntimeError", "TypeError", "Error"}

\* The engine's fields have the types engine.py:79-88 gives them, a session that has been
\* opened has its stream, and open() is only waiting before that.
TypeOK ==
  /\ eng \in Engine
  /\ call \in Call
  /\ outcome \in Outcome
  /\ eng.open_in # Null => eng.plugin \in Stream
  /\ call.await = "open_stream" => eng.open_in = Null /\ call.open_in # Null
  /\ call.await \notin {"none", "open_stream"} => eng.open_in # Null

\* What the ledgers of plugin and engine have to do with each other and with the
\* verdicts at each await of engine.py (203-204, 249-251): the engine's clock runs at
\* most one tick ahead, only while a verified unit waits for its money.
MeterInv ==
  /\ ~IsOpened(eng) =>
       ~eng.closed /\ eng.per_unit = <<>> /\ eng.settled = 0 /\ eng.tick = 0
  /\ call.await = "open_stream" => ~Unmeterable(call.open_in)
  /\ IsOpened(eng) => Metered(eng, call.await, call.amount)

\* The invariant of engine.py:15-17: whatever order units, failures and closes come
\* in, and at every await, no more is billed than rate for each verified unit, and
\* never more than the cap.
BilledWithinVerified ==
  IsOpened(eng) =>
    /\ eng.settled <= eng.open_in.rate * Verified(eng)
    /\ eng.settled <= eng.open_in.max_total

\* The trace alone tells what was billed and verified (engine.py:15-17, trace.py:5-6):
\* between calls it begins with the agreed rate, the tick amounts add up to the settled
\* total, within rate per cleared unit, and a close line, the last one, repeats the total.
TraceReconciles ==
  LET t == eng.trace
  IN  Idle /\ IsOpened(eng) =>
        /\ LinesOf(t, "stream-open") = {1} /\ RateFromTrace(t) = eng.open_in.rate
        /\ BilledFromTrace(t) = eng.settled
        /\ BilledFromTrace(t) <= RateFromTrace(t) * VerifiedFromTrace(t)
        /\ VerifiedFromTrace(t) = Verified(eng)
        /\ LinesOf(t, "stream-close") = (IF eng.closed THEN {Len(t)} ELSE {})
        /\ eng.closed => Split(t[Len(t)])[4] = eng.settled

\* Every tick line comes right after the line that clears its own unit, and no unit
\* is paid twice: the decision precedes the drain (engine.py:13-17).
TicksAreEarned ==
  LET t == eng.trace
      ticks == {i \in DOMAIN t : t[i].kind = "tick"}
  IN  \A i \in ticks :
        /\ i > 1 /\ t[i - 1] \in {GateLine(t[i].ref, t[i].seq, TRUE), AckL1Line(t[i].ref, t[i].seq)}
        /\ \A j \in ticks : t[j].seq = t[i].seq => j = i

\* A failed unit stops the money at once and for good: from the failing verdict on
\* neither the meter nor the total moves, through the close and any later call
\* (engine.py:208-210).
NothingAfterRefusal ==
  [][Refused(eng) => /\ eng'.settled = eng.settled
                /\ eng'.plugin.drained = eng.plugin.drained]_vars

\* Close is terminal (engine.py:140-142, 219): no later unit, close or failing call
\* touches a closed session.
ClosedIsFinal == [][eng.closed => UNCHANGED eng]_vars

\* Each SettleOut is cumulative (engine.py:11): it extends the one the caller got
\* before, never takes back a verdict, a trace line or money, and its two totals add
\* up to the cap.
CumulativeOut ==
  [][out # Null =>
       /\ IsPrefix(out.per_unit, out'.per_unit)
       /\ IsPrefix(out.trace, out'.trace)
       /\ out.settled_total <= out'.settled_total
       /\ out'.settled_total + out'.remainder_unspent = eng.open_in.max_total]_vars

\* The transcript a person reads tells what the trace proves: the total is the sum of
\* the ticks, a refused item is the last one and shows on a finished settlement, and
\* no money was released for it (engine.py:271-315).
DisplayMatchesTrace ==
  LET rows == out.display.rows
      ticked == {out.trace[i].seq : i \in {j \in DOMAIN out.trace : out.trace[j].kind = "tick"}}
  IN  out # Null =>
        /\ out.display.total_paid = BilledFromTrace(out.trace)
        /\ \A i \in DOMAIN rows :
             rows[i].stopped_here =>
               i = Len(rows) /\ out.display.complete /\ rows[i].item \notin ticked

\* No unit is swallowed: between calls every seq that counts as seen, and so can never
\* be delivered again, has its verdict (engine.py:146-148, 187-193).
SeenUnitsAreJudged ==
  Idle => eng.seen_seqs = {eng.per_unit[i].seq : i \in DOMAIN eng.per_unit}

\* Where a unit is swallowed all the same, because its digest raises half way through
\* advance() (engine.py:148-181, gates.py:62), its one ack line is all that is left of it:
\* delivering it again adds nothing, and the session it happened in has paid nothing.
HalfDoneIsUnpaid ==
  LET t == eng.trace
      swallowed == eng.seen_seqs \ {eng.per_unit[i].seq : i \in DOMAIN eng.per_unit}
  IN  /\ \A s \in swallowed :
           \E i \in DOMAIN t :
             /\ t[i].kind = "ack"
             /\ {j \in DOMAIN t : t[j].kind \in {"ack", "gate", "tick"} /\ t[j].seq = s} = {i}
      /\ swallowed # {} => eng.settled = 0

\* Every call is answered: no method waits for ever.
CallsComplete == ~Idle ~> Idle

\* A failed unit ends the session without anyone calling close.
RefusalCloses == Refused(eng) ~> eng.closed

(***************************************************************************)
(* Statements of the documentation that the code does not keep.            *)
(***************************************************************************)

\* "which items were paid" (SKILL.md:58): an item the transcript shows as PAID had
\* money released for it.
PaidItemsWerePaid ==
  out # Null =>
    \A i \in DOMAIN out.display.rows :
      out.display.rows[i].paid =>
        \E j \in DOMAIN out.trace :
          out.trace[j].kind = "tick" /\ out.trace[j].seq = out.display.rows[i].item

\* "so a validator can split on ':' from the left unambiguously" (trace.py:17-19).
SplitIsUnambiguous ==
  out # Null => BilledFromTrace(out.trace) = out.settled_total

\* "a bad --algo fails fast at open, not per unit at decision time" (engine.py:71-72).
AlgoFailsFast == outcome # "TypeError"

(***************************************************************************)
(* The engine keeps the session's promise.                                 *)
(***************************************************************************)
Promise == INSTANCE Settlement WITH
  Terms <- OpenInputs,
  Deliveries <- UnitInputs,
  L2Algo <- Algo,
  terms <- eng.open_in,
  verdicts <- eng.per_unit,
  billed <- eng.settled,
  status <- IF ~IsOpened(eng) THEN "unopened"
            ELSE IF eng.closed THEN "closed" ELSE "open"

\* SettlementEngine implements Settlement: verdicts are the ones the terms ask for,
\* each verified unit is paid before the next is judged, and the session ends as soon
\* as a unit is refused.
KeepsPromise == Promise!Spec
=================================================================================
