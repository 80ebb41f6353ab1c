--------------------------- MODULE ServiceProperties ---------------------------
(***************************************************************************)
(* What must hold of the service, however requests interleave.             *)
(***************************************************************************)
EXTENDS SettlementService, TraceValidator

Waiting(q) == req[q].stage \in {"waiting", "running"}

\* The session table, the locks and the request slots have their types, nobody queues
\* twice, and whoever runs inside an engine holds that session's lock (app.py:132-138).
ServiceTypeOK ==
  /\ life \in 0 .. MaxRestarts
  /\ open_queue \in Seq(Request) /\ IsInjective(open_queue)
  /\ \A r \in Ref : sessions[r] # Null =>
       /\ sessions[r].engine.open_in.ref = r
       /\ sessions[r].tier = sessions[r].engine.open_in.attestor
       /\ sessions[r].queue \in Seq(Request) /\ IsInjective(sessions[r].queue)
  /\ \A q \in Request :
       /\ req[q].stage \in {"idle", "waiting", "running", "done"}
       /\ Await(q) \notin {"none", "open_stream"} => HoldsSession(q)

\* Nobody is inside an engine of deal r's.
AtRest(r) ==
  sessions[r] # Null /\ \A q \in Request : req[q].stage = "running" => BodyOf(q).ref # r

\* Two requests on one deal never tear its accounts (app.py:284, 310): with no request
\* inside the engine, clock and ledger of the plugin agree with the engine's, and the cap
\* and rate * verified hold.
LedgersAgree ==
  \A r \in Ref :
    LET e == sessions[r].engine
    IN  AtRest(r) =>
          /\ e.plugin.drained = e.settled /\ e.plugin.at = e.tick
          /\ e.settled <= e.open_in.rate * VerifiedCount(e.per_unit)
          /\ e.settled <= e.open_in.max_total

\* Nor do they tear the trace from the total: whoever reads an answer's trace, with no
\* request inside the engine, finds every amount of the total in it once (engine.py:203-205).
TracesAgree ==
  \A r \in Ref :
    AtRest(r) => BilledFromTrace(sessions[r].engine.trace) = sessions[r].engine.settled

\* A deal has one session: a second open, concurrent or late, never replaces the first
\* and its totals (app.py:263-268).
OpenNeverReplaces ==
  [][ life' = life =>
        \A r \in Ref : sessions[r] # Null =>
          /\ sessions'[r].engine.open_in = sessions[r].engine.open_in
          /\ IsPrefix(sessions[r].engine.trace, sessions'[r].engine.trace) ]_vars

\* Any two answers about one deal are consistent: one trace extends the other, and so do
\* the totals, whoever got them and in whichever order they arrived.
AnswersAgree ==
  \A p, q \in Request :
    LET x == req[p].reply
        y == req[q].reply
    IN  /\ x.status = 200 /\ y.status = 200 /\ x.life = y.life
        /\ BodyOf(p).ref = BodyOf(q).ref
        => \/ IsPrefix(x.out.trace, y.out.trace) /\ x.out.settled_total <= y.out.settled_total
           \/ IsPrefix(y.out.trace, x.out.trace) /\ y.out.settled_total <= x.out.settled_total

\* Every request is answered or loses its connection: no lock is kept for ever.
RequestsAnswered == \A q \in Request : Waiting(q) ~> ~Waiting(q)

\* Was delivery line l of deal r vouched for, over these very bytes (its very seq, where
\* the criterion is the ack), by an allowed key other than the payee's?  The witness is a
\* request some client sent.
Vouched(r, l) ==
  \E b \in Bodies :
    /\ b.op = "advance" /\ b.ref = r /\ b.attestation # Null
    /\ l \in {AckL1Line(r, b.unit.seq),
             AckContentLine(r, b.unit.seq, b.unit.chunk, b.unit.declared_checksum)}
    /\ \E key \in TrustedKeys \cap GoodKeys :
         /\ PayeePubkey # Null => key # Normalize[PayeePubkey]
         /\ b.attestation.sig = SignBytes(key, AttestationMessage(r, b.unit))

\* In the signed tier nothing enters the engine, let alone the meter, that a trusted
\* third party did not sign (app.py:285-296): substituted bytes, another deal's
\* attestation, the payee's own signature and garbage are all stopped.
OnlyVouchedUnitsEnter ==
  \A r \in Ref :
    sessions[r] # Null /\ sessions[r].tier = "signed" =>
      LET t == sessions[r].engine.trace
      IN  \A i \in DOMAIN t : t[i].kind = "ack" => Vouched(r, t[i])

\* "every verdict ships with an offline-verifiable receipt" (SKILL.md:168): an answered
\* advance or close of a deal that clients open in the signed tier passes /verify, then
\* and later.
SignedAnswersVerify ==
  \A q \in Request :
    /\ req[q].reply.status = 200 /\ BodyOf(q).op # "open"
    /\ \A b \in Bodies : b.op = "open" /\ b.ref = BodyOf(q).ref => b.open_in.attestor = "signed"
    => Verify(BodyOf(q).ref, req[q].reply) = "signature-valid"

\* "spending cap; the rest stays unspent" (SKILL.md:115): what clients were told of one
\* deal before and after a restart adds up to no more than a cap its buyer gave.
CapHoldsForTheDeal ==
  \A p, q \in Request :
    LET x == req[p].reply
        y == req[q].reply
    IN  /\ x.status = 200 /\ y.status = 200 /\ x.life # y.life
        /\ BodyOf(p).ref = BodyOf(q).ref
        => \E b \in Bodies : /\ b.op = "open" /\ b.ref = BodyOf(p).ref
                            /\ x.out.settled_total + y.out.settled_total <= b.open_in.max_total

(***************************************************************************)
(* What Settlement sees of deal r.                                         *)
(***************************************************************************)
EngineAt(r) == IF sessions[r] = Null THEN NewEngine ELSE sessions[r].engine

StatusOf(r) ==
  IF sessions[r] = Null THEN "unopened" ELSE IF EngineAt(r).closed THEN "closed" ELSE "open"

AllTerms == {b.open_in : b \in {c \in Bodies : c.op = "open"}}

AllUnits == {b.unit : b \in {c \in Bodies : c.op = "advance"}}
================================================================================
