--------------------------- MODULE SettlementService ---------------------------
(***************************************************************************)
(* The HTTP service (app.py): one process, one event loop, one engine per  *)
(* open ref, requests that interleave at every await.                      *)
(*                                                                         *)
(* A request slot carries one request from its arrival to its answer; a    *)
(* client that lost an answer may send anything again.  asyncio.Lock is    *)
(* external: it serves its waiters in the order they came, so a lock is    *)
(* the queue of the requests that asked for it and its head holds it.      *)
(*   idle      nothing was sent yet                                        *)
(*   waiting   queued for, or just granted, open_lock or the session lock  *)
(*   running   inside the engine; call says at which await                 *)
(*   done      answered                                                    *)
(* Sessions live in process memory.  A restart forgets them, drops the     *)
(* requests in flight and, unless the seed is pinned, draws a new key.     *)
(***************************************************************************)
EXTENDS EngineState, Attestor, SequencesExt

CONSTANTS Request,      \* request slots, the bound on concurrent requests
          Bodies,       \* the request bodies clients may send
          SeedPinned,   \* SETTLEMENT_SIGNING_SEED is set
          MaxRestarts   \* bound on restarts

\* settle_open builds its engines with the default digest.
ASSUME ServiceAssumption == Algo = "sha256" /\ MaxRestarts \in Nat

\* Bodies are what FastAPI hands to the three endpoints: validated, each about one deal.
ASSUME BodyAssumption ==
  \A b \in Bodies :
    /\ b.op \in {"open", "advance", "close"} /\ b.ref \in Ref
    /\ b.op = "open" => b.open_in \in SettleOpenIn /\ b.open_in.ref = b.ref
    /\ b.op = "advance" => b.unit \in UnitIn

\* What is registered under a ref.
Session ==
  [engine : EngineRecord(SettleOpenIn), tier : AttestorTier, queue : Seq(Request)]

ASSUME NoSessionAssumption == Null \notin Session

\* What a verdict's signature is: the key that made it and the verdict it covers.
VerdictSignature ==
  [key : {<<"pinned">>} \cup ({"drawn"} \X Nat),
   over : [receipt : [ref : Ref, per_unit : Seq(PerUnit), settled_total : Int,
                      remainder_unspent : Int],
           trace : Seq(Line)]]

\* No signature, or one that is not hex, is not somebody's.
ASSUME SignatureAssumption == Null \notin VerdictSignature /\ NotHex \notin VerdictSignature

VARIABLES sessions,   \* ref -> a session, or Null
          open_queue, \* open_lock
          req,        \* slot -> [stage, body, call, reply]
          life        \* restarts so far

vars == <<sessions, open_queue, req, life>>

\* Mutant of VerdictKey: every process draws its own key, the seed is not looked at.
VerdictKeyDrawn == <<"drawn", life>>

VerdictKey == IF SeedPinned THEN <<"pinned">> ELSE <<"drawn", life>>

\* A method that waits at await, with its local variables.
CallAt(await, seq, reason) == [await |-> await, seq |-> seq, reason |-> reason, amount |-> 0]

NoCall == CallAt("none", 0, "none")

\* Status 0: no answer came, the connection was lost.
NoReply == [status |-> 0, out |-> Null, signature |-> Null, life |-> 0]

IdleSlot == [stage |-> "idle", body |-> Null, call |-> NoCall, reply |-> NoReply]

Init ==
  /\ sessions = [r \in Ref |-> Null]
  /\ open_queue = <<>>
  /\ req = [q \in Request |-> IdleSlot]
  /\ life = 0

Free(q) == req[q].stage \in {"idle", "done"}

BodyOf(q) == req[q].body

SessionOf(q) == sessions[BodyOf(q).ref]

EngineOf(q) == SessionOf(q).engine

Await(q) == req[q].call.await

Enter(q, b) ==
  req' = [req EXCEPT ![q] = [IdleSlot EXCEPT !.stage = "waiting", !.body = b]]

Answer(q, reply) ==
  req' = [req EXCEPT ![q].stage = "done", ![q].call = NoCall, ![q].reply = reply]

Refusal(status) == [NoReply EXCEPT !.status = status, !.life = life]

\* _sign_if_signed: over the receipt and trace of the very answer.
Ok(e, tier) ==
  [status |-> 200, out |-> Snapshot(e),
   signature |-> IF tier = "signed" THEN SignVerdict(VerdictKey, Receipt(e), e.trace)
                 ELSE Null,
   life |-> life]

HoldsOpenLock(q) == open_queue # <<>> /\ open_queue[1] = q

HoldsSession(q) == SessionOf(q).queue # <<>> /\ SessionOf(q).queue[1] = q

---------------------------------------------------------------------------------
(* /settle/open *)

OpenArrives(q, b) ==
  /\ Free(q) /\ b.op = "open"
  /\ Enter(q, b)
  /\ open_queue' = Append(open_queue, q)
  /\ UNCHANGED <<sessions, life>>

\* Mutant of Opening: the check for an open session is made without open_lock.
OpeningUnlocked(q) == req[q].stage = "waiting" /\ BodyOf(q).op = "open"

Opening(q) == req[q].stage = "waiting" /\ BodyOf(q).op = "open" /\ HoldsOpenLock(q)

OpenRefused(q) ==
  /\ Opening(q)
  /\ \/ SessionOf(q) # Null /\ Answer(q, Refusal(409))
     \/ SessionOf(q) = Null /\ Unmeterable(BodyOf(q).open_in) /\ Answer(q, Refusal(422))
  /\ open_queue' = Tail(open_queue)
  /\ UNCHANGED <<sessions, life>>

OpenBegins(q) ==
  /\ Opening(q)
  /\ SessionOf(q) = Null /\ ~Unmeterable(BodyOf(q).open_in)
  /\ req' = [req EXCEPT ![q].stage = "running", ![q].call.await = "open_stream"]
  /\ UNCHANGED <<sessions, open_queue, life>>

\* The session is registered only now, after the await.
OpenEnds(q) ==
  LET i == BodyOf(q).open_in
      e == Opened(NewEngine, i)
  IN  /\ Await(q) = "open_stream"
      /\ sessions' = [sessions EXCEPT ![i.ref] =
                        [engine |-> e, tier |-> i.attestor, queue |-> <<>>]]
      /\ Answer(q, Ok(e, "hash-only"))
      /\ open_queue' = Tail(open_queue)
      /\ UNCHANGED life

---------------------------------------------------------------------------------
(* /settle/advance and /settle/close *)

\* The session is looked up before its lock is asked for.
SessionArrives(q, b) ==
  /\ Free(q) /\ b.op \in {"advance", "close"}
  /\ \/ /\ sessions[b.ref] = Null
        /\ req' = [req EXCEPT ![q] = [IdleSlot EXCEPT !.stage = "done", !.body = b,
                                                      !.reply = Refusal(404)]]
        /\ UNCHANGED sessions
     \/ /\ sessions[b.ref] # Null
        /\ Enter(q, b)
        /\ sessions' = [sessions EXCEPT ![b.ref].queue = Append(@, q)]
  /\ UNCHANGED <<open_queue, life>>

\* Mutant of Granted: no session lock.
GrantedUnlocked(q, op) ==
  req[q].stage = "waiting" /\ BodyOf(q).op = op /\ SessionOf(q) # Null

Granted(q, op) ==
  /\ req[q].stage = "waiting" /\ BodyOf(q).op = op
  /\ SessionOf(q) # Null /\ HoldsSession(q)

\* Mutant of Leave: the lock is not given back.
LeaveHolding(q, e, reply) ==
  /\ sessions' = [sessions EXCEPT ![BodyOf(q).ref].engine = e]
  /\ Answer(q, reply)
  /\ UNCHANGED <<open_queue, life>>

\* The request leaves with the engine in state e and gives the lock, which it holds, back.
Leave(q, e, reply) ==
  /\ sessions' = [sessions EXCEPT ![BodyOf(q).ref] =
                    [engine |-> e, tier |-> SessionOf(q).tier, queue |-> Tail(SessionOf(q).queue)]]
  /\ Answer(q, reply)
  /\ UNCHANGED <<open_queue, life>>

\* The request waits at an await of the engine's, which is in state e.
Stay(q, e, call) ==
  /\ sessions' = [sessions EXCEPT ![BodyOf(q).ref].engine = e]
  /\ req' = [req EXCEPT ![q].stage = "running", ![q].call = call]
  /\ UNCHANGED <<open_queue, life>>

Guard(q) ==
  ClearForRelease(SessionOf(q).tier, BodyOf(q).ref, BodyOf(q).unit, BodyOf(q).attestation)

\* 403: the unit never enters the meter, the stream stays open.
TrustRefused(q) ==
  /\ Granted(q, "advance")
  /\ ~Guard(q).cleared
  /\ Leave(q, EngineOf(q), Refusal(403))

AdvanceCleared(q) == Granted(q, "advance") /\ Guard(q).cleared

AdvanceAfterClose(q) ==
  /\ AdvanceCleared(q) /\ EngineOf(q).closed
  /\ Leave(q, EngineOf(q), Ok(EngineOf(q), SessionOf(q).tier))

AdvanceDuplicate(q) ==
  /\ AdvanceCleared(q) /\ ~EngineOf(q).closed
  /\ BodyOf(q).unit.seq \in EngineOf(q).seen_seqs
  /\ Leave(q, EngineOf(q), Refusal(422))

Judges(q) ==
  /\ AdvanceCleared(q) /\ ~EngineOf(q).closed
  /\ BodyOf(q).unit.seq \notin EngineOf(q).seen_seqs

AdvanceJudged(q) ==
  LET u == BodyOf(q).unit
      e == EngineOf(q)
      r == ResultOf(e, u)
  IN  /\ Judges(q)
      /\ \/ r.passed /\ Remaining(e) > 0
            /\ Stay(q, Ticked(Judged(e, u)), CallAt("advance", u.seq, "none"))
         \/ r.passed /\ Remaining(e) <= 0
            /\ Stay(q, Judged(e, u), CallAt("close_stream", u.seq, "cap-reached"))
         \/ ~r.passed
            /\ Stay(q, Judged(e, u), CallAt("close_stream", u.seq, r.reason))

PluginAdvances(q) ==
  LET e == EngineOf(q)
  IN  /\ Await(q) = "advance"
      /\ Stay(q, [e EXCEPT !.plugin = AdvanceStream(@, e.tick)],
              [req[q].call EXCEPT !.await = "drained", !.amount = Owed(e.plugin, e.tick)])

AdvanceEnds(q) ==
  LET e == Billed(EngineOf(q), req[q].call.seq, req[q].call.amount)
  IN  /\ Await(q) = "drained"
      /\ Leave(q, e, Ok(e, SessionOf(q).tier))

CloseBegins(q) ==
  /\ Granted(q, "close") /\ ~EngineOf(q).closed
  /\ Stay(q, EngineOf(q), CallAt("close_stream", LastSeq(EngineOf(q)), "closed"))

CloseAgain(q) ==
  /\ Granted(q, "close") /\ EngineOf(q).closed
  /\ Leave(q, EngineOf(q), Ok(EngineOf(q), SessionOf(q).tier))

PluginCloses(q) ==
  /\ Await(q) = "close_stream"
  /\ \E p \in CloseStream(EngineOf(q).plugin, EngineOf(q).tick) :
       Stay(q, [EngineOf(q) EXCEPT !.plugin = p],
            [req[q].call EXCEPT !.await = "receipt", !.amount = p.drained])

CloseEnds(q) ==
  LET c == req[q].call
      e == ClosedWith(EngineOf(q), c.seq, c.amount, c.reason)
  IN  /\ Await(q) = "receipt"
      /\ Leave(q, e, Ok(e, SessionOf(q).tier))

---------------------------------------------------------------------------------
\* The platform restarts a failed process (railway.json); nothing was persisted.
Restart ==
  /\ life < MaxRestarts
  /\ life' = life + 1
  /\ sessions' = [r \in Ref |-> Null]
  /\ open_queue' = <<>>
  /\ req' = [q \in Request |-> IF Free(q) THEN req[q]
                               ELSE [req[q] EXCEPT !.stage = "done", !.call = NoCall,
                                                   !.reply = Refusal(0)]]

(***************************************************************************)
(* /verify, on an answer a client kept: no signature, or does it hold      *)
(* under the key of this process?  A SettleOut lacks the ref, so the       *)
(* client puts the receipt together.                                       *)
(***************************************************************************)
KeptReceipt(ref, out) ==
  [ref |-> ref, per_unit |-> out.per_unit, settled_total |-> out.settled_total,
   remainder_unspent |-> out.remainder_unspent]

Verify(ref, reply) ==
  IF reply.signature = Null THEN "no-signature"
  ELSE IF VerifyVerdict(VerdictKey, reply.signature, KeptReceipt(ref, reply.out),
                        reply.out.trace)
       THEN "signature-valid" ELSE "signature-invalid"

Handle(q) ==
  \/ OpenRefused(q)
  \/ OpenBegins(q)
  \/ OpenEnds(q)
  \/ TrustRefused(q)
  \/ AdvanceAfterClose(q)
  \/ AdvanceDuplicate(q)
  \/ AdvanceJudged(q)
  \/ PluginAdvances(q)
  \/ AdvanceEnds(q)
  \/ CloseBegins(q)
  \/ CloseAgain(q)
  \/ PluginCloses(q)
  \/ CloseEnds(q)

Next ==
  \/ \E q \in Request, b \in Bodies : OpenArrives(q, b) \/ SessionArrives(q, b)
  \/ \E q \in Request : Handle(q)
  \/ Restart

(***************************************************************************)
(* Every handler that can run is run: the event loop is fair to its tasks, *)
(* the plugin's calls end.  Clients need not send, the process need not    *)
(* fail.                                                                   *)
(***************************************************************************)
Spec == Init /\ [][Next]_vars /\ \A q \in Request : WF_vars(Handle(q))
================================================================================
