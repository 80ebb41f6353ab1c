------------------------------- MODULE Settlement -------------------------------
(***************************************************************************)
(* What a settlement session promises its buyer and its seller, with none  *)
(* of the machinery: a unit is judged by what was agreed at open, a unit   *)
(* that meets the terms releases its rate until the cap is reached, the    *)
(* first one that does not ends the session, and nothing moves afterwards. *)
(* SettlementEngine is shown to implement this.                            *)
(***************************************************************************)
EXTENDS Contract, Sequences

CONSTANTS Terms,      \* the open requests a buyer may make
          Deliveries, \* the units a seller may deliver
          L2Algo      \* the digest the declared checksum is taken with

VARIABLES terms, verdicts, billed, status

vars == <<terms, verdicts, billed, status>>

AtMost(n, cap) == IF n <= cap THEN n ELSE cap

\* What verdicts vs entitle the seller to under terms t.
Due(t, vs) == AtMost(t.rate * VerifiedCount(vs), t.max_total)

(***************************************************************************)
(* Does unit u satisfy terms t?  Stated without an order of checks.        *)
(***************************************************************************)
HonestChecksum(u) == u.declared_checksum = Digest(L2Algo, u.chunk)

AsCommitted(t, u) ==
  LET expected == t.committed_reference.expected
  IN  /\ u.seq \in DOMAIN expected
      /\ expected[u.seq] = Digest("sha256", u.chunk)
      /\ t.ref \in Embedded[u.chunk]

Meets(t, u) ==
  LET criterion == t.committed_reference.criterion
  IN  /\ criterion # "ack_received" => HonestChecksum(u)
      /\ criterion = "artifact_match" => AsCommitted(t, u)

Init == terms = Null /\ verdicts = <<>> /\ billed = 0 /\ status = "unopened"

Open(t) ==
  /\ status = "unopened"
  /\ t.rate >= 1 /\ t.max_total >= 1
  /\ terms' = t /\ status' = "open"
  /\ UNCHANGED <<verdicts, billed>>

\* A unit is judged only when everything due for the earlier ones is paid.
Judge(u) ==
  /\ status = "open"
  /\ billed = Due(terms, verdicts)
  /\ \A i \in DOMAIN verdicts : Passed(verdicts[i]) /\ verdicts[i].seq # u.seq
  /\ \E v \in Verdict, why \in ReasonToken :
       /\ v = "pass" <=> Meets(terms, u)
       /\ verdicts' = Append(verdicts, [seq |-> u.seq, verdict |-> v, reason |-> why])
  /\ UNCHANGED <<terms, billed, status>>

Release ==
  /\ status = "open"
  /\ billed < Due(terms, verdicts)
  /\ billed' = Due(terms, verdicts)
  /\ UNCHANGED <<terms, verdicts, status>>

Close ==
  /\ status = "open"
  /\ billed = Due(terms, verdicts)
  /\ status' = "closed"
  /\ UNCHANGED <<terms, verdicts, billed>>

Refused == \E i \in DOMAIN verdicts : ~Passed(verdicts[i])

Next ==
  \/ \E t \in Terms : Open(t)
  \/ \E u \in Deliveries : Judge(u)
  \/ Release
  \/ Close

Spec ==
  /\ Init /\ [][Next]_vars
  /\ WF_vars(Release)
  /\ WF_vars(Refused /\ Close)
==================================================================================
