--------------------------- MODULE MCSettlementEngine ---------------------------
(***************************************************************************)
(* SettlementEngine for TLC.  Chunks a and b name the deal, d does not.    *)
(* Under artifact_match seqs 0, 1 and 2 are committed to a, b and d, and   *)
(* seq 3 to nothing: seq 0 can be corrupted or swapped, d is the right     *)
(* bytes for another deal.  Under the other criteria three units can pass, *)
(* one more than the tight budgets pay for.                                *)
(***************************************************************************)
EXTENDS EngineProperties

CONSTANTS r1, r2, a, b, d, Budgets, Criteria

MCRef == {r1, r2}
MCChunk == {a, b, d}
MCSeqNo == 0 .. 3
MCEmbedded == [c \in MCChunk |-> IF c = d THEN {r2} ELSE {r1}]
MCRefParts == [r \in MCRef |-> <<r>>]
ColonRefParts == [r \in MCRef |-> <<"left", "right">>]  \* a ref with one ":" in it

Sha(c) == Digest("sha256", c)

Reference(k) ==
  [criterion |-> k, task_id |-> r1,
   expected |-> IF k = "artifact_match" THEN 0 :> Sha(a) @@ 1 :> Sha(b) @@ 2 :> Sha(d)
                ELSE <<>>]

\* Rate and cap: the cap cuts the second tick, fits two ticks exactly, cuts the first,
\* is never reached.
AllBudgets == {<<2, 3>>, <<2, 4>>, <<5, 3>>, <<1, 9>>}
Zeros == {<<0, 3>>, <<2, 0>>}
CutBudget == {<<2, 3>>}
AllCriteria == Criterion
OneCriterion == {"checksum"}

MCOpenInputs ==
  {[ref |-> r1, rate |-> n[1], max_total |-> n[2], attestor |-> "hash-only",
    committed_reference |-> Reference(k)] : n \in Budgets \cup Zeros, k \in Criteria}

Unit(s, c, declared) == [seq |-> s, chunk |-> c, declared_checksum |-> declared]

\* Genuine, corrupted and swapped deliveries for seq 0; genuine for seqs 1 and 2;
\* a checksum of another 64-digit algorithm, none at all, an uncommitted seq.
MCUnitInputs ==
  {Unit(0, a, Sha(a)), Unit(0, b, Sha(a)), Unit(0, b, Sha(b)),
   Unit(1, b, Sha(b)), Unit(1, b, Digest("sha3_256", b)), Unit(2, d, Sha(d)),
   Unit(2, d, Null), Unit(3, a, Sha(a))}
=================================================================================
