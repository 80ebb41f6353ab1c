-------------------------------- MODULE Display --------------------------------
(***************************************************************************)
(* The transcript of SettleOut.display (engine.py, _render_display) as the *)
(* facts its sentences state: the rule, one row per judged unit, the       *)
(* totals.  Wording is left out, except that PAID and NOT PAID are claims. *)
(***************************************************************************)
EXTENDS Integers, Sequences, FiniteSets

Row(v) ==
  [item |-> v.seq,
   paid |-> v.verdict = "pass",
   why |-> v.reason,
   stopped_here |-> v.verdict # "pass"]

\* Mutant of RenderDisplay: the total is worked out from the PAID rows.
RenderDisplayByRows(open_in, per_unit, settled, closed) ==
  LET passing == {i \in DOMAIN per_unit : per_unit[i].verdict = "pass"}
  IN  [complete |-> closed,
       per_item |-> open_in.rate,
       rule |-> open_in.committed_reference.criterion,
       rows |-> [i \in DOMAIN per_unit |-> Row(per_unit[i])],
       total_paid |-> open_in.rate * Cardinality(passing),
       unspent |-> open_in.max_total - settled]

RenderDisplay(open_in, per_unit, settled, closed) ==
  [complete |-> closed,
   per_item |-> open_in.rate,
   rule |-> open_in.committed_reference.criterion,
   rows |-> [i \in DOMAIN per_unit |-> Row(per_unit[i])],
   total_paid |-> settled,
   unspent |-> open_in.max_total - settled]
================================================================================
