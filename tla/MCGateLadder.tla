------------------------------ MODULE MCGateLadder ------------------------------
(***************************************************************************)
(* GateLadder for TLC: two deals, two chunks.  c1 names only the deal r1,  *)
(* c2 both, so a chunk can be committed to and still name another deal.    *)
(***************************************************************************)
EXTENDS GateLadder

CONSTANTS r1, r2, c1, c2

MCRef == {r1, r2}
MCChunk == {c1, c2}
MCSeqNo == {0}
MCEmbedded == [c \in MCChunk |-> IF c = c1 THEN {r1} ELSE {r1, r2}]
=================================================================================
