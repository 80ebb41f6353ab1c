------------------------------- MODULE MCDemoRuns -------------------------------
(***************************************************************************)
(* DemoRuns for TLC: the scenario before and after one body was changed.   *)
(***************************************************************************)
EXTENDS DemoRuns

CONSTANT ref

\* A payload by its name and the last bit of its last byte.
MCChunk == {"c0", "c1", "new1", "swap", "edited"} \X {0, 1}
MCFlip == [c \in MCChunk |-> <<c[1], 1 - c[2]>>]
MCRef == {ref}
MCSeqNo == 0 .. 1
MCEmbedded == [c \in MCChunk |-> {ref}]
MCScenarios == {<<<<"c0", 0>>, <<body, 0>>, <<"swap", 0>>>> : body \in {"c1", "new1"}}
MCEdits == {<<"edited", 0>>, <<"c1", 1>>}

\* As committed, and the cap cutting the second tick, reached by the first or cutting it;
\* a rate the engine cannot meter.
MCOverrides ==
  {[rate |-> r, max_total |-> Null] : r \in {Null, 0}}
  \cup {[rate |-> Null, max_total |-> m] : m \in {150, 100, 30}}

MCOpenInputs ==
  {Overridden(Commitment(s[1], s[2]), over) : s \in MCScenarios, over \in MCOverrides}
MCUnitInputs == [seq : MCSeqNo, chunk : MCChunk, declared_checksum : {"sha256"} \X MCChunk]
=================================================================================
