----------------------------- MODULE MCEngineFaults -----------------------------
(***************************************************************************)
(* EngineFaults for TLC, on the deals and units of MCSettlementEngine.     *)
(***************************************************************************)
EXTENDS MCSettlementEngine, EngineFaults
=================================================================================
