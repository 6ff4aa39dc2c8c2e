------------------------- MODULE MCExecutionGateway -------------------------
(* ExecutionGateway for TLC: model values, and the symmetry of proposals   *)
(* and of redemption calls.                                                *)
EXTENDS ExecutionGateway, TLC

Symmetry == Permutations(Intent) \cup Permutations(Run)
=============================================================================
