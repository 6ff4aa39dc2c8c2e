------------------------ MODULE MCPolicyController ------------------------
EXTENDS PolicyController, TLC

(* Permit rows and permit requests are interchangeable.  Gateways and      *)
(* operations are not permuted: the blank row names one of each.           *)
Symmetry == Permutations(Permit) \union Permutations(PermitCall)
=============================================================================
