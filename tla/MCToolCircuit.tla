----------------------------- MODULE MCToolCircuit -----------------------------
(***************************************************************************)
(* Values for model-checking ToolCircuit.                                  *)
(***************************************************************************)
EXTENDS ToolCircuit, TLC

CONSTANTS c1, c2, c3

\* All calls share one key, the worst case for the cache.
OneKey       == [c \in Calls |-> CHOOSE k \in Keys : TRUE]
CallSymmetry == Permutations({c1, c2, c3})
=============================================================================
