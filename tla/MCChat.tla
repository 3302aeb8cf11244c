-------------------------------- MODULE MCChat --------------------------------
(***************************************************************************)
(* Values for model-checking ChatSession.                                  *)
(***************************************************************************)
EXTENDS ChatSession, TLC

\* An answer costs more than a question, so a prompt can skip one.
TokensOf == [rule |-> 1, fact |-> 1, question |-> 1, answer |-> 2]

Interchangeable == Permutations(Requests) \cup Permutations(Values) \cup Permutations(Runs)
=============================================================================
