--------------------------- MODULE MCReviewWorkbench ---------------------------
(***************************************************************************)
(* Values for model-checking ReviewWorkbench.                              *)
(***************************************************************************)
EXTENDS ReviewWorkbench

CONSTANTS a, b, u1, s1, s2

\* Two tabs of one reviewer.
SameUser == [s \in {s1, s2} |-> u1]
AThenB   == << a, b >>
=============================================================================
