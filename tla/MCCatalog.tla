------------------------------- MODULE MCCatalog -------------------------------
(***************************************************************************)
(* Values for model-checking Catalog.                                      *)
(***************************************************************************)
EXTENDS Catalog, TLC

CONSTANTS a, u1, s1, s2

\* Both sessions are one reviewer's: two tabs, or a request and its retry.
SameUser == [s \in {s1, s2} |-> u1]

\* Keys, the sessions of the one reviewer, and processes are alike.
CatalogSymmetry == Permutations(Keys) \cup Permutations({s1, s2}) \cup Permutations(Executors)
=============================================================================
