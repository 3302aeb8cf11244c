--------------------------- MODULE MCGroundedAnswer ---------------------------
(***************************************************************************)
(* GroundedAnswer for TLC.                                                 *)
(***************************************************************************)
EXTENDS GroundedAnswer, TLC

CONSTANTS plain, mixed, low, high

\* One file states one value, the other states both in two chunks.
Chunking == plain :> {low} @@ mixed :> {low, high}

\* A chunk states its value.
Stated == [t \in {low, high} |-> {t}]

\* Only invariants and step properties are checked with it.
Interchangeable == Permutations(Documents) \cup Permutations(Clients)
=============================================================================
