--------------------------- MODULE MCKnowledgeIndex ---------------------------
(***************************************************************************)
(* Values for model-checking KnowledgeIndex.                               *)
(***************************************************************************)
EXTENDS KnowledgeIndex

CONSTANTS d1

\* Version 3 is a document the parser rejects.
ThirdIsBad  == {<<d1, 3>>}
NoneIsBad   == {}

\* A copy is free whenever a publisher or a handler needs one: each message
\* beyond one per publisher costs a fault.
ASSUME EnoughCopies == MaxCopies >= MaxFaults + Cardinality(Workers)
=============================================================================
