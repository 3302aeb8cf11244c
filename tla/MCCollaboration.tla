---------------------------- MODULE MCCollaboration ----------------------------
(***************************************************************************)
(* Collaboration for TLC: a document that cleaning leaves alone, one that  *)
(* it changes, one it empties, and a signal of the request.                *)
(***************************************************************************)
EXTENDS Collaboration

CONSTANTS plain, dirty, void, signal

CleaningsOf == [s \in Sources |-> IF s = dirty THEN 1 ELSE 0]
=============================================================================
