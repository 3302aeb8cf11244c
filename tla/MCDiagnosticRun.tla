---------------------------- MODULE MCDiagnosticRun ----------------------------
(***************************************************************************)
(* DiagnosticRun for TLC.                                                  *)
(***************************************************************************)
EXTENDS DiagnosticRun, TLC

\* The requests are alike, and so are the commands.
RequestSymmetry == Permutations(Requests) \cup Permutations(Commands)
=============================================================================
