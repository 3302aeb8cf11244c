---------------------------- MODULE MCControlWebhook ----------------------------
(***************************************************************************)
(* Values for model-checking MetricDetection.                              *)
(***************************************************************************)
EXTENDS MetricDetection

CONSTANTS k1, d1, d2
=============================================================================
