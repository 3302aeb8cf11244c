------------------------------ MODULE MCFeedback ------------------------------
(***************************************************************************)
(* Values for model-checking FeedbackLoop.                                 *)
(***************************************************************************)
EXTENDS FeedbackLoop

CONSTANTS t, f, a, i, e1, e2, x1, x2

\* A live answer, a downvoted one with a tool failure, an acceptance probe.
Origins == [s \in {t, f, a} |-> CASE s = t -> "traffic" [] s = f -> "feedback"
                                  [] OTHER -> "acceptance"]
ReasonOf == [s \in {t, f, a} |-> IF s = f THEN "user_downvote" ELSE "none"]
\* Two consumers of each queue.
Queues == [h \in {e1, e2, x1, x2} |-> IF h \in {e1, e2} THEN {t, f, a} ELSE {i}]
=============================================================================
