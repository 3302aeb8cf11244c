----------------------------- MODULE FeedbackLoop -----------------------------
(***************************************************************************)
(* What users and operators report back, side by side: evaluated samples,  *)
(* the failure pool mined from them, and confirmed incidents, over the one *)
(* outbox and broker of the index worker.                                  *)
(***************************************************************************)
EXTENDS IncidentMemory

feedbackVars == <<deliveryVars, evaluationVars, poolVars, incidentVars>>

FeedbackTypeOK == DeliveryTypeOK /\ EvaluationTypeOK /\ PoolTypeOK /\ IncidentTypeOK

FeedbackInit == DeliveryInit /\ EvaluationInit /\ PoolInit /\ IncidentInit

FeedbackNext ==
  \/ DeliveryNext /\ UNCHANGED <<evaluationVars, poolVars, incidentVars>>
  \/ EvaluationNext /\ UNCHANGED <<poolVars, incidentVars>>
  \/ PoolNext /\ UNCHANGED incidentVars
  \/ IncidentNext

\* The publisher's timer, the broker and the consumers as a whole keep going:
\* sessions are re-established for ever (cmd/index-worker).
WorkerStep ==
  \/ /\ \/ \E j \in Jobs : PublishEvent(j)
        \/ \E h \in Handlers : Deliver(h) \/ PublishRetry(h) \/ Ack(h)
     /\ UNCHANGED <<evaluationVars, poolVars, incidentVars>>
  \/ /\ \E h \in Handlers : EvaluationStep(h)
     /\ UNCHANGED <<poolVars, incidentVars>>
  \/ \E h \in Handlers : IndexStep(h)

FeedbackSpec == FeedbackInit /\ [][FeedbackNext]_feedbackVars /\ WF_feedbackVars(WorkerStep)
-----------------------------------------------------------------------------
\* A sample that waits for a verdict and an incident that waits for its index
\* still have a message on its way: no failure, crash or double delivery
\* leaves a row open that nothing will look at again (both consumers' Handle).
NothingStranded ==
  /\ \A s \in Samples : sample[s] \in Open => Outstanding(s)
  /\ \A i \in Incidents : incident[i].index = "pending" => Outstanding(i)

\* Again and again everything is settled: every stored sample is evaluated,
\* given up or deleted, and every confirmed incident is indexed or marked as
\* failed (both consumers' attempts and Exhaust).
WorkSettles ==
  []<>(/\ \A s \in Samples : sample[s] \notin Open
       /\ \A i \in Incidents : incident[i].index # "pending")
=============================================================================
