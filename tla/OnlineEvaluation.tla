--------------------------- MODULE OnlineEvaluation ---------------------------
(***************************************************************************)
(* Online evaluation: a sample of live answers, downvoted answers and      *)
(* acceptance probes become rows, each with an outbox event; consumers     *)
(* judge them.  Delivery is at least once, so two consumers may judge one  *)
(* sample at the same time; only the claim looks at the status.            *)
(***************************************************************************)
EXTENDS JobDelivery

CONSTANTS Origin,   \* where each sample comes from
          Buffer    \* observerBuffer

ASSUME EvaluationAssumption ==
  /\ Origin \in [Samples -> {"traffic", "feedback", "acceptance"}]
  /\ Buffer \in Nat

VARIABLES sample,   \* online_evaluation_samples: status; or the observer's buffer
          low       \* the judge scored the sample below the cutoff

evaluationVars == <<sample, low>>

Final        == {"completed", "judge_failed", "dead"}
Open         == {"pending", "evaluating"}
SampleStatus == {"none", "buffered", "dropped", "pruned"} \cup Open \cup Final

EvaluationTypeOK ==
  /\ sample \in [Samples -> SampleStatus]
  /\ low \in [Samples -> BOOLEAN]

EvaluationInit ==
  /\ sample = [s \in Samples |-> "none"]
  /\ low = [s \in Samples |-> FALSE]

Become(s, v) == sample' = [sample EXCEPT ![s] = v]
Stored(s)    == sample[s] \in Open \cup Final
-----------------------------------------------------------------------------
(* Where samples come from.                                                *)

Buffered == {s \in Samples : sample[s] = "buffered"}

\* Record: an answer is selected; a full buffer drops it.
Record(s) ==
  /\ Origin[s] = "traffic" /\ sample[s] = "none"
  /\ Begin(s)
  /\ Become(s, IF Cardinality(Buffered) < Buffer THEN "buffered" ELSE "dropped")
  /\ UNCHANGED <<low, outbox, queue, hand, faults>>

\* run: the row and its event are created together, or the sample is lost.
Persist(s) ==
  /\ sample[s] = "buffered"
  /\ \/ Become(s, "pending") /\ Enqueue(s) /\ NoFault
     \/ Become(s, "dropped") /\ Fault /\ UNCHANGED outbox
  /\ UNCHANGED <<low, begun, queue, hand>>

\* Create of feedback: the unique row of a request and a kind of feedback lets
\* the first of several submissions through; the others are told about it.
Unrated(s) == Origin[s] = "feedback" /\ sample[s] = "none"

\* Submit: a downvote becomes a row, a sample and an event.
Rate(s) ==
  /\ Unrated(s)
  /\ Begin(s) /\ Become(s, "pending") /\ Enqueue(s)
  /\ UNCHANGED <<low, queue, hand, faults>>

\* RunAcceptance stores a probe and then only polls it.
Probe(s) ==
  /\ Origin[s] = "acceptance" /\ sample[s] = "none"
  /\ Begin(s) /\ Become(s, "pending") /\ Enqueue(s)
  /\ UNCHANGED <<low, queue, hand, faults>>

\* PruneExpired deletes rows by age, whatever their status.
Prune(s) ==
  /\ Stored(s)
  /\ Become(s, "pruned")
  /\ UNCHANGED <<low, deliveryVars>>
-----------------------------------------------------------------------------
(* The consumer.  A statement succeeds; or it fails, with or without effect.*)

Evaluates(h, step) == hand[h].step = step /\ hand[h].job \in Samples

GetSample(h) ==
  /\ Evaluates(h, "get")
  /\ \/ /\ Goto(h, CASE sample[hand[h].job] = "pruned" -> "dead"
                     [] sample[hand[h].job] \in {"completed", "judge_failed"} -> "ack"
                     [] OTHER -> "mark")
        /\ NoFault
     \/ Goto(h, OnFailure(h)) /\ Fault
  /\ UNCHANGED <<evaluationVars, begun, outbox, queue>>

\* Mutated form of Claimable: what another consumer began is not taken over.
ClaimablePending(s) == sample[s] = "pending"

\* MarkEvaluating: the statuses it accepts.
Claimable(s) == sample[s] \in Open

MarkEvaluating(h) ==
  /\ Evaluates(h, "mark")
  /\ LET s == hand[h].job IN
       \/ /\ NoFault
          /\ IF Claimable(s) THEN Become(s, "evaluating") /\ Goto(h, "judge")
                             ELSE UNCHANGED sample /\ Goto(h, "ack")
       \/ /\ Fault /\ Goto(h, OnFailure(h))
          /\ UNCHANGED sample \/ (Claimable(s) /\ Become(s, "evaluating"))
  /\ UNCHANGED <<low, begun, outbox, queue>>

\* Complete, or Fail: by the row's id only, whatever its status is by now.
\* A probe is completed without a model call.
StoreVerdict(s) ==
  \/ ~Stored(s) /\ UNCHANGED evaluationVars
  \/ /\ Stored(s) /\ Become(s, "completed")
     /\ \E l \in IF Origin[s] = "acceptance" THEN {FALSE} ELSE BOOLEAN :
          low' = [low EXCEPT ![s] = l]
  \/ Stored(s) /\ Origin[s] # "acceptance" /\ Become(s, "judge_failed") /\ UNCHANGED low

Judge(h) ==
  /\ Evaluates(h, "judge")
  /\ \/ StoreVerdict(hand[h].job) /\ Goto(h, "ack") /\ NoFault
     \/ /\ Fault /\ Goto(h, OnFailure(h))
        /\ StoreVerdict(hand[h].job) \/ UNCHANGED evaluationVars
  /\ UNCHANGED <<begun, outbox, queue>>

\* Mutated form of AfterExhaust: a failed update is not retried.
AfterExhaustDead(failed) == "dead"

\* Handle: a dead letter, or the message once more if the row was not told.
AfterExhaust(failed) == IF failed THEN "retry" ELSE "dead"

\* MarkDead, by id only.
ExhaustSample(h) ==
  /\ Evaluates(h, "exhaust")
  /\ LET s == hand[h].job
         MarkDead == IF Stored(s) THEN Become(s, "dead") ELSE UNCHANGED sample
     IN \/ MarkDead /\ Goto(h, AfterExhaust(FALSE)) /\ NoFault
        \/ (MarkDead \/ UNCHANGED sample) /\ Goto(h, AfterExhaust(TRUE)) /\ Fault
  /\ UNCHANGED <<low, begun, outbox, queue>>

EvaluationStep(h) == GetSample(h) \/ MarkEvaluating(h) \/ Judge(h) \/ ExhaustSample(h)

EvaluationNext ==
  \/ \E s \in Samples : Record(s) \/ Persist(s) \/ Rate(s) \/ Probe(s) \/ Prune(s)
  \/ \E h \in Handlers : EvaluationStep(h)
=============================================================================
