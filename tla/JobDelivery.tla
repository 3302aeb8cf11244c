------------------------------ MODULE JobDelivery ------------------------------
(***************************************************************************)
(* How work reaches the index worker: an outbox row committed with what it *)
(* is about, a publisher that sends it to RabbitMQ, and the consumers of   *)
(* two queues, online evaluation and incident indexing, that answer every  *)
(* delivery with ack, retry or dead.                                       *)
(*                                                                         *)
(* The main and the retry queue are one bag of messages: only the time of  *)
(* delivery differs.  A dead letter is not consumed by anything and is     *)
(* left out.  Failed statements, commits whose answer is lost, marks that  *)
(* do not follow a publish and broken sessions draw on one budget.         *)
(***************************************************************************)
EXTENDS Integers, FiniteSets

CONSTANTS Samples,      \* online-evaluation samples
          Incidents,    \* diagnostic runs a case can be confirmed for
          Handlers,     \* consumer goroutines of the worker processes
          Serves,       \* the jobs of each handler's queue
          MaxAttempts,  \* DefaultMaximumAttempts
          MaxFaults,    \* bound: failures of the environment
          MaxJobs,      \* bound: jobs that are begun
          NoJob

Jobs     == Samples \cup Incidents
\* An Exhaust that fails sends the message round once more, per fault.
Attempts == 0..(MaxAttempts + MaxFaults)

ASSUME DeliveryAssumption ==
  /\ Samples \cap Incidents = {}
  /\ Serves \in [Handlers -> {Samples, Incidents}]
  /\ MaxAttempts \in Nat \ {0} /\ MaxFaults \in Nat /\ MaxJobs \in Nat
  /\ NoJob \notin Jobs

VARIABLES begun,    \* history: the jobs whose work began
          outbox,   \* outbox_events: status of each job's row
          queue,    \* messages waiting, by job and attempt
          hand,     \* the delivery each handler works on
          faults    \* failures so far

deliveryVars == <<begun, outbox, queue, hand, faults>>

Steps == {"idle", "get", "mark", "judge", "index", "indexed", "note",
          "ack", "retry", "exhaust", "dead"}
Idle  == [job |-> NoJob, attempt |-> 0, step |-> "idle"]

DeliveryTypeOK ==
  /\ begun \subseteq Jobs
  /\ outbox \in [Jobs -> {"none", "pending", "published"}]
  /\ queue \in [Jobs \X Attempts -> Nat]
  /\ hand \in [Handlers -> [job: Jobs \cup {NoJob}, attempt: Attempts, step: Steps]]
  /\ faults \in 0..MaxFaults

DeliveryInit ==
  /\ begun = {}
  /\ outbox = [j \in Jobs |-> "none"]
  /\ queue = [m \in Jobs \X Attempts |-> 0]
  /\ hand = [h \in Handlers |-> Idle]
  /\ faults = 0

Fault   == faults < MaxFaults /\ faults' = faults + 1
NoFault == UNCHANGED faults

Goto(h, s) == hand' = [hand EXCEPT ![h].step = s]

\* Work on a job begins, within the bound.
Begin(j) == begun' = begun \cup {j} /\ Cardinality(begun') <= MaxJobs

\* The row of the outbox, in the transaction that creates what it is about.
Enqueue(j) ==
  /\ outbox[j] = "none"
  /\ outbox' = [outbox EXCEPT ![j] = "pending"]
-----------------------------------------------------------------------------
\* The row is sent and marked; or sent and not marked, because the mark or
\* the confirmation failed or another process sent the same batch.
PublishEvent(j) ==
  /\ outbox[j] = "pending"
  /\ queue' = [queue EXCEPT ![<<j, 0>>] = @ + 1]
  /\ \/ outbox' = [outbox EXCEPT ![j] = "published"] /\ NoFault
     \/ Fault /\ UNCHANGED outbox
  /\ UNCHANGED <<begun, hand>>

Deliver(h) ==
  /\ hand[h].step = "idle"
  /\ \E j \in Serves[h], n \in Attempts :
       /\ queue[<<j, n>>] > 0
       /\ queue' = [queue EXCEPT ![<<j, n>>] = @ - 1]
       /\ hand' = [hand EXCEPT ![h] = [job |-> j, attempt |-> n, step |-> "get"]]
  /\ UNCHANGED <<begun, outbox, faults>>

\* Handle, after a retryable failure: another attempt, or Exhaust.
OnFailure(h) == IF hand[h].attempt + 1 < MaxAttempts THEN "retry" ELSE "exhaust"

\* finishDelivery: the next attempt is published before the delivery is acked.
PublishRetry(h) ==
  /\ hand[h].step = "retry"
  /\ queue' = [queue EXCEPT ![<<hand[h].job, hand[h].attempt + 1>>] = @ + 1]
  /\ Goto(h, "ack")
  /\ UNCHANGED <<begun, outbox, faults>>

Ack(h) ==
  /\ hand[h].step \in {"ack", "dead"}
  /\ hand' = [hand EXCEPT ![h] = Idle]
  /\ UNCHANGED <<begun, outbox, queue, faults>>

\* The process dies or its session ends, also when a publish of finishDelivery
\* fails: the broker delivers the message again.
Stop(h) ==
  /\ hand[h].step # "idle"
  /\ Fault
  /\ queue' = [queue EXCEPT ![<<hand[h].job, hand[h].attempt>>] = @ + 1]
  /\ hand' = [hand EXCEPT ![h] = Idle]
  /\ UNCHANGED <<begun, outbox>>

DeliveryNext ==
  \/ \E j \in Jobs : PublishEvent(j)
  \/ \E h \in Handlers : Deliver(h) \/ PublishRetry(h) \/ Ack(h) \/ Stop(h)

\* A message of the job waits, is about to be sent, or is being handled by a
\* handler that has not decided to finish it.
Outstanding(j) ==
  \/ outbox[j] = "pending"
  \/ \E n \in Attempts : queue[<<j, n>>] > 0
  \/ \E h \in Handlers : hand[h].job = j /\ hand[h].step \notin {"ack", "dead"}
=============================================================================
