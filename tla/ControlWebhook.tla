----------------------------- MODULE ControlWebhook -----------------------------
(***************************************************************************)
(* Control-plane incidents and their signed webhooks.  The sampler stores  *)
(* a batch of metric windows a minute; the reconciler reads the latest one *)
(* and moves each incident, inserting what it has to announce into the     *)
(* delivery queue in the same transaction; dispatchers claim queued events *)
(* under a lease, post them, and record the outcome; the loopback receiver *)
(* keeps one receipt per event.                                            *)
(*                                                                         *)
(* main.go starts one reconciler and at most one dispatcher in a process;  *)
(* the queue's row lock and lease are written for several dispatchers, so  *)
(* their number is a parameter.  Every transaction is one step.  Time may  *)
(* pass between any two steps, so an incident's cooldown may or may not be *)
(* over, and a back-off or a lease may have ended, whenever it is asked.   *)
(*                                                                         *)
(* The receiver is the one of staging_loopback mode.  An external_https    *)
(* endpoint is another program: what it keeps of an event, and whether it  *)
(* answers 200 only then, is not in this code.                             *)
(***************************************************************************)
EXTENDS Integers, FiniteSets

CONSTANTS Keys,          \* incident keys: one per metric and strategy
          Dispatchers,
          MaxAttempts,   \* config.MaxAttempts
          MaxBatch,      \* bound: batches the sampler stores,
          MaxEnabled,    \*   and those it stores when webhooks are enabled
          MaxFixture,    \* bound: acceptance events
          MaxFaults,     \* bound: crashes and failed writes of dispatchers
          Fixture,       \* the key of acceptance events
          Nothing        \* no incident, no snapshot, no claim

VARIABLES enabled,    \* config.Enabled: whether a dispatcher and a receiver run
          latest,     \* the newest stored batch; 0 before the first
          snapshot,   \* the reconciler: its batch and the series still to apply
          incident,   \* control_incidents
          delivery,   \* control_webhook_deliveries
          receipts,   \* control_webhook_receipts: event ids
          claim,      \* the delivery each dispatcher holds in memory
          faults

incidents == <<enabled, latest, snapshot, incident>>
dispatch  == <<claim, faults>>
vars      == <<enabled, latest, snapshot, incident, delivery, receipts, claim, faults>>

Anomalies == {"critical", "warning"}
Final     == {"delivered", "dead"}
Statuses  == {"pending", "processing", "retry"} \cup Final
Answers   == {"none", "accepted", "transient", "rejected"}
Batches   == 1..MaxBatch
Events    == [key: Keys, type: {"opened", "updated", "resolved"}, batch: Batches]
             \cup [key: {Fixture}, type: {"opened"}, batch: 1..MaxFixture]
Incidents == [status: {"active", "resolved"}, severity: Anomalies \cup {"healthy"},
              last: Batches, streak: 0..1]
Claims    == [event: Events, attempt: Nat, answer: Answers]

ASSUME WebhookAssumption ==
  /\ MaxAttempts \in Nat /\ MaxAttempts >= 1
  /\ MaxBatch \in Nat /\ MaxEnabled \in 0..MaxBatch
  /\ MaxFixture \in Nat /\ MaxFaults \in Nat
  /\ IsFiniteSet(Dispatchers)
  /\ Fixture \notin Keys
  /\ Nothing \notin Incidents \cup Claims

TypeOK ==
  /\ enabled \in BOOLEAN
  /\ latest \in 0..MaxBatch
  /\ snapshot = Nothing \/ snapshot \in [batch: Batches, todo: SUBSET Keys]
  /\ incident \in [Keys -> Incidents \cup {Nothing}]
  /\ DOMAIN delivery \subseteq Events
  /\ delivery \in [DOMAIN delivery -> [status: Statuses, attempt: Nat]]
  /\ receipts \subseteq DOMAIN delivery
  /\ claim \in [Dispatchers -> [event: DOMAIN delivery, attempt: Nat, answer: Answers]
                               \cup {Nothing}]
  /\ faults \in 0..MaxFaults

Init ==
  /\ enabled \in BOOLEAN
  /\ latest = 0 /\ snapshot = Nothing
  /\ incident = [k \in Keys |-> Nothing]
  /\ delivery = [e \in {} |-> Nothing]
  /\ receipts = {}
  /\ claim = [d \in Dispatchers |-> Nothing]
  /\ faults = 0
-----------------------------------------------------------------------------
(* Batches, and the queue the events go through.                           *)

\* Mutated form of EventId: the batch is left out of the hash.
EventOfKind(k, type, b) == [key |-> k, type |-> type, batch |-> 1]

\* buildDelivery: an id is a hash of key, type and batch: it is those three.
EventId(k, type, b) == [key |-> k, type |-> type, batch |-> b]

\* INSERT ... ON CONFLICT DO NOTHING of a pending row.
Queue(e) ==
  delivery' = [x \in DOMAIN delivery \cup {e} |->
                 IF x \in DOMAIN delivery THEN delivery[x]
                 ELSE [status |-> "pending", attempt |-> 0]]

\* The sampler stores the batch of a new minute.
StoreBatch ==
  /\ latest < (IF enabled THEN MaxEnabled ELSE MaxBatch)
  /\ latest' = latest + 1
  /\ UNCHANGED <<enabled, snapshot, incident, delivery, receipts, dispatch>>

\* An acceptance event: its batch is a hash of the time, so it is new.
Acceptance ==
  /\ enabled
  /\ \E n \in 1..MaxFixture :
       /\ EventId(Fixture, "opened", n) \notin DOMAIN delivery
       /\ Queue(EventId(Fixture, "opened", n))
  /\ UNCHANGED <<incidents, receipts, dispatch>>
-----------------------------------------------------------------------------
(* The reconciler.                                                         *)

\* LatestProductionAnalysis: the batch, and an analysis per observed series.
ReadSnapshot ==
  /\ snapshot = Nothing /\ latest > 0
  /\ snapshot' = [batch |-> latest, todo |-> Keys]
  /\ UNCHANGED <<enabled, latest, incident, delivery, receipts, dispatch>>

Applied(k) ==
  LET rest == snapshot.todo \ {k}
  IN  snapshot' = IF rest = {} THEN Nothing ELSE [snapshot EXCEPT !.todo = rest]

Applying(k) == snapshot # Nothing /\ k \in snapshot.todo

Active(k) == incident[k] # Nothing /\ incident[k].status = "active"
Seen(k)   == incident[k].last = snapshot.batch

\* The transaction's writes: the incident, and the event if there is one.
Record(k, status, severity, streak) ==
  /\ incident' = [incident EXCEPT ![k] = [status |-> status, severity |-> severity,
                                          last |-> snapshot.batch, streak |-> streak]]
  /\ Applied(k)
  /\ UNCHANGED <<enabled, latest, receipts, dispatch>>

Announce(k, type) == Queue(EventId(k, type, snapshot.batch))

\* An anomaly opens an incident, or reopens a resolved one.
Open(k, v) ==
  /\ Applying(k) /\ ~Active(k)
  /\ Record(k, "active", v, 0)
  /\ Announce(k, "opened")

\* An active incident's next anomalous batch: announced after the cooldown
\* or when the severity changes.
Notifies(k, v, elapsed) == elapsed \/ v # incident[k].severity

Continue(k, v) ==
  /\ Applying(k) /\ Active(k) /\ ~Seen(k)
  /\ Record(k, "active", v, 0)
  /\ \E elapsed \in BOOLEAN :
       IF Notifies(k, v, elapsed) THEN Announce(k, "updated") ELSE UNCHANGED delivery

\* The second healthy batch without an anomaly between resolves.
Recovers(n) == n + 1 >= 2

Recover(k) ==
  /\ Applying(k) /\ Active(k) /\ ~Seen(k)
  /\ IF Recovers(incident[k].streak)
     THEN /\ Record(k, "resolved", "healthy", 0)
          /\ Announce(k, "resolved")
     ELSE /\ Record(k, "active", incident[k].severity, incident[k].streak + 1)
          /\ UNCHANGED delivery

\* No transition: an undecided or unobserved series, a batch already applied
\* to an active incident, health without one; or the transaction fails.
Ignore(k) ==
  /\ Applying(k) /\ Applied(k)
  /\ UNCHANGED <<enabled, latest, incident, delivery, receipts, dispatch>>

ApplyCandidate(k) ==
  \/ \E v \in Anomalies : Open(k, v) \/ Continue(k, v)
  \/ Recover(k)
  \/ Ignore(k)
-----------------------------------------------------------------------------
(* The dispatcher.                                                         *)

\* Mutated form of Claimable: expired leases are not taken over.
ClaimableOnce(e) == delivery[e].status \in {"pending", "retry"}
\* An event whose time has come, or one whose lease has run out.
Claimable(e) == delivery[e].status \in {"pending", "retry", "processing"}

\* ClaimAvailable.  The number of attempts is counted, not looked at.
Claim(d) ==
  /\ enabled /\ claim[d] = Nothing
  /\ \E e \in DOMAIN delivery :
       LET n == delivery[e].attempt + 1
       IN  /\ Claimable(e)
           /\ delivery' = [delivery EXCEPT ![e] = [status |-> "processing", attempt |-> n]]
           /\ claim' = [claim EXCEPT ![d] = [event |-> e, attempt |-> n, answer |-> "none"]]
  /\ UNCHANGED <<incidents, receipts, faults>>

Posting(d) == claim[d] # Nothing /\ claim[d].answer = "none"

\* Mutated form of Hears: the receiver answers before it stores.
HearsEarly(stored) == {"accepted", "transient"}

\* What the dispatcher hears when the receiver does, or does not, hold the
\* event's receipt: the answer 200 may be lost; without a receipt it is a
\* transport error, a timeout, 429, 5xx, or a rejection with another 4xx.
Hears(stored) == IF stored THEN {"accepted", "transient"} ELSE {"transient", "rejected"}

\* One post: StoreReceipt inserts the receipt unless it is there (a
\* duplicate is accepted too), or the event does not get so far.
Post(d) ==
  /\ Posting(d)
  /\ \E stored \in BOOLEAN : \E a \in Hears(stored) :
       /\ receipts' = IF stored THEN receipts \cup {claim[d].event} ELSE receipts
       /\ claim' = [claim EXCEPT ![d].answer = a]
  /\ UNCHANGED <<incidents, delivery, faults>>

Answered(d) == claim[d] # Nothing /\ claim[d].answer # "none"

\* Mutated form of Outcome: one retry too many.
OutcomeLater(d) ==
  CASE claim[d].answer = "accepted" -> "delivered"
    [] claim[d].answer = "transient" /\ claim[d].attempt <= MaxAttempts -> "retry"
    [] OTHER -> "dead"

\* MarkDelivered, MarkRetry or MarkDead.
Outcome(d) ==
  CASE claim[d].answer = "accepted" -> "delivered"
    [] claim[d].answer = "transient" /\ claim[d].attempt < MaxAttempts -> "retry"
    [] OTHER -> "dead"

\* Mutated form of Marks: the row is updated by its id alone.
MarksAny(e) == TRUE

\* finish asks for the status only: not for the lease, nor for the attempt.
Marks(e) == delivery[e].status = "processing"

\* The row, if it is still in processing; otherwise "completion lost".
Finish(d) ==
  LET e == claim[d].event
  IN  /\ Answered(d)
      /\ delivery' = IF Marks(e)
                     THEN [delivery EXCEPT ![e].status = Outcome(d)]
                     ELSE delivery
      /\ claim' = [claim EXCEPT ![d] = Nothing]
      /\ UNCHANGED <<incidents, receipts, faults>>

\* The process dies with its claim, or the database refuses its last write:
\* the row stays in processing until the lease has run out.
Abandon(d) ==
  /\ claim[d] # Nothing /\ faults < MaxFaults
  /\ claim' = [claim EXCEPT ![d] = Nothing]
  /\ faults' = faults + 1
  /\ UNCHANGED <<incidents, delivery, receipts>>

-----------------------------------------------------------------------------
Next ==
  \/ StoreBatch \/ Acceptance \/ ReadSnapshot
  \/ \E k \in Keys : ApplyCandidate(k)
  \/ \E d \in Dispatchers : Claim(d) \/ Post(d) \/ Finish(d) \/ Abandon(d)

\* Dispatchers poll for ever: one of them that can claim, post or record does
\* so, if need be after the lease or the back-off has ended.
Fairness == \A d \in Dispatchers : WF_vars(Claim(d) \/ Post(d) \/ Finish(d))

Spec     == Init /\ [][Next]_vars
FairSpec == Spec /\ Fairness
-----------------------------------------------------------------------------
(* Properties.                                                             *)

\* The queue tells the incident's history: of every incident one more
\* opening than resolution is queued while it is active, as many when it is
\* not.  No event is lost to an id that was used before, none is queued
\* without its transition (ApplyCandidate's transaction, buildDelivery's id).
Told(k, type) == Cardinality({e \in DOMAIN delivery : e.key = k /\ e.type = type})

QueueTellsIncident ==
  \A k \in Keys : Told(k, "opened") = Told(k, "resolved") + (IF Active(k) THEN 1 ELSE 0)

\* A delivery that is marked delivered has its receipt at the loopback receiver,
\* whatever answers were lost and whichever dispatcher wrote the mark (finish,
\* StoreReceipt).
DeliveredIsReceived ==
  \A e \in DOMAIN delivery : delivery[e].status = "delivered" => e \in receipts

\* The limit on attempts is only exceeded by attempts that an abandoned claim
\* left unanswered, one each, and by those that overlap an earlier claim whose
\* lease ran out: with one dispatcher and no failure there are none
\* (DispatchAvailable's test of Attempt, against ClaimAvailable's lack of one).
AttemptsBounded ==
  LET n == Cardinality(Dispatchers)
  IN  \A e \in DOMAIN delivery : delivery[e].attempt <= MaxAttempts + faults + n * (n - 1)

\* A delivered event is not sent again and a dead letter is not replayed, not
\* even when a dispatcher that lost its lease answers late (finish's and
\* ClaimAvailable's conditions on the status).
FinalIsFinal ==
  [][\A e \in DOMAIN delivery : delivery[e].status \in Final =>
       e \in DOMAIN delivery' /\ delivery'[e] = delivery[e]]_vars

\* Once batches and failures have ended, every queued event ends as delivered
\* or as a dead letter: none stays in processing after a crash, and late
\* answers cannot keep one in retries (ClaimAvailable's expired leases).
EverythingEnds ==
  enabled => <>[](\A e \in DOMAIN delivery : delivery[e].status \in Final)
=============================================================================
