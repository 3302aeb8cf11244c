------------------------- MODULE ControlWebhookProofs -------------------------
(***************************************************************************)
(* Proofs about ControlWebhook, for any incidents, any number of           *)
(* dispatchers and every limit, and about the detector of MetricDetection, *)
(* for any series, thresholds and windows.                                 *)
(*                                                                         *)
(* The queue tells an incident's history because no event id is used       *)
(* twice.  Ids are fresh because batches only grow (Ordered): all events   *)
(* of an incident are of batches up to the last one applied to it, the     *)
(* openings of a resolved incident are of earlier ones, and a batch is     *)
(* applied to an active incident only if it is a later one.                *)
(*                                                                         *)
(* The number of attempts is bounded because claims that can be retried    *)
(* become fewer (AttemptsFit).                                             *)
(*                                                                         *)
(* A healthy verdict is about more points than the anomaly before it       *)
(* (Grounded, Founded): the same points would have had the same verdict.   *)
(***************************************************************************)
EXTENDS MetricDetection, FiniteSetTheorems, SequenceTheorems, TLAPS

\* The batches of an incident's events, against the last batch it has seen.
OrderedAt(k) ==
  /\ incident[k] = Nothing => \A e \in DOMAIN delivery : e.key # k
  /\ incident[k] # Nothing =>
       /\ incident[k].last <= latest
       /\ snapshot # Nothing => incident[k].last <= snapshot.batch
       /\ \A e \in DOMAIN delivery : e.key = k => e.batch <= incident[k].last
       /\ incident[k].status = "resolved" =>
            \A e \in DOMAIN delivery :
              e.key = k /\ e.type = "opened" => e.batch < incident[k].last

Ordered == \A k \in Keys : OrderedAt(k)

\* The reconciler's batch is one that was stored.
SnapshotStored == snapshot # Nothing => snapshot.batch <= latest

\* A dispatcher that heard 200 has the receiver's receipt.
Heard == \A d \in Dispatchers :
  claim[d] # Nothing /\ claim[d].answer = "accepted" => claim[d].event \in receipts

QueueFinite == IsFiniteSet(DOMAIN delivery)

\* What makes the queue tell the incidents' history, in every state.
History == SnapshotStored /\ Ordered /\ QueueTellsIncident
-----------------------------------------------------------------------------
(* What a step does to the queue.                                          *)

\* Queue(e) adds a pending row of e, or nothing.
LEMMA QueueAdds ==
  ASSUME NEW e, TypeOK, Queue(e)
  PROVE  /\ DOMAIN delivery' = DOMAIN delivery \cup {e}
         /\ \A x \in DOMAIN delivery : delivery'[x] = delivery[x]
         /\ delivery' \in [DOMAIN delivery' -> [status: Statuses, attempt: Nat]]
         /\ e \notin DOMAIN delivery => delivery'[e].status = "pending" /\ delivery'[e].attempt = 0
BY DEF Queue, TypeOK, Statuses

\* The reconciler's steps announce at most one event, of its own batch; an
\* acceptance event has a key of its own.
LEMMA EventTypes ==
  ASSUME TypeOK
  PROVE  /\ \A k \in Keys : Applying(k) => \A type \in {"opened", "updated", "resolved"} :
              EventId(k, type, snapshot.batch) \in Events
         /\ \A n \in 1..MaxFixture : EventId(Fixture, "opened", n) \in Events
BY DEF TypeOK, Applying, EventId, Events

\* The steps that change the queue: a new event, or a dispatcher's.
Announcing == \E e \in Events : Queue(e) /\ UNCHANGED <<receipts, dispatch>>
Dispatch   == \E d \in Dispatchers : Claim(d) \/ Post(d) \/ Finish(d) \/ Abandon(d)
Quiet      == UNCHANGED <<delivery, receipts, dispatch>>

LEMMA StepKinds ==
  ASSUME TypeOK, [Next]_vars
  PROVE  Announcing \/ Dispatch \/ Quiet
<1>1. CASE StoreBatch \/ ReadSnapshot \/ UNCHANGED vars
  BY <1>1 DEF StoreBatch, ReadSnapshot, vars, Quiet, dispatch
<1>2. CASE Acceptance
  BY <1>2, EventTypes DEF Acceptance, Announcing
<1>3. ASSUME NEW k \in Keys, ApplyCandidate(k) PROVE Announcing \/ Quiet
  <2>1. CASE Ignore(k)
    BY <2>1 DEF Ignore, Quiet
  <2>2. ASSUME NEW v \in Anomalies, Open(k, v) PROVE Announcing
    BY <2>2, EventTypes DEF Open, Announce, Record, Announcing
  <2>3. ASSUME NEW v \in Anomalies, Continue(k, v) PROVE Announcing \/ Quiet
    BY <2>3, EventTypes DEF Continue, Announce, Record, Announcing, Quiet
  <2>4. CASE Recover(k)
    BY <2>4, EventTypes DEF Recover, Announce, Record, Announcing, Quiet
  <2> QED BY <1>3, <2>1, <2>2, <2>3, <2>4 DEF ApplyCandidate
<1> QED BY <1>1, <1>2, <1>3 DEF Next, Dispatch
-----------------------------------------------------------------------------
(* Type correctness.                                                       *)

\* The initial state has the types.
LEMMA TypeInit == Init => TypeOK
BY WebhookAssumption DEF Init, TypeOK

\* The reconciler's tables keep their types.
LEMMA IncidentTypes ==
  ASSUME TypeOK, [Next]_vars
  PROVE  /\ enabled' \in BOOLEAN /\ latest' \in 0..MaxBatch
         /\ snapshot' = Nothing \/ snapshot' \in [batch: Batches, todo: SUBSET Keys]
         /\ incident' \in [Keys -> Incidents \cup {Nothing}]
<1> USE WebhookAssumption
<1>1. CASE StoreBatch
  BY <1>1 DEF StoreBatch, TypeOK
<1>2. CASE Acceptance \/ Dispatch \/ UNCHANGED vars
  BY <1>2 DEF Acceptance, Dispatch, Claim, Post, Finish, Abandon, vars, incidents, TypeOK
<1>3. CASE ReadSnapshot
  BY <1>3 DEF ReadSnapshot, TypeOK, Batches
<1>4. ASSUME NEW k \in Keys, ApplyCandidate(k)
      PROVE  /\ enabled' = enabled /\ latest' = latest
             /\ snapshot' = Nothing \/ snapshot' \in [batch: Batches, todo: SUBSET Keys]
             /\ incident' \in [Keys -> Incidents \cup {Nothing}]
  <2>1. Applying(k) => snapshot \in [batch: Batches, todo: SUBSET Keys]
    BY DEF Applying, TypeOK
  <2>2. Applying(k) /\ Applied(k) =>
          snapshot' = Nothing \/ snapshot' \in [batch: Batches, todo: SUBSET Keys]
    BY <2>1 DEF Applied
  <2>3. Active(k) => incident[k] \in Incidents
    BY DEF Active, TypeOK
  <2>4. CASE Ignore(k)
    BY <2>2, <2>4 DEF Ignore, TypeOK
  <2>5. ASSUME NEW status \in {"active", "resolved"}, NEW severity \in Anomalies \cup {"healthy"},
               NEW streak \in 0..1, Record(k, status, severity, streak), Applying(k)
        PROVE  /\ enabled' = enabled /\ latest' = latest
               /\ snapshot' = Nothing \/ snapshot' \in [batch: Batches, todo: SUBSET Keys]
               /\ incident' \in [Keys -> Incidents \cup {Nothing}]
    <3>1. [status |-> status, severity |-> severity, last |-> snapshot.batch, streak |-> streak]
            \in Incidents
      BY <2>1, <2>5 DEF Incidents
    <3> QED BY <3>1, <2>2, <2>5 DEF Record, TypeOK
  <2>6. ASSUME NEW v \in Anomalies, Open(k, v) \/ Continue(k, v)
        PROVE  Record(k, "active", v, 0) /\ Applying(k)
    BY <2>6 DEF Open, Continue
  <2>7. CASE Recover(k)
    <3>1. Applying(k) /\ incident[k].severity \in Anomalies \cup {"healthy"}
                      /\ incident[k].streak \in {0, 1}
      BY <2>3, <2>7 DEF Recover, Incidents
    <3>2. CASE Recovers(incident[k].streak)
      BY <3>1, <3>2, <2>5, <2>7 DEF Recover
    <3>3. CASE ~Recovers(incident[k].streak)
      <4>1. incident[k].streak + 1 \in 0..1
        BY <3>1, <3>3 DEF Recovers
      <4> QED BY <4>1, <3>1, <3>3, <2>5, <2>7 DEF Recover
    <3> QED BY <3>2, <3>3
  <2> QED BY <1>4, <2>4, <2>5, <2>6, <2>7 DEF ApplyCandidate
<1> QED BY <1>1, <1>2, <1>3, <1>4 DEF Next, Dispatch, TypeOK

\* An event may be announced: the queue keeps its type, no row changes.
LEMMA QueueTypes ==
  ASSUME TypeOK, Announcing
  PROVE  /\ DOMAIN delivery' \subseteq Events
         /\ delivery' \in [DOMAIN delivery' -> [status: Statuses, attempt: Nat]]
         /\ DOMAIN delivery \subseteq DOMAIN delivery'
         /\ receipts' = receipts /\ claim' = claim /\ faults' = faults
         /\ \A x \in DOMAIN delivery : delivery'[x] = delivery[x]
         /\ \A x \in DOMAIN delivery' : \/ x \in DOMAIN delivery
                                        \/ delivery'[x].status = "pending" /\ delivery'[x].attempt = 0
<1> PICK e \in Events : Queue(e) /\ UNCHANGED <<receipts, dispatch>>
  BY DEF Announcing
<1>1. /\ DOMAIN delivery' = DOMAIN delivery \cup {e}
      /\ \A x \in DOMAIN delivery : delivery'[x] = delivery[x]
      /\ delivery' \in [DOMAIN delivery' -> [status: Statuses, attempt: Nat]]
      /\ e \notin DOMAIN delivery => delivery'[e].status = "pending" /\ delivery'[e].attempt = 0
  BY QueueAdds
<1> QED BY <1>1 DEF TypeOK, dispatch

\* A dispatcher's step writes rows that are there, in their type.
LEMMA DispatchTypes ==
  ASSUME TypeOK, NEW d \in Dispatchers, Claim(d) \/ Post(d) \/ Finish(d) \/ Abandon(d)
  PROVE  /\ DOMAIN delivery' = DOMAIN delivery
         /\ delivery' \in [DOMAIN delivery -> [status: Statuses, attempt: Nat]]
         /\ receipts \subseteq receipts' /\ receipts' \subseteq DOMAIN delivery
         /\ claim' \in [Dispatchers -> [event: DOMAIN delivery, attempt: Nat, answer: Answers]
                                        \cup {Nothing}]
         /\ faults' \in 0..MaxFaults
<1> USE WebhookAssumption DEF TypeOK
<1>1. CASE Claim(d)
  <2>1. PICK e \in DOMAIN delivery :
          /\ delivery' = [delivery EXCEPT ![e] = [status |-> "processing",
                                                  attempt |-> delivery[e].attempt + 1]]
          /\ claim' = [claim EXCEPT ![d] = [event |-> e, attempt |-> delivery[e].attempt + 1,
                                            answer |-> "none"]]
          /\ receipts' = receipts /\ faults' = faults
    BY <1>1 DEF Claim
  <2>2. delivery[e].attempt + 1 \in Nat
    OBVIOUS
  <2> QED BY <2>1, <2>2 DEF Statuses, Answers
<1>2. CASE Post(d)
  <2>1. claim[d] \in [event: DOMAIN delivery, attempt: Nat, answer: Answers]
    BY <1>2 DEF Post, Posting
  <2>2. PICK stored \in BOOLEAN, a \in Answers :
          /\ receipts' = IF stored THEN receipts \cup {claim[d].event} ELSE receipts
          /\ claim' = [claim EXCEPT ![d].answer = a]
          /\ delivery' = delivery /\ faults' = faults
    BY <1>2 DEF Post, Hears, Answers
  <2> QED BY <2>1, <2>2
<1>3. CASE Finish(d)
  <2>1. claim[d] \in [event: DOMAIN delivery, attempt: Nat, answer: Answers]
    BY <1>3 DEF Finish, Answered
  <2>2. Outcome(d) \in Statuses
    BY DEF Outcome, Statuses, Final
  <2>3. delivery' = delivery \/ delivery' = [delivery EXCEPT ![claim[d].event].status = Outcome(d)]
    BY <1>3 DEF Finish
  <2>4. receipts' = receipts /\ faults' = faults /\ claim' = [claim EXCEPT ![d] = Nothing]
    BY <1>3 DEF Finish
  <2> QED BY <2>1, <2>2, <2>3, <2>4
<1>4. CASE Abandon(d)
  BY <1>4 DEF Abandon
<1> QED BY <1>1, <1>2, <1>3, <1>4

\* Every step keeps the types.
LEMMA TypeNext == TypeOK /\ [Next]_vars => TypeOK'
<1> SUFFICES ASSUME TypeOK, [Next]_vars PROVE TypeOK'
  OBVIOUS
<1>1. /\ enabled' \in BOOLEAN /\ latest' \in 0..MaxBatch
      /\ snapshot' = Nothing \/ snapshot' \in [batch: Batches, todo: SUBSET Keys]
      /\ incident' \in [Keys -> Incidents \cup {Nothing}]
  BY IncidentTypes
<1>2. CASE Announcing
  BY <1>1, <1>2, QueueTypes DEF TypeOK
<1>3. CASE Dispatch
  <2>1. PICK d \in Dispatchers : Claim(d) \/ Post(d) \/ Finish(d) \/ Abandon(d)
    BY <1>3 DEF Dispatch
  <2> QED BY <1>1, <2>1, DispatchTypes DEF TypeOK
<1>4. CASE Quiet
  BY <1>1, <1>4 DEF Quiet, dispatch, TypeOK
<1> QED BY <1>2, <1>3, <1>4, StepKinds

\* Type correctness of incidents, queue, receipts and claims.
THEOREM TypeCorrect == Spec => []TypeOK
BY TypeInit, TypeNext, PTL DEF Spec
-----------------------------------------------------------------------------
(* Delivery.                                                               *)

\* The two facts about receipts, of the initial state.
LEMMA ReceivedInit == Init => Heard /\ DeliveredIsReceived
BY DEF Init, Heard, DeliveredIsReceived

\* A dispatcher's answer 200 goes with a receipt, and with it the mark.
LEMMA ReceivedNext ==
  TypeOK /\ Heard /\ DeliveredIsReceived /\ [Next]_vars => Heard' /\ DeliveredIsReceived'
<1> SUFFICES ASSUME TypeOK, Heard, DeliveredIsReceived, [Next]_vars
             PROVE  Heard' /\ DeliveredIsReceived'
  OBVIOUS
<1> USE DEF Heard, DeliveredIsReceived
<1>1. CASE Announcing
  BY <1>1, QueueTypes
<1>2. CASE Quiet
  BY <1>2 DEF Quiet, dispatch
<1>3. ASSUME NEW d \in Dispatchers, Claim(d) \/ Post(d) \/ Finish(d) \/ Abandon(d)
      PROVE  Heard' /\ DeliveredIsReceived'
  <2>0. /\ claim \in [Dispatchers -> [event: DOMAIN delivery, attempt: Nat, answer: Answers]
                                      \cup {Nothing}]
        /\ delivery \in [DOMAIN delivery -> [status: Statuses, attempt: Nat]]
        /\ receipts \subseteq receipts'
    BY <1>3, DispatchTypes DEF TypeOK
  <2>1. CASE Claim(d)
    <3>1. PICK e \in DOMAIN delivery :
            /\ delivery' = [delivery EXCEPT ![e] = [status |-> "processing",
                                                    attempt |-> delivery[e].attempt + 1]]
            /\ claim' = [claim EXCEPT ![d] = [event |-> e, attempt |-> delivery[e].attempt + 1,
                                              answer |-> "none"]]
            /\ receipts' = receipts
      BY <2>1 DEF Claim
    <3> QED BY <2>0, <3>1
  <2>2. CASE Post(d)
    <3>1. PICK stored \in BOOLEAN, a \in Answers :
            /\ a \in Hears(stored)
            /\ receipts' = IF stored THEN receipts \cup {claim[d].event} ELSE receipts
            /\ claim' = [claim EXCEPT ![d].answer = a]
            /\ delivery' = delivery
      BY <2>2 DEF Post, Hears, Answers
    <3>2. a = "accepted" => claim[d].event \in receipts'
      BY <3>1 DEF Hears
    <3> QED BY <2>0, <3>1, <3>2
  <2>3. CASE Finish(d)
    <3>1. claim[d] # Nothing /\ receipts' = receipts /\ claim' = [claim EXCEPT ![d] = Nothing]
      BY <2>3 DEF Finish, Answered
    <3>2. delivery' = delivery \/ delivery' = [delivery EXCEPT ![claim[d].event].status = Outcome(d)]
      BY <2>3 DEF Finish
    <3>3. Outcome(d) = "delivered" => claim[d].event \in receipts
      BY <3>1 DEF Outcome
    <3> QED BY <2>0, <3>1, <3>2, <3>3
  <2>4. CASE Abandon(d)
    BY <2>0, <2>4 DEF Abandon
  <2> QED BY <1>3, <2>1, <2>2, <2>3, <2>4
<1> QED BY <1>1, <1>2, <1>3, StepKinds DEF Dispatch

\* Whatever answers are lost and however many dispatchers overlap, an event
\* marked delivered was stored by the receiver.
THEOREM DeliveredWasReceived == Spec => []DeliveredIsReceived
<1>1. Init => TypeOK /\ Heard /\ DeliveredIsReceived
  BY TypeInit, ReceivedInit
<1>2. TypeOK /\ Heard /\ DeliveredIsReceived /\ [Next]_vars
        => (TypeOK /\ Heard /\ DeliveredIsReceived)'
  BY TypeNext, ReceivedNext
<1> QED BY <1>1, <1>2, PTL DEF Spec

\* No step changes the row of a delivered event or of a dead letter.
LEMMA FinalStep ==
  ASSUME TypeOK, [Next]_vars, NEW e \in DOMAIN delivery, delivery[e].status \in Final
  PROVE  e \in DOMAIN delivery' /\ delivery'[e] = delivery[e]
<1>1. CASE Announcing
  BY <1>1, QueueTypes
<1>2. CASE Quiet
  BY <1>2 DEF Quiet
<1>3. ASSUME NEW d \in Dispatchers, Claim(d) \/ Post(d) \/ Finish(d) \/ Abandon(d)
      PROVE  e \in DOMAIN delivery' /\ delivery'[e] = delivery[e]
  <2>1. CASE Claim(d)
    <3>1. PICK x \in DOMAIN delivery :
            Claimable(x) /\ \E row : delivery' = [delivery EXCEPT ![x] = row]
      BY <2>1 DEF Claim
    <3>2. x # e
      BY <3>1 DEF Claimable, Final
    <3> QED BY <3>1, <3>2
  <2>2. CASE Post(d) \/ Abandon(d)
    BY <2>2 DEF Post, Abandon
  <2>3. CASE Finish(d)
    <3>1. CASE Marks(claim[d].event)
      <4>1. claim[d].event # e
        BY <3>1 DEF Marks, Final
      <4>2. delivery' = [delivery EXCEPT ![claim[d].event].status = Outcome(d)]
        BY <2>3, <3>1 DEF Finish
      <4> QED BY <4>1, <4>2
    <3>2. CASE ~Marks(claim[d].event)
      BY <2>3, <3>2 DEF Finish
    <3> QED BY <3>1, <3>2
  <2> QED BY <1>3, <2>1, <2>2, <2>3
<1> QED BY <1>1, <1>2, <1>3, StepKinds DEF Dispatch

\* Delivered events are not sent again and dead letters are not replayed.
THEOREM FinalStays == Spec => FinalIsFinal
<1>1. TypeOK /\ [Next]_vars =>
        [\A e \in DOMAIN delivery : delivery[e].status \in Final =>
           e \in DOMAIN delivery' /\ delivery'[e] = delivery[e]]_vars
  BY FinalStep
<1> QED BY <1>1, TypeCorrect, PTL DEF Spec, FinalIsFinal
-----------------------------------------------------------------------------
(***************************************************************************)
(* The limit on attempts, for any number of dispatchers.  A claim is early *)
(* if it may still be retried, late if its number has reached the maximum. *)
(* A late claim is wasted when its answer finds the row in retry.  Only    *)
(* early claims put it there, none begins after the first late one, and    *)
(* with k dispatchers left that hold none, at most k are wasted by the     *)
(* next: a sum that AttemptsFit keeps without a history.                   *)
(***************************************************************************)
Early(e) == {d \in Dispatchers : claim[d] # Nothing /\ claim[d].event = e
                                 /\ claim[d].attempt < MaxAttempts}
Late(e)  == {d \in Dispatchers : claim[d] # Nothing /\ claim[d].event = e
                                 /\ claim[d].attempt >= MaxAttempts}

\* Dispatchers that hold no early claim of an event.
Others(e) == Cardinality(Dispatchers) - Cardinality(Early(e))

\* Twice the claims that can be wasted while k dispatchers become early ones
\* no more.
Pairs(k) == k * (k - 1)

\* What a row of status st and a attempts satisfies after f faults, when k of
\* n dispatchers hold no early claim of it and h a late one.  A late claim is
\* wasted when its answer finds the row in retry; only an early claim puts it
\* there, and these become fewer.
Fits(st, a, f, k, h, n) ==
  /\ st \in {"pending", "retry"} => 2 * a <= 2 * (MaxAttempts - 1 + f) + Pairs(k)
  /\ st = "processing" => 2 * a <= 2 * (MaxAttempts - 1 + f) + Pairs(k) + 2 * h
  /\ a <= MaxAttempts + f + n * (n - 1)

AttemptsFit == \A e \in DOMAIN delivery :
  Fits(delivery[e].status, delivery[e].attempt, faults,
       Others(e), Cardinality(Late(e)), Cardinality(Dispatchers))

\* Pairs are natural, and one more dispatcher adds k of them, twice.
LEMMA MorePairs ==
  ASSUME NEW k \in Nat
  PROVE  /\ Pairs(k) \in Nat /\ Pairs(k + 1) = Pairs(k) + 2 * k
         /\ k >= 1 => Pairs(k) = Pairs(k - 1) + 2 * (k - 1)
<1>1. CASE k = 0
  BY <1>1 DEF Pairs
<1>2. CASE k >= 1
  <2>1. k * (k - 1) \in Nat
    BY <1>2
  <2>2. (k + 1) * k = k * (k - 1) + 2 * k
    OBVIOUS
  <2>3. (k - 1) * (k - 2) + 2 * (k - 1) = k * (k - 1)
    OBVIOUS
  <2> QED BY <2>1, <2>2, <2>3 DEF Pairs
<1> QED BY <1>1, <1>2

\* However the dispatchers divide into early, late and idle ones, they stay
\* below the limit.
LEMMA PairsBounded ==
  ASSUME NEW n \in Nat, NEW k \in 0..n, NEW h \in 0..k
  PROVE  2 * h + Pairs(k) <= 2 * (n * (n - 1)) + 2
<1>1. CASE n = 0
  BY <1>1 DEF Pairs
<1>2. CASE n >= 1
  <2>1. k * (k - 1) <= n * (n - 1)
    OBVIOUS
  <2>2. 2 * (n - 1) <= n * (n - 1)  \/ n = 1
    BY <1>2
  <2>3. n = 1 => k * (k - 1) = 0
    OBVIOUS
  <2> QED BY <1>2, <2>1, <2>2, <2>3 DEF Pairs
<1> QED BY <1>1, <1>2

\* The numbers of early and late claims.
LEMMA Counts ==
  ASSUME NEW E, NEW H, E \subseteq Dispatchers, H \subseteq Dispatchers \ E
  PROVE  /\ IsFiniteSet(E) /\ IsFiniteSet(H)
         /\ Cardinality(Dispatchers) \in Nat /\ Cardinality(E) \in Nat /\ Cardinality(H) \in Nat
         /\ Cardinality(Dispatchers) - Cardinality(E) \in 0..Cardinality(Dispatchers)
         /\ Cardinality(H) <= Cardinality(Dispatchers) - Cardinality(E)
<1>1. IsFiniteSet(Dispatchers) /\ Dispatchers \cap E = E
  BY WebhookAssumption
<1>2. IsFiniteSet(E) /\ Cardinality(E) <= Cardinality(Dispatchers)
  BY <1>1, FS_Subset
<1>3. /\ IsFiniteSet(Dispatchers \ E)
      /\ Cardinality(Dispatchers \ E) = Cardinality(Dispatchers) - Cardinality(E)
  BY <1>1, FS_Difference
<1>4. IsFiniteSet(H) /\ Cardinality(H) <= Cardinality(Dispatchers \ E)
  BY <1>3, FS_Subset
<1>5. Cardinality(Dispatchers) \in Nat /\ Cardinality(E) \in Nat /\ Cardinality(H) \in Nat
  BY <1>1, <1>2, <1>4, FS_CardinalityType
<1> QED BY <1>2, <1>3, <1>4, <1>5

\* What becomes of the bound when a row is claimed, answered or abandoned.
LEMMA FitsClaim ==
  ASSUME NEW a \in Nat, NEW f \in Nat, NEW n \in Nat, NEW k \in 0..n, NEW h \in 0..k,
         NEW st \in {"pending", "retry", "processing"}, Fits(st, a, f, k, h, n)
  PROVE  /\ k >= 1 /\ a + 1 < MaxAttempts => Fits("processing", a + 1, f, k - 1, h, n)
         /\ h + 1 <= k => Fits("processing", a + 1, f, k, h + 1, n)
<1>1. MaxAttempts \in Nat /\ n * (n - 1) \in Nat
  <2>1. CASE n = 0
    BY <2>1, WebhookAssumption
  <2>2. CASE n >= 1
    BY <2>2, WebhookAssumption
  <2> QED BY <2>1, <2>2
<1>2. ASSUME k >= 1, a + 1 < MaxAttempts PROVE Fits("processing", a + 1, f, k - 1, h, n)
  <2>1. Pairs(k - 1) \in Nat
    BY <1>2, MorePairs
  <2> QED BY <1>1, <1>2, <2>1 DEF Fits
<1>3. ASSUME h + 1 <= k PROVE Fits("processing", a + 1, f, k, h + 1, n)
  <2>1. Pairs(k) \in Nat /\ h + 1 \in 0..k
    BY <1>3, MorePairs
  <2>2. 2 * (h + 1) + Pairs(k) <= 2 * (n * (n - 1)) + 2
    BY <2>1, PairsBounded
  <2>3. 2 * a <= 2 * (MaxAttempts - 1 + f) + Pairs(k) + 2 * h
    BY <1>1, <2>1 DEF Fits
  <2> DEFINE m == n * (n - 1)
  <2> HIDE DEF m
  <2>4. a + 1 <= MaxAttempts + f + m
    BY <1>1, <2>1, <2>2, <2>3 DEF m
  <2> QED BY <1>1, <2>1, <2>3, <2>4 DEF Fits, m
<1> QED BY <1>2, <1>3

\* A final row fits whatever the claims; one put in retry by an early claim
\* loses that claim; one that is not in processing ignores the answer.
LEMMA FitsAnswer ==
  ASSUME NEW a \in Nat, NEW f \in Nat, NEW n \in Nat, NEW k \in 0..n, NEW h \in 0..k,
         NEW st, Fits(st, a, f, k, h, n)
  PROVE  /\ \A t \in Final : \A i, j : Fits(t, a, f, i, j, n)
         /\ st = "processing" => Fits("retry", a, f, k + 1, h, n)
         /\ st # "processing" => \A j : Fits(st, a, f, k, j, n) /\ Fits(st, a, f, k + 1, j, n)
<1>1. Pairs(k) \in Nat /\ Pairs(k + 1) = Pairs(k) + 2 * k /\ MaxAttempts \in Nat
  BY MorePairs, WebhookAssumption
<1> DEFINE m == n * (n - 1)
<1>2. a <= MaxAttempts + f + m
  BY DEF Fits
<1> HIDE DEF m
<1>3. \A t \in Final : \A i, j : Fits(t, a, f, i, j, n)
  BY <1>2 DEF Fits, Final, m
<1>4. ASSUME st = "processing" PROVE Fits("retry", a, f, k + 1, h, n)
  BY <1>1, <1>2, <1>4 DEF Fits, m
<1>5. ASSUME st # "processing", NEW j PROVE Fits(st, a, f, k, j, n) /\ Fits(st, a, f, k + 1, j, n)
  BY <1>1, <1>2, <1>5 DEF Fits, m
<1> QED BY <1>3, <1>4, <1>5

\* A fault pays for the claim it abandons, early or late.
LEMMA FitsFault ==
  ASSUME NEW a \in Nat, NEW f \in Nat, NEW n \in Nat, NEW k \in 0..n, NEW h \in 0..k,
         NEW st, Fits(st, a, f, k, h, n)
  PROVE  /\ Fits(st, a, f + 1, k, h, n) /\ Fits(st, a, f + 1, k + 1, h, n)
         /\ Fits(st, a, f + 1, k, h - 1, n)
<1>1. Pairs(k) \in Nat /\ Pairs(k + 1) = Pairs(k) + 2 * k /\ MaxAttempts \in Nat
  BY MorePairs, WebhookAssumption
<1>2. n * (n - 1) \in Int
  OBVIOUS
<1> DEFINE m == n * (n - 1)
<1>3. a <= MaxAttempts + f + m
  BY DEF Fits
<1> HIDE DEF m
<1> QED BY <1>1, <1>2, <1>3 DEF Fits, m

\* A dispatcher that takes, or gives up, its claim changes nobody else's.
LEMMA ClaimsChange ==
  ASSUME TypeOK, NEW d \in Dispatchers, NEW r, claim' = [claim EXCEPT ![d] = r], NEW e
  PROVE  /\ Early(e)' = IF r # Nothing /\ r.event = e /\ r.attempt < MaxAttempts
                        THEN Early(e) \cup {d} ELSE Early(e) \ {d}
         /\ Late(e)'  = IF r # Nothing /\ r.event = e /\ r.attempt >= MaxAttempts
                        THEN Late(e) \cup {d} ELSE Late(e) \ {d}
         /\ d \in Early(e) => claim[d] # Nothing /\ claim[d].event = e
         /\ d \in Late(e) => claim[d] # Nothing /\ claim[d].event = e
  BY DEF TypeOK, Early, Late

\* A claim is not both early and late.
LEMMA ClaimsApart ==
  ASSUME TypeOK, NEW e
  PROVE  Early(e) \subseteq Dispatchers /\ Late(e) \subseteq Dispatchers \ Early(e)
<1>1. \A d \in Dispatchers : claim[d] # Nothing => claim[d].attempt \in Nat
  BY DEF TypeOK
<1> QED BY <1>1, WebhookAssumption DEF Early, Late

\* A claim's number is one.
LEMMA ClaimNumber ==
  ASSUME TypeOK, NEW d \in Dispatchers, claim[d] # Nothing
  PROVE  claim[d].attempt \in Nat /\ MaxAttempts \in Nat
  BY WebhookAssumption DEF TypeOK

\* A claim is one more attempt, early or late.
LEMMA ClaimFits ==
  ASSUME TypeOK, TypeOK', AttemptsFit, NEW d \in Dispatchers, Claim(d)
  PROVE  AttemptsFit'
<1>1. PICK x \in DOMAIN delivery :
        /\ claim[d] = Nothing /\ Claimable(x) /\ faults' = faults
        /\ delivery' = [delivery EXCEPT ![x] = [status |-> "processing",
                                                attempt |-> delivery[x].attempt + 1]]
        /\ claim' = [claim EXCEPT ![d] = [event |-> x, attempt |-> delivery[x].attempt + 1,
                                          answer |-> "none"]]
  BY DEF Claim
<1> DEFINE a == delivery[x].attempt
           r == [event |-> x, attempt |-> a + 1, answer |-> "none"]
<1>2. /\ a \in Nat /\ delivery[x].status \in {"pending", "retry", "processing"}
      /\ r \in Claims /\ r # Nothing /\ r.event = x /\ r.attempt = a + 1 /\ faults \in Nat
  BY <1>1, WebhookAssumption DEF TypeOK, Claimable, Claims, Answers
<1>3. MaxAttempts \in Nat /\ claim' = [claim EXCEPT ![d] = r]
  BY <1>1, WebhookAssumption
<1> HIDE DEF r
<1> SUFFICES ASSUME NEW e \in DOMAIN delivery
             PROVE  Fits(delivery'[e].status, delivery'[e].attempt, faults',
                         Others(e)', Cardinality(Late(e)'), Cardinality(Dispatchers))
  BY <1>1 DEF AttemptsFit
<1> DEFINE n == Cardinality(Dispatchers)
           k == Others(e)
           h == Cardinality(Late(e))
<1>4. Early(e) \subseteq Dispatchers /\ Late(e) \subseteq Dispatchers \ Early(e)
  BY ClaimsApart
<1>5. /\ d \notin Early(e) /\ d \notin Late(e)
      /\ Early(e)' = IF x = e /\ a + 1 < MaxAttempts THEN Early(e) \cup {d} ELSE Early(e)
      /\ Late(e)' = IF x = e /\ a + 1 >= MaxAttempts THEN Late(e) \cup {d} ELSE Late(e)
  <2>1. d \notin Early(e) /\ d \notin Late(e)
    BY <1>1 DEF Early, Late
  <2>2. /\ Early(e)' = IF r # Nothing /\ r.event = e /\ r.attempt < MaxAttempts
                       THEN Early(e) \cup {d} ELSE Early(e) \ {d}
        /\ Late(e)'  = IF r # Nothing /\ r.event = e /\ r.attempt >= MaxAttempts
                       THEN Late(e) \cup {d} ELSE Late(e) \ {d}
    BY <1>3, ClaimsChange
  <2> QED BY <1>2, <2>1, <2>2
<1>6. /\ IsFiniteSet(Early(e)) /\ IsFiniteSet(Late(e))
      /\ n \in Nat /\ k \in 0..n /\ h \in 0..k /\ Cardinality(Early(e)) \in Nat
      /\ k = n - Cardinality(Early(e))
  BY <1>4, Counts DEF Others
<1>7. Fits(delivery[e].status, delivery[e].attempt, faults, k, h, n)
  BY DEF AttemptsFit
<1>8. CASE x # e
  <2>1. Early(e)' = Early(e) /\ Late(e)' = Late(e) /\ delivery'[e] = delivery[e]
    BY <1>1, <1>5, <1>8 DEF TypeOK
  <2>2. Others(e)' = k
    BY <2>1 DEF Others
  <2> QED BY <1>1, <1>7, <2>1, <2>2
<1>9. CASE x = e /\ a + 1 < MaxAttempts
  <2>1. Late(e)' = Late(e) /\ Early(e)' = Early(e) \cup {d}
    BY <1>2, <1>3, <1>5, <1>9
  <2>2. Cardinality(Early(e)') = Cardinality(Early(e)) + 1
    BY <1>5, <1>6, <2>1, FS_AddElement
  <2>3. n - Cardinality(Early(e)') \in 0..n
    BY <1>4, <2>1, Counts
  <2>4. Others(e)' = k - 1 /\ k >= 1
    BY <1>6, <2>2, <2>3 DEF Others
  <2>5. Fits("processing", a + 1, faults, k - 1, h, n)
    BY <1>2, <1>6, <1>7, <1>9, <2>4, FitsClaim
  <2>6. delivery'[e].status = "processing" /\ delivery'[e].attempt = a + 1
    BY <1>1, <1>9 DEF TypeOK
  <2> QED BY <1>1, <2>1, <2>4, <2>5, <2>6
<1>10. CASE x = e /\ a + 1 >= MaxAttempts
  <2>1. Early(e)' = Early(e) /\ Late(e)' = Late(e) \cup {d}
    BY <1>2, <1>3, <1>5, <1>10
  <2>2. Cardinality(Late(e)') = h + 1
    BY <1>5, <1>6, <2>1, FS_AddElement
  <2>3. Cardinality(Late(e)') <= k
    BY <1>4, <1>5, <2>1, Counts DEF Others
  <2>4. Others(e)' = k
    BY <2>1 DEF Others
  <2>5. Fits("processing", a + 1, faults, k, h + 1, n)
    BY <1>2, <1>6, <1>7, <1>10, <2>2, <2>3, FitsClaim
  <2>6. delivery'[e].status = "processing" /\ delivery'[e].attempt = a + 1
    BY <1>1, <1>10 DEF TypeOK
  <2> QED BY <1>1, <2>2, <2>4, <2>5, <2>6
<1> QED BY <1>2, <1>3, <1>8, <1>9, <1>10

\* An answer heard counts for nothing yet.
LEMMA PostFits ==
  ASSUME TypeOK, AttemptsFit, NEW d \in Dispatchers, Post(d)
  PROVE  AttemptsFit'
<1>1. PICK ans \in Answers : /\ claim[d] # Nothing /\ delivery' = delivery /\ faults' = faults
                           /\ claim' = [claim EXCEPT ![d].answer = ans]
  BY DEF Post, Posting, Hears, Answers
<1>2. \A c \in Dispatchers : /\ claim'[c] # Nothing <=> claim[c] # Nothing
                             /\ claim[c] # Nothing => /\ claim'[c].event = claim[c].event
                                                      /\ claim'[c].attempt = claim[c].attempt
  <2>1. claim[d] \in Claims
    BY <1>1 DEF TypeOK, Claims
  <2>2. /\ claim'[d] = [claim[d] EXCEPT !.answer = ans]
        /\ \A c \in Dispatchers \ {d} : claim'[c] = claim[c]
    BY <1>1 DEF TypeOK
  <2>3. /\ claim'[d] \in Claims
        /\ claim'[d].event = claim[d].event /\ claim'[d].attempt = claim[d].attempt
    BY <2>1, <2>2 DEF Claims
  <2>4. claim'[d] # Nothing
    BY <2>3, WebhookAssumption
  <2> QED BY <1>1, <2>2, <2>3, <2>4
<1>3. \A e : Early(e)' = Early(e) /\ Late(e)' = Late(e)
  BY <1>2 DEF Early, Late
<1> QED BY <1>1, <1>3 DEF AttemptsFit, Others

\* A claim that ends, with the row as it is or marked.
LEMMA GiveUpCounts ==
  ASSUME TypeOK, NEW d \in Dispatchers, claim[d] # Nothing, claim' = [claim EXCEPT ![d] = Nothing],
         NEW e
  PROVE  LET n == Cardinality(Dispatchers)
             k == Others(e)
             h == Cardinality(Late(e))
         IN  /\ n \in Nat /\ k \in 0..n /\ h \in 0..k
             /\ claim[d].event # e => Others(e)' = k /\ Late(e)' = Late(e)
             /\ claim[d].event = e /\ claim[d].attempt < MaxAttempts
                  => Others(e)' = k + 1 /\ Late(e)' = Late(e)
             /\ claim[d].event = e /\ claim[d].attempt >= MaxAttempts
                  => Others(e)' = k /\ Cardinality(Late(e)') = h - 1
<1> DEFINE n == Cardinality(Dispatchers)
           k == Others(e)
           h == Cardinality(Late(e))
<1>1. Early(e)' = Early(e) \ {d} /\ Late(e)' = Late(e) \ {d}
  BY ClaimsChange
<1>2. Early(e) \subseteq Dispatchers /\ Late(e) \subseteq Dispatchers \ Early(e)
  BY ClaimsApart
<1>3. /\ IsFiniteSet(Early(e)) /\ IsFiniteSet(Late(e))
      /\ n \in Nat /\ k \in 0..n /\ h \in 0..k /\ Cardinality(Early(e)) \in Nat
      /\ k = n - Cardinality(Early(e)) /\ Others(e)' = n - Cardinality(Early(e)')
  <2>1. k = n - Cardinality(Early(e)) /\ Others(e)' = n - Cardinality(Early(e)')
    BY DEF Others
  <2>2. /\ IsFiniteSet(Early(e)) /\ IsFiniteSet(Late(e))
        /\ n \in Nat /\ n - Cardinality(Early(e)) \in 0..n
        /\ h \in Nat /\ h <= n - Cardinality(Early(e)) /\ Cardinality(Early(e)) \in Nat
    BY <1>2, Counts
  <2> QED BY <2>1, <2>2
<1>4. CASE claim[d].event # e
  <2>1. d \notin Early(e) /\ d \notin Late(e)
    BY <1>4 DEF Early, Late
  <2>2. Early(e)' = Early(e) /\ Late(e)' = Late(e)
    BY <1>1, <2>1
  <2> QED BY <1>3, <1>4, <2>2
<1>5. CASE claim[d].event = e /\ claim[d].attempt < MaxAttempts
  <2>1. d \in Early(e) /\ d \notin Late(e)
    BY <1>2, <1>5 DEF Early
  <2>2. Cardinality(Early(e) \ {d}) = Cardinality(Early(e)) - 1
    BY <1>3, <2>1, FS_RemoveElement
  <2>3. Late(e)' = Late(e) /\ Others(e)' = k + 1
    BY <1>1, <1>3, <2>1, <2>2
  <2> QED BY <1>3, <1>5, <2>3, ClaimNumber
<1>6. CASE claim[d].event = e /\ claim[d].attempt >= MaxAttempts
  <2>1. d \in Late(e) /\ d \notin Early(e)
    BY <1>2, <1>6 DEF Late
  <2>2. Cardinality(Late(e) \ {d}) = h - 1
    BY <1>3, <2>1, FS_RemoveElement
  <2>3. Early(e)' = Early(e) /\ Cardinality(Late(e)') = h - 1
    BY <1>1, <2>1, <2>2
  <2>4. Others(e)' = k
    BY <1>3, <2>3
  <2> HIDE DEF n, k, h
  <2> QED BY <1>3, <1>6, <2>3, <2>4, ClaimNumber DEF n, k, h
<1> QED BY <1>3, <1>4, <1>5, <1>6, ClaimNumber

\* An answer is recorded, or lost.
LEMMA FinishFits ==
  ASSUME TypeOK, AttemptsFit, NEW d \in Dispatchers, Finish(d)
  PROVE  AttemptsFit'
<1> DEFINE x == claim[d].event
           n == Cardinality(Dispatchers)
<1>1. /\ claim[d] # Nothing /\ claim' = [claim EXCEPT ![d] = Nothing] /\ faults' = faults
      /\ Marks(x) => delivery' = [delivery EXCEPT ![x].status = Outcome(d)]
      /\ ~Marks(x) => delivery' = delivery
  BY DEF Finish, Answered
<1>2. x \in DOMAIN delivery /\ claim[d].attempt \in Nat /\ MaxAttempts \in Nat /\ faults \in Nat
  BY <1>1, WebhookAssumption DEF TypeOK
<1>3. DOMAIN delivery' = DOMAIN delivery
  BY <1>1
<1> SUFFICES ASSUME NEW e \in DOMAIN delivery
             PROVE  Fits(delivery'[e].status, delivery'[e].attempt, faults,
                         Others(e)', Cardinality(Late(e)'), n)
  BY <1>1, <1>3 DEF AttemptsFit
<1> DEFINE k == Others(e)
           h == Cardinality(Late(e))
           a == delivery[e].attempt
           st == delivery[e].status
<1>4. /\ n \in Nat /\ k \in 0..n /\ h \in 0..k
      /\ x # e => Others(e)' = k /\ Late(e)' = Late(e)
      /\ x = e /\ claim[d].attempt < MaxAttempts => Others(e)' = k + 1 /\ Late(e)' = Late(e)
      /\ x = e /\ claim[d].attempt >= MaxAttempts
           => Others(e)' = k /\ Cardinality(Late(e)') = h - 1
  BY <1>1, GiveUpCounts
<1>5. Fits(st, a, faults, k, h, n) /\ a \in Nat /\ delivery[e] \in [status: Statuses, attempt: Nat]
  BY DEF AttemptsFit, TypeOK
<1>6. /\ \A t \in Final : \A i, j : Fits(t, a, faults, i, j, n)
      /\ st = "processing" => Fits("retry", a, faults, k + 1, h, n)
      /\ st # "processing" => \A j : Fits(st, a, faults, k, j, n) /\ Fits(st, a, faults, k + 1, j, n)
  BY <1>2, <1>4, <1>5, FitsAnswer
<1>7. CASE x # e
  <2>1. delivery'[e] = delivery[e]
    BY <1>1, <1>7
  <2> QED BY <1>4, <1>5, <1>7, <2>1
<1>8. CASE x = e /\ ~Marks(e)
  <2>1. delivery'[e] = delivery[e] /\ st # "processing"
    BY <1>1, <1>8 DEF Marks
  <2> QED BY <1>2, <1>4, <1>6, <1>8, <2>1
<1>9. CASE x = e /\ Marks(e)
  <2>1. delivery'[e].status = Outcome(d) /\ delivery'[e].attempt = a /\ st = "processing"
    BY <1>1, <1>5, <1>9 DEF Marks
  <2>2. CASE Outcome(d) = "retry"
    <3>1. claim[d].attempt < MaxAttempts
      BY <2>2 DEF Outcome
    <3> QED BY <1>4, <1>6, <1>9, <2>1, <2>2, <3>1
  <2>3. CASE Outcome(d) # "retry"
    <3>1. Outcome(d) \in Final
      BY <2>3 DEF Outcome, Final
    <3> QED BY <1>6, <2>1, <3>1
  <2> QED BY <2>2, <2>3
<1> QED BY <1>7, <1>8, <1>9

\* A claim is abandoned.
LEMMA AbandonFits ==
  ASSUME TypeOK, AttemptsFit, NEW d \in Dispatchers, Abandon(d)
  PROVE  AttemptsFit'
<1> DEFINE x == claim[d].event
           n == Cardinality(Dispatchers)
<1>1. /\ claim[d] # Nothing /\ claim' = [claim EXCEPT ![d] = Nothing] /\ faults' = faults + 1
      /\ delivery' = delivery
  BY DEF Abandon
<1>2. claim[d].attempt \in Nat /\ MaxAttempts \in Nat /\ faults \in Nat
  BY <1>1, WebhookAssumption DEF TypeOK
<1> SUFFICES ASSUME NEW e \in DOMAIN delivery
             PROVE  Fits(delivery[e].status, delivery[e].attempt, faults + 1,
                         Others(e)', Cardinality(Late(e)'), n)
  BY <1>1 DEF AttemptsFit
<1> DEFINE k == Others(e)
           h == Cardinality(Late(e))
           a == delivery[e].attempt
           st == delivery[e].status
<1>3. /\ n \in Nat /\ k \in 0..n /\ h \in 0..k
      /\ x # e => Others(e)' = k /\ Late(e)' = Late(e)
      /\ x = e /\ claim[d].attempt < MaxAttempts => Others(e)' = k + 1 /\ Late(e)' = Late(e)
      /\ x = e /\ claim[d].attempt >= MaxAttempts
           => Others(e)' = k /\ Cardinality(Late(e)') = h - 1
  BY <1>1, GiveUpCounts
<1>4. Fits(st, a, faults, k, h, n) /\ a \in Nat
  BY DEF AttemptsFit, TypeOK
<1>5. /\ Fits(st, a, faults + 1, k, h, n) /\ Fits(st, a, faults + 1, k + 1, h, n)
      /\ Fits(st, a, faults + 1, k, h - 1, n)
  BY <1>2, <1>3, <1>4, FitsFault
<1> QED BY <1>2, <1>3, <1>5

\* A new row has no attempts.
LEMMA AnnouncingFits == ASSUME TypeOK, AttemptsFit, Announcing PROVE AttemptsFit'
<1>1. /\ DOMAIN delivery \subseteq DOMAIN delivery' /\ claim' = claim /\ faults' = faults
      /\ \A e \in DOMAIN delivery : delivery'[e] = delivery[e]
      /\ \A e \in DOMAIN delivery' : \/ e \in DOMAIN delivery
                                     \/ delivery'[e].status = "pending" /\ delivery'[e].attempt = 0
  BY QueueTypes
<1>2. \A e : Early(e)' = Early(e) /\ Late(e)' = Late(e) /\ Others(e)' = Others(e)
  BY <1>1 DEF Early, Late, Others
<1>3. ASSUME NEW e
      PROVE  Fits("pending", 0, faults, Others(e), Cardinality(Late(e)), Cardinality(Dispatchers))
  <2> DEFINE n == Cardinality(Dispatchers)
             k == Others(e)
  <2>1. n \in Nat /\ k \in 0..n
    BY ClaimsApart, Counts DEF Others
  <2>2. Pairs(k) \in Nat /\ Pairs(n) \in Nat
    BY <2>1, MorePairs
  <2>3. MaxAttempts \in Nat /\ MaxAttempts >= 1 /\ faults \in Nat
    BY WebhookAssumption DEF TypeOK
  <2> HIDE DEF n, k
  <2> QED BY <2>1, <2>2, <2>3 DEF Fits, Pairs, n, k
<1> QED BY <1>1, <1>2, <1>3 DEF AttemptsFit

\* No claim is answered more often than the limit allows, but for abandoned
\* and overlapping ones, for any number of dispatchers.
THEOREM AttemptsLimited == Spec => []AttemptsBounded
<1>1. Init => TypeOK /\ AttemptsFit
  BY TypeInit DEF Init, AttemptsFit
<1>2. TypeOK /\ AttemptsFit /\ [Next]_vars => (TypeOK /\ AttemptsFit)'
  <2> SUFFICES ASSUME TypeOK, AttemptsFit, [Next]_vars PROVE (TypeOK /\ AttemptsFit)'
    OBVIOUS
  <2>1. TypeOK'
    BY TypeNext
  <2>2. CASE Announcing
    BY <2>1, <2>2, AnnouncingFits
  <2>3. CASE Dispatch
    BY <2>1, <2>3, ClaimFits, PostFits, FinishFits, AbandonFits DEF Dispatch
  <2>4. CASE Quiet
    BY <2>1, <2>4 DEF Quiet, dispatch, AttemptsFit, Others, Early, Late
  <2> QED BY <2>2, <2>3, <2>4, StepKinds
<1>3. AttemptsFit => AttemptsBounded
  BY DEF AttemptsFit, AttemptsBounded, Fits
<1> QED BY <1>1, <1>2, <1>3, PTL DEF Spec
-----------------------------------------------------------------------------
(* The queue tells the incident's history.                                 *)

TellsAt(k) == Told(k, "opened") = Told(k, "resolved") + (IF Active(k) THEN 1 ELSE 0)

\* A new event is counted once, an old one not again.
LEMMA ToldAdds ==
  ASSUME TypeOK, QueueFinite, NEW e, Queue(e), NEW k, NEW type
  PROVE  /\ Told(k, type) \in Nat
         /\ Told(k, type)' = Told(k, type)
              + (IF e \notin DOMAIN delivery /\ e.key = k /\ e.type = type THEN 1 ELSE 0)
         /\ QueueFinite'
<1> DEFINE S == {x \in DOMAIN delivery : x.key = k /\ x.type = type}
           T == {x \in DOMAIN delivery' : x.key = k /\ x.type = type}
<1>1. DOMAIN delivery' = DOMAIN delivery \cup {e}
  BY QueueAdds
<1>2. IsFiniteSet(S) /\ Cardinality(S) \in Nat
  BY FS_Subset, FS_CardinalityType DEF QueueFinite
<1>3. QueueFinite'
  BY <1>1, FS_AddElement DEF QueueFinite
<1>4. CASE e \notin DOMAIN delivery /\ e.key = k /\ e.type = type
  <2>1. T = S \cup {e} /\ e \notin S
    BY <1>1, <1>4
  <2>2. Cardinality(T) = Cardinality(S) + 1
    BY <1>2, <2>1, FS_AddElement
  <2> QED BY <1>2, <1>3, <1>4, <2>2 DEF Told
<1>5. CASE ~(e \notin DOMAIN delivery /\ e.key = k /\ e.type = type)
  <2>1. T = S
    BY <1>1, <1>5
  <2>2. Cardinality(T) = Cardinality(S)
    BY <2>1, Zenon
  <2>3. Told(k, type)' = Told(k, type) /\ Told(k, type) \in Nat
    BY <1>2, <2>2, Zenon DEF Told
  <2> QED BY <1>3, <1>5, <2>3
<1> QED BY <1>4, <1>5

\* The same events and the same incident: the same history.
LEMMA ToldKept ==
  ASSUME DOMAIN delivery' = DOMAIN delivery, NEW k
  PROVE  \A type : Told(k, type)' = Told(k, type)
BY DEF Told

\* Applying a series takes it off the snapshot, whose batch stays.
LEMMA SnapshotKept ==
  ASSUME TypeOK, NEW k \in Keys, Applying(k), Applied(k)
  PROVE  snapshot' # Nothing => snapshot'.batch = snapshot.batch
<1>1. snapshot \in [batch: Batches, todo: SUBSET Keys]
  BY DEF TypeOK, Applying
<1> QED BY <1>1 DEF Applied

\* What happens to incident k does not concern the others.
LEMMA OthersKept ==
  ASSUME TypeOK, QueueFinite, NEW k \in Keys, NEW j \in Keys \ {k}, OrderedAt(j), TellsAt(j),
         Applying(k), Applied(k), latest' = latest, incident'[j] = incident[j],
         NEW type, Announce(k, type) \/ UNCHANGED delivery
  PROVE  OrderedAt(j)' /\ TellsAt(j)'
<1> DEFINE e == EventId(k, type, snapshot.batch)
<1>0. (snapshot' # Nothing => snapshot'.batch = snapshot.batch) /\ snapshot # Nothing
  BY SnapshotKept DEF Applying
<1>1. e.key # j
  BY DEF EventId
<1>2. CASE Announce(k, type)
  <2>1. Queue(e)
    BY <1>2 DEF Announce
  <2>2. DOMAIN delivery' = DOMAIN delivery \cup {e}
    BY <2>1, QueueAdds
  <2>3. \A t : Told(j, t)' = Told(j, t)
    <3> TAKE t
    <3>1. Told(j, t) \in Nat /\ Told(j, t)' = Told(j, t) + 0
      BY <2>1, <1>1, ToldAdds
    <3> QED BY <3>1
  <2>4. OrderedAt(j)'
    BY <1>1, <1>0, <2>2 DEF OrderedAt
  <2> QED BY <2>3, <2>4 DEF TellsAt, Active
<1>3. CASE UNCHANGED delivery
  <2>1. OrderedAt(j)'
    BY <1>0, <1>3 DEF OrderedAt
  <2>2. DOMAIN delivery' = DOMAIN delivery
    BY <1>3
  <2>3. \A t : Told(j, t)' = Told(j, t)
    BY <2>2, ToldKept
  <2> QED BY <2>1, <2>3 DEF TellsAt, Active
<1> QED BY <1>2, <1>3

\* A transition of incident k: the events it may announce are new.
LEMMA TransitionHistory ==
  ASSUME TypeOK, QueueFinite, SnapshotStored, NEW k \in Keys, OrderedAt(k), TellsAt(k),
         Open(k, "critical") \/ Open(k, "warning")
         \/ Continue(k, "critical") \/ Continue(k, "warning") \/ Recover(k)
  PROVE  OrderedAt(k)' /\ TellsAt(k)'
<1> DEFINE b == snapshot.batch
<1> USE WebhookAssumption
<1>1. Applying(k) /\ Applied(k) /\ latest' = latest
  BY DEF Open, Continue, Recover, Record
<1>2. snapshot \in [batch: Batches, todo: SUBSET Keys] /\ b <= latest
  BY <1>1 DEF TypeOK, Applying, SnapshotStored
<1>3. b \in Int /\ latest \in Int /\ (incident[k] # Nothing => incident[k].last \in Int)
  BY <1>2 DEF TypeOK, Batches, Incidents
<1>4. snapshot' # Nothing => snapshot'.batch = b
  BY <1>1, SnapshotKept
<1>5. \A e \in DOMAIN delivery : e.batch \in Int
  BY DEF TypeOK, Events, Batches
<1>6. ASSUME NEW v \in Anomalies, Open(k, v) PROVE OrderedAt(k)' /\ TellsAt(k)'
  <2> DEFINE e == EventId(k, "opened", b)
  <2>1. incident'[k] = [status |-> "active", severity |-> v, last |-> b, streak |-> 0]
    BY <1>6 DEF Open, Record, TypeOK
  <2>2. incident'[k] \in Incidents /\ Active(k)' /\ ~Active(k)
    BY <1>2, <1>6, <2>1 DEF Incidents, Active, Open
  <2>3. e \notin DOMAIN delivery /\ \A x \in DOMAIN delivery : x.key = k => x.batch <= b
    <3>1. CASE incident[k] = Nothing
      BY <3>1 DEF OrderedAt, EventId
    <3>2. CASE incident[k] # Nothing
      <4>1. incident[k].status = "resolved" /\ incident[k].last <= b
        BY <1>1, <2>2, <3>2 DEF Active, TypeOK, Incidents, OrderedAt, Applying
      <4>2. \A x \in DOMAIN delivery : x.key = k => x.batch <= b
        BY <1>3, <1>5, <3>2, <4>1 DEF OrderedAt
      <4>3. \A x \in DOMAIN delivery : x.key = k /\ x.type = "opened" => x.batch < b
        BY <1>3, <1>5, <3>2, <4>1 DEF OrderedAt
      <4> QED BY <1>3, <4>2, <4>3 DEF EventId
    <3> QED BY <3>1, <3>2
  <2>4. Queue(e)
    BY <1>6 DEF Open, Announce
  <2>5. DOMAIN delivery' = DOMAIN delivery \cup {e}
    BY <2>4, QueueAdds
  <2>6. OrderedAt(k)'
    <3>1. e.batch <= b
      BY <1>3 DEF EventId
    <3> QED BY <1>1, <1>2, <1>3, <1>4, <2>1, <2>2, <2>3, <2>5, <3>1 DEF OrderedAt
  <2>7. e.key = k /\ e.type = "opened"
    BY DEF EventId
  <2>8. Told(k, "opened") \in Nat /\ Told(k, "opened")' = Told(k, "opened") + 1
    BY <2>3, <2>4, <2>7, ToldAdds
  <2>9. Told(k, "resolved") \in Nat /\ Told(k, "resolved")' = Told(k, "resolved") + 0
    BY <2>4, <2>7, ToldAdds
  <2> QED BY <2>2, <2>6, <2>8, <2>9 DEF TellsAt
<1>7. Active(k) /\ ~Seen(k) =>
        /\ incident[k] # Nothing /\ incident[k].last < b
        /\ \A x \in DOMAIN delivery : x.key = k => x.batch < b
  <2> SUFFICES ASSUME Active(k), ~Seen(k)
               PROVE  /\ incident[k] # Nothing /\ incident[k].last < b
                      /\ \A x \in DOMAIN delivery : x.key = k => x.batch < b
    OBVIOUS
  <2>1. incident[k] # Nothing /\ incident[k].last <= b /\ incident[k].last # b
    BY <1>1 DEF Active, Seen, OrderedAt, Applying
  <2> QED BY <1>3, <1>5, <2>1 DEF OrderedAt
<1>8. ASSUME NEW v \in Anomalies, Continue(k, v) PROVE OrderedAt(k)' /\ TellsAt(k)'
  <2>1. incident'[k] = [status |-> "active", severity |-> v, last |-> b, streak |-> 0]
    BY <1>8 DEF Continue, Record, TypeOK
  <2>2. incident'[k] \in Incidents /\ Active(k)' /\ Active(k)
    BY <1>2, <1>8, <2>1 DEF Incidents, Active, Continue
  <2>3. \A x \in DOMAIN delivery : x.key = k => x.batch < b
    BY <1>7, <1>8 DEF Continue
  <2>4. CASE Announce(k, "updated")
    <3> DEFINE e == EventId(k, "updated", b)
    <3>1. Queue(e) /\ e.key = k /\ e.type = "updated" /\ e.batch = b
      BY <2>4 DEF Announce, EventId
    <3>2. DOMAIN delivery' = DOMAIN delivery \cup {e}
      BY <3>1, QueueAdds
    <3>3. Told(k, "opened") \in Nat /\ Told(k, "opened")' = Told(k, "opened") + 0
      BY <3>1, ToldAdds
    <3>4. Told(k, "resolved") \in Nat /\ Told(k, "resolved")' = Told(k, "resolved") + 0
      BY <3>1, ToldAdds
    <3>5. OrderedAt(k)'
      BY <1>1, <1>2, <1>3, <1>4, <1>5, <2>1, <2>2, <2>3, <3>1, <3>2 DEF OrderedAt
    <3> QED BY <2>2, <3>3, <3>4, <3>5 DEF TellsAt
  <2>5. CASE UNCHANGED delivery
    <3>1. OrderedAt(k)'
      BY <1>1, <1>2, <1>3, <1>4, <1>5, <2>1, <2>2, <2>3, <2>5 DEF OrderedAt
    <3> QED BY <2>2, <2>5, <3>1, ToldKept DEF TellsAt
  <2> QED BY <1>8, <2>4, <2>5 DEF Continue
<1>9. CASE Recover(k)
  <2>1. \A x \in DOMAIN delivery : x.key = k => x.batch < b
    BY <1>7, <1>9 DEF Recover
  <2>2. Active(k)
    BY <1>9 DEF Recover
  <2>3. CASE Recovers(incident[k].streak)
    <3> DEFINE e == EventId(k, "resolved", b)
    <3>1. Queue(e) /\ e.key = k /\ e.type = "resolved" /\ e.batch = b
      BY <1>9, <2>3 DEF Recover, Announce, EventId
    <3>2. DOMAIN delivery' = DOMAIN delivery \cup {e} /\ e \notin DOMAIN delivery
      <4>1. e \notin DOMAIN delivery
        BY <1>3, <2>1, <3>1
      <4>2. DOMAIN delivery' = DOMAIN delivery \cup {e}
        BY <3>1, QueueAdds
      <4> QED BY <4>1, <4>2
    <3>3. incident'[k] = [status |-> "resolved", severity |-> "healthy", last |-> b, streak |-> 0]
      BY <1>9, <2>3 DEF Recover, Record, TypeOK
    <3>4. incident'[k] \in Incidents /\ ~Active(k)'
      BY <1>2, <3>3 DEF Incidents, Active
    <3>5. Told(k, "opened") \in Nat /\ Told(k, "opened")' = Told(k, "opened") + 0
      BY <3>1, ToldAdds
    <3>6. Told(k, "resolved") \in Nat /\ Told(k, "resolved")' = Told(k, "resolved") + 1
      BY <3>1, <3>2, ToldAdds
    <3>7. OrderedAt(k)'
      BY <1>1, <1>2, <1>3, <1>4, <1>5, <2>1, <3>1, <3>2, <3>3, <3>4 DEF OrderedAt
    <3> QED BY <2>2, <3>4, <3>5, <3>6, <3>7 DEF TellsAt
  <2>4. CASE ~Recovers(incident[k].streak)
    <3>1. UNCHANGED delivery
      BY <1>9, <2>4 DEF Recover
    <3>2. incident'[k] = [status |-> "active", severity |-> incident[k].severity, last |-> b,
                          streak |-> incident[k].streak + 1]
      BY <1>9, <2>4 DEF Recover, Record, TypeOK
    <3>3. incident'[k] # Nothing /\ Active(k)'
      <4>1. incident[k] \in Incidents /\ incident[k].streak + 1 \in 0..1
        BY <2>2, <2>4 DEF Active, TypeOK, Incidents, Recovers
      <4>2. incident'[k] \in Incidents
        BY <1>2, <3>2, <4>1 DEF Incidents
      <4> QED BY <3>2, <4>2 DEF Active
    <3>4. OrderedAt(k)'
      BY <1>1, <1>2, <1>3, <1>4, <1>5, <2>1, <3>1, <3>2, <3>3 DEF OrderedAt
    <3> QED BY <2>2, <3>1, <3>3, <3>4, ToldKept DEF TellsAt
  <2> QED BY <2>3, <2>4
<1> QED BY <1>6, <1>8, <1>9 DEF Anomalies

\* The history holds of the empty queue.
LEMMA HistoryInit == Init => QueueFinite /\ History
<1> SUFFICES ASSUME Init PROVE QueueFinite /\ History
  OBVIOUS
<1>1. DOMAIN delivery = {}
  BY DEF Init
<1>2. QueueFinite /\ \A k, type : Told(k, type) = 0
  <2>1. \A k, type : {e \in DOMAIN delivery : e.key = k /\ e.type = type} = {}
    BY <1>1
  <2> QED BY <1>1, <2>1, FS_EmptySet DEF QueueFinite, Told
<1>3. SnapshotStored /\ Ordered
  BY <1>1 DEF Init, SnapshotStored, Ordered, OrderedAt
<1>4. QueueTellsIncident
  BY <1>2 DEF Init, QueueTellsIncident, Active
<1> QED BY <1>2, <1>3, <1>4 DEF History

\* Steps that leave incidents, batch and the queue's events alone keep it.
LEMMA HistoryKept ==
  ASSUME QueueFinite, History, incident' = incident, latest' = latest, snapshot' = snapshot,
         DOMAIN delivery' = DOMAIN delivery
  PROVE  QueueFinite' /\ History'
<1>1. \A k, type : Told(k, type)' = Told(k, type)
  BY ToldKept
<1> QED BY <1>1 DEF QueueFinite, History, SnapshotStored, Ordered, OrderedAt,
                    QueueTellsIncident, Active

\* Every step keeps the history.
LEMMA HistoryNext == TypeOK /\ QueueFinite /\ History /\ [Next]_vars => QueueFinite' /\ History'
<1> SUFFICES ASSUME TypeOK, QueueFinite, History, [Next]_vars PROVE QueueFinite' /\ History'
  OBVIOUS
<1> USE WebhookAssumption
<1>0. /\ latest \in Int
      /\ \A k \in Keys : OrderedAt(k) /\ TellsAt(k)
      /\ \A k \in Keys : incident[k] # Nothing => incident[k].last \in Int
      /\ snapshot # Nothing => snapshot.batch \in Int /\ snapshot.batch <= latest
  BY DEF TypeOK, Incidents, Batches, History, SnapshotStored, Ordered, QueueTellsIncident, TellsAt
<1>1. CASE UNCHANGED vars
  BY <1>1, HistoryKept DEF vars
<1>2. CASE Dispatch
  <2>1. PICK d \in Dispatchers : Claim(d) \/ Post(d) \/ Finish(d) \/ Abandon(d)
    BY <1>2 DEF Dispatch
  <2>2. DOMAIN delivery' = DOMAIN delivery
    BY <2>1, DispatchTypes
  <2>3. incident' = incident /\ latest' = latest /\ snapshot' = snapshot
    BY <2>1 DEF Claim, Post, Finish, Abandon, incidents
  <2> QED BY <2>2, <2>3, HistoryKept
<1>3. CASE StoreBatch \/ ReadSnapshot
  <2>1. incident' = incident /\ DOMAIN delivery' = DOMAIN delivery
    BY <1>3 DEF StoreBatch, ReadSnapshot
  <2>2. /\ latest <= latest' /\ latest' \in Int
        /\ snapshot' # Nothing =>
             snapshot'.batch = latest \/ (snapshot # Nothing /\ snapshot'.batch = snapshot.batch)
    BY <1>0, <1>3 DEF StoreBatch, ReadSnapshot
  <2>3. \A k, type : Told(k, type)' = Told(k, type)
    BY <2>1, ToldKept
  <2>4. SnapshotStored'
    BY <1>0, <2>2 DEF SnapshotStored
  <2>5. Ordered'
    BY <1>0, <2>1, <2>2 DEF Ordered, OrderedAt
  <2>6. QueueTellsIncident' /\ QueueFinite'
    BY <1>0, <2>1, <2>3 DEF QueueTellsIncident, TellsAt, Active, QueueFinite
  <2> QED BY <2>4, <2>5, <2>6 DEF History
<1>4. CASE Acceptance
  <2>1. PICK n \in 1..MaxFixture : Queue(EventId(Fixture, "opened", n))
    BY <1>4 DEF Acceptance
  <2> DEFINE e == EventId(Fixture, "opened", n)
  <2>2. DOMAIN delivery' = DOMAIN delivery \cup {e} /\ QueueFinite'
    BY <2>1, QueueAdds, ToldAdds
  <2>3. incident' = incident /\ latest' = latest /\ snapshot' = snapshot
    BY <1>4 DEF Acceptance, incidents
  <2>4. e.key = Fixture
    BY DEF EventId
  <2>5. \A k \in Keys : \A type : Told(k, type)' = Told(k, type)
    <3> TAKE k \in Keys
    <3> TAKE type
    <3>1. Told(k, type) \in Nat /\ Told(k, type)' = Told(k, type) + 0
      BY <2>1, <2>4, ToldAdds
    <3> QED BY <3>1
  <2>6. Ordered' /\ SnapshotStored'
    BY <1>0, <2>2, <2>3, <2>4 DEF Ordered, OrderedAt, SnapshotStored
  <2>7. QueueTellsIncident'
    BY <1>0, <2>3, <2>5 DEF QueueTellsIncident, TellsAt, Active
  <2> QED BY <2>2, <2>6, <2>7 DEF History
<1>5. ASSUME NEW k \in Keys, ApplyCandidate(k) PROVE QueueFinite' /\ History'
  <2>1. Applying(k) /\ Applied(k) /\ latest' = latest
    BY <1>5 DEF ApplyCandidate, Open, Continue, Recover, Ignore, Record
  <2>2. SnapshotStored'
    BY <1>0, <2>1, SnapshotKept DEF SnapshotStored, Applying
  <2>3. CASE Ignore(k)
    <3>1. incident' = incident /\ delivery' = delivery
      BY <2>3 DEF Ignore
    <3>2. \A j, type : Told(j, type)' = Told(j, type)
      BY <3>1, ToldKept
    <3>3. Ordered'
      BY <1>0, <2>1, <3>1, SnapshotKept DEF Ordered, OrderedAt, Applying
    <3>4. QueueTellsIncident' /\ QueueFinite'
      BY <1>0, <3>1, <3>2 DEF QueueTellsIncident, TellsAt, Active, QueueFinite
    <3> QED BY <2>2, <3>3, <3>4 DEF History
  <2>4. ASSUME Open(k, "critical") \/ Open(k, "warning")
               \/ Continue(k, "critical") \/ Continue(k, "warning") \/ Recover(k)
        PROVE  QueueFinite' /\ History'
    <3>1. OrderedAt(k)' /\ TellsAt(k)'
      BY <1>0, <2>4, TransitionHistory DEF History
    <3>2. \A j \in Keys \ {k} : incident'[j] = incident[j]
      BY <2>4 DEF Open, Continue, Recover, Record, TypeOK
    <3>3. \E type \in {"opened", "updated", "resolved"} : Announce(k, type) \/ UNCHANGED delivery
      BY <2>4 DEF Open, Continue, Recover
    <3>4. \A j \in Keys \ {k} : OrderedAt(j)' /\ TellsAt(j)'
      BY <1>0, <2>1, <3>2, <3>3, OthersKept
    <3>5. QueueFinite'
      BY <3>3, ToldAdds DEF Announce, QueueFinite
    <3>6. Ordered' /\ QueueTellsIncident'
      BY <3>1, <3>4 DEF Ordered, QueueTellsIncident, TellsAt
    <3> QED BY <2>2, <3>5, <3>6 DEF History
  <2> QED BY <1>5, <2>3, <2>4 DEF ApplyCandidate, Anomalies
<1> QED BY <1>1, <1>2, <1>3, <1>4, <1>5 DEF Next, Dispatch

\* Of every incident the queue holds one more opening than resolution while
\* it is active and as many when it is not: no transition's event is lost to
\* an id used before, and none is queued without its transition.
THEOREM QueueIsHistory == Spec => []QueueTellsIncident
<1>1. Init => TypeOK /\ QueueFinite /\ History
  BY TypeInit, HistoryInit
<1>2. TypeOK /\ QueueFinite /\ History /\ [Next]_vars => (TypeOK /\ QueueFinite /\ History)'
  BY TypeNext, HistoryNext
<1>3. History => QueueTellsIncident
  BY DEF History
<1> QED BY <1>1, <1>2, <1>3, PTL DEF Spec
-----------------------------------------------------------------------------
(* The detector beside the incidents.                                      *)

\* A step of the composition is one of ControlWebhook, or leaves it alone.
LEMMA DetectionStep == [DetectionNext]_detectionVars => [Next]_vars
<1>1. ASSUME NEW k \in Keys, Apply(k) PROVE Next
  BY <1>1 DEF Apply, ApplyCandidate, Next
<1>2. ASSUME NEW k \in Keys, Analyze(k) PROVE UNCHANGED vars
  BY <1>2 DEF Analyze
<1> QED BY <1>1, <1>2 DEF DetectionNext, Observe, ReadLatest, Deliver, Next, detectionVars

\* What is proved of ControlWebhook holds with the detector: its verdicts are
\* some of those the incidents may be given (Reconcile, ApplyCandidate).
THEOREM DetectorImplements == DetectionSpec => Spec
<1>1. DetectionInit => Init
  BY DEF DetectionInit
<1> QED BY <1>1, DetectionStep, PTL DEF DetectionSpec, Spec

\* A verdict is one of four.
LEMMA VerdictKinds == ASSUME NEW s PROVE Verdict(s) \in Verdicts
BY DEF Verdict, Verdicts, Anomalies

\* RecentObserved reads the end of the series, and all the candidates.
LEMMA RecentIsSuffix ==
  ASSUME NEW s \in Seq(Points)
  PROVE  /\ Recent(s) \in Seq(Points)
         /\ Len(Recent(s)) <= Len(s)
         /\ \A j \in 1..Len(Recent(s)) : Recent(s)[j] = s[j + Len(s) - Len(Recent(s))]
<1> DEFINE limit == WindowSize + Consecutive
<1>1. limit \in Nat
  BY DetectionAssumption
<1>2. CASE Len(s) <= limit
  BY <1>1, <1>2 DEF Recent
<1>3. CASE Len(s) > limit
  <2>1. Recent(s) = SubSeq(s, Len(s) - limit + 1, Len(s))
    BY <1>1, <1>3 DEF Recent
  <2>2. Len(s) - limit + 1 \in 1..(Len(s) + 1) /\ Len(s) \in Nat
    BY <1>1, <1>3
  <2>3. /\ Recent(s) \in Seq(Points)
        /\ Len(Recent(s)) = limit
        /\ \A j \in 1..limit : Recent(s)[j] = s[Len(s) - limit + 1 + j - 1]
    BY <1>1, <1>3, <2>1, <2>2, SubSeqProperties
  <2> QED BY <1>1, <1>3, <2>3
<1> QED BY <1>1, <1>2, <1>3

\* A healthy verdict has a point within the threshold among its candidates.
LEMMA HealthyHasNormal ==
  ASSUME NEW s \in Seq(Points), Verdict(Recent(s)) = "healthy"
  PROVE  \E i \in (Len(s) - Consecutive + 1)..Len(s) : i \in 1..Len(s) /\ Normal(s[i])
<1> DEFINE t == Recent(s)
<1>1. Decidable(t) /\ ~Dropped(t)
  BY DEF Verdict
<1>2. t \in Seq(Points) /\ Len(t) <= Len(s) /\ Len(t) \in Nat /\ Len(s) \in Nat
      /\ \A j \in 1..Len(t) : t[j] = s[j + Len(s) - Len(t)]
  BY RecentIsSuffix
<1>3. Consecutive \in Nat /\ Consecutive >= 1 /\ Len(t) >= Consecutive
  BY <1>1, DetectionAssumption DEF Decidable
<1>4. \A j \in 1..Consecutive : Candidates(t)[j] = t[Len(t) - Consecutive + j]
  BY <1>2, <1>3, SubSeqProperties DEF Candidates
<1>5. PICK j \in 1..Consecutive : ~Breached(Candidates(t)[j])
  BY <1>1, Zenon DEF Dropped
<1>6. Normal(Candidates(t)[j])
  BY <1>1, <1>5, Zenon DEF Decidable, Normal
<1> DEFINE i == Len(t) - Consecutive + j
<1>7. i \in 1..Len(t) /\ Candidates(t)[j] = t[i]
  BY <1>2, <1>3, <1>4
<1>8. Candidates(t)[j] = s[i + Len(s) - Len(t)]
  BY <1>2, <1>7
<1>9. i + Len(s) - Len(t) = Len(s) - Consecutive + j
  BY <1>2, <1>3
<1> QED BY <1>2, <1>3, <1>6, <1>8, <1>9

\* The points behind a verdict, and the verdict it was.
Behind(k, n) == Verdict(Recent(SubSeq(points[k], 1, n)))
Decided      == Anomalies \cup {"healthy"}

\* A verdict the reconciler holds is not older than the last anomaly.
Grounded == \A k \in Keys :
  analysis[k].verdict \in Decided =>
    /\ heard[k] <= analysis[k].extent /\ analysis[k].extent <= Len(points[k])
    /\ Behind(k, analysis[k].extent) = analysis[k].verdict

\* The last anomaly of an active incident was one.
Founded == \A k \in Keys :
  /\ heard[k] <= Len(points[k])
  /\ Active(k) => Behind(k, heard[k]) \in Anomalies

DetectionInv == DetectionTypeOK /\ Grounded /\ Founded /\ SilenceIsNotRecovery

LEMMA DetectionInvInit == DetectionInit => DetectionInv
<1> SUFFICES ASSUME DetectionInit PROVE DetectionInv
  OBVIOUS
<1> USE DEF DetectionInit
<1>1. TypeOK /\ \A k \in Keys : incident[k] = Nothing
  BY TypeInit DEF Init
<1>2. \A k \in Keys : analysis[k].verdict = "undecided" /\ analysis[k].extent = 0
                      /\ heard[k] = 0 /\ points[k] = <<>>
  BY DEF Skipped
<1>3. DetectionTypeOK
  BY <1>1, <1>2 DEF DetectionTypeOK, Skipped, Verdicts
<1> QED BY <1>1, <1>2, <1>3 DEF DetectionInv, Grounded, Founded, Decided, Anomalies, Active,
                               SilenceIsNotRecovery

\* What was read of a series stays read: points are only appended.
LEMMA Appended ==
  ASSUME NEW s \in Seq(Points), NEW p \in Points, NEW n \in Nat, n <= Len(s)
  PROVE  /\ Append(s, p) \in Seq(Points) /\ Len(Append(s, p)) = Len(s) + 1
         /\ SubSeq(Append(s, p), 1, n) = SubSeq(s, 1, n)
         /\ \A i \in 1..Len(s) : Append(s, p)[i] = s[i]
<1>1. /\ Append(s, p) \in Seq(Points) /\ Len(Append(s, p)) = Len(s) + 1
      /\ \A i \in 1..Len(s) : Append(s, p)[i] = s[i]
  BY AppendProperties
<1>2. /\ Len(SubSeq(Append(s, p), 1, n)) = n /\ Len(SubSeq(s, 1, n)) = n
      /\ \A i \in 1..n : SubSeq(Append(s, p), 1, n)[i] = Append(s, p)[i]
      /\ \A i \in 1..n : SubSeq(s, 1, n)[i] = s[i]
      /\ SubSeq(Append(s, p), 1, n) \in Seq(Points) /\ SubSeq(s, 1, n) \in Seq(Points)
  BY <1>1, SubSeqProperties
<1> QED BY <1>1, <1>2, SeqEqual

\* A step that leaves incidents, points and history alone, and holds no
\* verdict that it did not hold before.
LEMMA DetectionKept ==
  ASSUME Grounded, Founded, SilenceIsNotRecovery, UNCHANGED <<incident, points, heard>>,
         \A k \in Keys : analysis'[k] = analysis[k] \/ analysis'[k].verdict \notin Decided
  PROVE  Grounded' /\ Founded' /\ SilenceIsNotRecovery'
<1>1. \A k, n : Behind(k, n)' = Behind(k, n)
  BY DEF Behind
<1>2. Grounded'
  BY <1>1 DEF Grounded, Decided
<1>3. Founded'
  BY <1>1 DEF Founded, Active
<1> QED BY <1>2, <1>3 DEF SilenceIsNotRecovery

\* The sampler.
LEMMA ObserveKept == ASSUME DetectionInv, Observe PROVE Grounded' /\ Founded' /\ SilenceIsNotRecovery'
<1> USE DEF DetectionInv
<1>1. UNCHANGED <<incident, analysis, heard>>
  BY DEF Observe, StoreBatch
<1>2. ASSUME NEW k \in Keys
      PROVE  /\ Len(points[k]) <= Len(points'[k]) /\ Len(points[k]) \in Nat /\ Len(points'[k]) \in Nat
             /\ \A n \in Nat : n <= Len(points[k]) => Behind(k, n)' = Behind(k, n)
             /\ \A i \in 1..Len(points[k]) : points'[k][i] = points[k][i]
  <2>1. points[k] \in Seq(Points)
    BY DEF DetectionTypeOK
  <2>2. points'[k] = points[k] \/ \E p \in Points : points'[k] = Append(points[k], p)
    BY DEF Observe
  <2>3. CASE points'[k] = points[k]
    BY <2>1, <2>3 DEF Behind
  <2>4. ASSUME NEW p \in Points, points'[k] = Append(points[k], p)
        PROVE  /\ Len(points'[k]) = Len(points[k]) + 1
               /\ \A n \in Nat : n <= Len(points[k]) => SubSeq(points'[k], 1, n) = SubSeq(points[k], 1, n)
               /\ \A i \in 1..Len(points[k]) : points'[k][i] = points[k][i]
    BY <2>1, <2>4, Appended
  <2>5. CASE \E p \in Points : points'[k] = Append(points[k], p)
    <3>1. PICK p \in Points : points'[k] = Append(points[k], p)
      BY <2>5
    <3>2. /\ Len(points'[k]) = Len(points[k]) + 1 /\ Len(points[k]) \in Nat
          /\ \A n \in Nat : n <= Len(points[k]) => SubSeq(points'[k], 1, n) = SubSeq(points[k], 1, n)
          /\ \A i \in 1..Len(points[k]) : points'[k][i] = points[k][i]
      BY <2>1, <2>4, <3>1
    <3>3. \A n \in Nat : n <= Len(points[k]) => Behind(k, n)' = Behind(k, n)
      BY <3>2 DEF Behind
    <3> QED BY <3>2, <3>3
  <2> QED BY <2>2, <2>3, <2>5
<1>3. \A k \in Keys : heard[k] \in Nat /\ analysis[k].extent \in Nat
  BY DEF DetectionTypeOK
<1>4. Grounded'
  BY <1>1, <1>2, <1>3 DEF Grounded
<1>5. Founded'
  BY <1>1, <1>2, <1>3 DEF Founded, Active
<1>6. SilenceIsNotRecovery'
  <2> SUFFICES ASSUME NEW k \in Keys, incident[k] # Nothing, incident[k].status = "resolved"
               PROVE  \E i \in 1..Len(points'[k]) :
                        i > heard[k] - Consecutive + 1 /\ Normal(points'[k][i])
    BY <1>1 DEF SilenceIsNotRecovery
  <2>1. PICK i \in 1..Len(points[k]) :
          i > heard[k] - Consecutive + 1 /\ Normal(points[k][i])
    BY DEF SilenceIsNotRecovery
  <2> QED BY <1>2, <1>3, <2>1
<1> QED BY <1>4, <1>5, <1>6

\* One series is analysed: all of its points are read.
LEMMA AnalyzeKept ==
  ASSUME DetectionInv, NEW k \in Keys, Analyze(k)
  PROVE  Grounded' /\ Founded' /\ SilenceIsNotRecovery'
<1> USE DEF DetectionInv
<1>1. UNCHANGED <<incident, points, heard>>
  BY DEF Analyze, vars
<1>2. \A j, n : Behind(j, n)' = Behind(j, n)
  BY <1>1 DEF Behind
<1>3. points[k] \in Seq(Points) /\ Len(points[k]) \in Nat /\ heard[k] \in Nat
  BY DEF DetectionTypeOK
<1>4. SubSeq(points[k], 1, Len(points[k])) = points[k]
  BY <1>3, SubSeqFull
<1>5. analysis'[k].extent = Len(points[k]) /\ analysis'[k].verdict = Behind(k, Len(points[k]))
  BY <1>4 DEF Analyze, Behind, DetectionTypeOK
<1>6. \A j \in Keys \ {k} : analysis'[j] = analysis[j]
  BY DEF Analyze, DetectionTypeOK
<1>7. Grounded'
  BY <1>1, <1>2, <1>3, <1>5, <1>6 DEF Grounded, Founded
<1>8. Founded' /\ SilenceIsNotRecovery'
  BY <1>1, <1>2 DEF Founded, Active, SilenceIsNotRecovery
<1> QED BY <1>7, <1>8

\* A healthy verdict follows an anomaly of fewer points, and so has a point
\* within the threshold that the anomaly's first candidate precedes.
LEMMA HealthySince ==
  ASSUME DetectionInv, NEW k \in Keys, Active(k), analysis[k].verdict = "healthy"
  PROVE  \E i \in 1..Len(points[k]) : i > heard[k] - Consecutive + 1 /\ Normal(points[k][i])
<1> DEFINE m == analysis[k].extent
           s == SubSeq(points[k], 1, m)
<1>1. /\ points[k] \in Seq(Points) /\ Len(points[k]) \in Nat /\ heard[k] \in Nat /\ m \in Nat
      /\ Consecutive \in Nat
  BY DetectionAssumption DEF DetectionInv, DetectionTypeOK
<1>2. heard[k] <= m /\ m <= Len(points[k]) /\ Verdict(Recent(s)) = "healthy"
  BY DEF DetectionInv, Grounded, Decided, Behind
<1>3. heard[k] # m
  <2>1. Behind(k, heard[k]) \in Anomalies
    BY DEF DetectionInv, Founded
  <2> QED BY <1>2, <2>1 DEF Behind, Anomalies
<1>4. s \in Seq(Points) /\ Len(s) = m /\ \A i \in 1..m : s[i] = points[k][i]
  BY <1>1, <1>2, SubSeqProperties
<1> HIDE DEF s, m
<1>5. PICK i \in (Len(s) - Consecutive + 1)..Len(s) : i \in 1..Len(s) /\ Normal(s[i])
  BY <1>2, <1>4, HealthyHasNormal
<1>6. i \in 1..Len(points[k]) /\ i > heard[k] - Consecutive + 1 /\ s[i] = points[k][i]
  BY <1>1, <1>2, <1>3, <1>4, <1>5
<1> QED BY <1>5, <1>6

\* A verdict is applied.
LEMMA ApplyKept ==
  ASSUME DetectionInv, NEW k \in Keys, Apply(k)
  PROVE  Grounded' /\ Founded' /\ SilenceIsNotRecovery'
<1> USE DEF DetectionInv
<1>1. points' = points
  BY DEF Apply
<1>2. \A j, n : Behind(j, n)' = Behind(j, n)
  BY <1>1 DEF Behind
<1>3. \A j \in Keys : analysis'[j] = analysis[j] \/ analysis'[j].verdict \notin Decided
  BY DEF Apply, Skipped, Decided, Anomalies
<1>4. incident \in [Keys -> Incidents \cup {Nothing}] /\ heard \in [Keys -> Nat]
  BY DEF DetectionTypeOK, TypeOK
<1>5. CASE Ignore(k) /\ UNCHANGED heard
  BY <1>1, <1>3, <1>5, DetectionKept DEF Ignore
<1>6. CASE analysis[k].verdict = "healthy" /\ Recover(k) /\ UNCHANGED heard
  <2>1. Active(k) /\ \A j \in Keys \ {k} : incident'[j] = incident[j]
    BY <1>4, <1>6 DEF Recover, Record
  <2>2. Grounded'
    BY <1>1, <1>2, <1>3, <1>6 DEF Grounded
  <2>3. Founded'
    BY <1>1, <1>2, <1>6, <2>1 DEF Founded, Active
  <2>4. SilenceIsNotRecovery'
    BY <1>1, <1>6, <2>1, HealthySince DEF SilenceIsNotRecovery
  <2> QED BY <2>2, <2>3, <2>4
<1>7. ASSUME NEW v \in Anomalies, v = analysis[k].verdict, Open(k, v) \/ Continue(k, v),
             heard' = [heard EXCEPT ![k] = analysis[k].extent]
      PROVE  Grounded' /\ Founded' /\ SilenceIsNotRecovery'
  <2>1. /\ heard'[k] = analysis[k].extent
        /\ \A j \in Keys \ {k} : incident'[j] = incident[j] /\ heard'[j] = heard[j]
        /\ incident'[k].status = "active"
    BY <1>4, <1>7 DEF Open, Continue, Record
  <2>2. analysis[k].extent <= Len(points[k]) /\ Behind(k, analysis[k].extent) = v
    BY <1>7 DEF Grounded, Decided
  <2>3. analysis[k].extent \in Nat
    BY DEF DetectionTypeOK
  <2>4. Grounded'
    BY <1>1, <1>2, <1>3, <2>1, <2>2, <2>3 DEF Grounded
  <2>5. Founded'
    BY <1>1, <1>2, <1>7, <2>1, <2>2 DEF Founded, Active
  <2>6. SilenceIsNotRecovery'
    BY <1>1, <2>1 DEF SilenceIsNotRecovery
  <2> QED BY <2>4, <2>5, <2>6
<1> QED BY <1>5, <1>6, <1>7 DEF Apply

LEMMA DetectionTypes == DetectionTypeOK /\ [DetectionNext]_detectionVars => DetectionTypeOK'
<1> SUFFICES ASSUME DetectionTypeOK, [DetectionNext]_detectionVars PROVE DetectionTypeOK'
  OBVIOUS
<1>1. TypeOK'
  BY TypeNext, DetectionStep DEF DetectionTypeOK
<1>2. CASE Deliver \/ UNCHANGED detectionVars
  BY <1>1, <1>2 DEF Deliver, detectionVars, detection, DetectionTypeOK
<1>3. CASE Observe
  <2>1. ASSUME NEW k \in Keys PROVE points'[k] \in Seq(Points)
    <3>1. points[k] \in Seq(Points)
      BY DEF DetectionTypeOK
    <3>2. points'[k] = points[k] \/ \E p \in Points : points'[k] = Append(points[k], p)
      BY <1>3 DEF Observe
    <3> QED BY <3>1, <3>2, AppendProperties
  <2>2. points' \in [Keys -> Seq(Points)]
    BY <1>3, <2>1 DEF Observe
  <2> QED BY <1>1, <1>3, <2>2 DEF Observe, DetectionTypeOK
<1>4. CASE ReadLatest
  BY <1>1, <1>4 DEF ReadLatest, Unread, Skipped, Verdicts, DetectionTypeOK
<1>5. ASSUME NEW k \in Keys, Analyze(k) PROVE DetectionTypeOK'
  <2>1. Verdict(Recent(points[k])) \in Verdicts /\ Len(points[k]) \in Nat
    BY VerdictKinds DEF DetectionTypeOK
  <2> QED BY <1>1, <1>5, <2>1 DEF Analyze, DetectionTypeOK
<1>6. ASSUME NEW k \in Keys, Apply(k) PROVE DetectionTypeOK'
  <2>1. [j \in Keys |-> Skipped] \in [Keys -> [verdict: Verdicts \cup {"unread"}, extent: Nat]]
    BY DEF Skipped, Verdicts
  <2>2. heard' \in [Keys -> Nat] /\ analysis' \in [Keys -> [verdict: Verdicts \cup {"unread"}, extent: Nat]]
    BY <1>6, <2>1 DEF Apply, DetectionTypeOK
  <2> QED BY <1>1, <1>6, <2>2 DEF Apply, DetectionTypeOK
<1> QED BY <1>2, <1>3, <1>4, <1>5, <1>6 DEF DetectionNext

LEMMA DetectionInvNext == DetectionInv /\ [DetectionNext]_detectionVars => DetectionInv'
<1> SUFFICES ASSUME DetectionInv, [DetectionNext]_detectionVars PROVE DetectionInv'
  OBVIOUS
<1>1. DetectionTypeOK'
  BY DetectionTypes DEF DetectionInv
<1>2. CASE Deliver \/ UNCHANGED detectionVars
  <2>1. UNCHANGED <<incident, points, heard, analysis>>
    BY <1>2 DEF Deliver, Acceptance, Claim, Post, Finish, Abandon, incidents, detection, detectionVars, vars
  <2> QED BY <1>1, <2>1, DetectionKept DEF DetectionInv
<1>3. CASE ReadLatest
  <2>1. UNCHANGED <<incident, points, heard>> /\ \A k \in Keys : analysis'[k].verdict \notin Decided
    BY <1>3 DEF ReadLatest, ReadSnapshot, Unread, Skipped, Decided, Anomalies
  <2> QED BY <1>1, <2>1, DetectionKept DEF DetectionInv
<1> QED BY <1>1, <1>2, <1>3, ObserveKept, AnalyzeKept, ApplyKept DEF DetectionNext, DetectionInv

\* For any series, thresholds and windows: an incident is resolved on a point
\* within the threshold that was seen since its last anomaly, never on missing
\* or thin data (AnalyzeMetricWindow, LatestProductionAnalysis, Reconcile).
THEOREM SilenceNeverRecovers == DetectionSpec => []SilenceIsNotRecovery
<1>1. DetectionInv => SilenceIsNotRecovery
  BY DEF DetectionInv
<1> QED BY <1>1, DetectionInvInit, DetectionInvNext, PTL DEF DetectionSpec
=============================================================================
