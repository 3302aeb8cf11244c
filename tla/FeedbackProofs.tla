----------------------------- MODULE FeedbackProofs -----------------------------
(***************************************************************************)
(* Proofs of the safety of FeedbackLoop, for any samples, incidents,       *)
(* handlers, attempts and numbers of failures.                             *)
(*                                                                         *)
(* A message's attempt is bounded by the allowed attempts and the failures *)
(* so far (Bounded), a handler at work holds a job of its queue (Hands).   *)
(* That nothing is stranded then follows step by step: a handler that is   *)
(* about to finish a message leaves a row that needs no other, and all     *)
(* other steps keep a message somewhere (Outstanding).                     *)
(***************************************************************************)
EXTENDS FeedbackLoop, TLAPS

Limit == MaxAttempts + faults

Bounded ==
  /\ \A j \in Jobs, n \in Attempts : queue[<<j, n>>] > 0 => n < Limit
  /\ \A h \in Handlers : /\ hand[h].attempt < Limit
                         /\ hand[h].step = "retry" => hand[h].attempt + 1 < Limit

Hands ==
  \A h \in Handlers : IF hand[h].step = "idle" THEN hand[h].job = NoJob
                                               ELSE hand[h].job \in Jobs

DeliveryInv == DeliveryTypeOK /\ Bounded /\ Hands

Settled(s) == sample[s] \in Final \cup {"pruned"} /\ Origin[s] # "acceptance"

PoolInv ==
  /\ PoolTypeOK
  /\ \A r \in pool : \A c \in Causes : \A s \in r.cluster[c] : Settled(s)
  /\ \A m \in Miners : mined[m] # NoCycle =>
       \A c \in Causes : \A s \in mined[m].cluster[c] : Settled(s)
  /\ \A k \in candidates : \A s \in k.of : Settled(s)

IncidentInv ==
  /\ IncidentTypeOK /\ ConfirmedIsStored
  /\ \A i \in Incidents : /\ told[i] # {} => Exists(i)
                          /\ ~Exists(i) => incident[i].key = Nothing /\ incident[i].hypothesis = Nothing
  /\ \A h \in Handlers : Indexes(h, "indexed") => hand[h].job \in projected

IInv == DeliveryInv /\ EvaluationTypeOK /\ PoolInv /\ IncidentInv /\ NothingStranded
-----------------------------------------------------------------------------
(* Delivery.                                                               *)

LEMMA Numbers ==
  ASSUME DeliveryTypeOK
  PROVE  /\ MaxAttempts \in Nat /\ MaxAttempts >= 1 /\ faults \in Nat /\ MaxFaults \in Nat
         /\ faults <= MaxFaults /\ Limit \in Nat /\ Attempts \subseteq Nat /\ 0 \in Attempts
         /\ \A n \in Nat : n < Limit => n \in Attempts
         /\ \A h \in Handlers : hand[h].attempt \in Nat
<1>1. MaxAttempts \in Nat /\ MaxAttempts >= 1 /\ MaxFaults \in Nat /\ faults \in 0..MaxFaults
  BY DeliveryAssumption DEF DeliveryTypeOK
<1>2. \A h \in Handlers : hand[h].attempt \in Attempts
  BY DEF DeliveryTypeOK
<1> QED
  BY <1>1, <1>2 DEF Limit, Attempts

LEMMA DeliveryInitially == DeliveryInit => DeliveryInv
<1> SUFFICES ASSUME DeliveryInit PROVE DeliveryInv
  OBVIOUS
<1>1. 0 \in Attempts /\ Attempts \subseteq Nat /\ MaxAttempts \in Nat /\ MaxAttempts >= 1
  BY DeliveryAssumption DEF Attempts
<1>2. DeliveryTypeOK
  <2>1. Idle \in [job: Jobs \cup {NoJob}, attempt: Attempts, step: Steps]
    BY <1>1 DEF Idle, Steps
  <2> QED BY <1>1, <2>1, DeliveryAssumption DEF DeliveryInit, DeliveryTypeOK
<1>3. Bounded /\ Hands
  <2>1. faults = 0 /\ \A h \in Handlers : hand[h].attempt = 0 /\ hand[h].step = "idle" /\ hand[h].job = NoJob
    BY DEF DeliveryInit, Idle
  <2>2. \A j \in Jobs, n \in Attempts : queue[<<j, n>>] = 0
    BY DEF DeliveryInit
  <2> QED BY <1>1, <2>1, <2>2 DEF Bounded, Hands, Limit
<1> QED
  BY <1>2, <1>3 DEF DeliveryInv

\* A handler goes on with its message, after a failure or not.
LEMMA HandlerMoves ==
  ASSUME DeliveryInv, NEW h \in Handlers, NEW st \in Steps \ {"idle"},
         hand[h].step # "idle", Goto(h, st), UNCHANGED <<begun, outbox, queue>>,
         \/ NoFault /\ (st = "retry" => hand[h].attempt + 1 < Limit)
         \/ Fault
  PROVE  /\ DeliveryInv'
         /\ hand'[h].step = st /\ hand'[h].job = hand[h].job
         /\ \A g \in Handlers : g # h => hand'[g] = hand[g]
         /\ \A j \in Jobs : Outstanding(j) /\ (j = hand[h].job => st \notin {"ack", "dead"})
                              => Outstanding(j)'
<1>1. /\ hand \in [Handlers -> [job: Jobs \cup {NoJob}, attempt: Attempts, step: Steps]]
      /\ hand' = [hand EXCEPT ![h].step = st]
  BY DEF DeliveryInv, DeliveryTypeOK, Goto
<1>2. /\ hand' \in [Handlers -> [job: Jobs \cup {NoJob}, attempt: Attempts, step: Steps]]
      /\ hand'[h].step = st /\ hand'[h].job = hand[h].job /\ hand'[h].attempt = hand[h].attempt
      /\ \A g \in Handlers : g # h => hand'[g] = hand[g]
  BY <1>1
<1>3. faults' \in 0..MaxFaults /\ (faults' = faults \/ faults' = faults + 1)
  BY Numbers DEF DeliveryInv, Fault, NoFault
<1>4. /\ Limit' \in Nat /\ Limit <= Limit' /\ Limit \in Nat
      /\ st = "retry" => hand[h].attempt + 1 < Limit'
  <2>1. Limit' = MaxAttempts + faults'
    BY DEF Limit
  <2>2. hand[h].attempt \in Nat /\ hand[h].attempt < Limit /\ MaxAttempts \in Nat /\ faults \in Nat
    BY Numbers DEF DeliveryInv, Bounded
  <2>3. CASE Fault
    BY <2>1, <2>2, <2>3 DEF Fault, Limit
  <2>4. CASE NoFault /\ (st = "retry" => hand[h].attempt + 1 < Limit)
    BY <2>1, <2>2, <2>4 DEF NoFault, Limit
  <2> QED BY <2>3, <2>4
<1>5. DeliveryTypeOK'
  BY <1>2, <1>3 DEF DeliveryInv, DeliveryTypeOK
<1>6. Bounded'
  <2>1. \A g \in Handlers : hand[g].attempt \in Nat
    BY Numbers DEF DeliveryInv
  <2>2. \A n \in Attempts : n \in Nat
    BY Numbers DEF DeliveryInv
  <2>3. \A n \in Nat : n < Limit => n < Limit'
    BY <1>4
  <2>4. \A j \in Jobs, n \in Attempts : queue'[<<j, n>>] > 0 => n < Limit'
    BY <2>2, <2>3 DEF DeliveryInv, Bounded
  <2>5. \A g \in Handlers : hand'[g].attempt < Limit'
    BY <1>2, <2>1, <2>3 DEF DeliveryInv, Bounded
  <2>6. \A g \in Handlers : g # h /\ hand[g].step = "retry" => hand[g].attempt + 1 < Limit'
    BY <2>1, <2>3 DEF DeliveryInv, Bounded
  <2>7. \A g \in Handlers : hand'[g].step = "retry" => hand'[g].attempt + 1 < Limit'
    BY <1>2, <1>4, <2>6
  <2> QED BY <2>4, <2>5, <2>7 DEF Bounded
<1>7. Hands'
  BY <1>2 DEF DeliveryInv, Hands
<1>8. \A j \in Jobs : Outstanding(j) /\ (j = hand[h].job => st \notin {"ack", "dead"}) => Outstanding(j)'
  BY <1>2 DEF Outstanding
<1> QED
  BY <1>2, <1>5, <1>6, <1>7, <1>8 DEF DeliveryInv

LEMMA FailureMoves ==
  ASSUME DeliveryInv, NEW h \in Handlers
  PROVE  /\ OnFailure(h) \in {"retry", "exhaust"} /\ OnFailure(h) \in Steps \ {"idle"}
         /\ OnFailure(h) = "retry" => hand[h].attempt + 1 < Limit
<1>1. hand[h].attempt \in Nat /\ MaxAttempts \in Nat /\ MaxAttempts <= Limit /\ Limit \in Nat
  BY Numbers DEF DeliveryInv, Limit
<1> QED
  BY <1>1 DEF OnFailure, Steps
Grows == Limit \in Nat /\ Limit' \in Nat /\ Limit <= Limit' /\ Limit' >= 1

\* A message is sent for an attempt that is still allowed.
LEMMA Sends ==
  ASSUME DeliveryInv, NEW j \in Jobs, NEW n \in Nat, n < Limit,
         queue' = [queue EXCEPT ![<<j, n>>] = @ + 1], faults' = faults \/ Fault
  PROVE  /\ queue' \in [Jobs \X Attempts -> Nat] /\ faults' \in 0..MaxFaults /\ Grows
         /\ n \in Attempts /\ queue'[<<j, n>>] > 0
         /\ \A i \in Jobs, m \in Attempts : queue[<<i, m>>] > 0 => queue'[<<i, m>>] > 0
         /\ \A i \in Jobs, m \in Attempts : queue'[<<i, m>>] > 0 => m < Limit'
<1>1. n \in Attempts /\ queue \in [Jobs \X Attempts -> Nat] /\ <<j, n>> \in Jobs \X Attempts
  BY Numbers DEF DeliveryInv, DeliveryTypeOK
<1>2. faults' \in 0..MaxFaults /\ Limit <= Limit' /\ Limit \in Nat /\ Limit' \in Nat /\ Grows
  BY Numbers DEF DeliveryInv, Fault, Limit, Grows
<1>3. /\ queue' \in [Jobs \X Attempts -> Nat] /\ queue'[<<j, n>>] > 0
      /\ \A x \in Jobs \X Attempts : x # <<j, n>> => queue'[x] = queue[x]
  BY <1>1
<1>4. ASSUME NEW i \in Jobs, NEW m \in Attempts
      PROVE  /\ queue[<<i, m>>] > 0 => queue'[<<i, m>>] > 0
             /\ queue'[<<i, m>>] > 0 => m < Limit'
  <2>1. CASE i = j /\ m = n
    BY <2>1, <1>2, <1>3
  <2>2. CASE ~(i = j /\ m = n)
    <3>1. queue'[<<i, m>>] = queue[<<i, m>>]
      BY <2>2, <1>3
    <3>2. queue[<<i, m>>] > 0 => m < Limit
      BY DEF DeliveryInv, Bounded
    <3>3. m \in Nat
      BY Numbers DEF DeliveryInv
    <3> QED BY <3>1, <3>2, <3>3, <1>2
  <2> QED BY <2>1, <2>2
<1> QED
  BY <1>1, <1>2, <1>3, <1>4

\* What a step of the delivery keeps for the components above it.
Carries == /\ DeliveryInv'
           /\ \A j \in Jobs : Outstanding(j) => Outstanding(j)'
           /\ \A h \in Handlers : hand'[h].step \notin {"idle", "get", "ack"} => hand'[h] = hand[h]

LEMMA PublishEventStep == ASSUME DeliveryInv, NEW j \in Jobs, PublishEvent(j) PROVE Carries
<1>1. /\ queue' = [queue EXCEPT ![<<j, 0>>] = @ + 1] /\ begun' = begun /\ hand' = hand
      /\ outbox' = [outbox EXCEPT ![j] = "published"] \/ outbox' = outbox
      /\ faults' = faults \/ Fault
  BY DEF PublishEvent, NoFault
<1>2. 0 \in Nat /\ 0 < Limit
  BY Numbers DEF DeliveryInv, Limit
<1>3. /\ queue' \in [Jobs \X Attempts -> Nat] /\ faults' \in 0..MaxFaults /\ Grows
      /\ 0 \in Attempts /\ queue'[<<j, 0>>] > 0
      /\ \A i \in Jobs, m \in Attempts : queue[<<i, m>>] > 0 => queue'[<<i, m>>] > 0
      /\ \A i \in Jobs, m \in Attempts : queue'[<<i, m>>] > 0 => m < Limit'
  BY <1>1, <1>2, Sends
<1>4. outbox' \in [Jobs -> {"none", "pending", "published"}] /\ \A i \in Jobs : i # j => outbox'[i] = outbox[i]
  BY <1>1 DEF DeliveryInv, DeliveryTypeOK
<1>5. DeliveryTypeOK' /\ Hands'
  BY <1>1, <1>3, <1>4 DEF DeliveryInv, DeliveryTypeOK, Hands
<1>6. Bounded'
  <2>1. \A h \in Handlers : hand[h].attempt \in Nat
    BY Numbers DEF DeliveryInv
  <2> QED BY <1>1, <1>3, <2>1 DEF DeliveryInv, Bounded, Grows
<1>7. \A i \in Jobs : Outstanding(i) => Outstanding(i)'
  BY <1>1, <1>3, <1>4 DEF Outstanding
<1> QED
  BY <1>1, <1>5, <1>6, <1>7 DEF Carries, DeliveryInv

LEMMA DeliverStep == ASSUME DeliveryInv, NEW h \in Handlers, Deliver(h) PROVE Carries
<1>1. PICK j \in Serves[h], n \in Attempts :
        /\ queue[<<j, n>>] > 0 /\ queue' = [queue EXCEPT ![<<j, n>>] = @ - 1]
        /\ hand' = [hand EXCEPT ![h] = [job |-> j, attempt |-> n, step |-> "get"]]
  BY DEF Deliver
<1>2. hand[h].step = "idle" /\ hand[h].job = NoJob /\ UNCHANGED <<begun, outbox, faults>>
  BY DEF Deliver, DeliveryInv, Hands
<1>3. j \in Jobs /\ n \in Nat /\ n < Limit /\ Limit' = Limit
  BY <1>1, <1>2, Numbers, DeliveryAssumption DEF Jobs, DeliveryInv, Bounded, Limit
<1>4. /\ queue \in [Jobs \X Attempts -> Nat] /\ <<j, n>> \in Jobs \X Attempts
      /\ hand \in [Handlers -> [job: Jobs \cup {NoJob}, attempt: Attempts, step: Steps]]
  BY <1>3 DEF DeliveryInv, DeliveryTypeOK
<1>5. /\ queue' \in [Jobs \X Attempts -> Nat]
      /\ \A x \in Jobs \X Attempts : queue'[x] <= queue[x] /\ (x # <<j, n>> => queue'[x] = queue[x])
                                    /\ queue'[x] \in Nat /\ queue[x] \in Nat
  BY <1>1, <1>4
<1>6. /\ hand'[h].job = j /\ hand'[h].step = "get" /\ hand'[h].attempt = n
      /\ hand' \in [Handlers -> [job: Jobs \cup {NoJob}, attempt: Attempts, step: Steps]]
      /\ \A g \in Handlers : g # h => hand'[g] = hand[g]
  BY <1>1, <1>3, <1>4 DEF Steps
<1>7. DeliveryTypeOK' /\ Hands'
  BY <1>2, <1>3, <1>5, <1>6 DEF DeliveryInv, DeliveryTypeOK, Hands
<1>8. Bounded'
  <2>1. \A i \in Jobs, m \in Attempts : queue'[<<i, m>>] > 0 => m < Limit'
    <3> SUFFICES ASSUME NEW i \in Jobs, NEW m \in Attempts, queue'[<<i, m>>] > 0 PROVE m < Limit'
      OBVIOUS
    <3>1. <<i, m>> \in Jobs \X Attempts
      OBVIOUS
    <3>2. queue[<<i, m>>] > 0
      BY <1>5, <3>1
    <3> QED BY <1>3, <3>2 DEF DeliveryInv, Bounded
  <2>2. \A g \in Handlers : /\ hand'[g].attempt < Limit'
                            /\ hand'[g].step = "retry" => hand'[g].attempt + 1 < Limit'
    BY <1>3, <1>6 DEF DeliveryInv, Bounded
  <2> QED BY <2>1, <2>2 DEF Bounded
<1>9. \A i \in Jobs : Outstanding(i) => Outstanding(i)'
  <2> SUFFICES ASSUME NEW i \in Jobs, Outstanding(i), i # j PROVE Outstanding(i)'
    BY <1>6 DEF Outstanding
  <2>1. CASE \E m \in Attempts : queue[<<i, m>>] > 0
    <3>1. PICK m \in Attempts : queue[<<i, m>>] > 0
      BY <2>1
    <3>2. <<i, m>> \in Jobs \X Attempts /\ <<i, m>> # <<j, n>>
      OBVIOUS
    <3>3. queue'[<<i, m>>] > 0
      BY <1>5, <3>1, <3>2
    <3> QED BY <3>3 DEF Outstanding
  <2>2. CASE \E g \in Handlers : hand[g].job = i /\ hand[g].step \notin {"ack", "dead"}
    <3>1. PICK g \in Handlers : hand[g].job = i /\ hand[g].step \notin {"ack", "dead"}
      BY <2>2
    <3>2. g # h
      BY <3>1, <1>2, DeliveryAssumption
    <3> QED BY <1>6, <3>1, <3>2 DEF Outstanding
  <2>3. CASE outbox[i] = "pending"
    BY <1>2, <2>3 DEF Outstanding
  <2> QED BY <2>1, <2>2, <2>3 DEF Outstanding
<1> QED
  BY <1>6, <1>7, <1>8, <1>9 DEF Carries, DeliveryInv

\* A handler sends its message on, or the broker gets it back.
LEMMA ReturnStep ==
  ASSUME DeliveryInv, NEW h \in Handlers, PublishRetry(h) \/ Stop(h) PROVE Carries
<1> DEFINE n == IF PublishRetry(h) THEN hand[h].attempt + 1 ELSE hand[h].attempt
<1>1. /\ hand[h].step # "idle" /\ begun' = begun /\ outbox' = outbox
      /\ queue' = [queue EXCEPT ![<<hand[h].job, n>>] = @ + 1]
      /\ faults' = faults \/ Fault
  BY DEF PublishRetry, Stop
<1>2. hand[h].job \in Jobs /\ hand[h].attempt \in Nat
  BY <1>1, Numbers DEF DeliveryInv, Hands
<1>3. n \in Nat /\ n < Limit
  BY <1>2 DEF PublishRetry, DeliveryInv, Bounded
<1> HIDE DEF n
<1>4. /\ queue' \in [Jobs \X Attempts -> Nat] /\ faults' \in 0..MaxFaults /\ Grows
      /\ n \in Attempts /\ queue'[<<hand[h].job, n>>] > 0
      /\ \A i \in Jobs, m \in Attempts : queue[<<i, m>>] > 0 => queue'[<<i, m>>] > 0
      /\ \A i \in Jobs, m \in Attempts : queue'[<<i, m>>] > 0 => m < Limit'
  BY <1>1, <1>2, <1>3, Sends
<1>5. /\ hand' \in [Handlers -> [job: Jobs \cup {NoJob}, attempt: Attempts, step: Steps]]
      /\ \A g \in Handlers : g # h => hand'[g] = hand[g]
      /\ \/ hand'[h] = Idle
         \/ hand'[h].step = "ack" /\ hand'[h].job = hand[h].job /\ hand'[h].attempt = hand[h].attempt
  <2>1. hand \in [Handlers -> [job: Jobs \cup {NoJob}, attempt: Attempts, step: Steps]]
    BY DEF DeliveryInv, DeliveryTypeOK
  <2>2. CASE hand' = [hand EXCEPT ![h] = Idle]
    <3>1. Idle \in [job: Jobs \cup {NoJob}, attempt: Attempts, step: Steps]
      BY Numbers DEF DeliveryInv, Idle, Steps
    <3> QED BY <2>1, <2>2, <3>1
  <2>3. CASE hand' = [hand EXCEPT ![h].step = "ack"]
    <3>1. "ack" \in Steps
      BY DEF Steps
    <3> QED BY <2>1, <2>3, <3>1
  <2> QED BY <2>2, <2>3 DEF PublishRetry, Stop, Goto
<1>6. DeliveryTypeOK' /\ Hands'
  BY <1>1, <1>2, <1>4, <1>5 DEF DeliveryInv, DeliveryTypeOK, Hands, Idle
<1>7. Bounded'
  <2>1. \A g \in Handlers : hand[g].attempt \in Nat
    BY Numbers DEF DeliveryInv
  <2>2. hand'[h].attempt < Limit' /\ hand'[h].step # "retry"
    BY <1>4, <1>5, <2>1 DEF DeliveryInv, Bounded, Idle, Grows
  <2>3. \A g \in Handlers : g # h => /\ hand'[g].attempt < Limit'
                                     /\ hand'[g].step = "retry" => hand'[g].attempt + 1 < Limit'
    <3>1. \A k \in Nat : k < Limit => k < Limit'
      BY <1>4 DEF Grows
    <3>2. \A g \in Handlers : /\ hand[g].attempt < Limit'
                              /\ hand[g].step = "retry" => hand[g].attempt + 1 < Limit'
      BY <2>1, <3>1 DEF DeliveryInv, Bounded
    <3> QED BY <1>5, <3>2
  <2>4. \A g \in Handlers : hand'[g].attempt < Limit'
    BY <2>2, <2>3
  <2>5. \A g \in Handlers : hand'[g].step = "retry" => hand'[g].attempt + 1 < Limit'
    BY <2>2, <2>3
  <2> QED BY <1>4, <2>4, <2>5 DEF Bounded
<1>8. \A i \in Jobs : Outstanding(i) => Outstanding(i)'
  BY <1>1, <1>4, <1>5 DEF Outstanding
<1> QED
  BY <1>5, <1>6, <1>7, <1>8 DEF Carries, DeliveryInv, Idle

LEMMA AckStep == ASSUME DeliveryInv, NEW h \in Handlers, Ack(h) PROVE Carries
<1>1. /\ hand[h].step \in {"ack", "dead"} /\ hand' = [hand EXCEPT ![h] = Idle]
      /\ UNCHANGED <<begun, outbox, queue, faults>>
  BY DEF Ack
<1>2. /\ hand' \in [Handlers -> [job: Jobs \cup {NoJob}, attempt: Attempts, step: Steps]]
      /\ hand'[h] = Idle /\ \A g \in Handlers : g # h => hand'[g] = hand[g]
  <2>1. Idle \in [job: Jobs \cup {NoJob}, attempt: Attempts, step: Steps]
    BY Numbers DEF DeliveryInv, Idle, Steps
  <2> QED BY <1>1, <2>1 DEF DeliveryInv, DeliveryTypeOK
<1>3. DeliveryTypeOK' /\ Hands'
  BY <1>1, <1>2 DEF DeliveryInv, DeliveryTypeOK, Hands, Idle
<1>4. Bounded'
  BY <1>1, <1>2, Numbers DEF DeliveryInv, Bounded, Idle, Limit
<1>5. \A i \in Jobs : Outstanding(i) => Outstanding(i)'
  BY <1>1, <1>2 DEF Outstanding
<1> QED
  BY <1>2, <1>3, <1>4, <1>5 DEF Carries, DeliveryInv, Idle

LEMMA DeliveryStep == ASSUME DeliveryInv, DeliveryNext PROVE Carries
  BY PublishEventStep, DeliverStep, ReturnStep, AckStep DEF DeliveryNext
-----------------------------------------------------------------------------
(* Online evaluation.                                                      *)

\* The delivery as the producers and the miners leave it: some rows of the
\* outbox become pending.
LEMMA RowsOnly ==
  ASSUME DeliveryInv, begun' \in SUBSET Jobs, UNCHANGED <<queue, hand>>,
         outbox' \in [Jobs -> {"none", "pending", "published"}],
         \A j \in Jobs : outbox'[j] # outbox[j] => outbox'[j] = "pending",
         NoFault \/ Fault
  PROVE  DeliveryInv' /\ \A j \in Jobs : Outstanding(j) => Outstanding(j)'
<1>1. faults' \in 0..MaxFaults /\ Limit \in Nat /\ Limit' \in Nat /\ Limit <= Limit'
  BY Numbers DEF DeliveryInv, Fault, NoFault, Limit
<1>2. \A n \in Nat : n < Limit => n < Limit'
  BY <1>1
<1>3. \A n \in Attempts : n \in Nat
  BY Numbers DEF DeliveryInv
<1>4. \A h \in Handlers : hand[h].attempt \in Nat
  BY Numbers DEF DeliveryInv
<1>5. Bounded'
  <2>1. \A j \in Jobs, n \in Attempts : queue[<<j, n>>] > 0 => n < Limit'
    BY <1>2, <1>3 DEF DeliveryInv, Bounded
  <2>2. \A h \in Handlers : hand[h].attempt < Limit'
    BY <1>2, <1>4 DEF DeliveryInv, Bounded
  <2>3. \A h \in Handlers : hand[h].step = "retry" => hand[h].attempt + 1 < Limit'
    BY <1>2, <1>4 DEF DeliveryInv, Bounded
  <2> QED BY <2>1, <2>2, <2>3 DEF Bounded
<1>6. DeliveryTypeOK' /\ Hands'
  BY <1>1 DEF DeliveryInv, DeliveryTypeOK, Hands
<1>7. \A j \in Jobs : Outstanding(j) => Outstanding(j)'
  BY DEF Outstanding, DeliveryInv, DeliveryTypeOK
<1> QED
  BY <1>5, <1>6, <1>7 DEF DeliveryInv

Done == Final \cup {"pruned"}

\* The status of one sample changes, and what is evaluated stays evaluated.
Turns(s) ==
  /\ EvaluationTypeOK'
  /\ \A t \in Samples : t # s => sample'[t] = sample[t]
  /\ sample[s] \in Done => sample'[s] \in Done

\* A handler of samples moves on, and finishes only what needs no message.
Handled(h, st) ==
  /\ Goto(h, st) /\ UNCHANGED <<begun, outbox, queue>>
  /\ \/ NoFault /\ (st = "retry" => hand[h].attempt + 1 < Limit)
     \/ Fault
  /\ Turns(hand[h].job)
  /\ st \in {"ack", "dead"} => sample'[hand[h].job] \notin Open

LEMMA Becomes ==
  ASSUME EvaluationTypeOK, NEW s \in Samples, NEW v \in SampleStatus, Become(s, v),
         low' \in [Samples -> BOOLEAN], sample[s] \in Done => v \in Done
  PROVE  Turns(s) /\ sample'[s] = v
  BY DEF EvaluationTypeOK, Turns, Become

LEMMA VerdictStep ==
  ASSUME EvaluationTypeOK, NEW s \in Samples, StoreVerdict(s)
  PROVE  Turns(s) /\ sample'[s] \notin Open
<1>1. CASE ~Stored(s) /\ UNCHANGED evaluationVars
  BY <1>1 DEF Turns, EvaluationTypeOK, evaluationVars, Stored
<1>2. CASE Stored(s) /\ Become(s, "completed")
            /\ \E l \in IF Origin[s] = "acceptance" THEN {FALSE} ELSE BOOLEAN :
                 low' = [low EXCEPT ![s] = l]
  <2>1. low' \in [Samples -> BOOLEAN]
    BY <1>2 DEF EvaluationTypeOK
  <2>2. "completed" \in SampleStatus /\ "completed" \in Done /\ "completed" \notin Open
    BY DEF SampleStatus, Done, Final, Open
  <2> QED BY <1>2, <2>1, <2>2, Becomes
<1>3. CASE Stored(s) /\ Become(s, "judge_failed") /\ UNCHANGED low
  <2>1. low' \in [Samples -> BOOLEAN]
    BY <1>3 DEF EvaluationTypeOK
  <2>2. "judge_failed" \in SampleStatus /\ "judge_failed" \in Done /\ "judge_failed" \notin Open
    BY DEF SampleStatus, Done, Final, Open
  <2> QED BY <1>3, <2>1, <2>2, Becomes
<1> QED
  BY <1>1, <1>2, <1>3 DEF StoreVerdict

LEMMA EvaluationHandled ==
  ASSUME DeliveryInv, EvaluationTypeOK, NEW h \in Handlers, EvaluationStep(h)
  PROVE  /\ hand[h].job \in Samples /\ hand[h].step # "idle"
         /\ \E st \in Steps \ {"idle", "indexed"} : Handled(h, st)
<1> DEFINE s == hand[h].job
<1>1. s \in Samples /\ hand[h].step # "idle"
  BY DEF EvaluationStep, GetSample, MarkEvaluating, Judge, ExhaustSample, Evaluates
<1>2. ASSUME UNCHANGED evaluationVars PROVE Turns(s)
  BY <1>2 DEF Turns, EvaluationTypeOK, evaluationVars
<1>3. /\ OnFailure(h) \in Steps \ {"idle", "indexed"} /\ OnFailure(h) \notin {"ack", "dead"}
  BY FailureMoves DEF Steps
<1>4. {"ack", "dead", "mark", "judge", "retry"} \subseteq Steps \ {"idle", "indexed"}
  BY DEF Steps
<1>5. CASE GetSample(h)
  <2>1. UNCHANGED <<begun, outbox, queue>> /\ Turns(s) /\ sample' = sample
    BY <1>2, <1>5 DEF GetSample, evaluationVars
  <2>2. CASE Goto(h, OnFailure(h)) /\ Fault
    <3>1. Handled(h, OnFailure(h))
      BY <1>3, <2>1, <2>2 DEF Handled
    <3> QED BY <1>1, <1>3, <1>4, <3>1
  <2>3. CASE sample[s] = "pruned" /\ Goto(h, "dead") /\ NoFault
    <3>1. Handled(h, "dead")
      BY <2>1, <2>3 DEF Handled, Open
    <3> QED BY <1>1, <1>3, <1>4, <3>1
  <2>4. CASE sample[s] \in {"completed", "judge_failed"} /\ Goto(h, "ack") /\ NoFault
    <3>1. Handled(h, "ack")
      BY <2>1, <2>4 DEF Handled, Open
    <3> QED BY <1>1, <1>3, <1>4, <3>1
  <2>5. CASE Goto(h, "mark") /\ NoFault
    <3>1. Handled(h, "mark")
      BY <2>1, <2>5 DEF Handled
    <3> QED BY <1>1, <1>3, <1>4, <3>1
  <2> QED BY <1>5, <2>2, <2>3, <2>4, <2>5 DEF GetSample
<1>6. CASE MarkEvaluating(h)
  <2>1. UNCHANGED <<low, begun, outbox, queue>>
    BY <1>6 DEF MarkEvaluating
  <2>2. ASSUME Claimable(s), Become(s, "evaluating") PROVE Turns(s)
    <3>1. "evaluating" \in SampleStatus /\ sample[s] \notin Done
      BY <2>2 DEF SampleStatus, Open, Claimable, Done, Final
    <3>2. low' \in [Samples -> BOOLEAN]
      BY <2>1 DEF EvaluationTypeOK
    <3> QED BY <1>1, <2>2, <3>1, <3>2, Becomes
  <2>3. ASSUME UNCHANGED sample PROVE Turns(s)
    BY <1>2, <2>1, <2>3 DEF evaluationVars
  <2>4. CASE NoFault /\ Claimable(s) /\ Become(s, "evaluating") /\ Goto(h, "judge")
    <3>1. Handled(h, "judge")
      BY <2>1, <2>2, <2>4 DEF Handled
    <3> QED BY <1>1, <1>3, <1>4, <3>1
  <2>5. CASE NoFault /\ ~Claimable(s) /\ UNCHANGED sample /\ Goto(h, "ack")
    <3>1. Handled(h, "ack")
      BY <2>1, <2>3, <2>5 DEF Handled, Claimable
    <3> QED BY <1>1, <1>3, <1>4, <3>1
  <2>6. CASE /\ Fault /\ Goto(h, OnFailure(h))
             /\ UNCHANGED sample \/ (Claimable(s) /\ Become(s, "evaluating"))
    <3>1. Handled(h, OnFailure(h))
      BY <1>3, <2>1, <2>2, <2>3, <2>6 DEF Handled
    <3> QED BY <1>1, <1>3, <1>4, <3>1
  <2> QED BY <1>6, <2>4, <2>5, <2>6 DEF MarkEvaluating
<1>7. CASE Judge(h)
  <2>1. UNCHANGED <<begun, outbox, queue>>
    BY <1>7 DEF Judge
  <2>2. CASE StoreVerdict(s) /\ Goto(h, "ack") /\ NoFault
    <3>1. Handled(h, "ack")
      BY <1>1, <2>1, VerdictStep, <2>2 DEF Handled
    <3> QED BY <1>1, <1>3, <1>4, <3>1
  <2>3. CASE Fault /\ Goto(h, OnFailure(h)) /\ (StoreVerdict(s) \/ UNCHANGED evaluationVars)
    <3>1. Handled(h, OnFailure(h))
      BY <1>1, <1>2, <1>3, <2>1, VerdictStep, <2>3 DEF Handled
    <3> QED BY <1>1, <1>3, <1>4, <3>1
  <2> QED BY <1>7, <2>2, <2>3 DEF Judge
<1>8. CASE ExhaustSample(h)
  <2>1. UNCHANGED <<low, begun, outbox, queue>>
    BY <1>8 DEF ExhaustSample
  <2>2. ASSUME Stored(s), Become(s, "dead") PROVE Turns(s) /\ sample'[s] = "dead"
    <3>1. "dead" \in SampleStatus /\ "dead" \in Done /\ low' \in [Samples -> BOOLEAN]
      BY <2>1 DEF SampleStatus, Done, Final, EvaluationTypeOK
    <3> QED BY <1>1, <2>2, <3>1, Becomes
  <2>3. ASSUME UNCHANGED sample PROVE Turns(s)
    BY <1>2, <2>1, <2>3 DEF evaluationVars
  <2>4. CASE NoFault /\ Stored(s) /\ Become(s, "dead") /\ Goto(h, "dead")
    <3>1. Handled(h, "dead")
      BY <2>1, <2>2, <2>4 DEF Handled, Open
    <3> QED BY <1>1, <1>3, <1>4, <3>1
  <2>5. CASE NoFault /\ ~Stored(s) /\ UNCHANGED sample /\ Goto(h, "dead")
    <3>1. Handled(h, "dead")
      BY <2>1, <2>3, <2>5 DEF Handled, Stored
    <3> QED BY <1>1, <1>3, <1>4, <3>1
  <2>6. CASE /\ Fault /\ Goto(h, "retry")
             /\ (Stored(s) /\ Become(s, "dead")) \/ UNCHANGED sample
    <3>1. Handled(h, "retry")
      BY <2>1, <2>2, <2>3, <2>6 DEF Handled
    <3> QED BY <1>1, <1>3, <1>4, <3>1
  <2> QED BY <1>8, <2>4, <2>5, <2>6 DEF ExhaustSample, AfterExhaust
<1> QED
  BY <1>1, <1>5, <1>6, <1>7, <1>8 DEF EvaluationStep
\* What a step below the incidents keeps.
Evolves == /\ DeliveryInv' /\ EvaluationTypeOK' /\ NothingStranded'
           /\ \A s \in Samples : Settled(s) => Settled(s)'
           /\ \A h \in Handlers : hand'[h].step = "indexed" => hand'[h] = hand[h]

LEMMA ProducerStep ==
  ASSUME DeliveryInv, EvaluationTypeOK, NothingStranded,
         NEW s \in Samples, NEW v \in SampleStatus, Become(s, v), UNCHANGED <<low, queue, hand, incident>>,
         sample[s] \in Done => v \in Done, begun' \in SUBSET Jobs, NoFault \/ Fault,
         (UNCHANGED outbox /\ v \notin Open) \/ Enqueue(s)
  PROVE  Evolves
<1>1. Turns(s) /\ sample'[s] = v
  BY Becomes DEF EvaluationTypeOK
<1>2. outbox \in [Jobs -> {"none", "pending", "published"}] /\ s \in Jobs
  BY DEF DeliveryInv, DeliveryTypeOK, Jobs
<1>3. /\ outbox' \in [Jobs -> {"none", "pending", "published"}]
      /\ \A j \in Jobs : outbox'[j] # outbox[j] => outbox'[j] = "pending"
      /\ v \in Open => outbox'[s] = "pending"
  BY <1>2 DEF Enqueue
<1>4. DeliveryInv' /\ \A j \in Jobs : Outstanding(j) => Outstanding(j)'
  BY <1>3, RowsOnly
<1>5. NothingStranded'
  <2>1. \A t \in Samples : sample'[t] \in Open => Outstanding(t)'
    <3> SUFFICES ASSUME NEW t \in Samples, sample'[t] \in Open PROVE Outstanding(t)'
      OBVIOUS
    <3>1. CASE t = s
      BY <1>1, <1>3, <3>1 DEF Outstanding
    <3>2. CASE t # s
      BY <1>1, <1>4, <3>2 DEF Turns, NothingStranded, Jobs
    <3> QED BY <3>1, <3>2
  <2>2. \A i \in Incidents : incident'[i].index = "pending" => Outstanding(i)'
    BY <1>4 DEF NothingStranded, Jobs
  <2> QED BY <2>1, <2>2 DEF NothingStranded
<1>6. \A t \in Samples : Settled(t) => Settled(t)'
  BY <1>1 DEF Turns, Settled, Done
<1> QED
  BY <1>1, <1>4, <1>5, <1>6 DEF Evolves, Turns

LEMMA ConsumerStep ==
  ASSUME DeliveryInv, EvaluationTypeOK, NothingStranded, UNCHANGED incident,
         NEW h \in Handlers, EvaluationStep(h)
  PROVE  Evolves
<1> DEFINE s == hand[h].job
<1>1. /\ s \in Samples /\ s \in Jobs /\ hand[h].step # "idle"
      /\ \E st \in Steps \ {"idle", "indexed"} : Handled(h, st)
  BY EvaluationHandled DEF Jobs
<1>2. PICK st \in Steps \ {"idle", "indexed"} : Handled(h, st)
  BY <1>1
<1>3. st \in Steps \ {"idle"} /\ st # "indexed"
  OBVIOUS
<1>4. Turns(s) /\ (st \in {"ack", "dead"} => sample'[s] \notin Open)
  BY <1>2 DEF Handled
<1>5. /\ DeliveryInv' /\ hand'[h].step = st /\ hand'[h].job = s
      /\ \A g \in Handlers : g # h => hand'[g] = hand[g]
      /\ \A j \in Jobs : Outstanding(j) /\ (j = s => st \notin {"ack", "dead"}) => Outstanding(j)'
  BY <1>1, <1>2, <1>3, HandlerMoves DEF Handled
<1>6. NothingStranded'
  <2>1. \A t \in Samples : sample'[t] \in Open => Outstanding(t)'
    <3> SUFFICES ASSUME NEW t \in Samples, sample'[t] \in Open PROVE Outstanding(t)'
      OBVIOUS
    <3>1. CASE t = s
      BY <1>4, <1>5, <3>1 DEF Outstanding
    <3>2. CASE t # s
      BY <1>4, <1>5, <3>2 DEF Turns, NothingStranded, Jobs
    <3> QED BY <3>1, <3>2
  <2>2. \A i \in Incidents : i # s
    BY <1>1, DeliveryAssumption
  <2>3. \A i \in Incidents : incident'[i].index = "pending" => Outstanding(i)'
    BY <1>5, <2>2 DEF NothingStranded, Jobs
  <2> QED BY <2>1, <2>3 DEF NothingStranded
<1>7. \A t \in Samples : Settled(t) => Settled(t)'
  BY <1>1, <1>4 DEF Turns, Settled, Done
<1> QED
  BY <1>3, <1>4, <1>5, <1>6, <1>7 DEF Evolves, Turns

LEMMA EvaluationNextStep ==
  ASSUME DeliveryInv, EvaluationTypeOK, NothingStranded, EvaluationNext, UNCHANGED incident
  PROVE  Evolves
<1>1. ASSUME NEW s \in Samples PROVE s \in Jobs /\ sample[s] \in SampleStatus
  BY DEF Jobs, EvaluationTypeOK
<1>2. begun \in SUBSET Jobs
  BY DEF DeliveryInv, DeliveryTypeOK
<1>3. {"buffered", "dropped", "pending", "pruned"} \subseteq SampleStatus /\ "pruned" \in Done
      /\ "buffered" \notin Open /\ "dropped" \notin Open /\ "pruned" \notin Open
  BY DEF SampleStatus, Open, Done
<1>4. ASSUME NEW s \in Samples, Record(s) PROVE Evolves
  <2> DEFINE v == IF Cardinality(Buffered) < Buffer THEN "buffered" ELSE "dropped"
  <2>1. v \in SampleStatus /\ v \notin Open /\ Become(s, v)
    BY <1>3, <1>4 DEF Record
  <2>2. /\ begun' \in SUBSET Jobs /\ sample[s] \notin Done /\ NoFault
        /\ UNCHANGED <<low, queue, hand, outbox>>
    BY <1>1, <1>2, <1>4 DEF Record, Begin, Done, Final, NoFault
  <2> HIDE DEF v
  <2> QED BY <2>1, <2>2, ProducerStep
<1>5. ASSUME NEW s \in Samples, Persist(s) PROVE Evolves
  <2>1. begun' \in SUBSET Jobs /\ sample[s] \notin Done /\ UNCHANGED <<low, queue, hand>>
    BY <1>2, <1>5 DEF Persist, Done, Final
  <2>2. CASE Become(s, "pending") /\ Enqueue(s) /\ NoFault
    BY <1>3, <2>1, <2>2, ProducerStep
  <2>3. CASE Become(s, "dropped") /\ Fault /\ UNCHANGED outbox
    BY <1>3, <2>1, <2>3, ProducerStep
  <2> QED BY <1>5, <2>2, <2>3 DEF Persist
<1>6. ASSUME NEW s \in Samples, Rate(s) \/ Probe(s) PROVE Evolves
  <2>1. /\ begun' \in SUBSET Jobs /\ sample[s] \notin Done /\ UNCHANGED <<low, queue, hand>>
        /\ Become(s, "pending") /\ Enqueue(s) /\ NoFault
    BY <1>1, <1>2, <1>6 DEF Rate, Probe, Unrated, Begin, Done, Final, NoFault
  <2> QED BY <1>3, <2>1, ProducerStep
<1>7. ASSUME NEW s \in Samples, Prune(s) PROVE Evolves
  <2>1. /\ begun' \in SUBSET Jobs /\ UNCHANGED <<low, queue, hand, outbox>>
        /\ Become(s, "pruned") /\ NoFault
    BY <1>2, <1>7 DEF Prune, deliveryVars, NoFault
  <2> QED BY <1>3, <2>1, ProducerStep
<1> QED
  BY <1>4, <1>5, <1>6, <1>7, ConsumerStep DEF EvaluationNext
-----------------------------------------------------------------------------
(* The failure pool.                                                       *)

LEMMA PoolStep ==
  ASSUME DeliveryInv, EvaluationTypeOK, NothingStranded, PoolInv, PoolNext, UNCHANGED incident
  PROVE  Evolves /\ PoolInv'
<1>1. UNCHANGED <<sample, low, begun, outbox, queue, hand>> /\ (NoFault \/ Fault)
  BY DEF PoolNext, Mine, SaveSnapshot, Materialize, evaluationVars, deliveryVars, NoFault
<1>2. DeliveryInv' /\ \A j \in Jobs : Outstanding(j) => Outstanding(j)'
  <2>1. begun' \in SUBSET Jobs /\ outbox' \in [Jobs -> {"none", "pending", "published"}]
    BY <1>1 DEF DeliveryInv, DeliveryTypeOK
  <2> QED BY <1>1, <2>1, RowsOnly
<1>3. \A s \in Samples : Settled(s)' <=> Settled(s)
  BY <1>1 DEF Settled
<1>4. Evolves
  BY <1>1, <1>2, <1>3 DEF Evolves, EvaluationTypeOK, NothingStranded, Jobs
<1>5. ASSUME NEW m \in Miners, Mine(m) PROVE PoolInv'
  <2> DEFINE r == [at |-> cycles', window |-> Window,
                   cluster |-> [c \in Causes |-> {s \in Window : Eligible(s) /\ Cause(s) = c}]]
  <2>1. mined' = [mined EXCEPT ![m] = r] /\ pool' = pool /\ candidates' = candidates
    BY <1>5 DEF Mine
  <2>2. cycles' \in 0..MaxCycles /\ cycles' \in Nat
    BY <1>5, PoolAssumption DEF Mine, PoolInv, PoolTypeOK
  <2>3. r \in Snapshots
    BY <2>2 DEF Snapshots, Window
  <2>4. \A c \in Causes : \A s \in r.cluster[c] : s \in Samples /\ Settled(s)
    BY DEF Window, Eligible, Settled
  <2>5. r # NoCycle
    BY <2>3, NoCycleAssumption
  <2> HIDE DEF r
  <2>6. /\ mined' \in [Miners -> Snapshots \cup {NoCycle}] /\ mined'[m] = r
        /\ \A k \in Miners : k # m => mined'[k] = mined[k]
    BY <2>1, <2>3 DEF PoolInv, PoolTypeOK
  <2>7. PoolTypeOK'
    BY <2>1, <2>2, <2>6 DEF PoolInv, PoolTypeOK
  <2>8. \A k \in Miners : mined'[k] # NoCycle =>
          \A c \in Causes : \A s \in mined'[k].cluster[c] : Settled(s)
    BY <2>4, <2>6 DEF PoolInv
  <2> QED BY <1>1, <2>1, <2>7, <2>8 DEF PoolInv, Settled
<1>6. ASSUME NEW m \in Miners, SaveSnapshot(m) PROVE PoolInv'
  <2>1. /\ mined[m] # NoCycle /\ mined' = [mined EXCEPT ![m] = NoCycle]
        /\ pool' = pool \/ pool' = pool \cup {mined[m]}
        /\ cycles' = cycles /\ candidates' = candidates
    BY <1>6 DEF SaveSnapshot
  <2>2. /\ mined' \in [Miners -> Snapshots \cup {NoCycle}] /\ mined[m] \in Snapshots
        /\ mined'[m] = NoCycle /\ \A k \in Miners : k # m => mined'[k] = mined[k]
    BY <2>1 DEF PoolInv, PoolTypeOK
  <2>3. PoolTypeOK'
    BY <2>1, <2>2 DEF PoolInv, PoolTypeOK
  <2>4. \A q \in pool' : \A c \in Causes : \A s \in q.cluster[c] : Settled(s)
    BY <2>1 DEF PoolInv
  <2>5. \A k \in Miners : mined'[k] # NoCycle =>
          \A c \in Causes : \A s \in mined'[k].cluster[c] : Settled(s)
    BY <2>2 DEF PoolInv
  <2> QED BY <1>1, <2>1, <2>3, <2>4, <2>5 DEF PoolInv, Settled
<1>7. ASSUME Materialize PROVE PoolInv'
  <2>1. PICK r \in pool :
          candidates' \subseteq candidates \cup
             {[window |-> r.window, cause |-> c, of |-> r.cluster[c]] :
                c \in {c \in Templates : r.cluster[c] # {}}}
    BY <1>7 DEF Materialize
  <2>2. UNCHANGED <<cycles, mined, pool>>
    BY <1>7 DEF Materialize
  <2>3. ASSUME NEW k \in candidates'
        PROVE  /\ k \in [window: SUBSET Samples, cause: Causes, of: SUBSET Samples]
               /\ \A s \in k.of : Settled(s)
    <3>1. CASE k \in candidates
      BY <3>1 DEF PoolInv, PoolTypeOK
    <3>2. CASE \E c \in Templates : k = [window |-> r.window, cause |-> c, of |-> r.cluster[c]]
      <4>1. r \in Snapshots /\ \A c \in Causes : \A s \in r.cluster[c] : Settled(s)
        BY DEF PoolInv, PoolTypeOK
      <4>2. PICK c \in Templates : k = [window |-> r.window, cause |-> c, of |-> r.cluster[c]]
        BY <3>2
      <4>3. c \in Causes
        BY DEF Templates, Causes
      <4>4. r.window \in SUBSET Samples /\ r.cluster[c] \in SUBSET Samples
        BY <4>1, <4>3 DEF Snapshots
      <4> QED BY <4>1, <4>2, <4>3, <4>4
    <3> QED BY <2>1, <3>1, <3>2
  <2>4. PoolTypeOK'
    BY <2>2, <2>3 DEF PoolInv, PoolTypeOK
  <2> QED BY <1>1, <2>2, <2>3, <2>4 DEF PoolInv, Settled
<1> QED
  BY <1>4, <1>5, <1>6, <1>7 DEF PoolNext

LEMMA PoolKept ==
  ASSUME PoolInv, \A s \in Samples : Settled(s) => Settled(s)', UNCHANGED poolVars
  PROVE  PoolInv'
<1>1. UNCHANGED <<cycles, mined, pool, candidates>> /\ PoolTypeOK'
  BY DEF PoolInv, PoolTypeOK, poolVars
<1>2. \A r \in pool : \A c \in Causes : r.cluster[c] \subseteq Samples
  BY DEF PoolInv, PoolTypeOK, Snapshots
<1>3. \A m \in Miners : mined[m] # NoCycle => \A c \in Causes : mined[m].cluster[c] \subseteq Samples
  <2>1. \A m \in Miners : mined[m] # NoCycle => mined[m] \in Snapshots
    BY DEF PoolInv, PoolTypeOK
  <2> QED BY <2>1 DEF Snapshots
<1>4. \A k \in candidates : k.of \subseteq Samples
  BY DEF PoolInv, PoolTypeOK
<1> QED
  BY <1>1, <1>2, <1>3, <1>4 DEF PoolInv
-----------------------------------------------------------------------------
(* Confirmed incidents.                                                    *)

\* The inserts of a confirmation.
Stores(q) ==
  /\ ~Exists(q.run) /\ Enqueue(q.run)
  /\ incident' = [incident EXCEPT ![q.run] =
                    [index |-> "pending", key |-> q.key, hypothesis |-> q.hypothesis]]

Inserted(q) ==
  /\ incident' \in [Incidents -> [index: {"none", "pending", "indexed", "failed"},
                                 key: Keys \cup {Nothing}, hypothesis: Hypotheses \cup {Nothing}]]
  /\ incident'[q.run].index = "pending" /\ incident'[q.run].hypothesis = q.hypothesis
  /\ \A i \in Incidents : i # q.run => incident'[i] = incident[i]

LEMMA StoreIncident ==
  ASSUME DeliveryInv, EvaluationTypeOK, NothingStranded, IncidentTypeOK,
         NEW q \in Commands, Stores(q), NoFault \/ Fault,
         UNCHANGED <<begun, queue, hand, sample, low>>
  PROVE  Evolves /\ Inserted(q)
<1>1. q.run \in Incidents /\ q.run \in Jobs /\ q.key \in Keys /\ q.hypothesis \in Hypotheses
  BY DEF Commands, Jobs
<1>2. /\ incident' \in [Incidents -> [index: {"none", "pending", "indexed", "failed"},
                                 key: Keys \cup {Nothing}, hypothesis: Hypotheses \cup {Nothing}]]
      /\ incident'[q.run] = [index |-> "pending", key |-> q.key, hypothesis |-> q.hypothesis]
      /\ \A i \in Incidents : i # q.run => incident'[i] = incident[i]
  BY <1>1 DEF IncidentTypeOK, Stores
<1>3. /\ outbox' \in [Jobs -> {"none", "pending", "published"}] /\ outbox'[q.run] = "pending"
      /\ \A j \in Jobs : outbox'[j] # outbox[j] => outbox'[j] = "pending"
      /\ begun' \in SUBSET Jobs
  BY <1>1 DEF DeliveryInv, DeliveryTypeOK, Enqueue, Stores
<1>4. DeliveryInv' /\ \A j \in Jobs : Outstanding(j) => Outstanding(j)'
  BY <1>3, RowsOnly
<1>5. NothingStranded'
  <2>1. \A s \in Samples : sample'[s] \in Open => Outstanding(s)'
    BY <1>4 DEF NothingStranded, Jobs
  <2>2. \A i \in Incidents : incident'[i].index = "pending" => Outstanding(i)'
    <3> SUFFICES ASSUME NEW i \in Incidents, incident'[i].index = "pending" PROVE Outstanding(i)'
      OBVIOUS
    <3>1. CASE i = q.run
      BY <1>3, <3>1 DEF Outstanding
    <3>2. CASE i # q.run
      BY <1>2, <1>4, <3>2 DEF NothingStranded, Jobs
    <3> QED BY <3>1, <3>2
  <2> QED BY <2>1, <2>2 DEF NothingStranded
<1>6. EvaluationTypeOK' /\ \A s \in Samples : Settled(s)' <=> Settled(s)
  BY DEF EvaluationTypeOK, Settled
<1> QED
  BY <1>2, <1>4, <1>5, <1>6 DEF Evolves, Inserted

\* A transaction that only reads, or leaves nothing behind.
LEMMA NothingStored ==
  ASSUME DeliveryInv, EvaluationTypeOK, NothingStranded, begun' \in SUBSET Jobs, NoFault \/ Fault,
         UNCHANGED <<outbox, queue, hand, sample, low, incident>>
  PROVE  Evolves
<1>1. outbox' \in [Jobs -> {"none", "pending", "published"}]
  BY DEF DeliveryInv, DeliveryTypeOK
<1>2. DeliveryInv' /\ \A j \in Jobs : Outstanding(j) => Outstanding(j)'
  BY <1>1, RowsOnly
<1> QED
  BY <1>2 DEF Evolves, NothingStranded, Jobs, EvaluationTypeOK, Settled

LEMMA ConfirmStep ==
  ASSUME DeliveryInv, EvaluationTypeOK, NothingStranded, IncidentInv, NEW c \in Clients,
         ReadConfirm(c) \/ InsertConfirm(c) \/ LoseConfirm(c)
  PROVE  Evolves /\ IncidentInv'
<1> USE DEF IncidentInv
<1>1. /\ UNCHANGED <<projected, queue, hand, sample, low>> /\ (NoFault \/ Fault)
  BY DEF ReadConfirm, InsertConfirm, LoseConfirm, poolVars, evaluationVars, NoFault
<1>2. /\ begun \in SUBSET Jobs /\ told \in [Incidents -> SUBSET Hypotheses]
      /\ asking \in [Clients -> Commands \cup {Nothing}]
      /\ \A q \in Commands : q.run \in Incidents /\ q.hypothesis \in Hypotheses
      /\ \A q \in Commands : q # Nothing /\ q.hypothesis # Nothing
  BY IncidentAssumption DEF DeliveryInv, DeliveryTypeOK, IncidentTypeOK, Commands
<1>3. ASSUME NEW q \in Commands, Tell(q), UNCHANGED <<incident, outbox>>, begun' = begun,
             asking' \in [Clients -> Commands \cup {Nothing}],
             incident[q.run].hypothesis = q.hypothesis
      PROVE  Evolves /\ IncidentInv'
  <2>1. Exists(q.run)
    BY <1>2, <1>3
  <2>2. /\ told' \in [Incidents -> SUBSET Hypotheses] /\ told'[q.run] = told[q.run] \cup {q.hypothesis}
        /\ \A i \in Incidents : i # q.run => told'[i] = told[i]
    BY <1>2, <1>3 DEF Tell
  <2>3. Evolves
    BY <1>1, <1>2, <1>3, NothingStored
  <2>4. IncidentTypeOK'
    BY <1>1, <1>3, <2>2 DEF IncidentTypeOK
  <2>5. ConfirmedIsStored'
    BY <1>1, <1>3, <2>2 DEF ConfirmedIsStored
  <2>6. \A i \in Incidents : /\ told'[i] # {} => Exists(i)'
                             /\ ~Exists(i)' => incident'[i].key = Nothing /\ incident'[i].hypothesis = Nothing
    <3>1. \A i \in Incidents : Exists(i)' <=> Exists(i)
      BY <1>3 DEF Exists
    <3> QED BY <1>3, <2>1, <2>2, <3>1
  <2> QED BY <1>1, <2>3, <2>4, <2>5, <2>6 DEF Indexes
<1>4. ASSUME UNCHANGED <<told, incident, outbox>>, begun' \in SUBSET Jobs,
             asking' \in [Clients -> Commands \cup {Nothing}]
      PROVE  Evolves /\ IncidentInv'
  <2>1. Evolves
    BY <1>1, <1>4, NothingStored
  <2> QED BY <1>1, <1>4, <2>1 DEF IncidentTypeOK, ConfirmedIsStored, Exists, Indexes
<1>5. ASSUME NEW q \in Commands, Stores(q), begun' = begun,
             asking' \in [Clients -> Commands \cup {Nothing}],
             Tell(q) \/ UNCHANGED told
      PROVE  Evolves /\ IncidentInv'
  <2>0. Evolves /\ Inserted(q)
    <3>1. UNCHANGED <<begun, queue, hand, sample, low>> /\ IncidentTypeOK
      BY <1>1, <1>5
    <3> QED BY <1>1, <1>5, <3>1, StoreIncident
  <2>1. /\ Evolves /\ incident'[q.run].hypothesis = q.hypothesis
        /\ incident' \in [Incidents -> [index: {"none", "pending", "indexed", "failed"},
                                 key: Keys \cup {Nothing}, hypothesis: Hypotheses \cup {Nothing}]]
        /\ \A i \in Incidents : i # q.run => incident'[i] = incident[i]
        /\ incident'[q.run].index = "pending"
    BY <2>0 DEF Inserted
  <2>2. told[q.run] = {}
    BY <1>2, <1>5 DEF Stores
  <2>3. /\ told' \in [Incidents -> SUBSET Hypotheses] /\ told'[q.run] \subseteq {q.hypothesis}
        /\ \A i \in Incidents : i # q.run => told'[i] = told[i]
    BY <1>2, <1>5, <2>2 DEF Tell
  <2>4. IncidentTypeOK'
    BY <1>1, <1>5, <2>1, <2>3 DEF IncidentTypeOK
  <2>5. ConfirmedIsStored'
    BY <1>1, <2>1, <2>3 DEF ConfirmedIsStored
  <2>6. \A i \in Incidents : /\ told'[i] # {} => Exists(i)'
                             /\ ~Exists(i)' => incident'[i].key = Nothing /\ incident'[i].hypothesis = Nothing
    <3>1. Exists(q.run)'
      BY <2>1 DEF Exists
    <3> SUFFICES ASSUME NEW i \in Incidents, i # q.run
                 PROVE  /\ told'[i] # {} => Exists(i)'
                        /\ ~Exists(i)' => incident'[i].key = Nothing /\ incident'[i].hypothesis = Nothing
      BY <3>1
    <3> QED BY <2>1, <2>3 DEF Exists
  <2> QED BY <1>1, <2>1, <2>4, <2>5, <2>6 DEF Indexes
<1>6. CASE ReadConfirm(c)
  <2>1. PICK q \in Commands :
          IF KeyUsed(q.key) \/ Exists(q.run)
          THEN /\ IF KeyUsed(q.key) THEN SameRequest(q) ELSE SameOutcome(q)
               /\ Tell(q)
               /\ UNCHANGED <<asking, begun>>
          ELSE Begin(q.run) /\ asking' = [asking EXCEPT ![c] = q] /\ UNCHANGED told
    BY <1>6 DEF ReadConfirm
  <2>2. UNCHANGED <<incident, outbox>>
    BY <1>6 DEF ReadConfirm
  <2>3. CASE KeyUsed(q.key) \/ Exists(q.run)
    BY <1>2, <1>3, <2>1, <2>2, <2>3 DEF SameRequest, SameOutcome
  <2>4. CASE ~(KeyUsed(q.key) \/ Exists(q.run))
    <3>1. begun' \in SUBSET Jobs /\ asking' \in [Clients -> Commands \cup {Nothing}]
      BY <1>2, <2>1, <2>4 DEF Begin, Jobs
    <3> QED BY <1>4, <2>1, <2>2, <2>4, <3>1
  <2> QED BY <2>3, <2>4
<1>7. CASE InsertConfirm(c)
  <2> DEFINE q == asking[c]
  <2>1. /\ q \in Commands /\ begun' = begun /\ asking' \in [Clients -> Commands \cup {Nothing}]
    BY <1>2, <1>7 DEF InsertConfirm
  <2>2. CASE KeyUsed(q.key) \/ Exists(q.run)
    <3>1. UNCHANGED <<incident, outbox>> /\ IF SameRequest(q) THEN Tell(q) ELSE UNCHANGED told
      BY <1>7, <2>2 DEF InsertConfirm
    <3> QED BY <1>2, <1>3, <1>4, <2>1, <3>1 DEF SameRequest
  <2>3. CASE ~(KeyUsed(q.key) \/ Exists(q.run))
    <3>1. Stores(q) /\ Tell(q)
      BY <1>7, <2>3 DEF InsertConfirm, Stores
    <3> HIDE DEF q
    <3> QED BY <1>5, <2>1, <2>3, <3>1
  <2> QED BY <2>2, <2>3
<1>8. CASE LoseConfirm(c)
  <2> DEFINE q == asking[c]
  <2>1. /\ q \in Commands /\ begun' = begun /\ asking' \in [Clients -> Commands \cup {Nothing}]
        /\ UNCHANGED told
    BY <1>2, <1>8 DEF LoseConfirm
  <2>2. CASE UNCHANGED <<incident, outbox>>
    BY <1>2, <1>4, <2>1, <2>2
  <2>3. CASE ~UNCHANGED <<incident, outbox>>
    <3>1. Stores(q)
      BY <1>8, <2>3 DEF LoseConfirm, Stores
    <3> HIDE DEF q
    <3> QED BY <1>5, <2>1, <3>1
  <2> QED BY <2>2, <2>3
<1> QED
  BY <1>6, <1>7, <1>8

\* The index worker's part: the incident of the message changes its index.
Marks(i) ==
  /\ \A k \in Incidents : /\ incident'[k].key = incident[k].key
                          /\ incident'[k].hypothesis = incident[k].hypothesis
                          /\ incident'[k].index = "none" => incident[k].index = "none"
                          /\ k # i => incident'[k] = incident[k]
  /\ incident' \in [Incidents -> [index: {"none", "pending", "indexed", "failed"},
                                 key: Keys \cup {Nothing}, hypothesis: Hypotheses \cup {Nothing}]]

Indexed(h, st) ==
  /\ Goto(h, st) /\ UNCHANGED <<begun, outbox, queue>>
  /\ \/ NoFault /\ (st = "retry" => hand[h].attempt + 1 < Limit)
     \/ Fault
  /\ Marks(hand[h].job)
  /\ projected \subseteq projected' /\ projected' \subseteq Incidents
  /\ st = "indexed" => hand[h].job \in projected'
  /\ incident'[hand[h].job].index = "indexed" => hand[h].job \in projected'
  /\ st \in {"ack", "dead"} => incident'[hand[h].job].index # "pending"

LEMMA SetIndexMarks ==
  ASSUME IncidentTypeOK, NEW i \in Incidents, NEW v \in {"pending", "indexed", "failed"}, SetIndex(i, v)
  PROVE  Marks(i) /\ incident'[i].index = v
  BY DEF IncidentTypeOK, SetIndex, Marks

LEMMA IndexHandled ==
  ASSUME DeliveryInv, IncidentInv, NEW h \in Handlers, IndexStep(h)
  PROVE  /\ hand[h].job \in Incidents /\ hand[h].step # "idle"
         /\ \E st \in Steps \ {"idle"} : Indexed(h, st)
<1> DEFINE i == hand[h].job
<1>1. i \in Incidents /\ hand[h].step # "idle"
  BY DEF IndexStep, GetIncident, Index, MarkIndexed, NoteFailure, ExhaustIncident, Indexes
<1>2. ASSUME UNCHANGED incident PROVE Marks(i) /\ incident'[i].index = incident[i].index
  BY <1>2 DEF Marks, IncidentInv, IncidentTypeOK
<1>3. /\ OnFailure(h) \in Steps \ {"idle"} /\ OnFailure(h) \notin {"ack", "dead", "indexed"}
      /\ OnFailure(h) = "retry" => hand[h].attempt + 1 < Limit
  BY FailureMoves
<1>4. {"ack", "dead", "index", "indexed", "note", "retry"} \subseteq Steps \ {"idle"}
  BY DEF Steps
<1>5. projected \subseteq Incidents /\ (incident[i].index = "indexed" => i \in projected)
  BY <1>1 DEF IncidentInv, IncidentTypeOK, ConfirmedIsStored
<1>6. ASSUME NEW v \in {"pending", "indexed", "failed"}, SetIndex(i, v)
      PROVE  Marks(i) /\ incident'[i].index = v
  BY <1>1, <1>6, SetIndexMarks DEF IncidentInv
<1>7. CASE GetIncident(h)
  <2>1. UNCHANGED <<incident, projected, begun, outbox, queue>>
    BY <1>7 DEF GetIncident
  <2>2. CASE incident[i].index = "indexed" /\ Goto(h, "ack") /\ NoFault
    <3>1. Indexed(h, "ack")
      BY <1>2, <1>5, <2>1, <2>2 DEF Indexed
    <3> QED BY <1>1, <1>4, <3>1
  <2>3. CASE Goto(h, "index") /\ NoFault
    <3>1. Indexed(h, "index")
      BY <1>2, <1>5, <2>1, <2>3 DEF Indexed
    <3> QED BY <1>1, <1>4, <3>1
  <2>4. CASE Goto(h, OnFailure(h)) /\ Fault
    <3>1. Indexed(h, OnFailure(h))
      BY <1>2, <1>3, <1>5, <2>1, <2>4 DEF Indexed
    <3> QED BY <1>1, <1>3, <3>1
  <2> QED BY <1>7, <2>2, <2>3, <2>4 DEF GetIncident
<1>8. CASE Index(h)
  <2>1. UNCHANGED <<incident, begun, outbox, queue>>
    BY <1>8 DEF Index
  <2>2. CASE projected' = projected \cup {i} /\ Goto(h, "indexed") /\ NoFault
    <3>1. Indexed(h, "indexed")
      BY <1>1, <1>2, <1>5, <2>1, <2>2 DEF Indexed
    <3> QED BY <1>1, <1>4, <3>1
  <2>3. CASE projected' \in {projected, projected \cup {i}} /\ Goto(h, "note") /\ Fault
    <3>1. Indexed(h, "note")
      BY <1>1, <1>2, <1>5, <2>1, <2>3 DEF Indexed
    <3> QED BY <1>1, <1>4, <3>1
  <2> QED BY <1>8, <2>2, <2>3 DEF Index
<1>9. CASE MarkIndexed(h)
  <2>1. UNCHANGED <<projected, begun, outbox, queue>> /\ i \in projected
    BY <1>9 DEF MarkIndexed, IncidentInv
  <2>2. CASE SetIndex(i, "indexed") /\ Goto(h, "ack") /\ NoFault
    <3>1. Marks(i) /\ incident'[i].index = "indexed"
      BY <1>6, <2>2
    <3>2. Indexed(h, "ack")
      BY <1>5, <2>1, <2>2, <3>1 DEF Indexed
    <3> QED BY <1>1, <1>4, <3>2
  <2>3. CASE (SetIndex(i, "indexed") \/ UNCHANGED incident) /\ Goto(h, "note") /\ Fault
    <3>1. Marks(i)
      BY <1>2, <1>6, <2>3
    <3>2. Indexed(h, "note")
      BY <1>5, <2>1, <2>3, <3>1 DEF Indexed
    <3> QED BY <1>1, <1>4, <3>2
  <2> QED BY <1>9, <2>2, <2>3 DEF MarkIndexed
<1>10. CASE NoteFailure(h)
  <2>1. UNCHANGED <<projected, begun, outbox, queue>> /\ Goto(h, OnFailure(h))
    BY <1>10 DEF NoteFailure
  <2>2. Marks(i) /\ (incident'[i].index = "indexed" => i \in projected)
    <3>1. CASE SetIndex(i, "pending")
      BY <1>6, <3>1
    <3>2. CASE UNCHANGED incident
      BY <1>2, <1>5, <3>2
    <3> QED BY <1>10, <3>1, <3>2 DEF NoteFailure
  <2>3. NoFault \/ Fault
    BY <1>10 DEF NoteFailure
  <2>4. Indexed(h, OnFailure(h))
    BY <1>3, <1>5, <2>1, <2>2, <2>3 DEF Indexed
  <2> QED BY <1>1, <1>3, <2>4
<1>11. CASE ExhaustIncident(h)
  <2>1. UNCHANGED <<projected, begun, outbox, queue>>
    BY <1>11 DEF ExhaustIncident
  <2>2. CASE SetIndex(i, "failed") /\ Goto(h, "dead") /\ NoFault
    <3>1. Marks(i) /\ incident'[i].index = "failed"
      BY <1>6, <2>2
    <3>2. Indexed(h, "dead")
      BY <1>5, <2>1, <2>2, <3>1 DEF Indexed
    <3> QED BY <1>1, <1>4, <3>2
  <2>3. CASE (SetIndex(i, "failed") \/ UNCHANGED incident) /\ Goto(h, "retry") /\ Fault
    <3>1. Marks(i) /\ (incident'[i].index = "indexed" => i \in projected)
      BY <1>2, <1>5, <1>6, <2>3
    <3>2. Indexed(h, "retry")
      BY <1>5, <2>1, <2>3, <3>1 DEF Indexed
    <3> QED BY <1>1, <1>4, <3>2
  <2> QED BY <1>11, <2>2, <2>3 DEF ExhaustIncident, GivenUp, AfterExhaust
<1> QED
  BY <1>7, <1>8, <1>9, <1>10, <1>11 DEF IndexStep

LEMMA IndexNextStep ==
  ASSUME DeliveryInv, EvaluationTypeOK, NothingStranded, IncidentInv, NEW h \in Handlers, IndexStep(h)
  PROVE  /\ DeliveryInv' /\ EvaluationTypeOK' /\ NothingStranded' /\ IncidentInv'
         /\ \A s \in Samples : Settled(s) => Settled(s)'
<1> DEFINE i == hand[h].job
<1>1. /\ i \in Incidents /\ i \in Jobs /\ hand[h].step # "idle"
      /\ \E st \in Steps \ {"idle"} : Indexed(h, st)
  BY IndexHandled DEF Jobs
<1>2. PICK st \in Steps \ {"idle"} : Indexed(h, st)
  BY <1>1
<1>3. UNCHANGED <<asking, told, sample, low>>
  BY DEF IndexStep, evaluationVars
<1>4. /\ Marks(i) /\ projected \subseteq projected' /\ projected' \subseteq Incidents
      /\ st = "indexed" => i \in projected'
      /\ incident'[i].index = "indexed" => i \in projected'
      /\ st \in {"ack", "dead"} => incident'[i].index # "pending"
  BY <1>2 DEF Indexed
<1>5. /\ DeliveryInv' /\ hand'[h].step = st /\ hand'[h].job = i
      /\ \A g \in Handlers : g # h => hand'[g] = hand[g]
      /\ \A j \in Jobs : Outstanding(j) /\ (j = i => st \notin {"ack", "dead"}) => Outstanding(j)'
  BY <1>1, <1>2, HandlerMoves DEF Indexed
<1>6. NothingStranded'
  <2>1. \A k \in Incidents : incident'[k].index = "pending" => Outstanding(k)'
    <3> SUFFICES ASSUME NEW k \in Incidents, incident'[k].index = "pending" PROVE Outstanding(k)'
      OBVIOUS
    <3>1. CASE k = i
      BY <1>4, <1>5, <3>1 DEF Outstanding
    <3>2. CASE k # i
      BY <1>4, <1>5, <3>2 DEF Marks, NothingStranded, Jobs
    <3> QED BY <3>1, <3>2
  <2>2. \A s \in Samples : s # i
    BY <1>1, DeliveryAssumption
  <2>3. \A s \in Samples : sample'[s] \in Open => Outstanding(s)'
    BY <1>3, <1>5, <2>2 DEF NothingStranded, Jobs
  <2> QED BY <2>1, <2>3 DEF NothingStranded
<1>7. EvaluationTypeOK' /\ \A s \in Samples : Settled(s) => Settled(s)'
  BY <1>3 DEF EvaluationTypeOK, Settled
<1>8. IncidentTypeOK'
  BY <1>3, <1>4 DEF IncidentInv, IncidentTypeOK, Marks
<1>9. ConfirmedIsStored'
  <2>1. \A k \in Incidents : told'[k] \subseteq {incident'[k].hypothesis}
    BY <1>3, <1>4 DEF IncidentInv, ConfirmedIsStored, Marks
  <2>2. \A k \in Incidents : incident'[k].index = "indexed" => k \in projected'
    BY <1>4 DEF IncidentInv, ConfirmedIsStored, Marks
  <2> QED BY <2>1, <2>2 DEF ConfirmedIsStored
<1>10. \A k \in Incidents : /\ told'[k] # {} => Exists(k)'
                            /\ ~Exists(k)' => incident'[k].key = Nothing /\ incident'[k].hypothesis = Nothing
  BY <1>3, <1>4 DEF IncidentInv, Exists, Marks
<1>11. \A g \in Handlers : Indexes(g, "indexed")' => hand'[g].job \in projected'
  BY <1>4, <1>5 DEF IncidentInv, Indexes
<1> QED
  BY <1>5, <1>6, <1>7, <1>8, <1>9, <1>10, <1>11 DEF IncidentInv
-----------------------------------------------------------------------------
(* The loop.                                                               *)

LEMMA Initially == FeedbackInit => IInv
<1> SUFFICES ASSUME FeedbackInit PROVE IInv
  OBVIOUS
<1>1. DeliveryInv
  BY DeliveryInitially DEF FeedbackInit
<1>2. EvaluationTypeOK
  BY DEF FeedbackInit, EvaluationInit, EvaluationTypeOK, SampleStatus
<1>3. PoolInv
  <2>1. cycles = 0 /\ mined = [m \in Miners |-> NoCycle] /\ pool = {} /\ candidates = {}
    BY DEF FeedbackInit, PoolInit
  <2>2. 0 \in 0..MaxCycles
    BY PoolAssumption
  <2> QED BY <2>1, <2>2 DEF PoolInv, PoolTypeOK
<1>4. IncidentInv
  <2>1. /\ incident = [i \in Incidents |-> NoCase] /\ projected = {}
        /\ asking = [c \in Clients |-> Nothing] /\ told = [i \in Incidents |-> {}]
        /\ hand = [h \in Handlers |-> Idle]
    BY DEF FeedbackInit, IncidentInit, DeliveryInit
  <2>2. IncidentTypeOK
    BY <2>1 DEF IncidentTypeOK, NoCase
  <2> QED BY <2>1, <2>2 DEF IncidentInv, ConfirmedIsStored, Exists, NoCase, Indexes, Idle
<1>5. NothingStranded
  BY DEF FeedbackInit, EvaluationInit, IncidentInit, NothingStranded, Open, NoCase
<1> QED
  BY <1>1, <1>2, <1>3, <1>4, <1>5 DEF IInv

LEMMA IncidentKept ==
  ASSUME IncidentInv, Evolves, UNCHANGED incidentVars PROVE IncidentInv'
  BY DEF IncidentInv, Evolves, incidentVars, IncidentTypeOK, ConfirmedIsStored, Exists, Indexes

LEMMA Step == IInv /\ [FeedbackNext]_feedbackVars => IInv'
<1> SUFFICES ASSUME IInv, [FeedbackNext]_feedbackVars PROVE IInv'
  OBVIOUS
<1> USE DEF IInv
<1>1. ASSUME Evolves, UNCHANGED incidentVars, PoolInv' PROVE IInv'
  BY <1>1, IncidentKept DEF Evolves
<1>2. CASE DeliveryNext /\ UNCHANGED <<evaluationVars, poolVars, incidentVars>>
  <2>1. Carries
    BY <1>2, DeliveryStep
  <2>2. UNCHANGED <<sample, low, incident>>
    BY <1>2 DEF evaluationVars, incidentVars
  <2>3. Evolves
    BY <2>1, <2>2 DEF Carries, Evolves, EvaluationTypeOK, NothingStranded, Settled, Jobs
  <2>4. PoolInv'
    BY <1>2, <2>3, PoolKept DEF Evolves
  <2> QED BY <1>1, <1>2, <2>3, <2>4
<1>3. CASE EvaluationNext /\ UNCHANGED <<poolVars, incidentVars>>
  <2>1. Evolves
    BY <1>3, EvaluationNextStep DEF incidentVars
  <2>2. PoolInv'
    BY <1>3, <2>1, PoolKept DEF Evolves
  <2> QED BY <1>1, <1>3, <2>1, <2>2
<1>4. CASE PoolNext /\ UNCHANGED incidentVars
  <2>1. Evolves /\ PoolInv'
    BY <1>4, PoolStep DEF incidentVars
  <2> QED BY <1>1, <1>4, <2>1
<1>5. ASSUME NEW c \in Clients, ReadConfirm(c) \/ InsertConfirm(c) \/ LoseConfirm(c) PROVE IInv'
  <2>1. Evolves /\ IncidentInv'
    BY <1>5, ConfirmStep
  <2>2. PoolInv'
    BY <1>5, <2>1, PoolKept DEF Evolves, ReadConfirm, InsertConfirm, LoseConfirm
  <2> QED BY <2>1, <2>2 DEF Evolves
<1>6. ASSUME NEW h \in Handlers, IndexStep(h) PROVE IInv'
  <2>1. /\ DeliveryInv' /\ EvaluationTypeOK' /\ NothingStranded' /\ IncidentInv'
        /\ \A s \in Samples : Settled(s) => Settled(s)'
    BY <1>6, IndexNextStep
  <2>2. PoolInv'
    BY <1>6, <2>1, PoolKept DEF IndexStep
  <2> QED BY <2>1, <2>2
<1>7. CASE UNCHANGED feedbackVars
  <2>1. UNCHANGED <<begun, outbox, queue, hand, faults, sample, low, incident>>
        /\ UNCHANGED incidentVars /\ UNCHANGED poolVars
    BY <1>7 DEF feedbackVars, deliveryVars, evaluationVars, incidentVars
  <2>2. Evolves
    BY <2>1 DEF Evolves, DeliveryInv, DeliveryTypeOK, Bounded, Hands, Limit, EvaluationTypeOK,
                NothingStranded, Outstanding, Settled
  <2>3. PoolInv'
    BY <2>1, <2>2, PoolKept DEF Evolves
  <2> QED BY <1>1, <2>1, <2>2, <2>3
<1> QED
  BY <1>2, <1>3, <1>4, <1>5, <1>6, <1>7 DEF FeedbackNext, IncidentNext

\* The inductive invariant of the loop.
THEOREM Invariance == FeedbackSpec => []IInv
  BY Initially, Step, PTL DEF FeedbackSpec

\* Every variable has its type, over all failures and redeliveries.
THEOREM FeedbackTypes == FeedbackSpec => []FeedbackTypeOK
<1>1. IInv => FeedbackTypeOK
  BY DEF IInv, DeliveryInv, PoolInv, IncidentInv, FeedbackTypeOK
<1> QED BY <1>1, Invariance, PTL

\* The work that a row waits for is always on its way: no interleaving of
\* publishing, redelivery, retries, dead letters and deletion strands a sample
\* or an incident (both consumers' Handle).
THEOREM WorkIsOnItsWay == FeedbackSpec => []NothingStranded
<1>1. IInv => NothingStranded
  BY DEF IInv
<1> QED BY <1>1, Invariance, PTL

\* Snapshots and candidates rest on samples whose evaluation is over, however
\* mining overlaps with judging (Mine, MaterializeLatest).
THEOREM SnapshotsRestOnVerdicts == FeedbackSpec => []MinedIsFinal
<1>1. IInv => MinedIsFinal
  <2> SUFFICES ASSUME IInv,
                      NEW s \in UNION ({r.cluster[c] : r \in pool, c \in Causes} \cup {k.of : k \in candidates})
               PROVE  Settled(s)
    BY DEF MinedIsFinal, Settled
  <2> QED BY DEF IInv, PoolInv
<1> QED BY <1>1, Invariance, PTL

\* What clients were told is what is stored, and a recallable case is in
\* Redis (Confirm, Processor.Process).
THEOREM ConfirmationsHold == FeedbackSpec => []ConfirmedIsStored
<1>1. IInv => ConfirmedIsStored
  BY DEF IInv, IncidentInv
<1> QED BY <1>1, Invariance, PTL
=============================================================================
