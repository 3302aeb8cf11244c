------------------------- MODULE KnowledgeIndexProofs -------------------------
(***************************************************************************)
(* Proofs about KnowledgeIndex, for any documents, versions, workers,      *)
(* attempts and number of failures: types, the outbox promise, and the     *)
(* monotone read alias; and with one worker, what a reader finds, what a   *)
(* clean-up leaves, and that the pipeline implements IndexedDocuments.     *)
(* IInv is the inductive invariant, AloneInv what one worker adds to it,   *)
(* RowsInv what the refinement adds; the parts are proved per kind of      *)
(* step: APITables for the API, HandlerTables (what a handler may do to    *)
(* its own rows) for the handler, MessageMoves and BrokerCarries for       *)
(* publisher, broker and failures.                                         *)
(***************************************************************************)
EXTENDS KnowledgeIndex, TLAPS

-----------------------------------------------------------------------------
(***************************************************************************)
(* Type correctness.                                                       *)
(***************************************************************************)
\* Every step of the API service keeps the types.
LEMMA APIType == ASSUME TypeOK, API PROVE TypeOK'
<1> USE KIAssumption DEF TypeOK, Jobs, Versions
<1>1. ASSUME NEW d \in Docs, Accept(d) PROVE TypeOK'
  BY <1>1 DEF Accept, Enqueue, DocStatus, JobStatus, OutboxStatus
<1>2. ASSUME NEW d \in Docs, CreateVersionUpload(d) PROVE TypeOK'
  BY <1>2 DEF CreateVersionUpload, Enqueue, DocStatus, JobStatus, OutboxStatus
<1>3. ASSUME NEW d \in Docs, CreateDelete(d) PROVE TypeOK'
  BY <1>3 DEF CreateDelete, SetStatus, Enqueue, DocStatus, JobStatus, OutboxStatus
<1> QED BY <1>1, <1>2, <1>3 DEF API, AcceptVersion, Rebuild

\* Putting any message at any place of the broker keeps its type.
LEMMA MessageType ==
  ASSUME TypeOK, NEW j \in Jobs, NEW c \in Copies, NEW p \in Places
  PROVE  Moved(j, c, p) \in Message
BY DEF TypeOK, Moved, Message

\* Every step of the publisher and the broker keeps the types.
LEMMA BrokerType ==
  ASSUME TypeOK, NEW w \in Workers, NEW j \in Jobs, NEW c \in Copies,
         \/ Publish(w, j) \/ PublishUnconfirmed(w, j) \/ MarkOutboxPublished(w)
         \/ MarkFails(w) \/ RetryDue(j, c) \/ Deliver(w, j, c)
  PROVE  TypeOK'
<1> USE KIAssumption DEF TypeOK
<1>1. Arrive(j) => msg' \in [Jobs -> [Copies -> Message]]
  BY DEF Arrive, Message, Places
<1>2. CASE Publish(w, j)
  BY <1>1, <1>2 DEF Publish, db, work
<1>3. CASE PublishUnconfirmed(w, j)
  BY <1>1, <1>3 DEF PublishUnconfirmed, db, work, Fault
<1>4. CASE MarkOutboxPublished(w)
  BY <1>4 DEF MarkOutboxPublished, OutboxStatus, work
<1>5. CASE MarkFails(w)
  BY <1>5 DEF MarkFails, db, work, Fault
<1>6. CASE RetryDue(j, c)
  BY <1>6, MessageType DEF RetryDue, db, work, Places
<1>7. CASE Deliver(w, j, c)
  BY <1>7, MessageType DEF Deliver, db, work, Places, Steps, HandlerSteps, Copies
<1> QED BY <1>2, <1>3, <1>4, <1>5, <1>6, <1>7

\* Changing one version's projection keeps the type of Redis.
LEMMA ProjectionType ==
  ASSUME TypeOK, NEW p \in Docs \X Versions, NEW x \in Presence,
         redis' = [redis EXCEPT ![p[1]][p[2]] = x]
  PROVE  redis' \in [Docs -> [Versions -> Presence]]
<1>1. PICK d \in Docs, v \in Versions : p = <<d, v>>
  OBVIOUS
<1>2. redis' = [redis EXCEPT ![d][v] = x]
  BY <1>1
<1> QED BY <1>2 DEF TypeOK

\* Every step of a worker's start-up keeps the types.
LEMMA StartupType == ASSUME TypeOK, NEW w \in Workers, Startup(w) PROVE TypeOK'
<1> USE DEF TypeOK
<1>1. CASE ListActive(w)
  BY <1>1 DEF ListActive, db, Steps, Active
<1>2. CASE PruneStaleChunks(w)
  <2>1. redis' \in [Docs -> [Versions -> Presence]]
    BY <1>2 DEF PruneStaleChunks, Presence
  <2> QED BY <1>2, <2>1 DEF PruneStaleChunks, db, Steps
<1>3. CASE RebuildProjection(w)
  <2>1. redis' \in [Docs -> [Versions -> Presence]]
    BY <1>3 DEF RebuildProjection, Written, Presence
  <2> QED BY <1>3, <2>1 DEF RebuildProjection, db, Steps
<1>4. CASE VerifyProjection(w)
  BY <1>4 DEF VerifyProjection, db, Steps
<1> QED BY <1>1, <1>2, <1>3, <1>4 DEF Startup

\* So does a start-up that fails.
LEMMA RebuildFailsType == ASSUME TypeOK, NEW w \in Workers, RebuildFails(w) PROVE TypeOK'
<1>1. redis' \in [Docs -> [Versions -> Presence]]
  BY DEF RebuildFails, TypeOK, Presence
<1>2. pc' \in [Workers -> Steps] /\ ids' \in [Workers -> SUBSET (Docs \X Versions)]
  BY DEF RebuildFails, TypeOK, Steps
<1>3. faults' \in 0..MaxFaults
  BY KIAssumption DEF RebuildFails, Fault, TypeOK
<1>4. UNCHANGED <<db, msg, held, act, marking>>
  BY DEF RebuildFails
<1> QED BY <1>1, <1>2, <1>3, <1>4 DEF TypeOK, db

\* The types of the MySQL tables.
TablesOK ==
  /\ doc \in [Docs -> [status: DocStatus, current: 0..MaxVersion]]
  /\ ver \in [Docs -> [Versions -> DocStatus]]
  /\ chunk \in [Docs -> [Versions -> ChunkStatus]]
  /\ job \in [Jobs -> JobStatus]
  /\ outbox \in [Jobs -> OutboxStatus]

\* The completion and failure transactions keep the types of the tables.
LEMMA TransactionType ==
  ASSUME TablesOK, NEW d \in Docs, NEW v \in Versions,
         NEW s \in {"retrying", "failed"}, NEW t \in {"parsing", "failed"},
         \/ UNCHANGED db \/ IndexCompleted(d, v) \/ DeleteCompleted(d)
         \/ SetDeleteJob(d, s) \/ IndexFailed(d, v, s, t)
  PROVE  TablesOK'
<1> USE KIAssumption DEF TablesOK, Jobs, Versions, DocStatus, JobStatus, ChunkStatus
<1>1. CASE UNCHANGED db  BY <1>1 DEF db
<1>2. CASE IndexCompleted(d, v)  BY <1>2 DEF IndexCompleted
<1>3. CASE DeleteCompleted(d)  BY <1>3 DEF DeleteCompleted
<1>4. CASE SetDeleteJob(d, s)  BY <1>4 DEF SetDeleteJob
<1>5. CASE IndexFailed(d, v, s, t)
  <2>1. doc' \in [Docs -> [status: DocStatus, current: 0..MaxVersion]]
    <3>1. CASE ShowsFailure(d, v)
      <4>1. doc' = [doc EXCEPT ![d] = [status |-> t, current |-> doc[d].current]]
        BY <1>5, <3>1 DEF IndexFailed, SetStatus
      <4>2. [status |-> t, current |-> doc[d].current] \in [status: DocStatus, current: 0..MaxVersion]
        OBVIOUS
      <4> QED BY <4>1, <4>2
    <3>2. CASE ~ShowsFailure(d, v)  BY <1>5, <3>2 DEF IndexFailed
    <3> QED BY <3>1, <3>2
  <2> QED BY <1>5, <2>1 DEF IndexFailed
<1> QED BY <1>1, <1>2, <1>3, <1>4, <1>5

\* So do those of a claim.
LEMMA ClaimType ==
  ASSUME TablesOK, NEW d \in Docs, NEW v,
         (v \in Versions /\ IndexClaimed(d, v)) \/ SetDeleteJob(d, "processing")
  PROVE  TablesOK'
<1> USE KIAssumption DEF TablesOK, Jobs, Versions, DocStatus, JobStatus, ChunkStatus
<1>1. CASE IndexClaimed(d, v) /\ v \in Versions
  <2>1. doc' \in [Docs -> [status: DocStatus, current: 0..MaxVersion]]
    <3>1. \/ UNCHANGED doc
          \/ doc' = [doc EXCEPT ![d] = [status |-> "parsing", current |-> doc[d].current]]
      BY <1>1 DEF IndexClaimed, SetStatus
    <3>2. [status |-> "parsing", current |-> doc[d].current] \in [status: DocStatus, current: 0..MaxVersion]
      OBVIOUS
    <3> QED BY <3>1, <3>2
  <2> QED BY <1>1, <2>1 DEF IndexClaimed
<1>2. CASE SetDeleteJob(d, "processing")  BY <1>2 DEF SetDeleteJob
<1> QED BY <1>1, <1>2

\* A busy worker holds a message of a job it can handle: the index steps a
\* job of a version, the clean-up steps a delete job.
Holding ==
  \A w \in Workers : Busy(w) =>
    /\ held[w].job \in Jobs /\ held[w].copy \in Copies
    /\ pc[w] \in {"replace", "project", "complete", "failing"} => ~IsDelete(held[w].job)
    /\ pc[w] \in {"erase", "purge"} => IsDelete(held[w].job)

\* Deciding about the message changes the worker's own step and answer only.
LEMMA DecisionType ==
  ASSUME TypeOK, NEW w \in Workers, Busy(w),
         \/ Respond(w, "ack") \/ Respond(w, "retry") \/ Respond(w, "dead")
         \/ RetryOrExhaust(w)
         \/ \E s \in HandlerSteps : Goto(w, s)
  PROVE  /\ pc' \in [Workers -> Steps]
         /\ act' \in [Workers -> {"none", "ack", "retry", "dead"}]
BY DEF TypeOK, Respond, RetryOrExhaust, Goto, Steps, HandlerSteps

\* A handler step that leaves the tables, the messages and Redis alone.
LEMMA QuietType ==
  ASSUME TypeOK, NEW w \in Workers, UNCHANGED <<db, msg, redis, held, ids, marking>>,
         faults' \in 0..MaxFaults,
         pc' \in [Workers -> Steps],
         act' \in [Workers -> {"none", "ack", "retry", "dead"}]
  PROVE  TypeOK'
BY DEF TypeOK, db

\* The transactions of the handler that touch a version or a document.
LEMMA TransactionStepType ==
  ASSUME TypeOK, NEW w \in Workers, TablesOK', UNCHANGED <<msg, held, ids, marking>>,
         faults' \in 0..MaxFaults, redis' \in [Docs -> [Versions -> Presence]],
         pc' \in [Workers -> Steps],
         act' \in [Workers -> {"none", "ack", "retry", "dead"}]
  PROVE  TypeOK'
BY DEF TypeOK, TablesOK

\* The steps of the handler before its answer, and the failures of one.
HandlerStep(w) ==
  \/ ClaimComplete(w) \/ ClaimMissing(w) \/ ClaimIndexJob(w) \/ ClaimDeleteJob(w)
  \/ ClaimFails(w) \/ ParseFails(w) \/ ReplaceChunks(w) \/ ReplaceFails(w)
  \/ IndexIncremental(w) \/ IndexFails(w) \/ CompleteIndex(w) \/ CompleteFails(w)
  \/ Erase(w) \/ EraseFails(w) \/ CompleteDelete(w) \/ CompleteDeleteFails(w)
  \/ RecordRetry(w) \/ FailIndex(w) \/ Exhaust(w)

\* Every such step keeps the types.
LEMMA HandlerType ==
  ASSUME TypeOK, Holding, NEW w \in Workers, HandlerStep(w)
  PROVE  TypeOK'
<1> USE DEF At
<1>0. faults \in 0..MaxFaults /\ redis \in [Docs -> [Versions -> Presence]] /\ TablesOK
  BY DEF TypeOK, TablesOK
<1>1. ASSUME NEW s \in HandlerSteps, At(w, s)
      PROVE  Busy(w) /\ J(w) \in Jobs /\ C(w) \in Copies /\ D(w) \in Docs
  BY <1>1 DEF Busy, Holding, J, C, D, Jobs
<1>2. ASSUME \/ At(w, "replace") \/ At(w, "project") \/ At(w, "complete") \/ At(w, "failing")
             \/ ~IsDelete(J(w)) /\ \E s \in HandlerSteps : At(w, s)
      PROVE  V(w) \in Versions
  BY <1>2, KIAssumption DEF Busy, HandlerSteps, Holding, J, V, IsDelete, Jobs, Versions
<1>3. ASSUME Fault \/ NoFault \/ UNCHANGED faults
      PROVE  faults' \in 0..MaxFaults
  BY <1>0, <1>3, KIAssumption DEF Fault, NoFault
<1>4. CASE ClaimComplete(w)
  BY <1>0, <1>1, <1>4, DecisionType, QuietType DEF ClaimComplete, HandlerSteps
<1>5. CASE ClaimMissing(w)
  BY <1>0, <1>1, <1>5, DecisionType, QuietType DEF ClaimMissing, HandlerSteps
<1>6. CASE ClaimIndexJob(w)
  <2>1. D(w) \in Docs /\ V(w) \in Versions /\ Busy(w)
    BY <1>1, <1>2, <1>6 DEF ClaimIndexJob, Claims, HandlerSteps
  <2>2. TablesOK'
    BY <1>0, <1>6, <2>1, ClaimType DEF ClaimIndexJob
  <2> QED BY <1>0, <1>6, <2>1, <2>2, DecisionType, TransactionStepType DEF ClaimIndexJob, HandlerSteps
<1>7. CASE ClaimDeleteJob(w)
  <2>1. D(w) \in Docs /\ Busy(w)
    BY <1>1, <1>7 DEF ClaimDeleteJob, Claims, HandlerSteps
  <2>2. ids' \in [Workers -> SUBSET (Docs \X Versions)]
    BY <1>7, <2>1 DEF TypeOK, ClaimDeleteJob, ChunkRows
  <2>3. pc' \in [Workers -> Steps] /\ UNCHANGED act
    BY <1>7, <2>1, DecisionType DEF ClaimDeleteJob, HandlerSteps, Goto
  <2>4. TablesOK'
    BY <1>0, <1>7, <2>1, ClaimType DEF ClaimDeleteJob
  <2> QED BY <1>7, <2>1, <2>2, <2>3, <2>4 DEF TypeOK, TablesOK, ClaimDeleteJob
<1>8. CASE ClaimFails(w)
  <2>1. D(w) \in Docs /\ Busy(w) /\ (~IsDelete(J(w)) => V(w) \in Versions)
    BY <1>1, <1>2, <1>8 DEF ClaimFails, HandlerSteps
  <2>2. TablesOK'
    BY <1>0, <1>8, <2>1, ClaimType DEF ClaimFails, TablesOK, db
  <2>3. faults' \in 0..MaxFaults /\ UNCHANGED <<msg, redis, held, ids, marking>>
    BY <1>3, <1>8 DEF ClaimFails
  <2> QED BY <1>0, <1>8, <2>1, <2>2, <2>3, DecisionType, TransactionStepType DEF ClaimFails
<1>9. CASE ParseFails(w)
  BY <1>0, <1>1, <1>9, DecisionType, QuietType DEF ParseFails, HandlerSteps
<1>10. CASE ReplaceChunks(w) \/ ReplaceFails(w)
  <2>1. D(w) \in Docs /\ V(w) \in Versions /\ Busy(w)
    BY <1>1, <1>2, <1>10 DEF ReplaceChunks, ReplaceFails, HandlerSteps
  <2>2. UNCHANGED db \/ RowsReplaced(D(w), V(w))
    BY <1>10 DEF ReplaceChunks, ReplaceFails
  <2>4. TablesOK'
    <3>1. CASE UNCHANGED db  BY <1>0, <3>1 DEF TablesOK, db
    <3>2. CASE RowsReplaced(D(w), V(w))
      BY <1>0, <2>1, <3>2 DEF RowsReplaced, TablesOK, ChunkStatus
    <3> QED BY <2>2, <3>1, <3>2
  <2>3. faults' \in 0..MaxFaults /\ UNCHANGED <<msg, redis, held, ids, marking>>
    BY <1>3, <1>10 DEF ReplaceChunks, ReplaceFails
  <2> QED BY <1>0, <1>10, <2>1, <2>3, <2>4, DecisionType, TransactionStepType
          DEF ReplaceChunks, ReplaceFails, HandlerSteps
<1>12. CASE IndexIncremental(w) \/ IndexFails(w)
  <2>1. D(w) \in Docs /\ V(w) \in Versions /\ Busy(w)
    BY <1>1, <1>2, <1>12 DEF IndexIncremental, IndexFails, HandlerSteps
  <2>2. redis' \in [Docs -> [Versions -> Presence]] /\ TablesOK' /\ faults' \in 0..MaxFaults
    <3>1. CASE IndexIncremental(w)
      BY <1>0, <2>1, <3>1 DEF IndexIncremental, Presence, TablesOK, db
    <3>2. CASE IndexFails(w)
      <4>1. \/ UNCHANGED redis
            \/ redis' = [redis EXCEPT ![D(w)][V(w)] = IF redis[D(w)][V(w)] = "none" THEN "partial" ELSE redis[D(w)][V(w)]]
        BY <3>2 DEF IndexFails
      <4>2. redis' \in [Docs -> [Versions -> Presence]]
        BY <1>0, <2>1, <4>1 DEF Presence
      <4> QED BY <1>0, <1>3, <3>2, <4>2 DEF IndexFails, TablesOK, db
    <3> QED BY <1>12, <3>1, <3>2
  <2> QED BY <1>12, <2>1, <2>2, DecisionType, TransactionStepType DEF IndexIncremental, IndexFails, HandlerSteps
<1>13. CASE CompleteIndex(w) \/ CompleteFails(w)
  <2>1. D(w) \in Docs /\ V(w) \in Versions /\ Busy(w)
    BY <1>1, <1>2, <1>13 DEF CompleteIndex, CompleteFails, HandlerSteps
  <2>2. TablesOK'
    BY <1>0, <1>13, <2>1, TransactionType DEF CompleteIndex, CompleteFails
  <2>3. redis' \in [Docs -> [Versions -> Presence]] /\ faults' \in 0..MaxFaults
    BY <1>0, <1>3, <1>13 DEF CompleteIndex, CompleteFails
  <2> QED BY <1>13, <2>1, <2>2, <2>3, DecisionType, TransactionStepType DEF CompleteIndex, CompleteFails, HandlerSteps
<1>14. CASE Erase(w)
  <2>1. Busy(w)
    BY <1>1, <1>14 DEF Erase, HandlerSteps
  <2>2. redis' \in [Docs -> [Versions -> Presence]] /\ TablesOK'
    BY <1>0, <1>14 DEF Erase, Presence, TablesOK, db
  <2> QED BY <1>0, <1>14, <2>1, <2>2, DecisionType, TransactionStepType DEF Erase, HandlerSteps
<1>15. CASE EraseFails(w)
  <2>1. Busy(w)
    BY <1>1, <1>15 DEF EraseFails, HandlerSteps
  <2>2. redis' \in [Docs -> [Versions -> Presence]] /\ TablesOK' /\ faults' \in 0..MaxFaults
    BY <1>0, <1>3, <1>15 DEF EraseFails, Presence, TablesOK, db
  <2> QED BY <1>15, <2>1, <2>2, DecisionType, TransactionStepType DEF EraseFails, HandlerSteps
<1>16. CASE CompleteDelete(w) \/ CompleteDeleteFails(w)
  <2>1. D(w) \in Docs /\ Busy(w)
    BY <1>1, <1>16 DEF CompleteDelete, CompleteDeleteFails, HandlerSteps
  <2>2. TablesOK'
    <3>1. 1 \in Versions
      BY KIAssumption DEF Versions
    <3> QED BY <1>0, <1>16, <2>1, <3>1, TransactionType DEF CompleteDelete, CompleteDeleteFails
  <2>3. redis' \in [Docs -> [Versions -> Presence]] /\ faults' \in 0..MaxFaults
    BY <1>0, <1>3, <1>16 DEF CompleteDelete, CompleteDeleteFails
  <2> QED BY <1>16, <2>1, <2>2, <2>3, DecisionType, TransactionStepType DEF CompleteDelete, CompleteDeleteFails, HandlerSteps
<1>17. CASE RecordRetry(w) \/ FailIndex(w) \/ Exhaust(w)
  <2>1. D(w) \in Docs /\ Busy(w) /\ (V(w) \in Versions \/ (IsDelete(J(w)) /\ ~FailIndex(w)))
    <3>1. CASE FailIndex(w)
      BY <1>1, <1>2, <3>1 DEF FailIndex, HandlerSteps
    <3>2. CASE ~FailIndex(w)
      <4>1. \E t \in HandlerSteps : At(w, t)
        BY <1>17, <3>2 DEF RecordRetry, Exhaust, HandlerSteps
      <4>2. D(w) \in Docs /\ Busy(w)
        BY <1>1, <4>1
      <4>3. CASE ~IsDelete(J(w))
        BY <1>2, <4>1, <4>2, <4>3
      <4> QED BY <3>2, <4>2, <4>3
    <3> QED BY <3>1, <3>2
  <2>2. TablesOK'
    <3>1. 1 \in Versions
      BY KIAssumption DEF Versions
    <3>2. CASE IsDelete(J(w)) /\ ~FailIndex(w)
      BY <1>0, <1>17, <2>1, <3>1, <3>2, TransactionType DEF RecordRetry, Exhaust
    <3>3. CASE V(w) \in Versions
      BY <1>0, <1>17, <2>1, <3>3, TransactionType DEF RecordRetry, FailIndex, Exhaust
    <3> QED BY <2>1, <3>2, <3>3
  <2>3. redis' \in [Docs -> [Versions -> Presence]] /\ faults' \in 0..MaxFaults
    BY <1>0, <1>3, <1>17 DEF RecordRetry, FailIndex, Exhaust
  <2> QED BY <1>17, <2>1, <2>2, <2>3, DecisionType, TransactionStepType DEF RecordRetry, FailIndex, Exhaust
<1> QED BY <1>4, <1>5, <1>6, <1>7, <1>8, <1>9, <1>10, <1>12, <1>13, <1>14, <1>15, <1>16, <1>17
        DEF HandlerStep

\* Settling or requeueing a message, and releasing it, keeps the types.
LEMMA ReleaseType ==
  ASSUME TypeOK, Holding, NEW w \in Workers,
         FinishDelivery(w) \/ FinishTwice(w) \/ SessionLost(w) \/ Crash(w)
  PROVE  TypeOK'
<1> USE KIAssumption DEF TypeOK
<1>1. ASSUME Busy(w)
      PROVE  /\ J(w) \in Jobs /\ C(w) \in Copies
             /\ Answer(w) \in Message
             /\ Moved(J(w), C(w), "main") \in Message
  BY <1>1, MessageType DEF Holding, J, C, Answer, Attempt, NoMessage, Message, Places
<1>2. ASSUME Release(w)
      PROVE  /\ pc' \in [Workers -> Steps]
             /\ held' \in [Workers -> [job: Jobs \cup {NoJob}, copy: 0..MaxCopies]]
             /\ act' \in [Workers -> {"none", "ack", "retry", "dead"}]
             /\ ids' \in [Workers -> SUBSET (Docs \X Versions)]
  BY <1>2 DEF Release, Nothing, Steps
<1>3. CASE FinishDelivery(w)
  BY <1>1, <1>2, <1>3 DEF FinishDelivery, Settle, At, Busy, HandlerSteps, db
<1>4. CASE FinishTwice(w)
  <2>1. Busy(w)
    BY <1>4 DEF FinishTwice, At, Busy, HandlerSteps
  <2>2. msg' \in [Jobs -> [Copies -> Message]]
    BY <1>1, <1>4, <2>1 DEF FinishTwice
  <2>3. Release(w) /\ UNCHANGED <<db, redis, marking>> /\ faults' \in 0..MaxFaults
    BY <1>4 DEF FinishTwice, Fault
  <2> QED BY <1>2, <2>2, <2>3 DEF db
<1>5. CASE SessionLost(w) \/ Crash(w)
  <2>1. msg' \in [Jobs -> [Copies -> Message]]
    <3>1. Requeue(w)
      BY <1>5 DEF SessionLost, Crash
    <3>2. CASE Busy(w)
      <4>1. msg' = [msg EXCEPT ![J(w)][C(w)] = Moved(J(w), C(w), "main")]
        BY <3>1, <3>2 DEF Requeue, Settle
      <4> QED BY <1>1, <3>2, <4>1
    <3>3. CASE ~Busy(w)
      BY <3>1, <3>3 DEF Requeue
    <3> QED BY <3>2, <3>3
  <2>2. CASE SessionLost(w)
    BY <1>2, <2>1, <2>2 DEF SessionLost, Fault, db
  <2>3. CASE Crash(w)
    BY <2>1, <2>3 DEF Crash, Nothing, Steps, Fault, db
  <2> QED BY <1>5, <2>2, <2>3
<1> QED BY <1>3, <1>4, <1>5

\* Emptying Redis keeps the types.
LEMMA RedisLostType == ASSUME TypeOK, RedisLost PROVE TypeOK'
BY KIAssumption DEF TypeOK, RedisLost, Presence, db, work, Fault

\* Every step keeps what a busy worker holds.
LEMMA HoldingStep == ASSUME TypeOK, Holding, [Next]_vars PROVE Holding'
<1> USE DEF Holding, Busy
<1>1. CASE UNCHANGED vars  BY <1>1 DEF vars
<1>2. CASE API
  BY <1>2 DEF API, Accept, AcceptVersion, Rebuild, CreateVersionUpload, CreateDelete
<1>3. CASE Broker \/ RedisLost
  BY <1>3 DEF Broker, RetryDue, RedisLost, work
<1>4. ASSUME NEW w \in Workers, Publisher(w) \/ MarkFails(w) \/ \E j \in Jobs : PublishUnconfirmed(w, j)
      PROVE  Holding'
  BY <1>4 DEF Publisher, Publish, MarkOutboxPublished, MarkFails, PublishUnconfirmed, work
<1>5. ASSUME NEW w \in Workers, Startup(w) \/ RebuildFails(w) PROVE Holding'
  BY <1>5 DEF TypeOK, Startup, RebuildFails, ListActive, PruneStaleChunks, RebuildProjection, VerifyProjection, Steps, HandlerSteps
<1>6. ASSUME NEW w \in Workers, Consume(w) PROVE Holding'
  BY <1>6 DEF TypeOK, Consume, Deliver
<1>7. ASSUME NEW w \in Workers, HandlerStep(w) PROVE Holding'
  <2>1. held' = held
    BY <1>7 DEF HandlerStep, ClaimComplete, ClaimMissing, ClaimIndexJob, ClaimDeleteJob, ClaimFails,
       ParseFails, ReplaceChunks, ReplaceFails, IndexIncremental, IndexFails, CompleteIndex, CompleteFails,
       Erase, EraseFails, CompleteDelete, CompleteDeleteFails, RecordRetry, FailIndex, Exhaust
  <2>2. pc[w] \in HandlerSteps
    BY <1>7 DEF HandlerStep, HandlerSteps, At, Claims, ClaimComplete, ClaimMissing, ClaimIndexJob, ClaimDeleteJob, ClaimFails,
       ParseFails, ReplaceChunks, ReplaceFails, IndexIncremental, IndexFails, CompleteIndex, CompleteFails,
       Erase, EraseFails, CompleteDelete, CompleteDeleteFails, RecordRetry, FailIndex, Exhaust
  <2>3. \A u \in Workers \ {w} : pc'[u] = pc[u]
    BY <1>7 DEF TypeOK, HandlerStep, Goto, Respond, RetryOrExhaust, ClaimComplete, ClaimMissing, ClaimIndexJob,
       ClaimDeleteJob, ClaimFails, ParseFails, ReplaceChunks, ReplaceFails, IndexIncremental, IndexFails,
       CompleteIndex, CompleteFails, Erase, EraseFails, CompleteDelete, CompleteDeleteFails, RecordRetry,
       FailIndex, Exhaust
  <2>4. /\ pc'[w] \in {"replace", "project", "complete", "failing"} => ~IsDelete(held[w].job)
        /\ pc'[w] \in {"erase", "purge"} => IsDelete(held[w].job)
    BY <1>7, <2>2 DEF TypeOK, HandlerStep, At, Claims, J, Goto, Respond, RetryOrExhaust, ClaimComplete, ClaimMissing, ClaimIndexJob,
       ClaimDeleteJob, ClaimFails, ParseFails, ReplaceChunks, ReplaceFails, IndexIncremental, IndexFails,
       CompleteIndex, CompleteFails, Erase, EraseFails, CompleteDelete, CompleteDeleteFails, RecordRetry,
       FailIndex, Exhaust
  <2> QED BY <2>1, <2>2, <2>3, <2>4
<1>8. ASSUME NEW w \in Workers, FinishDelivery(w) \/ FinishTwice(w) \/ SessionLost(w) \/ Crash(w)
      PROVE  Holding'
  BY <1>8 DEF TypeOK, FinishDelivery, FinishTwice, SessionLost, Crash, Release, HandlerSteps
<1> QED BY <1>1, <1>2, <1>3, <1>4, <1>5, <1>6, <1>7, <1>8
        DEF Next, Worker, Handler, Failure, HandlerStep

\* The part of the invariant that every other proof stands on.
TypeInv == TypeOK /\ Holding

\* Every step keeps the types and what a busy worker holds.
LEMMA TypeStep == ASSUME TypeInv, [Next]_vars PROVE TypeInv'
<1> USE DEF TypeInv
<1>1. CASE UNCHANGED vars  BY <1>1 DEF vars, TypeOK, Holding, Busy
<1>2. CASE API  BY <1>2, APIType, HoldingStep
<1>3. CASE Broker
  <2>1. CASE Workers = {}
    BY <1>3, <2>1, HoldingStep, MessageType DEF Broker, RetryDue, db, work, TypeOK, Places
  <2>2. CASE Workers # {}
    BY <1>3, <2>2, HoldingStep, BrokerType DEF Broker
  <2> QED BY <2>1, <2>2
<1>4. CASE RedisLost  BY <1>4, RedisLostType, HoldingStep
<1>5. ASSUME NEW w \in Workers, Worker(w) PROVE TypeInv'
  <2>1. 1 \in Copies
    BY KIAssumption DEF Copies
  <2>2. CASE Publisher(w) \/ Consume(w) \/ MarkFails(w) \/ \E j \in Jobs : PublishUnconfirmed(w, j)
    <3>1. CASE Jobs = {}
      BY <2>2, <3>1, HoldingStep DEF Publisher, Consume, TypeOK, MarkOutboxPublished, MarkFails, db, work, Fault
    <3>2. CASE Jobs # {}
      BY <2>1, <2>2, <3>2, HoldingStep, BrokerType DEF Publisher, Consume
    <3> QED BY <3>1, <3>2
  <2>3. CASE Startup(w) \/ RebuildFails(w)  BY <2>3, HoldingStep, StartupType, RebuildFailsType
  <2>4. CASE HandlerStep(w)  BY <2>4, HoldingStep, HandlerType
  <2>5. CASE FinishDelivery(w) \/ FinishTwice(w) \/ SessionLost(w) \/ Crash(w)
    BY <2>5, HoldingStep, ReleaseType
  <2> QED BY <1>5, <2>2, <2>3, <2>4, <2>5 DEF Worker, Handler, Failure, HandlerStep
<1> QED BY <1>1, <1>2, <1>3, <1>4, <1>5 DEF Next

\* The initial state is well typed and no worker is busy.
LEMMA TypeInit == Init => TypeInv
BY KIAssumption DEF Init, TypeInv, TypeOK, Holding, Busy, HandlerSteps, DocStatus, ChunkStatus, JobStatus,
   OutboxStatus, Presence, Places, Message, NoMessage, Nothing, Steps, Jobs, Versions

\* Every state of the pipeline is well typed, whatever interleaves and fails.
THEOREM TypeCorrect == Spec => []TypeOK
BY TypeInit, TypeStep, PTL DEF Spec, TypeInv

-----------------------------------------------------------------------------
(***************************************************************************)
(* The inductive invariant.                                                *)
(***************************************************************************)
\* Rows, events and messages exist only after what they belong to.
Recorded ==
  /\ \A j \in Jobs : job[j] = "none" <=> outbox[j] = "none"
  /\ \A j \in Jobs, c \in Copies : msg[j][c].at # "none" => job[j] # "none"
  /\ \A w \in Workers : marking[w] # NoJob => job[marking[w]] # "none"
  /\ \A d \in Docs, v \in Versions : job[<<d, v>>] # "none" => ver[d][v] # "none"
  /\ \A d \in Docs, v \in Versions : ver[d][v] # "none" => doc[d].status # "none"
  /\ \A d \in Docs : job[<<d, 0>>] # "none" => doc[d].status # "none"
  /\ \A d \in Docs : doc[d].status = "none" => doc[d].current = 0

\* A handled message is held at the broker for exactly one worker.
Exclusive ==
  /\ \A w \in Workers : Busy(w) => msg[J(w)][C(w)].at = "held"
  /\ \A w, u \in Workers : Busy(w) /\ Busy(u) /\ w # u => held[w] # held[u]

\* Message c of job j will be handled, or waits for an operator: it is not one
\* about to be acknowledged.
Carried(j, c) ==
  \/ msg[j][c].at \in {"main", "retry", "dead"}
  \/ \E w \in Workers : /\ Busy(w) /\ held[w] = [job |-> j, copy |-> c]
                        /\ pc[w] = "finish" => act[w] # "ack"

\* From the moment its event may be marked published, an unfinished job has
\* a message that is carried.
Covered ==
  \A j \in Jobs :
    /\ job[j] \in Pending
    /\ outbox[j] # "pending" \/ \E w \in Workers : marking[w] = j
    => \E c \in Copies : Carried(j, c)

IInv == TypeInv /\ Recorded /\ Exclusive /\ Covered /\ CompletedIsVisible

\* What a handler step can do to the tables: at most its own job, version and
\* document change, nothing disappears, the alias does not move back, and a
\* job completes only when the alias has reached its version.
OwnTables(w) ==
  /\ UNCHANGED outbox
  /\ job' = job \/ \E s \in JobStatus \ {"none"} : job' = [job EXCEPT ![J(w)] = s]
  /\ \A d \in Docs, v \in Versions :
       (ver'[d][v] = "none") # (ver[d][v] = "none") => ver'[d][v] # "none" /\ <<d, v>> = J(w)
  /\ \A d \in Docs : doc'[d] # doc[d] =>
       d = D(w) /\ doc'[d].status # "none" /\ doc'[d].current >= doc[d].current
  /\ \A d \in Docs, v \in Versions :
       job'[<<d, v>>] = "completed" => job[<<d, v>>] = "completed" \/ doc'[d].current >= v

\* The job a busy worker holds is <<document, version>>, version 0 for a delete.
LEMMA JobOfVersion ==
  ASSUME TypeInv, NEW w \in Workers, Busy(w)
  PROVE  /\ J(w) = <<D(w), V(w)>> /\ J(w) \in Jobs /\ D(w) \in Docs /\ V(w) \in 0..MaxVersion
         /\ ~IsDelete(J(w)) => V(w) \in Versions
         /\ IsDelete(J(w)) => V(w) = 0
BY KIAssumption DEF TypeInv, Holding, J, D, V, Jobs, Versions, IsDelete

\* How the transactions below show OwnTables.
LEMMA OwnTablesIntro ==
  ASSUME TypeInv, NEW w \in Workers, Busy(w), NEW s \in JobStatus \ {"none"},
         job' = [job EXCEPT ![J(w)] = s], UNCHANGED outbox,
         \A d \in Docs, v \in Versions :
           (ver'[d][v] = "none") # (ver[d][v] = "none") => ver'[d][v] # "none" /\ <<d, v>> = J(w),
         NEW r \in [status: DocStatus \ {"none"}, current: Nat],
         \/ doc' = doc
         \/ doc' = [doc EXCEPT ![D(w)] = r] /\ r.current >= doc[D(w)].current,
         s = "completed" /\ ~IsDelete(J(w)) => doc'[D(w)].current >= V(w)
  PROVE  OwnTables(w)
<1>1. /\ J(w) = <<D(w), V(w)>> /\ J(w) \in Jobs /\ D(w) \in Docs
      /\ IsDelete(J(w)) => V(w) = 0
  BY JobOfVersion
<1>2. \A d \in Docs : doc'[d] # doc[d] =>
        d = D(w) /\ doc'[d].status # "none" /\ doc'[d].current >= doc[d].current
  BY <1>1 DEF TypeInv, TypeOK
<1>3. ASSUME NEW d \in Docs, NEW v \in Versions, job'[<<d, v>>] = "completed"
      PROVE  job[<<d, v>>] = "completed" \/ doc'[d].current >= v
  <2>1. <<d, v>> \in Jobs /\ v # 0
    BY KIAssumption DEF Jobs, Versions
  <2>2. CASE <<d, v>> = J(w)
    <3>1. d = D(w) /\ v = V(w) /\ ~IsDelete(J(w))
      BY <1>1, <2>1, <2>2
    <3>2. s = "completed"
      BY <1>1, <1>3, <2>2 DEF TypeInv, TypeOK
    <3> QED BY <3>1, <3>2
  <2>3. CASE <<d, v>> # J(w)
    BY <1>3, <2>1, <2>3 DEF TypeInv, TypeOK
  <2> QED BY <2>2, <2>3
<1> QED BY <1>2, <1>3 DEF OwnTables

\* A claim of an index job is an OwnTables step.
LEMMA OwnClaim ==
  ASSUME TypeInv, NEW w \in Workers, Busy(w), ~IsDelete(J(w)), IndexClaimed(D(w), V(w))
  PROVE  OwnTables(w)
<1>1. /\ J(w) = <<D(w), V(w)>> /\ J(w) \in Jobs /\ D(w) \in Docs /\ V(w) \in Versions
      /\ \A d \in Docs : doc[d].current \in Nat
  BY JobOfVersion, KIAssumption DEF TypeInv, TypeOK
<1>2. job' = [job EXCEPT ![J(w)] = "processing"] /\ UNCHANGED outbox
  BY <1>1 DEF IndexClaimed
<1>3. \A d \in Docs, v \in Versions :
        (ver'[d][v] = "none") # (ver[d][v] = "none") => ver'[d][v] # "none" /\ <<d, v>> = J(w)
  BY <1>1 DEF IndexClaimed, TypeInv, TypeOK
<1>4. [status |-> "parsing", current |-> doc[D(w)].current] \in [status: DocStatus \ {"none"}, current: Nat]
  BY <1>1 DEF DocStatus
<1>5. \/ doc' = doc
      \/ /\ doc' = [doc EXCEPT ![D(w)] = [status |-> "parsing", current |-> doc[D(w)].current]]
         /\ [status |-> "parsing", current |-> doc[D(w)].current].current >= doc[D(w)].current
  BY <1>1 DEF IndexClaimed, SetStatus
<1>6. "processing" \in JobStatus \ {"none"}
  BY DEF JobStatus
<1> QED BY <1>2, <1>3, <1>4, <1>5, <1>6, OwnTablesIntro

\* Every claim, completion and failure is an OwnTables step.
LEMMA OwnTransaction ==
  ASSUME TypeInv, NEW w \in Workers, Busy(w),
         \/ UNCHANGED <<doc, ver, job, outbox>>
         \/ ~IsDelete(J(w)) /\ IndexClaimed(D(w), V(w))
         \/ ~IsDelete(J(w)) /\ IndexCompleted(D(w), V(w))
         \/ IsDelete(J(w)) /\ DeleteCompleted(D(w))
         \/ IsDelete(J(w)) /\ \E s \in {"processing", "retrying", "failed"} : SetDeleteJob(D(w), s)
         \/ ~IsDelete(J(w)) /\ \E s \in {"retrying", "failed"}, t \in {"parsing", "failed"} :
                                  IndexFailed(D(w), V(w), s, t)
  PROVE  OwnTables(w)
<1> USE KIAssumption DEF TypeInv, TypeOK
<1>0. /\ J(w) = <<D(w), V(w)>> /\ J(w) \in Jobs /\ D(w) \in Docs
      /\ ~IsDelete(J(w)) => V(w) \in Versions
      /\ IsDelete(J(w)) => V(w) = 0
      /\ \A d \in Docs : doc[d].current \in Nat
  BY JobOfVersion
<1>1. CASE UNCHANGED <<doc, ver, job, outbox>>
  BY <1>0, <1>1 DEF OwnTables
<1>2. CASE ~IsDelete(J(w)) /\ IndexCompleted(D(w), V(w))
  <2>1. job' = [job EXCEPT ![J(w)] = "completed"] /\ UNCHANGED outbox
    BY <1>0, <1>2 DEF IndexCompleted
  <2>2. \A d \in Docs, v \in Versions :
          (ver'[d][v] = "none") # (ver[d][v] = "none") => ver'[d][v] # "none" /\ <<d, v>> = J(w)
    BY <1>0, <1>2 DEF IndexCompleted
  <2>3. CASE Promotes(D(w), V(w))
    <3>1. doc' = [doc EXCEPT ![D(w)] = [status |-> "indexed", current |-> V(w)]]
      BY <1>2, <2>3 DEF IndexCompleted
    <3>2. V(w) >= doc[D(w)].current /\ V(w) \in Nat
      BY <1>0, <1>2, <2>3 DEF Promotes, Versions
    <3>3. [status |-> "indexed", current |-> V(w)] \in [status: DocStatus \ {"none"}, current: Nat]
      BY <3>2 DEF DocStatus
    <3>4. doc'[D(w)].current >= V(w)
      BY <1>0, <3>1, <3>2
    <3> QED BY <2>1, <2>2, <3>1, <3>2, <3>3, <3>4, OwnTablesIntro DEF JobStatus
  <2>4. CASE ~Promotes(D(w), V(w))
    <3>1. doc' = doc /\ doc[D(w)].current >= V(w)
      BY <1>0, <1>2, <2>4 DEF IndexCompleted, Promotes, Versions
    <3>2. [status |-> "indexed", current |-> 0] \in [status: DocStatus \ {"none"}, current: Nat]
      BY DEF DocStatus
    <3> QED BY <2>1, <2>2, <3>1, <3>2, OwnTablesIntro DEF JobStatus
  <2> QED BY <2>3, <2>4
<1>3. CASE IsDelete(J(w)) /\ DeleteCompleted(D(w))
  <2>1. job' = [job EXCEPT ![J(w)] = "completed"] /\ UNCHANGED <<doc, outbox>>
    BY <1>0, <1>3 DEF DeleteCompleted
  <2>2. \A d \in Docs, v \in Versions : ver'[d][v] = "none" <=> ver[d][v] = "none"
    BY <1>0, <1>3 DEF DeleteCompleted
  <2>3. [status |-> "indexed", current |-> 0] \in [status: DocStatus \ {"none"}, current: Nat]
    BY DEF DocStatus
  <2> QED BY <1>3, <2>1, <2>2, <2>3, OwnTablesIntro DEF JobStatus
<1>4. CASE IsDelete(J(w)) /\ \E s \in {"processing", "retrying", "failed"} : SetDeleteJob(D(w), s)
  <2>1. PICK s \in {"processing", "retrying", "failed"} : SetDeleteJob(D(w), s)
    BY <1>4
  <2>2. job' = [job EXCEPT ![J(w)] = s] /\ UNCHANGED <<doc, ver, outbox>>
    BY <1>0, <1>4, <2>1 DEF SetDeleteJob
  <2>3. [status |-> "indexed", current |-> 0] \in [status: DocStatus \ {"none"}, current: Nat]
    BY DEF DocStatus
  <2> QED BY <2>2, <2>3, OwnTablesIntro DEF JobStatus
<1>5. CASE ~IsDelete(J(w)) /\ \E s \in {"retrying", "failed"}, t \in {"parsing", "failed"} :
                                IndexFailed(D(w), V(w), s, t)
  <2>1. PICK s \in {"retrying", "failed"}, t \in {"parsing", "failed"} : IndexFailed(D(w), V(w), s, t)
    BY <1>5
  <2>2. job' = [job EXCEPT ![J(w)] = s] /\ UNCHANGED outbox
    BY <1>0, <2>1 DEF IndexFailed
  <2>3. \/ doc' = doc
        \/ doc' = [doc EXCEPT ![D(w)] = [status |-> t, current |-> doc[D(w)].current]]
    BY <2>1 DEF IndexFailed, SetStatus
  <2>4. \A d \in Docs, v \in Versions :
          (ver'[d][v] = "none") # (ver[d][v] = "none") => ver'[d][v] # "none" /\ <<d, v>> = J(w)
    BY <1>0, <1>5, <2>1 DEF IndexFailed
  <2>5. [status |-> t, current |-> doc[D(w)].current] \in [status: DocStatus \ {"none"}, current: Nat]
    BY <1>0 DEF DocStatus
  <2>6. s \in JobStatus \ {"none"} /\ s # "completed"
    BY DEF JobStatus
  <2>7. \/ doc' = doc
        \/ /\ doc' = [doc EXCEPT ![D(w)] = [status |-> t, current |-> doc[D(w)].current]]
           /\ [status |-> t, current |-> doc[D(w)].current].current >= doc[D(w)].current
    BY <1>0, <2>3
  <2> QED BY <2>2, <2>4, <2>5, <2>6, <2>7, OwnTablesIntro
<1>6. CASE ~IsDelete(J(w)) /\ IndexClaimed(D(w), V(w))
  BY <1>6, OwnClaim
<1> QED BY <1>1, <1>2, <1>3, <1>4, <1>5, <1>6

\* Every handler step is an OwnTables step of a busy worker.
LEMMA HandlerTables ==
  ASSUME TypeInv, NEW w \in Workers, HandlerStep(w)
  PROVE  Busy(w) /\ OwnTables(w)
<1> USE DEF At
<1>1. Busy(w)
  BY DEF Busy, HandlerStep, HandlerSteps, At, Claims, ClaimComplete, ClaimMissing, ClaimIndexJob, ClaimDeleteJob, ClaimFails,
     ParseFails, ReplaceChunks, ReplaceFails, IndexIncremental, IndexFails, CompleteIndex, CompleteFails,
     Erase, EraseFails, CompleteDelete, CompleteDeleteFails, RecordRetry, FailIndex, Exhaust
<1>2. /\ pc[w] \in {"replace", "project", "complete", "failing"} => ~IsDelete(J(w))
      /\ pc[w] \in {"erase", "purge"} => IsDelete(J(w))
  BY <1>1 DEF TypeInv, Holding, J
<1>3. CASE \/ ClaimComplete(w) \/ ClaimMissing(w) \/ ParseFails(w) \/ ReplaceChunks(w)
           \/ ReplaceFails(w) \/ IndexIncremental(w) \/ IndexFails(w) \/ Erase(w) \/ EraseFails(w)
  <2>1. UNCHANGED <<doc, ver, job, outbox>>
    BY <1>3 DEF db, ClaimComplete, ClaimMissing, ParseFails, ReplaceChunks, ReplaceFails, RowsReplaced,
       IndexIncremental, IndexFails, Erase, EraseFails
  <2> QED BY <1>1, <2>1, OwnTransaction
<1>4. CASE ClaimIndexJob(w) \/ ClaimDeleteJob(w) \/ ClaimFails(w)
  <2>1. \/ UNCHANGED <<doc, ver, job, outbox>>
        \/ ~IsDelete(J(w)) /\ IndexClaimed(D(w), V(w))
        \/ IsDelete(J(w)) /\ SetDeleteJob(D(w), "processing")
    BY <1>4 DEF ClaimIndexJob, ClaimDeleteJob, ClaimFails, db
  <2> QED BY <1>1, <2>1, OwnTransaction
<1>6. CASE CompleteIndex(w) \/ CompleteFails(w)
  BY <1>1, <1>2, <1>6, OwnTransaction DEF CompleteIndex, CompleteFails, db
<1>7. CASE CompleteDelete(w) \/ CompleteDeleteFails(w)
  BY <1>1, <1>2, <1>7, OwnTransaction DEF CompleteDelete, CompleteDeleteFails, db
<1>8. CASE RecordRetry(w) \/ FailIndex(w) \/ Exhaust(w)
  BY <1>1, <1>2, <1>8, OwnTransaction DEF RecordRetry, FailIndex, Exhaust, db
<1> QED BY <1>1, <1>3, <1>4, <1>6, <1>7, <1>8 DEF HandlerStep

\* What adding a job with its event does to the two tables.
LEMMA EnqueueTables ==
  ASSUME TypeInv, Recorded, NEW j \in Jobs, job[j] = "none", Enqueue(j)
  PROVE  /\ \A i \in Jobs : job'[i] # job[i] =>
              /\ job'[i] = "queued" /\ outbox'[i] = "pending"
              /\ \A w \in Workers : marking[w] # i
         /\ \A i \in Jobs : outbox'[i] # outbox[i] => job'[i] # job[i]
         /\ \A i \in Jobs : job'[i] = "none" <=> outbox'[i] = "none"
         /\ \A i \in Jobs : job'[i] # "none" <=> job[i] # "none" \/ i = j
<1>1. job' = [job EXCEPT ![j] = "queued"] /\ outbox' = [outbox EXCEPT ![j] = "pending"]
  BY DEF Enqueue
<1>2. \A w \in Workers : marking[w] # j
  BY KIAssumption DEF Recorded
<1> QED BY <1>1, <1>2 DEF TypeInv, TypeOK, Recorded

\* A transaction that adds job <<d, k>> keeps every row behind its parent.
LEMMA EnqueueRecorded ==
  ASSUME TypeInv, Recorded, NEW d \in Docs, NEW k \in 0..MaxVersion,
         job[<<d, k>>] = "none", Enqueue(<<d, k>>), UNCHANGED <<msg, marking>>,
         \A e \in Docs : doc'[e].status = "none" => doc[e].status = "none" /\ e # d /\ doc'[e].current = doc[e].current,
         \A e \in Docs, v \in Versions : ver'[e][v] # "none" => ver[e][v] # "none" \/ e = d,
         \A e \in Docs, v \in Versions : ver'[e][v] = "none" => ver[e][v] = "none" /\ <<e, v>> # <<d, k>>
  PROVE  Recorded'
<1>1. /\ <<d, k>> \in Jobs
      /\ \A e \in Docs : <<e, 0>> \in Jobs
      /\ \A e \in Docs, v \in Versions : <<e, v>> \in Jobs
      /\ \A u \in Workers : marking[u] # NoJob => marking[u] \in Jobs
  BY KIAssumption DEF Jobs, Versions, TypeInv, TypeOK
<1>2. /\ \A i \in Jobs : job'[i] = "none" <=> outbox'[i] = "none"
      /\ \A i \in Jobs : job'[i] # "none" <=> job[i] # "none" \/ i = <<d, k>>
  BY <1>1, EnqueueTables
<1>3. /\ \A j \in Jobs, c \in Copies : msg'[j][c].at # "none" => job'[j] # "none"
      /\ \A w \in Workers : marking'[w] # NoJob => job'[marking'[w]] # "none"
  BY <1>1, <1>2 DEF Recorded
<1>4. \A e \in Docs, v \in Versions : job'[<<e, v>>] # "none" => ver'[e][v] # "none"
  BY <1>1, <1>2 DEF Recorded
<1>5. \A e \in Docs, v \in Versions : ver'[e][v] # "none" => doc'[e].status # "none"
  BY DEF Recorded
<1>6. \A e \in Docs : job'[<<e, 0>>] # "none" => doc'[e].status # "none"
  BY <1>1, <1>2 DEF Recorded
<1> QED BY <1>2, <1>3, <1>4, <1>5, <1>6 DEF Recorded

\* What an API step does to the tables.
LEMMA APITables ==
  ASSUME TypeInv, Recorded, API
  PROVE  /\ Recorded'
         /\ UNCHANGED <<msg, pc, held, act, marking>>
         /\ \A d \in Docs : doc'[d].current >= doc[d].current
         /\ \A j \in Jobs : job'[j] # job[j] =>
              /\ job'[j] = "queued" /\ outbox'[j] = "pending"
              /\ \A w \in Workers : marking[w] # j
         /\ \A j \in Jobs : outbox'[j] # outbox[j] => job'[j] # job[j]
<1>1. /\ \A d \in Docs : doc[d].current \in Nat
      /\ doc \in [Docs -> [status: DocStatus, current: 0..MaxVersion]]
      /\ ver \in [Docs -> [Versions -> DocStatus]]
      /\ \A d \in Docs, k \in 0..MaxVersion : <<d, k>> \in Jobs
      /\ 1 \in Versions /\ Versions \subseteq 0..MaxVersion /\ 0 \in 0..MaxVersion /\ 0 \notin Versions
  BY KIAssumption DEF TypeInv, TypeOK, Jobs, Versions
<1>2. PICK d \in Docs : Accept(d) \/ CreateVersionUpload(d) \/ CreateDelete(d)
  BY DEF API, AcceptVersion, Rebuild
<1>3. CASE Accept(d)
  <2>1. /\ doc[d].status = "none" /\ Enqueue(<<d, 1>>)
        /\ doc' = [doc EXCEPT ![d] = [status |-> "uploaded", current |-> 1]]
        /\ ver' = [ver EXCEPT ![d][1] = "uploaded"]
        /\ UNCHANGED <<msg, pc, held, act, marking>>
    BY <1>3 DEF Accept
  <2>2. doc[d].current = 0 /\ job[<<d, 1>>] = "none"
    BY <1>1, <2>1 DEF Recorded
  <2>3. \A e \in Docs : /\ doc'[e].current >= doc[e].current
                        /\ doc'[e].status = "none" =>
                             doc[e].status = "none" /\ e # d /\ doc'[e].current = doc[e].current
    BY <1>1, <2>1, <2>2
  <2>4. \A e \in Docs, v \in Versions :
          /\ ver'[e][v] # "none" => ver[e][v] # "none" \/ e = d
          /\ ver'[e][v] = "none" => ver[e][v] = "none" /\ <<e, v>> # <<d, 1>>
    BY <1>1, <2>1
  <2>5. Recorded'
    BY <1>1, <2>1, <2>2, <2>3, <2>4, EnqueueRecorded
  <2> QED BY <1>1, <2>1, <2>2, <2>3, <2>5, EnqueueTables
<1>4. CASE CreateVersionUpload(d)
  <2>1. PICK v \in Versions :
          IsNextVersion(d, v) /\ ver' = [ver EXCEPT ![d][v] = "uploaded"] /\ Enqueue(<<d, v>>)
    BY <1>4 DEF CreateVersionUpload
  <2>2. doc[d].status # "none" /\ UNCHANGED <<doc, msg, pc, held, act, marking>>
    BY <1>4 DEF CreateVersionUpload, Live
  <2>3. job[<<d, v>>] = "none"
    BY <2>1 DEF IsNextVersion, Recorded
  <2>4. \A e \in Docs, u \in Versions :
          /\ ver'[e][u] # "none" => ver[e][u] # "none" \/ e = d
          /\ ver'[e][u] = "none" => ver[e][u] = "none" /\ <<e, u>> # <<d, v>>
    BY <1>1, <2>1
  <2>5. Recorded'
    BY <1>1, <2>1, <2>2, <2>3, <2>4, EnqueueRecorded
  <2> QED BY <1>1, <2>1, <2>2, <2>3, <2>5, EnqueueTables
<1>5. CASE CreateDelete(d)
  <2>1. /\ doc[d].status # "none" /\ job[<<d, 0>>] = "none" /\ Enqueue(<<d, 0>>)
        /\ doc' = [doc EXCEPT ![d] = [status |-> "deleted", current |-> doc[d].current]]
        /\ UNCHANGED <<ver, msg, pc, held, act, marking>>
    BY <1>5 DEF CreateDelete, SetStatus, Live
  <2>2. \A e \in Docs : /\ doc'[e].current >= doc[e].current
                        /\ doc'[e].status = "none" =>
                             doc[e].status = "none" /\ e # d /\ doc'[e].current = doc[e].current
    BY <1>1, <2>1
  <2>3. Recorded'
    BY <1>1, <2>1, <2>2, EnqueueRecorded
  <2> QED BY <1>1, <2>1, <2>2, <2>3, EnqueueTables
<1> QED BY <1>2, <1>3, <1>4, <1>5

\* A handler step leaves the broker alone and goes on with the same message.
LEMMA HandlerWork ==
  ASSUME TypeInv, NEW w \in Workers, HandlerStep(w)
  PROVE  /\ UNCHANGED <<msg, held, marking>>
         /\ pc'[w] \in HandlerSteps
         /\ \A u \in Workers : u # w => pc'[u] = pc[u] /\ act'[u] = act[u]
BY DEF TypeInv, TypeOK, HandlerStep, HandlerSteps, Goto, Respond, RetryOrExhaust, ClaimComplete, ClaimMissing,
   ClaimIndexJob, ClaimDeleteJob, ClaimFails, ParseFails, ReplaceChunks, ReplaceFails, IndexIncremental,
   IndexFails, CompleteIndex, CompleteFails, Erase, EraseFails, CompleteDelete, CompleteDeleteFails,
   RecordRetry, FailIndex, Exhaust

\* A handler step keeps every row, event and message behind its parent.
LEMMA HandlerRecorded ==
  ASSUME TypeInv, Recorded, Exclusive, NEW w \in Workers, HandlerStep(w)
  PROVE  Recorded'
<1>1. Busy(w) /\ OwnTables(w) /\ J(w) \in Jobs /\ C(w) \in Copies /\ D(w) \in Docs /\ J(w) = <<D(w), V(w)>>
  BY HandlerTables, JobOfVersion DEF TypeInv, Holding, C
<1>2. job[J(w)] # "none"
  BY <1>1 DEF Exclusive, Recorded
<1>3. \A j \in Jobs : job'[j] = "none" <=> job[j] = "none"
  BY <1>1, <1>2 DEF OwnTables, TypeInv, TypeOK
<1>4. doc[D(w)].status # "none"
  BY <1>1, <1>2, JobOfVersion DEF Recorded, IsDelete
<1>5. \A d \in Docs : doc'[d].status = "none" <=> doc[d].status = "none"
  BY <1>1, <1>4 DEF OwnTables
<1>6. \A d \in Docs : doc'[d].status = "none" => doc'[d].current = 0
  BY <1>1, <1>5 DEF OwnTables, Recorded
<1>7. \A d \in Docs, v \in Versions : ver'[d][v] = "none" <=> ver[d][v] = "none"
  BY <1>1, <1>2 DEF OwnTables, Recorded
<1>8. UNCHANGED <<outbox, msg, marking>>
  BY <1>1, HandlerWork DEF OwnTables
<1>9. /\ \A d \in Docs : <<d, 0>> \in Jobs
      /\ \A d \in Docs, v \in Versions : <<d, v>> \in Jobs
      /\ \A u \in Workers : marking[u] # NoJob => marking[u] \in Jobs
  BY KIAssumption DEF Jobs, Versions, TypeInv, TypeOK
<1> QED BY <1>3, <1>5, <1>6, <1>7, <1>8, <1>9 DEF Recorded

-----------------------------------------------------------------------------
(***************************************************************************)
(* Messages and the workers that hold them.                                *)
(***************************************************************************)
\* A broker step: the document, version and job tables do not change, and
\* an event at most becomes published.
BrokerStep(w) ==
  \/ \E j \in Jobs : Publish(w, j) \/ PublishUnconfirmed(w, j)
  \/ MarkOutboxPublished(w) \/ MarkFails(w)
  \/ \E j \in Jobs, c \in Copies : Deliver(w, j, c)
  \/ FinishDelivery(w) \/ FinishTwice(w) \/ SessionLost(w) \/ Crash(w)

\* Where a message may appear: in a free place, or where the worker's own
\* message was.
LEMMA MessageMoves ==
  ASSUME TypeInv, Recorded, Exclusive, NEW w \in Workers, BrokerStep(w)
  PROVE  /\ \A j \in Jobs, c \in Copies : msg'[j][c].at # "none" => job[j] # "none"
         /\ \A j \in Jobs, c \in Copies :
              msg[j][c].at = "held" /\ (Busy(w) => held[w] # [job |-> j, copy |-> c])
              => msg'[j][c] = msg[j][c]
<1> USE DEF BrokerStep
<1>1. msg \in [Jobs -> [Copies -> Message]]
  BY DEF TypeInv, TypeOK
<1>2. ASSUME NEW j \in Jobs, Publish(w, j) \/ PublishUnconfirmed(w, j)
      PROVE  \E c \in Copies : msg[j][c].at = "none" /\ job[j] # "none"
                              /\ msg' = [msg EXCEPT ![j][c] = [at |-> "main", attempt |-> 0]]
  BY <1>2 DEF Publish, PublishUnconfirmed, Arrive, NextCopy, Recorded
<1>3. ASSUME NEW j \in Jobs, Publish(w, j) \/ PublishUnconfirmed(w, j)
      PROVE  /\ \A i \in Jobs, c \in Copies : msg'[i][c].at # "none" => job[i] # "none"
             /\ \A i \in Jobs, c \in Copies : msg[i][c].at = "held" => msg'[i][c] = msg[i][c]
  BY <1>1, <1>2, <1>3 DEF Recorded
<1>4. ASSUME NEW j \in Jobs, NEW c \in Copies, Deliver(w, j, c)
      PROVE  /\ \A i \in Jobs, e \in Copies : msg'[i][e].at # "none" => job[i] # "none"
             /\ \A i \in Jobs, e \in Copies : msg[i][e].at = "held" => msg'[i][e] = msg[i][e]
  <2>1. msg[j][c].at = "main" /\ msg' = [msg EXCEPT ![j][c] = Moved(j, c, "held")]
    BY <1>4 DEF Deliver
  <2> QED BY <1>1, <2>1 DEF Recorded
<1>5. CASE MarkOutboxPublished(w) \/ MarkFails(w)
  BY <1>5 DEF MarkOutboxPublished, MarkFails, Recorded
<1>6. ASSUME Busy(w)
      PROVE  /\ J(w) \in Jobs /\ C(w) \in Copies /\ job[J(w)] # "none"
             /\ held[w] = [job |-> J(w), copy |-> C(w)]
  BY <1>6 DEF TypeInv, TypeOK, Holding, Exclusive, Recorded, J, C
<1>7. CASE FinishDelivery(w)
  <2>1. Busy(w) /\ msg' = [msg EXCEPT ![J(w)][C(w)] = Answer(w)]
    BY <1>7 DEF FinishDelivery, Settle, At, Busy, HandlerSteps
  <2> QED BY <1>1, <1>6, <2>1 DEF Recorded
<1>8. CASE FinishTwice(w)
  <2>1. Busy(w)
    BY <1>8 DEF FinishTwice, At, Busy, HandlerSteps
  <2>2. PICK c \in Copies :
          /\ msg[J(w)][c].at = "none"
          /\ msg' = [msg EXCEPT ![J(w)][C(w)] = Moved(J(w), C(w), "main"), ![J(w)][c] = Answer(w)]
    BY <1>8 DEF FinishTwice, NextCopy
  <2> QED BY <1>1, <1>6, <2>1, <2>2 DEF Recorded
<1>9. CASE SessionLost(w) \/ Crash(w)
  <2>1. Requeue(w)
    BY <1>9 DEF SessionLost, Crash
  <2>2. CASE Busy(w)
    <3>1. msg' = [msg EXCEPT ![J(w)][C(w)] = Moved(J(w), C(w), "main")]
      BY <2>1, <2>2 DEF Requeue, Settle
    <3> QED BY <1>1, <1>6, <2>2, <3>1 DEF Recorded
  <2>3. CASE ~Busy(w)
    BY <2>1, <2>3 DEF Requeue, Recorded
  <2> QED BY <2>2, <2>3
<1> QED BY <1>3, <1>4, <1>5, <1>7, <1>8, <1>9

\* A broker step leaves the tables alone but for an event's publication; what
\* a publisher newly has to mark was pending.
LEMMA BrokerTables ==
  ASSUME TypeInv, Recorded, NEW w \in Workers, BrokerStep(w)
  PROVE  /\ UNCHANGED <<doc, ver, job>>
         /\ \A j \in Jobs : outbox'[j] = "none" <=> outbox[j] = "none"
         /\ \A u \in Workers : marking'[u] # NoJob =>
              \/ marking'[u] = marking[u]
              \/ outbox[marking'[u]] = "pending" /\ \E j \in Jobs : marking'[u] = j
<1> USE DEF TypeInv, TypeOK, BrokerStep, db, Release
<1>1. CASE \E j \in Jobs : Publish(w, j) \/ PublishUnconfirmed(w, j)
  BY <1>1 DEF Publish, PublishUnconfirmed
<1>2. CASE MarkOutboxPublished(w)
  BY <1>2 DEF MarkOutboxPublished
<1>3. CASE MarkFails(w) \/ \E j \in Jobs, c \in Copies : Deliver(w, j, c)
  BY <1>3 DEF MarkFails, Deliver
<1>4. CASE FinishDelivery(w) \/ FinishTwice(w) \/ SessionLost(w) \/ Crash(w)
  BY <1>4 DEF FinishDelivery, FinishTwice, SessionLost, Crash
<1> QED BY <1>1, <1>2, <1>3, <1>4

\* A broker step keeps every row, event and message behind its parent.
LEMMA BrokerRecorded ==
  ASSUME TypeInv, Recorded, Exclusive, NEW w \in Workers, BrokerStep(w)
  PROVE  Recorded'
<1>1. \A j \in Jobs, c \in Copies : msg'[j][c].at # "none" => job[j] # "none"
  BY MessageMoves
<1>2. \A u \in Workers : marking'[u] # NoJob => job[marking'[u]] # "none"
  BY BrokerTables DEF Recorded
<1> QED BY <1>1, <1>2, BrokerTables DEF Recorded

\* The other workers do not notice a broker step; the worker itself ends with
\* nothing, with what it had, or with a message nobody held.
LEMMA BrokerWork ==
  ASSUME TypeInv, NEW w \in Workers, BrokerStep(w)
  PROVE  /\ \A u \in Workers : u # w => pc'[u] = pc[u] /\ held'[u] = held[u] /\ act'[u] = act[u]
         /\ \/ pc'[w] \notin HandlerSteps
            \/ pc'[w] = pc[w] /\ held'[w] = held[w] /\ act'[w] = act[w]
               /\ \A j \in Jobs, c \in Copies : msg[j][c].at # "none" => msg'[j][c] = msg[j][c]
            \/ \E j \in Jobs, c \in Copies : Deliver(w, j, c)
<1> USE DEF BrokerStep, work
<1>1. CASE \E j \in Jobs : Publish(w, j) \/ PublishUnconfirmed(w, j)
  <2>1. PICK j \in Jobs : Publish(w, j) \/ PublishUnconfirmed(w, j)
    BY <1>1
  <2>2. PICK c \in Copies : msg[j][c].at = "none" /\ msg' = [msg EXCEPT ![j][c] = [at |-> "main", attempt |-> 0]]
    BY <2>1 DEF Publish, PublishUnconfirmed, Arrive, NextCopy
  <2>3. \A i \in Jobs, e \in Copies : msg[i][e].at # "none" => msg'[i][e] = msg[i][e]
    BY <2>2 DEF TypeInv, TypeOK
  <2> QED BY <2>1, <2>3 DEF Publish, PublishUnconfirmed
<1>2. CASE MarkOutboxPublished(w) \/ MarkFails(w)
  BY <1>2 DEF MarkOutboxPublished, MarkFails
<1>3. CASE \E j \in Jobs, c \in Copies : Deliver(w, j, c)
  BY <1>3 DEF Deliver, TypeInv, TypeOK
<1>4. CASE FinishDelivery(w) \/ FinishTwice(w) \/ SessionLost(w) \/ Crash(w)
  BY <1>4 DEF FinishDelivery, FinishTwice, SessionLost, Crash, Release, TypeInv, TypeOK, HandlerSteps
<1> QED BY <1>1, <1>2, <1>3, <1>4

\* A broker step leaves every held message to one worker.
LEMMA BrokerExclusive ==
  ASSUME TypeInv, Recorded, Exclusive, NEW w \in Workers, BrokerStep(w)
  PROVE  Exclusive'
<1> DEFINE Mine(u) == [job |-> J(u), copy |-> C(u)]
<1>1. ASSUME NEW u \in Workers, Busy(u)
      PROVE  J(u) \in Jobs /\ C(u) \in Copies /\ held[u] = Mine(u) /\ msg[J(u)][C(u)].at = "held"
  BY <1>1 DEF TypeInv, TypeOK, Holding, Exclusive, J, C
<1>2. ASSUME NEW u \in Workers, u # w, Busy(u)'
      PROVE  /\ Busy(u) /\ held'[u] = held[u]
             /\ msg'[J(u)][C(u)].at = "held"
  <2>1. Busy(u) /\ held'[u] = held[u]
    BY <1>2, BrokerWork DEF Busy
  <2>2. Busy(w) => held[w] # held[u]
    BY <1>2, <2>1 DEF Exclusive
  <2> QED BY <1>1, <2>1, <2>2, MessageMoves
<1>3. ASSUME NEW u \in Workers, u # w, Busy(u)'
      PROVE  (msg[J(u)][C(u)].at)' = "held"
  BY <1>2, <1>3 DEF J, C
<1>4. ASSUME Busy(w)' PROVE (msg[J(w)][C(w)].at)' = "held"
  <2>1. CASE \E j \in Jobs, c \in Copies : Deliver(w, j, c)
    BY <2>1 DEF Deliver, J, C, Moved, TypeInv, TypeOK
  <2>2. CASE ~\E j \in Jobs, c \in Copies : Deliver(w, j, c)
    <3>1. /\ Busy(w) /\ J(w)' = J(w) /\ C(w)' = C(w)
          /\ \A j \in Jobs, c \in Copies : msg[j][c].at # "none" => msg'[j][c] = msg[j][c]
      BY <1>4, <2>2, BrokerWork DEF Busy, J, C
    <3>2. msg[J(w)][C(w)].at = "held" /\ J(w) \in Jobs /\ C(w) \in Copies
      BY <1>1, <3>1
    <3>3. msg'[J(w)][C(w)] = msg[J(w)][C(w)]
      BY <3>1, <3>2
    <3> QED BY <3>1, <3>2, <3>3
  <2> QED BY <2>1, <2>2
<1>5. ASSUME NEW u \in Workers, u # w, Busy(u)', Busy(w)' PROVE held'[u] # held'[w]
  <2>1. Busy(u) /\ held'[u] = held[u] /\ msg[J(u)][C(u)].at = "held"
    BY <1>1, <1>2, <1>5
  <2>2. CASE \E j \in Jobs, c \in Copies : Deliver(w, j, c)
    <3>1. PICK j \in Jobs, c \in Copies : Deliver(w, j, c)
      BY <2>2
    <3>2. held'[w].job = j /\ held'[w].copy = c /\ msg[j][c].at = "main"
      BY <3>1 DEF Deliver, TypeInv, TypeOK
    <3>3. held'[u].job = J(u) /\ held'[u].copy = C(u)
      BY <2>1 DEF J, C
    <3> QED BY <2>1, <3>2, <3>3
  <2>3. CASE ~\E j \in Jobs, c \in Copies : Deliver(w, j, c)
    BY <1>5, <2>1, <2>3, BrokerWork DEF Busy, Exclusive
  <2> QED BY <2>2, <2>3
<1>6. ASSUME NEW u \in Workers, NEW x \in Workers, u # w, x # w, u # x, Busy(u)', Busy(x)'
      PROVE  held'[u] # held'[x]
  BY <1>2, <1>6 DEF Exclusive
<1>7. \A u \in Workers : Busy(u)' => (msg[J(u)][C(u)].at)' = "held"
  BY <1>3, <1>4
<1>8. \A u, x \in Workers : Busy(u)' /\ Busy(x)' /\ u # x => held'[u] # held'[x]
  BY <1>5, <1>6
<1> QED BY <1>7, <1>8 DEF Exclusive

-----------------------------------------------------------------------------
(***************************************************************************)
(* A carried message stays carried until its worker acknowledges it.       *)
(***************************************************************************)
\* No broker step drops a message that is carried.
LEMMA BrokerCarries ==
  ASSUME TypeInv, Exclusive, NEW w \in Workers, BrokerStep(w),
         NEW j \in Jobs, NEW c \in Copies, Carried(j, c)
  PROVE  Carried(j, c)'
<1> USE DEF BrokerStep
<1>1. msg \in [Jobs -> [Copies -> Message]]
  BY DEF TypeInv, TypeOK
<1>2. ASSUME NEW u \in Workers, u # w, Busy(u), held[u] = [job |-> j, copy |-> c], pc[u] = "finish" => act[u] # "ack"
      PROVE  Carried(j, c)'
  BY <1>2, BrokerWork DEF Carried, Busy
<1>3. ASSUME msg'[j][c].at \in {"main", "retry", "dead"}
      PROVE  Carried(j, c)'
  BY <1>3 DEF Carried
<1>4. ASSUME Busy(w)
      PROVE  J(w) \in Jobs /\ C(w) \in Copies /\ held[w] = [job |-> J(w), copy |-> C(w)]
             /\ msg[J(w)][C(w)].at = "held"
  BY <1>4 DEF TypeInv, TypeOK, Holding, Exclusive, J, C
<1>5. CASE \E i \in Jobs : Publish(w, i) \/ PublishUnconfirmed(w, i)
  <2>1. PICK i \in Jobs : Publish(w, i) \/ PublishUnconfirmed(w, i)
    BY <1>5
  <2>2. PICK e \in Copies : msg[i][e].at = "none" /\ msg' = [msg EXCEPT ![i][e] = [at |-> "main", attempt |-> 0]]
    BY <2>1 DEF Publish, PublishUnconfirmed, Arrive, NextCopy
  <2>3. CASE msg[j][c].at \in {"main", "retry", "dead"}
    BY <1>1, <1>3, <2>2, <2>3
  <2>4. CASE msg[j][c].at \notin {"main", "retry", "dead"}
    BY <2>1, <2>4 DEF Publish, PublishUnconfirmed, work, Carried, Busy
  <2> QED BY <2>3, <2>4
<1>6. CASE MarkOutboxPublished(w) \/ MarkFails(w)
  BY <1>6 DEF MarkOutboxPublished, MarkFails, work, Carried, Busy
<1>7. CASE \E i \in Jobs, e \in Copies : Deliver(w, i, e)
  <2>1. PICK i \in Jobs, e \in Copies : Deliver(w, i, e)
    BY <1>7
  <2>2. CASE i = j /\ e = c
    <3>1. pc'[w] = "claim" /\ held'[w] = [job |-> j, copy |-> c]
      BY <2>1, <2>2 DEF Deliver, TypeInv, TypeOK
    <3> QED BY <3>1 DEF Carried, Busy, HandlerSteps
  <2>3. CASE ~(i = j /\ e = c)
    <3>1. msg'[j][c] = msg[j][c] /\ ~Busy(w)
      BY <1>1, <2>1, <2>3 DEF Deliver, Busy, HandlerSteps
    <3> QED BY <1>2, <1>3, <3>1 DEF Carried
  <2> QED BY <2>2, <2>3
<1>8. CASE FinishDelivery(w)
  <2>1. /\ Busy(w) /\ pc[w] = "finish"
        /\ msg' = [msg EXCEPT ![J(w)][C(w)] = Answer(w)]
    BY <1>8 DEF FinishDelivery, Settle, At, Busy, HandlerSteps
  <2>2. CASE held[w] = [job |-> j, copy |-> c]
    <3>1. J(w) = j /\ C(w) = c
      BY <2>2 DEF J, C
    <3>2. \A u \in Workers : Busy(u) /\ held[u] = held[w] => u = w
      BY <2>1 DEF Exclusive
    <3>3. act[w] # "ack"
      BY <1>4, <2>1, <2>2, <3>1, <3>2 DEF Carried
    <3>4. msg'[j][c].at \in {"retry", "dead"}
      BY <1>1, <2>1, <3>1, <3>3 DEF Answer
    <3> QED BY <1>3, <3>4
  <2>3. CASE held[w] # [job |-> j, copy |-> c]
    <3>1. msg'[j][c] = msg[j][c]
      BY <1>1, <1>4, <2>1, <2>3
    <3> QED BY <1>2, <1>3, <2>3, <3>1 DEF Carried
  <2> QED BY <2>2, <2>3
<1>9. CASE FinishTwice(w)
  <2>1. Busy(w) /\ act[w] \in {"retry", "dead"}
    BY <1>9 DEF FinishTwice, At, Busy, HandlerSteps
  <2>2. PICK e \in Copies :
          /\ msg[J(w)][e].at = "none"
          /\ msg' = [msg EXCEPT ![J(w)][C(w)] = Moved(J(w), C(w), "main"), ![J(w)][e] = Answer(w)]
    BY <1>9 DEF FinishTwice, NextCopy
  <2>3. CASE held[w] = [job |-> j, copy |-> c]
    <3>1. J(w) = j /\ C(w) = c /\ e # c
      BY <1>4, <2>1, <2>2, <2>3 DEF J, C
    <3>2. msg'[j][c].at = "main"
      BY <1>1, <2>2, <3>1 DEF Moved
    <3> QED BY <1>3, <3>2
  <2>4. CASE held[w] # [job |-> j, copy |-> c]
    <3>1. msg'[j][c] = msg[j][c] \/ msg[j][c].at = "none"
      BY <1>1, <1>4, <2>1, <2>2, <2>4
    <3>2. \A u \in Workers : Busy(u) => msg[J(u)][C(u)].at = "held"
      BY DEF Exclusive
    <3>3. msg[j][c].at # "none"
      BY <3>2 DEF Carried, J, C
    <3> QED BY <1>2, <1>3, <2>4, <3>1, <3>3 DEF Carried
  <2> QED BY <2>3, <2>4
<1>10. CASE SessionLost(w) \/ Crash(w)
  <2>1. Requeue(w)
    BY <1>10 DEF SessionLost, Crash
  <2>2. CASE Busy(w) /\ held[w] = [job |-> j, copy |-> c]
    <3>1. J(w) = j /\ C(w) = c
      BY <2>2 DEF J, C
    <3>2. msg'[j][c].at = "main"
      BY <1>1, <2>1, <2>2, <3>1 DEF Requeue, Settle, Moved
    <3> QED BY <1>3, <3>2
  <2>3. CASE ~(Busy(w) /\ held[w] = [job |-> j, copy |-> c])
    <3>1. msg'[j][c] = msg[j][c]
      <4>1. CASE Busy(w)
        <5>1. msg' = [msg EXCEPT ![J(w)][C(w)] = Moved(J(w), C(w), "main")]
          BY <2>1, <4>1 DEF Requeue, Settle
        <5> QED BY <1>1, <1>4, <2>3, <4>1, <5>1
      <4>2. CASE ~Busy(w)
        BY <2>1, <4>2 DEF Requeue
      <4> QED BY <4>1, <4>2
    <3> QED BY <1>2, <1>3, <2>3, <3>1 DEF Carried
  <2> QED BY <2>2, <2>3
<1> QED BY <1>5, <1>6, <1>7, <1>8, <1>9, <1>10

\* A broker step keeps every unfinished job covered: an event that leaves the
\* pending state has its message.
LEMMA BrokerCovered ==
  ASSUME TypeInv, Recorded, Exclusive, Covered, NEW w \in Workers, BrokerStep(w)
  PROVE  Covered'
<1> SUFFICES ASSUME NEW j \in Jobs, job'[j] \in Pending,
                    outbox'[j] # "pending" \/ \E u \in Workers : marking'[u] = j
             PROVE  \E c \in Copies : Carried(j, c)'
  BY DEF Covered
<1>1. job[j] \in Pending
  BY BrokerTables
<1>2. CASE outbox[j] # "pending" \/ \E u \in Workers : marking[u] = j
  BY <1>1, <1>2, BrokerCarries DEF Covered
<1>3. CASE outbox[j] = "pending" /\ \A u \in Workers : marking[u] # j
  <2>1. Publish(w, j)
    <3>1. ASSUME ~Publish(w, j) PROVE outbox'[j] = "pending" /\ \A u \in Workers : marking'[u] # j
      <4>1. CASE \E i \in Jobs : Publish(w, i) \/ PublishUnconfirmed(w, i)
        BY <1>3, <3>1, <4>1 DEF Publish, PublishUnconfirmed, db, TypeInv, TypeOK
      <4>2. CASE MarkOutboxPublished(w) \/ MarkFails(w)
        BY <1>3, <4>2, KIAssumption DEF MarkOutboxPublished, MarkFails, db, TypeInv, TypeOK
      <4>3. CASE \/ \E i \in Jobs, c \in Copies : Deliver(w, i, c)
                 \/ FinishDelivery(w) \/ FinishTwice(w)
        BY <1>3, <4>3 DEF Deliver, FinishDelivery, FinishTwice, db
      <4>4. CASE SessionLost(w) \/ Crash(w)
        BY <1>3, <4>4, KIAssumption DEF SessionLost, Crash, db, TypeInv, TypeOK
      <4> QED BY <4>1, <4>2, <4>3, <4>4 DEF BrokerStep
    <3> QED BY <3>1
  <2>2. PICK c \in Copies : msg' = [msg EXCEPT ![j][c] = [at |-> "main", attempt |-> 0]]
    BY <2>1 DEF Publish, Arrive
  <2>3. msg'[j][c].at = "main"
    BY <2>2 DEF TypeInv, TypeOK
  <2> QED BY <2>3 DEF Carried
<1> QED BY <1>2, <1>3

\* A handler that decides to acknowledge has completed its job.
LEMMA AckedIsDone ==
  ASSUME TypeInv, NEW w \in Workers, HandlerStep(w), pc'[w] = "finish", act'[w] = "ack"
  PROVE  job'[J(w)] = "completed"
<1>1. Busy(w)
  BY HandlerTables
<1>2. /\ J(w) = <<D(w), V(w)>> /\ J(w) \in Jobs
      /\ IsDelete(J(w)) => V(w) = 0
      /\ pc[w] = "purge" => IsDelete(J(w))
  BY <1>1, JobOfVersion DEF TypeInv, Holding, J
<1>3. \/ ClaimComplete(w) \/ CompleteIndex(w) \/ CompleteDelete(w)
  BY DEF TypeInv, TypeOK, At, HandlerStep, Goto, Respond, RetryOrExhaust, ClaimMissing,
     ClaimIndexJob, ClaimDeleteJob, ClaimFails, ParseFails, ReplaceChunks, ReplaceFails, IndexIncremental,
     IndexFails, CompleteFails, Erase, EraseFails, CompleteDeleteFails, RecordRetry, FailIndex, Exhaust
<1>4. CASE ClaimComplete(w)
  BY <1>4 DEF ClaimComplete, db
<1>5. CASE CompleteIndex(w)
  BY <1>2, <1>5 DEF CompleteIndex, IndexCompleted, TypeInv, TypeOK
<1>6. CASE CompleteDelete(w)
  BY <1>2, <1>6 DEF CompleteDelete, DeleteCompleted, At, TypeInv, TypeOK
<1> QED BY <1>3, <1>4, <1>5, <1>6

\* A handler step keeps messages exclusive and unfinished jobs covered.
LEMMA HandlerCovered ==
  ASSUME TypeInv, Exclusive, Covered, NEW w \in Workers, HandlerStep(w)
  PROVE  Exclusive' /\ Covered'
<1>1. /\ Busy(w) /\ OwnTables(w) /\ J(w) \in Jobs /\ C(w) \in Copies
      /\ held[w] = [job |-> J(w), copy |-> C(w)]
  BY HandlerTables DEF TypeInv, TypeOK, Holding, J, C
<1>2. /\ UNCHANGED <<msg, held, marking, outbox>> /\ Busy(w)'
      /\ \A u \in Workers : u # w => pc'[u] = pc[u] /\ act'[u] = act[u]
      /\ \A u \in Workers : Busy(u)' <=> Busy(u)
  BY <1>1, HandlerWork DEF OwnTables, Busy
<1>3. Exclusive'
  BY <1>2 DEF Exclusive, J, C
<1>4. ASSUME NEW j \in Jobs, job'[j] \in Pending,
             outbox'[j] # "pending" \/ \E u \in Workers : marking'[u] = j
      PROVE  \E c \in Copies : Carried(j, c)'
  <2>1. CASE j = J(w)
    <3>1. pc'[w] = "finish" => act'[w] # "ack"
      BY <1>4, <2>1, AckedIsDone DEF Pending
    <3> QED BY <1>1, <1>2, <2>1, <3>1 DEF Carried
  <2>2. CASE j # J(w)
    <3>1. job[j] = job'[j]
      BY <1>1, <2>2 DEF OwnTables, TypeInv, TypeOK
    <3>2. PICK c \in Copies : Carried(j, c)
      BY <1>2, <1>4, <3>1 DEF Covered
    <3>3. \A u \in Workers : held[u] = [job |-> j, copy |-> c] => u # w
      BY <1>1, <2>2 DEF J
    <3> QED BY <1>2, <3>2, <3>3 DEF Carried
  <2> QED BY <2>1, <2>2
<1> QED BY <1>3, <1>4 DEF Covered

-----------------------------------------------------------------------------
(***************************************************************************)
(* The remaining steps, and the theorems.                                  *)
(***************************************************************************)
\* An API step keeps the rest of the invariant: what it adds is pending.
LEMMA APIKeeps ==
  ASSUME IInv, API
  PROVE  Exclusive' /\ Covered' /\ CompletedIsVisible'
<1> USE DEF IInv
<1>1. Exclusive'
  BY APITables DEF Exclusive, Busy, J, C
<1>2. ASSUME NEW j \in Jobs, job'[j] \in Pending,
             outbox'[j] # "pending" \/ \E u \in Workers : marking'[u] = j
      PROVE  \E c \in Copies : Carried(j, c)'
  <2>1. job'[j] = job[j] /\ outbox'[j] = outbox[j] /\ UNCHANGED <<msg, pc, held, act, marking>>
    BY <1>2, APITables
  <2>2. PICK c \in Copies : Carried(j, c)
    BY <1>2, <2>1 DEF Covered
  <2> QED BY <2>1, <2>2 DEF Carried, Busy
<1>3. CompletedIsVisible'
  <2>1. SUFFICES ASSUME NEW d \in Docs, NEW v \in Versions, job'[<<d, v>>] = "completed"
                 PROVE  doc'[d].current >= v
    BY DEF CompletedIsVisible
  <2>2. <<d, v>> \in Jobs /\ v \in Nat /\ doc[d].current \in Nat
    BY KIAssumption DEF Jobs, Versions, TypeInv, TypeOK
  <2>3. job[<<d, v>>] = "completed" /\ doc'[d].current >= doc[d].current
    BY <2>1, <2>2, APITables
  <2>4. doc'[d].current \in Nat
    BY APIType, KIAssumption DEF TypeInv, TypeOK
  <2> QED BY <2>2, <2>3, <2>4 DEF CompletedIsVisible
<1> QED BY <1>1, <1>2, <1>3 DEF Covered

\* A retry that becomes due keeps the invariant.
LEMMA RetryDueKeeps ==
  ASSUME IInv, NEW j \in Jobs, NEW c \in Copies, RetryDue(j, c)
  PROVE  Recorded' /\ Exclusive' /\ Covered'
<1> USE DEF IInv
<1>1. /\ msg[j][c].at = "retry" /\ msg' = [msg EXCEPT ![j][c] = Moved(j, c, "main")]
      /\ UNCHANGED <<doc, ver, job, outbox, pc, held, act, marking>>
  BY DEF RetryDue, db, work
<1>2. \A i \in Jobs, e \in Copies :
        /\ msg'[i][e].at # "none" => msg[i][e].at # "none"
        /\ msg[i][e].at = "held" => msg'[i][e].at = "held"
        /\ msg[i][e].at \in {"main", "retry", "dead"} => msg'[i][e].at \in {"main", "retry", "dead"}
  BY <1>1 DEF Moved, TypeInv, TypeOK
<1>3. Recorded'
  BY <1>1, <1>2 DEF Recorded
<1>4. Exclusive'
  BY <1>1, <1>2 DEF Exclusive, Busy, J, C, TypeInv, Holding
<1>5. \A i \in Jobs, e \in Copies : Carried(i, e) => Carried(i, e)'
  BY <1>1, <1>2 DEF Carried, Busy
<1>6. Covered'
  BY <1>1, <1>5 DEF Covered
<1> QED BY <1>3, <1>4, <1>6

\* Steps that touch neither the tables nor the broker nor a busy worker.
LEMMA QuietKeeps ==
  ASSUME IInv, UNCHANGED <<doc, ver, job, outbox, msg, held, act, marking>>,
         \A w \in Workers : Busy(w)' <=> Busy(w),
         \A w \in Workers : Busy(w) => pc'[w] = pc[w]
  PROVE  Recorded' /\ Exclusive' /\ Covered' /\ CompletedIsVisible'
<1> USE DEF IInv
<1>1. Recorded' /\ CompletedIsVisible'
  BY DEF Recorded, CompletedIsVisible
<1>2. Exclusive'
  BY DEF Exclusive, J, C
<1>3. \A i \in Jobs, e \in Copies : Carried(i, e) => Carried(i, e)'
  BY DEF Carried
<1>4. Covered'
  BY <1>3 DEF Covered
<1> QED BY <1>1, <1>2, <1>4

\* A handler step completes a job only when the alias has reached its version.
LEMMA HandlerVisible ==
  ASSUME IInv, NEW w \in Workers, HandlerStep(w)
  PROVE  CompletedIsVisible' /\ \A d \in Docs : doc'[d].current >= doc[d].current
<1>1. OwnTables(w) /\ \A d \in Docs : doc[d].current \in Nat
  BY HandlerTables, KIAssumption DEF IInv, TypeInv, TypeOK
<1>2. \A d \in Docs : doc'[d].current \in Nat /\ doc'[d].current >= doc[d].current
  BY <1>1, HandlerType, KIAssumption DEF IInv, TypeInv, TypeOK, OwnTables
<1>3. \A v \in Versions : v \in Nat
  BY DEF Versions
<1> QED BY <1>1, <1>2, <1>3 DEF OwnTables, CompletedIsVisible, IInv

\* Every step keeps the invariant and never moves an alias back.
LEMMA IStep ==
  ASSUME IInv, [Next]_vars
  PROVE  IInv' /\ \A d \in Docs : doc'[d].current >= doc[d].current
<1> DEFINE Forward == \A d \in Docs : doc'[d].current >= doc[d].current
<1> SUFFICES Recorded' /\ Exclusive' /\ Covered' /\ CompletedIsVisible' /\ Forward
  BY TypeStep DEF IInv
<1>0. UNCHANGED doc => Forward
  BY KIAssumption DEF IInv, TypeInv, TypeOK
<1>1. CASE UNCHANGED vars
  BY <1>0, <1>1, QuietKeeps DEF vars, Busy
<1>2. CASE API
  BY <1>2, APIKeeps, APITables DEF IInv
<1>3. CASE Broker
  BY <1>0, <1>3, RetryDueKeeps DEF Broker, RetryDue, db, IInv, CompletedIsVisible
<1>4. CASE RedisLost
  BY <1>0, <1>4, QuietKeeps DEF RedisLost, db, work, Busy
<1>5. ASSUME NEW w \in Workers, Startup(w) \/ RebuildFails(w)
      PROVE  Recorded' /\ Exclusive' /\ Covered' /\ CompletedIsVisible' /\ Forward
  <2>1. UNCHANGED <<doc, ver, job, outbox, msg, held, act, marking>>
    BY <1>5 DEF Startup, RebuildFails, ListActive, PruneStaleChunks, RebuildProjection, VerifyProjection, db
  <2>2. /\ \A u \in Workers : Busy(u)' <=> Busy(u)
        /\ \A u \in Workers : Busy(u) => pc'[u] = pc[u]
    BY <1>5 DEF Startup, RebuildFails, ListActive, PruneStaleChunks, RebuildProjection, VerifyProjection, Busy, HandlerSteps, IInv, TypeInv, TypeOK
  <2> QED BY <1>0, <2>1, <2>2, QuietKeeps
<1>6. ASSUME NEW w \in Workers, HandlerStep(w)
      PROVE  Recorded' /\ Exclusive' /\ Covered' /\ CompletedIsVisible' /\ Forward
  BY <1>6, HandlerRecorded, HandlerCovered, HandlerVisible DEF IInv
<1>7. ASSUME NEW w \in Workers, BrokerStep(w)
      PROVE  Recorded' /\ Exclusive' /\ Covered' /\ CompletedIsVisible' /\ Forward
  BY <1>0, <1>7, BrokerRecorded, BrokerExclusive, BrokerCovered, BrokerTables DEF IInv, CompletedIsVisible
<1> QED BY <1>1, <1>2, <1>3, <1>4, <1>5, <1>6, <1>7
        DEF Next, Worker, Publisher, Consume, Handler, Failure, HandlerStep, BrokerStep

\* The invariant holds initially.
LEMMA IInit == Init => IInv
<1> SUFFICES ASSUME Init PROVE Recorded /\ Exclusive /\ Covered /\ CompletedIsVisible
  BY TypeInit DEF IInv
<1>1. \A d \in Docs, k \in 0..MaxVersion : <<d, k>> \in Jobs
  BY DEF Jobs
<1> QED BY <1>1, KIAssumption DEF Init, Recorded, Exclusive, Covered, CompletedIsVisible, Busy, HandlerSteps,
           NoMessage, Pending, Versions

\* The invariant holds in every state of the pipeline.
THEOREM Inductive == Spec => []IInv
BY IInit, IStep, PTL DEF Spec

\* The outbox promise: an unfinished job has its pending event or a message,
\* for any number of workers, attempts and failures.
THEOREM NothingLost == Spec => []NoSilentLoss
<1>1. ASSUME IInv PROVE NoSilentLoss
  <2>1. ASSUME NEW j \in Jobs, job[j] \in Pending, outbox[j] # "pending"
        PROVE  \E c \in Copies : msg[j][c].at # "none"
    <3>1. PICK c \in Copies : Carried(j, c)
      BY <1>1, <2>1 DEF IInv, Covered
    <3>2. ASSUME NEW u \in Workers, Busy(u), held[u] = [job |-> j, copy |-> c]
          PROVE  msg[j][c].at = "held"
      BY <1>1, <3>2 DEF IInv, Exclusive, J, C
    <3> QED BY <3>1, <3>2 DEF Carried
  <2> QED BY <2>1 DEF NoSilentLoss
<1> QED BY <1>1, Inductive, PTL

\* A completed version is the active one or was superseded.
THEOREM CompletedVisible == Spec => []CompletedIsVisible
BY Inductive, PTL DEF IInv

\* Versions that complete out of order never move the read alias backwards,
\* with any number of workers.
THEOREM NeverRegresses == Spec => CurrentNeverRegresses
<1>1. IInv /\ [Next]_vars => [\A d \in Docs : doc'[d].current >= doc[d].current]_vars
  BY IStep
<1> QED BY <1>1, Inductive, PTL DEF Spec, CurrentNeverRegresses

-----------------------------------------------------------------------------
(***************************************************************************)
(* Searching and cleaning up, with one worker, as README.md and the        *)
(* deployment script start it.  With a second one neither invariant holds: *)
(* it prunes by a list read before the first one promotes a version, and   *)
(* projects a version that the first one is cleaning up.                   *)
(***************************************************************************)
OneWorker == \A w, u \in Workers : w = u

\* A version a worker indexes belongs to a job under way and to a document
\* that is not deleted; its rows are written before Redis, Redis before the
\* completing transaction.
Indexing ==
  \A w \in Workers :
    /\ pc[w] \in {"replace", "project", "complete"} =>
         job[J(w)] = "processing" /\ doc[D(w)].status \notin {"none", "deleted"}
    /\ pc[w] \in {"project", "complete"} => chunk[D(w)][V(w)] # "none"
    /\ pc[w] = "complete" => redis[D(w)][V(w)] = "full"

\* A clean-up works on a deleted document, has read every row that Redis may
\* still show, and has erased them all when it marks the rows.
Cleaning ==
  \A w \in Workers :
    /\ pc[w] \in {"erase", "purge"} => doc[D(w)].status = "deleted"
    /\ pc[w] = "erase" =>
         /\ ids[w] \subseteq {D(w)} \X Versions
         /\ \A v \in Versions : redis[D(w)][v] # "none" => <<D(w), v>> \in ids[w]
    /\ pc[w] = "purge" => \A v \in Versions : redis[D(w)][v] = "none"

\* The clean-up of document d has finished.
Erased(d) == doc[d].status = "deleted" /\ job[<<d, 0>>] = "completed"

\* What a starting worker read covers what is active now; it has rows and is
\* not cleaned up.
Starting ==
  \A w \in Workers : pc[w] \in {"prune", "rebuild", "verify"} =>
    /\ Active \subseteq ids[w]
    /\ \A p \in ids[w] : chunk[p[1]][p[2]] # "none" /\ ~Erased(p[1])

\* Redis shows chunks of versions with rows only.
RowsFirst ==
  \A d \in Docs, v \in Versions : redis[d][v] # "none" => chunk[d][v] # "none"

\* The active version of a searchable document is a completed one.
Indexed ==
  \A d \in Docs : doc[d].status = "indexed" =>
    /\ doc[d].current \in Versions
    /\ job[<<d, doc[d].current>>] = "completed"

\* What only one worker can promise.
AloneInv ==
  /\ Indexing /\ Cleaning /\ Starting
  /\ RowsFirst /\ Indexed /\ ActiveIsServed /\ DeletedIsErased

\* What an API step does to the rows: existing jobs and versions stay, no
\* document becomes searchable, and one that is deleted has no job under way.
LEMMA APIRows ==
  ASSUME TypeInv, Recorded, API
  PROVE  /\ UNCHANGED <<chunk, redis, pc, held, ids>>
         /\ \A j \in Jobs : job[j] # "none" => job'[j] = job[j]
         /\ \A j \in Jobs : job'[j] = "completed" => job[j] = "completed"
         /\ \A d \in Docs, v \in Versions : ver[d][v] # "none" => ver'[d][v] = ver[d][v]
         /\ \A d \in Docs : doc'[d].status = "indexed" => doc'[d] = doc[d]
         /\ \A d \in Docs : doc[d].status = "deleted" => doc'[d].status = "deleted"
         /\ \A d \in Docs : doc'[d].status = "none" => doc[d].status = "none"
         /\ \A d \in Docs : doc'[d].status = "deleted" /\ doc[d].status # "deleted" =>
              NoIndexPending(d)
<1>1. /\ doc \in [Docs -> [status: DocStatus, current: 0..MaxVersion]]
      /\ ver \in [Docs -> [Versions -> DocStatus]] /\ job \in [Jobs -> JobStatus]
      /\ \A d \in Docs, k \in 0..MaxVersion : <<d, k>> \in Jobs
      /\ 1 \in Versions /\ Versions \subseteq 0..MaxVersion /\ 0 \in 0..MaxVersion
      /\ \A d \in Docs, v \in Versions : ver[d][v] = "none" => job[<<d, v>>] = "none"
      /\ \A d \in Docs, v \in Versions : doc[d].status = "none" => ver[d][v] = "none"
  BY KIAssumption DEF TypeInv, TypeOK, Jobs, Versions, Recorded
<1>2. PICK d \in Docs : Accept(d) \/ CreateVersionUpload(d) \/ CreateDelete(d)
  BY DEF API, AcceptVersion, Rebuild
<1>3. CASE Accept(d)
  BY <1>1, <1>3 DEF Accept, Enqueue
<1>4. CASE CreateVersionUpload(d)
  <2>1. PICK v \in Versions : IsNextVersion(d, v) /\ ver' = [ver EXCEPT ![d][v] = "uploaded"] /\ Enqueue(<<d, v>>)
    BY <1>4 DEF CreateVersionUpload
  <2> QED BY <1>1, <1>4, <2>1 DEF CreateVersionUpload, IsNextVersion, Enqueue
<1>5. CASE CreateDelete(d)
  BY <1>1, <1>5 DEF CreateDelete, SetStatus, Enqueue, Live
<1> QED BY <1>2, <1>3, <1>4, <1>5

\* An API step keeps what one worker promises.
LEMMA APIAlone == ASSUME IInv, AloneInv, API PROVE AloneInv'
<1> USE DEF IInv, AloneInv
<1>1. /\ UNCHANGED <<chunk, redis, pc, held, ids>>
      /\ \A w \in Workers : (J(w))' = J(w) /\ (D(w))' = D(w) /\ (V(w))' = V(w) /\ (Serving(w))' = Serving(w)
  BY APIRows DEF J, D, V, Serving
<1>2. /\ \A d \in Docs, k \in 0..MaxVersion : <<d, k>> \in Jobs
      /\ \A v \in Versions : v \in 0..MaxVersion
      /\ 0 \in 0..MaxVersion
  BY KIAssumption DEF Jobs, Versions
<1>3. \A d \in Docs : Erased(d)' => Erased(d)
  <2> SUFFICES ASSUME NEW d \in Docs, doc'[d].status = "deleted", job'[<<d, 0>>] = "completed"
               PROVE  doc[d].status = "deleted" /\ job[<<d, 0>>] = "completed"
    BY DEF Erased
  <2>1. job[<<d, 0>>] = "completed"
    BY <1>2, APIRows
  <2>2. CASE doc[d].status # "deleted"
    <3>1. PICK e \in Docs : Accept(e) \/ CreateVersionUpload(e) \/ CreateDelete(e)
      BY DEF API, AcceptVersion, Rebuild
    <3>2. CASE Accept(e)
      BY <2>2, <3>1, <3>2 DEF Accept, TypeInv, TypeOK
    <3>3. CASE CreateVersionUpload(e)
      BY <2>2, <3>1, <3>3 DEF CreateVersionUpload
    <3>4. CASE CreateDelete(e)
      BY <2>1, <2>2, <3>1, <3>4 DEF CreateDelete, SetStatus, TypeInv, TypeOK
    <3> QED BY <3>1, <3>2, <3>3, <3>4
  <2> QED BY <2>1, <2>2
<1>4. Indexing'
  <2>1. ASSUME NEW w \in Workers, pc[w] \in {"replace", "project", "complete"}
        PROVE  job'[J(w)] = "processing" /\ doc'[D(w)].status \notin {"none", "deleted"}
    <3>1. Busy(w) /\ ~IsDelete(J(w)) /\ job[J(w)] = "processing" /\ doc[D(w)].status \notin {"none", "deleted"}
      BY <2>1 DEF Indexing, Busy, HandlerSteps, TypeInv, Holding, J
    <3>2. J(w) = <<D(w), V(w)>> /\ J(w) \in Jobs /\ D(w) \in Docs /\ V(w) \in Versions
      BY <3>1, JobOfVersion
    <3>3. ~NoIndexPending(D(w))
      BY <3>1, <3>2 DEF NoIndexPending, Pending
    <3> QED BY <3>1, <3>2, <3>3, APIRows
  <2> QED BY <1>1, <2>1 DEF Indexing
<1>5. Cleaning'
  <2>1. ASSUME NEW w \in Workers, pc[w] \in {"erase", "purge"} PROVE D(w) \in Docs
    BY <2>1, JobOfVersion DEF Busy, HandlerSteps
  <2> QED BY <1>1, <2>1, APIRows DEF Cleaning
<1>6. Starting'
  <2>1. Active' \subseteq Active
    BY <1>1, APIRows DEF Active
  <2>2. \A w \in Workers : \A p \in ids[w] : p[1] \in Docs
    BY DEF TypeInv, TypeOK
  <2> QED BY <1>1, <1>3, <2>1, <2>2 DEF Starting
<1>7. RowsFirst' /\ DeletedIsErased'
  BY <1>1, <1>3 DEF RowsFirst, DeletedIsErased, Erased
<1>8. Indexed' /\ ActiveIsServed'
  <2> SUFFICES ASSUME NEW d \in Docs, doc'[d].status = "indexed"
               PROVE  /\ doc'[d].current \in Versions
                      /\ job'[<<d, doc'[d].current>>] = "completed"
                      /\ ver'[d][doc'[d].current] = "indexed"
                      /\ chunk'[d][doc'[d].current] = "indexed"
                      /\ (\E w \in Workers : Serving(w))' => redis'[d][doc'[d].current] = "full"
    BY DEF Indexed, ActiveIsServed
  <2>1. doc'[d] = doc[d]
    BY APIRows
  <2> QED BY <1>1, <1>2, <2>1, APIRows DEF Indexed, ActiveIsServed
<1> QED BY <1>4, <1>5, <1>6, <1>7, <1>8

\* A step that leaves rows, Redis and busy workers alone keeps the promise; a
\* worker may go down, or take a message up.
LEMMA QuietAlone ==
  ASSUME AloneInv, UNCHANGED <<doc, ver, chunk, job, redis>>,
         \A w \in Workers : Serving(w)' => Serving(w),
         \A w \in Workers :
           \/ pc'[w] = pc[w] /\ held'[w] = held[w] /\ ids'[w] = ids[w]
           \/ pc'[w] \in {"down", "idle", "claim", "finish", "exhaust", "failing", "retrying"}
  PROVE  AloneInv'
<1> USE DEF AloneInv
<1>1. Indexing'
  BY DEF Indexing, J, D, V
<1>2. Cleaning'
  BY DEF Cleaning, J, D
<1>3. Starting'
  BY DEF Starting, Active, Erased
<1>4. RowsFirst' /\ Indexed' /\ ActiveIsServed' /\ DeletedIsErased'
  BY DEF RowsFirst, Indexed, ActiveIsServed, DeletedIsErased
<1> QED BY <1>1, <1>2, <1>3, <1>4

\* So does every step of the publisher and of the broker.
LEMMA BrokerAlone ==
  ASSUME IInv, AloneInv, NEW w \in Workers, BrokerStep(w)
  PROVE  AloneInv'
<1> USE DEF BrokerStep, db, work, Serving, IInv, TypeInv, TypeOK
<1>1. CASE \E j \in Jobs : Publish(w, j) \/ PublishUnconfirmed(w, j)
  BY <1>1, QuietAlone DEF Publish, PublishUnconfirmed
<1>2. CASE MarkOutboxPublished(w) \/ MarkFails(w)
  BY <1>2, QuietAlone DEF MarkOutboxPublished, MarkFails
<1>3. CASE \E j \in Jobs, c \in Copies : Deliver(w, j, c)
  BY <1>3, QuietAlone DEF Deliver
<1>4. CASE FinishDelivery(w) \/ FinishTwice(w)
  BY <1>4, QuietAlone DEF FinishDelivery, FinishTwice, Release, At
<1>5. CASE SessionLost(w) \/ Crash(w)
  BY <1>5, QuietAlone DEF SessionLost, Crash, Release
<1> QED BY <1>1, <1>2, <1>3, <1>4, <1>5

\* Redis is lost only while nobody serves.
LEMMA RedisLostAlone == ASSUME IInv, AloneInv, RedisLost PROVE AloneInv'
<1>1. /\ UNCHANGED <<doc, ver, chunk, job, pc, held, ids>>
      /\ \A w \in Workers : pc[w] = "down"
      /\ \A d \in Docs, v \in Versions : redis'[d][v] = "none"
  BY DEF RedisLost, db, work
<1> QED BY <1>1 DEF AloneInv, Indexing, Cleaning, Starting, RowsFirst, Indexed, ActiveIsServed,
                    DeletedIsErased, Active, Erased, Serving

\* A start-up prunes what is not active, restores what is, and becomes ready
\* only when it is complete.
LEMMA StartupAlone ==
  ASSUME OneWorker, IInv, AloneInv, NEW w \in Workers, Startup(w) \/ RebuildFails(w)
  PROVE  AloneInv'
<1> USE DEF IInv, AloneInv
<1>1. /\ UNCHANGED <<doc, ver, chunk, job, held>>
      /\ Active' = Active /\ \A d \in Docs : Erased(d)' = Erased(d)
  BY DEF Startup, RebuildFails, ListActive, PruneStaleChunks, RebuildProjection, VerifyProjection, db, Active, Erased
<1>2. /\ pc[w] \in {"down", "prune", "rebuild", "verify"}
      /\ pc'[w] \in {"down", "prune", "rebuild", "verify", "idle"}
      /\ \A u \in Workers : u = w
  BY DEF OneWorker, Startup, RebuildFails, ListActive, PruneStaleChunks, RebuildProjection, VerifyProjection,
         TypeInv, TypeOK
<1>3. Indexing' /\ Cleaning'
  BY <1>2 DEF Indexing, Cleaning
<1>4. pc[w] \in {"prune", "rebuild", "verify"} => \A p \in ids[w] :
        p \in Docs \X Versions /\ chunk[p[1]][p[2]] # "none" /\ ~Erased(p[1])
  BY DEF Starting, TypeInv, TypeOK
<1>5. /\ \A d \in Docs, v \in Versions : redis'[d][v] # "none" =>
           \/ redis[d][v] # "none"
           \/ pc[w] \in {"prune", "rebuild", "verify"} /\ <<d, v>> \in ids[w]
  <2>1. CASE ListActive(w) \/ VerifyProjection(w)
    BY <2>1 DEF ListActive, VerifyProjection
  <2>2. CASE PruneStaleChunks(w)
    BY <2>2 DEF PruneStaleChunks
  <2>3. CASE RebuildProjection(w)
    BY <2>3 DEF RebuildProjection, Written
  <2>4. CASE RebuildFails(w)
    BY <2>4 DEF RebuildFails, Missing
  <2> QED BY <2>1, <2>2, <2>3, <2>4 DEF Startup
<1>6. RowsFirst'
  BY <1>1, <1>4, <1>5 DEF RowsFirst
<1>7. DeletedIsErased'
  BY <1>1, <1>4, <1>5 DEF DeletedIsErased, Erased
<1>8. Starting'
  <2>1. CASE ListActive(w)
    <3>1. ids'[w] = Active /\ chunk' = chunk
      BY <2>1 DEF ListActive, db, TypeInv, TypeOK
    <3>2. \A p \in Active : chunk[p[1]][p[2]] # "none" /\ ~Erased(p[1]) /\ p[1] \in Docs
      BY DEF Active, Erased
    <3>3. \A p \in Active : chunk'[p[1]][p[2]] # "none" /\ ~Erased(p[1])'
      BY <1>1, <3>1, <3>2
    <3> QED BY <1>1, <1>2, <3>1, <3>3 DEF Starting
  <2>2. CASE PruneStaleChunks(w) \/ RebuildProjection(w)
    BY <1>1, <1>2, <1>4, <2>2 DEF PruneStaleChunks, RebuildProjection, Starting
  <2>3. CASE VerifyProjection(w) \/ RebuildFails(w)
    BY <1>1, <1>2, <2>3 DEF VerifyProjection, RebuildFails, Starting, TypeInv, TypeOK
  <2> QED BY <2>1, <2>2, <2>3 DEF Startup
<1>9. Indexed' /\ ActiveIsServed'
  <2>1. Indexed'
    BY <1>1 DEF Indexed
  <2>2. ASSUME Serving(w)', NEW d \in Docs, doc[d].status = "indexed"
        PROVE  redis'[d][doc[d].current] = "full"
    <3>1. VerifyProjection(w) /\ Missing(w) = {}
      BY <1>2, <2>2 DEF Serving, Startup, RebuildFails, ListActive, PruneStaleChunks, RebuildProjection, VerifyProjection,
                       TypeInv, TypeOK
    <3>2. <<d, doc[d].current>> \in Active
      BY <2>2 DEF Active, Indexed, ActiveIsServed
    <3>3. <<d, doc[d].current>> \in ids[w] /\ redis' = redis
      BY <3>1, <3>2 DEF Starting, VerifyProjection
    <3> QED BY <3>1, <3>3 DEF Missing
  <2> QED BY <1>1, <1>2, <2>1, <2>2 DEF ActiveIsServed
<1> QED BY <1>3, <1>6, <1>7, <1>8, <1>9

\* How the index transactions keep the searchable documents: only the job and
\* the version of the handled message change, and the document becomes
\* searchable at this version, stays as it was, or stops being searchable.
LEMMA VersionAlone ==
  ASSUME TypeInv, Indexed, ActiveIsServed, NEW w \in Workers, Busy(w), ~IsDelete(J(w)),
         \A j \in Jobs : j # J(w) => job'[j] = job[j],
         \A d \in Docs, v \in Versions : <<d, v>> # J(w) => ver'[d][v] = ver[d][v],
         \A d \in Docs, v \in Versions : chunk'[d][v] = chunk[d][v] \/ chunk'[d][v] = "indexed",
         \A u \in Workers : Serving(u)' => Serving(u),
         redis' = redis,
         \A d \in Docs : doc'[d].status = "indexed" =>
           \/ doc'[d] = doc[d] /\ <<d, doc[d].current>> # J(w)
           \/ /\ doc'[d].current \in Versions /\ <<d, doc'[d].current>> = J(w)
              /\ job'[J(w)] = "completed" /\ ver'[d][doc'[d].current] = "indexed"
              /\ chunk'[d][doc'[d].current] = "indexed" /\ redis[d][doc'[d].current] = "full"
  PROVE  Indexed' /\ ActiveIsServed'
<1>1. \A d \in Docs, v \in Versions : <<d, v>> \in Jobs
  BY KIAssumption DEF Jobs, Versions
<1> SUFFICES ASSUME NEW d \in Docs, doc'[d].status = "indexed"
             PROVE  /\ doc'[d].current \in Versions
                    /\ job'[<<d, doc'[d].current>>] = "completed"
                    /\ ver'[d][doc'[d].current] = "indexed"
                    /\ chunk'[d][doc'[d].current] = "indexed"
                    /\ (\E u \in Workers : Serving(u))' => redis'[d][doc'[d].current] = "full"
  BY DEF Indexed, ActiveIsServed
<1>2. CASE doc'[d] = doc[d] /\ <<d, doc[d].current>> # J(w)
  BY <1>1, <1>2 DEF Indexed, ActiveIsServed
<1>3. CASE doc'[d].current \in Versions /\ <<d, doc'[d].current>> = J(w)
  BY <1>2, <1>3
<1> QED BY <1>2, <1>3

\* A handler step that has reached its answer, or is about to retry, leaves
\* the worker with nothing under way.
Answering == {"finish", "exhaust", "failing", "retrying"}

LEMMA AnsweringAlone ==
  ASSUME OneWorker, NEW w \in Workers, pc'[w] \in Answering
  PROVE  Indexing' /\ Cleaning' /\ Starting'
<1>1. \A u \in Workers : u = w
  BY DEF OneWorker
<1> QED BY <1>1 DEF Answering, Indexing, Cleaning, Starting

\* Completing a version whose rows and projection are complete.
LEMMA CompletedAlone ==
  ASSUME OneWorker, IInv, AloneInv, NEW w \in Workers, At(w, "complete"),
         IndexCompleted(D(w), V(w)), redis' = redis, pc'[w] \in Answering,
         \A u \in Workers : Serving(u)' => Serving(u)
  PROVE  AloneInv'
<1> USE DEF IInv, AloneInv
<1>1. /\ Busy(w) /\ ~IsDelete(J(w)) /\ doc[D(w)].status \notin {"none", "deleted"}
      /\ chunk[D(w)][V(w)] # "none" /\ redis[D(w)][V(w)] = "full"
  BY DEF At, Busy, HandlerSteps, TypeInv, Holding, J, Indexing
<1>2. J(w) = <<D(w), V(w)>> /\ J(w) \in Jobs /\ D(w) \in Docs /\ V(w) \in Versions
  BY <1>1, JobOfVersion
<1>3. /\ job' = [job EXCEPT ![J(w)] = "completed"]
      /\ ver' = [ver EXCEPT ![D(w)][V(w)] = "indexed"]
      /\ chunk' = [chunk EXCEPT ![D(w)][V(w)] = "indexed"]
      /\ \/ doc' = doc /\ ~Promotes(D(w), V(w))
         \/ doc' = [doc EXCEPT ![D(w)] = [status |-> "indexed", current |-> V(w)]]
  BY <1>1, <1>2 DEF IndexCompleted
<1>4. RowsFirst'
  BY <1>2, <1>3 DEF RowsFirst, TypeInv, TypeOK
<1>5. DeletedIsErased'
  <2>1. \A d \in Docs : <<d, 0>> \in Jobs /\ <<d, 0>> # J(w)
    BY <1>2, KIAssumption DEF Jobs, Versions
  <2>2. \A d \in Docs : doc'[d].status = "deleted" => doc[d].status = "deleted"
    <3>1. ASSUME NEW d \in Docs PROVE doc'[d] = doc[d] \/ doc'[d].status = "indexed"
      BY <1>2, <1>3 DEF TypeInv, TypeOK
    <3> QED BY <3>1
  <2> QED BY <1>3, <2>1, <2>2 DEF DeletedIsErased, TypeInv, TypeOK
<1>6. Indexed' /\ ActiveIsServed'
  <2>1. \A j \in Jobs : j # J(w) => job'[j] = job[j]
    BY <1>3 DEF TypeInv, TypeOK
  <2>2. \A d \in Docs, v \in Versions : <<d, v>> # J(w) => ver'[d][v] = ver[d][v]
    BY <1>2, <1>3 DEF TypeInv, TypeOK
  <2>3. \A d \in Docs, v \in Versions : chunk'[d][v] = chunk[d][v] \/ chunk'[d][v] = "indexed"
    BY <1>2, <1>3 DEF TypeInv, TypeOK
  <2>4. job'[J(w)] = "completed" /\ ver'[D(w)][V(w)] = "indexed" /\ chunk'[D(w)][V(w)] = "indexed"
    BY <1>2, <1>3 DEF TypeInv, TypeOK
  <2>5. ASSUME NEW d \in Docs, doc'[d].status = "indexed"
        PROVE  \/ doc'[d] = doc[d] /\ <<d, doc[d].current>> # J(w)
               \/ d = D(w) /\ doc'[d].current = V(w)
    <3>1. V(w) \in Nat /\ \A e \in Docs : doc[e].current \in Nat
      BY <1>2, KIAssumption DEF Versions, TypeInv, TypeOK
    <3>2. CASE d = D(w) /\ ~Promotes(D(w), V(w))
      BY <1>2, <1>3, <2>5, <3>1, <3>2 DEF Promotes, TypeInv, TypeOK
    <3>3. CASE d # D(w)
      BY <1>2, <1>3, <3>3 DEF TypeInv, TypeOK
    <3>4. CASE d = D(w) /\ Promotes(D(w), V(w))
      BY <1>2, <1>3, <3>4 DEF TypeInv, TypeOK
    <3> QED BY <3>2, <3>3, <3>4
  <2> QED BY <1>1, <1>2, <2>1, <2>2, <2>3, <2>4, <2>5, VersionAlone
<1> QED BY <1>4, <1>5, <1>6, AnsweringAlone

\* A recorded failure takes the active version out of the index with it.
LEMMA FailedAlone ==
  ASSUME OneWorker, IInv, AloneInv, NEW w \in Workers, Busy(w), ~IsDelete(J(w)),
         NEW s \in {"retrying", "failed"}, NEW t \in {"parsing", "failed"},
         IndexFailed(D(w), V(w), s, t), redis' = redis, pc'[w] \in Answering,
         \A u \in Workers : Serving(u)' => Serving(u)
  PROVE  AloneInv'
<1> USE DEF IInv, AloneInv
<1>1. J(w) = <<D(w), V(w)>> /\ J(w) \in Jobs /\ D(w) \in Docs /\ V(w) \in Versions
  BY JobOfVersion
<1>2. /\ job' = [job EXCEPT ![J(w)] = s]
      /\ ver' = [ver EXCEPT ![D(w)][V(w)] = t] /\ UNCHANGED chunk
      /\ \/ doc' = doc /\ ~ShowsFailure(D(w), V(w))
         \/ doc' = [doc EXCEPT ![D(w)] = [status |-> t, current |-> doc[D(w)].current]]
  BY <1>1 DEF IndexFailed, SetStatus
<1>3. RowsFirst'
  BY <1>2 DEF RowsFirst
<1>4. DeletedIsErased'
  <2>1. \A d \in Docs : <<d, 0>> \in Jobs /\ <<d, 0>> # J(w)
    BY <1>1, KIAssumption DEF Jobs, Versions
  <2>2. \A d \in Docs : doc'[d].status = "deleted" => doc[d].status = "deleted"
    <3>1. ASSUME NEW d \in Docs PROVE doc'[d] = doc[d] \/ doc'[d].status = t
      BY <1>1, <1>2 DEF TypeInv, TypeOK
    <3> QED BY <3>1
  <2> QED BY <1>2, <2>1, <2>2 DEF DeletedIsErased, TypeInv, TypeOK
<1>5. Indexed' /\ ActiveIsServed'
  <2>1. \A j \in Jobs : j # J(w) => job'[j] = job[j]
    BY <1>2 DEF TypeInv, TypeOK
  <2>2. \A d \in Docs, v \in Versions : <<d, v>> # J(w) => ver'[d][v] = ver[d][v]
    BY <1>1, <1>2 DEF TypeInv, TypeOK
  <2>3. ASSUME NEW d \in Docs, doc'[d].status = "indexed"
        PROVE  doc'[d] = doc[d] /\ <<d, doc[d].current>> # J(w)
    <3>1. V(w) \in Nat /\ \A e \in Docs : doc[e].current \in Nat
      BY <1>1, KIAssumption DEF Versions, TypeInv, TypeOK
    <3>2. CASE d = D(w)
      BY <1>1, <1>2, <2>3, <3>1, <3>2 DEF ShowsFailure, TypeInv, TypeOK
    <3>3. CASE d # D(w)
      BY <1>1, <1>2, <3>3 DEF TypeInv, TypeOK
    <3> QED BY <3>2, <3>3
  <2> QED BY <1>2, <2>1, <2>2, <2>3, VersionAlone
<1> QED BY <1>3, <1>4, <1>5, AnsweringAlone

\* A finished clean-up has found Redis empty of the document.
LEMMA CleanedAlone ==
  ASSUME OneWorker, IInv, AloneInv, NEW w \in Workers, At(w, "purge"),
         DeleteCompleted(D(w)), redis' = redis, pc'[w] \in Answering,
         \A u \in Workers : Serving(u)' => Serving(u)
  PROVE  AloneInv'
<1> USE DEF IInv, AloneInv
<1>1. /\ Busy(w) /\ IsDelete(J(w)) /\ doc[D(w)].status = "deleted"
      /\ \A v \in Versions : redis[D(w)][v] = "none"
  BY DEF At, Busy, HandlerSteps, TypeInv, Holding, J, Cleaning
<1>2. J(w) = <<D(w), 0>> /\ J(w) \in Jobs /\ D(w) \in Docs
  BY <1>1, JobOfVersion
<1>3. /\ job' = [job EXCEPT ![<<D(w), 0>>] = "completed"] /\ doc' = doc
      /\ \A d \in Docs : d # D(w) => ver'[d] = ver[d] /\ chunk'[d] = chunk[d]
      /\ \A d \in Docs, v \in Versions : chunk'[d][v] = "none" <=> chunk[d][v] = "none"
  BY <1>2 DEF DeleteCompleted, TypeInv, TypeOK
<1>4. RowsFirst'
  BY <1>3 DEF RowsFirst
<1>5. DeletedIsErased'
  <2> SUFFICES ASSUME NEW d \in Docs, doc[d].status = "deleted", job'[<<d, 0>>] = "completed"
               PROVE  \A v \in Versions : redis[d][v] = "none"
    BY <1>3 DEF DeletedIsErased
  <2>1. <<d, 0>> \in Jobs
    BY KIAssumption DEF Jobs
  <2> QED BY <1>1, <1>2, <1>3, <2>1 DEF DeletedIsErased, TypeInv, TypeOK
<1>6. Indexed' /\ ActiveIsServed'
  <2>1. \A d \in Docs, v \in Versions : <<d, v>> \in Jobs /\ <<d, v>> # <<D(w), 0>>
    BY KIAssumption DEF Jobs, Versions
  <2> QED BY <1>1, <1>3, <2>1 DEF Indexed, ActiveIsServed, TypeInv, TypeOK
<1> QED BY <1>4, <1>5, <1>6, AnsweringAlone

\* Recording the state of a clean-up that goes on.
LEMMA DeleteJobAlone ==
  ASSUME OneWorker, IInv, AloneInv, NEW w \in Workers, Busy(w), IsDelete(J(w)),
         NEW s \in {"processing", "retrying", "failed"}, SetDeleteJob(D(w), s), redis' = redis, pc'[w] \in Answering,
         \A u \in Workers : Serving(u)' => Serving(u)
  PROVE  AloneInv'
<1> USE DEF IInv, AloneInv
<1>1. J(w) = <<D(w), 0>> /\ J(w) \in Jobs
  BY JobOfVersion
<1>2. job' = [job EXCEPT ![<<D(w), 0>>] = s] /\ UNCHANGED <<doc, ver, chunk>>
  BY DEF SetDeleteJob
<1>3. /\ \A d \in Docs, v \in Versions : <<d, v>> \in Jobs /\ <<d, v>> # <<D(w), 0>>
      /\ \A d \in Docs : <<d, 0>> \in Jobs
  BY KIAssumption DEF Jobs, Versions
<1>4. RowsFirst' /\ DeletedIsErased'
  BY <1>1, <1>2, <1>3 DEF RowsFirst, DeletedIsErased, TypeInv, TypeOK
<1>5. Indexed' /\ ActiveIsServed'
  BY <1>1, <1>2, <1>3 DEF Indexed, ActiveIsServed, TypeInv, TypeOK
<1> QED BY <1>4, <1>5, AnsweringAlone

\* Claiming an index job: a searchable document is not waiting for it, since
\* the job of its active version is completed.
LEMMA ClaimAlone ==
  ASSUME OneWorker, IInv, AloneInv, NEW w \in Workers, Claims(w), ~IsDelete(J(w)),
         IndexClaimed(D(w), V(w)), UNCHANGED <<redis, held, ids>>,
         pc'[w] = "replace" \/ pc'[w] \in Answering
  PROVE  AloneInv'
<1> USE DEF IInv, AloneInv
<1>1. /\ Busy(w) /\ job[J(w)] # "completed" /\ doc[D(w)].status # "deleted"
      /\ \A u \in Workers : u = w
  BY DEF Claims, Claimable, At, Busy, HandlerSteps, OneWorker, D
<1>2. /\ J(w) = <<D(w), V(w)>> /\ J(w) \in Jobs /\ D(w) \in Docs /\ V(w) \in Versions
      /\ doc[D(w)].status # "none"
  <2>1. /\ J(w) = <<D(w), V(w)>> /\ J(w) \in Jobs /\ D(w) \in Docs /\ V(w) \in Versions
        /\ C(w) \in Copies /\ msg[J(w)][C(w)].at = "held"
    BY <1>1, JobOfVersion DEF Exclusive, TypeInv, Holding, C
  <2>2. job[<<D(w), V(w)>>] # "none"
    BY <2>1 DEF Recorded
  <2> QED BY <2>1, <2>2 DEF Recorded
<1>3. /\ job' = [job EXCEPT ![J(w)] = "processing"] /\ ver' = [ver EXCEPT ![D(w)][V(w)] = "parsing"]
      /\ UNCHANGED chunk
      /\ \/ doc' = doc
         \/ /\ doc[D(w)].status # "indexed"
            /\ doc' = [doc EXCEPT ![D(w)] = [status |-> "parsing", current |-> doc[D(w)].current]]
  BY <1>2 DEF IndexClaimed, SetStatus
<1>4. (J(w))' = J(w) /\ (D(w))' = D(w) /\ (V(w))' = V(w)
  BY <1>3 DEF J, D, V
<1>5. job'[J(w)] = "processing" /\ doc'[D(w)].status \notin {"none", "deleted"}
  BY <1>1, <1>2, <1>3 DEF TypeInv, TypeOK
<1>6. Indexing' /\ Cleaning' /\ Starting'
  BY <1>1, <1>4, <1>5 DEF Indexing, Cleaning, Starting, Answering
<1>7. RowsFirst'
  BY <1>3 DEF RowsFirst
<1>8. DeletedIsErased'
  <2>1. \A d \in Docs : <<d, 0>> \in Jobs /\ <<d, 0>> # J(w)
    BY <1>2, KIAssumption DEF Jobs, Versions
  <2>2. ASSUME NEW d \in Docs PROVE doc'[d] = doc[d] \/ doc'[d].status = "parsing"
    BY <1>2, <1>3 DEF TypeInv, TypeOK
  <2> QED BY <1>3, <2>1, <2>2 DEF DeletedIsErased, TypeInv, TypeOK
<1>9. Indexed' /\ ActiveIsServed'
  <2>1. \A j \in Jobs : j # J(w) => job'[j] = job[j]
    BY <1>3 DEF TypeInv, TypeOK
  <2>2. \A d \in Docs, v \in Versions : <<d, v>> # J(w) => ver'[d][v] = ver[d][v]
    BY <1>2, <1>3 DEF TypeInv, TypeOK
  <2>3. ASSUME NEW d \in Docs, doc'[d].status = "indexed"
        PROVE  doc'[d] = doc[d] /\ <<d, doc[d].current>> # J(w)
    <3>1. doc'[d] = doc[d]
      BY <1>2, <1>3, <2>3 DEF TypeInv, TypeOK
    <3> QED BY <1>1, <2>3, <3>1 DEF Indexed
  <2>4. \A u \in Workers : Serving(u)' => Serving(u)
    BY <1>1 DEF Serving, Busy, HandlerSteps
  <2> QED BY <1>1, <1>3, <2>1, <2>2, <2>3, <2>4, VersionAlone
<1> QED BY <1>6, <1>7, <1>8, <1>9

\* Claiming a clean-up: every version Redis may show has a row to be read.
LEMMA ClaimDeleteAlone ==
  ASSUME OneWorker, IInv, AloneInv, NEW w \in Workers, ClaimDeleteJob(w)
  PROVE  AloneInv'
<1> USE DEF IInv, AloneInv
<1>1. /\ Busy(w) /\ IsDelete(J(w)) /\ doc[D(w)].status = "deleted"
      /\ \A u \in Workers : u = w
  BY DEF ClaimDeleteJob, Claims, Claimable, At, Busy, HandlerSteps, OneWorker, D
<1>2. J(w) = <<D(w), 0>> /\ J(w) \in Jobs /\ D(w) \in Docs
  BY <1>1, JobOfVersion
<1>3. /\ job' = [job EXCEPT ![<<D(w), 0>>] = "processing"] /\ UNCHANGED <<doc, ver, chunk, redis, held>>
      /\ pc' = [pc EXCEPT ![w] = "erase"] /\ ids' = [ids EXCEPT ![w] = ChunkRows(D(w))]
  BY <1>2 DEF ClaimDeleteJob, SetDeleteJob, Goto
<1>4. (D(w))' = D(w) /\ pc'[w] = "erase" /\ ids'[w] = ChunkRows(D(w))
  BY <1>3 DEF J, D, TypeInv, TypeOK
<1>5. /\ \A d \in Docs, v \in Versions : <<d, v>> \in Jobs /\ <<d, v>> # <<D(w), 0>>
      /\ \A d \in Docs : <<d, 0>> \in Jobs
  BY KIAssumption DEF Jobs, Versions
<1>6. Cleaning'
  <2>1. \A v \in Versions : redis[D(w)][v] # "none" => <<D(w), v>> \in ChunkRows(D(w))
    BY <1>2 DEF RowsFirst, ChunkRows
  <2>2. ChunkRows(D(w)) \subseteq {D(w)} \X Versions
    BY DEF ChunkRows
  <2> QED BY <1>1, <1>3, <1>4, <2>1, <2>2 DEF Cleaning
<1>7. Indexing' /\ Starting' /\ RowsFirst'
  BY <1>1, <1>3, <1>4 DEF Indexing, Starting, RowsFirst
<1>8. Indexed' /\ ActiveIsServed' /\ DeletedIsErased'
  <2>1. \A u \in Workers : Serving(u)' => Serving(u)
    BY <1>1 DEF Serving, Busy, HandlerSteps
  <2> QED BY <1>2, <1>3, <1>5, <2>1 DEF Indexed, ActiveIsServed, DeletedIsErased, TypeInv, TypeOK
<1> QED BY <1>6, <1>7, <1>8

\* Writing the rows and the projection of a version that is being indexed: its
\* document is not deleted, and rows are there before Redis.
LEMMA WritingAlone ==
  ASSUME OneWorker, IInv, AloneInv, NEW w \in Workers,
         \/ ReplaceChunks(w) \/ IndexIncremental(w) \/ IndexFails(w)
         \/ ReplaceFails(w) /\ RowsReplaced(D(w), V(w))
  PROVE  AloneInv'
<1> USE DEF IInv, AloneInv
<1>1. /\ Busy(w) /\ ~IsDelete(J(w)) /\ job[J(w)] = "processing"
      /\ doc[D(w)].status \notin {"none", "deleted"}
      /\ \A u \in Workers : u = w
  BY DEF ReplaceChunks, ReplaceFails, IndexIncremental, IndexFails, At, Busy, HandlerSteps, OneWorker, Indexing,
         TypeInv, Holding, J
<1>2. /\ J(w) = <<D(w), V(w)>> /\ J(w) \in Jobs /\ D(w) \in Docs /\ V(w) \in Versions
  BY <1>1, JobOfVersion
<1>3. UNCHANGED <<doc, ver, job, held, ids>> /\ (J(w))' = J(w) /\ (D(w))' = D(w) /\ (V(w))' = V(w)
  BY DEF ReplaceChunks, ReplaceFails, RowsReplaced, IndexIncremental, IndexFails, db, J, D, V
<1>4. /\ pc'[w] \in {"project", "complete", "retrying"}
      /\ chunk'[D(w)][V(w)] # "none"
      /\ pc'[w] = "complete" => redis'[D(w)][V(w)] = "full"
  <2>1. CASE ReplaceChunks(w) \/ (ReplaceFails(w) /\ RowsReplaced(D(w), V(w)))
    BY <1>2, <2>1 DEF ReplaceChunks, ReplaceFails, RowsReplaced, Goto, TypeInv, TypeOK
  <2>2. CASE IndexIncremental(w) \/ IndexFails(w)
    BY <1>2, <2>2 DEF IndexIncremental, IndexFails, At, Goto, Indexing, db, TypeInv, TypeOK
  <2> QED BY <2>1, <2>2
<1>5. /\ \A d \in Docs, v \in Versions : <<d, v>> # <<D(w), V(w)>> =>
           chunk'[d][v] = chunk[d][v] /\ redis'[d][v] = redis[d][v]
  BY <1>2 DEF ReplaceChunks, ReplaceFails, RowsReplaced, IndexIncremental, IndexFails, db, TypeInv, TypeOK
<1>6. Indexing' /\ Cleaning' /\ Starting'
  BY <1>1, <1>3, <1>4 DEF Indexing, Cleaning, Starting
<1>7. RowsFirst'
  BY <1>4, <1>5 DEF RowsFirst
<1>8. DeletedIsErased'
  BY <1>1, <1>3, <1>5 DEF DeletedIsErased
<1>9. Indexed' /\ ActiveIsServed'
  <2>1. \A d \in Docs : doc[d].status = "indexed" => <<d, doc[d].current>> # <<D(w), V(w)>>
    BY <1>1, <1>2 DEF Indexed
  <2>2. \A u \in Workers : Serving(u)' => Serving(u)
    BY <1>1 DEF Serving, Busy, HandlerSteps
  <2> QED BY <1>3, <1>5, <2>1, <2>2 DEF Indexed, ActiveIsServed
<1> QED BY <1>6, <1>7, <1>8, <1>9

\* Erasing what the clean-up read: nothing else of the document is in Redis.
LEMMA EraseAlone ==
  ASSUME OneWorker, IInv, AloneInv, NEW w \in Workers, Erase(w) \/ EraseFails(w)
  PROVE  AloneInv'
<1> USE DEF IInv, AloneInv
<1>1. /\ doc[D(w)].status = "deleted" /\ ids[w] \subseteq {D(w)} \X Versions
      /\ \A v \in Versions : redis[D(w)][v] # "none" => <<D(w), v>> \in ids[w]
      /\ \A u \in Workers : u = w
      /\ Serving(w) /\ D(w) \in Docs
  BY JobOfVersion DEF Erase, EraseFails, At, OneWorker, Cleaning, Serving, Busy, HandlerSteps
<1>2. UNCHANGED <<doc, ver, chunk, job, held, ids>> /\ (D(w))' = D(w)
  BY DEF Erase, EraseFails, db, J, D
<1>3. \A d \in Docs, v \in Versions :
        redis'[d][v] = redis[d][v] \/ (d = D(w) /\ redis'[d][v] = "none")
  <2>1. PICK gone \in SUBSET ids[w] : redis' = [d \in Docs |-> [v \in Versions |->
                                          IF <<d, v>> \in gone THEN "none" ELSE redis[d][v]]]
    BY DEF Erase, EraseFails
  <2>2. \A d \in Docs, v \in Versions : <<d, v>> \in gone => d = D(w)
    BY <1>1
  <2> QED BY <2>1, <2>2
<1>4. RowsFirst' /\ DeletedIsErased'
  BY <1>2, <1>3 DEF RowsFirst, DeletedIsErased
<1>5. Indexed' /\ ActiveIsServed'
  <2>1. \A d \in Docs : doc[d].status = "indexed" => redis'[d][doc[d].current] = redis[d][doc[d].current]
    BY <1>1, <1>3 DEF Indexed
  <2> QED BY <1>1, <1>2, <2>1 DEF Indexed, ActiveIsServed
<1>6. Indexing' /\ Cleaning' /\ Starting'
  <2>1. CASE Erase(w)
    <3>1. pc'[w] = "purge" /\ \A v \in Versions : redis'[D(w)][v] = "none"
      BY <1>1, <2>1 DEF Erase, Goto, TypeInv, TypeOK
    <3> QED BY <1>1, <1>2, <3>1 DEF Indexing, Cleaning, Starting
  <2>2. CASE EraseFails(w)
    BY <2>2, AnsweringAlone DEF EraseFails, Goto, Answering, TypeInv, TypeOK
  <2> QED BY <2>1, <2>2
<1> QED BY <1>4, <1>5, <1>6

\* Every step of the handler keeps what one worker promises.
LEMMA HandlerAlone ==
  ASSUME OneWorker, IInv, AloneInv, NEW w \in Workers, HandlerStep(w)
  PROVE  AloneInv'
<1>1. /\ Busy(w) /\ pc \in [Workers -> Steps] /\ \A u \in Workers : Serving(u)' => Serving(u)
      /\ \A u \in Workers : u = w
      /\ pc[w] \in {"replace", "project", "complete", "failing"} => ~IsDelete(J(w))
      /\ pc[w] \in {"erase", "purge"} => IsDelete(J(w))
  BY HandlerTables DEF IInv, TypeInv, TypeOK, Holding, J, OneWorker, Serving, Busy, HandlerSteps
<1>2. ASSUME UNCHANGED db, UNCHANGED redis, pc'[w] \in Answering PROVE AloneInv'
  BY <1>1, <1>2, QuietAlone DEF db, Answering
<1>3. CASE ClaimComplete(w) \/ ClaimMissing(w) \/ ParseFails(w) \/ (ReplaceFails(w) /\ UNCHANGED db)
  BY <1>1, <1>2, <1>3 DEF ClaimComplete, ClaimMissing, ParseFails, ReplaceFails, Goto, Respond, Answering
<1>4. CASE ClaimIndexJob(w)
  BY <1>1, <1>4, ClaimAlone DEF ClaimIndexJob, Goto
<1>11. CASE ClaimFails(w)
  <2>1. pc'[w] \in Answering /\ UNCHANGED <<redis, held, ids>>
    BY <1>1, <1>11 DEF ClaimFails, RetryOrExhaust, Goto, Respond, Answering
  <2>2. \/ UNCHANGED db
        \/ IsDelete(J(w)) /\ SetDeleteJob(D(w), "processing")
        \/ Claims(w) /\ ~IsDelete(J(w)) /\ IndexClaimed(D(w), V(w))
    BY <1>11 DEF ClaimFails
  <2> QED BY <1>1, <1>2, <2>1, <2>2, ClaimAlone, DeleteJobAlone
<1>5. CASE ClaimDeleteJob(w)  BY <1>5, ClaimDeleteAlone
<1>6. CASE ReplaceChunks(w) \/ IndexIncremental(w) \/ IndexFails(w)  BY <1>6, WritingAlone
<1>12. CASE ReplaceFails(w) /\ ~UNCHANGED db
  BY <1>12, WritingAlone DEF ReplaceFails
<1>7. CASE CompleteIndex(w) \/ CompleteFails(w)
  BY <1>1, <1>2, <1>7, CompletedAlone DEF CompleteIndex, CompleteFails, Goto, Respond, Answering
<1>8. CASE Erase(w) \/ EraseFails(w)  BY <1>8, EraseAlone
<1>9. CASE CompleteDelete(w) \/ CompleteDeleteFails(w)
  BY <1>1, <1>2, <1>9, CleanedAlone DEF CompleteDelete, CompleteDeleteFails, Goto, Respond, Answering
<1>10. CASE RecordRetry(w) \/ FailIndex(w) \/ Exhaust(w)
  <2>1. pc'[w] \in Answering /\ redis' = redis
    BY <1>1, <1>10 DEF RecordRetry, FailIndex, Exhaust, RetryOrExhaust, Goto, Respond, Answering
  <2>2. \/ UNCHANGED db
        \/ IsDelete(J(w)) /\ \E s \in {"processing", "retrying", "failed"} : SetDeleteJob(D(w), s)
        \/ ~IsDelete(J(w)) /\ \E s \in {"retrying", "failed"}, t \in {"parsing", "failed"} :
                                 IndexFailed(D(w), V(w), s, t)
    BY <1>1, <1>10 DEF RecordRetry, FailIndex, Exhaust, At
  <2> QED BY <1>1, <1>2, <2>1, <2>2, FailedAlone, DeleteJobAlone
<1> QED BY <1>3, <1>4, <1>5, <1>6, <1>7, <1>8, <1>9, <1>10, <1>11, <1>12 DEF HandlerStep

\* Every step does.
LEMMA AloneStep == ASSUME OneWorker, IInv, AloneInv, [Next]_vars PROVE AloneInv'
<1>1. CASE UNCHANGED vars
  BY <1>1, QuietAlone DEF vars, Serving
<1>2. CASE API  BY <1>2, APIAlone
<1>3. CASE Broker
  BY <1>3, QuietAlone DEF Broker, RetryDue, db, work, Serving
<1>4. CASE RedisLost  BY <1>4, RedisLostAlone
<1>5. ASSUME NEW w \in Workers, Worker(w) PROVE AloneInv'
  BY <1>5, StartupAlone, HandlerAlone, BrokerAlone
     DEF Worker, Publisher, Consume, Handler, Failure, HandlerStep, BrokerStep
<1> QED BY <1>1, <1>2, <1>3, <1>4, <1>5 DEF Next

\* With one worker the promise holds in every state.
THEOREM AloneInductive == ASSUME OneWorker PROVE Spec => []AloneInv
<1>1. Init => AloneInv
  BY DEF Init, AloneInv, Indexing, Cleaning, Starting, RowsFirst, Indexed, ActiveIsServed, DeletedIsErased
<1>2. IInv /\ AloneInv /\ [Next]_vars => AloneInv'
  BY AloneStep
<1> QED BY <1>1, <1>2, Inductive, PTL DEF Spec

\* With one worker, what a reader is pointed at is completely indexed, and once
\* the worker serves, all of it is in Redis.
THEOREM ServedByOne == ASSUME OneWorker PROVE Spec => []ActiveIsServed
BY AloneInductive, PTL DEF AloneInv

\* With one worker, a finished clean-up leaves nothing of the document in Redis.
THEOREM ErasedByOne == ASSUME OneWorker PROVE Spec => []DeletedIsErased
BY AloneInductive, PTL DEF AloneInv

-----------------------------------------------------------------------------
(***************************************************************************)
(* The documents that searches and uploads go by: with one worker, every   *)
(* step of the pipeline is a step of IndexedDocuments or leaves rows and   *)
(* chunks as they are.                                                     *)
(***************************************************************************)
\* What the status of a version says about its job: an indexed version is not
\* claimed again, and a document with an unfinished version is not deleted.
VersionsFollowJobs ==
  \A d \in Docs, v \in Versions :
    /\ ver[d][v] = "indexed" => job[<<d, v>>] = "completed"
    /\ ver[d][v] \in {"uploaded", "parsing"} => job[<<d, v>>] \in Pending

\* A worker indexes a version that says so.
Parsed ==
  \A w \in Workers : pc[w] \in {"replace", "project", "complete"} => ver[D(w)][V(w)] = "parsing"

\* What a starting worker read is still indexed when it is written again.
ReadIndexed ==
  \A w \in Workers : pc[w] \in {"prune", "rebuild", "verify"} =>
    \A p \in ids[w] : ver[p[1]][p[2]] = "indexed"

RowsInv == VersionsFollowJobs /\ Parsed /\ ReadIndexed

\* A step of the documents, or none.
DocumentStep == Index!Next \/ UNCHANGED <<doc, ver, Shown>>

\* A step that leaves the rows alone, and at most ends what a worker does.
LEMMA QuietRows ==
  ASSUME RowsInv, UNCHANGED <<ver, job>>,
         \A w \in Workers :
           \/ pc'[w] = pc[w] /\ held'[w] = held[w] /\ ids'[w] = ids[w]
           \/ pc'[w] \in {"down", "idle", "claim", "finish", "exhaust", "failing", "retrying", "erase", "purge"}
  PROVE  RowsInv'
BY DEF RowsInv, VersionsFollowJobs, Parsed, ReadIndexed, D, V, J

\* Uploads, candidates and deletions.
LEMMA APIImplements == ASSUME IInv, RowsInv, API PROVE DocumentStep /\ RowsInv'
<1> USE DEF IInv
<1>1. /\ doc \in [Docs -> [status: DocStatus, current: 0..MaxVersion]]
      /\ ver \in [Docs -> [Versions -> DocStatus]] /\ job \in [Jobs -> JobStatus]
      /\ \A d \in Docs, k \in 0..MaxVersion : <<d, k>> \in Jobs
      /\ 1 \in Versions /\ Versions \subseteq 0..MaxVersion /\ 0 \in 0..MaxVersion /\ 0 \notin Versions
      /\ redis' = redis /\ Shown' = Shown
  BY APIRows, KIAssumption DEF TypeInv, TypeOK, Jobs, Versions, Shown
<1>2. Parsed' /\ ReadIndexed'
  <2>1. \A w \in Workers : (D(w))' = D(w) /\ (V(w))' = V(w) /\ pc'[w] = pc[w] /\ ids'[w] = ids[w]
    BY APIRows DEF D, V, J
  <2>2. ASSUME NEW w \in Workers, pc[w] \in {"replace", "project", "complete"} PROVE ver'[D(w)][V(w)] = "parsing"
    <3>1. Busy(w) /\ ~IsDelete(J(w))
      BY <2>2 DEF Busy, HandlerSteps, TypeInv, Holding, J
    <3>2. D(w) \in Docs /\ V(w) \in Versions
      BY <3>1, JobOfVersion
    <3> QED BY <2>2, <3>2, APIRows DEF RowsInv, Parsed
  <2>3. \A w \in Workers : ids[w] \subseteq Docs \X Versions
    BY DEF TypeInv, TypeOK
  <2>4. ASSUME NEW w \in Workers, pc[w] \in {"prune", "rebuild", "verify"}, NEW p \in ids[w]
        PROVE  ver'[p[1]][p[2]] = "indexed"
    BY <2>3, <2>4, APIRows DEF RowsInv, ReadIndexed
  <2> QED BY <2>1, <2>2, <2>4 DEF Parsed, ReadIndexed
<1>3. PICK d \in Docs : Accept(d) \/ CreateVersionUpload(d) \/ CreateDelete(d)
  BY DEF API, AcceptVersion, Rebuild
<1>4. CASE Accept(d)
  <2>1. Index!Upload(d)
    BY <1>1, <1>4 DEF Accept, Index!Upload, Index!SetVersion
  <2>2. VersionsFollowJobs'
    BY <1>1, <1>4 DEF Accept, Enqueue, RowsInv, VersionsFollowJobs, Pending
  <2> QED BY <1>2, <2>1, <2>2 DEF DocumentStep, Index!Next, RowsInv
<1>5. CASE CreateVersionUpload(d)
  <2>1. PICK v \in Versions : IsNextVersion(d, v) /\ ver' = [ver EXCEPT ![d][v] = "uploaded"] /\ Enqueue(<<d, v>>)
    BY <1>5 DEF CreateVersionUpload
  <2>2. Index!Stage(d, v)
    BY <1>1, <1>5, <2>1 DEF CreateVersionUpload, IsNextVersion, Live, Index!Stage, Index!SetVersion, Index!Live, Index!Versions, Versions
  <2>3. VersionsFollowJobs'
    BY <1>1, <2>1 DEF Enqueue, RowsInv, VersionsFollowJobs, Pending
  <2> QED BY <1>2, <2>2, <2>3 DEF DocumentStep, Index!Next, RowsInv, Index!Versions, Versions
<1>6. CASE CreateDelete(d)
  <2>1. Index!Delete(d)
    <3>1. ~Index!Pending(d)
      BY <1>6 DEF CreateDelete, NoIndexPending, Index!Pending, Index!Versions, Versions, RowsInv, VersionsFollowJobs
    <3> QED BY <1>1, <1>6, <3>1 DEF CreateDelete, SetStatus, Live, Index!Delete, Index!Live, Index!Shows
  <2>2. VersionsFollowJobs'
    BY <1>1, <1>6 DEF CreateDelete, Enqueue, RowsInv, VersionsFollowJobs, Pending
  <2> QED BY <1>2, <2>1, <2>2 DEF DocumentStep, Index!Next, RowsInv
<1> QED BY <1>3, <1>4, <1>5, <1>6

\* Publishing, delivering, answering, broken sessions and crashes.
LEMMA BrokerImplements == ASSUME IInv, RowsInv, NEW w \in Workers, BrokerStep(w) PROVE DocumentStep /\ RowsInv'
<1>1. /\ held \in [Workers -> [job: Jobs \cup {NoJob}, copy: 0..MaxCopies]] /\ pc \in [Workers -> Steps]
      /\ ids \in [Workers -> SUBSET (Docs \X Versions)]
  BY DEF IInv, TypeInv, TypeOK
<1>2. ASSUME UNCHANGED db, redis' = redis,
             UNCHANGED <<pc, held, ids>>
             \/ \E s \in {"down", "idle", "claim"} : /\ pc' = [pc EXCEPT ![w] = s]
                                                    /\ \A u \in Workers \ {w} : held'[u] = held[u] /\ ids'[u] = ids[u]
      PROVE  DocumentStep /\ RowsInv'
  <2>1. UNCHANGED <<doc, ver, job, Shown>>
    BY <1>2 DEF db, Shown
  <2> QED BY <1>1, <1>2, <2>1, QuietRows DEF DocumentStep
<1>3. CASE \E j \in Jobs : Publish(w, j) \/ PublishUnconfirmed(w, j)
  BY <1>2, <1>3 DEF Publish, PublishUnconfirmed, work
<1>4. CASE MarkOutboxPublished(w) \/ MarkFails(w)
  <2>1. UNCHANGED <<doc, ver, job, redis, pc, held, ids>>
    BY <1>4 DEF MarkOutboxPublished, MarkFails, work, db
  <2>2. Shown' = Shown
    BY <2>1 DEF Shown
  <2> QED BY <2>1, <2>2, QuietRows DEF DocumentStep
<1>5. CASE \E j \in Jobs, c \in Copies : Deliver(w, j, c)
  BY <1>1, <1>2, <1>5 DEF Deliver
<1>6. CASE FinishDelivery(w) \/ FinishTwice(w)
  BY <1>1, <1>2, <1>6 DEF FinishDelivery, FinishTwice, Release
<1>7. CASE SessionLost(w) \/ Crash(w)
  BY <1>1, <1>2, <1>7 DEF SessionLost, Crash, Release
<1> QED BY <1>3, <1>4, <1>5, <1>6, <1>7 DEF BrokerStep

\* Reconciling the projection: what is active now was active when it was read,
\* so a start-up removes none of it and adds nothing but indexed versions.
LEMMA StartupImplements ==
  ASSUME OneWorker, IInv, AloneInv, RowsInv, NEW w \in Workers, Startup(w) \/ RebuildFails(w)
  PROVE  DocumentStep /\ RowsInv'
<1> USE DEF IInv, TypeInv, TypeOK
<1>1. /\ UNCHANGED <<doc, ver, job>> /\ \A u \in Workers : u = w
      /\ pc[w] \in {"down", "prune", "rebuild", "verify"}
      /\ pc'[w] \in {"down", "prune", "rebuild", "verify", "idle"}
  BY DEF OneWorker, Startup, RebuildFails, ListActive, PruneStaleChunks, RebuildProjection, VerifyProjection, db
<1>2. Index!Active \subseteq Active
  BY DEF Index!Active, Index!Indexed, Index!Chunks, Index!Versions, Versions, Active, AloneInv, ActiveIsServed
<1>3. /\ \A p \in ids[w] : pc[w] \in {"prune", "rebuild", "verify"} => p \in Index!Indexed
      /\ \A p \in Active : ver[p[1]][p[2]] = "indexed"
  BY DEF RowsInv, ReadIndexed, Index!Indexed, Index!Chunks, Index!Versions, Versions, Active, AloneInv, ActiveIsServed
<1>4. VersionsFollowJobs' /\ Parsed'
  BY <1>1 DEF RowsInv, VersionsFollowJobs, Parsed
<1>5. CASE ListActive(w)
  <2>1. redis' = redis /\ ids'[w] = Active
    BY <1>5 DEF ListActive
  <2> QED BY <1>1, <1>3, <1>4, <2>1 DEF RowsInv, ReadIndexed, DocumentStep, Shown
<1>6. CASE PruneStaleChunks(w)
  <2>1. ids'[w] = ids[w] /\ pc[w] = "prune" /\ pc'[w] = "rebuild"
    BY <1>6 DEF PruneStaleChunks
  <2>2. Shown' = Shown \cap ids[w]
    BY <1>6 DEF PruneStaleChunks, Stale, Shown
  <2>3. Index!Prune
    BY <1>1, <1>2, <2>1, <2>2 DEF Index!Prune, AloneInv, Starting
  <2> QED BY <1>1, <1>4, <2>1, <2>3 DEF RowsInv, ReadIndexed, DocumentStep, Index!Next
<1>7. CASE RebuildProjection(w)
  <2>1. ids'[w] = ids[w] /\ pc[w] = "rebuild" /\ pc'[w] = "verify"
    BY <1>7 DEF RebuildProjection
  <2>2. Shown' = Shown \cup ids[w]
    BY <1>7 DEF RebuildProjection, Written, Shown
  <2>3. Index!Restore
    BY <1>1, <1>3, <2>1, <2>2 DEF Index!Restore
  <2> QED BY <1>1, <1>4, <2>1, <2>3 DEF RowsInv, ReadIndexed, DocumentStep, Index!Next
<1>8. CASE RebuildFails(w)
  <2>1. pc[w] = "rebuild" /\ pc'[w] = "down"
    BY <1>8 DEF RebuildFails
  <2>2. Shown \subseteq Shown' /\ Shown' \subseteq Shown \cup ids[w]
    BY <1>8 DEF RebuildFails, Missing, Shown
  <2>3. Index!Restore
    BY <1>1, <1>3, <2>1, <2>2 DEF Index!Restore
  <2> QED BY <1>1, <1>4, <2>1, <2>3 DEF RowsInv, ReadIndexed, DocumentStep, Index!Next
<1>9. CASE VerifyProjection(w)
  <2>1. redis' = redis /\ ids'[w] = {}
    BY <1>9 DEF VerifyProjection
  <2> QED BY <1>1, <1>4, <2>1 DEF RowsInv, ReadIndexed, DocumentStep, Shown
<1> QED BY <1>5, <1>6, <1>7, <1>8, <1>9 DEF Startup

\* Claiming, projecting and completing a version, and recording its failure.
LEMMA VersionImplements ==
  ASSUME OneWorker, IInv, AloneInv, RowsInv, NEW w \in Workers, Busy(w), ~IsDelete(J(w)), UNCHANGED held,
         \/ ReplaceChunks(w) \/ ReplaceFails(w) \/ IndexIncremental(w) \/ IndexFails(w)
         \/ /\ Claims(w) /\ IndexClaimed(D(w), V(w)) /\ UNCHANGED <<redis, ids>>
            /\ pc'[w] = "replace" \/ pc'[w] \in Answering
         \/ /\ At(w, "complete") /\ IndexCompleted(D(w), V(w)) /\ redis' = redis
            /\ pc'[w] \in Answering
         \/ /\ IndexFailed(D(w), V(w), "retrying", "parsing") \/ IndexFailed(D(w), V(w), "failed", "failed")
            /\ redis' = redis /\ pc'[w] \in Answering
  PROVE  DocumentStep /\ RowsInv'
<1> USE DEF IInv
<1>1. /\ J(w) = <<D(w), V(w)>> /\ J(w) \in Jobs /\ D(w) \in Docs /\ V(w) \in Versions
      /\ (D(w))' = D(w) /\ (V(w))' = V(w) /\ \A u \in Workers : u = w
  BY JobOfVersion DEF OneWorker, D, V, J
<1>2. job[J(w)] # "none" /\ ver[D(w)][V(w)] # "none" /\ doc[D(w)].status # "none"
  <2>1. C(w) \in Copies /\ msg[J(w)][C(w)].at = "held"
    BY DEF Exclusive, TypeInv, Holding, C
  <2>2. job[<<D(w), V(w)>>] # "none"
    BY <1>1, <2>1 DEF Recorded
  <2> QED BY <1>1, <2>2 DEF Recorded
<1>3. /\ doc \in [Docs -> [status: DocStatus, current: 0..MaxVersion]]
      /\ ver \in [Docs -> [Versions -> DocStatus]] /\ job \in [Jobs -> JobStatus]
      /\ pc \in [Workers -> Steps] /\ redis \in [Docs -> [Versions -> Presence]]
      /\ \A d \in Docs, v \in Versions : <<d, v>> \in Jobs
  BY KIAssumption DEF TypeInv, TypeOK, Jobs, Versions
<1>4. ASSUME redis' = redis PROVE Shown' = Shown
  BY <1>4 DEF Shown
<1>5. ASSUME NEW s \in JobStatus, NEW t \in DocStatus, job' = [job EXCEPT ![J(w)] = s],
             ver' = [ver EXCEPT ![D(w)][V(w)] = t],
             t = "indexed" => s = "completed", t \in {"uploaded", "parsing"} => s \in Pending
      PROVE  VersionsFollowJobs' /\ ver'[D(w)][V(w)] = t
  <2>1. /\ \A j \in Jobs : job'[j] = IF j = J(w) THEN s ELSE job[j]
        /\ \A d \in Docs, v \in Versions : ver'[d][v] = IF <<d, v>> = J(w) THEN t ELSE ver[d][v]
    BY <1>1, <1>3, <1>5
  <2> QED BY <1>1, <1>3, <1>5, <2>1 DEF RowsInv, VersionsFollowJobs
<1>6. CASE /\ Claims(w) /\ IndexClaimed(D(w), V(w)) /\ UNCHANGED <<redis, ids>>
           /\ pc'[w] = "replace" \/ pc'[w] \in Answering
  <2>1. /\ job' = [job EXCEPT ![J(w)] = "processing"] /\ ver' = [ver EXCEPT ![D(w)][V(w)] = "parsing"]
        /\ job[J(w)] # "completed" /\ doc[D(w)].status # "deleted"
    BY <1>1, <1>6 DEF IndexClaimed, Claims, Claimable, D
  <2>2. Index!Claim(D(w), V(w))
    <3>1. ver[D(w)][V(w)] # "indexed"
      BY <1>1, <2>1 DEF RowsInv, VersionsFollowJobs
    <3> QED BY <1>2, <1>4, <1>6, <2>1, <3>1
            DEF IndexClaimed, SetStatus, Index!Claim, Index!Live, Index!SetVersion, Index!Shows
  <2>3. VersionsFollowJobs' /\ ver'[D(w)][V(w)] = "parsing"
    BY <1>5, <2>1 DEF JobStatus, DocStatus, Pending
  <2> QED BY <1>1, <1>6, <2>1, <2>2, <2>3
          DEF RowsInv, Parsed, ReadIndexed, Answering, DocumentStep, Index!Next, Index!Versions, Versions
<1>7. CASE ReplaceChunks(w) \/ ReplaceFails(w)
  <2>1. UNCHANGED <<doc, ver, job, redis>> /\ pc[w] = "replace" /\ pc'[w] \in {"project", "retrying"}
    BY <1>3, <1>7 DEF ReplaceChunks, ReplaceFails, RowsReplaced, Goto, At, db
  <2> QED BY <1>1, <1>4, <2>1 DEF RowsInv, VersionsFollowJobs, Parsed, ReadIndexed, DocumentStep
<1>8. CASE IndexIncremental(w) \/ IndexFails(w)
  <2>1. /\ UNCHANGED <<doc, ver, job>> /\ pc[w] = "project" /\ pc'[w] \in {"complete", "retrying"}
        /\ \/ redis' = redis
           \/ \E x \in {"full", "partial"} : redis' = [redis EXCEPT ![D(w)][V(w)] = x]
           \/ redis' = [redis EXCEPT ![D(w)][V(w)] = IF @ = "none" THEN "partial" ELSE @]
    BY <1>3, <1>8 DEF IndexIncremental, IndexFails, Goto, At, db
  <2>2. redis' = redis \/ Shown' = Shown \cup {<<D(w), V(w)>>}
    <3>1. ASSUME NEW x, x # "none", redis' = [redis EXCEPT ![D(w)][V(w)] = x]
          PROVE  Shown' = Shown \cup {<<D(w), V(w)>>}
      <4>1. \A d \in Docs, v \in Versions : redis'[d][v] = IF d = D(w) /\ v = V(w) THEN x ELSE redis[d][v]
        BY <1>1, <1>3, <3>1
      <4> QED BY <1>1, <3>1, <4>1 DEF Shown
    <3>2. CASE redis' = [redis EXCEPT ![D(w)][V(w)] = IF @ = "none" THEN "partial" ELSE @]
      <4> DEFINE y == IF redis[D(w)][V(w)] = "none" THEN "partial" ELSE redis[D(w)][V(w)]
      <4>1. redis' = [redis EXCEPT ![D(w)][V(w)] = y] /\ y # "none"
        BY <1>1, <1>3, <3>2
      <4> QED BY <3>1, <4>1
    <3> QED BY <2>1, <3>1, <3>2
  <2>3. DocumentStep
    <3>1. Index!Live(D(w)) /\ ver[D(w)][V(w)] = "parsing"
      BY <2>1 DEF AloneInv, Indexing, RowsInv, Parsed, Index!Live
    <3>2. CASE redis' = redis
      BY <1>4, <2>1, <3>2 DEF DocumentStep
    <3>3. CASE Shown' = Shown \cup {<<D(w), V(w)>>}
      <4>1. Index!Project(D(w), V(w))
        BY <2>1, <3>1, <3>3 DEF Index!Project
      <4> QED BY <1>1, <4>1 DEF DocumentStep, Index!Next, Index!Versions, Versions
    <3> QED BY <2>2, <3>2, <3>3
  <2>4. RowsInv'
    BY <1>1, <2>1 DEF RowsInv, VersionsFollowJobs, Parsed, ReadIndexed
  <2> QED BY <2>3, <2>4
<1>9. CASE At(w, "complete") /\ IndexCompleted(D(w), V(w)) /\ redis' = redis /\ pc'[w] \in Answering
  <2>1. /\ job' = [job EXCEPT ![J(w)] = "completed"] /\ ver' = [ver EXCEPT ![D(w)][V(w)] = "indexed"]
    BY <1>1, <1>9 DEF IndexCompleted
  <2>2. VersionsFollowJobs'
    BY <1>5, <2>1 DEF JobStatus, DocStatus
  <2>3. /\ ver[D(w)][V(w)] = "parsing" /\ doc[D(w)].status \notin {"none", "deleted"}
        /\ redis[D(w)][V(w)] = "full"
    BY <1>9 DEF At, AloneInv, Indexing, RowsInv, Parsed
  <2>4. <<D(w), V(w)>> \in Shown
    BY <1>1, <2>3 DEF Shown
  <2>5. Index!Complete(D(w), V(w))
    BY <1>4, <1>9, <2>1, <2>3, <2>4 DEF IndexCompleted, Promotes, Index!Complete, Index!Live, Index!SetVersion
  <2> QED BY <1>1, <1>9, <2>2, <2>5
          DEF RowsInv, Parsed, ReadIndexed, Answering, DocumentStep, Index!Next, Index!Versions, Versions
<1>10. ASSUME NEW s \in {"retrying", "failed"}, NEW t \in {"parsing", "failed"}, t = "parsing" => s = "retrying",
              IndexFailed(D(w), V(w), s, t), redis' = redis, pc'[w] \in Answering
       PROVE  DocumentStep /\ RowsInv'
  <2>1. job' = [job EXCEPT ![J(w)] = s] /\ ver' = [ver EXCEPT ![D(w)][V(w)] = t]
    BY <1>1, <1>10 DEF IndexFailed
  <2>2. VersionsFollowJobs'
    BY <1>5, <1>10, <2>1 DEF JobStatus, DocStatus, Pending
  <2>3. Index!RecordFailure(D(w), V(w), t)
    <3>1. ShowsFailure(D(w), V(w)) <=> V(w) >= doc[D(w)].current /\ (V(w) = doc[D(w)].current \/ doc[D(w)].status # "indexed")
      BY DEF ShowsFailure
    <3> QED BY <1>2, <1>4, <1>10, <2>1, <3>1 DEF IndexFailed, SetStatus, Index!RecordFailure, Index!SetVersion, Index!Shows
  <2> QED BY <1>1, <1>10, <2>2, <2>3
          DEF RowsInv, Parsed, ReadIndexed, Answering, DocumentStep, Index!Next, Index!Versions, Versions
<1> QED BY <1>6, <1>7, <1>8, <1>9, <1>10
\* Reading what a clean-up erases, erasing it, and marking the rows.
LEMMA CleanupImplements ==
  ASSUME OneWorker, IInv, AloneInv, RowsInv, NEW w \in Workers, Busy(w), IsDelete(J(w)), UNCHANGED held,
         \/ ClaimDeleteJob(w) \/ Erase(w) \/ EraseFails(w)
         \/ At(w, "purge") /\ DeleteCompleted(D(w)) /\ redis' = redis /\ pc'[w] \in Answering
         \/ /\ \E s \in {"processing", "retrying", "failed"} : SetDeleteJob(D(w), s)
            /\ redis' = redis /\ pc'[w] \in Answering
  PROVE  DocumentStep /\ RowsInv'
<1> USE DEF IInv
<1>1. /\ J(w) = <<D(w), 0>> /\ J(w) \in Jobs /\ D(w) \in Docs /\ \A u \in Workers : u = w
      /\ \A d \in Docs, v \in Versions : <<d, v>> # J(w) /\ <<d, v>> \in Jobs
  BY JobOfVersion, KIAssumption DEF OneWorker, Jobs, Versions
<1>2. /\ ver \in [Docs -> [Versions -> DocStatus]] /\ job \in [Jobs -> JobStatus]
      /\ pc \in [Workers -> Steps] /\ redis \in [Docs -> [Versions -> Presence]]
  BY DEF TypeInv, TypeOK
<1>3. ASSUME redis' = redis PROVE Shown' = Shown
  BY <1>3 DEF Shown
<1>4. ASSUME NEW s, job' = [job EXCEPT ![J(w)] = s] PROVE \A d \in Docs, v \in Versions : job'[<<d, v>>] = job[<<d, v>>]
  BY <1>1, <1>2, <1>4
<1>5. CASE ClaimDeleteJob(w)
  <2>1. /\ UNCHANGED <<doc, ver, redis>> /\ job' = [job EXCEPT ![J(w)] = "processing"] /\ pc'[w] = "erase"
    BY <1>1, <1>2, <1>5 DEF ClaimDeleteJob, SetDeleteJob, Goto
  <2> QED BY <1>1, <1>3, <1>4, <2>1 DEF RowsInv, VersionsFollowJobs, Parsed, ReadIndexed, DocumentStep
<1>6. CASE Erase(w) \/ EraseFails(w)
  <2>1. /\ UNCHANGED <<doc, ver, job>> /\ pc[w] = "erase" /\ pc'[w] \in {"purge", "retrying"}
    BY <1>2, <1>6 DEF Erase, EraseFails, Goto, At, db
  <2>2. PICK gone \in SUBSET ids[w] : redis' = [d \in Docs |-> [v \in Versions |->
                                          IF <<d, v>> \in gone THEN "none" ELSE redis[d][v]]]
    BY <1>6 DEF Erase, EraseFails
  <2>3. doc[D(w)].status = "deleted" /\ gone \in SUBSET ({D(w)} \X Versions)
    BY <2>1, <2>2 DEF AloneInv, Cleaning
  <2>4. Shown' = Shown \ gone
    BY <2>2 DEF Shown
  <2>5. Index!Erase(D(w))
    BY <2>1, <2>3, <2>4 DEF Index!Erase, Index!Versions, Versions
  <2> QED BY <1>1, <2>1, <2>5 DEF RowsInv, VersionsFollowJobs, Parsed, ReadIndexed, DocumentStep, Index!Next
<1>7. CASE At(w, "purge") /\ DeleteCompleted(D(w)) /\ redis' = redis /\ pc'[w] \in Answering
  <2>1. /\ doc[D(w)].status = "deleted" /\ \A v \in Versions : redis[D(w)][v] = "none"
    BY <1>7 DEF At, AloneInv, Cleaning
  <2>2. /\ job' = [job EXCEPT ![J(w)] = "completed"] /\ doc' = doc
        /\ ver' = [ver EXCEPT ![D(w)] = [v \in Versions |-> IF ver[D(w)][v] = "none" THEN "none" ELSE "deleted"]]
    BY <1>1, <1>7 DEF DeleteCompleted
  <2>3. Index!CompleteDelete(D(w))
    <3>1. \A v \in Versions : <<D(w), v>> \notin Shown
      BY <2>1 DEF Shown
    <3>2. Index!Versions = Versions
      BY DEF Index!Versions, Versions
    <3> QED BY <1>3, <1>7, <2>1, <2>2, <3>1, <3>2 DEF Index!CompleteDelete
  <2>4. VersionsFollowJobs'
    <3> SUFFICES ASSUME NEW d \in Docs, NEW v \in Versions
                 PROVE  /\ ver'[d][v] = "indexed" => job'[<<d, v>>] = "completed"
                        /\ ver'[d][v] \in {"uploaded", "parsing"} => job'[<<d, v>>] \in Pending
      BY DEF VersionsFollowJobs, Pending
    <3>1. ver'[d][v] \in {ver[d][v], "deleted"} /\ job'[<<d, v>>] = job[<<d, v>>]
      BY <1>1, <1>2, <1>4, <2>2
    <3> QED BY <3>1 DEF RowsInv, VersionsFollowJobs
  <2> QED BY <1>1, <1>7, <2>3, <2>4 DEF RowsInv, Parsed, ReadIndexed, Answering, DocumentStep, Index!Next
<1>8. CASE (\E s \in {"processing", "retrying", "failed"} : SetDeleteJob(D(w), s)) /\ redis' = redis /\ pc'[w] \in Answering
  <2>1. PICK s : job' = [job EXCEPT ![J(w)] = s] /\ UNCHANGED <<doc, ver>>
    BY <1>1, <1>8 DEF SetDeleteJob
  <2> QED BY <1>1, <1>3, <1>4, <1>8, <2>1
          DEF RowsInv, VersionsFollowJobs, Parsed, ReadIndexed, Answering, DocumentStep
<1> QED BY <1>5, <1>6, <1>7, <1>8

\* Every step of the handler.
LEMMA HandlerImplements ==
  ASSUME OneWorker, IInv, AloneInv, RowsInv, NEW w \in Workers, HandlerStep(w)
  PROVE  DocumentStep /\ RowsInv'
<1>1. /\ Busy(w) /\ UNCHANGED held /\ pc \in [Workers -> Steps] /\ \A u \in Workers : u = w
      /\ pc[w] \in {"replace", "project", "complete", "failing"} => ~IsDelete(J(w))
      /\ pc[w] \in {"erase", "purge"} => IsDelete(J(w))
  BY HandlerTables, HandlerWork DEF IInv, TypeInv, TypeOK, Holding, J, OneWorker
<1>2. ASSUME UNCHANGED db, redis' = redis, pc'[w] \in Answering PROVE DocumentStep /\ RowsInv'
  <2>1. UNCHANGED <<doc, ver, job, Shown>>
    BY <1>2 DEF db, Shown
  <2> QED BY <1>1, <1>2, <2>1, QuietRows DEF Answering, DocumentStep
<1>3. CASE ClaimComplete(w) \/ ClaimMissing(w) \/ ParseFails(w)
  BY <1>1, <1>2, <1>3 DEF ClaimComplete, ClaimMissing, ParseFails, Goto, Respond, Answering
<1>4. CASE ReplaceChunks(w) \/ ReplaceFails(w) \/ IndexIncremental(w) \/ IndexFails(w)
  <2>1. ~IsDelete(J(w))
    BY <1>1, <1>4 DEF ReplaceChunks, ReplaceFails, IndexIncremental, IndexFails, At
  <2> QED BY <1>1, <1>4, <2>1, VersionImplements
<1>9. CASE ClaimIndexJob(w)
  BY <1>1, <1>9, VersionImplements DEF ClaimIndexJob, Goto
<1>10. CASE ClaimFails(w)
  <2>1. pc'[w] \in Answering /\ UNCHANGED <<redis, ids>>
    BY <1>1, <1>10 DEF ClaimFails, RetryOrExhaust, Goto, Respond, Answering
  <2>2. \/ UNCHANGED db
        \/ IsDelete(J(w)) /\ SetDeleteJob(D(w), "processing")
        \/ Claims(w) /\ ~IsDelete(J(w)) /\ IndexClaimed(D(w), V(w))
    BY <1>10 DEF ClaimFails
  <2> QED BY <1>1, <1>2, <2>1, <2>2, VersionImplements, CleanupImplements
<1>5. CASE ClaimDeleteJob(w) \/ Erase(w) \/ EraseFails(w)
  <2>1. IsDelete(J(w))
    BY <1>1, <1>5 DEF ClaimDeleteJob, Erase, EraseFails, At
  <2> QED BY <1>1, <1>5, <2>1, CleanupImplements
<1>6. CASE CompleteIndex(w) \/ CompleteFails(w)
  <2>1. /\ At(w, "complete") /\ redis' = redis /\ pc'[w] \in Answering
        /\ UNCHANGED db \/ IndexCompleted(D(w), V(w))
    BY <1>1, <1>6 DEF CompleteIndex, CompleteFails, Goto, Respond, Answering
  <2> QED BY <1>1, <1>2, <2>1, VersionImplements DEF At
<1>7. CASE CompleteDelete(w) \/ CompleteDeleteFails(w)
  <2>1. /\ At(w, "purge") /\ redis' = redis /\ pc'[w] \in Answering
        /\ UNCHANGED db \/ DeleteCompleted(D(w))
    BY <1>1, <1>7 DEF CompleteDelete, CompleteDeleteFails, Goto, Respond, Answering
  <2> QED BY <1>1, <1>2, <2>1, CleanupImplements DEF At
<1>8. CASE RecordRetry(w) \/ FailIndex(w) \/ Exhaust(w)
  <2>1. pc'[w] \in Answering /\ redis' = redis
    BY <1>1, <1>8 DEF RecordRetry, FailIndex, Exhaust, RetryOrExhaust, Goto, Respond, Answering
  <2>2. \/ UNCHANGED db
        \/ IsDelete(J(w)) /\ \E s \in {"processing", "retrying", "failed"} : SetDeleteJob(D(w), s)
        \/ /\ ~IsDelete(J(w))
           /\ IndexFailed(D(w), V(w), "retrying", "parsing") \/ IndexFailed(D(w), V(w), "failed", "failed")
    BY <1>1, <1>8 DEF RecordRetry, FailIndex, Exhaust, At
  <2> QED BY <1>1, <1>2, <2>1, <2>2, VersionImplements, CleanupImplements
<1> QED BY <1>3, <1>4, <1>5, <1>6, <1>7, <1>8, <1>9, <1>10 DEF HandlerStep

\* Redis restarts empty.
LEMMA RedisLostImplements == ASSUME RowsInv, RedisLost PROVE DocumentStep /\ RowsInv'
<1>1. /\ UNCHANGED <<doc, ver, job, pc, held, ids>> /\ \A d \in Docs, v \in Versions : redis'[d][v] = "none"
  BY DEF RedisLost, db, work
<1>2. Index!Lose
  BY <1>1 DEF Index!Lose, Shown
<1> QED BY <1>1, <1>2, QuietRows DEF DocumentStep, Index!Next

\* Every step of the pipeline.
LEMMA StepImplements ==
  ASSUME OneWorker, IInv, AloneInv, RowsInv, [Next]_vars
  PROVE  DocumentStep /\ RowsInv'
<1>1. CASE UNCHANGED vars \/ Broker
  <2>1. UNCHANGED <<doc, ver, job, redis, pc, held, ids>>
    BY <1>1 DEF vars, Broker, RetryDue, db, work
  <2>2. Shown' = Shown
    BY <2>1 DEF Shown
  <2> QED BY <2>1, <2>2, QuietRows DEF DocumentStep
<1>2. CASE API  BY <1>2, APIImplements
<1>3. CASE RedisLost  BY <1>3, RedisLostImplements
<1>4. ASSUME NEW w \in Workers, Worker(w) PROVE DocumentStep /\ RowsInv'
  BY <1>4, StartupImplements, HandlerImplements, BrokerImplements
     DEF Worker, Publisher, Consume, Handler, Failure, HandlerStep, BrokerStep
<1> QED BY <1>1, <1>2, <1>3, <1>4 DEF Next

\* With one worker the pipeline implements IndexedDocuments: rows and chunks
\* change by its steps only, whatever is retried, redelivered, lost or crashes.
THEOREM ImplementsIndex == ASSUME OneWorker PROVE Spec => IndexImplemented
<1>1. Init => Index!Init
  <2> SUFFICES ASSUME Init PROVE Index!Init
    OBVIOUS
  <2>1. Shown = {}
    BY DEF Init, Shown
  <2> QED BY <2>1 DEF Init, Index!Init, Index!Versions, Versions
<1>2. Init => RowsInv
  BY DEF Init, RowsInv, VersionsFollowJobs, Parsed, ReadIndexed
<1>3. IInv /\ AloneInv /\ RowsInv /\ [Next]_vars => RowsInv' /\ [Index!Next]_(Index!vars)
  BY StepImplements DEF DocumentStep, Index!vars
<1> QED BY <1>1, <1>2, <1>3, Inductive, AloneInductive, PTL DEF Spec, IndexImplemented, Index!Spec
=============================================================================
