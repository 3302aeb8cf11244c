---------------------------- MODULE KnowledgeIndex ----------------------------
(***************************************************************************)
(* The knowledge-document indexing pipeline: the API service writes a      *)
(* document, a version, a job and an outbox event in one MySQL             *)
(* transaction; the index worker's publisher moves events to RabbitMQ; its *)
(* consumer parses a version, replaces its chunk rows, projects them into  *)
(* Redis and promotes the version; deletion revokes the document in MySQL  *)
(* and queues the clean-up of its chunks.                                  *)
(*                                                                         *)
(* MySQL transactions are atomic steps; Redis writes and broker calls are  *)
(* separate steps, so every interleaving and every crash between them is   *)
(* explored.  Document contents, file storage and chunk texts are          *)
(* abstracted: the chunks of one version are absent, partly written or     *)
(* completely written.  Failures of MySQL, Redis and the broker, commits   *)
(* whose answer is lost, crashes and broken broker sessions all draw on    *)
(* one budget, MaxFaults.                                                  *)
(***************************************************************************)
EXTENDS Naturals, FiniteSets

CONSTANTS Docs,         \* the documents of one tenant
          MaxVersion,   \* bound: versions staged per document
          Workers,      \* index-worker processes
          MaxAttempts,  \* DefaultMaxDeliveryAttempts
          MaxCopies,    \* bound: physical messages per event
          MaxFaults,    \* bound: failures of the environment
          BadContent,   \* <<document, version>> pairs the parser rejects
          NoJob         \* what an idle worker holds

Versions == 1..MaxVersion
\* Job <<d, v>> indexes version v of d; job <<d, 0>> deletes d.
Jobs     == Docs \X (0..MaxVersion)
Copies   == 1..MaxCopies
IsDelete(j) == j[2] = 0

ASSUME KIAssumption ==
  /\ MaxVersion \in Nat /\ MaxVersion >= 1
  /\ MaxAttempts \in Nat /\ MaxAttempts >= 1
  /\ MaxCopies \in Nat /\ MaxCopies >= 1
  /\ MaxFaults \in Nat
  /\ BadContent \subseteq Docs \X Versions
  /\ NoJob \notin Jobs

VARIABLES doc,     \* knowledge_documents: status and active version
          ver,     \* knowledge_document_versions: status
          chunk,   \* knowledge_chunks: index_status of a version's rows
          job,     \* knowledge_jobs: status
          outbox,  \* outbox_events: status
          msg,     \* the physical messages in RabbitMQ
          redis,   \* the projection of each version's chunks
          pc,      \* what each worker does next
          held,    \* the job and message copy a worker handles
          act,     \* the jobqueue action the consumer chose
          ids,     \* chunks a worker read from MySQL earlier
          marking, \* the event a publisher sent but has not marked
          faults   \* failures so far

db   == <<doc, ver, chunk, job, outbox>>
work == <<pc, held, act, ids>>
vars == <<doc, ver, chunk, job, outbox, msg, redis, pc, held, act, ids, marking, faults>>

DocStatus    == {"none", "uploaded", "parsing", "indexed", "failed", "deleted"}
ChunkStatus  == {"none", "pending", "indexed", "deleted"}
JobStatus    == {"none", "queued", "processing", "retrying", "completed", "failed"}
OutboxStatus == {"none", "pending", "published"}
Presence     == {"none", "partial", "full"}
Places       == {"none", "main", "retry", "held", "dead"}
Message      == [at: Places, attempt: Nat]
NoMessage    == [at |-> "none", attempt |-> 0]
Nothing      == [job |-> NoJob, copy |-> 0]
Pending      == {"queued", "processing", "retrying"}

HandlerSteps == {"claim", "replace", "project", "complete", "retrying", "failing",
                 "erase", "purge", "exhaust", "finish"}
Steps        == {"down", "prune", "rebuild", "verify", "idle"} \cup HandlerSteps

TypeOK ==
  /\ doc \in [Docs -> [status: DocStatus, current: 0..MaxVersion]]
  /\ ver \in [Docs -> [Versions -> DocStatus]]
  /\ chunk \in [Docs -> [Versions -> ChunkStatus]]
  /\ job \in [Jobs -> JobStatus]
  /\ outbox \in [Jobs -> OutboxStatus]
  /\ msg \in [Jobs -> [Copies -> Message]]
  /\ redis \in [Docs -> [Versions -> Presence]]
  /\ pc \in [Workers -> Steps]
  /\ held \in [Workers -> [job: Jobs \cup {NoJob}, copy: 0..MaxCopies]]
  /\ act \in [Workers -> {"none", "ack", "retry", "dead"}]
  /\ ids \in [Workers -> SUBSET (Docs \X Versions)]
  /\ marking \in [Workers -> Jobs \cup {NoJob}]
  /\ faults \in 0..MaxFaults

Init ==
  /\ doc = [d \in Docs |-> [status |-> "none", current |-> 0]]
  /\ ver = [d \in Docs |-> [v \in Versions |-> "none"]]
  /\ chunk = [d \in Docs |-> [v \in Versions |-> "none"]]
  /\ job = [j \in Jobs |-> "none"]
  /\ outbox = [j \in Jobs |-> "none"]
  /\ msg = [j \in Jobs |-> [c \in Copies |-> NoMessage]]
  /\ redis = [d \in Docs |-> [v \in Versions |-> "none"]]
  /\ pc = [w \in Workers |-> "down"]
  /\ held = [w \in Workers |-> Nothing]
  /\ act = [w \in Workers |-> "none"]
  /\ ids = [w \in Workers |-> {}]
  /\ marking = [w \in Workers |-> NoJob]
  /\ faults = 0

Fault   == faults < MaxFaults /\ faults' = faults + 1
NoFault == UNCHANGED faults

-----------------------------------------------------------------------------
(***************************************************************************)
(* The API service.                                                        *)
(***************************************************************************)
Live(d) == doc[d].status \notin {"none", "deleted"}

SetStatus(d, s) ==
  doc' = [doc EXCEPT ![d] = [status |-> s, current |-> doc[d].current]]

\* The transactional outbox: the job and its event commit together.
Enqueue(j) ==
  /\ job' = [job EXCEPT ![j] = "queued"]
  /\ outbox' = [outbox EXCEPT ![j] = "pending"]

\* Accept ends in CreateUpload: document, version 1, job and event at once.
Accept(d) ==
  /\ doc[d].status = "none"
  /\ doc' = [doc EXCEPT ![d] = [status |-> "uploaded", current |-> 1]]
  /\ ver' = [ver EXCEPT ![d][1] = "uploaded"]
  /\ Enqueue(<<d, 1>>)
  /\ UNCHANGED <<chunk, msg, redis, pc, held, act, ids, marking, faults>>

\* The next version number is read under the lock on the document row.
IsNextVersion(d, v) ==
  /\ ver[d][v] = "none"
  /\ \A u \in Versions : u < v => ver[d][u] # "none"

CreateVersionUpload(d) ==
  /\ Live(d)
  /\ \E v \in Versions :
       /\ IsNextVersion(d, v)
       /\ ver' = [ver EXCEPT ![d][v] = "uploaded"]
       /\ Enqueue(<<d, v>>)
  /\ UNCHANGED <<doc, chunk, msg, redis, pc, held, act, ids, marking, faults>>

AcceptVersion(d) == CreateVersionUpload(d)

\* Only an active, completely indexed version can be rebuilt.  Its status is
\* read before the transaction that stages the candidate; a candidate staged
\* after that status changed is an AcceptVersion step.
Rebuild(d) ==
  /\ doc[d].status = "indexed"
  /\ ver[d][doc[d].current] = "indexed"
  /\ CreateVersionUpload(d)

NoIndexPending(d) == \A v \in Versions : job[<<d, v>>] \notin Pending

\* A repeated request finds the deleted document and changes nothing.  Bound:
\* one clean-up job per document.
CreateDelete(d) ==
  /\ Live(d)
  /\ NoIndexPending(d)
  /\ job[<<d, 0>>] = "none"
  /\ SetStatus(d, "deleted")
  /\ Enqueue(<<d, 0>>)
  /\ UNCHANGED <<ver, chunk, msg, redis, pc, held, act, ids, marking, faults>>

-----------------------------------------------------------------------------
(***************************************************************************)
(* The outbox publisher of each worker process and the broker.             *)
(***************************************************************************)
Serving(w) == pc[w] \notin {"down", "prune", "rebuild", "verify"}

\* A new message takes the first copy that is not in use.
NextCopy(j, c) == /\ msg[j][c].at = "none"
                  /\ \A e \in Copies : e < c => msg[j][e].at # "none"
Arrive(j) == \E c \in Copies :
  NextCopy(j, c) /\ msg' = [msg EXCEPT ![j][c] = [at |-> "main", attempt |-> 0]]
Moved(j, c, place) == [at |-> place, attempt |-> msg[j][c].attempt]

\* Publish returned: the broker confirmed the message.
Publish(w, j) ==
  /\ Serving(w) /\ marking[w] = NoJob
  /\ outbox[j] = "pending"
  /\ Arrive(j)
  /\ marking' = [marking EXCEPT ![w] = j]
  /\ UNCHANGED <<db, redis, work, faults>>

\* The broker stored the message but the confirmation never came: the event
\* stays pending (only its back-off changes).
PublishUnconfirmed(w, j) ==
  /\ Serving(w) /\ marking[w] = NoJob
  /\ outbox[j] = "pending"
  /\ Fault
  /\ Arrive(j)
  /\ UNCHANGED <<db, redis, work, marking>>

MarkOutboxPublished(w) ==
  /\ marking[w] # NoJob
  /\ outbox' = [outbox EXCEPT ![marking[w]] = IF @ = "pending" THEN "published" ELSE @]
  /\ marking' = [marking EXCEPT ![w] = NoJob]
  /\ UNCHANGED <<doc, ver, chunk, job, msg, redis, work, faults>>

MarkFails(w) ==
  /\ marking[w] # NoJob
  /\ Fault
  /\ marking' = [marking EXCEPT ![w] = NoJob]
  /\ UNCHANGED <<db, msg, redis, work>>

\* The retry queue's TTL dead-letters a message back to the jobs exchange.
RetryDue(j, c) ==
  /\ msg[j][c].at = "retry"
  /\ msg' = [msg EXCEPT ![j][c] = Moved(j, c, "main")]
  /\ UNCHANGED <<db, redis, work, marking, faults>>

Deliver(w, j, c) ==
  /\ pc[w] = "idle"
  /\ msg[j][c].at = "main"
  /\ msg' = [msg EXCEPT ![j][c] = Moved(j, c, "held")]
  /\ pc' = [pc EXCEPT ![w] = "claim"]
  /\ held' = [held EXCEPT ![w] = [job |-> j, copy |-> c]]
  /\ UNCHANGED <<db, redis, act, ids, marking, faults>>

-----------------------------------------------------------------------------
(***************************************************************************)
(* Start-up of a worker: RehydrateActiveProjection, before any delivery.   *)
(***************************************************************************)
\* Mutated form of Active: the newest indexed rows, not the active version's.
ActiveNewest == {p \in Docs \X Versions :
                   /\ doc[p[1]].status = "indexed"
                   /\ chunk[p[1]][p[2]] = "indexed"
                   /\ \A v \in Versions : v > p[2] => chunk[p[1]][v] = "none"}

Active == {p \in Docs \X Versions :
             /\ doc[p[1]].status = "indexed"
             /\ doc[p[1]].current = p[2]
             /\ chunk[p[1]][p[2]] = "indexed"}

ListActive(w) ==
  /\ pc[w] = "down"
  /\ pc' = [pc EXCEPT ![w] = "prune"]
  /\ ids' = [ids EXCEPT ![w] = Active]
  /\ UNCHANGED <<db, msg, redis, held, act, marking, faults>>

\* The versions of which Redis has any chunk.
Shown == {p \in Docs \X Versions : redis[p[1]][p[2]] # "none"}

Stale(w) == Shown \ ids[w]

PruneStaleChunks(w) ==
  /\ pc[w] = "prune"
  /\ redis' = [d \in Docs |-> [v \in Versions |-> IF <<d, v>> \in Stale(w) THEN "none" ELSE redis[d][v]]]
  /\ pc' = [pc EXCEPT ![w] = "rebuild"]
  /\ UNCHANGED <<db, msg, held, act, ids, marking, faults>>

Missing(w) == {p \in ids[w] : redis[p[1]][p[2]] # "full"}

Written(w) == [d \in Docs |-> [v \in Versions |-> IF <<d, v>> \in ids[w] THEN "full" ELSE redis[d][v]]]

RebuildProjection(w) ==
  /\ pc[w] = "rebuild" /\ Missing(w) # {}
  /\ redis' = Written(w)
  /\ pc' = [pc EXCEPT ![w] = "verify"]
  /\ UNCHANGED <<db, msg, held, act, ids, marking, faults>>

\* Embedding or writing fails after a part of the chunks: the process ends,
\* and its supervisor starts it again.
RebuildFails(w) ==
  /\ pc[w] = "rebuild" /\ Fault
  /\ \E done, begun \in SUBSET Missing(w) :
       redis' = [d \in Docs |-> [v \in Versions |->
                   IF <<d, v>> \in done THEN "full"
                   ELSE IF <<d, v>> \in begun THEN "partial" ELSE redis[d][v]]]
  /\ pc' = [pc EXCEPT ![w] = "down"]
  /\ ids' = [ids EXCEPT ![w] = {}]
  /\ UNCHANGED <<db, msg, held, act, marking>>

\* The present chunks are counted, before a rebuild that may not be needed and
\* after it.  Readiness is reached only when all are there.
VerifyProjection(w) ==
  /\ pc[w] \in {"rebuild", "verify"}
  /\ IF Missing(w) = {}
       THEN pc' = [pc EXCEPT ![w] = "idle"]
       ELSE pc[w] = "verify" /\ pc' = [pc EXCEPT ![w] = "down"]
  /\ ids' = [ids EXCEPT ![w] = {}]
  /\ UNCHANGED <<db, msg, redis, held, act, marking, faults>>

-----------------------------------------------------------------------------
(***************************************************************************)
(* IndexConsumer.Handle around Processor.Process, one step per external    *)
(* call.  D, V and Attempt are the fields of the delivered envelope.       *)
(***************************************************************************)
J(w) == held[w].job
D(w) == J(w)[1]
V(w) == J(w)[2]
C(w) == held[w].copy
Attempt(w) == msg[J(w)][C(w)].attempt

At(w, step)   == pc[w] = step
Goto(w, step) == pc' = [pc EXCEPT ![w] = step] /\ UNCHANGED act
Respond(w, a) == pc' = [pc EXCEPT ![w] = "finish"] /\ act' = [act EXCEPT ![w] = a]

\* A retryable error is retried until the delivery budget is spent.
RetryOrExhaust(w) ==
  IF Attempt(w) + 1 < MaxAttempts THEN Respond(w, "retry") ELSE Goto(w, "exhaust")

ClaimComplete(w) ==
  /\ At(w, "claim") /\ job[J(w)] = "completed"
  /\ Respond(w, "ack")
  /\ UNCHANGED <<db, msg, redis, held, ids, marking, faults>>

\* No row matches: an index job of a deleted document, a delete job of a
\* document that is not deleted.  Not retryable, dead without Exhaust.
Claimable(j) == IF IsDelete(j) THEN doc[j[1]].status = "deleted"
                               ELSE doc[j[1]].status # "deleted"

ClaimMissing(w) ==
  /\ At(w, "claim") /\ job[J(w)] # "completed" /\ ~Claimable(J(w))
  /\ Respond(w, "dead")
  /\ UNCHANGED <<db, msg, redis, held, ids, marking, faults>>

\* The transactions of a claim.
IndexClaimed(d, v) ==
  /\ job' = [job EXCEPT ![<<d, v>>] = "processing"]
  /\ IF doc[d].current = v /\ doc[d].status # "indexed"
       THEN SetStatus(d, "parsing") ELSE UNCHANGED doc
  /\ ver' = [ver EXCEPT ![d][v] = "parsing"]
  /\ UNCHANGED <<chunk, outbox>>

SetDeleteJob(d, status) ==
  /\ job' = [job EXCEPT ![<<d, 0>>] = status]
  /\ UNCHANGED <<doc, ver, chunk, outbox>>

Claims(w) == At(w, "claim") /\ job[J(w)] # "completed" /\ Claimable(J(w))

ClaimIndexJob(w) ==
  /\ Claims(w) /\ ~IsDelete(J(w))
  /\ IndexClaimed(D(w), V(w))
  /\ Goto(w, "replace")
  /\ UNCHANGED <<msg, redis, held, ids, marking, faults>>

\* Mutated form of ChunkRows: only the rows that were searchable.
IndexedChunkRows(d) == {p \in {d} \X Versions : chunk[d][p[2]] = "indexed"}

\* Every chunk row of the document, whatever its version and status.
ChunkRows(d) == {p \in {d} \X Versions : chunk[d][p[2]] # "none"}

ClaimDeleteJob(w) ==
  /\ Claims(w) /\ IsDelete(J(w))
  /\ SetDeleteJob(D(w), "processing")
  /\ ids' = [ids EXCEPT ![w] = ChunkRows(D(w))]
  /\ Goto(w, "erase")
  /\ UNCHANGED <<msg, redis, held, marking, faults>>

\* The claim fails, or commits and the answer is lost: no retry is recorded.
ClaimFails(w) ==
  /\ At(w, "claim") /\ Fault
  /\ \/ UNCHANGED db
     \/ Claims(w) /\ IsDelete(J(w)) /\ SetDeleteJob(D(w), "processing")
     \/ Claims(w) /\ ~IsDelete(J(w)) /\ IndexClaimed(D(w), V(w))
  /\ RetryOrExhaust(w)
  /\ UNCHANGED <<msg, redis, held, ids, marking>>

\* ReadFile and ParseAndChunk precede ReplaceChunks and leave no state.
ParseFails(w) ==
  /\ At(w, "replace") /\ <<D(w), V(w)>> \in BadContent
  /\ Goto(w, "failing")
  /\ UNCHANGED <<db, msg, redis, held, ids, marking, faults>>

RowsReplaced(d, v) ==
  /\ chunk' = [chunk EXCEPT ![d][v] = "pending"]
  /\ UNCHANGED <<doc, ver, job, outbox>>

ReplaceChunks(w) ==
  /\ At(w, "replace") /\ <<D(w), V(w)>> \notin BadContent
  /\ RowsReplaced(D(w), V(w))
  /\ Goto(w, "project")
  /\ UNCHANGED <<msg, redis, held, ids, marking, faults>>

\* The file is not read, the transaction fails, or its answer is lost.
ReplaceFails(w) ==
  /\ At(w, "replace") /\ Fault
  /\ \/ UNCHANGED db
     \/ <<D(w), V(w)>> \notin BadContent /\ RowsReplaced(D(w), V(w))
  /\ Goto(w, "retrying")
  /\ UNCHANGED <<msg, redis, held, ids, marking>>

IndexIncremental(w) ==
  /\ At(w, "project")
  /\ redis' = [redis EXCEPT ![D(w)][V(w)] = "full"]
  /\ Goto(w, "complete")
  /\ UNCHANGED <<db, msg, held, ids, marking, faults>>

\* Chunks are written one by one: the first ones may already be visible.
IndexFails(w) ==
  /\ At(w, "project") /\ Fault
  /\ \/ redis' = [redis EXCEPT ![D(w)][V(w)] = IF @ = "none" THEN "partial" ELSE @]
     \/ UNCHANGED redis
  /\ Goto(w, "retrying")
  /\ UNCHANGED <<db, msg, held, ids, marking>>

-----------------------------------------------------------------------------
(***************************************************************************)
(* Completing and failing a version.                                       *)
(***************************************************************************)
\* Mutated form of Promotes: every completed version becomes active.
PromotesAlways(d, v) == TRUE

\* A version that finishes after a newer one does not move the alias back.
Promotes(d, v) == v >= doc[d].current

IndexCompleted(d, v) ==
  /\ chunk' = [chunk EXCEPT ![d][v] = IF @ = "none" THEN "none" ELSE "indexed"]
  /\ ver' = [ver EXCEPT ![d][v] = "indexed"]
  /\ doc' = IF Promotes(d, v)
              THEN [doc EXCEPT ![d] = [status |-> "indexed", current |-> v]] ELSE doc
  /\ job' = [job EXCEPT ![<<d, v>>] = "completed"]
  /\ UNCHANGED outbox

\* Mutated form of ShowsFailure: the failure of any candidate shows.
ShowsCandidate(d, v) == v >= doc[d].current

\* The document shows a failure of its active version, and that of a
\* candidate only while nothing is searchable.
ShowsFailure(d, v) ==
  /\ v >= doc[d].current
  /\ doc[d].current = v \/ doc[d].status # "indexed"

\* recordIndexFailure and FailIndexByIdentity: no status is checked.
IndexFailed(d, v, jobStatus, docStatus) ==
  /\ job' = [job EXCEPT ![<<d, v>>] = jobStatus]
  /\ IF ShowsFailure(d, v) THEN SetStatus(d, docStatus) ELSE UNCHANGED doc
  /\ ver' = [ver EXCEPT ![d][v] = docStatus]
  /\ UNCHANGED <<chunk, outbox>>

DeleteCompleted(d) ==
  /\ chunk' = [chunk EXCEPT ![d] = [v \in Versions |-> IF chunk[d][v] = "none" THEN "none" ELSE "deleted"]]
  /\ ver' = [ver EXCEPT ![d] = [v \in Versions |-> IF ver[d][v] = "none" THEN "none" ELSE "deleted"]]
  /\ job' = [job EXCEPT ![<<d, 0>>] = "completed"]
  /\ UNCHANGED <<doc, outbox>>

CompleteIndex(w) ==
  /\ At(w, "complete")
  /\ IndexCompleted(D(w), V(w))
  /\ Respond(w, "ack")
  /\ UNCHANGED <<msg, redis, held, ids, marking, faults>>

\* The transaction fails, or commits and the answer is lost.
CompleteFails(w) ==
  /\ At(w, "complete") /\ Fault
  /\ UNCHANGED db \/ IndexCompleted(D(w), V(w))
  /\ Goto(w, "retrying")
  /\ UNCHANGED <<msg, redis, held, ids, marking>>

Erase(w) ==
  /\ At(w, "erase")
  /\ redis' = [d \in Docs |-> [v \in Versions |->
                 IF <<d, v>> \in ids[w] THEN "none" ELSE redis[d][v]]]
  /\ Goto(w, "purge")
  /\ UNCHANGED <<db, msg, held, ids, marking, faults>>

\* Keys are deleted in batches of one hundred.
EraseFails(w) ==
  /\ At(w, "erase") /\ Fault
  /\ \E gone \in SUBSET ids[w] :
       redis' = [d \in Docs |-> [v \in Versions |->
                   IF <<d, v>> \in gone THEN "none" ELSE redis[d][v]]]
  /\ Goto(w, "retrying")
  /\ UNCHANGED <<db, msg, held, ids, marking>>

CompleteDelete(w) ==
  /\ At(w, "purge")
  /\ DeleteCompleted(D(w))
  /\ Respond(w, "ack")
  /\ UNCHANGED <<msg, redis, held, ids, marking, faults>>

CompleteDeleteFails(w) ==
  /\ At(w, "purge") /\ Fault
  /\ UNCHANGED db \/ DeleteCompleted(D(w))
  /\ Goto(w, "retrying")
  /\ UNCHANGED <<msg, redis, held, ids, marking>>

\* RecordIndexRetry or RecordDeleteRetry; its own error only joins the cause.
RecordRetry(w) ==
  /\ At(w, "retrying")
  /\ \/ /\ NoFault
        /\ IF IsDelete(J(w)) THEN SetDeleteJob(D(w), "retrying")
                             ELSE IndexFailed(D(w), V(w), "retrying", "parsing")
     \/ Fault /\ UNCHANGED db
  /\ RetryOrExhaust(w)
  /\ UNCHANGED <<msg, redis, held, ids, marking>>

\* Mutated form of FailIndex: what cannot be recorded is acknowledged.
FailIndexOrDrop(w) ==
  /\ At(w, "failing")
  /\ \/ /\ NoFault /\ IndexFailed(D(w), V(w), "failed", "failed")
        /\ Respond(w, "dead")
     \/ Fault /\ UNCHANGED db /\ Respond(w, "ack")
  /\ UNCHANGED <<msg, redis, held, ids, marking>>

\* A document that cannot be parsed: never retried, whether or not its
\* failure could be recorded.
FailIndex(w) ==
  /\ At(w, "failing")
  /\ \/ NoFault /\ IndexFailed(D(w), V(w), "failed", "failed")
     \/ Fault /\ UNCHANGED db
  /\ Respond(w, "dead")
  /\ UNCHANGED <<msg, redis, held, ids, marking>>

\* Exhaust by identity; when it fails, or its answer is lost, the message is
\* retried again, beyond the delivery budget.
Exhaust(w) ==
  /\ At(w, "exhaust")
  /\ \/ /\ IF IsDelete(J(w)) THEN SetDeleteJob(D(w), "failed")
                             ELSE IndexFailed(D(w), V(w), "failed", "failed")
        /\ \/ NoFault /\ Respond(w, "dead")
           \/ Fault /\ Respond(w, "retry")
     \/ Fault /\ UNCHANGED db /\ Respond(w, "retry")
  /\ UNCHANGED <<msg, redis, held, ids, marking>>

-----------------------------------------------------------------------------
(***************************************************************************)
(* finishDelivery, broken sessions and crashes.                            *)
(***************************************************************************)
Release(w) ==
  /\ pc' = [pc EXCEPT ![w] = "idle"]
  /\ held' = [held EXCEPT ![w] = Nothing]
  /\ act' = [act EXCEPT ![w] = "none"]
  /\ ids' = [ids EXCEPT ![w] = {}]

Settle(w, m) == msg' = [msg EXCEPT ![J(w)][C(w)] = m]

\* Mutated form of Answer: a retry is acknowledged but not published.
AnswerWithoutRetry(w) ==
  IF act[w] = "dead" THEN [at |-> "dead", attempt |-> Attempt(w)] ELSE NoMessage

\* What the answer makes of the message: acknowledged, or moved to the retry
\* queue with one more attempt, or to the dead-letter queue.
Answer(w) ==
  IF act[w] = "ack" THEN NoMessage
  ELSE IF act[w] = "retry" THEN [at |-> "retry", attempt |-> Attempt(w) + 1]
  ELSE [at |-> "dead", attempt |-> Attempt(w)]

FinishDelivery(w) ==
  /\ At(w, "finish")
  /\ Settle(w, Answer(w))
  /\ Release(w)
  /\ UNCHANGED <<db, redis, marking, faults>>

\* Retry and dead publish a copy and then acknowledge the original: when the
\* confirmation or the acknowledgement is lost both messages exist.
FinishTwice(w) ==
  /\ At(w, "finish") /\ act[w] \in {"retry", "dead"}
  /\ Fault
  /\ \E c \in Copies :
       /\ NextCopy(J(w), c)
       /\ msg' = [msg EXCEPT ![J(w)][C(w)] = Moved(J(w), C(w), "main"),
                             ![J(w)][c] = Answer(w)]
  /\ Release(w)
  /\ UNCHANGED <<db, redis, marking>>

Busy(w) == pc[w] \in HandlerSteps

Requeue(w) ==
  IF Busy(w) THEN Settle(w, Moved(J(w), C(w), "main")) ELSE UNCHANGED msg

\* The session breaks: its context is cancelled, the broker requeues what was
\* not acknowledged, and the process connects again without rehydration.
SessionLost(w) ==
  /\ Serving(w) /\ Fault
  /\ Requeue(w)
  /\ Release(w)
  /\ marking' = [marking EXCEPT ![w] = NoJob]
  /\ UNCHANGED <<db, redis>>

Crash(w) ==
  /\ pc[w] # "down" /\ Fault
  /\ Requeue(w)
  /\ pc' = [pc EXCEPT ![w] = "down"]
  /\ held' = [held EXCEPT ![w] = Nothing]
  /\ act' = [act EXCEPT ![w] = "none"]
  /\ ids' = [ids EXCEPT ![w] = {}]
  /\ marking' = [marking EXCEPT ![w] = NoJob]
  /\ UNCHANGED <<db, redis>>

\* Redis restarts empty while no worker runs (the projection is rebuildable).
RedisLost ==
  /\ \A w \in Workers : pc[w] = "down"
  /\ Shown # {}
  /\ Fault
  /\ redis' = [d \in Docs |-> [v \in Versions |-> "none"]]
  /\ UNCHANGED <<db, msg, work, marking>>

-----------------------------------------------------------------------------
API == \E d \in Docs : Accept(d) \/ AcceptVersion(d) \/ Rebuild(d) \/ CreateDelete(d)

Publisher(w) ==
  \/ \E j \in Jobs : Publish(w, j)
  \/ MarkOutboxPublished(w)

Startup(w) == ListActive(w) \/ PruneStaleChunks(w) \/ RebuildProjection(w) \/ VerifyProjection(w)

Consume(w) == \E j \in Jobs, c \in Copies : Deliver(w, j, c)

Handler(w) ==
  \/ ClaimComplete(w) \/ ClaimMissing(w) \/ ClaimIndexJob(w) \/ ClaimDeleteJob(w)
  \/ ParseFails(w) \/ ReplaceChunks(w) \/ IndexIncremental(w) \/ CompleteIndex(w)
  \/ Erase(w) \/ CompleteDelete(w)
  \/ RecordRetry(w) \/ FailIndex(w) \/ Exhaust(w) \/ FinishDelivery(w)

Failure(w) ==
  \/ \E j \in Jobs : PublishUnconfirmed(w, j)
  \/ MarkFails(w)
  \/ RebuildFails(w)
  \/ ClaimFails(w) \/ ReplaceFails(w) \/ IndexFails(w) \/ CompleteFails(w)
  \/ EraseFails(w) \/ CompleteDeleteFails(w)
  \/ FinishTwice(w) \/ SessionLost(w) \/ Crash(w)

Worker(w) == Publisher(w) \/ Startup(w) \/ Consume(w) \/ Handler(w) \/ Failure(w)

Broker == \E j \in Jobs, c \in Copies : RetryDue(j, c)

Next == API \/ Broker \/ RedisLost \/ \E w \in Workers : Worker(w)

Spec == Init /\ [][Next]_vars

\* The two goroutines of a worker, the publisher's and the consumer's, run
\* their loops for ever (supervised restarts included) and the broker's TTL
\* elapses; nobody has to send requests.
Fairness ==
  /\ WF_vars(Broker)
  /\ \A w \in Workers : /\ WF_vars(Publisher(w))
                        /\ WF_vars(Startup(w) \/ Consume(w) \/ Handler(w))

FairSpec == Spec /\ Fairness

-----------------------------------------------------------------------------
(***************************************************************************)
(* Properties.                                                             *)
(***************************************************************************)
\* The outbox keeps its promise: a job that is not finished still has its
\* event in the outbox or a message in a queue, in a handler or in the
\* dead-letter queue, whatever crashed and whatever answer was lost.
NoSilentLoss ==
  \A j \in Jobs : job[j] \in Pending =>
    outbox[j] = "pending" \/ \E c \in Copies : msg[j][c].at # "none"

\* CompleteIndex against AcceptVersion, retries and late deliveries: what a
\* reader is pointed at is completely indexed in MySQL, and after start-up
\* reconciliation, with one worker, all its chunks are in Redis.
ActiveIsServed ==
  \A d \in Docs : doc[d].status = "indexed" =>
    /\ ver[d][doc[d].current] = "indexed"
    /\ chunk[d][doc[d].current] = "indexed"
    /\ (\E w \in Workers : Serving(w)) => redis[d][doc[d].current] = "full"

\* A finished clean-up has left no chunk of a deleted document in Redis, not
\* even those of a candidate that failed half-way.
DeletedIsErased ==
  \A d \in Docs : doc[d].status = "deleted" /\ job[<<d, 0>>] = "completed" =>
    \A v \in Versions : redis[d][v] = "none"

\* A completed index job's version is the active one or was superseded.
CompletedIsVisible ==
  \A d \in Docs, v \in Versions : job[<<d, v>>] = "completed" => doc[d].current >= v

\* Versions that complete out of order never move the read alias backwards.
CurrentNeverRegresses ==
  [][\A d \in Docs : doc'[d].current >= doc[d].current]_vars

\* service.go: "Delete immediately removes the document from the MySQL
\* authority view" -- and it does not come back.
DeletedStaysDeleted ==
  [][\A d \in Docs : doc[d].status = "deleted" => doc'[d].status = "deleted"]_vars

\* The pipeline implements the documents that searches and uploads go by:
\* with one worker, whatever is retried, redelivered or lost, rows and chunks
\* change by the steps of IndexedDocuments only.
Index == INSTANCE IndexedDocuments WITH
  Documents <- Docs, document <- doc, version <- ver, redis <- Shown
IndexImplemented == Index!Spec

\* Once failures and requests have ended, every job is finished or its message
\* waits in the dead-letter queue for an operator, and it stays so: no late
\* duplicate wakes a job up for good.
EventuallySettledOrDead ==
  <>[](\A j \in Jobs : job[j] \in Pending => \E c \in Copies : msg[j][c].at = "dead")

=============================================================================
