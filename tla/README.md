# Verification of GopherAI

GopherAI is a Go service (chat, retrieval over the user's documents, an incident
diagnosis assistant with governed tools, offline and online evaluation) on MySQL,
Redis and RabbitMQ. This directory holds TLA+ models of the parts whose
correctness depends on the order in which several actors act, the TLC
configurations that check them on small instances, and proofs, checked by TLAPS,
that the central invariants hold for every value of the constants.

    tlc -workers 2 -config KIVersions.cfg MCKnowledgeIndex     # a model-checking run
    tlapm KnowledgeIndexProofs.tla                              # a proof

`PROJECT.json` lists the components, runs, hazards, findings and theorems, and maps
every definition that models code to its source lines.

1. [The system](#the-system): inventory of the components
2. [The modules](#the-modules): what is modelled and how it corresponds to the code
3. [The runs](#the-runs): what TLC checks, bounds, fairness
4. [The proofs](#the-proofs): what holds for every instance and why
5. [Findings](#findings): where the code and its promises part
6. [Not modelled](#not-modelled) and the [plan](#plan)

## The system

Three processes share the databases: the API service (`src/main.go`), one or more
index workers (`src/cmd/index-worker`), and the front-end gateway (stateless, serving a
Vue client). MySQL is the authority for everything; Redis holds rebuildable projections: the
knowledge chunks with their vectors, the confirmed incidents, the newest messages of each session. RabbitMQ
carries three kinds of jobs, each behind an outbox table: indexing of documents, online evaluation
and indexing of confirmed incidents. (A fourth queue, of chat messages, is set up at start-up and
used by nothing: messages are stored before they are remembered.)

### Knowledge indexing (`internal/knowledge`, `internal/platform/jobqueue`, `cmd/index-worker`)

*State.* In MySQL: documents (status, active version), versions (status), chunk rows
(`index_status`), jobs, outbox events. In RabbitMQ: the main, retry (TTL) and
dead-letter queues. In Redis: one key per chunk. In the worker: the delivery it
handles.
*Operations.* `Accept`, `AcceptVersion`, `Rebuild`, `CreateDelete` (API);
`PublishAvailable`, `MarkOutboxPublished` (publisher); `ClaimIndexJob`,
`ReplaceChunks`, `IndexIncremental`, `CompleteIndex`, `FailIndex`, the same for
deletes, `Exhaust` (consumer); `RehydrateActiveProjection` (start-up).
*Interactions.* A transaction writes the job and its event; the publisher moves
events to the broker at least once; the consumer handles a message and
acknowledges it, or publishes a copy to the retry or dead-letter queue first.
*Hard.* Duplicates; the commit whose answer is lost; a crash between any two external
calls; versions that complete out of order; deletion against late failures; Redis
writes that stop half-way; stale reads at start-up.
*Correct when* no job is lost, the active version is completely indexed and is
served, the alias never moves back, a deleted document is gone and stays gone, every
job ends or waits in the dead-letter queue.

### Uploads and grounded answers (`internal/knowledge/service.go`, `internal/rag`, `internal/agent/knowledge`)

*State.* Artifact files on disk; the unique content hash of a tenant's documents. A question
keeps nothing beyond its request.
*Operations.* `Accept`, `AcceptVersion`, `Rebuild`, `Delete` with their files and look-ups; a question
by the fast, the parent or the deep strategy: `Search` (Redis, then the authority in MySQL), rewrite, merge,
rerank, `EvidenceGate`, generation and its verification, fallback.
*Interactions.* Uploads race with each other and with the worker's promotions; a question reads in
several steps what both of them change.
*Hard.* Files and rows are not one transaction; two uploads of one content; a content that returns
after its deletion; a version promoted between two searches of one question.
*Correct when* no row points to a missing file, no file is left behind, and an answer rests on content that was
active while the question was answered and does not choose silently between two values.

### Governed tool runtime (`internal/toolruntime`)

*State.* The result cache with its stale-if-error window, one circuit breaker per
tool, both in memory behind mutexes; per call: attempt, contexts, stale candidate.
*Operations.* `Runtime.Invoke` and the breaker's `allow`, `success`, `failure`.
*Hard.* Calls that were admitted in one breaker state and return in another; the
half-open probe that is cancelled; a deadline of the caller against the tool's;
cache entries that age while a call runs.
*Correct when* a half-open circuit lets one probe through, counter and state agree,
only a probe closes the circuit, stale data is bounded.

### Durable diagnostic runs (`internal/harness`, `internal/diagnostic`, `controller/agentrun`)

*State.* One row per run (state, `state_version`, budget, deadline, last command),
checkpoints, steps; in memory the map of running contexts.
*Operations.* `Workflow.Start`, `Resume`, `Cancel`, `execute`; `Service.Get`,
`Advance`, `cancel`; `TransitionCAS`.
*Interactions.* Every HTTP request is a goroutine that reads the row, computes, and
compares and swaps on state and version; a cancel request also cancels the context
of a running request.
*Hard.* Repeated starts and resumes, cancellation racing completion, results computed
from an older version, clients that leave, the deadline against the user's pauses.
*Correct when* the row follows the lifecycle of `domain.go`, a command is applied once,
an acknowledged cancellation is final, pauses are free, racing requests do not all give up,
no run is abandoned, and the answer belongs to the latest context.

### Metric windows and incidents (`internal/observability`, `internal/controlwebhook`)

*State.* In MySQL: the points of each series in batches, one incident per metric and strategy
(status, severity, last batch, recovery streak), the delivery queue (status, attempt,
lease), the receiver's receipts. In memory: the batch a reconciler works through with its verdicts, the
delivery a dispatcher has claimed.
*Operations.* `Capture` (the sampler); `LatestProductionAnalysis`, `AnalyzeMetricWindow` and `ApplyCandidate`
(the reconciler); `ClaimAvailable`, `deliver`, `MarkDelivered`, `MarkRetry`, `MarkDead` (the dispatcher);
`StoreReceipt`; `EnqueueAcceptanceDelivery`.
*Interactions.* Sampler, reconciler and dispatcher are loops of their own that meet in the
database only; a delivery is an HTTP post to the receiver, in the same process as deployed.
*Hard.* Points that are missing, thin, or newer than the batch they are read with; leases that end while the dispatcher
still posts, lost answers, marks that fail, batches read twice, incidents that reopen while their old events are under way.
*Correct when* an incident is resolved by recovered values and never by silence, the queue holds an event for
each opening and resolution, a delivered event was received, nothing final changes, attempts are bounded, every event ends.

### Catalogue: review, seal, rerun (`internal/catalogreview`, `catalogseal`, `catalogrerun`, `HumanReviewWorkbench.vue`)

*State.* An append-only table of review rows (revision per case and reviewer, idempotency key, hash chain); the directory of
immutable seals; per seal a lock file and run directories with plan, logs, checkpoints and result. In the browser: the
case shown, a draft decision, the acknowledgment, the key of the submission.
*Operations.* `Submit`, `MigrateLegacyReviews`; `Seal`; `Execute` and the offline verifier; the workbench's filter, page,
tick, submit.
*Hard.* A retry racing its original; a review that changes while the seal is written; a process that dies with
the lock or between a step and its checkpoint; steps whose logs fail; answers that come after the page has moved.
*Correct when* a decision is applied once, a seal is exactly what was approved as a whole, one process runs a seal's steps,
preserved evidence verifies, and a reviewer submits only what was acknowledged.

### Feedback loop (`internal/onlineeval`, `feedback`, `failurepool`, `incident`)

*State.* Samples of answers (pending, evaluating, completed, failed, dead), the observer's buffer, mining snapshots with clusters and
candidates, confirmed incidents with their projection in Redis; the outbox and two queues they share.
*Operations.* `Record`, `Submit` (a downvote), acceptance probes, `MarkEvaluating`, `Complete`, `Fail`, `MarkDead`, `PruneExpired`; `RunCycle`, `SaveSnapshot`,
`Materialize`; `Confirm`, projection and mark.
*Hard.* Doubled deliveries, claims taken over, a final mark that fails, windows mined before their samples are
judged, two operators confirming different hypotheses.
*Correct when* nothing open is left unattended, everything settles, clusters rest on verdicts, and what a client was told is stored.

### Chat (`common/aihelper`, `service/session`, `internal/memory`, `internal/profilememory`, chat strategies)

*State.* Per session the message table, the Redis list of the newest twenty, the helper's memory in the process;
per user the environment facts (candidate, active, conflicted, superseded, deleted).
*Operations.* Chat, streamed or not, knowledge exchange, the public view, the explicit rebuild; observe, correct,
delete, expire and recall of facts; the assembler of a prompt.
*Hard.* Requests of one session that load, store, push and remember side by side; lists that expire or miss a push; facts
that a later run contradicts.
*Correct when* a helper knows the recent messages, prompts keep to their budget, and only what the user confirmed, uncontradicted, is recalled.

### Collaboration supervisor (`internal/orchestration`, `controller/agentrun/collaboration_shadow.go`)

*State.* One run at a time: rounds, delegations, the bank of evidence, the audit trail.
*Operations.* A decision of the supervising model, parallel delegations, cleaning and admission of results, synthesis.
*Hard.* Results, deadline and caller's departure racing in one select; audits that fail after their agent succeeded; one source
found twice in parallel.
*Correct when* what an answer claims was earned and audited, re-found evidence is no progress, and the merged answer loses nothing admitted.

### The other components

| component | why it has no model of its own |
|---|---|
| Evolution control | requests for shadow or promotion only ever add a row that says blocked: no report the validator accepts is a production candidate |
| Routing policy | seeded once under a unique slot and cached; nothing activates another version |
| Fault campaign, control recommendation | one idempotent insert of a computed report |
| Performance runner, evaluation runners, judge calibration, RCA experiments, imports, audits | offline, sequential batch programs over recorded data |
| Observability metrics and dashboards | counters and definitions no control depends on |
| Parsing, intent, diagnosis rules, tools and their schemas | pure functions of one input |
| Controllers, router, DAOs, wiring, helpers | translate and store; the state changes are in the services |
| The other panels of the web client | show what the server answered |

## The modules

| module | what it is | theorems in |
|---|---|---|
| `KnowledgeIndex` | the indexing pipeline: API, publisher, broker, workers, failures | `KnowledgeIndexProofs` |
| `IndexedDocuments` | what searches and uploads go by, rows and visible chunks: the abstract specification that `KnowledgeIndex` and `DocumentUpload` both implement | `KnowledgeIndexProofs`, `AnswerProofs` |
| `DocumentUpload`, `GroundedAnswer` | files and rows of uploads; a question answered while documents change | `AnswerProofs` |
| `ToolCircuit` | concurrent invocations of one tool: cache, breaker, retries, deadlines | `ToolCircuitProofs` |
| `RunLifecycle`, `DiagnosticRun` | the lifecycle `domain.go` promises, and the requests that drive a run, which implement it | `DiagnosticRunProofs` |
| `ControlWebhook`, `MetricDetection` | incidents under any verdict, their delivery queue, dispatchers and receiver; the same with sampler and detector, which implements it | `ControlWebhookProofs` |
| `CatalogReview`, `CatalogSeal`, `CatalogRerun`, `Catalog` | the review table, the seals, the reruns, and the three side by side | `CatalogProofs` |
| `ReviewWorkbench` | browser tabs over `CatalogReview`, whose sessions they are | `CatalogProofs` |
| `JobDelivery`, `OnlineEvaluation`, `FailurePool`, `IncidentMemory`, `FeedbackLoop` | outbox and broker; samples; the slow loop over them; confirmed incidents; all of them over one worker | `FeedbackProofs` |
| `WorkingMemory`, `ProfileMemory`, `ChatSession` | the messages of a session in MySQL and Redis; a user's facts; the requests of one session over both | `AssistantProofs` |
| `Collaboration` | one supervised collaboration after the other | `AssistantProofs` |
| `MCKnowledgeIndex`, `MCGroundedAnswer`, `MCToolCircuit`, `MCDiagnosticRun`, `MCControlWebhook`, `MCCatalog`, `MCReviewWorkbench`, `MCFeedback`, `MCChat`, `MCCollaboration` | values for TLC | |

The definitions carry the names of the Go functions they translate. A definition
whose comment begins with "Mutated form of" is not part of a model: it is a bug that
could plausibly have been written there, and substituting it for the original must
break the property that is meant to catch it.

### KnowledgeIndex

| variable | code |
|---|---|
| `doc`, `ver`, `chunk` | `knowledge_documents`, `knowledge_document_versions`, the `index_status` of a version's `knowledge_chunks` |
| `job`, `outbox` | `knowledge_jobs`, `outbox_events`; job `<<d, v>>` indexes version `v`, `<<d, 0>>` deletes `d` |
| `msg` | physical messages: at most `MaxCopies` of one event, each in the main, retry or dead-letter queue, or held unacknowledged by a worker |
| `redis` | a version's chunk keys: none, a part, all |
| `pc`, `held`, `act`, `ids` | a worker: its next external call, its delivery, the action it chose, the chunk list it read |
| `marking` | the publisher's event between the confirmation and `MarkOutboxPublished` |

A MySQL transaction is one action (InnoDB's row locks make it one: every transaction
here locks the document or the job it changes). Each external call of
`Processor.Process` is one action, so that every interleaving and every crash
between two calls is a behaviour. Each call has a failing twin (`ClaimFails`, `ReplaceFails`, `CompleteFails`, ...)
that, for a transaction, may have committed: the answer is lost (`Exhaust` has both in one action; where a failed write of a status
leads where a successful one does, the lost answer is the success). `FinishTwice` is a
retry or dead-letter copy whose original was not acknowledged. `SessionLost` and `Crash`
requeue what was not acknowledged.

Abstracted: contents, hashes, parsing (accepted or rejected: `BadContent`), vectors,
tenants, the batch order of the publisher, the back-off of events (an event is
published whenever it is pending), which chunk of a partly written version is missing.
In `Rebuild`, the status is read before the transaction; a candidate staged after the
status changed is an `AcceptVersion` step. `Redis` loses its data only while no worker
runs: the running worker does not notice a loss, and start-up reconciliation is what
the code has against it.

### IndexedDocuments

The pipeline without its machinery: `document`, `version` and the chunks a search may find (`redis`), and what requests and worker
may do to them: upload, stage, delete; claim, project, complete, record a failure (late, over anything), erase, complete the delete; prune,
restore, lose. `KnowledgeIndex` implements it with one worker (`Shown` are the chunks that are wholly in Redis; a message, a
retry or a crash is a stutter). `DocumentUpload` implements it, so that uploads and questions run against a worker
which may do no more than these steps, and the steps are those the detailed pipeline is proved to take.

### ToolCircuit

`state`, `failures`, `openedAt` and `probeInFlight` are the breaker's fields; `cache`
keeps the time an entry expires (its value does not matter, its age does). One action
per use of a mutex. The clock advances only while every active call executes the tool
and its context has not ended: everything else in `Invoke` takes no time, but all its
interleavings at one instant are explored. The tool is the environment: it returns
anything at any time, at the latest when its context ends (`ReturnError`,
`ReturnCancelled`). The gates before the cache (registration, schema, permission,
budget) keep no shared state and are left out. `ToolAssumption` includes
`Timeout < CircuitOpen`: every registered definition satisfies it, `validateDefinition`
does not ask for it, and `OneProbe` fails without it.

### RunLifecycle and DiagnosticRun

`RunLifecycle` is the table of `domain.go`: a state moves along the allowed
transitions, one version at a time, within the iteration budget. `DiagnosticRun` has
the requests: each is at a step (`pc`) of `Workflow.Start`, `Resume`, `Cancel` or
`execute`, with what it read (`seen`), its analysis (`own`, the generation of the
context it was computed from) and its position among the four blocks of `execute`
(`block`). `Advance` reads the row and swaps on the state and version it read; nothing
can have changed when the swap succeeds, so it is one action, and the swap that fails is a conflict (`AdvanceRefused`). A resume that finds its
command applied is answered as replayed, or, when it had read the row before that, as a conflict (`ResumeReplayed`); `Get` is two reads and two
actions. `running` is the process's map of contexts, `gone` a context that ended, by
the client leaving (`Disconnect`) or by a cancel request (`Acknowledge`). Some
variables are history, read by properties only: `contexts`, `applied`, `waited`,
`acked`.

Abstracted: checkpoint contents, the step list, token, tool and cost budgets (they are
compared exactly as iterations are), the no-progress guard (`Workflow` never repeats a
signature). One API process is assumed for `running`, as deployed; the row itself would
not care.

### ControlWebhook and MetricDetection

`latest` is the newest batch of `metric_window_snapshots`, `snapshot` the batch the
reconciler read and the series it has not applied yet; `incident`, `delivery` and `receipts`
are the tables, `claim` what a dispatcher holds between `ClaimAvailable` and its mark, with
the answer it has heard. `enabled` is chosen once, as the configuration is: without webhooks
incidents are reconciled and queued all the same, but nothing is delivered. An event id
is a hash of key, type and batch and is modelled as these three, so two ids are equal exactly when
their hashes' inputs are. A transaction is one action (`ApplyCandidate` locks the incident,
`ClaimAvailable` the delivery).

`MetricDetection` adds the `points` of each series, which series the latest batch has a value of (`observed`), and the
reconciler's `analysis`. `LatestProductionAnalysis` reads the latest batch and then, series by series, the recent points,
which may be newer than the batch: two reads, two steps, with the sampler in between. `AnalyzeMetricWindow` is translated whole:
population, minimum window, thresholds over the consecutive points, and the z-score, which is compared in integers by squaring
(no root, no quotient). `heard` is history: how many points were behind the last anomaly applied.

Time is abstracted to what it decides: an incident's cooldown may or may not be over, and a back-off or a
lease may have ended, whenever it is asked. So a lease may end while its owner is still posting,
which the configuration makes unlikely (10 s against a time-out of 3 s) and not impossible, and every
behaviour the clock allows is among the model's. `main.go` starts one reconciler and at most
one dispatcher; the number of dispatchers is a parameter because lock and lease are written for several.
The receiver is the loopback one of the default configuration; in the mode `external_https` (`config.go:65`) the receipts are
another system's, and what is said of them is not. In `ControlWebhook` the detector's verdict is any verdict; in `MetricDetection` it is computed, and theorem `DetectorImplements` says
that the second is a case of the first. A post reaches `StoreReceipt` or does not; signature,
time window and payload checks are one of the reasons why not. Retention (seven days) and changes of the
recording rules are left out.

### CatalogReview, CatalogSeal, CatalogRerun, Catalog

`rows` is the review table in the order of insertion, `request` what a session's transaction is about to insert: the key is looked up
in the snapshot, before the lock, so look-up and insert are two steps. `started` is the migration at start-up, which upgrades a row of
an older schema. Hashes stand for what they hash: a row's by the schema it was computed with, a seal's name by the reviewer and the set
of rows. `sealing` is the set a session writes from memory, `seals` the renamed directories. `locks`, `runs` and `exec` are lock files, run
directories and the processes; `abandoned` (history) are the locks of dead processes. `writeExclusive` is two actions for each file: `CreateFile`, and a
write (`WritePlan`, `SaveCheckpoint`, `CloseReport`, `WriteResult`) that leaves the whole of the file or the part that was there, and whose writer
is told of a success or of an error, or dies. `part` is the file of a directory that is not whole. What the code can read (all but the last newline) is whole.
`Validates` is the verifier, `StatusOf` the inspector, which looks for the lock, then for a `result.json`, then at its content.

### ReviewWorkbench

A session of `CatalogReview` is a browser tab: `filter`, `page`, `shown`, `decision`, `ticked`, `key` are the component's refs, `loading` the list
it awaits with who asked for it, `post` the submission and `posted` its body, `resets` the reads after which the draft is reset. Every `await` is a
point where the other tab acts, and the reviewer: only the button waits for a post, so decision, box, pages, filters and the refresh may change while it is
under way; while a list loads the case is hidden, the filters are not, and a second load is passed over (`loadCatalog` returns at once). A submission may succeed, conflict, fail or lose its answer after
the commit; a connection that ends earlier ends the request's context, so a transaction is over before its submission is sent again. A replay is
recognised by its key and refused unless its request is the stored one (`Replays`). `vouched` and `confirmed` are history: the case on the screen when
the box was ticked, now and at the last post.

### JobDelivery, OnlineEvaluation, FailurePool, IncidentMemory, FeedbackLoop

`queue` is a bag of messages by job and attempt, main and retry queue together (they differ in the time of delivery only); `hand` is each
consumer's delivery with its next external call; `outbox` the event's status; `begun` is history. Lost answers, failing statements,
crashes and doubled deliveries draw on one budget, `faults`. `sample` is a row's status or its place in the observer's buffer, `low` the
judge's verdict. `mined` is what a miner classified in memory; `pool` and `candidates` are its tables, a snapshot identified by its samples
as the input hash is. `incident`, `projected` and `asking` are the table, Redis and the clients' requests between check and insert; `told` is history.
`FeedbackLoop` interleaves them; they meet in the outbox, the samples and the consumers.

### WorkingMemory, ProfileMemory, ChatSession

A message is its position in the table (`stored`), `cache` the Redis list; `rows` the fact rows of one user, one transaction each. `helper` is
the process's memory of the session; `call` the requests at work, each with what it read. A step is one external call or one use of
the helper's mutex: the question is stored, pushed, remembered, the prompt assembled, the model asked, the answer stored. Restart, eviction,
lost pushes and departing clients are faults. `exact` is history: the helper was filled from a list without gaps. Structured
summaries are empty on every path and left out; token counts are a cost per kind of message.

### Collaboration

`tasks` are the delegations of the current run with their results, `bank` the evidence on offer, `recorded` what the audit holds. An item's identity is
the one `namespaceTask` gave it, `<<delegation, source>>`. A delegation's objective stands for its words and for its list of evidence with what is
repeated in it, both of which `DelegationKey` hashes: equal keys are equal objectives on equal evidence. An item's text is how many times cleaning has changed it, so that cleaning twice is visible.
Results of one round arrive in any order, with the deadline and the caller's departure among them; `ended` is the context.

### DocumentUpload and GroundedAnswer

`document` and `version` are the tables with their hashes, `files` the artifacts by directory and writer, `client` the requests with their next
step; the worker is abstracted to the steps of `IndexedDocuments`, which `KnowledgeIndex` implements: claims and repeated claims, projection, promotion with
the look-up of the content's hash, failures however late, clean-up, start-up, loss of Redis. A question may search Redis or, without it, by keyword in MySQL. `lost` is history: commits
whose answer was lost. A content is cut into chunks (`TextsOf`), each of which states values of the fact asked for (`ValuesIn`); a source is a version, as in
`conflict_detector.go`, so two chunks of one source may state two values and the question is answered. A starting worker prunes and
writes again by a list it read some time before, as in `IndexedDocuments`. `question`, `found`, `hits` and `counted` are one question's progress, its candidates from Redis, its evidence and
what the diagnostics counted. Scores, queries and what a model returns are arbitrary within what the code accepts; `served` (history) are the chunks
that were active since the question was asked.

## The runs

| run | configuration | shows |
|---|---|---|
| `ki_versions` | 1 worker, 1 document, 3 versions of which the third cannot be parsed, 2 attempts, 2 failures, fair | `ActiveIsServed`, `DeletedIsErased`, `CurrentNeverRegresses`, `IndexImplemented`, `EventuallySettledOrDead` |
| `ki_two_workers` | 2 workers, 1 version and the delete, 2 attempts, 1 failure, fair | `NoSilentLoss`, `EventuallySettledOrDead` |
| `ki_deleted_returns` | 1 version, 3 attempts, 1 failure | `DeletedStaysDeleted` is violated (finding 1) |
| `answers` | 2 documents (one may be stored from former days), 2 versions, 2 contents: one chunk with one value, and two chunks with two; 2 upload requests and a question of 2 searches, 1 fault, 2 hits | `ArtifactsKept`, `NothingLeaks`, `FoundOnce`, `EvidenceWasActive`, `ResolvedIsUncontradicted` |
| `tool_breaker` | 3 calls of one cache key, threshold 2, open window 2, timeout 1, clock to 4 | `OneProbe`, `ThresholdKept`, `StaleIsBounded` |
| `run_requests` | 2 requests, 2 resume commands, 5 iterations, timeout 1, clock to 2, 1 fault | `ResumeAppliesOnce`, `AckedIsOver`, `PausesAreFree`, `NobodyGivesUp`, `LifecycleKept` |
| `webhook_delivery` | 1 series; 7 batches without webhooks, windows of 2 points, or 2 acceptance events, 2 dispatchers, 3 attempts and 1 fault with them; fair | `QueueTellsIncident`, `DeliveredIsReceived`, `AttemptsBounded`, `SilenceIsNotRecovery`, `FinalIsFinal`, `EverythingEnds` |
| `catalog` | 2 cases, 2 sessions of one reviewer, 3 keys, 3 rows, 2 processes, 2 steps of which one has a gate, 1 run | `ReviewsApplyOnce`, `SealWasApproved`, `LockHasOneHolder`, `EvidenceValidates` |
| `review_workbench` | 2 tabs of one reviewer, 2 cases, 3 keys, 3 rows | `EachCaseIsAcknowledged` is violated (finding 8) |
| `feedback` | 3 samples (traffic, downvote, acceptance), 1 incident, 2 consumers per queue, 2 attempts, 3 faults, 1 miner with 2 cycles, 2 clients with 2 keys and 2 hypotheses; fair | `NothingStranded`, `MinedIsFinal`, `ConfirmedIsStored`, `WorkSettles` |
| `chat` | 3 requests or profile operations, 2 at a time, windows of 3 messages, prompts of 5 tokens, 1 fact with 2 values and 2 runs, 4 rows, 2 faults | `RecallIsConfirmed`, `NothingForgotten`, `PromptWithinBudget` |
| `collaboration` | 4 rounds, 3 delegations; a plain document, one that cleaning changes, one it empties, and a signal | `AnswerIsEarned`, `EvidenceCountedOnce`, `AdmittedIsAnswered` |

*Bounds, and why they are enough.*
- `ki_*`: documents are independent: no transaction, message or Redis key concerns two of them,
  so one document shows what many do (start-up reads all, but handles each by itself).
  Three versions are needed for an old one to finish after two newer ones in both orders;
  two failures exhaust the budget of two attempts, one of them can be a crash, and one fails the record of the version that cannot be parsed (finding 2).
  That `Exhaust` fails as well needs a third failure, more than the run has; it is one more retry. `MaxCopies` is
  larger than the number of messages that can exist at once (`EnoughCopies`), so the bound on
  copies never disables an action.
  A second worker matters for what one worker cannot interleave: two publishers of one event,
  two handlers of duplicates. `ActiveIsServed` and `DeletedIsErased` are checked with one worker, as deployed. With two
  neither holds: a starting worker prunes by a list it read before the other indexed, and projects a version that the other is
  cleaning up. Nothing in the repository promises otherwise, so it is noted as a hazard and not as a finding.
- `answers`: two documents are the least that can collide in a content and contradict each other, two versions the least
  that can meet in one question. The loss of a commit's answer, a failed write, a late failure and a crash each need one fault; none of the properties
  needs two. One content states what the other does and something else besides, in another chunk, so that evidence may disagree within a source,
  between sources, in both ways or not at all. A deep question searches twice (`DeepMaxRetrievalQueries`, 3 in the code: a third search merges
  into what it finds as the second does). With two hits the second search finds more than is asked for, and two sources can meet; the limits of chunks
  per document and parent need more hits to bite and are only proved about. A content that states nothing only makes answers easier to agree.
- `tool_breaker`: three calls are the smallest number at which a late answer, the probe and a newcomer exist together.
  The clock reaches 4 so that the circuit opens, half-opens, opens again and half-opens again.
- `run_requests`: five iterations allow a command to be applied a second time, which must not
  happen: with fewer the budget would hide it; a second command comes between the first and its repetition. The clock lets a
  pause be as long as the timeout and the deadline pass after it; the fault is anywhere, and behaviours without it are those `NobodyGivesUp` is about.
- `webhook_delivery`: the two halves are explored apart, because they share nothing but the queue's inserts. Seven batches let an
  incident open at the second, resolve, reopen and resolve again. A value is critical, fine or better still; a point may also be thin (too few
  requests) or missing. With windows of two points the z-score decides from the fourth on. With webhooks enabled
  two queued events are enough for two dispatchers to work on one event or on two, and three attempts (the deployed
  maximum) to be exceeded. Events do not otherwise depend on each other, and incidents not at all.
- `catalog`: three rows let a decision be revised between another session's look-up and insert, and a case be rejected, or approved
  again, after all were approved; for that a client expects revision 0 or 1 (`MaxExpected`), which may be gone or not there yet. Two steps
  are the least with a first, a last and a boundary between them, so that every file of a directory can be the one that is not whole; one run directory
  is enough for two processes to race for the lock, because a run never looks at another but for the newest.
- `review_workbench`: a conflict and a following case, nothing more.
- `feedback`: one job begins in a behaviour (`MaxJobs`), because no two jobs share a row; the samples differ in where they come from and hence in which step
  may begin them. Three faults exceed two attempts, so that a give-up can fail too.
- `chat`: windows of three messages are smaller than two exchanges, so that something falls out; a budget of five tokens cannot hold all of a window.
- `collaboration`: three delegations over four rounds allow two in parallel and a third after them, or a round without any, and every limit
  (rounds, delegations, strikes) to be what ends the run; it is checked for deadlock.
- Symmetry is used in runs without liveness only, of values no definition tells apart.
- `CHECK_DEADLOCK FALSE` where nobody has to send a request and the bounded clock, rows and faults may be
  used up; `ToolCircuit` and `Collaboration` cannot stop and are checked for deadlock.

*Fairness.* `KnowledgeIndex` (both runs): weak fairness of the broker's TTL and, per worker, of its
publisher and of its consumer (start-up, consuming and handling are one goroutine): each loops
for ever and is restarted by its supervisor. Failures and requests are not fair and are bounded;
liveness is thus "once failures and requests have ended". `ControlWebhook`: weak fairness of each dispatcher's next step
(`Run` polls for ever, and a restarted process polls again); batches, faults and the reconciler are not fair. That an expired lease
is taken over follows from polling, because time passes. `FeedbackLoop`: weak fairness of the worker's steps taken together
(`WorkerStep`): the publisher's timer, the broker and the consumers, whose sessions are re-established every three seconds for ever; nothing says
which of them goes next.

## The proofs

TLAPS proves, for any number of documents, versions, workers, calls, requests,
commands, series, dispatchers, cases, sessions, samples, incidents, handlers, facts, rows, sources and rounds,
and any values of the bounds that satisfy the named assumptions:

| module | theorem | statement |
|---|---|---|
| `KnowledgeIndexProofs` | `TypeCorrect` | `Spec => []TypeOK` |
| | `NothingLost` | `Spec => []NoSilentLoss` |
| | `CompletedVisible` | `Spec => []CompletedIsVisible` |
| | `NeverRegresses` | `Spec => CurrentNeverRegresses` |
| | `ServedByOne`, `ErasedByOne` | with one worker (`OneWorker`), `Spec => []` `ActiveIsServed`, `DeletedIsErased` |
| | `ImplementsIndex` | with one worker, `Spec => IndexImplemented`, the refinement of `IndexedDocuments` |
| `AnswerProofs` | `FilesFollowRows`, `NoFileIsLeft`, `ContentsAreFoundOnce` | `UploadSpec => []` `ArtifactsKept`, `NothingLeaks`, `FoundOnce` |
| | `UploadsImplementIndex` | `UploadSpec => IndexImplemented`, the refinement of `IndexedDocuments` |
| | `AnswersOnUploads` | `Spec => UploadSpec`: all of this holds while questions are answered |
| | `AnswerTypeCorrect`, `EvidenceIsActive` | `Spec => []` `AnswerTypeOK`, `EvidenceWasActive` |
| | `ContentIsImmutable` | `Spec => [][ContentKept]_vars`: a stored version keeps its content and file |
| | `ResolvedUncontradicted` | `Spec => ResolvedIsUncontradicted` |
| `ToolCircuitProofs` | `TypeCorrect`, `ProbeIsAlone`, `ThresholdAlways`, `BoundedStaleness` | `Spec => []` `TypeOK`, `OneProbe`, `ThresholdKept`, `StaleIsBounded` |
| `DiagnosticRunProofs` | `TypeCorrect`, `AppliedOnce`, `PausesAlwaysFree`, `AckedStaysOver` | `Spec => []` `TypeOK`, `ResumeAppliesOnce`, `PausesAreFree`, `AckedIsOver` |
| | `SomebodyCarriesOn` | `Spec => []NobodyGivesUp` |
| | `ImplementsLifecycle` | `Spec => LifecycleKept`, the refinement of `RunLifecycle` |
| `ControlWebhookProofs` | `TypeCorrect`, `QueueIsHistory`, `DeliveredWasReceived` | `Spec => []` `TypeOK`, `QueueTellsIncident`, `DeliveredIsReceived` |
| | `AttemptsLimited` | `Spec => []AttemptsBounded`, for any number of dispatchers |
| | `FinalStays` | `Spec => FinalIsFinal` |
| | `DetectorImplements` | `DetectionSpec => Spec`, the refinement |
| | `SilenceNeverRecovers` | `DetectionSpec => []SilenceIsNotRecovery` |
| `CatalogProofs` | `CatalogTypes`, `DecisionsApplyOnce`, `SealsWereApproved`, `LocksHaveOneHolder`, `EvidenceIsValid` | `CatalogSpec => []` `CatalogTypeOK`, `ReviewsApplyOnce`, `SealWasApproved`, `LockHasOneHolder`, `EvidenceValidates` |
| | `TabsAreSessions` | `WorkbenchSpec => ReviewSpec`: the tabs implement the sessions of `CatalogReview` |
| | `TabsApplyOnce`, `SavedIsWhatWasSent` | `WorkbenchSpec => []` `ReviewsApplyOnce`, `SavedIsStored` |
| `FeedbackProofs` | `FeedbackTypes`, `WorkIsOnItsWay`, `SnapshotsRestOnVerdicts`, `ConfirmationsHold` | `FeedbackSpec => []` `FeedbackTypeOK`, `NothingStranded`, `MinedIsFinal`, `ConfirmedIsStored` |
| `AssistantProofs` | `ChatTypes`, `RecallConfirmed`, `NothingIsForgotten`, `PromptsWithinBudget` | `ChatSpec => []` `ChatTypeOK`, `RecallIsConfirmed`, `NothingForgotten`, `PromptWithinBudget` |
| | `CollaborationTypes`, `AnswersAreEarned`, `EvidenceIsCountedOnce`, `AnswersHoldAdmitted` | `CollaborationSpec => []` `CollaborationTypeOK`, `AnswerIsEarned`, `EvidenceCountedOnce`, `AdmittedIsAnswered` |

Type invariants are proved and therefore in no run.

*KnowledgeIndex* (`KIAssumption`: the bounds are naturals, at least one version, attempt
and copy, and `NoJob` is no job). `NoSilentLoss` is not inductive: a message that exists
may be about to be acknowledged, and an event marked published may be the last trace of
a job. The invariant adds `Holding` (a busy worker holds a message of a job of the kind
its step handles), `Recorded` (jobs, events, versions and documents exist
together), `Exclusive` (a handled message is held for exactly one worker) and `Covered`
(from the moment an event may be marked published, an unfinished job has a message
that is *carried*: queued, dead-lettered, or in a handler that has not decided to
acknowledge it). The delicate step is a handler that completes a job and decides to
acknowledge: the job is then no longer unfinished; and a second handler of a duplicate, which may
set a completed job back to retrying, still carries its own message. `OwnTables` is
the lemma that confines each handler step to its own job, version and document.

The second invariant, `AloneInv`, has `OneWorker` as a hypothesis: `README.md` and the deployment script start one index worker.
`Indexing` says that what a worker indexes has a job under way, rows before Redis and Redis before the completing transaction;
`Cleaning` that a clean-up read every row Redis may still show, and `Starting` that the list of a start-up covers what is active and contains
nothing erased. These are the statements a second worker breaks: its steps change the tables a list was read from. One worker's own
steps do not, and what the API does between them either adds nothing to Redis or takes the document out of the active ones. `Indexed`
(the active version's job is completed) keeps a retry from withdrawing what is served.

The refinement of `IndexedDocuments` rests on both and on `RowsInv`: a version's status follows from its job's (`VersionsFollowJobs`: what is indexed is
not claimed again, what is under way keeps its document from being deleted), a worker that replaces, projects or completes does so for a version that still says
"parsing" (`Parsed`), and what a starting worker read as active is still indexed when it writes it again (`ReadIndexed`). The delicate step is
the completion: the abstract one needs the chunks to be there, which `Indexing` provides. `OneWorker` is needed here too: a second worker may complete
or withdraw what the first has in hand.

*DocumentUpload, GroundedAnswer* (`UploadAssumption`, `AnswerAssumption`: there are finitely many documents). `ArtifactsKept` and `NothingLeaks`
concern files that no request remembers; `RequestOK` says at each step of an upload who else can know its file: until the creating
transaction the directory is its own (`Fresh`), afterwards a row has it, or nobody knows whether one has (`InDoubt`, the commit's answer was lost), and a version to
be added has its own file or shares a stored one (`VersionStep`). The delicate step is the undo of a failed creation: it removes the file although the
commit may have happened, and only what is in doubt can lose its file so. Above it stands the question: `Asking` counts searches, hits and
attempts, `HitsStored` and `ContentIsImmutable` let evidence stand while its document is replaced or deleted, and `GateHolds` carries the gate's verdict to
the answer: `NoConflict` says that a gate which counts the sources and the values of the evidence lets no two sources state different ones (fewer than two
of either: `AtMostOne`), and says nothing of one source. `MergeSearchHits` keeps only what one of its arguments held (`HitsOf`), which needs no induction.

`FoundOnce` is not inductive: a promotion compares hashes of documents, not contents of versions. `HashInv` bridges the two: the hash of a document is the
content of its active version (`HashIsCurrent`), and no two documents have one hash (`HashesDiffer`, the unique index). The completion that cannot write
its hash (finding 18) leaves both as they were. The refinement of `IndexedDocuments` maps a row to its status and number (`ShownDocument`,
`ShownVersion`); `RequestImplements`, `IndexStepImplements`, `CleanupImplements` and `ProjectionImplements` take its steps one by one. What is proved of `UploadSpec` carries over to
`GroundedAnswer` through `AnswersOnUploads`, because a question changes nothing.

*ToolCircuit* (`ToolAssumption`). `OneProbe` rests on `Clock` and `Admitted`: a call that
executes was admitted with a deadline at most `Timeout` ahead and time does not pass a
deadline; when the window ends, every call admitted before the circuit opened has returned,
because `Timeout < CircuitOpen`; `Probing` ties `probeInFlight` to the call that is it.
`Candidates` dates a call's stale candidate.

*DiagnosticRun* (`DRAssumption`). `Exists` (before the run exists nothing of it does), `Stopping`
and `Resuming` (what a cancellation and a resume saw when they were let through),
`Once` (a command that was applied expects a version that is gone) and `Pauses` (the
deadline counts the pauses, the present one up to its beginning). The refinement proof
reduces every step to one of four moves of the row and shows each to be a creation, an
allowed transition or a stutter. For `NobodyGivesUp`, `Carried` says that an active run has a
*carrier*: a request that will still come to its block, and whose reading of the row is the
current one if it has read it. A step that makes a carrier's reading obsolete moved the run, and
whoever made it carries the run from there, or has taken it out of the active states; `Working` and `Dropped` say
in which steps a request can be, and that without faults only a finished run's context ends.

*ControlWebhook* (`WebhookAssumption`). `QueueTellsIncident` is not inductive: whether an opening is
counted depends on its id being new, which depends on the batches of the ids in the queue. `Ordered` says
of each incident that its events are of batches up to the last one applied to it, that the openings of a
resolved incident are of earlier ones, and that this last one is not newer than the reconciler's
(`SnapshotStored`). A batch applied to an active incident is newer, a resolution is thus new; an
opening is of the last batch at the earliest and the openings before it are of earlier ones.
Cardinalities of finite sets do the counting (`ToldAdds`, `OthersKept`). `DeliveredIsReceived` needs `Heard`: who
heard 200 has the receipt, and receipts are never removed. `AttemptsBounded` needs a count of overlapping claims without a history (`AttemptsFit`): an attempt
beyond the maximum is paid for by a fault, or by a late claim whose answer finds the row back in retry. Only a claim whose number was
below the maximum (`Early`) puts it there, none of these begins once the maximum is reached, and while `k` dispatchers hold none of them
at most `k` claims are `Late`; the sum of what can still be wasted is therefore at most `Pairs(k)`, and `k` only grows. That is where the quadratic
term of the bound comes from. For the detector (`DetectionAssumption`), every step of
`MetricDetection` is one of `ControlWebhook` or leaves its variables alone, and `SilenceIsNotRecovery` follows from
`Grounded` (a verdict in hand is the one its points have, and is about no fewer points than the last applied anomaly) and `Founded` (the points
behind that anomaly would have its verdict again): a healthy verdict is therefore about more points, and one of them is good.

*Catalog* (`ReviewAssumption`, `RerunAssumption`). Three invariants, each resting on those before it. `ReviewInv`: `ReviewsApplyOnce` is
inductive with the types. `SealInv`: what a session is about to seal was approved at some moment, and rows are only added after
the migration, so it still is (`ApprovalIsKept`). `RerunInv`: `RunsShaped` says what a run directory contains at each stage of
its writer, with one file at most that is there in part (`AtStage`), and what is left of it when the writer is gone: a result, whole or in part, only after
all other files (`Shaped`, `Written`). `ExecShaped` says what the writer knows of its directory, `ExecApart` that no two write the same, `HasNewest` that a seal with
runs has a newest; `EvidenceValidates` is then read off the shape. It does not say that a directory with a `result.json` verifies: a part of one does not, and the
status is then "invalid report" (`ErrInvalidReport`) until a newer run. What it says is that nothing but a whole result after whole checkpoints verifies.

*ReviewWorkbench* (`ReviewAssumption`). Every step of a tab is a step of its session or leaves the table alone (`WorkbenchSteps`), so `ReviewInv` is shared. `SavedIsStored`
says that what a tab reports as saved is stored as it was sent; what the tab shows by then may be another decision or another case. It is not inductive: `Posted` adds
that the transaction a tab waits for is about the body it sent (a retry under the same key may carry another decision, and is then no replay), and `RowsKeepSaying`
that neither the migration nor other inserts take a decision back.

*FeedbackLoop* (the assumptions of its four parts). `Bounded` limits a message's attempt by the allowed attempts and the failures so far, `Hands` ties a
handler to a job of its queue. Each layer has lemmas saying what a step of it keeps for those above (`Carries`, `Evolves`), so that a sample's proof
does not see the broker. The delicate step is again the one that finishes a message: it leaves a row that needs no other, and every other step keeps a
message or a pending event. `PoolInv` says of what a miner
holds in memory what `MinedIsFinal` says of the snapshots, `IncidentInv` of an index that is about to be marked that its key is in Redis.

*ChatSession* (`ProfileAssumption`). `RecallIsConfirmed` needs `ActiveIsAlone` (an active row is the only current one of its key) and
`ActiveIsConfirmed` (its value is what the user said last, expired or not): a conflict is found by looking for other current rows.
`NothingForgotten` says that a filled helper knows the newest messages, while a fill reads the newest id, the list and the rows in steps between which
others store. `MemoryInv` bridges them: `SinceKnown` (what was stored after a request read the newest id reached the helper without it, or will),
`HelperMade` (so there was a helper to reach), `WindowCompletes` (what it is about to adopt is what the helper lacks of the window), `ListsFit`.
`PromptWithinBudget` and the prompt's part of `ChatTypeOK` are about what the assembler computes: a fold over the messages and a choice of facts. `PromptsFine` says that
a chat which goes for its prompt finds a question in the helper (`HasQuestion`), so that the assembler always has one, and that each prompt was within the budget when it was
assembled, which no later message changes (`Grows`, `FineStays`). That the costs of messages add up (`CostOfOneMore`, `MessagesFit`) is induction over
numbers: the library's induction theorems cannot be instantiated, but a set of counterexamples has a least one (`Least`, from well-foundedness), and with it
`Iterated` shows that what is computed step by step exists.

*Collaboration* (`CollaborationAssumption`). The invariant follows a piece of evidence: `Texts` (what cleaning has made of it), `Origins` (in
an open round it is new under its own task, or the bank's under the bank's identity), `BankIsFunction` (one text per identity), `BankHoldsResults` (the bank
is what usable results of closed rounds cite), `Earned` (who found it succeeded and is in the audit), `Answers` (what is
served). `AdmittedIsAnswered` holds of texts that cleaning once makes clean; of the others it does not (finding 13).

*Only model-checked.* Liveness (`EventuallySettledOrDead`, `EverythingEnds`, `WorkSettles`): fairness and ENABLED are out of
the prover's reach. Every other invariant and action property of a passing run, and every refinement, is a theorem. Proved and in no run are the type invariants, `CompletedIsVisible`, `SavedIsStored`,
`ContentKept` and the refinements `UploadsImplementIndex`, `AnswersOnUploads`, `DetectorImplements` and `TabsAreSessions`. `DeletedStaysDeleted` and
`EachCaseIsAcknowledged` do not hold. The prover also lacks induction by a theorem with an operator parameter, and RECURSIVE operators; the
modules use none of the latter, and where the former is needed it is done by a least counterexample, as above.

## Findings

Two have a run whose counterexample shows them; the others were met while translating the code, and where a model contains
the behaviour, the definition is named. The promises are quoted in `PROJECT.json`.

1. **A deleted document returns** (`ki_deleted_returns`). `CompleteIndex` commits and its
   answer is lost; the user deletes the document; `RecordIndexRetry` writes "parsing" over
   "deleted" (`index_repository.go:291` does not look). The clean-up job then finds no deleted
   document and is dead-lettered.
2. **A job that never ends.** A rejected document whose `FailIndex` fails (`processor.go:218`)
   is dead-lettered without `Exhaust`: the job stays processing and the document can
   not be deleted, though the API asks the user to wait. `EventuallySettledOrDead` counts it as dead.
3. **The circuit closes without a probe** (`resilience.go:111`). A call admitted while the
   circuit was closed and succeeding after it opened closes it at once (`Success`).
4. **A cancelled probe blocks the tool** (`runtime.go:159`). Cancellation reports neither
   success nor failure; `probeInFlight` stays true for the life of the process (`ReturnCancelled`).
5. **A stale analysis is published** (`workflow.go:285`). A repeated start request that
   still runs writes its analysis of the first input over the one the user's answer
   produced.
6. **A disconnect leaves the run in the middle** (`workflow.go:250`). The context is looked at
   before an advance and in the analysis only; ending inside a statement, it leaves the run
   without an end, contrary to the deployment notes. `NobodyGivesUp` is about behaviours without it.
7. **An incident is resolved by a single good window** (`anomaly.go:132`). After breach, breach, good, breach the verdicts of the third and
   the fourth point are both healthy, and undecided batches do not interrupt the streak; the notes promise two consecutive
   healthy windows. `SilenceIsNotRecovery` is what does hold.
8. **An acknowledgment survives a conflict** (`review_workbench`). After a conflict the page loads the next case with
   the box ticked and the decision chosen (`HumanReviewWorkbench.vue:414`, likewise `AIChat.vue:4214`), and the button submits it. The refresh in the footer
   (line 492) loads the list and keeps the draft in the same way.
9. **A migrated review is refused** (`catalogreview/migration.go:42`). The upgrade does not write the request hash it recomputes,
   so `validateReview` refuses the row and with it the reviewer's workbench. `Migrated` models it, `MigratedWhole` is what the comment means.
10. **A judged window keeps its unjudged snapshot** (`failurepool/miner.go:62`). The input hash leaves statuses and scores out.
11. **A window with gaps is a hit** (`memory/service.go:64`). `Append` pushes to a list that expired or missed a message, and only
    the newest id is compared. `NothingForgotten` is about helpers that were filled from a list without gaps (`exact`).
12. **A chat asks another's question** (`aihelper.go:152`, `Prompt`). `buildContextMessages` takes the newest user message of the helper as the current question,
    and two requests of one session share the helper: both may ask, and recall by, the later question.
13. **Admitted evidence is lost in the answer** (`dynamic.go:375`). A handed-over item is cleaned a second time under its old identity; when that
    changes the text, the synthesis rejects both claims as a collision.
14. **The same source counts as new** (`dynamic.go:370`). Retrieved text is compared with the bank's before it is cleaned.
15. **"completed" without a delegation** (`executor.go:350`). No result out of none counts as all.
16. **A deleted content can never be uploaded again** (`repository.go:101`, `CreateCollides`). The look-up ignores deleted documents, the
    unique index does not.
17. **A lost commit answer removes the file** (`service.go:263`). The committed version then fails every attempt to read it. `ArtifactsKept` excepts
    these rows.
18. **Two documents promise one content** (`index_repository.go:329`, `Collides`). The later promotion can never commit.
19. **Support that was cut still counts** (`evidence_gate.go:66`, `Gate`). The gate accepts a single retriever's evidence because of counts
    from before the cut.
20. **The merged hits exceed their maximum** (`deep_retriever.go:174`). The stop compares for equality, and after appending.

Three observations contradict no promise. A decision that the reviewer changes while the post is under way is discarded without a word when it succeeds (`Decide`,
`Reset`), and a filter chosen while a list loads leaves the old filter's list on the screen (`Choose`). A part of `result.json` makes the status an error until a
newer run (`StatusOf`). And evidence in which one source states two values is not refused (`Conflicting`):
`TestDetectEvidenceConflictsIgnoresSameValueAndSameSource` wants it so.

One more divergence is in `ControlWebhook` without an entry of its own: `audit.go:21` promises at most
three attempts ("最多 3 次尝试"); a process that dies after its claim has used one that
nobody compares with the maximum, so `AttemptsBounded` has to add the faults, and overlapping leases, to the bound.

## Not modelled

The components of the last table of the inventory: sequential batch programs, pure functions, static data, and
single inserts. Within the modelled ones:

- the matching of the broker's confirmations to events by delivery tag, in the two publishers;
- tenants and effective dates (every query carries them; one tenant and one date are modelled), ranking and scores,
  which are arbitrary in the models;
- retention of metric windows and changes of the recording rules; metrics and logs everywhere;
- the seal panel and the judge's tab of the workbench;
- the conversation view `AIChat.vue`: its copies of the messages can be stale, or an answer written into another session, when the user switches
  sessions while history loads or an answer streams (`switchSession`, line 2977, `handleStreaming`, 3081, `handleNormal`, 3773). It makes a
  new `client_request_id` for each submission, so the server's idempotency never serves a retry of it.

## Plan

Done, most important first: the indexing pipeline has the most actors, the breaker the subtlest concurrency, the runs the most protocol,
the webhooks the leases; then what depends on them (uploads and answers on the indexing, detection on the incidents), the catalogue, the feedback loop with
its shared outbox, the chat's memories, the supervisor, and the browser's workbench. Of all of them the safety properties are proved, and the
uploads, the questions and the tabs are tied to the pipeline and the reviews by refinements.

Next:

1. Proofs: two index workers, with what can still be promised of Redis then; a stutter-free form of the refinements, for liveness.
2. `ConversationClient`: switches of session against loads and streams, over `ChatSession`.
3. `PublisherConfirm`: one channel's confirmations, refined by the publishing steps of `KnowledgeIndex` and `JobDelivery`.
4. Retention in `MetricDetection`; the seal panel in `ReviewWorkbench`.

Bounds: two actors and one or two entities each, one or two failures, as in the present runs.
