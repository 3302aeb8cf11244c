---------------------------- MODULE DocumentUpload ----------------------------
(***************************************************************************)
(* Accepting documents: an upload writes the artifact file, looks for its  *)
(* content among the tenant's documents, and commits its rows; a version   *)
(* of a document, a rebuild and a deletion likewise.  Files and rows are   *)
(* not one transaction, and requests for one content may run together.     *)
(*                                                                         *)
(* The index worker is abstracted to what KnowledgeIndex is shown to make  *)
(* of rows and chunks, the steps of IndexedDocuments: a version is claimed *)
(* and claimed again, projected into Redis and promoted; it fails, perhaps *)
(* when it has long been something else; Redis is lost, pruned and filled  *)
(* again.  A pair of a document and a version stands for the version's     *)
(* chunks, whichever of them are there; a content stands for its hash, too.*)
(***************************************************************************)
EXTENDS Naturals, FiniteSets

CONSTANTS Documents,   \* document ids, fresh for each upload
          MaxVersion,  \* bound: versions of a document
          Contents,    \* what a file may hold
          OldContent,  \* that of a document stored in former days
          Clients,     \* bound: requests
          NoContent,   \* the hash of a row that does not exist
          Earlier,     \* the requests of former days
          MaxFaults    \* bound: failures of the environment

ASSUME UploadAssumption ==
  /\ MaxVersion \in Nat /\ MaxVersion >= 1
  /\ MaxFaults \in Nat
  /\ OldContent \in Contents /\ NoContent \notin Contents /\ Earlier \notin Clients

VARIABLES document,  \* knowledge_documents: status, active version, hash
          version,   \* knowledge_document_versions and the status of their job
          files,     \* uploads/knowledge: <<directory, the request that wrote it>>
          redis,     \* the projected chunks
          client,    \* the requests
          lost,      \* history: requests whose commit was not acknowledged
          faults     \* failures so far

rows   == <<document, version>>
uploadVars == <<document, version, files, redis, client, lost, faults>>

Versions    == 1..MaxVersion
Chunks      == Documents \X Versions
DocStatus   == {"none", "uploaded", "parsing", "indexed", "failed", "deleted"}
NoDocument  == [status |-> "none", current |-> 0, hash |-> NoContent]
NoVersion   == [status |-> "none", content |-> NoContent, artifact |-> Earlier]
Steps == {"new", "lookup", "create", "undo", "again", "known", "owner", "stage", "done", "died"}

UploadTypeOK ==
  /\ document \in [Documents -> [status: DocStatus, current: 0..MaxVersion, hash: Contents \cup {NoContent}]]
  /\ version \in [Documents -> [Versions -> [status: DocStatus, content: Contents \cup {NoContent},
                                             artifact: Clients \cup {Earlier}]]]
  /\ files \subseteq Documents \X (Clients \cup {Earlier})
  /\ redis \subseteq Chunks
  /\ \A c \in Clients : client[c].step \in Steps
  /\ lost \subseteq Clients
  /\ faults \in 0..MaxFaults

Nothing == [step |-> "new"]

\* One document may be stored and indexed already.
UploadInit ==
  /\ \E stored \in {{}} \cup {{d} : d \in Documents} :
       /\ document = [d \in Documents |->
            IF d \in stored THEN [status |-> "indexed", current |-> 1, hash |-> OldContent] ELSE NoDocument]
       /\ version = [d \in Documents |-> [v \in Versions |->
            IF d \in stored /\ v = 1 THEN [status |-> "indexed", content |-> OldContent, artifact |-> Earlier]
                                   ELSE NoVersion]]
       /\ files = stored \X {Earlier} /\ redis = stored \X {1}
  /\ client = [c \in Clients |-> Nothing]
  /\ lost = {} /\ faults = 0

Fault == faults < MaxFaults /\ faults' = faults + 1

-----------------------------------------------------------------------------
(***************************************************************************)
(* Rows.                                                                   *)
(***************************************************************************)
Live(d) == document[d].status \notin {"none", "deleted"}

\* FindByContentHash: deleted documents do not count.
Holders(x) == {d \in Documents : Live(d) /\ document[d].hash = x}

\* uk_knowledge_documents_tenant_hash: deleted rows do count.
HashTaken(d, x) == \E e \in Documents \ {d} :
  document[e].status # "none" /\ document[e].hash = x

Holds(d, x) == Live(d) /\ \E v \in Versions : version[d][v].content = x

Pending(d) == \E v \in Versions : version[d][v].status \in {"uploaded", "parsing"}

IsNext(d, v) ==
  /\ version[d][v] = NoVersion
  /\ \A u \in Versions : u < v => version[d][u] # NoVersion

\* What FindAccessibleChunks and start-up take for current.
Active == {p \in Chunks : /\ document[p[1]].status = "indexed" /\ document[p[1]].current = p[2]
                          /\ version[p[1]][p[2]].status = "indexed"}

-----------------------------------------------------------------------------
(***************************************************************************)
(* Requests.                                                               *)
(***************************************************************************)
At(c, step)   == client[c].step = step
Doc(c)        == client[c].doc
Content(c)    == client[c].content
Artifact(c)   == client[c].artifact
Goto(c, step) == client' = [client EXCEPT ![c].step = step]
End(c)        == client' = [client EXCEPT ![c] = [step |-> "done"]]
Begin(c, step, d, x, a) ==
  At(c, "new") /\ client' = [client EXCEPT ![c] = [step |-> step, doc |-> d, content |-> x, artifact |-> a]]
Running(c)    == client[c].step \notin {"new", "done", "died"}

\* A fresh uuid names the document and its directory.
Unused(d) == /\ document[d] = NoDocument
             /\ \A f \in files : f[1] # d
             /\ \A c \in Clients : Running(c) => Doc(c) # d

\* Mutated form of Discard: the directory instead of the request's own file.
DiscardAll(c) == files' = {f \in files : f[1] # Doc(c)}

Discard(c)    == files' = files \ {<<Doc(c), c>>}
RemoveAll(c)  == files' = {f \in files : f[1] # Doc(c)}

Accept(c) ==
  /\ \E d \in Documents, x \in Contents :
       /\ Unused(d)
       /\ Begin(c, "lookup", d, x, c)
       /\ files' = files \cup {<<d, c>>}
  /\ UNCHANGED <<rows, redis, lost, faults>>

FindByContentHash(c) ==
  /\ At(c, "lookup")
  /\ IF Holders(Content(c)) = {} THEN Goto(c, "create") /\ UNCHANGED files
                                 ELSE End(c) /\ RemoveAll(c)
  /\ UNCHANGED <<rows, redis, lost, faults>>

LookupFails(c) ==
  /\ At(c, "lookup") /\ Fault
  /\ End(c) /\ RemoveAll(c)
  /\ UNCHANGED <<rows, redis, lost>>

\* Document, version 1, job and event commit together.
CommitUpload(c) ==
  /\ ~HashTaken(Doc(c), Content(c))
  /\ document' = [document EXCEPT ![Doc(c)] = [status |-> "uploaded", current |-> 1, hash |-> Content(c)]]
  /\ version' = [version EXCEPT ![Doc(c)][1] =
                   [status |-> "uploaded", content |-> Content(c), artifact |-> Artifact(c)]]

CreateUpload(c) ==
  /\ At(c, "create")
  /\ CommitUpload(c)
  /\ End(c)
  /\ UNCHANGED <<files, redis, lost, faults>>

CreateCollides(c) ==
  /\ At(c, "create") /\ HashTaken(Doc(c), Content(c))
  /\ Goto(c, "undo")
  /\ UNCHANGED <<rows, files, redis, lost, faults>>

\* The transaction fails, or commits and its answer is lost.
CreateFails(c) ==
  /\ At(c, "create") /\ Fault
  /\ \/ UNCHANGED <<rows, lost>>
     \/ CommitUpload(c) /\ lost' = lost \cup {c}
  /\ Goto(c, "undo")
  /\ UNCHANGED <<files, redis>>

\* Mutated form of Undo: the directory is kept.
UndoKeeps(c) ==
  /\ At(c, "undo") /\ Goto(c, "again")
  /\ UNCHANGED <<rows, files, redis, lost, faults>>

Undo(c) ==
  /\ At(c, "undo")
  /\ RemoveAll(c)
  /\ Goto(c, "again")
  /\ UNCHANGED <<rows, redis, lost, faults>>

\* Whoever else committed the content meanwhile is answered as the original;
\* if nobody did, or the lookup fails, the answer is an error.
FindOriginal(c) ==
  /\ At(c, "again")
  /\ End(c)
  /\ UNCHANGED faults \/ Fault
  /\ UNCHANGED <<rows, files, redis, lost>>

AcceptVersion(c) ==
  /\ \E d \in Documents, x \in Contents :
       /\ Live(d)
       /\ Begin(c, "known", d, x, c)
       /\ files' = files \cup {<<d, c>>}
  /\ UNCHANGED <<rows, redis, lost, faults>>

\* An older version, or one that failed, is a duplicate too.
FindVersionByContentHash(c) ==
  /\ At(c, "known")
  /\ IF Holds(Doc(c), Content(c)) THEN End(c) /\ Discard(c)
                                  ELSE Goto(c, "owner") /\ UNCHANGED files
  /\ UNCHANGED <<rows, redis, lost, faults>>

FindOwner(c) ==
  /\ At(c, "owner")
  /\ IF Holders(Content(c)) \ {Doc(c)} = {} THEN Goto(c, "stage") /\ UNCHANGED files
                                            ELSE End(c) /\ Discard(c)
  /\ UNCHANGED <<rows, redis, lost, faults>>

FindFails(c) ==
  /\ At(c, "known") \/ At(c, "owner")
  /\ Fault
  /\ End(c) /\ Discard(c)
  /\ UNCHANGED <<rows, redis, lost>>

\* The candidate shares the artifact of the active version.
Rebuild(c) ==
  /\ \E d \in Documents, v \in Versions :
       /\ <<d, v>> \in Active
       /\ <<d, version[d][v].artifact>> \in files
       /\ Begin(c, "stage", d, version[d][v].content, version[d][v].artifact)
  /\ UNCHANGED <<rows, files, redis, lost, faults>>

\* The number is read under the lock of a document that is not deleted.
CommitVersion(c) ==
  /\ Live(Doc(c))
  /\ \E v \in Versions :
       /\ IsNext(Doc(c), v)
       /\ version' = [version EXCEPT ![Doc(c)][v] =
                        [status |-> "uploaded", content |-> Content(c), artifact |-> Artifact(c)]]
  /\ UNCHANGED document

CreateVersionUpload(c) ==
  /\ At(c, "stage")
  /\ CommitVersion(c)
  /\ End(c)
  /\ UNCHANGED <<files, redis, lost, faults>>

VersionFails(c) ==
  /\ At(c, "stage")
  /\ \/ ~Live(Doc(c)) /\ UNCHANGED <<rows, lost, faults>>
     \/ Fault /\ UNCHANGED <<rows, lost>>
     \/ Fault /\ CommitVersion(c) /\ lost' = lost \cup {c}
  /\ End(c) /\ Discard(c)
  /\ UNCHANGED redis

\* The document must have no index work; its files stay.
CreateDelete(c) ==
  /\ \E d \in Documents :
       /\ Live(d) /\ ~Pending(d)
       /\ At(c, "new") /\ End(c)
       /\ document' = [document EXCEPT ![d].status = "deleted"]
  /\ UNCHANGED <<version, files, redis, lost, faults>>

\* The API process ends, and whatever it was doing with it.
ApiCrash ==
  /\ Fault
  /\ client' = [c \in Clients |-> IF Running(c) THEN [step |-> "died"] ELSE client[c]]
  /\ UNCHANGED <<rows, files, redis, lost>>

-----------------------------------------------------------------------------
(***************************************************************************)
(* The index worker.                                                       *)
(***************************************************************************)
SetVersion(d, v, s) == version' = [version EXCEPT ![d][v].status = s]
Shows(d, s)         == document' = [document EXCEPT ![d].status = s]
UnderWay(d, v)      == Live(d) /\ version[d][v].status = "parsing"
Readable(d, v)      == <<d, version[d][v].artifact>> \in files

\* A version that failed for good, or was cleaned up before its document came
\* back, is claimed by a second message only, which a failure left.
ClaimIndexJob(d, v) ==
  /\ Live(d)
  /\ \/ version[d][v].status \in {"uploaded", "parsing"} /\ UNCHANGED faults
     \/ version[d][v].status \in {"failed", "deleted"} /\ Fault
  /\ SetVersion(d, v, "parsing")
  /\ IF document[d].current = v /\ document[d].status # "indexed" THEN Shows(d, "parsing") ELSE UNCHANGED document
  /\ UNCHANGED <<files, redis, client, lost>>

Project(d, v) ==
  /\ UnderWay(d, v) /\ Readable(d, v)
  /\ redis' = redis \cup {<<d, v>>}
  /\ UNCHANGED <<rows, files, client, lost, faults>>

\* The hash of a version that becomes active must be free.
Promotes(d, v) == v >= document[d].current
Collides(d, v) == Promotes(d, v) /\ HashTaken(d, version[d][v].content)

\* Mutated form of CompletionUpdates: the hash stays that of the version before.
CompletionKeepsHash(d, v) == [status |-> "indexed", current |-> v, hash |-> document[d].hash]

CompletionUpdates(d, v) == [status |-> "indexed", current |-> v, hash |-> version[d][v].content]

CompleteIndex(d, v) ==
  /\ UnderWay(d, v) /\ <<d, v>> \in redis /\ ~Collides(d, v)
  /\ SetVersion(d, v, "indexed")
  /\ document' = IF Promotes(d, v) THEN [document EXCEPT ![d] = CompletionUpdates(d, v)] ELSE document
  /\ UNCHANGED <<files, redis, client, lost, faults>>

\* A version that can never be read or promoted.
Hopeless(d, v) == UnderWay(d, v) /\ (~Readable(d, v) \/ (<<d, v>> \in redis /\ Collides(d, v)))

\* A retry or the last failure is recorded: because the version is hopeless,
\* or because of a failure, which may concern a message that came twice or a
\* commit whose answer was lost.  Nobody looks what the version is by then.
FailIndex(d, v) ==
  /\ version[d][v] # NoVersion
  /\ (Hopeless(d, v) /\ UNCHANGED faults) \/ Fault
  /\ \E s \in {"parsing", "failed"} :
       /\ SetVersion(d, v, s)
       /\ IF Promotes(d, v) /\ (document[d].current = v \/ document[d].status # "indexed")
            THEN Shows(d, s) ELSE UNCHANGED document
  /\ UNCHANGED <<files, redis, client, lost>>

\* The clean-up job: the projection first, then the rows.  A search finds any
\* part of what Redis holds, so what is half erased or half restored is not a
\* state of its own.
Erase(d) ==
  /\ document[d].status = "deleted" /\ \E p \in redis : p[1] = d
  /\ redis' = {p \in redis : p[1] # d}
  /\ UNCHANGED <<rows, files, client, lost, faults>>

CompleteDelete(d) ==
  /\ document[d].status = "deleted"
  /\ \A p \in redis : p[1] # d
  /\ \E v \in Versions : version[d][v].status \notin {"none", "deleted"}
  /\ version' = [version EXCEPT ![d] = [v \in Versions |->
                   IF @[v] = NoVersion THEN NoVersion ELSE [@[v] EXCEPT !.status = "deleted"]]]
  /\ UNCHANGED <<document, files, redis, client, lost, faults>>

Indexed == {p \in Chunks : version[p[1]][p[2]].status = "indexed"}

\* A worker that starts again prunes the projection and restores what lacks, by
\* a list of current chunks that it may have read some time ago.
PruneStaleChunks ==
  /\ \E stale \in SUBSET (redis \ Active) : stale # {} /\ redis' = redis \ stale
  /\ UNCHANGED <<rows, files, client, lost, faults>>

RebuildProjection ==
  /\ \E list \in SUBSET Indexed : ~(list \subseteq redis) /\ redis' = redis \cup list
  /\ UNCHANGED <<rows, files, client, lost, faults>>

\* Redis restarts empty.
RedisLost ==
  /\ redis # {} /\ Fault
  /\ redis' = {}
  /\ UNCHANGED <<rows, files, client, lost>>

RequestStep(c) ==
  \/ Accept(c) \/ FindByContentHash(c) \/ LookupFails(c)
  \/ CreateUpload(c) \/ CreateCollides(c) \/ CreateFails(c) \/ Undo(c) \/ FindOriginal(c)
  \/ AcceptVersion(c) \/ FindVersionByContentHash(c) \/ FindOwner(c) \/ FindFails(c)
  \/ Rebuild(c) \/ CreateVersionUpload(c) \/ VersionFails(c) \/ CreateDelete(c)

IndexStep(d, v) == ClaimIndexJob(d, v) \/ Project(d, v) \/ CompleteIndex(d, v) \/ FailIndex(d, v)

\* Everything but a crash of the API process, which ends questions too.
UploadNext ==
  \/ \E c \in Clients : RequestStep(c)
  \/ \E d \in Documents : (\E v \in Versions : IndexStep(d, v)) \/ Erase(d) \/ CompleteDelete(d)
  \/ PruneStaleChunks \/ RebuildProjection \/ RedisLost

\* The documents on their own, whether or not anybody asks a question.
UploadSpec == UploadInit /\ [][UploadNext \/ ApiCrash]_uploadVars

-----------------------------------------------------------------------------
(***************************************************************************)
(* Files and rows.                                                         *)
(***************************************************************************)
\* A commit whose answer was lost leaves rows without files: the service
\* removes what it believes was not committed, an upload its whole directory.
Doubtful(d, v) == {version[d][1].artifact, version[d][v].artifact} \cap lost # {}

\* Every other version keeps the file it is indexed and rebuilt from,
\* whatever requests for the same content or document do meanwhile.
ArtifactsKept == \A d \in Documents, v \in Versions :
  version[d][v] = NoVersion \/ Doubtful(d, v) \/ Readable(d, v)

\* No file is left behind: each belongs to a version, or to a request that
\* is under way or died with its process.
Owned(f) == \/ \E v \in Versions : version[f[1]][v] # NoVersion /\ version[f[1]][v].artifact = f[2]
            \/ (f[2] \in Clients /\ (Running(f[2]) \/ At(f[2], "died")))
NothingLeaks == \A f \in files : Owned(f)

\* A search finds a content in one document at most, whatever was uploaded,
\* promoted, deleted or brought back by a late failure at the same time.
FoundOnce == \A p, q \in Active :
  version[p[1]][p[2]].content = version[q[1]][q[2]].content => p = q

-----------------------------------------------------------------------------
\* The rows without hashes, contents and artifacts.
ShownDocument == [d \in Documents |-> [status |-> document[d].status, current |-> document[d].current]]
ShownVersion  == [d \in Documents |-> [v \in Versions |-> version[d][v].status]]

Index == INSTANCE IndexedDocuments WITH document <- ShownDocument, version <- ShownVersion

\* Uploads, candidates, deletions and the abstracted worker change rows and
\* chunks by the steps of IndexedDocuments only, as the pipeline does.
IndexImplemented == Index!Spec
=============================================================================
