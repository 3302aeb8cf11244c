----------------------------- MODULE AnswerProofs -----------------------------
(***************************************************************************)
(* Proofs about uploads and about the answers given while they go on, for  *)
(* any documents, versions, contents, requests and failures.               *)
(*                                                                         *)
(* The first part is about files and rows: RequestOK says what a request   *)
(* has done so far, OthersKeep that a request disturbs no other; rows and  *)
(* chunks move by the steps of IndexedDocuments, and active contents       *)
(* differ.  The second is about the question: the evidence is content of   *)
(* versions that were active, and such content does not change.            *)
(***************************************************************************)
EXTENDS GroundedAnswer, FiniteSetTheorems, SequenceTheorems, TLAPS

-----------------------------------------------------------------------------
(***************************************************************************)
(* Uploads: the invariant.                                                 *)
(***************************************************************************)
\* A request's record is what Begin gives it, or says that it is over.
ActiveSteps == {"lookup", "create", "undo", "again", "known", "owner", "stage"}
Request  == [step : ActiveSteps, doc : Documents, content : Contents \cup {NoContent},
             artifact : Clients \cup {Earlier}]
Over     == {Nothing, [step |-> "done"], [step |-> "died"]}
ClientOK == client \in [Clients -> Request \cup Over]

\* A row exists or is the empty one, and a document has a first version.
RowsExist ==
  /\ \A d \in Documents : document[d].status = "none" => document[d] = NoDocument
  /\ \A d \in Documents, v \in Versions : version[d][v].status = "none" => version[d][v] = NoVersion
  /\ \A d \in Documents : document[d] # NoDocument => version[d][1] # NoVersion
  /\ \A d \in Documents, v \in Versions : version[d][v] # NoVersion => document[d] # NoDocument

Committed(c) == \E d \in Documents, v \in Versions : version[d][v].artifact = c
Wrote(c)     == \E f \in files : f[2] = c

\* The directory of request c is its own: no row, and no file or request but
\* c's, is about its document.
Fresh(c) ==
  /\ document[Doc(c)] = NoDocument /\ ~Committed(c)
  /\ \A f \in files : f[1] = Doc(c) => f[2] = c
  /\ \A e \in Clients \ {c} : Running(e) => Doc(e) # Doc(c)

\* The upload of document d was committed, and its request does not know: every
\* version of it is in doubt.
InDoubt(d) == version[d][1].artifact \in lost

\* A version to be added has its own file, which no row mentions, or shares
\* that of an earlier version.
VersionStep(c) ==
  /\ document[Doc(c)] # NoDocument
  /\ IF Artifact(c) = c
       THEN ~Committed(c) /\ (<<Doc(c), c>> \in files \/ InDoubt(Doc(c)))
       ELSE /\ ~Wrote(c)
            /\ \E v \in Versions : version[Doc(c)][v] # NoVersion /\ version[Doc(c)][v].artifact = Artifact(c)

\* What a request has done so far.
RequestOK(c) ==
  /\ client[c].step = "new" => ~Wrote(c) /\ ~Committed(c)
  /\ client[c].step \in {"lookup", "create"} => Fresh(c) /\ <<Doc(c), c>> \in files
  /\ client[c].step = "undo" => Fresh(c) \/ InDoubt(Doc(c))
  /\ client[c].step = "again" => ~Wrote(c)
  /\ client[c].step \in {"lookup", "create", "undo", "known", "owner"} => Artifact(c) = c
  /\ client[c].step \in {"known", "owner", "stage"} => VersionStep(c)
  /\ Running(c) => \A f \in files : f[2] = c => f[1] = Doc(c)

UploadInv ==
  /\ UploadTypeOK /\ ClientOK /\ RowsExist
  /\ \A c \in Clients : RequestOK(c)
  /\ ArtifactsKept /\ NothingLeaks

-----------------------------------------------------------------------------
(***************************************************************************)
(* Steps that keep all rows.                                               *)
(***************************************************************************)
\* No row comes or goes or changes its file or content.
RowsKept ==
  /\ \A d \in Documents : document'[d] = NoDocument <=> document[d] = NoDocument
  /\ \A d \in Documents, v \in Versions :
       /\ version'[d][v].artifact = version[d][v].artifact
       /\ version'[d][v].content = version[d][v].content
       /\ version'[d][v] = NoVersion <=> version[d][v] = NoVersion

\* A running request has a document, an idle one does not run.
LEMMA RunningType ==
  ASSUME ClientOK, NEW c \in Clients
  PROVE  /\ Running(c) <=> client[c] \in Request
         /\ client[c].step \in ActiveSteps <=> Running(c)
         /\ Running(c) => Doc(c) \in Documents /\ Artifact(c) \in Clients \cup {Earlier}
                          /\ Content(c) \in Contents \cup {NoContent}
BY DEF ClientOK, Running, Request, Over, Nothing, ActiveSteps, Doc, Artifact, Content

\* A step of request c that keeps the rows disturbs no other request: it
\* removes files of its own that no row mentions, or those of a document in
\* doubt, and adds at most one to a directory that is not another's.
LEMMA OthersKeep ==
  ASSUME UploadInv, RowsKept, lost' = lost, NEW c,
         \A e \in Clients \ {c} : client'[e] = client[e],
         \A f \in files \ files' : (f[2] = c /\ ~Committed(c)) \/ InDoubt(f[1]),
         \A f \in files' \ files : c \in Clients /\ Running(c)' /\ f = <<(Doc(c))', c>>,
         c \in Clients /\ Running(c)' =>
           \A e \in Clients \ {c} : Running(e) /\ Fresh(e) => Doc(e) # (Doc(c))'
  PROVE  /\ \A e \in Clients \ {c} : RequestOK(e)'
         /\ ArtifactsKept'
         /\ \A f \in files' : (c \in Clients => f[2] # c) => Owned(f)'
<1> USE DEF UploadInv
<1>0. /\ 1 \in Versions /\ Earlier \notin Clients /\ lost \subseteq Clients
      /\ files \subseteq Documents \X (Clients \cup {Earlier})
  BY UploadAssumption DEF Versions, UploadTypeOK
<1>1. \A d \in Documents : InDoubt(d)' <=> InDoubt(d)
  BY <1>0 DEF InDoubt, RowsKept
<1>2. \A d \in Documents : document[d] = NoDocument => ~InDoubt(d)
  BY <1>0 DEF InDoubt, RowsExist, NoVersion
<1>3. \A e : Committed(e)' <=> Committed(e)
  BY DEF Committed, RowsKept
<1>4. ASSUME NEW e \in Clients \ {c} PROVE RequestOK(e)'
  <2>1. /\ client'[e] = client[e] /\ (Doc(e))' = Doc(e) /\ (Artifact(e))' = Artifact(e)
        /\ Running(e)' <=> Running(e)
        /\ RequestOK(e)
    BY DEF Doc, Artifact, Running
  <2>2. Running(e) => Doc(e) \in Documents
    BY RunningType
  <2>3. Wrote(e)' => Wrote(e)
    BY DEF Wrote
  <2>4. \A f \in files : f[2] = e => f \in files' \/ InDoubt(f[1])
    OBVIOUS
  <2>5. ASSUME Running(e), Fresh(e) PROVE Fresh(e)'
    <3>1. document'[Doc(e)] = NoDocument
      BY <2>2, <2>5 DEF Fresh, RowsKept
    <3>2. \A f \in files' : f[1] = Doc(e) => f[2] = e
      BY <2>5 DEF Fresh
    <3>3. \A u \in Clients \ {e} : Running(u)' => (Doc(u))' # Doc(e)
      BY <2>5 DEF Fresh, Running, Doc
    <3> QED BY <1>3, <2>1, <2>5, <3>1, <3>2, <3>3 DEF Fresh
  <2>6. ASSUME client[e].step \in {"lookup", "create"} PROVE Fresh(e)' /\ <<Doc(e), e>> \in files'
    <3>1. Running(e) /\ Fresh(e) /\ <<Doc(e), e>> \in files
      BY <2>1, <2>6 DEF RequestOK, Running
    <3>2. ~InDoubt(Doc(e))
      BY <1>2, <2>2, <3>1 DEF Fresh
    <3> QED BY <2>4, <2>5, <3>1, <3>2
  <2>7. ASSUME client[e].step = "undo" PROVE Fresh(e)' \/ InDoubt(Doc(e))'
    BY <1>1, <2>1, <2>2, <2>5, <2>7 DEF RequestOK, Running
  <2>8. ASSUME client[e].step \in {"known", "owner", "stage"} PROVE VersionStep(e)'
    <3>1. VersionStep(e) /\ Doc(e) \in Documents
      BY <2>1, <2>2, <2>8 DEF RequestOK, Running
    <3>2. document'[Doc(e)] # NoDocument
      BY <3>1 DEF VersionStep, RowsKept
    <3>3. CASE Artifact(e) = e
      BY <1>1, <1>3, <2>1, <2>4, <3>1, <3>2, <3>3 DEF VersionStep
    <3>4. CASE Artifact(e) # e
      BY <2>1, <2>3, <3>1, <3>2, <3>4 DEF VersionStep, RowsKept
    <3> QED BY <3>3, <3>4
  <2>9. Running(e) => \A f \in files' : f[2] = e => f[1] = Doc(e)
    BY <2>1 DEF RequestOK
  <2> QED BY <1>3, <2>1, <2>3, <2>6, <2>7, <2>8, <2>9 DEF RequestOK
<1>5. ArtifactsKept'
  <2> SUFFICES ASSUME NEW d \in Documents, NEW v \in Versions, version'[d][v] # NoVersion, ~Doubtful(d, v)'
               PROVE  <<d, version'[d][v].artifact>> \in files'
    BY DEF ArtifactsKept, Readable
  <2>1. version[d][v] # NoVersion /\ version'[d][v].artifact = version[d][v].artifact
    BY DEF RowsKept
  <2>2. ~Doubtful(d, v) /\ ~InDoubt(d)
    BY <1>0, <2>1 DEF Doubtful, InDoubt, RowsKept
  <2>3. <<d, version[d][v].artifact>> \in files
    BY <2>1, <2>2 DEF ArtifactsKept, Readable
  <2>4. version[d][v].artifact = c => Committed(c)
    BY DEF Committed
  <2> QED BY <2>1, <2>2, <2>3, <2>4
<1>6. ASSUME NEW f \in files', c \in Clients => f[2] # c PROVE Owned(f)'
  <2>1. f \in files /\ Owned(f) /\ f[1] \in Documents
    BY <1>0, <1>6 DEF NothingLeaks
  <2>2. f[2] \in Clients => (Running(f[2])' <=> Running(f[2])) /\ (At(f[2], "died")' <=> At(f[2], "died"))
    BY <1>6 DEF Running, At
  <2> QED BY <2>1, <2>2 DEF Owned, RowsKept
<1> QED BY <1>4, <1>5, <1>6

\* The steps of requests that keep the rows, by their effect: c goes on or is
\* over, and what it leaves behind belongs to somebody.
LEMMA RequestKeeps ==
  ASSUME UploadInv, RowsKept, NEW c \in Clients, NEW r \in Request \cup Over,
         RowsExist', UploadTypeOK', lost' = lost,
         client' = [client EXCEPT ![c] = r],
         \A f \in files \ files' : (f[2] = c /\ ~Committed(c)) \/ InDoubt(f[1]),
         \A f \in files' \ files : Running(c)' /\ f = <<(Doc(c))', c>>,
         Running(c)' => \A e \in Clients \ {c} : Running(e) /\ Fresh(e) => Doc(e) # (Doc(c))',
         RequestOK(c)',
         Running(c)' \/ \A f \in files' : f[2] = c => Owned(f)'
  PROVE  UploadInv'
<1>1. client \in [Clients -> Request \cup Over]
  BY DEF UploadInv, ClientOK
<1>2. /\ client' \in [Clients -> Request \cup Over]
      /\ \A e \in Clients \ {c} : client'[e] = client[e]
  BY <1>1
<1>3. /\ \A e \in Clients \ {c} : RequestOK(e)'
      /\ ArtifactsKept'
      /\ \A f \in files' : f[2] # c => Owned(f)'
  BY <1>2, OthersKeep
<1>4. ASSUME Running(c)', NEW f \in files', f[2] = c PROVE Owned(f)'
  BY <1>4 DEF Owned
<1> QED BY <1>2, <1>3, <1>4 DEF UploadInv, ClientOK, NothingLeaks

\* Reading or refusing: neither rows nor the documents of requests change.
LEMMA UnchangedRows ==
  ASSUME UploadInv, UNCHANGED rows
  PROVE  RowsKept /\ RowsExist' /\ (\A c : Committed(c)' <=> Committed(c))
BY DEF UploadInv, rows, RowsKept, RowsExist, Committed

\* c goes on to another step with what it has.
LEMMA Continues ==
  ASSUME UploadInv, NEW c \in Clients, NEW s \in ActiveSteps, Running(c), Goto(c, s),
         UNCHANGED <<rows, redis, lost>>, faults' \in 0..MaxFaults,
         files' \subseteq files,
         \A f \in files \ files' : (f[2] = c /\ ~Committed(c)) \/ InDoubt(f[1]),
         RequestOK(c)'
  PROVE  UploadInv'
<1>1. client \in [Clients -> Request \cup Over] /\ client[c] \in Request
  BY RunningType DEF UploadInv, ClientOK
<1> DEFINE r == [client[c] EXCEPT !.step = s]
<1>2. r \in Request /\ r.step = s /\ r.doc = client[c].doc
  BY <1>1 DEF Request
<1>3. client' = [client EXCEPT ![c] = r] /\ client'[c] = r
  BY <1>1 DEF Goto
<1>4. (Doc(c))' = Doc(c) /\ Running(c)'
  BY <1>2, <1>3 DEF Doc, Running, ActiveSteps
<1>5. UploadTypeOK'
  <2>1. \A e \in Clients : client'[e].step \in Steps
    BY <1>2, <1>3, <1>1 DEF UploadInv, UploadTypeOK, ActiveSteps, Steps
  <2> QED BY <2>1 DEF UploadInv, UploadTypeOK, rows
<1>6. \A e \in Clients \ {c} : Running(e) /\ Fresh(e) => Doc(e) # (Doc(c))'
  BY <1>4 DEF Fresh
<1>7. RowsKept /\ RowsExist'
  BY UnchangedRows
<1> QED BY <1>2, <1>3, <1>4, <1>5, <1>6, <1>7, RequestKeeps

\* c is answered, and has removed what it wrote.
LEMMA Ends ==
  ASSUME UploadInv, NEW c \in Clients, End(c),
         UNCHANGED <<rows, redis, lost>>, faults' \in 0..MaxFaults,
         files' \subseteq files,
         \A f \in files \ files' : (f[2] = c /\ ~Committed(c)) \/ InDoubt(f[1]),
         ~Wrote(c)'
  PROVE  UploadInv'
<1>1. client \in [Clients -> Request \cup Over]
  BY DEF UploadInv, ClientOK
<1> DEFINE r == [step |-> "done"]
<1>2. r \in Over /\ r \in Request \cup Over
  BY DEF Over
<1>3. client' = [client EXCEPT ![c] = r] /\ client'[c] = r
  BY <1>1 DEF End
<1>4. ~Running(c)' /\ RequestOK(c)'
  BY <1>3 DEF Running, RequestOK
<1>5. UploadTypeOK'
  <2>1. \A e \in Clients : client'[e].step \in Steps
    BY <1>1, <1>3 DEF UploadInv, UploadTypeOK, Steps
  <2> QED BY <2>1 DEF UploadInv, UploadTypeOK, rows
<1>6. RowsKept /\ RowsExist'
  BY UnchangedRows
<1>7. \A f \in files' : f[2] # c
  BY DEF Wrote
<1> HIDE DEF r
<1> QED BY <1>2, <1>3, <1>4, <1>5, <1>6, <1>7, RequestKeeps

-----------------------------------------------------------------------------
(***************************************************************************)
(* The steps of requests.                                                  *)
(***************************************************************************)
\* What a request knows of itself before a step.
LEMMA Before ==
  ASSUME UploadInv, NEW c \in Clients, client[c].step \in ActiveSteps
  PROVE  /\ Running(c) /\ client[c] \in Request
         /\ Doc(c) \in Documents /\ Artifact(c) \in Clients \cup {Earlier}
         /\ Content(c) \in Contents \cup {NoContent}
         /\ RequestOK(c)
         /\ \A f \in files : f[2] = c => f[1] = Doc(c)
         /\ \A f \in files : f \in Documents \X (Clients \cup {Earlier})
         /\ faults \in 0..MaxFaults
         /\ Fault => faults' \in 0..MaxFaults
<1>1. Running(c) /\ client[c] \in Request /\ RequestOK(c)
  BY RunningType DEF UploadInv
<1>2. Fault => faults' \in 0..MaxFaults
  BY UploadAssumption DEF UploadInv, UploadTypeOK, Fault
<1> QED BY <1>1, <1>2, RunningType DEF UploadInv, UploadTypeOK, RequestOK

LEMMA FindByContentHashKeeps ==
  ASSUME UploadInv, NEW c \in Clients, FindByContentHash(c) \/ LookupFails(c)
  PROVE  UploadInv'
<1>1. At(c, "lookup") /\ client[c].step = "lookup" /\ client[c].step \in ActiveSteps
  BY DEF FindByContentHash, LookupFails, At, ActiveSteps
<1>2. Fresh(c) /\ <<Doc(c), c>> \in files /\ Artifact(c) = c /\ Running(c) /\ faults' \in 0..MaxFaults
  BY <1>1, Before DEF RequestOK, FindByContentHash, LookupFails
<1>3. CASE End(c) /\ RemoveAll(c)
  <2>1. ~Wrote(c)'
    BY <1>1, <1>3, Before DEF RemoveAll, Wrote
  <2>2. \A f \in files \ files' : f[2] = c /\ ~Committed(c)
    BY <1>2, <1>3 DEF RemoveAll, Fresh
  <2>3. UNCHANGED <<rows, redis, lost>> /\ files' \subseteq files
    BY <1>3 DEF FindByContentHash, LookupFails, RemoveAll
  <2> QED BY <1>2, <1>3, <2>1, <2>2, <2>3, Ends
<1>4. CASE Goto(c, "create") /\ UNCHANGED <<files, rows, redis, lost, faults>>
  <2>1. /\ client'[c].step = "create" /\ (Artifact(c))' = Artifact(c) /\ (Doc(c))' = Doc(c)
        /\ \A e \in Clients \ {c} : client'[e] = client[e]
    BY <1>1, <1>4, Before DEF Goto, UploadInv, ClientOK, Request, Artifact, Doc
  <2>2. Fresh(c)'
    BY <1>2, <1>4, <2>1, UnchangedRows DEF Fresh, Running, Doc, rows
  <2>3. RequestOK(c)'
    BY <1>1, <1>2, <1>4, <2>1, <2>2, Before DEF RequestOK
  <2> QED BY <1>2, <1>4, <2>3, Continues DEF ActiveSteps
<1> QED BY <1>3, <1>4 DEF FindByContentHash, LookupFails

LEMMA UndoingKeeps ==
  ASSUME UploadInv, NEW c \in Clients, Undo(c)
  PROVE  UploadInv'
<1>1. client[c].step = "undo" /\ client[c].step \in ActiveSteps
  BY DEF Undo, At, ActiveSteps
<1>2. Artifact(c) = c /\ Running(c) /\ faults' \in 0..MaxFaults /\ (Fresh(c) \/ InDoubt(Doc(c)))
  BY <1>1, Before DEF RequestOK, Undo
<1>3. /\ client'[c].step = "again"
      /\ \A f \in files \ files' : (f[2] = c /\ ~Committed(c)) \/ InDoubt(f[1])
  <2>1. client'[c].step = "again"
    BY <1>1, Before DEF Undo, Goto, UploadInv, ClientOK, Request
  <2>2. \A f \in files \ files' : f[1] = Doc(c)
    BY DEF Undo, RemoveAll
  <2> QED BY <1>2, <2>1, <2>2 DEF Fresh
<1>4. ~Wrote(c)'
  BY <1>1, Before DEF Undo, RemoveAll, Wrote
<1>5. RequestOK(c)'
  BY <1>3, <1>4 DEF RequestOK, Wrote
<1>6. files' \subseteq files /\ UNCHANGED <<rows, redis, lost>> /\ Goto(c, "again")
  BY DEF Undo, RemoveAll
<1> QED BY <1>2, <1>3, <1>5, <1>6, Continues DEF ActiveSteps

LEMMA FindOriginalKeeps ==
  ASSUME UploadInv, NEW c \in Clients, FindOriginal(c)
  PROVE  UploadInv'
<1>1. client[c].step = "again" /\ client[c].step \in ActiveSteps
  BY DEF FindOriginal, At, ActiveSteps
<1>2. ~Wrote(c) /\ faults' \in 0..MaxFaults /\ files' = files /\ End(c) /\ UNCHANGED <<rows, redis, lost>>
  BY <1>1, Before DEF RequestOK, FindOriginal
<1>3. ~Wrote(c)'
  BY <1>2 DEF Wrote
<1> QED BY <1>2, <1>3, Ends

\* A version that is refused takes the request's own file with it.
LEMMA DiscardKeeps ==
  ASSUME UploadInv, NEW c \in Clients, client[c].step \in {"known", "owner", "stage"},
         End(c), Discard(c), UNCHANGED <<rows, redis, lost>>, faults' \in 0..MaxFaults
  PROVE  UploadInv'
<1>1. client[c].step \in ActiveSteps
  BY DEF ActiveSteps
<1>2. VersionStep(c) /\ \A f \in files : f[2] = c => f[1] = Doc(c)
  BY <1>1, Before DEF RequestOK
<1>3. ~Wrote(c)'
  <2> SUFFICES ASSUME NEW f \in files', f[2] = c PROVE FALSE
    BY DEF Wrote
  <2>1. f \in Documents \X (Clients \cup {Earlier}) /\ f[1] = Doc(c) /\ f # <<Doc(c), c>>
    BY <1>1, <1>2, Before DEF Discard
  <2> QED BY <2>1
<1>4. \A f \in files \ files' : f[2] = c /\ ~Committed(c)
  BY <1>2 DEF Discard, VersionStep, Wrote
<1>5. files' \subseteq files
  BY DEF Discard
<1> QED BY <1>3, <1>4, <1>5, Ends

LEMMA FindVersionKeeps ==
  ASSUME UploadInv, NEW c \in Clients, FindVersionByContentHash(c) \/ FindOwner(c) \/ FindFails(c)
  PROVE  UploadInv'
<1>1. client[c].step \in {"known", "owner"} /\ client[c].step \in ActiveSteps
  BY DEF FindVersionByContentHash, FindOwner, FindFails, At, ActiveSteps
<1>2. /\ Artifact(c) = c /\ VersionStep(c) /\ Running(c) /\ faults' \in 0..MaxFaults
      /\ UNCHANGED <<rows, redis, lost>>
  BY <1>1, Before DEF RequestOK, FindVersionByContentHash, FindOwner, FindFails
<1>3. CASE End(c) /\ Discard(c)
  BY <1>1, <1>2, <1>3, DiscardKeeps
<1>4. CASE UNCHANGED files /\ \E s \in {"owner", "stage"} : Goto(c, s)
  <2>0. PICK s \in {"owner", "stage"} : Goto(c, s)
    BY <1>4
  <2>1. client'[c].step = s /\ (Artifact(c))' = Artifact(c) /\ (Doc(c))' = Doc(c)
    BY <1>1, <2>0, Before DEF Goto, UploadInv, ClientOK, Request, Artifact, Doc
  <2>2. VersionStep(c)'
    BY <1>2, <1>4, <2>1, UnchangedRows DEF VersionStep, InDoubt, rows
  <2>3. RequestOK(c)'
    BY <1>1, <1>2, <1>4, <2>1, <2>2, Before DEF RequestOK
  <2> QED BY <1>2, <1>4, <2>0, <2>3, Continues DEF ActiveSteps
<1> QED BY <1>3, <1>4 DEF FindVersionByContentHash, FindOwner, FindFails

\* The insert is refused or fails: the rows are as before.
LEMMA CreateKeeps ==
  ASSUME UploadInv, NEW c \in Clients, At(c, "create"), Goto(c, "undo"),
         UNCHANGED <<rows, files, redis, lost>>, faults' \in 0..MaxFaults
  PROVE  UploadInv'
<1>1. client[c].step = "create" /\ client[c].step \in ActiveSteps
  BY DEF At, ActiveSteps
<1>2. Artifact(c) = c /\ Running(c) /\ Fresh(c)
  BY <1>1, Before DEF RequestOK
<1>3. /\ client'[c].step = "undo" /\ (Artifact(c))' = Artifact(c) /\ (Doc(c))' = Doc(c)
      /\ \A e \in Clients \ {c} : client'[e] = client[e]
  BY <1>1, Before DEF Goto, UploadInv, ClientOK, Request, Artifact, Doc
<1>4. Fresh(c)'
  BY <1>2, <1>3, UnchangedRows DEF Fresh, Running, Doc, rows
<1>5. RequestOK(c)'
  BY <1>1, <1>2, <1>3, <1>4, Before DEF RequestOK
<1> QED BY <1>2, <1>5, Continues DEF ActiveSteps

\* The rows of an upload appear in a directory that was its request's alone,
\* whether the answer of the commit arrives or not.
LEMMA CommitUploadKeeps ==
  ASSUME UploadInv, NEW c \in Clients, At(c, "create"), CommitUpload(c),
         UNCHANGED <<files, redis>>, faults' \in 0..MaxFaults,
         \/ End(c) /\ lost' = lost
         \/ Goto(c, "undo") /\ lost' = lost \cup {c}
  PROVE  UploadInv'
<1> DEFINE d == Doc(c)
<1>1. client[c].step = "create" /\ client[c].step \in ActiveSteps
  BY DEF At, ActiveSteps
<1>2. /\ Artifact(c) = c /\ Running(c) /\ Fresh(c) /\ d \in Documents /\ <<d, c>> \in files
      /\ Content(c) \in Contents \cup {NoContent}
      /\ \A f \in files : f[2] = c => f[1] = d
      /\ client[c] \in Request
  BY <1>1, Before DEF RequestOK
<1>3. /\ 1 \in Versions /\ 1 \in 0..MaxVersion /\ Earlier \notin Clients /\ NoContent \notin Contents
      /\ lost \subseteq Clients /\ files \subseteq Documents \X (Clients \cup {Earlier})
      /\ document \in [Documents -> [status: DocStatus, current: 0..MaxVersion, hash: Contents \cup {NoContent}]]
      /\ version \in [Documents -> [Versions -> [status: DocStatus, content: Contents \cup {NoContent},
                                                 artifact: Clients \cup {Earlier}]]]
      /\ client \in [Clients -> Request \cup Over]
  BY UploadAssumption DEF Versions, UploadInv, UploadTypeOK, ClientOK
<1> DEFINE D == [status |-> "uploaded", current |-> 1, hash |-> Content(c)]
           V == [status |-> "uploaded", content |-> Content(c), artifact |-> c]
<1>4. /\ document' = [document EXCEPT ![d] = D]
      /\ version' = [version EXCEPT ![d][1] = V]
  BY <1>2 DEF CommitUpload
<1>5. /\ D \in [status: DocStatus, current: 0..MaxVersion, hash: Contents \cup {NoContent}]
      /\ V \in [status: DocStatus, content: Contents \cup {NoContent}, artifact: Clients \cup {Earlier}]
      /\ D # NoDocument /\ V # NoVersion /\ V.artifact = c /\ V.status # "none" /\ D.status # "none"
  BY <1>2, <1>3 DEF DocStatus, NoDocument, NoVersion
<1> HIDE DEF d, D, V
<1>6. /\ document'[d] = D /\ version'[d][1] = V
      /\ \A x \in Documents : x # d => document'[x] = document[x] /\ version'[x] = version[x]
      /\ \A x \in Documents, v \in Versions : <<x, v>> # <<d, 1>> => version'[x][v] = version[x][v]
  BY <1>2, <1>3, <1>4
<1>7. /\ document[d] = NoDocument
      /\ \A v \in Versions : version[d][v] = NoVersion
  BY <1>2 DEF Fresh, UploadInv, RowsExist, d
<1>8. /\ lost \subseteq lost' /\ lost' \subseteq Clients
      /\ \A e \in Clients \ {c} : client'[e] = client[e]
      /\ client' \in [Clients -> Request \cup Over]
      /\ client'[c].step = "done" \/ (client'[c].step = "undo" /\ c \in lost')
      /\ client'[c].step = "undo" => (Doc(c))' = d /\ (Artifact(c))' = c
  <2>1. CASE End(c) /\ lost' = lost
    BY <1>3, <2>1 DEF End, Over
  <2>2. CASE Goto(c, "undo") /\ lost' = lost \cup {c}
    <3>1. [client[c] EXCEPT !.step = "undo"] \in Request
      BY <1>2 DEF Request, ActiveSteps
    <3> QED BY <1>2, <1>3, <2>2, <3>1 DEF Goto, Doc, Artifact, Request, d
  <2> QED BY <2>1, <2>2
<1>9. UploadTypeOK'
  <2>1. \A e \in Clients : client'[e].step \in Steps
    BY <1>8 DEF UploadInv, UploadTypeOK, Steps
  <2>2. document' \in [Documents -> [status: DocStatus, current: 0..MaxVersion, hash: Contents \cup {NoContent}]]
    BY <1>3, <1>4, <1>5
  <2>3. version' \in [Documents -> [Versions -> [status: DocStatus, content: Contents \cup {NoContent},
                                                 artifact: Clients \cup {Earlier}]]]
    BY <1>2, <1>3, <1>4, <1>5
  <2> QED BY <1>8, <2>1, <2>2, <2>3 DEF UploadInv, UploadTypeOK
<1>10. RowsExist'
  <2> SUFFICES ASSUME NEW x \in Documents
               PROVE  /\ document'[x].status = "none" => document'[x] = NoDocument
                      /\ \A v \in Versions : version'[x][v].status = "none" => version'[x][v] = NoVersion
                      /\ document'[x] # NoDocument => version'[x][1] # NoVersion
                      /\ \A v \in Versions : version'[x][v] # NoVersion => document'[x] # NoDocument
    BY DEF RowsExist
  <2>1. CASE x = d
    BY <1>5, <1>6, <1>7, <1>3, <2>1 DEF UploadInv, RowsExist
  <2>2. CASE x # d
    BY <1>6, <2>2 DEF UploadInv, RowsExist
  <2> QED BY <2>1, <2>2
<1>11. \A x \in Documents : InDoubt(x) => InDoubt(x)'
  BY <1>3, <1>6, <1>7, <1>8 DEF InDoubt, NoVersion
<1>12. \A e \in Clients \ {c} : Committed(e)' <=> Committed(e)
  <2> SUFFICES ASSUME NEW e \in Clients \ {c}, NEW x \in Documents, NEW v \in Versions
               PROVE  version'[x][v].artifact = e <=> version[x][v].artifact = e
    BY DEF Committed
  <2>1. CASE <<x, v>> = <<d, 1>>
    BY <1>3, <1>5, <1>6, <1>7, <2>1 DEF NoVersion
  <2>2. CASE <<x, v>> # <<d, 1>>
    BY <1>6, <2>2
  <2> QED BY <2>1, <2>2
<1>13. ASSUME NEW e \in Clients \ {c} PROVE RequestOK(e)'
  <2>1. /\ client'[e] = client[e] /\ (Doc(e))' = Doc(e) /\ (Artifact(e))' = Artifact(e)
        /\ Running(e)' <=> Running(e)
        /\ RequestOK(e) /\ files' = files
        /\ Running(e) => Doc(e) \in Documents /\ Doc(e) # d
    BY <1>2, <1>8, RunningType DEF Doc, Artifact, Running, UploadInv, Fresh, d
  <2>2. ASSUME Running(e), Fresh(e) PROVE Fresh(e)'
    <3>1. \A u \in Clients \ {e} : Running(u)' => (Doc(u))' # Doc(e)
      BY <1>8, <2>1, <2>2 DEF Fresh, Running, Doc
    <3> QED BY <1>6, <1>12, <2>1, <2>2, <3>1 DEF Fresh
  <2>3. Wrote(e)' <=> Wrote(e)
    BY DEF Wrote
  <2>4. ASSUME client[e].step \in {"known", "owner", "stage"} PROVE VersionStep(e)'
    <3>1. VersionStep(e) /\ Running(e)
      BY <2>1, <2>4 DEF RequestOK, Running
    <3> QED BY <1>6, <1>11, <1>12, <2>1, <2>3, <3>1 DEF VersionStep
  <2>5. client[e].step \in {"lookup", "create", "undo"} => Running(e)
    BY DEF Running
  <2> QED BY <1>11, <1>12, <2>1, <2>2, <2>3, <2>4, <2>5 DEF RequestOK
<1>14. RequestOK(c)'
  BY <1>2, <1>5, <1>6, <1>8 DEF RequestOK, InDoubt, Running
<1>15. ArtifactsKept'
  <2> SUFFICES ASSUME NEW x \in Documents, NEW v \in Versions, version'[x][v] # NoVersion, ~Doubtful(x, v)'
               PROVE  <<x, version'[x][v].artifact>> \in files
    BY DEF ArtifactsKept, Readable
  <2>1. CASE <<x, v>> = <<d, 1>>
    BY <1>2, <1>5, <1>6, <2>1 DEF d
  <2>2. CASE <<x, v>> # <<d, 1>>
    <3>1. version'[x][v] = version[x][v] /\ x # d
      BY <1>6, <1>7, <2>2
    <3>2. ~Doubtful(x, v)
      BY <1>6, <1>8, <3>1 DEF Doubtful
    <3> QED BY <3>1, <3>2 DEF UploadInv, ArtifactsKept, Readable
  <2> QED BY <2>1, <2>2
<1>16. NothingLeaks'
  <2> SUFFICES ASSUME NEW f \in files PROVE Owned(f)'
    BY DEF NothingLeaks
  <2>1. CASE f[2] = c
    BY <1>2, <1>3, <1>5, <1>6, <2>1 DEF Owned, d
  <2>2. CASE f[2] # c
    <3>1. Owned(f) /\ f[1] \in Documents
      BY <1>3 DEF UploadInv, NothingLeaks
    <3>2. f[2] \in Clients => (Running(f[2])' <=> Running(f[2])) /\ (At(f[2], "died")' <=> At(f[2], "died"))
      BY <1>8, <2>2 DEF Running, At
    <3>3. \A v \in Versions : version[f[1]][v] # NoVersion => version'[f[1]][v] = version[f[1]][v]
      BY <1>6, <1>7, <3>1
    <3> QED BY <3>1, <3>2, <3>3 DEF Owned
  <2> QED BY <2>1, <2>2
<1> QED BY <1>8, <1>9, <1>10, <1>13, <1>14, <1>15, <1>16 DEF UploadInv, ClientOK

LEMMA CommitVersionKeeps ==
  ASSUME UploadInv, NEW c \in Clients, At(c, "stage"), CommitVersion(c), End(c),
         UNCHANGED redis, faults' \in 0..MaxFaults,
         \/ files' = files /\ lost' = lost
         \/ Discard(c) /\ lost' = lost \cup {c}
  PROVE  UploadInv'
<1> DEFINE d == Doc(c)
           a == Artifact(c)
<1>1. client[c].step = "stage" /\ client[c].step \in ActiveSteps
  BY DEF At, ActiveSteps
<1>2. /\ Running(c) /\ d \in Documents /\ a \in Clients \cup {Earlier} /\ VersionStep(c)
      /\ Content(c) \in Contents \cup {NoContent}
      /\ \A f \in files : f[2] = c => f[1] = d
  BY <1>1, Before DEF RequestOK
<1>3. /\ 1 \in Versions /\ Earlier \notin Clients
      /\ lost \subseteq Clients /\ files \subseteq Documents \X (Clients \cup {Earlier})
      /\ version \in [Documents -> [Versions -> [status: DocStatus, content: Contents \cup {NoContent},
                                                 artifact: Clients \cup {Earlier}]]]
      /\ client \in [Clients -> Request \cup Over]
  BY UploadAssumption DEF Versions, UploadInv, UploadTypeOK, ClientOK
<1> DEFINE V == [status |-> "uploaded", content |-> Content(c), artifact |-> a]
<1>4. PICK n \in Versions : IsNext(d, n) /\ version' = [version EXCEPT ![d][n] = V]
  BY DEF CommitVersion
<1>5. /\ V \in [status: DocStatus, content: Contents \cup {NoContent}, artifact: Clients \cup {Earlier}]
      /\ V # NoVersion /\ V.artifact = a /\ V.status # "none"
  BY <1>2 DEF DocStatus, NoVersion
<1>6. document[d] # NoDocument /\ version[d][1] # NoVersion /\ n # 1 /\ version[d][n] = NoVersion /\ document' = document
  BY <1>2, <1>4 DEF CommitVersion, Live, NoDocument, IsNext, UploadInv, RowsExist
<1> HIDE DEF d, a, V
<1>7. /\ version'[d][n] = V
      /\ \A x \in Documents, v \in Versions : <<x, v>> # <<d, n>> => version'[x][v] = version[x][v]
  BY <1>2, <1>3, <1>4
<1>8. /\ lost \subseteq lost' /\ lost' \subseteq Clients
      /\ \A e \in Clients \ {c} : client'[e] = client[e]
      /\ client' \in [Clients -> Request \cup Over]
      /\ client'[c].step = "done"
  BY <1>3 DEF End, Over
<1>9. files' \subseteq files /\ \A f \in files \ files' : f = <<d, c>> /\ a = c /\ c \in lost'
  <2>1. CASE files' = files
    BY <2>1
  <2>2. CASE Discard(c) /\ lost' = lost \cup {c}
    <3>1. a # c => <<d, c>> \notin files
      BY <1>2 DEF VersionStep, Wrote, a
    <3> QED BY <2>2, <3>1 DEF Discard, d
  <2> QED BY <2>1, <2>2
<1>10. UploadTypeOK'
  <2>1. \A e \in Clients : client'[e].step \in Steps
    BY <1>8 DEF UploadInv, UploadTypeOK, Steps
  <2>2. version' \in [Documents -> [Versions -> [status: DocStatus, content: Contents \cup {NoContent},
                                                 artifact: Clients \cup {Earlier}]]]
    BY <1>2, <1>3, <1>4, <1>5
  <2> QED BY <1>3, <1>6, <1>8, <1>9, <2>1, <2>2 DEF UploadInv, UploadTypeOK
<1>11. RowsExist'
  <2>1. \A x \in Documents, v \in Versions :
          /\ version'[x][v].status = "none" => version'[x][v] = NoVersion
          /\ version'[x][v] # NoVersion => document[x] # NoDocument
    BY <1>5, <1>6, <1>7 DEF UploadInv, RowsExist
  <2>2. \A x \in Documents : version'[x][1] = version[x][1]
    BY <1>3, <1>6, <1>7
  <2> QED BY <1>6, <2>1, <2>2 DEF UploadInv, RowsExist
<1>12. \A x \in Documents : InDoubt(x) => InDoubt(x)'
  BY <1>3, <1>6, <1>7, <1>8 DEF InDoubt
<1>13. \A e \in Clients \ {c} : Committed(e)' <=> Committed(e)
  <2> SUFFICES ASSUME NEW e \in Clients \ {c}
               PROVE  Committed(e)' <=> Committed(e)
    OBVIOUS
  <2>1. a # c => \E v \in Versions : version[d][v] # NoVersion /\ version[d][v].artifact = a
    BY <1>2 DEF VersionStep, a, d
  <2>2. a = e => Committed(e)
    BY <1>2, <2>1 DEF Committed
  <2>3. version[d][n].artifact # e
    BY <1>3, <1>6 DEF NoVersion
  <2>4. Committed(e)' => Committed(e)
    BY <1>5, <1>7, <2>2 DEF Committed
  <2>5. Committed(e) => Committed(e)'
    BY <1>7, <2>3 DEF Committed
  <2> QED BY <2>4, <2>5
<1>14. ASSUME NEW e \in Clients \ {c} PROVE RequestOK(e)'
  <2>1. /\ client'[e] = client[e] /\ (Doc(e))' = Doc(e) /\ (Artifact(e))' = Artifact(e)
        /\ Running(e)' <=> Running(e)
        /\ RequestOK(e)
        /\ Running(e) => Doc(e) \in Documents
    BY <1>8, RunningType DEF Doc, Artifact, Running, UploadInv
  <2>2. ASSUME Running(e), Fresh(e) PROVE Fresh(e)'
    <3>1. \A u \in Clients \ {e} : Running(u)' => (Doc(u))' # Doc(e)
      BY <1>8, <2>1, <2>2 DEF Fresh, Running, Doc
    <3> QED BY <1>6, <1>9, <1>13, <2>1, <2>2, <3>1 DEF Fresh
  <2>3. /\ Wrote(e)' => Wrote(e)
        /\ \A f \in files : f[2] = e => f \in files'
    BY <1>9 DEF Wrote
  <2>4. ASSUME client[e].step \in {"known", "owner", "stage"} PROVE VersionStep(e)'
    <3>1. VersionStep(e) /\ Running(e) /\ Doc(e) \in Documents
      BY <2>1, <2>4 DEF RequestOK, Running
    <3>2. \A v \in Versions : version[Doc(e)][v] # NoVersion => version'[Doc(e)][v] = version[Doc(e)][v]
      BY <1>6, <1>7, <3>1
    <3> QED BY <1>6, <1>12, <1>13, <2>1, <2>3, <3>1, <3>2 DEF VersionStep
  <2>5. client[e].step \in {"lookup", "create", "undo"} => Running(e)
    BY DEF Running
  <2>6. client[e].step \in {"lookup", "create"} => Fresh(e)' /\ <<Doc(e), e>> \in files'
    BY <2>1, <2>2, <2>3, <2>5 DEF RequestOK
  <2>7. client[e].step = "undo" => Fresh(e)' \/ InDoubt(Doc(e))'
    BY <1>12, <2>1, <2>2, <2>5 DEF RequestOK
  <2>8. Running(e) => \A f \in files' : f[2] = e => f[1] = Doc(e)
    BY <1>9, <2>1 DEF RequestOK
  <2> QED BY <1>13, <2>1, <2>3, <2>4, <2>6, <2>7, <2>8 DEF RequestOK
<1>15. RequestOK(c)'
  BY <1>8 DEF RequestOK, Running
<1>16. ArtifactsKept'
  <2> SUFFICES ASSUME NEW x \in Documents, NEW v \in Versions, version'[x][v] # NoVersion, ~Doubtful(x, v)'
               PROVE  <<x, version'[x][v].artifact>> \in files'
    BY DEF ArtifactsKept, Readable
  <2>0. version'[x][1] = version[x][1] /\ version'[x][1].artifact \notin lost' /\ version'[x][v].artifact \notin lost'
    BY <1>3, <1>6, <1>7 DEF Doubtful
  <2>1. ASSUME NEW u \in Versions, version[x][u] # NoVersion, version[x][u].artifact \notin lost'
        PROVE  <<x, version[x][u].artifact>> \in files'
    <3>1. ~Doubtful(x, u)
      BY <1>8, <2>0, <2>1 DEF Doubtful
    <3> QED BY <1>9, <2>1, <3>1 DEF UploadInv, ArtifactsKept, Readable
  <2>2. CASE <<x, v>> = <<d, n>>
    <3>1. version'[x][v].artifact = a /\ x = d
      BY <1>5, <1>7, <2>2
    <3>2. CASE a = c
      <4>1. <<d, c>> \in files
        BY <1>2, <1>8, <2>0, <3>1, <3>2 DEF VersionStep, InDoubt, a, d
      <4> QED BY <1>9, <2>0, <3>1, <3>2, <4>1
    <3>3. CASE a # c
      <4>1. PICK u \in Versions : version[d][u] # NoVersion /\ version[d][u].artifact = a
        BY <1>2, <3>3 DEF VersionStep, a, d
      <4> QED BY <2>0, <2>1, <3>1, <4>1
    <3> QED BY <3>2, <3>3
  <2>3. CASE <<x, v>> # <<d, n>>
    BY <1>7, <2>0, <2>1, <2>3
  <2> QED BY <2>2, <2>3
<1>17. NothingLeaks'
  <2> SUFFICES ASSUME NEW f \in files' PROVE Owned(f)'
    BY DEF NothingLeaks
  <2>1. f \in files /\ f[1] \in Documents
    BY <1>3, <1>9
  <2>2. CASE f[2] = c
    <3>1. f[1] = d /\ a = c
      BY <1>2, <2>1, <2>2 DEF VersionStep, Wrote, a
    <3> QED BY <1>5, <1>7, <2>2, <3>1 DEF Owned
  <2>3. CASE f[2] # c
    <3>1. Owned(f)
      BY <2>1 DEF UploadInv, NothingLeaks
    <3>2. f[2] \in Clients => (Running(f[2])' <=> Running(f[2])) /\ (At(f[2], "died")' <=> At(f[2], "died"))
      BY <1>8, <2>3 DEF Running, At
    <3>3. \A v \in Versions : version[f[1]][v] # NoVersion => version'[f[1]][v] = version[f[1]][v]
      BY <1>6, <1>7, <2>1
    <3> QED BY <3>1, <3>2, <3>3 DEF Owned
  <2> QED BY <2>2, <2>3
<1> QED BY <1>8, <1>10, <1>11, <1>14, <1>15, <1>16, <1>17 DEF UploadInv, ClientOK

LEMMA CreatingKeeps ==
  ASSUME UploadInv, NEW c \in Clients, CreateUpload(c) \/ CreateCollides(c) \/ CreateFails(c)
  PROVE  UploadInv'
<1>1. At(c, "create") /\ client[c].step \in ActiveSteps
  BY DEF CreateUpload, CreateCollides, CreateFails, At, ActiveSteps
<1>2. faults' \in 0..MaxFaults
  BY <1>1, Before DEF CreateUpload, CreateCollides, CreateFails
<1>3. CASE UNCHANGED rows
  <2>1. /\ Goto(c, "undo") \/ (CommitUpload(c) /\ document' = document)
        /\ UNCHANGED <<files, redis>>
    BY <1>3 DEF CreateUpload, CreateCollides, CreateFails, rows
  <2>2. ~(CommitUpload(c) /\ document' = document)
    <3>1. Fresh(c) /\ Doc(c) \in Documents /\ client[c].step = "create"
      BY <1>1, Before DEF RequestOK, At
    <3> QED BY <3>1 DEF Fresh, CommitUpload, NoDocument, UploadInv, UploadTypeOK
  <2>3. lost' = lost
    BY <1>3, <2>2 DEF CreateUpload, CreateCollides, CreateFails, rows
  <2> QED BY <1>1, <1>2, <1>3, <2>1, <2>2, <2>3, CreateKeeps
<1>4. CASE CommitUpload(c) /\ ((End(c) /\ lost' = lost) \/ (Goto(c, "undo") /\ lost' = lost \cup {c}))
  BY <1>1, <1>2, <1>4, CommitUploadKeeps DEF CreateUpload, CreateCollides, CreateFails
<1> QED BY <1>3, <1>4 DEF CreateUpload, CreateCollides, CreateFails

LEMMA StagingKeeps ==
  ASSUME UploadInv, NEW c \in Clients, CreateVersionUpload(c) \/ VersionFails(c)
  PROVE  UploadInv'
<1>1. At(c, "stage") /\ client[c].step = "stage" /\ client[c].step \in ActiveSteps /\ End(c) /\ redis' = redis
  BY DEF CreateVersionUpload, VersionFails, At, ActiveSteps
<1>2. faults' \in 0..MaxFaults
  BY <1>1, Before DEF CreateVersionUpload, VersionFails
<1>3. CASE UNCHANGED <<rows, lost>> /\ Discard(c)
  BY <1>1, <1>2, <1>3, DiscardKeeps
<1>4. CASE CommitVersion(c) /\ ((files' = files /\ lost' = lost) \/ (Discard(c) /\ lost' = lost \cup {c}))
  BY <1>1, <1>2, <1>4, CommitVersionKeeps
<1> QED BY <1>3, <1>4 DEF CreateVersionUpload, VersionFails

\* A request that begins has written nothing before, and writes at most its
\* own file to a directory no fresh upload uses.
LEMMA Begins ==
  ASSUME UploadInv, NEW c \in Clients, NEW s \in {"lookup", "known", "stage"}, NEW d \in Documents,
         NEW x \in Contents \cup {NoContent}, NEW a \in Clients \cup {Earlier},
         Begin(c, s, d, x, a), UNCHANGED <<rows, redis, lost, faults>>,
         files' = files \/ files' = files \cup {<<d, c>>},
         \A e \in Clients \ {c} : Running(e) /\ Fresh(e) => Doc(e) # d,
         s = "lookup" => a = c /\ Unused(d) /\ files' = files \cup {<<d, c>>},
         s = "known" => a = c /\ document[d] # NoDocument /\ files' = files \cup {<<d, c>>},
         s = "stage" => /\ document[d] # NoDocument /\ files' = files
                        /\ \E v \in Versions : version[d][v] # NoVersion /\ version[d][v].artifact = a
  PROVE  UploadInv'
<1> DEFINE r == [step |-> s, doc |-> d, content |-> x, artifact |-> a]
<1>1. r \in Request /\ r.step = s /\ r.doc = d /\ r.artifact = a
  BY DEF Request, ActiveSteps
<1>2. client' = [client EXCEPT ![c] = r] /\ client[c].step = "new" /\ client \in [Clients -> Request \cup Over]
  BY DEF Begin, At, UploadInv, ClientOK
<1> HIDE DEF r
<1>3. /\ client'[c] = r
      /\ \A e \in Clients \ {c} : client'[e] = client[e]
  BY <1>2
<1>4. (Doc(c))' = d /\ (Artifact(c))' = a /\ Running(c)' /\ client'[c].step = s
  BY <1>1, <1>3 DEF Doc, Artifact, Running
<1>5. ~Wrote(c) /\ ~Committed(c)
  BY <1>2 DEF UploadInv, RequestOK
<1>6. /\ ~Committed(c)' /\ RowsKept /\ RowsExist'
  BY <1>5, UnchangedRows
<1>7. UploadTypeOK'
  <2>1. \A e \in Clients : client'[e].step \in Steps
    BY <1>1, <1>3 DEF UploadInv, UploadTypeOK, Steps
  <2>2. files' \subseteq Documents \X (Clients \cup {Earlier})
    BY DEF UploadInv, UploadTypeOK
  <2> QED BY <2>1, <2>2 DEF UploadInv, UploadTypeOK, rows
<1>8. \A f \in files' : f[2] = c => f = <<d, c>>
  BY <1>5 DEF Wrote
<1>9. CASE s = "lookup"
  <2>1. /\ document'[d] = NoDocument
        /\ \A f \in files' : f[1] = d => f[2] = c
        /\ \A e \in Clients \ {c} : Running(e)' => (Doc(e))' # d
    BY <1>3, <1>9 DEF Unused, rows, Running, Doc
  <2>2. Fresh(c)' /\ <<d, c>> \in files'
    BY <1>4, <1>6, <1>9, <2>1 DEF Fresh
  <2>3. RequestOK(c)'
    BY <1>4, <1>8, <1>9, <2>2 DEF RequestOK
  <2> QED BY <1>1, <1>2, <1>4, <1>6, <1>7, <2>3, RequestKeeps
<1>10. CASE s # "lookup"
  <2>1. document'[d] # NoDocument
    BY <1>10 DEF rows
  <2>2. IF a = c THEN <<d, c>> \in files' \/ InDoubt(d)'
                 ELSE ~Wrote(c)' /\ \E v \in Versions : version'[d][v] # NoVersion /\ version'[d][v].artifact = a
    <3>1. CASE s = "known"
      BY <3>1
    <3>2. CASE s = "stage"
      <4>1. a # c
        BY <1>5, <3>2 DEF Committed
      <4>2. ~Wrote(c)'
        BY <1>5, <3>2 DEF Wrote
      <4> QED BY <3>2, <4>1, <4>2 DEF rows
    <3> QED BY <1>10, <3>1, <3>2
  <2>3. VersionStep(c)'
    BY <1>4, <1>6, <2>1, <2>2 DEF VersionStep
  <2>4. RequestOK(c)'
    BY <1>4, <1>8, <1>10, <2>3 DEF RequestOK
  <2> QED BY <1>1, <1>2, <1>4, <1>6, <1>7, <2>4, RequestKeeps
<1> QED BY <1>9, <1>10

LEMMA BeginningKeeps ==
  ASSUME UploadInv, NEW c \in Clients, Accept(c) \/ AcceptVersion(c) \/ Rebuild(c)
  PROVE  UploadInv'
<1>1. CASE Accept(c)
  <2>1. PICK d \in Documents, x \in Contents : Unused(d) /\ Begin(c, "lookup", d, x, c) /\ files' = files \cup {<<d, c>>}
    BY <1>1 DEF Accept
  <2>2. \A e \in Clients \ {c} : Running(e) /\ Fresh(e) => Doc(e) # d
    BY <2>1 DEF Unused
  <2> QED BY <1>1, <2>1, <2>2, Begins DEF Accept
<1>2. CASE AcceptVersion(c)
  <2>1. PICK d \in Documents, x \in Contents : Live(d) /\ Begin(c, "known", d, x, c) /\ files' = files \cup {<<d, c>>}
    BY <1>2 DEF AcceptVersion
  <2>2. document[d] # NoDocument
    BY <2>1 DEF Live, NoDocument
  <2>3. \A e \in Clients \ {c} : Running(e) /\ Fresh(e) => Doc(e) # d
    BY <2>2 DEF Fresh
  <2> QED BY <1>2, <2>1, <2>2, <2>3, Begins DEF AcceptVersion
<1>3. CASE Rebuild(c)
  <2>1. PICK d \in Documents, v \in Versions :
          <<d, v>> \in Active /\ Begin(c, "stage", d, version[d][v].content, version[d][v].artifact)
    BY <1>3 DEF Rebuild
  <2>2. document[d] # NoDocument /\ version[d][v] # NoVersion
    BY <2>1 DEF Active, NoDocument, NoVersion
  <2>3. \A e \in Clients \ {c} : Running(e) /\ Fresh(e) => Doc(e) # d
    BY <2>2 DEF Fresh
  <2>4. version[d][v].content \in Contents \cup {NoContent} /\ version[d][v].artifact \in Clients \cup {Earlier}
    BY DEF UploadInv, UploadTypeOK
  <2> QED BY <1>3, <2>1, <2>2, <2>3, <2>4, Begins DEF Rebuild
<1> QED BY <1>1, <1>2, <1>3

LEMMA CreateDeleteKeeps ==
  ASSUME UploadInv, NEW c \in Clients, CreateDelete(c)
  PROVE  UploadInv' /\ RowsKept
<1>1. PICK d \in Documents : Live(d) /\ At(c, "new") /\ End(c) /\ document' = [document EXCEPT ![d].status = "deleted"]
  BY DEF CreateDelete
<1>2. /\ document \in [Documents -> [status: DocStatus, current: 0..MaxVersion, hash: Contents \cup {NoContent}]]
      /\ client \in [Clients -> Request \cup Over]
      /\ document[d] # NoDocument
  BY <1>1 DEF UploadInv, UploadTypeOK, ClientOK, Live, NoDocument
<1>3. /\ document' \in [Documents -> [status: DocStatus, current: 0..MaxVersion, hash: Contents \cup {NoContent}]]
      /\ document'[d].status = "deleted" /\ document'[d] # NoDocument
      /\ \A x \in Documents \ {d} : document'[x] = document[x]
  BY <1>1, <1>2 DEF DocStatus, NoDocument
<1>4. RowsKept /\ RowsExist' /\ UNCHANGED <<version, files, redis, lost, faults>>
  BY <1>2, <1>3 DEF CreateDelete, RowsKept, RowsExist, UploadInv
<1> DEFINE r == [step |-> "done"]
<1>5. r \in Request \cup Over /\ client' = [client EXCEPT ![c] = r] /\ client'[c] = r /\ ~Running(c)'
  BY <1>1, <1>2 DEF End, Over, Running
<1>6. UploadTypeOK'
  <2>1. \A e \in Clients : client'[e].step \in Steps
    BY <1>2, <1>5 DEF UploadInv, UploadTypeOK, Steps
  <2> QED BY <1>3, <1>4, <2>1 DEF UploadInv, UploadTypeOK
<1>7. RequestOK(c)'
  BY <1>5 DEF RequestOK, Running
<1>8. \A f \in files' : f[2] # c
  BY <1>1, <1>4 DEF At, UploadInv, RequestOK, Wrote
<1> HIDE DEF r
<1>9. UploadInv'
  BY <1>4, <1>5, <1>6, <1>7, <1>8, RequestKeeps
<1> QED BY <1>4, <1>9

-----------------------------------------------------------------------------
(***************************************************************************)
(* The worker, crashes, and the invariant of uploads.                      *)
(***************************************************************************)
\* The worker changes what rows say, not which there are.
LEMMA WorkerKeeps ==
  ASSUME UploadInv, UNCHANGED <<files, client, lost>>, faults' \in 0..MaxFaults, redis' \subseteq Chunks,
         document' \in [Documents -> [status: DocStatus, current: 0..MaxVersion, hash: Contents \cup {NoContent}]],
         version' \in [Documents -> [Versions -> [status: DocStatus, content: Contents \cup {NoContent},
                                                  artifact: Clients \cup {Earlier}]]],
         RowsKept, RowsExist'
  PROVE  UploadInv'
<1>1. Earlier \notin Clients
  BY UploadAssumption
<1>2. /\ \A e \in Clients : RequestOK(e)'
      /\ ArtifactsKept'
      /\ \A f \in files' : Owned(f)'
  <2>1. /\ \A e \in Clients \ {Earlier} : client'[e] = client[e]
        /\ \A f \in files \ files' : (f[2] = Earlier /\ ~Committed(Earlier)) \/ InDoubt(f[1])
        /\ \A f \in files' \ files : Earlier \in Clients /\ Running(Earlier)' /\ f = <<(Doc(Earlier))', Earlier>>
    OBVIOUS
  <2>2. /\ \A e \in Clients \ {Earlier} : RequestOK(e)'
        /\ ArtifactsKept'
        /\ \A f \in files' : (Earlier \in Clients => f[2] # Earlier) => Owned(f)'
    BY <1>1, <2>1, OthersKeep
  <2> QED BY <1>1, <2>2
<1> QED BY <1>2 DEF UploadInv, ClientOK, NothingLeaks, UploadTypeOK

LEMMA IndexStepKeeps ==
  ASSUME UploadInv, NEW d \in Documents, NEW v \in Versions, IndexStep(d, v)
  PROVE  UploadInv' /\ RowsKept
<1> DEFINE DT == [status: DocStatus, current: 0..MaxVersion, hash: Contents \cup {NoContent}]
           VT == [status: DocStatus, content: Contents \cup {NoContent}, artifact: Clients \cup {Earlier}]
<1>1. /\ document \in [Documents -> DT] /\ version \in [Documents -> [Versions -> VT]]
      /\ redis \subseteq Chunks /\ faults \in 0..MaxFaults /\ v \in 0..MaxVersion
  BY UploadAssumption DEF UploadInv, UploadTypeOK, Versions
<1>2. version[d][v] \in VT
  BY <1>1
<1>3. IndexStep(d, v) => /\ UNCHANGED <<files, client, lost>> /\ faults' \in 0..MaxFaults /\ redis' \subseteq Chunks
  BY <1>1, UploadAssumption
     DEF IndexStep, ClaimIndexJob, Project, CompleteIndex, FailIndex, SetVersion, Fault, Chunks
<1>4. CASE Project(d, v)
  <2>1. UNCHANGED rows
    BY <1>4 DEF Project
  <2> QED BY <1>1, <1>3, <2>1, UnchangedRows, WorkerKeeps DEF rows
<1>5. CASE ClaimIndexJob(d, v) \/ CompleteIndex(d, v) \/ FailIndex(d, v)
  <2>1. version[d][v] # NoVersion /\ document[d] # NoDocument
    <3>1. version[d][v] # NoVersion \/ version[d][v].status \in {"uploaded", "parsing", "failed", "deleted"}
      BY <1>5 DEF ClaimIndexJob, CompleteIndex, FailIndex, UnderWay
    <3>2. version[d][v] # NoVersion
      BY <3>1 DEF NoVersion
    <3> QED BY <3>2 DEF UploadInv, RowsExist
  <2>2. PICK s \in {"parsing", "indexed", "failed"} : SetVersion(d, v, s)
    BY <1>5 DEF ClaimIndexJob, CompleteIndex, FailIndex
  <2> DEFINE w == [version[d][v] EXCEPT !.status = s]
  <2>3. w \in VT /\ w.status = s /\ w.content = version[d][v].content /\ w.artifact = version[d][v].artifact
    BY <1>2 DEF DocStatus
  <2>4. /\ version' \in [Documents -> [Versions -> VT]]
        /\ version'[d][v] = w
        /\ \A x \in Documents, u \in Versions : <<x, u>> # <<d, v>> => version'[x][u] = version[x][u]
    BY <1>1, <2>2, <2>3 DEF SetVersion
  <2>5. w # NoVersion /\ w.status # "none"
    BY <2>2, <2>3 DEF NoVersion
  <2>6. \/ document' = document
        \/ \E e \in DT : e.status # "none" /\ document' = [document EXCEPT ![d] = e]
    <3>1. CASE ClaimIndexJob(d, v) \/ FailIndex(d, v)
      <4>1. \A t \in {"parsing", "failed"} : [document[d] EXCEPT !.status = t] \in DT
                                             /\ [document[d] EXCEPT !.status = t].status # "none"
        BY <1>1 DEF DocStatus
      <4>2. \/ document' = document
            \/ \E t \in {"parsing", "failed"} : document' = [document EXCEPT ![d].status = t]
        BY <3>1 DEF ClaimIndexJob, FailIndex, Shows
      <4>3. \A t : [document EXCEPT ![d].status = t] = [document EXCEPT ![d] = [document[d] EXCEPT !.status = t]]
        BY <1>1
      <4> QED BY <4>1, <4>2, <4>3
    <3>2. CASE CompleteIndex(d, v)
      <4>1. /\ [status |-> "indexed", current |-> v, hash |-> version[d][v].content] \in DT
            /\ [status |-> "indexed", current |-> v, hash |-> version[d][v].content].status # "none"
        BY <1>1, <1>2 DEF DocStatus
      <4> QED BY <3>2, <4>1 DEF CompleteIndex, CompletionUpdates
    <3> QED BY <1>5, <3>1, <3>2
  <2>7. /\ document' \in [Documents -> DT]
        /\ document'[d].status # "none" /\ document'[d] # NoDocument
        /\ \A x \in Documents \ {d} : document'[x] = document[x]
    <3>1. document[d].status # "none"
      BY <2>1 DEF UploadInv, RowsExist
    <3> QED BY <1>1, <2>1, <2>6, <3>1 DEF NoDocument
  <2> HIDE DEF w, DT, VT
  <2>8. RowsKept
    BY <2>1, <2>3, <2>4, <2>5, <2>7 DEF RowsKept
  <2>9. RowsExist'
    <3>1. \A x \in Documents, u \in Versions : version'[x][u].status = "none" => version'[x][u] = NoVersion
      BY <2>4, <2>5 DEF UploadInv, RowsExist
    <3>2. \A x \in Documents : document'[x].status = "none" => document'[x] = NoDocument
      BY <2>7 DEF UploadInv, RowsExist
    <3>3. 1 \in Versions
      BY UploadAssumption DEF Versions
    <3> QED BY <2>8, <3>1, <3>2, <3>3 DEF UploadInv, RowsExist, RowsKept
  <2> QED BY <1>3, <2>4, <2>7, <2>8, <2>9, WorkerKeeps DEF DT, VT
<1> QED BY <1>4, <1>5 DEF IndexStep

LEMMA CompleteDeleteKeeps ==
  ASSUME UploadInv, NEW d \in Documents, CompleteDelete(d)
  PROVE  UploadInv' /\ RowsKept
<1> DEFINE VT == [status: DocStatus, content: Contents \cup {NoContent}, artifact: Clients \cup {Earlier}]
           Erased(u) == IF version[d][u] = NoVersion THEN NoVersion ELSE [version[d][u] EXCEPT !.status = "deleted"]
<1>1. version \in [Documents -> [Versions -> VT]] /\ 1 \in Versions
  BY UploadAssumption DEF UploadInv, UploadTypeOK, Versions
<1>2. ASSUME NEW u \in Versions
      PROVE  /\ Erased(u) \in VT
             /\ Erased(u).artifact = version[d][u].artifact /\ Erased(u).content = version[d][u].content
             /\ Erased(u) = NoVersion <=> version[d][u] = NoVersion
             /\ Erased(u).status = "none" => Erased(u) = NoVersion
  <2>1. version[d][u] \in VT
    BY <1>1
  <2>2. CASE version[d][u] = NoVersion
    BY <2>1, <2>2
  <2>3. CASE version[d][u] # NoVersion
    BY <2>1, <2>3 DEF DocStatus, NoVersion
  <2> QED BY <2>2, <2>3
<1>3. version' = [version EXCEPT ![d] = [u \in Versions |-> Erased(u)]]
  BY DEF CompleteDelete
<1> HIDE DEF Erased, VT
<1>4. /\ version' \in [Documents -> [Versions -> VT]]
      /\ \A u \in Versions : version'[d][u] = Erased(u)
      /\ \A x \in Documents \ {d} : version'[x] = version[x]
  BY <1>1, <1>2, <1>3
<1>5. UNCHANGED <<document, files, redis, client, lost, faults>>
  BY DEF CompleteDelete
<1>6. RowsKept
  BY <1>2, <1>4, <1>5 DEF RowsKept
<1>7. RowsExist'
  <2>1. \A x \in Documents, u \in Versions : version'[x][u].status = "none" => version'[x][u] = NoVersion
    BY <1>2, <1>4 DEF UploadInv, RowsExist
  <2> QED BY <1>1, <1>5, <1>6, <2>1 DEF UploadInv, RowsExist, RowsKept
<1>8. UploadInv'
  BY <1>4, <1>5, <1>6, <1>7, WorkerKeeps DEF VT, UploadInv, UploadTypeOK
<1> QED BY <1>6, <1>8

\* Whatever Redis loses or gains, rows and files stay.
LEMMA ProjectionKeeps ==
  ASSUME UploadInv,
         (\E d \in Documents : Erase(d)) \/ PruneStaleChunks \/ RebuildProjection \/ RedisLost
  PROVE  UploadInv' /\ RowsKept
<1>1. UNCHANGED <<rows, files, client, lost>> /\ redis' \subseteq Chunks /\ faults' \in 0..MaxFaults
  BY UploadAssumption
     DEF Erase, PruneStaleChunks, RebuildProjection, RedisLost, Fault, Indexed, Active, UploadInv, UploadTypeOK
<1> QED BY <1>1, UnchangedRows, WorkerKeeps DEF rows, UploadInv, UploadTypeOK

LEMMA ApiCrashKeeps ==
  ASSUME UploadInv, ApiCrash
  PROVE  UploadInv' /\ RowsKept
<1>1. /\ client \in [Clients -> Request \cup Over] /\ [step |-> "died"] \in Over
      /\ UNCHANGED <<rows, files, redis, lost>> /\ faults' \in 0..MaxFaults
      /\ client' = [c \in Clients |-> IF Running(c) THEN [step |-> "died"] ELSE client[c]]
  BY UploadAssumption DEF UploadInv, ClientOK, Over, ApiCrash, Fault, UploadTypeOK
<1>2. \A c \in Clients : /\ client'[c] \in Request \cup Over
                         /\ client'[c].step \in {"new", "done", "died"}
                         /\ client'[c].step = "new" => client[c].step = "new"
                         /\ Running(c) \/ At(c, "died") => client'[c].step = "died"
  BY <1>1 DEF Running, At
<1>3. UploadTypeOK'
  <2>1. \A e \in Clients : client'[e].step \in Steps
    BY <1>2 DEF Steps
  <2> QED BY <1>1, <2>1 DEF UploadInv, UploadTypeOK, rows
<1>4. RowsKept /\ RowsExist' /\ \A c : Committed(c)' <=> Committed(c)
  BY <1>1, UnchangedRows
<1>5. \A c \in Clients : RequestOK(c)'
  BY <1>1, <1>2, <1>4 DEF UploadInv, RequestOK, Running, Wrote
<1>6. ArtifactsKept' /\ NothingLeaks'
  <2>1. \A f \in files : Owned(f) => Owned(f)'
    BY <1>1, <1>2 DEF Owned, rows, At
  <2> QED BY <1>1, <2>1 DEF UploadInv, ArtifactsKept, NothingLeaks, Doubtful, Readable, rows
<1>7. ClientOK'
  BY <1>1, <1>2 DEF ClientOK
<1> QED BY <1>3, <1>4, <1>5, <1>6, <1>7 DEF UploadInv

LEMMA UploadInitially == UploadInit => UploadInv
<1> SUFFICES ASSUME UploadInit PROVE UploadInv
  OBVIOUS
<1>1. PICK stored \in {{}} \cup {{d} : d \in Documents} :
        /\ document = [d \in Documents |->
             IF d \in stored THEN [status |-> "indexed", current |-> 1, hash |-> OldContent] ELSE NoDocument]
        /\ version = [d \in Documents |-> [v \in Versions |->
             IF d \in stored /\ v = 1 THEN [status |-> "indexed", content |-> OldContent, artifact |-> Earlier]
                                    ELSE NoVersion]]
        /\ files = stored \X {Earlier} /\ redis = stored \X {1}
  BY DEF UploadInit
<1>2. /\ client = [c \in Clients |-> Nothing] /\ lost = {} /\ faults = 0 /\ stored \subseteq Documents
      /\ 1 \in Versions /\ 1 \in 0..MaxVersion /\ 0 \in 0..MaxVersion /\ 0 \in 0..MaxFaults
      /\ OldContent \in Contents /\ Earlier \notin Clients
  BY UploadAssumption DEF UploadInit, Versions
<1>3. \A c \in Clients : client[c].step = "new" /\ ~Running(c) /\ client[c] \in Over
  BY <1>2 DEF Nothing, Running, Over
<1>4. /\ \A d \in Documents \ stored : document[d] = NoDocument
      /\ \A d \in stored : document[d] = [status |-> "indexed", current |-> 1, hash |-> OldContent]
      /\ \A d \in Documents, v \in Versions : ~(d \in stored /\ v = 1) => version[d][v] = NoVersion
      /\ \A d \in stored : version[d][1] = [status |-> "indexed", content |-> OldContent, artifact |-> Earlier]
  BY <1>1, <1>2
<1>5. UploadTypeOK
  <2>1. document \in [Documents -> [status: DocStatus, current: 0..MaxVersion, hash: Contents \cup {NoContent}]]
    BY <1>1, <1>2 DEF DocStatus, NoDocument
  <2>2. version \in [Documents -> [Versions -> [status: DocStatus, content: Contents \cup {NoContent},
                                                artifact: Clients \cup {Earlier}]]]
    BY <1>1, <1>2 DEF DocStatus, NoVersion
  <2>3. files \subseteq Documents \X (Clients \cup {Earlier}) /\ redis \subseteq Chunks
    BY <1>1, <1>2 DEF Chunks
  <2> QED BY <1>2, <1>3, <2>1, <2>2, <2>3 DEF UploadTypeOK, Steps
<1>6. ClientOK
  BY <1>2, <1>3 DEF ClientOK
<1>7. RowsExist
  BY <1>2, <1>4 DEF RowsExist, NoDocument, NoVersion
<1>8. \A d \in Documents, v \in Versions : version[d][v].artifact = Earlier
  BY <1>4 DEF NoVersion
<1>9. \A f \in files : f[1] \in stored /\ f[2] = Earlier
  BY <1>1
<1>10. \A c \in Clients : RequestOK(c)
  BY <1>2, <1>3, <1>8, <1>9 DEF RequestOK, Wrote, Committed
<1>11. ArtifactsKept
  <2> SUFFICES ASSUME NEW d \in Documents, NEW v \in Versions, version[d][v] # NoVersion
               PROVE  <<d, version[d][v].artifact>> \in files
    BY DEF ArtifactsKept, Readable
  <2>1. d \in stored
    BY <1>4
  <2> QED BY <1>1, <1>8, <2>1
<1>12. NothingLeaks
  <2> SUFFICES ASSUME NEW f \in files PROVE Owned(f)
    BY DEF NothingLeaks
  <2>1. f[1] \in stored /\ f[2] = Earlier /\ version[f[1]][1] # NoVersion
    BY <1>4, <1>9 DEF NoVersion
  <2>2. version[f[1]][1].artifact = f[2]
    BY <1>2, <1>8, <2>1
  <2> QED BY <1>2, <2>1, <2>2 DEF Owned
<1> QED BY <1>5, <1>6, <1>7, <1>10, <1>11, <1>12 DEF UploadInv

\* What a version holds never changes.
ContentKept == \A d \in Documents, v \in Versions : version[d][v] # NoVersion =>
  version'[d][v] # NoVersion /\ version'[d][v].content = version[d][v].content

LEMMA CommitContent ==
  ASSUME UploadInv, NEW c \in Clients,
         \/ At(c, "create") /\ CommitUpload(c)
         \/ At(c, "stage") /\ CommitVersion(c)
  PROVE  ContentKept
<1>1. client[c].step \in ActiveSteps
  BY DEF At, ActiveSteps
<1>2. Doc(c) \in Documents /\ RequestOK(c) /\ 1 \in Versions
  BY <1>1, Before, UploadAssumption DEF Versions
<1>3. PICK n \in Versions :
        version[Doc(c)][n] = NoVersion /\ \E V : version' = [version EXCEPT ![Doc(c)][n] = V]
  <2>1. CASE At(c, "create") /\ CommitUpload(c)
    <3>1. version[Doc(c)][1] = NoVersion
      BY <1>2, <2>1 DEF At, RequestOK, Fresh, UploadInv, RowsExist
    <3> QED BY <1>2, <2>1, <3>1 DEF CommitUpload
  <2>2. CASE At(c, "stage") /\ CommitVersion(c)
    BY <2>2 DEF CommitVersion, IsNext
  <2> QED BY <2>1, <2>2
<1>4. \A d \in Documents, v \in Versions : <<d, v>> # <<Doc(c), n>> => version'[d][v] = version[d][v]
  BY <1>2, <1>3 DEF UploadInv, UploadTypeOK
<1> QED BY <1>3, <1>4 DEF ContentKept

LEMMA RowsKeptContent == RowsKept => ContentKept
BY DEF RowsKept, ContentKept

LEMMA RequestStepKeeps ==
  ASSUME UploadInv, NEW c \in Clients, RequestStep(c)
  PROVE  UploadInv' /\ ContentKept
<1>1. CASE Accept(c) \/ AcceptVersion(c) \/ Rebuild(c)
  <2>1. UNCHANGED rows
    BY <1>1 DEF Accept, AcceptVersion, Rebuild
  <2> QED BY <1>1, <2>1, BeginningKeeps, UnchangedRows, RowsKeptContent
<1>2. CASE FindByContentHash(c) \/ LookupFails(c)
  <2>1. UNCHANGED rows
    BY <1>2 DEF FindByContentHash, LookupFails
  <2> QED BY <1>2, <2>1, FindByContentHashKeeps, UnchangedRows, RowsKeptContent
<1>3. CASE CreateUpload(c) \/ CreateCollides(c) \/ CreateFails(c)
  <2>1. UNCHANGED rows \/ (At(c, "create") /\ CommitUpload(c))
    BY <1>3 DEF CreateUpload, CreateCollides, CreateFails
  <2> QED BY <1>3, <2>1, CreatingKeeps, CommitContent, UnchangedRows, RowsKeptContent
<1>4. CASE Undo(c)
  <2>1. UNCHANGED rows
    BY <1>4 DEF Undo
  <2> QED BY <1>4, <2>1, UndoingKeeps, UnchangedRows, RowsKeptContent
<1>5. CASE FindOriginal(c)
  <2>1. UNCHANGED rows
    BY <1>5 DEF FindOriginal
  <2> QED BY <1>5, <2>1, FindOriginalKeeps, UnchangedRows, RowsKeptContent
<1>6. CASE FindVersionByContentHash(c) \/ FindOwner(c) \/ FindFails(c)
  <2>1. UNCHANGED rows
    BY <1>6 DEF FindVersionByContentHash, FindOwner, FindFails
  <2> QED BY <1>6, <2>1, FindVersionKeeps, UnchangedRows, RowsKeptContent
<1>7. CASE CreateVersionUpload(c) \/ VersionFails(c)
  <2>1. UNCHANGED rows \/ (At(c, "stage") /\ CommitVersion(c))
    BY <1>7 DEF CreateVersionUpload, VersionFails
  <2> QED BY <1>7, <2>1, StagingKeeps, CommitContent, UnchangedRows, RowsKeptContent
<1>8. CASE CreateDelete(c)
  BY <1>8, CreateDeleteKeeps, RowsKeptContent
<1> QED BY <1>1, <1>2, <1>3, <1>4, <1>5, <1>6, <1>7, <1>8 DEF RequestStep

LEMMA UploadStepKeeps ==
  ASSUME UploadInv, UploadNext \/ ApiCrash
  PROVE  UploadInv' /\ ContentKept
<1>1. CASE \E c \in Clients : RequestStep(c)
  BY <1>1, RequestStepKeeps
<1>2. CASE \E d \in Documents : (\E v \in Versions : IndexStep(d, v)) \/ CompleteDelete(d)
  BY <1>2, IndexStepKeeps, CompleteDeleteKeeps, RowsKeptContent
<1>3. CASE (\E d \in Documents : Erase(d)) \/ PruneStaleChunks \/ RebuildProjection \/ RedisLost
  BY <1>3, ProjectionKeeps, RowsKeptContent
<1>4. CASE ApiCrash
  BY <1>4, ApiCrashKeeps, RowsKeptContent
<1> QED BY <1>1, <1>2, <1>3, <1>4 DEF UploadNext

LEMMA UploadStutters ==
  ASSUME UploadInv, UNCHANGED uploadVars
  PROVE  UploadInv' /\ ContentKept /\ Active' = Active
<1>1. UNCHANGED <<document, version, files, redis, client, lost, faults>>
  BY DEF uploadVars
<1>2. /\ UploadTypeOK' /\ ClientOK' /\ RowsExist' /\ ArtifactsKept' /\ NothingLeaks'
      /\ \A c \in Clients : RequestOK(c)'
  <2>1. \A c \in Clients : RequestOK(c)'
    BY <1>1 DEF UploadInv, RequestOK, VersionStep, Fresh, InDoubt, Wrote, Committed, Running, Doc, Artifact
  <2>2. NothingLeaks' /\ ArtifactsKept'
    BY <1>1 DEF UploadInv, NothingLeaks, Owned, Running, At, ArtifactsKept, Doubtful, Readable
  <2> QED BY <1>1, <2>1, <2>2 DEF UploadInv, UploadTypeOK, ClientOK, RowsExist
<1> QED BY <1>1, <1>2 DEF UploadInv, ContentKept, Active

-----------------------------------------------------------------------------
(***************************************************************************)
(* Rows and chunks: uploads, candidates, deletions and the abstracted      *)
(* worker take the steps of IndexedDocuments.                              *)
(***************************************************************************)
\* What requests do to rows, none of them touching Redis.
LEMMA RequestRows ==
  ASSUME NEW c \in Clients, RequestStep(c)
  PROVE  /\ redis' = redis
         /\ \/ UNCHANGED rows
            \/ At(c, "create") /\ CommitUpload(c)
            \/ At(c, "stage") /\ CommitVersion(c)
            \/ CreateDelete(c)
<1>1. CASE Accept(c) \/ AcceptVersion(c) \/ Rebuild(c)
  BY <1>1 DEF Accept, AcceptVersion, Rebuild
<1>2. CASE FindByContentHash(c) \/ LookupFails(c) \/ Undo(c) \/ FindOriginal(c)
  BY <1>2 DEF FindByContentHash, LookupFails, Undo, FindOriginal
<1>3. CASE CreateUpload(c) \/ CreateCollides(c) \/ CreateFails(c)
  BY <1>3 DEF CreateUpload, CreateCollides, CreateFails
<1>4. CASE FindVersionByContentHash(c) \/ FindOwner(c) \/ FindFails(c)
  BY <1>4 DEF FindVersionByContentHash, FindOwner, FindFails
<1>5. CASE CreateVersionUpload(c) \/ VersionFails(c)
  BY <1>5 DEF CreateVersionUpload, VersionFails
<1>6. CASE CreateDelete(c)
  BY <1>6 DEF CreateDelete
<1> QED BY <1>1, <1>2, <1>3, <1>4, <1>5, <1>6 DEF RequestStep

\* Writing one row is writing what is shown of it.
LEMMA VersionShown ==
  ASSUME UploadInv, NEW d \in Documents, NEW v \in Versions, NEW w,
         version' = [version EXCEPT ![d][v] = w]
  PROVE  ShownVersion' = [ShownVersion EXCEPT ![d][v] = w.status]
<1>1. \A x \in Documents, u \in Versions :
        version'[x][u] = IF x = d /\ u = v THEN w ELSE version[x][u]
  BY DEF UploadInv, UploadTypeOK
<1>2. \A x \in Documents, u \in Versions :
        [ShownVersion EXCEPT ![d][v] = w.status][x][u] = version'[x][u].status
  BY <1>1 DEF ShownVersion
<1>3. \A x \in Documents :
        [ShownVersion EXCEPT ![d][v] = w.status][x] = [u \in Versions |-> version'[x][u].status]
  BY <1>2 DEF ShownVersion
<1> QED BY <1>3 DEF ShownVersion

LEMMA DocumentShown ==
  ASSUME UploadInv, NEW d \in Documents, NEW e,
         document' = [document EXCEPT ![d] = e]
  PROVE  ShownDocument' = [ShownDocument EXCEPT ![d] = [status |-> e.status, current |-> e.current]]
<1>1. \A x \in Documents : document'[x] = IF x = d THEN e ELSE document[x]
  BY DEF UploadInv, UploadTypeOK
<1> QED BY <1>1 DEF ShownDocument

\* The worker's two ways to write a status.
LEMMA StatusShown ==
  ASSUME UploadInv, NEW d \in Documents, NEW v \in Versions, NEW s \in DocStatus
  PROVE  /\ SetVersion(d, v, s) => Index!SetVersion(d, v, s)
         /\ Shows(d, s) => Index!Shows(d, s)
         /\ UNCHANGED document => ShownDocument' = ShownDocument
         /\ UNCHANGED version => ShownVersion' = ShownVersion
<1> DEFINE w == [version[d][v] EXCEPT !.status = s]
           e == [document[d] EXCEPT !.status = s]
<1>1. /\ document[d] \in [status: DocStatus, current: 0..MaxVersion, hash: Contents \cup {NoContent}]
      /\ version[d][v] \in [status: DocStatus, content: Contents \cup {NoContent}, artifact: Clients \cup {Earlier}]
      /\ DOMAIN document = Documents /\ DOMAIN version = Documents /\ DOMAIN version[d] = Versions
  BY DEF UploadInv, UploadTypeOK
<1>2. w.status = s /\ e.status = s /\ e.current = document[d].current
  BY <1>1
<1>3. ASSUME SetVersion(d, v, s) PROVE Index!SetVersion(d, v, s)
  <2>1. version' = [version EXCEPT ![d][v] = w]
    BY <1>3 DEF SetVersion
  <2>2. ShownVersion' = [ShownVersion EXCEPT ![d][v] = s]
    BY <1>2, <2>1, VersionShown
  <2> QED BY <2>2 DEF Index!SetVersion
<1>4. ASSUME Shows(d, s) PROVE Index!Shows(d, s)
  <2>1. document' = [document EXCEPT ![d] = e]
    BY <1>4 DEF Shows
  <2>2. ShownDocument' = [ShownDocument EXCEPT ![d] = [status |-> s, current |-> document[d].current]]
    BY <1>2, <2>1, DocumentShown
  <2> QED BY <2>2 DEF Index!Shows, ShownDocument
<1> QED BY <1>3, <1>4 DEF ShownDocument, ShownVersion

LEMMA GuardsShown ==
  ASSUME UploadInv, NEW d \in Documents
  PROVE  /\ Index!Versions = Versions /\ Index!Chunks = Chunks
         /\ Index!Live(d) <=> Live(d)
         /\ Index!Pending(d) <=> Pending(d)
         /\ Active \subseteq Index!Indexed
         /\ Index!Active = Active
         /\ ShownDocument[d].status = document[d].status /\ ShownDocument[d].current = document[d].current
         /\ \A v \in Versions : ShownVersion[d][v] = version[d][v].status
         /\ \A v \in Versions : version[d][v] = NoVersion <=> version[d][v].status = "none"
<1>1. Index!Versions = Versions
  BY DEF Index!Versions, Versions
<1>2. Index!Chunks = Chunks
  BY <1>1 DEF Index!Chunks, Chunks
<1>3. Index!Indexed = {p \in Chunks : version[p[1]][p[2]].status = "indexed"}
  BY <1>1, <1>2 DEF Index!Indexed, Chunks, ShownVersion
<1>4. Index!Active = Active /\ Active \subseteq Index!Indexed
  BY <1>1, <1>2, <1>3 DEF Index!Active, Active, Chunks, ShownDocument
<1>5. Index!Pending(d) <=> Pending(d)
  BY <1>1 DEF Index!Pending, Pending, ShownVersion
<1> QED BY <1>1, <1>2, <1>4, <1>5 DEF Index!Live, Live, ShownDocument, ShownVersion, UploadInv, RowsExist, NoVersion

\* A step of the documents, or one that leaves what is shown of them.
DocumentStep == Index!Next \/ UNCHANGED <<ShownDocument, ShownVersion, redis>>

LEMMA RequestImplements ==
  ASSUME UploadInv, NEW c \in Clients, RequestStep(c)
  PROVE  DocumentStep
<1>1. redis' = redis
  BY RequestRows
<1>2. CASE UNCHANGED rows
  BY <1>1, <1>2 DEF rows, DocumentStep, ShownDocument, ShownVersion
<1>3. CASE At(c, "create") /\ CommitUpload(c)
  <2> DEFINE d == Doc(c)
             e == [status |-> "uploaded", current |-> 1, hash |-> Content(c)]
             w == [status |-> "uploaded", content |-> Content(c), artifact |-> Artifact(c)]
  <2>1. d \in Documents /\ document[d] = NoDocument
    BY <1>3, Before DEF At, ActiveSteps, RequestOK, Fresh
  <2>2. document' = [document EXCEPT ![d] = e] /\ version' = [version EXCEPT ![d][1] = w]
    BY <1>3 DEF CommitUpload
  <2>3. 1 \in Versions /\ e.status = "uploaded" /\ e.current = 1 /\ w.status = "uploaded"
    BY UploadAssumption DEF Versions
  <2> HIDE DEF d, e, w
  <2>4. ShownDocument' = [ShownDocument EXCEPT ![d] = [status |-> "uploaded", current |-> 1]]
    BY <2>1, <2>2, <2>3, DocumentShown
  <2>5. ShownVersion' = [ShownVersion EXCEPT ![d][1] = "uploaded"]
    BY <2>1, <2>2, <2>3, VersionShown
  <2>6. ShownDocument[d].status = "none"
    BY <2>1, GuardsShown DEF NoDocument
  <2>7. Index!Upload(d)
    BY <1>1, <2>4, <2>5, <2>6 DEF Index!Upload, Index!SetVersion
  <2> QED BY <2>1, <2>7 DEF DocumentStep, Index!Next
<1>4. CASE At(c, "stage") /\ CommitVersion(c)
  <2> DEFINE d == Doc(c)
             w == [status |-> "uploaded", content |-> Content(c), artifact |-> Artifact(c)]
  <2>1. d \in Documents
    BY <1>4, Before DEF At, ActiveSteps
  <2>2. PICK v \in Versions : IsNext(d, v) /\ version' = [version EXCEPT ![d][v] = w]
    BY <1>4 DEF CommitVersion
  <2>3. Live(d) /\ document' = document /\ w.status = "uploaded"
    BY <1>4 DEF CommitVersion
  <2> HIDE DEF d, w
  <2>4. ShownVersion' = [ShownVersion EXCEPT ![d][v] = "uploaded"]
    BY <2>1, <2>2, <2>3, VersionShown
  <2>5. ShownDocument' = ShownDocument
    BY <2>3 DEF ShownDocument
  <2>6. /\ Index!Live(d) /\ ShownVersion[d][v] = "none"
        /\ \A u \in Index!Versions : u < v => ShownVersion[d][u] # "none"
    BY <2>1, <2>2, <2>3, GuardsShown DEF IsNext
  <2>7. Index!Stage(d, v)
    BY <1>1, <2>4, <2>5, <2>6 DEF Index!Stage, Index!SetVersion
  <2>8. v \in Index!Versions
    BY <2>1, GuardsShown
  <2> QED BY <2>1, <2>7, <2>8 DEF DocumentStep, Index!Next
<1>5. CASE CreateDelete(c)
  <2>1. PICK d \in Documents :
          Live(d) /\ ~Pending(d) /\ document' = [document EXCEPT ![d].status = "deleted"] /\ version' = version
    BY <1>5 DEF CreateDelete
  <2>2. 1 \in Versions /\ "deleted" \in DocStatus /\ Shows(d, "deleted")
    BY <2>1, UploadAssumption DEF Versions, DocStatus, Shows
  <2>3. Index!Shows(d, "deleted") /\ ShownVersion' = ShownVersion
    BY <2>1, <2>2, StatusShown
  <2>4. Index!Delete(d)
    BY <1>1, <2>1, <2>3, GuardsShown DEF Index!Delete
  <2> QED BY <2>1, <2>4 DEF DocumentStep, Index!Next
<1> QED BY <1>2, <1>3, <1>4, <1>5, RequestRows

LEMMA IndexStepImplements ==
  ASSUME UploadInv, NEW d \in Documents, NEW v \in Versions, IndexStep(d, v)
  PROVE  DocumentStep
<1>1. /\ v \in Index!Versions
      /\ Index!Live(d) <=> Live(d)
      /\ ShownDocument[d].status = document[d].status /\ ShownDocument[d].current = document[d].current
      /\ ShownVersion[d][v] = version[d][v].status
      /\ version[d][v] = NoVersion <=> version[d][v].status = "none"
  BY GuardsShown
<1>2. /\ \A s \in {"parsing", "failed"} : Shows(d, s) => Index!Shows(d, s)
      /\ \A s \in {"parsing", "failed", "indexed"} : SetVersion(d, v, s) => Index!SetVersion(d, v, s)
      /\ UNCHANGED document => ShownDocument' = ShownDocument
      /\ UNCHANGED version => ShownVersion' = ShownVersion
  BY StatusShown DEF DocStatus
<1>3. CASE ClaimIndexJob(d, v)
  <2>1. Index!Claim(d, v)
    <3>1. /\ Index!Live(d) /\ ShownVersion[d][v] \notin {"none", "indexed"}
          /\ Index!SetVersion(d, v, "parsing") /\ redis' = redis
      BY <1>1, <1>2, <1>3 DEF ClaimIndexJob
    <3>2. IF ShownDocument[d].current = v /\ ShownDocument[d].status # "indexed"
            THEN Index!Shows(d, "parsing") ELSE ShownDocument' = ShownDocument
      BY <1>1, <1>2, <1>3 DEF ClaimIndexJob
    <3> QED BY <3>1, <3>2 DEF Index!Claim
  <2> QED BY <1>1, <2>1 DEF DocumentStep, Index!Next
<1>4. CASE Project(d, v)
  <2>1. Index!Project(d, v)
    <3>1. /\ Index!Live(d) /\ ShownVersion[d][v] = "parsing"
          /\ redis' = redis \cup {<<d, v>>} /\ ShownDocument' = ShownDocument /\ ShownVersion' = ShownVersion
      BY <1>1, <1>2, <1>4 DEF Project, UnderWay, rows
    <3> QED BY <3>1 DEF Index!Project
  <2> QED BY <1>1, <2>1 DEF DocumentStep, Index!Next
<1>5. CASE CompleteIndex(d, v)
  <2>1. /\ Index!Live(d) /\ ShownVersion[d][v] = "parsing" /\ <<d, v>> \in redis
        /\ Index!SetVersion(d, v, "indexed") /\ redis' = redis
    BY <1>1, <1>2, <1>5 DEF CompleteIndex, UnderWay
  <2>2. ShownDocument' = IF v >= ShownDocument[d].current
                           THEN [ShownDocument EXCEPT ![d] = [status |-> "indexed", current |-> v]] ELSE ShownDocument
    <3>1. CASE Promotes(d, v)
      <4>1. /\ document' = [document EXCEPT ![d] = CompletionUpdates(d, v)]
            /\ CompletionUpdates(d, v).status = "indexed" /\ CompletionUpdates(d, v).current = v
        BY <1>5, <3>1 DEF CompleteIndex, CompletionUpdates
      <4>2. ShownDocument' = [ShownDocument EXCEPT ![d] = [status |-> "indexed", current |-> v]]
        BY <4>1, DocumentShown
      <4> QED BY <1>1, <3>1, <4>2 DEF Promotes
    <3>2. CASE ~Promotes(d, v)
      BY <1>1, <1>2, <1>5, <3>2 DEF CompleteIndex, Promotes
    <3> QED BY <3>1, <3>2
  <2>3. Index!Complete(d, v)
    BY <2>1, <2>2 DEF Index!Complete
  <2> QED BY <1>1, <2>3 DEF DocumentStep, Index!Next
<1>6. CASE FailIndex(d, v)
  <2>1. PICK s \in {"parsing", "failed"} :
          /\ SetVersion(d, v, s)
          /\ IF Promotes(d, v) /\ (document[d].current = v \/ document[d].status # "indexed")
               THEN Shows(d, s) ELSE UNCHANGED document
    BY <1>6 DEF FailIndex
  <2>2. ShownVersion[d][v] # "none" /\ Index!SetVersion(d, v, s) /\ redis' = redis
    BY <1>1, <1>2, <1>6, <2>1 DEF FailIndex
  <2>3. IF v >= ShownDocument[d].current /\ (v = ShownDocument[d].current \/ ShownDocument[d].status # "indexed")
          THEN Index!Shows(d, s) ELSE ShownDocument' = ShownDocument
    BY <1>1, <1>2, <2>1 DEF Promotes
  <2>4. Index!RecordFailure(d, v, s)
    BY <2>2, <2>3 DEF Index!RecordFailure
  <2> QED BY <1>1, <2>4 DEF DocumentStep, Index!Next
<1> QED BY <1>3, <1>4, <1>5, <1>6 DEF IndexStep

LEMMA CleanupImplements ==
  ASSUME UploadInv, NEW d \in Documents, Erase(d) \/ CompleteDelete(d)
  PROVE  DocumentStep
<1>1. Index!Versions = Versions /\ ShownDocument[d].status = "deleted"
  BY GuardsShown DEF Erase, CompleteDelete
<1>2. CASE Erase(d)
  <2>1. {p \in redis : p[1] # d} = redis \ ({d} \X Versions)
    BY DEF UploadInv, UploadTypeOK, Chunks
  <2>2. redis' = redis \ ({d} \X Versions) /\ ({d} \X Versions) \in SUBSET ({d} \X Index!Versions)
    BY <1>1, <1>2, <2>1 DEF Erase
  <2>3. ShownDocument' = ShownDocument /\ ShownVersion' = ShownVersion
    BY <1>2 DEF Erase, rows, ShownDocument, ShownVersion
  <2>4. Index!Erase(d)
    BY <1>1, <2>2, <2>3 DEF Index!Erase
  <2> QED BY <2>4 DEF DocumentStep, Index!Next
<1>3. CASE CompleteDelete(d)
  <2> DEFINE Gone(u) == IF version[d][u] = NoVersion THEN NoVersion ELSE [version[d][u] EXCEPT !.status = "deleted"]
             Shown(u) == IF ShownVersion[d][u] = "none" THEN "none" ELSE "deleted"
  <2>1. version' = [version EXCEPT ![d] = [u \in Versions |-> Gone(u)]]
    BY <1>3 DEF CompleteDelete
  <2>2. \A u \in Versions : Gone(u).status = Shown(u)
    <3> SUFFICES ASSUME NEW u \in Versions PROVE Gone(u).status = Shown(u)
      OBVIOUS
    <3>1. version[d][u] \in [status: DocStatus, content: Contents \cup {NoContent}, artifact: Clients \cup {Earlier}]
      BY DEF UploadInv, UploadTypeOK
    <3>2. version[d][u] = NoVersion <=> ShownVersion[d][u] = "none"
      BY GuardsShown
    <3> QED BY <3>1, <3>2 DEF NoVersion
  <2> HIDE DEF Gone, Shown
  <2>3. \A x \in Documents : version'[x] = IF x = d THEN [u \in Versions |-> Gone(u)] ELSE version[x]
    BY <2>1 DEF UploadInv, UploadTypeOK
  <2>4. ShownVersion' = [ShownVersion EXCEPT ![d] = [u \in Versions |-> Shown(u)]]
    <3>1. \A x \in Documents : ShownVersion'[x] = IF x = d THEN [u \in Versions |-> Shown(u)] ELSE ShownVersion[x]
      BY <2>2, <2>3 DEF ShownVersion
    <3>2. DOMAIN ShownVersion' = Documents /\ ShownVersion' = [x \in Documents |-> ShownVersion'[x]]
          /\ ShownVersion = [x \in Documents |-> ShownVersion[x]]
      BY DEF ShownVersion
    <3> HIDE DEF ShownVersion
    <3> QED BY <3>1, <3>2
  <2>5. \A v \in Versions : <<d, v>> \notin redis
    BY <1>3 DEF CompleteDelete
  <2>6. redis' = redis /\ ShownDocument' = ShownDocument
    BY <1>3 DEF CompleteDelete, ShownDocument
  <2>7. ShownVersion' = [ShownVersion EXCEPT ![d] =
                           [u \in Versions |-> IF ShownVersion[d][u] = "none" THEN "none" ELSE "deleted"]]
    BY <2>4 DEF Shown
  <2>8. Index!CompleteDelete(d)
    BY <1>1, <2>5, <2>6, <2>7 DEF Index!CompleteDelete
  <2> QED BY <2>8 DEF DocumentStep, Index!Next
<1> QED BY <1>2, <1>3

LEMMA ProjectionImplements ==
  ASSUME UploadInv, PruneStaleChunks \/ RebuildProjection \/ RedisLost
  PROVE  DocumentStep
<1>1. UNCHANGED rows
  BY DEF PruneStaleChunks, RebuildProjection, RedisLost
<1>2. ShownDocument' = ShownDocument /\ ShownVersion' = ShownVersion
  BY <1>1 DEF rows, ShownDocument, ShownVersion
<1>3. Active = Index!Active /\ Indexed = Index!Indexed
  <2>1. Index!Versions = Versions
    BY DEF Index!Versions, Versions
  <2>2. Index!Chunks = Chunks
    BY <2>1 DEF Index!Chunks, Chunks
  <2>3. Index!Indexed = {p \in Chunks : version[p[1]][p[2]].status = "indexed"}
    BY <2>1, <2>2 DEF Index!Indexed, Chunks, ShownVersion
  <2> QED BY <2>1, <2>2, <2>3 DEF Index!Active, Active, Indexed, Chunks, ShownDocument
<1>4. CASE PruneStaleChunks
  <2>1. Index!Prune
    BY <1>2, <1>3, <1>4 DEF PruneStaleChunks, Index!Prune
  <2> QED BY <2>1 DEF DocumentStep, Index!Next
<1>5. CASE RebuildProjection
  <2>1. Index!Restore
    BY <1>2, <1>3, <1>5 DEF RebuildProjection, Index!Restore
  <2> QED BY <2>1 DEF DocumentStep, Index!Next
<1>6. CASE RedisLost
  <2>1. Index!Lose
    BY <1>2, <1>6 DEF RedisLost, Index!Lose
  <2> QED BY <2>1 DEF DocumentStep, Index!Next
<1> QED BY <1>4, <1>5, <1>6

LEMMA StepImplements ==
  ASSUME UploadInv, [UploadNext \/ ApiCrash]_uploadVars
  PROVE  DocumentStep
<1>1. CASE UploadNext
  BY <1>1, RequestImplements, IndexStepImplements, CleanupImplements, ProjectionImplements DEF UploadNext
<1>2. CASE ApiCrash \/ UNCHANGED uploadVars
  BY <1>2 DEF ApiCrash, uploadVars, rows, DocumentStep, ShownDocument, ShownVersion
<1> QED BY <1>1, <1>2

\* Files, rows and requests are as UploadInv says in every state.
THEOREM UploadInductive == UploadSpec => []UploadInv
<1>1. UploadInv /\ [UploadNext \/ ApiCrash]_uploadVars => UploadInv'
  BY UploadStepKeeps, UploadStutters
<1> QED BY <1>1, UploadInitially, PTL DEF UploadSpec

\* What is stored at first is indexed.
LEMMA StartsIndexed == UploadInit => Index!Init
<1> SUFFICES ASSUME UploadInit PROVE Index!Init
  OBVIOUS
<1>1. PICK stored \in {{}} \cup {{d} : d \in Documents} :
        /\ document = [d \in Documents |->
             IF d \in stored THEN [status |-> "indexed", current |-> 1, hash |-> OldContent] ELSE NoDocument]
        /\ version = [d \in Documents |-> [v \in Versions |->
             IF d \in stored /\ v = 1 THEN [status |-> "indexed", content |-> OldContent, artifact |-> Earlier]
                                    ELSE NoVersion]]
        /\ redis = stored \X {1}
  BY DEF UploadInit
<1>2. ShownDocument = [d \in Documents |-> IF d \in stored THEN [status |-> "indexed", current |-> 1]
                                                          ELSE [status |-> "none", current |-> 0]]
  BY <1>1 DEF ShownDocument, NoDocument
<1>3. ShownVersion = [d \in Documents |-> [v \in Index!Versions |->
                        IF d \in stored /\ v = 1 THEN "indexed" ELSE "none"]]
  BY <1>1 DEF ShownVersion, NoVersion, Index!Versions, Versions
<1> QED BY <1>1, <1>2, <1>3 DEF Index!Init

\* Uploads, candidates, deletions, the abstracted worker, crashes and failures
\* take no step on rows and chunks that IndexedDocuments does not have.
THEOREM UploadsImplementIndex == UploadSpec => IndexImplemented
<1>1. UploadInv /\ [UploadNext \/ ApiCrash]_uploadVars => [Index!Next]_(Index!vars)
  BY StepImplements DEF DocumentStep, Index!vars
<1> QED BY <1>1, StartsIndexed, UploadInductive, PTL DEF UploadSpec, IndexImplemented, Index!Spec

\* Every version whose commit was acknowledged keeps its file, whatever other
\* uploads, versions, deletions, crashes and failures do.
THEOREM FilesFollowRows == UploadSpec => []ArtifactsKept
<1>1. UploadInv => ArtifactsKept
  BY DEF UploadInv
<1> QED BY <1>1, UploadInductive, PTL

\* No file remains that neither a row of its own document mentions nor a
\* request is responsible for.
THEOREM NoFileIsLeft == UploadSpec => []NothingLeaks
<1>1. UploadInv => NothingLeaks
  BY DEF UploadInv
<1> QED BY <1>1, UploadInductive, PTL

-----------------------------------------------------------------------------
(***************************************************************************)
(* One content, one document.                                              *)
(***************************************************************************)
\* A document's hash is that of its active version, and no other document,
\* deleted ones included, has the same.
HashIsCurrent == \A d \in Documents : document[d] # NoDocument =>
  /\ document[d].current \in Versions
  /\ version[d][document[d].current] # NoVersion
  /\ version[d][document[d].current].content = document[d].hash
HashesDiffer == \A d, e \in Documents :
  document[d] # NoDocument /\ document[e] # NoDocument /\ document[d].hash = document[e].hash => d = e
HashInv == HashIsCurrent /\ HashesDiffer

\* A step that promotes nothing and adds no document.
LEMMA HashesStay ==
  ASSUME HashInv, ContentKept,
         \A d \in Documents : /\ document'[d] = NoDocument <=> document[d] = NoDocument
                              /\ document'[d].current = document[d].current
                              /\ document'[d].hash = document[d].hash
  PROVE  HashInv'
<1>1. HashesDiffer'
  BY DEF HashInv, HashesDiffer
<1>2. HashIsCurrent'
  BY DEF HashInv, HashIsCurrent, ContentKept
<1> QED BY <1>1, <1>2 DEF HashInv

\* A document gets an active version with a hash that is free.
LEMMA HashWritten ==
  ASSUME UploadInv, HashInv, ContentKept, NEW d \in Documents, NEW v \in Versions, NEW e,
         document' = [document EXCEPT ![d] = e], e.current = v,
         version'[d][v] # NoVersion, version'[d][v].content = e.hash, ~HashTaken(d, e.hash)
  PROVE  HashInv'
<1>1. document'[d] = e /\ \A x \in Documents \ {d} : document'[x] = document[x]
  BY DEF UploadInv, UploadTypeOK
<1>2. \A x \in Documents \ {d} : document[x] # NoDocument => document[x].hash # e.hash
  BY DEF HashTaken, UploadInv, RowsExist
<1>3. HashesDiffer'
  BY <1>1, <1>2 DEF HashInv, HashesDiffer
<1>4. HashIsCurrent'
  <2> SUFFICES ASSUME NEW x \in Documents, document'[x] # NoDocument
               PROVE  /\ document'[x].current \in Versions
                      /\ version'[x][document'[x].current] # NoVersion
                      /\ version'[x][document'[x].current].content = document'[x].hash
    BY DEF HashIsCurrent
  <2>1. CASE x = d  BY <1>1, <2>1
  <2>2. CASE x # d
    <3>1. document'[x] = document[x]
      BY <1>1, <2>2
    <3> QED BY <3>1 DEF HashInv, HashIsCurrent, ContentKept
  <2> QED BY <2>1, <2>2
<1> QED BY <1>3, <1>4 DEF HashInv

LEMMA HashRequest ==
  ASSUME UploadInv, HashInv, NEW c \in Clients, RequestStep(c)
  PROVE  HashInv'
<1>1. ContentKept
  BY RequestStepKeeps
<1>2. CASE UNCHANGED rows \/ (At(c, "stage") /\ CommitVersion(c))
  BY <1>1, <1>2, HashesStay DEF rows, CommitVersion
<1>3. CASE At(c, "create") /\ CommitUpload(c)
  <2> DEFINE d == Doc(c)
             e == [status |-> "uploaded", current |-> 1, hash |-> Content(c)]
             w == [status |-> "uploaded", content |-> Content(c), artifact |-> Artifact(c)]
  <2>1. d \in Documents /\ 1 \in Versions
    BY <1>3, Before, UploadAssumption DEF At, ActiveSteps, Versions
  <2>2. /\ document' = [document EXCEPT ![d] = e] /\ version' = [version EXCEPT ![d][1] = w]
        /\ ~HashTaken(d, Content(c))
    BY <1>3 DEF CommitUpload
  <2>3. e.current = 1 /\ e.hash = Content(c) /\ w # NoVersion /\ w.content = Content(c)
    BY DEF NoVersion
  <2> HIDE DEF d, e, w
  <2>4. version'[d][1] = w
    BY <2>1, <2>2 DEF UploadInv, UploadTypeOK
  <2> QED BY <1>1, <2>1, <2>2, <2>3, <2>4, HashWritten
<1>4. CASE CreateDelete(c)
  <2>1. PICK d \in Documents : Live(d) /\ document' = [document EXCEPT ![d].status = "deleted"]
    BY <1>4 DEF CreateDelete
  <2>2. /\ document'[d].current = document[d].current /\ document'[d].hash = document[d].hash
        /\ document'[d] # NoDocument /\ document[d] # NoDocument
        /\ \A x \in Documents \ {d} : document'[x] = document[x]
    BY <2>1 DEF UploadInv, UploadTypeOK, NoDocument, Live
  <2> QED BY <1>1, <2>2, HashesStay
<1> QED BY <1>2, <1>3, <1>4, RequestRows

LEMMA HashIndexStep ==
  ASSUME UploadInv, HashInv, NEW d \in Documents, NEW v \in Versions, IndexStep(d, v)
  PROVE  HashInv'
<1>1. ContentKept /\ RowsKept
  BY IndexStepKeeps, RowsKeptContent
<1>2. CASE document' = document \/ \E s \in DocStatus : Shows(d, s)
  <2>1. \A x \in Documents : document'[x].current = document[x].current /\ document'[x].hash = document[x].hash
    BY <1>2 DEF Shows, UploadInv, UploadTypeOK
  <2> QED BY <1>1, <2>1, HashesStay DEF RowsKept
<1>3. CASE CompleteIndex(d, v) /\ Promotes(d, v)
  <2> DEFINE e == CompletionUpdates(d, v)
  <2>1. /\ document' = [document EXCEPT ![d] = e]
        /\ ~HashTaken(d, version[d][v].content) /\ version[d][v].status = "parsing"
    BY <1>3 DEF CompleteIndex, Collides, UnderWay
  <2>2. e.current = v /\ e.hash = version[d][v].content /\ version[d][v] # NoVersion
    BY <2>1 DEF CompletionUpdates, NoVersion
  <2>3. version'[d][v] # NoVersion /\ version'[d][v].content = e.hash
    BY <1>1, <2>2 DEF ContentKept
  <2> HIDE DEF e
  <2> QED BY <1>1, <2>1, <2>2, <2>3, HashWritten
<1>4. CASE ClaimIndexJob(d, v) \/ Project(d, v) \/ FailIndex(d, v) \/ (CompleteIndex(d, v) /\ ~Promotes(d, v))
  <2>1. document' = document \/ \E s \in {"parsing", "failed"} : Shows(d, s)
    BY <1>4 DEF ClaimIndexJob, Project, FailIndex, CompleteIndex, rows
  <2> QED BY <1>2, <2>1 DEF DocStatus
<1> QED BY <1>3, <1>4 DEF IndexStep

LEMMA HashStep ==
  ASSUME UploadInv, HashInv, [UploadNext \/ ApiCrash]_uploadVars
  PROVE  HashInv'
<1>1. CASE \E c \in Clients : RequestStep(c)
  BY <1>1, HashRequest
<1>2. CASE \E d \in Documents, v \in Versions : IndexStep(d, v)
  BY <1>2, HashIndexStep
<1>3. CASE \/ \E d \in Documents : Erase(d) \/ CompleteDelete(d)
           \/ PruneStaleChunks \/ RebuildProjection \/ RedisLost \/ ApiCrash \/ UNCHANGED uploadVars
  <2>1. document' = document
    BY <1>3 DEF Erase, CompleteDelete, PruneStaleChunks, RebuildProjection, RedisLost, ApiCrash, rows, uploadVars
  <2>2. ContentKept
    BY <1>3, UploadStepKeeps, UploadStutters DEF UploadNext
  <2> QED BY <2>1, <2>2, HashesStay
<1> QED BY <1>1, <1>2, <1>3 DEF UploadNext

\* The unique index on the hash and the hash that follows the promoted version
\* together keep the active contents of documents apart.
THEOREM ContentsAreFoundOnce == UploadSpec => []FoundOnce
<1>1. UploadInit => HashInv
  <2> SUFFICES ASSUME UploadInit PROVE HashInv
    OBVIOUS
  <2>1. PICK stored \in {{}} \cup {{d} : d \in Documents} :
          /\ document = [d \in Documents |->
               IF d \in stored THEN [status |-> "indexed", current |-> 1, hash |-> OldContent] ELSE NoDocument]
          /\ version = [d \in Documents |-> [v \in Versions |->
               IF d \in stored /\ v = 1 THEN [status |-> "indexed", content |-> OldContent, artifact |-> Earlier]
                                      ELSE NoVersion]]
    BY DEF UploadInit
  <2>2. 1 \in Versions /\ \A d, e \in stored : d = e
    BY UploadAssumption DEF Versions
  <2>3. \A d \in Documents : document[d] # NoDocument =>
          /\ d \in stored /\ document[d] = [status |-> "indexed", current |-> 1, hash |-> OldContent]
          /\ version[d][1] = [status |-> "indexed", content |-> OldContent, artifact |-> Earlier]
    BY <2>1, <2>2
  <2> QED BY <2>2, <2>3 DEF HashInv, HashIsCurrent, HashesDiffer, NoVersion
<1>2. UploadInv /\ HashInv => FoundOnce
  <2> SUFFICES ASSUME UploadInv, HashInv, NEW p \in Active, NEW q \in Active,
                      version[p[1]][p[2]].content = version[q[1]][q[2]].content
               PROVE  p = q
    BY DEF FoundOnce
  <2>1. /\ p \in Documents \X Versions /\ document[p[1]].status = "indexed" /\ document[p[1]].current = p[2]
        /\ q \in Documents \X Versions /\ document[q[1]].status = "indexed" /\ document[q[1]].current = q[2]
    BY DEF Active, Chunks
  <2>2. document[p[1]] # NoDocument /\ document[q[1]] # NoDocument
    BY <2>1 DEF NoDocument
  <2>3. document[p[1]].hash = document[q[1]].hash
    BY <2>1, <2>2 DEF HashInv, HashIsCurrent
  <2>4. p[1] = q[1]
    BY <2>1, <2>2, <2>3 DEF HashInv, HashesDiffer
  <2> QED BY <2>1, <2>4
<1>3. UploadInv /\ HashInv /\ [UploadNext \/ ApiCrash]_uploadVars => HashInv'
  BY HashStep
<1> QED BY <1>1, <1>2, <1>3, UploadInductive, PTL DEF UploadSpec

-----------------------------------------------------------------------------
(***************************************************************************)
(* Merging hits.                                                           *)
(***************************************************************************)
\* Counting upwards through some positions numbers them all.
LEMMA NthPosition ==
  ASSUME NEW n \in Nat, NEW K \in SUBSET (1..n), NEW k \in 1..Cardinality(K)
  PROVE  Nth(K, k) \in K
<1> DEFINE Below(i) == {j \in K : j <= i}
           f == [i \in K |-> Cardinality(Below(i))]
<1>1. IsFiniteSet(K) /\ Cardinality(K) \in Nat /\ Cardinality(K) <= n
  <2>1. IsFiniteSet(1..n) /\ Cardinality(1..n) = n
    BY FS_Interval
  <2>2. IsFiniteSet(K) /\ Cardinality(K) <= n
    BY <2>1, FS_Subset
  <2> QED BY <2>2, FS_CardinalityType
<1>2. \A i \in K : /\ IsFiniteSet(Below(i)) /\ Cardinality(Below(i)) \in Nat
                   /\ Cardinality(Below(i)) <= Cardinality(K) /\ Cardinality(Below(i)) # 0
  <2> SUFFICES ASSUME NEW i \in K
               PROVE  /\ IsFiniteSet(Below(i)) /\ Cardinality(Below(i)) \in Nat
                      /\ Cardinality(Below(i)) <= Cardinality(K) /\ Cardinality(Below(i)) # 0
    OBVIOUS
  <2>1. Below(i) \in SUBSET K /\ i \in Below(i)
    OBVIOUS
  <2> HIDE DEF Below
  <2>2. IsFiniteSet(Below(i)) /\ Cardinality(Below(i)) <= Cardinality(K)
    BY <1>1, <2>1, FS_Subset
  <2> QED BY <2>1, <2>2, FS_CardinalityType, FS_EmptySet
<1>3. ASSUME NEW i \in K, NEW j \in K, i < j PROVE Cardinality(Below(i)) # Cardinality(Below(j))
  <2>1. Below(i) \in SUBSET Below(j) /\ j \in Below(j) /\ j \notin Below(i)
    <3>1. i \in Int /\ j \in Int /\ \A l \in K : l \in Int
      OBVIOUS
    <3>2. (\A l \in K : l <= i => l <= j) /\ j <= j /\ ~(j <= i)
      BY <1>3, <3>1
    <3> QED BY <3>2
  <2> HIDE DEF Below
  <2> QED BY <1>2, <2>1, FS_Subset
<1> HIDE DEF Below
<1>4. f \in Injection(K, 1..Cardinality(K))
  <2>1. f \in [K -> 1..Cardinality(K)]
    BY <1>1, <1>2
  <2>2. \A i, j \in K : f[i] = f[j] => i = j
    BY <1>3
  <2> QED BY <2>1, <2>2 DEF Injection, IsInjective
<1>5. IsFiniteSet(1..Cardinality(K)) /\ Cardinality(1..Cardinality(K)) = Cardinality(K)
  BY <1>1, FS_Interval
<1>6. f \in Surjection(K, 1..Cardinality(K))
  BY <1>4, <1>5, FS_Injection
<1>7. \E i \in K : Cardinality({j \in K : j <= i}) = k
  BY <1>6 DEF Surjection, Below
<1> QED BY <1>7 DEF Nth

\* Keeping some positions of a sequence.
LEMMA KeptHits ==
  ASSUME NEW S, NEW s \in Seq(S), NEW K \in SUBSET (DOMAIN s)
  PROVE  /\ Kept(s, K) \in Seq(S)
         /\ Len(Kept(s, K)) \in Nat /\ Len(Kept(s, K)) <= Len(s)
         /\ \A k \in DOMAIN Kept(s, K) : \E i \in DOMAIN s : Kept(s, K)[k] = s[i]
<1>1. K \in SUBSET (1..Len(s)) /\ Len(s) \in Nat
  OBVIOUS
<1>2. Cardinality(K) \in Nat /\ Cardinality(K) <= Len(s)
  <2>1. IsFiniteSet(1..Len(s)) /\ Cardinality(1..Len(s)) = Len(s)
    <3>1. Len(s) \in Int /\ 1 \in Int /\ (1 > Len(s) => Len(s) = 0)
      BY <1>1
    <3>2. Len(s) - 1 + 1 = Len(s)
      BY <1>1
    <3> HIDE <1>1
    <3> QED BY <3>1, <3>2, FS_Interval
  <2>2. IsFiniteSet(K) /\ Cardinality(K) <= Len(s)
    BY <1>1, <2>1, FS_Subset
  <2> QED BY <2>2, FS_CardinalityType
<1>3. \A k \in 1..Cardinality(K) : Nth(K, k) \in K
  BY <1>1, NthPosition
<1>4. \A k \in 1..Cardinality(K) : Nth(K, k) \in DOMAIN s /\ s[Nth(K, k)] \in S
  <2>1. \A i \in DOMAIN s : s[i] \in S
    OBVIOUS
  <2> QED BY <1>3, <2>1
<1> DEFINE m == [k \in 1..Cardinality(K) |-> s[Nth(K, k)]]
<1>5. m \in Seq(S) /\ Len(m) = Cardinality(K) /\ DOMAIN m = 1..Cardinality(K)
  BY <1>2, <1>4
<1>6. \A k \in DOMAIN m : m[k] = s[Nth(K, k)]
  BY <1>5
<1> HIDE DEF m
<1> QED
  <2>1. Kept(s, K) = m
    BY DEF Kept, m
  <2> QED BY <1>2, <1>4, <1>5, <1>6, <2>1

\* A prefix.
LEMMA BestHits ==
  ASSUME NEW S, NEW s \in Seq(S), NEW n \in Nat
  PROVE  /\ Best(s, n) \in Seq(S)
         /\ Len(Best(s, n)) <= n /\ Len(Best(s, n)) <= Len(s)
         /\ \A i \in DOMAIN Best(s, n) : i \in DOMAIN s /\ Best(s, n)[i] = s[i]
<1> DEFINE m == IF n < Len(s) THEN n ELSE Len(s)
<1>1. m \in 0..Len(s) /\ m <= n
  OBVIOUS
<1>2. SubSeq(s, 1, m) \in Seq(S) /\ Len(SubSeq(s, 1, m)) = m /\ \A i \in 1..m : SubSeq(s, 1, m)[i] = s[i]
  BY <1>1
<1> QED BY <1>1, <1>2 DEF Best

\* All hits of m are hits of s or of t.
HitsOf(m, s, t) == \A i \in DOMAIN m : (\E j \in DOMAIN s : m[i] = s[j]) \/ (\E j \in DOMAIN t : m[i] = t[j])

\* Merging adds no hit and at most doubles their number.
LEMMA MergedHits ==
  ASSUME NEW old \in Seq(Hit), NEW new \in Seq(Hit), NEW m, m = MergeSearchHits(old, new)
  PROVE  /\ m \in Seq(Hit)
         /\ Len(m) <= Len(old) + Len(new)
         /\ Len(old) < MaxTopK => Len(m) <= MaxTopK
         /\ HitsOf(m, old, new)
<1> DEFINE all == old \o new
           kept == {i \in DOMAIN all : i <= Len(old) \/ \A j \in 1..(i - 1) : all[j].text # all[i].text}
           merged == Kept(all, kept)
<1>1. /\ all \in Seq(Hit) /\ Len(all) = Len(old) + Len(new) /\ DOMAIN all = 1..Len(all)
      /\ \A i \in DOMAIN all : (\E j \in DOMAIN old : all[i] = old[j]) \/ (\E j \in DOMAIN new : all[i] = new[j])
  <2>1. all \in Seq(Hit) /\ Len(all) = Len(old) + Len(new) /\ DOMAIN all = 1..Len(all)
    OBVIOUS
  <2>2. ASSUME NEW i \in 1..Len(all)
        PROVE  (\E j \in DOMAIN old : all[i] = old[j]) \/ (\E j \in DOMAIN new : all[i] = new[j])
    <3>1. CASE i <= Len(old)
      BY <3>1
    <3>2. CASE i > Len(old)
      <4>1. i - Len(old) \in DOMAIN new /\ all[i] = new[i - Len(old)]
        BY <3>2
      <4> QED BY <4>1
    <3> QED BY <3>1, <3>2
  <2> QED BY <2>1, <2>2
<1>2. kept \in SUBSET (DOMAIN all)
  OBVIOUS
<1>3. m = IF Len(old) >= MaxTopK THEN merged ELSE Best(merged, MaxTopK)
  BY DEF MergeSearchHits
<1> HIDE DEF all, kept
<1>6. /\ merged \in Seq(Hit) /\ Len(merged) \in Nat /\ Len(merged) <= Len(all)
      /\ \A k \in DOMAIN merged : \E i \in DOMAIN all : merged[k] = all[i]
  <2>1. all \in Seq(Hit)
    BY <1>1
  <2>2. Kept(all, kept) \in Seq(Hit)
    BY <1>2, <2>1, KeptHits
  <2>3. Len(Kept(all, kept)) \in Nat /\ Len(Kept(all, kept)) <= Len(all)
    BY <1>2, <2>1, KeptHits
  <2>4. \A k \in DOMAIN Kept(all, kept) : \E i \in DOMAIN all : Kept(all, kept)[k] = all[i]
    BY <1>2, <2>1, KeptHits
  <2> QED BY <2>2, <2>3, <2>4
<1>7. \A k \in DOMAIN merged : (\E j \in DOMAIN old : merged[k] = old[j]) \/ (\E j \in DOMAIN new : merged[k] = new[j])
  BY <1>1, <1>6
<1> HIDE DEF merged
<1>8. MaxTopK \in Nat
  BY AnswerAssumption
<1>9. CASE Len(old) >= MaxTopK
  BY <1>1, <1>3, <1>6, <1>7, <1>8, <1>9 DEF HitsOf
<1>10. CASE ~(Len(old) >= MaxTopK)
  <2> DEFINE b == Best(merged, MaxTopK)
  <2>1. /\ b \in Seq(Hit) /\ Len(b) <= MaxTopK /\ Len(b) <= Len(merged)
        /\ \A i \in DOMAIN b : i \in DOMAIN merged /\ b[i] = merged[i]
    BY <1>6, <1>8, BestHits
  <2>2. m = b
    BY <1>3, <1>10
  <2> HIDE DEF b
  <2>3. Len(b) <= Len(old) + Len(new)
    BY <1>1, <1>6, <2>1
  <2>4. \A i \in DOMAIN b : (\E j \in DOMAIN old : b[i] = old[j]) \/ (\E j \in DOMAIN new : b[i] = new[j])
    BY <1>7, <2>1
  <2> QED BY <2>1, <2>2, <2>3, <2>4 DEF HitsOf
<1> QED BY <1>9, <1>10

LEMMA FirstHits ==
  ASSUME NEW none \in Seq(Hit), Len(none) = 0, NEW s \in Seq(Hit), NEW m, m = MergeSearchHits(none, s)
  PROVE  /\ m \in Seq(Hit) /\ Len(m) <= MaxTopK
         /\ HitsOf(m, s, s)
<1>1. DOMAIN none = {}
  OBVIOUS
<1>2. MaxTopK \in Nat /\ 0 < MaxTopK
  BY AnswerAssumption
<1>3. m \in Seq(Hit)
  BY <1>1, MergedHits
<1>4. Len(m) <= MaxTopK
  BY <1>1, <1>2, MergedHits
<1>5. HitsOf(m, s, s)
  <2>1. HitsOf(m, none, s)
    BY MergedHits
  <2> QED BY <1>1, <2>1 DEF HitsOf
<1> QED BY <1>3, <1>4, <1>5

-----------------------------------------------------------------------------
(***************************************************************************)
(* A question: the invariant.                                              *)
(***************************************************************************)
\* How far the question is says how many searches, hits and attempts there
\* were.
Asking ==
  /\ Step("idle") => question = Idle /\ hits = <<>>
  /\ Step("retrieve") \/ Step("keyword") \/ Step("hydrate") => question.searches < DeepMaxRetrievalQueries
  /\ Step("assess") => question.searches = 1
  /\ question.attempt < MaxModelAttempts
  /\ Len(hits) <= question.searches * MaxTopK
  /\ Step("gate") \/ Step("generate") => Len(hits) <= MaxTopK

\* The evidence is of stored versions, whose content never changes.
HitsStored == \A i \in DOMAIN hits : version[hits[i].source[1]][hits[i].source[2]] # NoVersion

\* In what passed the gate no two sources differ.
GateHolds == Step("generate") => Uncontradicted

AnswerInv ==
  /\ UploadInv /\ AnswerTypeOK
  /\ Asking /\ HitsStored /\ GateHolds /\ EvidenceWasActive

\* A hit as the authority returns it.
IsCurrent(h) == h.source \in Active /\ h.text \in TextsIn(h.source)

\* What Next says of the history variable.
Remembers == served' = IF question'.step = "idle" THEN {} ELSE served \cup Active'

Question == [step: AskSteps, searches: 0..DeepMaxRetrievalQueries, attempt: 0..MaxModelAttempts]
Answers  == {"none", "refused", "resolved", "fallback", "error"}

-----------------------------------------------------------------------------
(***************************************************************************)
(* Facts and sources.                                                      *)
(***************************************************************************)
LEMMA AtMostOne ==
  ASSUME NEW S, IsFiniteSet(S)
  PROVE  /\ Cardinality(S) \in Nat
         /\ Cardinality(S) <= 1 <=> \A x, y \in S : x = y
<1>1. Cardinality(S) \in Nat
  BY FS_CardinalityType
<1>2. ASSUME Cardinality(S) <= 1, NEW x \in S, NEW y \in S PROVE x = y
  <2>1. Cardinality(S) = 1
    BY <1>1, <1>2, FS_EmptySet
  <2> QED BY <2>1, FS_Singleton
<1>3. ASSUME \A x, y \in S : x = y PROVE Cardinality(S) <= 1
  <2>1. CASE S = {}
    BY <2>1, FS_EmptySet
  <2>2. CASE S # {}
    <3>1. PICK x : S = {x}
      BY <1>3, <2>2
    <3> QED BY <3>1, FS_Singleton
  <2> QED BY <2>1, <2>2
<1> QED BY <1>1, <1>2, <1>3

\* The values of a function on finitely many arguments.
LEMMA FiniteRange ==
  ASSUME NEW S, IsFiniteSet(S), NEW f, f \in [S -> {f[x] : x \in S}]
  PROVE  IsFiniteSet({f[x] : x \in S})
<1>1. f \in Surjection(S, {f[x] : x \in S})
  BY DEF Surjection
<1> QED BY <1>1, FS_Surjection

\* Where there is one value or one source, no two sources differ.
LEMMA NoConflict ==
  ASSUME hits \in Seq(Hit), ~Conflicting(hits)
  PROVE  Uncontradicted
<1> DEFINE g == [i \in DOMAIN hits |-> hits[i].source]
<1>1. IsFiniteSet(DOMAIN hits)
  BY FS_Interval
<1>2. \A i \in DOMAIN hits : IsFiniteSet(ValuesIn[hits[i].text])
  <2>1. \A i \in DOMAIN hits : hits[i].text \in Texts
    <3>1. \A i \in DOMAIN hits : hits[i] \in Hit
      OBVIOUS
    <3> QED BY <3>1 DEF Hit
  <2> QED BY <2>1, AnswerAssumption DEF Texts
<1>3. IsFiniteSet(Facts(hits))
  <2> DEFINE V == [i \in DOMAIN hits |-> ValuesIn[hits[i].text]]
             W == {V[i] : i \in DOMAIN hits}
  <2>1. V \in [DOMAIN hits -> W] /\ (\A S \in W : IsFiniteSet(S)) /\ Facts(hits) = UNION W
    BY <1>2 DEF Facts
  <2> HIDE DEF V
  <2>2. IsFiniteSet(W)
    BY <1>1, <2>1, FiniteRange
  <2> QED BY <2>1, <2>2, FS_UNION
<1>4. IsFiniteSet(Sources(hits))
  <2>1. g \in [DOMAIN hits -> {g[i] : i \in DOMAIN hits}] /\ Sources(hits) \in SUBSET {g[i] : i \in DOMAIN hits}
    BY DEF Sources
  <2> HIDE DEF g
  <2>2. IsFiniteSet({g[i] : i \in DOMAIN hits})
    BY <1>1, <2>1, FiniteRange
  <2> QED BY <2>1, <2>2, FS_Subset
<1> SUFFICES ASSUME NEW i \in DOMAIN hits, NEW j \in DOMAIN hits, hits[i].source # hits[j].source,
                    NEW x \in ValuesIn[hits[i].text], NEW y \in ValuesIn[hits[j].text]
             PROVE  x = y
  BY DEF Uncontradicted
<1>5. CASE ~(Cardinality(Sources(hits)) > 1)
  <2>1. \A p, q \in Sources(hits) : p = q
    BY <1>4, <1>5, AtMostOne
  <2>2. hits[i].source \in Sources(hits) /\ hits[j].source \in Sources(hits)
    BY DEF Sources
  <2> QED BY <2>1, <2>2
<1>6. CASE ~(Cardinality(Facts(hits)) > 1)
  <2>1. \A u, v \in Facts(hits) : u = v
    BY <1>3, <1>6, AtMostOne
  <2>2. x \in Facts(hits) /\ y \in Facts(hits)
    BY DEF Facts
  <2> QED BY <2>1, <2>2
<1> QED BY <1>5, <1>6 DEF Conflicting

\* What a search returns: hits of the chunks it was given.
LEMMA FusedHits ==
  ASSUME NEW chunks \in SUBSET (Chunks \X Texts), NEW both, NEW s \in Fused(chunks, both)
  PROVE  s \in Seq(Hit) /\ \A i \in DOMAIN s : <<s[i].source, s[i].text>> \in chunks
<1> DEFINE h == [c \in chunks |-> [source |-> c[1], text |-> c[2], both |-> c \in both]]
           S == {h[c] : c \in chunks}
<1>1. IsFiniteSet(Versions)
  BY UploadAssumption, FS_Interval DEF Versions
<1>2. IsFiniteSet(chunks)
  <2>2. IsFiniteSet(Texts)
    <3> DEFINE f == [x \in Contents |-> TextsOf[x]]
               T == {f[x] : x \in Contents}
    <3>1. f \in [Contents -> T] /\ (\A t \in T : IsFiniteSet(t)) /\ Texts = UNION T
      BY AnswerAssumption DEF Texts
    <3> HIDE DEF f
    <3>2. IsFiniteSet(T)
      BY <3>1, AnswerAssumption, FiniteRange
    <3> QED BY <3>1, <3>2, FS_UNION
  <2>3. IsFiniteSet(Chunks)
    BY <1>1, AnswerAssumption, FS_Product DEF Chunks
  <2> QED BY <2>2, <2>3, FS_Product, FS_Subset
<1>3. h \in [chunks -> S]
  OBVIOUS
<1>4. S = {[source |-> c[1], text |-> c[2], both |-> c \in both] : c \in chunks}
  OBVIOUS
<1>5. S \subseteq Hit /\ \A t \in S : <<t.source, t.text>> \in chunks
  <2>1. \A c \in chunks : /\ h[c] = [source |-> c[1], text |-> c[2], both |-> c \in both]
                          /\ (c \in both) \in BOOLEAN /\ c[1] \in Chunks /\ c[2] \in Texts /\ c = <<c[1], c[2]>>
    OBVIOUS
  <2>2. \A c \in chunks : h[c] \in Hit /\ h[c].source = c[1] /\ h[c].text = c[2]
    BY <2>1 DEF Hit
  <2> QED BY <2>1, <2>2
<1>6. s \in SetToSeqs(S)
  BY <1>4 DEF Fused
<1> HIDE DEF h
<1>7. IsFiniteSet(S)
  BY <1>2, <1>3, FiniteRange
<1> HIDE DEF S
<1>8. Cardinality(S) \in Nat
  BY <1>7, FS_CardinalityType
<1>9. s \in [1..Cardinality(S) -> S]
  BY <1>6 DEF SetToSeqs
<1> QED BY <1>5, <1>8, <1>9

-----------------------------------------------------------------------------
(***************************************************************************)
(* The steps of a question.                                                *)
(***************************************************************************)
\* Hits per search add up.
LEMMA Products ==
  ASSUME NEW k \in Nat, NEW n \in Nat, NEW m \in Nat, k <= n
  PROVE  /\ k * m \in Nat /\ k * m <= n * m
         /\ (k + 1) * m = k * m + m
<1>1. /\ k * m \in Nat /\ (k + 1) * m = k * m + m
  OBVIOUS
<1>2. k * m <= n * m
  <2>1. (n - k) * m \in Nat /\ n * m = (n - k) * m + k * m
    <3>1. n - k \in Nat /\ n = (n - k) + k
      OBVIOUS
    <3> QED BY <3>1
  <2> QED BY <1>1, <2>1
<1> QED BY <1>1, <1>2

\* What a question's types give in each step.
LEMMA AskTypes ==
  ASSUME AnswerInv
  PROVE  /\ question \in Question /\ found \subseteq Chunks /\ hits \in Seq(Hit) /\ counted \in BOOLEAN
         /\ answer \in Answers /\ Asking
         /\ MaxTopK \in Nat /\ MaxTopK >= 1 /\ Len(hits) \in Nat
         /\ \A n \in 1..MaxTopK : n \in Nat
         /\ DeepMaxRetrievalQueries \in Nat
         /\ question.searches \in 0..DeepMaxRetrievalQueries /\ question.attempt \in 0..2
BY AnswerAssumption DEF AnswerInv, AnswerTypeOK, Question, Answers, MaxModelAttempts

\* While the rows stay, evidence that was kept or is active is fine.
LEMMA Evidence ==
  ASSUME AnswerInv, UNCHANGED uploadVars, Remembers, Asking',
         question' \in Question, found' \subseteq Chunks, hits' \in Seq(Hit), counted' \in BOOLEAN,
         answer' \in Answers, GateHolds',
         \A i \in DOMAIN hits' : IsCurrent(hits'[i]) \/ \E j \in DOMAIN hits : hits'[i] = hits[j]
  PROVE  AnswerInv'
<1>1. UploadInv' /\ Active' = Active /\ version' = version
  BY UploadStutters DEF AnswerInv, uploadVars
<1>2. MaxTopK \in Nat /\ DeepMaxRetrievalQueries \in Nat /\ served \subseteq Chunks /\ Active \subseteq Chunks
  BY AnswerAssumption DEF AnswerInv, AnswerTypeOK, Active
<1>3. AnswerTypeOK'
  <2>1. Len(hits') <= DeepMaxRetrievalQueries * MaxTopK
    <3>1. /\ Len(hits') <= question'.searches * MaxTopK /\ Len(hits') \in Nat
          /\ question'.searches \in Nat /\ question'.searches <= DeepMaxRetrievalQueries
      BY <1>2 DEF Asking, Question
    <3>2. /\ question'.searches * MaxTopK <= DeepMaxRetrievalQueries * MaxTopK
          /\ question'.searches * MaxTopK \in Nat /\ DeepMaxRetrievalQueries * MaxTopK \in Nat
      BY <1>2, <3>1, Products
    <3> QED BY <3>1, <3>2
  <2>2. served' \subseteq Chunks
    BY <1>1, <1>2 DEF Remembers
  <2> QED BY <1>1, <2>1, <2>2 DEF AnswerTypeOK, Asking, Question, Answers, UploadInv
<1>4. HitsStored'
  <2>1. \A p \in Active : version[p[1]][p[2]] # NoVersion
    BY DEF Active, NoVersion
  <2> QED BY <1>1, <2>1 DEF AnswerInv, HitsStored, IsCurrent
<1>5. EvidenceWasActive'
  <2>1. CASE question'.step = "idle"
    BY <2>1 DEF Asking, Step, EvidenceWasActive
  <2>2. CASE question'.step # "idle"
    <3>1. served' = served \cup Active /\ \A p : TextsIn(p)' = TextsIn(p)
      BY <1>1, <2>2 DEF Remembers, TextsIn
    <3> QED BY <3>1 DEF IsCurrent, EvidenceWasActive, AnswerInv
  <2> QED BY <2>1, <2>2
<1> QED BY <1>1, <1>3, <1>4, <1>5 DEF AnswerInv

\* The end of a question, whatever the rows became.
LEMMA Finishing ==
  ASSUME AnswerInv, UploadInv', Remembers, NEW e \in Answers, Finish(e)
  PROVE  AnswerInv'
<1>1. question' = Idle /\ found' = {} /\ hits' = <<>> /\ counted' = FALSE /\ answer' = e /\ served' = {}
  BY DEF Finish, Remembers, Idle
<1>2. /\ MaxTopK \in Nat /\ 0 <= 0 * MaxTopK /\ 0 <= DeepMaxRetrievalQueries * MaxTopK
      /\ 0 \in 0..DeepMaxRetrievalQueries /\ 0 < DeepMaxRetrievalQueries
  BY AnswerAssumption, Products
<1>3. Asking'
  BY <1>1, <1>2 DEF Asking, Step, Idle, MaxModelAttempts
<1>0. (counted \in BOOLEAN)'
  BY <1>1
<1>4. AnswerTypeOK'
  BY <1>0, <1>1, <1>2
  DEF AnswerTypeOK, UploadInv, Idle, AskSteps, MaxModelAttempts, Answers, Step
<1>5. HitsStored' /\ EvidenceWasActive' /\ GateHolds'
  BY <1>1 DEF HitsStored, EvidenceWasActive, GateHolds, Step, Idle
<1> QED BY <1>3, <1>4, <1>5 DEF AnswerInv

\* The question waits while documents change.
LEMMA Waiting ==
  ASSUME AnswerInv, UploadInv', ContentKept, UNCHANGED askVars, Remembers
  PROVE  AnswerInv'
<1>1. question' = question /\ found' = found /\ hits' = hits /\ counted' = counted /\ answer' = answer
  BY DEF askVars
<1>2. Asking' /\ AnswerTypeOK'
  <2>1. served' \subseteq Chunks
    BY DEF AnswerInv, AnswerTypeOK, Remembers, Active
  <2> QED BY <1>1, <2>1 DEF AnswerInv, Asking, AnswerTypeOK, UploadInv, Step
<1>3. \A i \in DOMAIN hits : /\ version'[hits[i].source[1]][hits[i].source[2]] # NoVersion
                             /\ TextsIn(hits[i].source)' = TextsIn(hits[i].source)
  <2> SUFFICES ASSUME NEW i \in DOMAIN hits
               PROVE  /\ version'[hits[i].source[1]][hits[i].source[2]] # NoVersion
                      /\ TextsIn(hits[i].source)' = TextsIn(hits[i].source)
    OBVIOUS
  <2>1. hits[i].source \in Chunks /\ version[hits[i].source[1]][hits[i].source[2]] # NoVersion
    <3>1. hits[i] \in Hit
      BY AskTypes
    <3> QED BY <3>1 DEF AnswerInv, HitsStored, Hit
  <2> QED BY <1>1, <2>1 DEF ContentKept, TextsIn, Chunks
<1>4. HitsStored'
  BY <1>1, <1>3 DEF HitsStored
<1>5. GateHolds'
  BY <1>1 DEF AnswerInv, GateHolds, Uncontradicted, Step
<1>6. EvidenceWasActive'
  <2>1. CASE question'.step = "idle"
    BY <1>1, <2>1 DEF AnswerInv, Asking, Step, EvidenceWasActive
  <2>2. CASE question'.step # "idle"
    BY <1>1, <1>3, <2>2 DEF Remembers, EvidenceWasActive, AnswerInv
  <2> QED BY <2>1, <2>2
<1> QED BY <1>2, <1>4, <1>5, <1>6 DEF AnswerInv

LEMMA Moving ==
  ASSUME AnswerInv, NEW s \in AskSteps \ {"idle", "generate"}, Then(s), UNCHANGED uploadVars, Remembers,
         s \in {"retrieve", "keyword", "hydrate"} => question.searches < DeepMaxRetrievalQueries,
         s = "assess" => question.searches = 1,
         found' \subseteq Chunks, counted' = counted, answer' \in Answers,
         hits' \in Seq(Hit), Len(hits') <= Len(hits),
         s = "gate" => Len(hits') <= MaxTopK,
         \A i \in DOMAIN hits' : \E j \in DOMAIN hits : hits'[i] = hits[j]
  PROVE  AnswerInv'
<1>1. question' = [question EXCEPT !.step = s] /\ question \in Question /\ counted \in BOOLEAN
  BY AskTypes DEF Then
<1>2. /\ question' \in Question /\ question'.step = s
      /\ question'.searches = question.searches /\ question'.attempt = question.attempt
  BY <1>1 DEF Question
<1>3. Len(hits') <= question.searches * MaxTopK
  <2>1. Len(hits) <= question.searches * MaxTopK /\ question.searches \in Nat
    BY AskTypes DEF Asking
  <2>2. question.searches * MaxTopK \in Nat
    BY <2>1, AskTypes, Products
  <2> QED BY <2>1, <2>2, AskTypes
<1>4. Asking'
  BY <1>2, <1>3, AskTypes DEF Asking, Step
<1>5. GateHolds'
  BY <1>2 DEF GateHolds, Step
<1> QED BY <1>1, <1>2, <1>4, <1>5, Evidence

LEMMA AskKeeps ==
  ASSUME AnswerInv, Ask \/ Retrieve \/ RetrieveKeyword \/ Rewrite, Remembers
  PROVE  AnswerInv'
<1>1. /\ UNCHANGED <<uploadVars, hits, counted>> /\ found' \subseteq Chunks /\ answer' \in Answers
      /\ hits \in Seq(Hit) /\ Len(hits) <= Len(hits)
  BY AskTypes DEF Ask, Retrieve, RetrieveKeyword, Rewrite, Answers, AnswerInv, UploadInv, UploadTypeOK
<1>2. question.searches < DeepMaxRetrievalQueries
  BY AskTypes, AnswerAssumption DEF Ask, Retrieve, RetrieveKeyword, Rewrite, Asking, Step, Idle
<1>3. PICK s \in {"retrieve", "keyword", "hydrate", "rerank"} : Then(s)
  BY DEF Ask, Retrieve, RetrieveKeyword, Rewrite
<1>4. s \in AskSteps \ {"idle", "generate"} /\ s # "assess" /\ s # "gate"
  BY <1>3 DEF AskSteps
<1>5. \A i \in DOMAIN hits' : \E j \in DOMAIN hits : hits'[i] = hits[j]
  BY <1>1
<1> QED BY <1>1, <1>2, <1>3, <1>4, <1>5, Moving

LEMMA SkipDeepKeeps ==
  ASSUME AnswerInv, SkipDeep, Remembers
  PROVE  AnswerInv'
<1>1. PICK n \in 1..MaxTopK : hits' = Best(hits, n)
  BY DEF SkipDeep
<1>2. /\ hits' \in Seq(Hit) /\ Len(hits') <= n /\ Len(hits') <= Len(hits)
      /\ \A i \in DOMAIN hits' : i \in DOMAIN hits /\ hits'[i] = hits[i]
  BY <1>1, AskTypes, BestHits
<1>3. Len(hits') <= MaxTopK
  BY <1>2, AskTypes
<1> QED BY <1>2, <1>3, AskTypes, Moving DEF SkipDeep, AskSteps

LEMMA RerankKeeps ==
  ASSUME AnswerInv, Rerank, Remembers
  PROVE  AnswerInv'
<1> DEFINE n == IF Len(hits) < MaxTopK THEN Len(hits) ELSE MaxTopK
           Ranked(p) == [i \in DOMAIN hits |-> hits[IF i <= n THEN p[i] ELSE i]]
<1>1. PICK p \in SetToSeqs(1..n), limit \in 1..MaxTopK : hits' = Best(Ranked(p), limit)
  BY DEF Rerank
<1>2. hits \in Seq(Hit) /\ n \in Nat /\ n <= Len(hits) /\ MaxTopK \in Nat /\ limit \in Nat /\ Len(hits) \in Nat
      /\ DOMAIN hits = 1..Len(hits)
  BY AskTypes
<1> HIDE DEF n
<1>3. p \in [1..n -> 1..n]
  <2>1. Cardinality(1..n) = n
    BY <1>2, FS_Interval
  <2> QED BY <1>1, <2>1 DEF SetToSeqs
<1>4. \A i \in DOMAIN hits : (IF i <= n THEN p[i] ELSE i) \in DOMAIN hits
  BY <1>2, <1>3
<1>5. /\ Ranked(p) \in Seq(Hit) /\ Len(Ranked(p)) = Len(hits) /\ DOMAIN Ranked(p) = DOMAIN hits
      /\ \A i \in DOMAIN hits : \E j \in DOMAIN hits : Ranked(p)[i] = hits[j]
  BY <1>2, <1>4
<1> HIDE DEF Ranked
<1>6. /\ hits' \in Seq(Hit) /\ Len(hits') <= limit /\ Len(hits') <= Len(hits)
      /\ \A i \in DOMAIN hits' : i \in DOMAIN Ranked(p) /\ hits'[i] = Ranked(p)[i]
  BY <1>1, <1>2, <1>5, BestHits
<1>7. Len(hits') <= MaxTopK /\ \A i \in DOMAIN hits' : \E j \in DOMAIN hits : hits'[i] = hits[j]
  BY <1>2, <1>5, <1>6
<1> QED BY <1>6, <1>7, AskTypes, Moving DEF Rerank, AskSteps

\* A search: its hits are active, and how many there are is bounded by how
\* often it was searched.
LEMMA SearchedHits ==
  ASSUME AnswerInv, UNCHANGED <<uploadVars, answer>>, Remembers, found' = {}, counted' \in BOOLEAN,
         question.searches < DeepMaxRetrievalQueries,
         NEW s \in AskSteps \ {"idle", "keyword", "hydrate", "generate"}, Searched(s),
         s = "retrieve" => question.searches + 1 < DeepMaxRetrievalQueries,
         s = "assess" => question.searches = 0,
         hits' \in Seq(Hit), Len(hits') <= Len(hits) + MaxTopK,
         s = "gate" => Len(hits') <= MaxTopK,
         \A i \in DOMAIN hits' : IsCurrent(hits'[i]) \/ \E j \in DOMAIN hits : hits'[i] = hits[j]
  PROVE  AnswerInv'
<1>1. question' = [question EXCEPT !.searches = @ + 1, !.step = s] /\ question \in Question
  BY AskTypes DEF Searched
<1>2. /\ question' \in Question /\ question'.step = s
      /\ question'.searches = question.searches + 1 /\ question'.attempt = question.attempt
  <2>1. question.searches + 1 \in 0..DeepMaxRetrievalQueries /\ s \in AskSteps
    BY AskTypes
  <2> QED BY <1>1, <2>1 DEF Question
<1>3. Len(hits') <= question'.searches * MaxTopK
  <2>1. /\ Len(hits) <= question.searches * MaxTopK /\ question.searches \in Nat /\ MaxTopK \in Nat
        /\ Len(hits) \in Nat /\ Len(hits') \in Nat
    BY AskTypes DEF Asking
  <2>2. (question.searches + 1) * MaxTopK = question.searches * MaxTopK + MaxTopK
        /\ question.searches * MaxTopK \in Nat
    BY <2>1, Products
  <2> QED BY <1>2, <2>1, <2>2
<1>4. Asking'
  BY <1>2, <1>3, AskTypes DEF Asking, Step
<1>5. GateHolds'
  BY <1>2 DEF GateHolds, Step
<1> QED BY <1>2, <1>4, <1>5, AskTypes, Evidence

LEMMA HydrateKeeps ==
  ASSUME AnswerInv, Hydrate, Remembers
  PROVE  AnswerInv'
<1> DEFINE accessible == FindAccessibleChunks(found)
<1>a. PICK chunks \in SUBSET Authority(accessible) : \E both \in SUBSET chunks : \E s \in Fused(chunks, both) :
        LET h == MergeSearchHits(<<>>, s) IN
        /\ Count(h)
        /\ IF question.searches = 0 THEN Fast(h) \/ Parent(h) \/ Deep(h) ELSE Rewritten(h)
  BY DEF Hydrate
<1>b. PICK both \in SUBSET chunks : \E s \in Fused(chunks, both) :
        LET h == MergeSearchHits(<<>>, s) IN
        /\ Count(h)
        /\ IF question.searches = 0 THEN Fast(h) \/ Parent(h) \/ Deep(h) ELSE Rewritten(h)
  BY <1>a
<1>1. PICK s \in Fused(chunks, both) :
        LET h == MergeSearchHits(<<>>, s) IN
        /\ Count(h)
        /\ IF question.searches = 0 THEN Fast(h) \/ Parent(h) \/ Deep(h) ELSE Rewritten(h)
  BY <1>b
<1> DEFINE h == MergeSearchHits(<<>>, s)
<1>2. /\ found' = {} /\ UNCHANGED <<uploadVars, answer>> /\ question.searches < DeepMaxRetrievalQueries
      /\ MaxTopK \in Nat /\ MaxTopK >= 1 /\ Len(hits) \in Nat /\ hits \in Seq(Hit)
  BY AskTypes DEF Hydrate, Asking, Step
<1>3. chunks \in SUBSET (Chunks \X Texts) /\ \A c \in chunks : c[1] \in Active /\ c[2] \in TextsIn(c[1])
  BY DEF FindAccessibleChunks, Authority, Active
<1>4. s \in Seq(Hit) /\ \A i \in DOMAIN s : IsCurrent(s[i])
  <2>1. s \in Seq(Hit) /\ \A i \in DOMAIN s : <<s[i].source, s[i].text>> \in chunks
    BY <1>3, FusedHits
  <2> QED BY <1>3, <2>1 DEF IsCurrent
<1>5. /\ h \in Seq(Hit) /\ Len(h) <= MaxTopK /\ Len(h) \in Nat
      /\ \A i \in DOMAIN h : IsCurrent(h[i])
  <2>0. <<>> \in Seq(Hit) /\ Len(<<>>) = 0 /\ h = MergeSearchHits(<<>>, s)
    OBVIOUS
  <2>1. PICK none \in Seq(Hit) : Len(none) = 0 /\ h = MergeSearchHits(none, s)
    BY <2>0
  <2> HIDE DEF h
  <2>2. /\ h \in Seq(Hit) /\ Len(h) <= MaxTopK
        /\ \A i \in DOMAIN h : \E j \in DOMAIN s : h[i] = s[j]
    <3>1. s \in Seq(Hit) /\ Len(none) = 0 /\ h = MergeSearchHits(none, s)
      BY <1>4, <2>1
    <3>2. h \in Seq(Hit)
      BY <3>1, FirstHits
    <3>3. Len(h) <= MaxTopK
      BY <3>1, FirstHits
    <3>4. HitsOf(h, s, s)
      BY <3>1, FirstHits
    <3> QED BY <3>2, <3>3, <3>4 DEF HitsOf
  <2> QED BY <1>2, <1>4, <2>2
<1> HIDE DEF h
<1>6. ASSUME NEW n \in 1..MaxTopK, NEW t \in Seq(Hit), \A i \in DOMAIN t : IsCurrent(t[i])
      PROVE  /\ Best(t, n) \in Seq(Hit) /\ Len(Best(t, n)) <= MaxTopK
             /\ \A i \in DOMAIN Best(t, n) : IsCurrent(Best(t, n)[i])
  <2>1. n \in Nat /\ n <= MaxTopK
    BY <1>2
  <2>2. /\ Best(t, n) \in Seq(Hit) /\ Len(Best(t, n)) <= n
        /\ \A i \in DOMAIN Best(t, n) : i \in DOMAIN t /\ Best(t, n)[i] = t[i]
    BY <2>1, BestHits
  <2> QED BY <1>2, <1>6, <2>1, <2>2
<1>7. counted' \in BOOLEAN
  BY <1>1, AskTypes DEF Count, h
<1>8. ASSUME Fast(h) \/ Parent(h) PROVE AnswerInv'
  <2>1. PICK t \in Seq(Hit), n \in 1..MaxTopK :
          hits' = Best(t, n) /\ Searched("gate") /\ \A i \in DOMAIN t : IsCurrent(t[i])
    <3>1. CASE Fast(h)
      BY <1>5, <3>1 DEF Fast
    <3>2. CASE Parent(h)
      <4>1. PICK n \in 1..MaxTopK, kept \in SUBSET DOMAIN h : hits' = Best(Kept(h, kept), n) /\ Searched("gate")
        BY <3>2 DEF Parent
      <4>2. /\ Kept(h, kept) \in Seq(Hit)
            /\ \A i \in DOMAIN Kept(h, kept) : \E j \in DOMAIN h : Kept(h, kept)[i] = h[j]
        BY <1>5, KeptHits
      <4>3. \A i \in DOMAIN Kept(h, kept) : IsCurrent(Kept(h, kept)[i])
        BY <1>5, <4>2
      <4> QED BY <4>1, <4>2, <4>3
    <3> QED BY <1>8, <3>1, <3>2
  <2>2. /\ hits' \in Seq(Hit) /\ Len(hits') <= MaxTopK /\ Len(hits') <= Len(hits) + MaxTopK
        /\ \A i \in DOMAIN hits' : IsCurrent(hits'[i])
    <3>1. /\ Best(t, n) \in Seq(Hit) /\ Len(Best(t, n)) <= MaxTopK
          /\ \A i \in DOMAIN Best(t, n) : IsCurrent(Best(t, n)[i])
      BY <1>6, <2>1
    <3> QED BY <1>2, <2>1, <3>1
  <2> QED BY <1>2, <1>7, <2>1, <2>2, SearchedHits DEF AskSteps
<1>9. ASSUME Deep(h), question.searches = 0 PROVE AnswerInv'
  <2>1. counted' \in BOOLEAN /\ Searched("assess") /\ hits' = h
    BY <1>7, <1>9 DEF Deep
  <2>2. /\ hits' \in Seq(Hit) /\ Len(hits') <= Len(hits) + MaxTopK
        /\ \A i \in DOMAIN hits' : IsCurrent(hits'[i])
    BY <1>2, <1>5, <2>1
  <2> QED BY <1>2, <1>9, <2>1, <2>2, SearchedHits DEF AskSteps
<1>10. ASSUME Rewritten(h) PROVE AnswerInv'
  <2>1. counted' \in BOOLEAN /\ Another /\ hits' = MergeSearchHits(hits, h)
    BY <1>7, <1>10 DEF Rewritten
  <2>2. hits' \in Seq(Hit) /\ Len(hits') <= Len(hits) + Len(h) /\ HitsOf(hits', hits, h)
    BY <1>2, <1>5, <2>1, MergedHits
  <2>3. Len(hits') <= Len(hits) + MaxTopK
    BY <1>2, <1>5, <2>2
  <2>4. \A i \in DOMAIN hits' : IsCurrent(hits'[i]) \/ \E j \in DOMAIN hits : hits'[i] = hits[j]
    BY <1>5, <2>2 DEF HitsOf
  <2>5. PICK t \in {"retrieve", "rerank"} :
          Searched(t) /\ (t = "retrieve" => question.searches + 1 < DeepMaxRetrievalQueries)
    BY <2>1 DEF Another
  <2> QED BY <1>2, <2>1, <2>2, <2>3, <2>4, <2>5, SearchedHits DEF AskSteps
<1> QED BY <1>1, <1>8, <1>9, <1>10 DEF h

LEMMA SearchFailsKeeps ==
  ASSUME AnswerInv, SearchFails, Remembers
  PROVE  AnswerInv'
<1>1. UploadInv' /\ UNCHANGED uploadVars
  BY UploadStutters DEF AnswerInv, SearchFails
<1>2. CASE question.searches = 0
  BY <1>1, <1>2, Finishing DEF SearchFails, Answers
<1>3. CASE question.searches # 0
  <2>1. Another /\ found' = {} /\ UNCHANGED <<hits, counted, answer>>
    BY <1>3 DEF SearchFails
  <2>2. question.searches < DeepMaxRetrievalQueries
    BY AskTypes DEF SearchFails, Asking
  <2>3. PICK t \in {"retrieve", "rerank"} :
          Searched(t) /\ (t = "retrieve" => question.searches + 1 < DeepMaxRetrievalQueries)
    BY <2>1 DEF Another
  <2>4. hits' \in Seq(Hit) /\ Len(hits') <= Len(hits) + MaxTopK /\ counted' \in BOOLEAN
    BY <2>1, AskTypes
  <2>5. \A i \in DOMAIN hits' : \E j \in DOMAIN hits : hits'[i] = hits[j]
    BY <2>1
  <2> QED BY <1>1, <2>1, <2>2, <2>3, <2>4, <2>5, SearchedHits DEF AskSteps
<1> QED BY <1>2, <1>3

LEMMA GateKeeps ==
  ASSUME AnswerInv, Gate, Remembers
  PROVE  AnswerInv'
<1>1. UploadInv' /\ UNCHANGED uploadVars
  BY UploadStutters DEF AnswerInv, Gate
<1>2. CASE Finish("refused")
  BY <1>1, <1>2, Finishing DEF Answers
<1>3. CASE Goes("generate") /\ ~Conflicting(hits)
  <2>1. /\ question' = [question EXCEPT !.step = "generate"] /\ question \in Question
        /\ UNCHANGED <<found, hits, counted, answer>>
    BY <1>3, AskTypes DEF Goes, Then
  <2>2. /\ question' \in Question /\ question'.step = "generate"
        /\ question'.searches = question.searches /\ question'.attempt = question.attempt
    BY <2>1 DEF Question, AskSteps
  <2>3. Asking'
    BY <2>1, <2>2, AskTypes DEF Asking, Step, Gate
  <2>4. Uncontradicted
    BY <1>3, AskTypes, NoConflict
  <2>6. GateHolds'
    BY <2>1, <2>4 DEF GateHolds, Uncontradicted
  <2>7. found' \subseteq Chunks /\ hits' \in Seq(Hit) /\ counted' \in BOOLEAN /\ answer' \in Answers
    BY <2>1, AskTypes
  <2>8. \A i \in DOMAIN hits' : \E j \in DOMAIN hits : hits'[i] = hits[j]
    BY <2>1
  <2> QED BY <1>1, <2>2, <2>3, <2>6, <2>7, <2>8, Evidence
<1> QED BY <1>2, <1>3 DEF Gate

LEMMA GenerateKeeps ==
  ASSUME AnswerInv, Generate, Remembers
  PROVE  AnswerInv'
<1>1. UploadInv' /\ UNCHANGED uploadVars
  BY UploadStutters DEF AnswerInv, Generate
<1>2. CASE \E e \in {"resolved", "error", "fallback"} : Finish(e)
  BY <1>1, <1>2, Finishing DEF Answers
<1>3. CASE /\ question.attempt + 1 < MaxModelAttempts
           /\ question' = [question EXCEPT !.attempt = @ + 1]
           /\ UNCHANGED <<found, hits, counted, answer>>
  <2>1. /\ question' \in Question /\ question'.step = question.step
        /\ question'.searches = question.searches /\ question'.attempt = question.attempt + 1
    BY <1>3, AskTypes DEF Question, MaxModelAttempts
  <2>2. Asking'
    BY <1>3, <2>1, AskTypes DEF Asking, Step, Generate
  <2>4. GateHolds'
    BY <1>3, <2>1 DEF GateHolds, AnswerInv, Uncontradicted, Step
  <2>5. found' \subseteq Chunks /\ hits' \in Seq(Hit) /\ counted' \in BOOLEAN /\ answer' \in Answers
    BY <1>3, AskTypes
  <2>6. \A i \in DOMAIN hits' : \E j \in DOMAIN hits : hits'[i] = hits[j]
    BY <1>3
  <2> QED BY <1>1, <2>1, <2>2, <2>4, <2>5, <2>6, Evidence
<1> QED BY <1>2, <1>3 DEF Generate

-----------------------------------------------------------------------------
(***************************************************************************)
(* The theorems.                                                           *)
(***************************************************************************)
LEMMA AnswerInitially == Init => AnswerInv
<1> SUFFICES ASSUME Init PROVE AnswerInv
  OBVIOUS
<1>1. UploadInv /\ question = Idle /\ found = {} /\ hits = <<>> /\ counted = FALSE /\ answer = "none" /\ served = {}
  BY UploadInitially DEF Init
<1>2. /\ MaxTopK \in Nat /\ 0 <= 0 * MaxTopK /\ 0 <= DeepMaxRetrievalQueries * MaxTopK
      /\ 0 \in 0..DeepMaxRetrievalQueries /\ 0 < DeepMaxRetrievalQueries
  BY AnswerAssumption, Products
<1>3. Asking
  BY <1>1, <1>2 DEF Asking, Step, Idle, MaxModelAttempts
<1>0. counted \in BOOLEAN
  BY <1>1
<1>4. AnswerTypeOK
  BY <1>0, <1>1, <1>2 DEF AnswerTypeOK, UploadInv, Idle, AskSteps, MaxModelAttempts, Step
<1>5. HitsStored /\ EvidenceWasActive /\ GateHolds
  BY <1>1 DEF HitsStored, EvidenceWasActive, GateHolds, Step, Idle
<1> QED BY <1>1, <1>3, <1>4, <1>5 DEF AnswerInv

LEMMA AnswerStep == AnswerInv /\ [Next]_vars => AnswerInv'
<1> SUFFICES ASSUME AnswerInv, [Next]_vars PROVE AnswerInv'
  OBVIOUS
<1>1. CASE Next /\ Answer_
  <2>1. Remembers
    BY <1>1 DEF Next, Remembers
  <2> QED BY <1>1, <2>1, AskKeeps, HydrateKeeps, SearchFailsKeeps, SkipDeepKeeps,
             RerankKeeps, GateKeeps, GenerateKeeps DEF Answer_
<1>2. CASE Next /\ UploadNext /\ UNCHANGED askVars
  BY <1>2, UploadStepKeeps, Waiting DEF Next, Remembers, AnswerInv
<1>3. CASE Next /\ Crash
  <2>1. UploadInv' /\ ContentKept /\ Remembers
    BY <1>3, UploadStepKeeps DEF Next, Remembers, AnswerInv, Crash
  <2>2. UNCHANGED askVars \/ Finish("error")
    BY <1>3 DEF Crash
  <2> QED BY <2>1, <2>2, Waiting, Finishing DEF Answers
<1>4. CASE UNCHANGED vars
  <2>1. /\ UploadInv' /\ ContentKept /\ UNCHANGED uploadVars /\ served' = served
        /\ question' = question /\ found' = found /\ hits' = hits /\ counted' = counted /\ answer' = answer
    BY <1>4, UploadStutters DEF vars, askVars, AnswerInv
  <2>3. Asking' /\ AnswerTypeOK' /\ HitsStored' /\ GateHolds' /\ EvidenceWasActive'
    BY <2>1 DEF AnswerInv, Asking, AnswerTypeOK, HitsStored, GateHolds, Uncontradicted, EvidenceWasActive, TextsIn,
                Step, UploadInv, uploadVars
  <2> QED BY <2>1, <2>3 DEF AnswerInv
<1> QED BY <1>1, <1>2, <1>3, <1>4 DEF Next

\* The invariant holds in every state: what requests have done, what the
\* question was given, and what follows from both.
THEOREM AnswerInductive == Spec => []AnswerInv
BY AnswerInitially, AnswerStep, PTL DEF Spec

\* Rows, files, requests and the question are well formed: a search never
\* adds more hits than MaxTopK, and at most that many reach the model.
THEOREM AnswerTypeCorrect == Spec => []AnswerTypeOK
<1>1. AnswerInv => AnswerTypeOK
  BY DEF AnswerInv
<1> QED BY <1>1, AnswerInductive, PTL

\* Questions run beside the uploads and change nothing of theirs: whatever is
\* proved of UploadSpec holds while questions are answered.
THEOREM AnswersOnUploads == Spec => UploadSpec
<1>1. Init => UploadInit
  BY DEF Init
<1>2. [Next]_vars => [UploadNext \/ ApiCrash]_uploadVars
  BY DEF Next, Answer_, Ask, Retrieve, RetrieveKeyword, Hydrate, SearchFails, SkipDeep, Rewrite, Rerank,
         Gate, Generate, Crash, vars
<1> QED BY <1>1, <1>2, PTL DEF Spec, UploadSpec

\* Every hit was the active content of a document since the question was
\* asked.
THEOREM EvidenceIsActive == Spec => []EvidenceWasActive
<1>1. AnswerInv => EvidenceWasActive
  BY DEF AnswerInv
<1> QED BY <1>1, AnswerInductive, PTL

\* What a version holds never changes, so the text that was found is still the
\* version's when the model has answered.
THEOREM ContentIsImmutable == Spec => [][ContentKept]_vars
<1>1. AnswerInv /\ [Next]_vars => [ContentKept]_vars
  <2> SUFFICES ASSUME AnswerInv, [Next]_vars PROVE ContentKept
    OBVIOUS
  <2>1. UploadNext \/ ApiCrash \/ UNCHANGED uploadVars
    BY DEF Next, Answer_, Ask, Retrieve, RetrieveKeyword, Hydrate, SearchFails, SkipDeep, Rewrite, Rerank,
           Gate, Generate, Crash, vars
  <2> QED BY <2>1, UploadStepKeeps, UploadStutters DEF AnswerInv
<1> QED BY <1>1, AnswerInductive, PTL DEF Spec

\* An answer that claims to have resolved the question rests on evidence in
\* which no two sources differ, whatever was promoted between two searches or
\* while the model was writing.
THEOREM ResolvedUncontradicted == Spec => ResolvedIsUncontradicted
<1>1. AnswerInv /\ [Next]_vars =>
        [answer' = "resolved" /\ answer # "resolved" => Uncontradicted]_vars
  <2> SUFFICES ASSUME AnswerInv, [Next]_vars, answer' = "resolved", answer # "resolved"
               PROVE  Uncontradicted
    OBVIOUS
  <2>1. Next /\ answer' # answer
    BY DEF vars, askVars
  <2>2. ~(UploadNext /\ UNCHANGED askVars) /\ ~Crash
    BY <2>1 DEF askVars, Crash, Finish
  <2>3. Generate
    BY <2>1, <2>2 DEF Next, Answer_, Ask, Retrieve, RetrieveKeyword, Hydrate, SearchFails, SkipDeep, Rewrite,
                      Rerank, Gate, Finish, Goes
  <2> QED BY <2>3 DEF Generate, AnswerInv, GateHolds
<1> QED BY <1>1, AnswerInductive, PTL DEF Spec, ResolvedIsUncontradicted
=============================================================================
