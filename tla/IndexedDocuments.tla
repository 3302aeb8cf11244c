--------------------------- MODULE IndexedDocuments ---------------------------
(***************************************************************************)
(* What happens to a tenant's documents, for those who search them: the    *)
(* rows of MySQL that say what is current, and the chunks that Redis       *)
(* shows.  Jobs, events, messages, worker processes, files and requests    *)
(* are not part of it.                                                     *)
(*                                                                         *)
(* Two models implement it.  KnowledgeIndex shows how jobs, retries and    *)
(* crashes bring these steps about; DocumentUpload lets requests and       *)
(* questions run against them.  Whatever holds here holds in both, and     *)
(* the index worker of DocumentUpload is held to what that of              *)
(* KnowledgeIndex does.                                                    *)
(***************************************************************************)
EXTENDS Naturals

CONSTANTS Documents, MaxVersion

VARIABLES document,  \* knowledge_documents: status and active version
          version,   \* knowledge_document_versions: status
          redis      \* the chunks a search may find

vars == <<document, version, redis>>

Versions == 1..MaxVersion
Chunks   == Documents \X Versions

\* Some documents may be there, completely indexed.
Init == \E stored \in SUBSET Documents :
  /\ document = [d \in Documents |-> IF d \in stored THEN [status |-> "indexed", current |-> 1]
                                                     ELSE [status |-> "none", current |-> 0]]
  /\ version = [d \in Documents |-> [v \in Versions |-> IF d \in stored /\ v = 1 THEN "indexed" ELSE "none"]]
  /\ redis = stored \X {1}

Live(d)    == document[d].status \notin {"none", "deleted"}
Pending(d) == \E v \in Versions : version[d][v] \in {"uploaded", "parsing"}
Indexed    == {p \in Chunks : version[p[1]][p[2]] = "indexed"}
Active     == {p \in Indexed : document[p[1]].status = "indexed" /\ document[p[1]].current = p[2]}

Shows(d, s)         == document' = [document EXCEPT ![d] = [status |-> s, current |-> document[d].current]]
SetVersion(d, v, s) == version' = [version EXCEPT ![d][v] = s]

-----------------------------------------------------------------------------
\* The API service: a document with its first version, one more version, and
\* a deletion, which waits for no version to be under way.
Upload(d) ==
  /\ document[d].status = "none"
  /\ document' = [document EXCEPT ![d] = [status |-> "uploaded", current |-> 1]]
  /\ SetVersion(d, 1, "uploaded")
  /\ UNCHANGED redis

Stage(d, v) ==
  /\ Live(d) /\ version[d][v] = "none"
  /\ \A u \in Versions : u < v => version[d][u] # "none"
  /\ SetVersion(d, v, "uploaded")
  /\ UNCHANGED <<document, redis>>

Delete(d) ==
  /\ Live(d) /\ ~Pending(d)
  /\ Shows(d, "deleted")
  /\ UNCHANGED <<version, redis>>

-----------------------------------------------------------------------------
\* The index worker.  A version that is indexed is not claimed again.
Claim(d, v) ==
  /\ Live(d) /\ version[d][v] \notin {"none", "indexed"}
  /\ SetVersion(d, v, "parsing")
  /\ IF document[d].current = v /\ document[d].status # "indexed" THEN Shows(d, "parsing") ELSE UNCHANGED document
  /\ UNCHANGED redis

Project(d, v) ==
  /\ Live(d) /\ version[d][v] = "parsing"
  /\ redis' = redis \cup {<<d, v>>}
  /\ UNCHANGED <<document, version>>

\* A version is completed after its projection, and becomes the active one
\* unless a newer one is.
Complete(d, v) ==
  /\ Live(d) /\ version[d][v] = "parsing" /\ <<d, v>> \in redis
  /\ SetVersion(d, v, "indexed")
  /\ document' = IF v >= document[d].current
                   THEN [document EXCEPT ![d] = [status |-> "indexed", current |-> v]] ELSE document
  /\ UNCHANGED redis

\* A failure is recorded without a look at what the version has become: late,
\* it may undo a completion or a deletion.  A searchable document stays so
\* unless it is its active version that fails.
RecordFailure(d, v, s) ==
  /\ version[d][v] # "none"
  /\ SetVersion(d, v, s)
  /\ IF v >= document[d].current /\ (v = document[d].current \/ document[d].status # "indexed")
       THEN Shows(d, s) ELSE UNCHANGED document
  /\ UNCHANGED redis

\* The clean-up erases chunks of a deleted document, and marks its rows when
\* none is left.
Erase(d) ==
  /\ document[d].status = "deleted"
  /\ \E gone \in SUBSET ({d} \X Versions) : redis' = redis \ gone
  /\ UNCHANGED <<document, version>>

CompleteDelete(d) ==
  /\ document[d].status = "deleted"
  /\ \A v \in Versions : <<d, v>> \notin redis
  /\ version' = [version EXCEPT ![d] = [v \in Versions |-> IF version[d][v] = "none" THEN "none" ELSE "deleted"]]
  /\ UNCHANGED <<document, redis>>

\* A worker that starts removes what is not active and restores what is
\* missing of what it read as active; Redis may restart empty.
Prune ==
  /\ UNCHANGED <<document, version>>
  /\ redis' \subseteq redis /\ redis \cap Active \subseteq redis'

Restore ==
  /\ UNCHANGED <<document, version>>
  /\ redis \subseteq redis' /\ redis' \subseteq redis \cup Indexed

Lose == redis' = {} /\ UNCHANGED <<document, version>>

Next ==
  \/ Prune \/ Restore \/ Lose
  \/ \E d \in Documents : Upload(d) \/ Delete(d) \/ Erase(d) \/ CompleteDelete(d)
  \/ \E d \in Documents, v \in Versions :
       \/ Stage(d, v) \/ Claim(d, v) \/ Project(d, v) \/ Complete(d, v)
       \/ \E s \in {"parsing", "failed"} : RecordFailure(d, v, s)

Spec == Init /\ [][Next]_vars
=============================================================================
