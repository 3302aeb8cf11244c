---------------------------- MODULE GroundedAnswer ----------------------------
(***************************************************************************)
(* Answering a question from the documents while they change: a search     *)
(* reads candidates from Redis and then their authority from MySQL, the    *)
(* deep strategy searches again with rewritten queries and reranks, the    *)
(* parent strategy keeps the best of a wider search, the gate decides      *)
(* whether the evidence suffices, and the model's answer is verified.      *)
(*                                                                         *)
(* A question writes nothing, so one is enough.  What the embedder, the    *)
(* index and the models return is arbitrary within what the code accepts.  *)
(* A version's content is cut into texts, its chunks; a text may state     *)
(* values of the fact asked for, and two texts of one version may state    *)
(* different ones.  A hit of both retrievers outranks every other: 2/80 is *)
(* more than 1/61.  The strategy, the number of hits asked for and how     *)
(* many queries a rewrite gives are chosen where they first matter, and so *)
(* are which texts of a version were found, which of the two retrievers    *)
(* found each, and which texts share a parent.  Of the diagnostics' counts *)
(* only the lexical one needs a variable: where there is evidence some     *)
(* candidate may have been a dense one, and the gate looks at the keyword  *)
(* candidates only with a hit of both retrievers, which is one.            *)
(***************************************************************************)
EXTENDS DocumentUpload, Sequences, SequencesExt

CONSTANTS DeepMaxRetrievalQueries,  \* searches of a deep question; 3 in the code
          MaxTopK,  \* MaxTopK, maxRerankCandidates
          TextsOf,  \* the texts a content is cut into
          ValuesIn  \* the values of the fact that a text states

\* A document id is a uuid, a content is known by its SHA-256, a file is finite.
ASSUME AnswerAssumption ==
  /\ DeepMaxRetrievalQueries \in Nat /\ DeepMaxRetrievalQueries >= 2
  /\ MaxTopK \in Nat /\ MaxTopK >= 1 /\ IsFiniteSet(Documents) /\ IsFiniteSet(Contents)
  /\ \A x \in Contents : IsFiniteSet(TextsOf[x]) /\ \A t \in TextsOf[x] : IsFiniteSet(ValuesIn[t])

VARIABLES question,  \* the request: its step, searches and attempts
          found,     \* whose chunks Redis returned to the search under way
          hits,      \* the evidence, best first
          counted,   \* whether the first search had hits to count
          answer,    \* how it ended
          served     \* history: the versions that were active since it was asked

askVars == <<question, found, hits, counted, answer>>
vars    == <<uploadVars, askVars, served>>

MaxModelAttempts == 2

MaxChildrenPerParent   == 2
MaxChildrenPerDocument == 3

Texts == UNION {TextsOf[x] : x \in Contents}
Hit   == [source: Chunks, text: Texts, both: BOOLEAN]
Idle == [step |-> "idle", searches |-> 0, attempt |-> 0]
AskSteps == {"idle", "retrieve", "keyword", "hydrate", "assess", "rerank", "gate", "generate"}

Step(s) == question.step = s

AnswerTypeOK ==
  /\ UploadTypeOK
  /\ question \in [step: AskSteps, searches: 0..DeepMaxRetrievalQueries, attempt: 0..MaxModelAttempts]
  /\ found \subseteq Chunks
  /\ hits \in Seq(Hit)
  /\ Len(hits) <= IF Step("gate") \/ Step("generate") THEN MaxTopK ELSE DeepMaxRetrievalQueries * MaxTopK
  /\ counted \in BOOLEAN
  /\ answer \in {"none", "refused", "resolved", "fallback", "error"}
  /\ served \subseteq Chunks

Init ==
  /\ UploadInit
  /\ question = Idle
  /\ found = {}
  /\ hits = <<>>
  /\ counted = FALSE
  /\ answer = "none"
  /\ served = {}

-----------------------------------------------------------------------------
(***************************************************************************)
(* Hits.                                                                   *)
(***************************************************************************)
TextsIn(p)  == TextsOf[version[p[1]][p[2]].content]
Best(s, n) == SubSeq(s, 1, IF n < Len(s) THEN n ELSE Len(s))
IsHybrid   == \E i \in DOMAIN hits : hits[i].both

\* The k-th smallest of some positions.
Nth(positions, k) == CHOOSE i \in positions : Cardinality({j \in positions : j <= i}) = k

Kept(s, positions) == [k \in 1..Cardinality(positions) |-> s[Nth(positions, k)]]

\* One hit for each text, up to MaxTopK, unless there were as many before.
MergeSearchHits(existing, additional) ==
  LET all    == existing \o additional
      kept   == {i \in DOMAIN all : i <= Len(existing) \/ \A j \in 1..(i - 1) : all[j].text # all[i].text}
      merged == Kept(all, kept)
  IN IF Len(existing) >= MaxTopK THEN merged ELSE Best(merged, MaxTopK)

\* The orders reciprocal rank fusion may give them.
Fused(chunks, both) ==
  {s \in SetToSeqs({[source |-> c[1], text |-> c[2], both |-> c \in both] : c \in chunks}) :
     \A i, j \in DOMAIN s : i < j /\ s[j].both => s[i].both}

Facts(s)   == UNION {ValuesIn[s[i].text] : i \in DOMAIN s}
Sources(s) == {s[i].source : i \in {k \in DOMAIN s : ValuesIn[s[k].text] # {}}}

\* Mutated form of Conflicting: a document is one source, whatever its version.
ConflictingDocuments(s) == Cardinality(Facts(s)) > 1 /\ Cardinality({p[1] : p \in Sources(s)}) > 1

\* One version may state two values; two versions may not.
Conflicting(s) == Cardinality(Facts(s)) > 1 /\ Cardinality(Sources(s)) > 1

-----------------------------------------------------------------------------
(***************************************************************************)
(* A question.                                                             *)
(***************************************************************************)
Then(s)   == question' = [question EXCEPT !.step = s]

\* The answer is sent, and what the request held is gone with it.
Finish(e) ==
  /\ answer' = e
  /\ question' = Idle /\ found' = {} /\ hits' = <<>> /\ counted' = FALSE
Goes(s) == Then(s) /\ UNCHANGED <<found, hits, counted, answer>>

Ask ==
  /\ Step("idle")
  /\ Then("retrieve")
  /\ answer' = "none"
  /\ UNCHANGED <<uploadVars, found, hits, counted>>

\* Each retriever, one after the other, finds chunks of any of the versions Redis
\* holds at its moment, or is unavailable.
Retrieve ==
  /\ Step("retrieve")
  /\ found' \in SUBSET redis
  /\ Then("keyword")
  /\ UNCHANGED <<uploadVars, hits, counted, answer>>

RetrieveKeyword ==
  /\ Step("keyword")
  /\ \E more \in SUBSET redis : found' = found \cup more
  /\ Then("hydrate")
  /\ UNCHANGED <<uploadVars, hits, counted, answer>>

\* Mutated form of FindAccessibleChunks: any version that was indexed.
FindIndexedChunks(chunks) ==
  {p \in chunks : document[p[1]].status = "indexed" /\ version[p[1]][p[2]].status = "indexed"}

FindAccessibleChunks(chunks) == chunks \cap Active

\* The chunks of some versions.
Authority(sources) == {c \in sources \X Texts : c[2] \in TextsIn(c[1])}

\* The hits with lexical support are counted in the first search alone.
Count(h) == counted' = IF question.searches = 0 THEN h # <<>> ELSE counted

Searched(step) == question' = [question EXCEPT !.searches = @ + 1, !.step = step]

\* The fast strategy searches for what it returns.
Fast(h) == (\E n \in 1..MaxTopK : hits' = Best(h, n)) /\ Searched("gate")

\* A document gives at most three hits, and each of its parents two.
Quotas(s, kept) == \A i \in DOMAIN s :
  LET before == Cardinality({j \in kept : j < i /\ s[j].source[1] = s[i].source[1]})
  IN IF i \in kept THEN before < MaxChildrenPerDocument ELSE before >= MaxChildrenPerParent

\* The others search wide and cut afterwards, the counts being what they were.
Parent(h) ==
  /\ \E n \in 1..MaxTopK, kept \in SUBSET DOMAIN h : Quotas(h, kept) /\ hits' = Best(Kept(h, kept), n)
  /\ Searched("gate")
Deep(h) == hits' = h /\ Searched("assess")

\* A rewritten query, of at most two.
Another ==
  \/ question.searches + 1 < DeepMaxRetrievalQueries /\ Searched("retrieve")
  \/ Searched("rerank")
Rewritten(h) == hits' = MergeSearchHits(hits, h) /\ Another

\* Whichever chunks were found, of those that are active and in force.
Hydrate ==
  /\ Step("hydrate")
  /\ \E chunks \in SUBSET Authority(FindAccessibleChunks(found)) :
     \E both \in SUBSET chunks : \E s \in Fused(chunks, both) :
       LET h == MergeSearchHits(<<>>, s) IN
       /\ Count(h)
       /\ IF question.searches = 0 THEN Fast(h) \/ Parent(h) \/ Deep(h) ELSE Rewritten(h)
  /\ found' = {}
  /\ UNCHANGED <<uploadVars, answer>>

\* Both retrievers fail, or the authority does.  A rewritten query's search
\* is passed over.
SearchFails ==
  /\ Step("hydrate")
  /\ IF question.searches = 0
       THEN Finish("error")
       ELSE /\ Another
            /\ found' = {}
            /\ UNCHANGED <<hits, counted, answer>>
  /\ UNCHANGED uploadVars

\* Evidence of one retriever always calls for a rewrite; else the question,
\* the scores and the sources decide.
SkipDeep ==
  /\ Step("assess") /\ IsHybrid
  /\ \E n \in 1..MaxTopK : hits' = Best(hits, n)
  /\ Then("gate")
  /\ UNCHANGED <<uploadVars, found, counted, answer>>

\* No query is added when the model fails.
Rewrite ==
  /\ Step("assess")
  /\ Then("retrieve") \/ Then("rerank")
  /\ UNCHANGED <<uploadVars, found, hits, counted, answer>>

\* Only the first candidates are ranked, each exactly once, or none.
Rerank ==
  /\ Step("rerank")
  /\ LET n == IF Len(hits) < MaxTopK THEN Len(hits) ELSE MaxTopK IN
     \E p \in SetToSeqs(1..n), limit \in 1..MaxTopK :
       hits' = Best([i \in DOMAIN hits |-> hits[IF i <= n THEN p[i] ELSE i]], limit)
  /\ Then("gate")
  /\ UNCHANGED <<uploadVars, found, counted, answer>>

\* EvidenceGate.Evaluate: the best score may or may not suffice; evidence of one
\* retriever does when dense candidates were counted and lexical support was.
Gate ==
  /\ Step("gate")
  /\ \/ Finish("refused")
     \/ /\ ~Conflicting(hits) /\ hits # <<>>
        /\ IsHybrid \/ counted
        /\ Goes("generate")
  /\ UNCHANGED uploadVars

\* An answer that does not cite the evidence is asked for once more, then
\* replaced by a list of the evidence.
Generate ==
  /\ Step("generate")
  /\ \/ Finish("resolved")
     \/ Finish("error")
     \/ IF question.attempt + 1 < MaxModelAttempts
          THEN /\ question' = [question EXCEPT !.attempt = @ + 1]
               /\ UNCHANGED <<found, hits, counted, answer>>
          ELSE Finish("fallback")
  /\ UNCHANGED uploadVars

Answer_ == Ask \/ Retrieve \/ RetrieveKeyword \/ Hydrate \/ SearchFails \/ SkipDeep \/ Rewrite \/ Rerank \/ Gate \/ Generate

Crash ==
  /\ ApiCrash
  /\ IF Step("idle") THEN UNCHANGED askVars ELSE Finish("error")

Next ==
  /\ \/ Answer_
     \/ UploadNext /\ UNCHANGED askVars
     \/ Crash
  /\ served' = IF question'.step = "idle" THEN {} ELSE served \cup Active'

Spec == Init /\ [][Next]_vars

-----------------------------------------------------------------------------
(***************************************************************************)
(* Properties.                                                             *)
(***************************************************************************)
\* All evidence is text of a version that was its document's active one at some
\* moment since the question was asked, whatever was promoted, deleted or left
\* in Redis between the searches.
EvidenceWasActive == \A i \in DOMAIN hits :
  hits[i].source \in served /\ hits[i].text \in TextsIn(hits[i].source)

\* No answer claims to have resolved the question on evidence in which two
\* sources state different values, not even when a document's next version was
\* promoted between two searches.  Two texts of one version may differ.
Uncontradicted == \A i, j \in DOMAIN hits :
  hits[i].source # hits[j].source => \A x \in ValuesIn[hits[i].text], y \in ValuesIn[hits[j].text] : x = y

ResolvedIsUncontradicted == [][answer' = "resolved" /\ answer # "resolved" => Uncontradicted]_vars
=============================================================================
