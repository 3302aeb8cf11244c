---------------------------- MODULE IncidentMemory ----------------------------
(***************************************************************************)
(* Confirmed incidents: an operator confirms a hypothesis of a finished    *)
(* diagnostic run; feedback, incident and outbox row are created together; *)
(* a consumer projects the case into Redis and only then marks it indexed, *)
(* which makes it recallable.  Clients repeat requests and race.           *)
(*                                                                         *)
(* A run that is SUCCEEDED never changes again (DiagnosticRun), so the     *)
(* locked check of its state always passes here.                           *)
(***************************************************************************)
EXTENDS FailurePool

CONSTANTS Clients,     \* requests of one user
          Keys,        \* client_request_id
          Hypotheses,  \* hypotheses, each with the resolution that is sent
          Nothing

VARIABLES incident,    \* resolved_incidents with the feedback they stem from
          projected,   \* cases in Redis
          asking,      \* the confirmation a client's transaction will insert
          told         \* history: the hypotheses clients were told are confirmed

incidentVars == <<incident, projected, asking, told>>

Commands == [run: Incidents, key: Keys, hypothesis: Hypotheses]
NoCase   == [index |-> "none", key |-> Nothing, hypothesis |-> Nothing]

ASSUME IncidentAssumption == Nothing \notin Commands \cup Keys \cup Hypotheses

IncidentTypeOK ==
  /\ incident \in [Incidents -> [index: {"none", "pending", "indexed", "failed"},
                                 key: Keys \cup {Nothing}, hypothesis: Hypotheses \cup {Nothing}]]
  /\ projected \subseteq Incidents
  /\ asking \in [Clients -> Commands \cup {Nothing}]
  /\ told \in [Incidents -> SUBSET Hypotheses]

IncidentInit ==
  /\ incident = [i \in Incidents |-> NoCase]
  /\ projected = {}
  /\ asking = [c \in Clients |-> Nothing]
  /\ told = [i \in Incidents |-> {}]
-----------------------------------------------------------------------------
(* Confirm.                                                                *)

Tell(q) == told' = [told EXCEPT ![q.run] = @ \cup {q.hypothesis}]

Exists(i)      == incident[i].index # "none"
KeyUsed(k)     == \E i \in Incidents : incident[i].key = k
SameRequest(q) == incident[q.run].key = q.key /\ incident[q.run].hypothesis = q.hypothesis

\* Mutated form of SameOutcome: any confirmation of the run is an answer.
SameOutcomeAny(q) == Exists(q.run)

\* An incident of the run is an answer if it is the one that is asked for.
SameOutcome(q) == incident[q.run].hypothesis = q.hypothesis

\* The transaction's reads: a replay, a conflict, or nothing in the way.
ReadConfirm(c) ==
  /\ asking[c] = Nothing
  /\ \E q \in Commands :
       IF KeyUsed(q.key) \/ Exists(q.run)
       THEN /\ IF KeyUsed(q.key) THEN SameRequest(q) ELSE SameOutcome(q)
            /\ Tell(q)
            /\ UNCHANGED <<asking, begun>>
       ELSE Begin(q.run) /\ asking' = [asking EXCEPT ![c] = q] /\ UNCHANGED told
  /\ UNCHANGED <<incident, projected, poolVars, evaluationVars, outbox, queue, hand, faults>>

\* The inserts, under the unique indexes of the request and of the run; who
\* loses reads again by key, and answers a request that is exactly the same.
InsertConfirm(c) ==
  /\ asking[c] # Nothing
  /\ LET q == asking[c] IN
       IF KeyUsed(q.key) \/ Exists(q.run)
       THEN /\ IF SameRequest(q) THEN Tell(q) ELSE UNCHANGED told
            /\ UNCHANGED <<incident, outbox>>
       ELSE /\ incident' = [incident EXCEPT ![q.run] =
                 [index |-> "pending", key |-> q.key, hypothesis |-> q.hypothesis]]
            /\ Enqueue(q.run)
            /\ Tell(q)
  /\ asking' = [asking EXCEPT ![c] = Nothing]
  /\ UNCHANGED <<projected, begun, queue, hand, faults, poolVars, evaluationVars>>

\* The transaction fails, or commits and its answer is lost.
LoseConfirm(c) ==
  /\ asking[c] # Nothing /\ Fault
  /\ asking' = [asking EXCEPT ![c] = Nothing]
  /\ LET q == asking[c] IN
       \/ UNCHANGED <<incident, outbox>>
       \/ /\ ~KeyUsed(q.key) /\ ~Exists(q.run)
          /\ incident' = [incident EXCEPT ![q.run] =
               [index |-> "pending", key |-> q.key, hypothesis |-> q.hypothesis]]
          /\ Enqueue(q.run)
  /\ UNCHANGED <<projected, told, begun, queue, hand, poolVars, evaluationVars>>
-----------------------------------------------------------------------------
(* Indexing.                                                               *)

Indexes(h, step) == hand[h].step = step /\ hand[h].job \in Incidents
SetIndex(i, v)   == incident' = [incident EXCEPT ![i].index = v]

GetIncident(h) ==
  /\ Indexes(h, "get")
  /\ \/ Goto(h, IF incident[hand[h].job].index = "indexed" THEN "ack" ELSE "index") /\ NoFault
     \/ Goto(h, OnFailure(h)) /\ Fault
  /\ UNCHANGED <<incident, projected, begun, outbox, queue>>

Index(h) ==
  /\ Indexes(h, "index")
  /\ \/ projected' = projected \cup {hand[h].job} /\ Goto(h, "indexed") /\ NoFault
     \/ projected' \in {projected, projected \cup {hand[h].job}} /\ Goto(h, "note") /\ Fault
  /\ UNCHANGED <<incident, begun, outbox, queue>>

MarkIndexed(h) ==
  /\ Indexes(h, "indexed")
  /\ \/ SetIndex(hand[h].job, "indexed") /\ Goto(h, "ack") /\ NoFault
     \/ (SetIndex(hand[h].job, "indexed") \/ UNCHANGED incident) /\ Goto(h, "note") /\ Fault
  /\ UNCHANGED <<projected, begun, outbox, queue>>

\* RecordIndexFailure, whose own failure is ignored.
NoteFailure(h) ==
  /\ Indexes(h, "note")
  /\ \/ SetIndex(hand[h].job, "pending") /\ NoFault
     \/ UNCHANGED incident /\ Fault
  /\ Goto(h, OnFailure(h))
  /\ UNCHANGED <<projected, begun, outbox, queue>>

\* RecordIndexFailure, exhausted.
GivenUp == "failed"

ExhaustIncident(h) ==
  /\ Indexes(h, "exhaust")
  /\ \/ SetIndex(hand[h].job, GivenUp) /\ Goto(h, AfterExhaust(FALSE)) /\ NoFault
     \/ /\ SetIndex(hand[h].job, GivenUp) \/ UNCHANGED incident
        /\ Goto(h, AfterExhaust(TRUE)) /\ Fault
  /\ UNCHANGED <<projected, begun, outbox, queue>>

IndexStep(h) ==
  /\ GetIncident(h) \/ Index(h) \/ MarkIndexed(h) \/ NoteFailure(h) \/ ExhaustIncident(h)
  /\ UNCHANGED <<asking, told, poolVars, evaluationVars>>

IncidentNext ==
  \/ \E c \in Clients : ReadConfirm(c) \/ InsertConfirm(c) \/ LoseConfirm(c)
  \/ \E h \in Handlers : IndexStep(h)
-----------------------------------------------------------------------------
\* Whoever was told that a hypothesis is confirmed can rely on it: it is the
\* one the run's incident holds, whichever requests raced or were repeated;
\* and a case that is recallable is in Redis (Confirm, Processor.Process).
ConfirmedIsStored ==
  /\ \A i \in Incidents : told[i] \subseteq {incident[i].hypothesis}
  /\ \A i \in Incidents : incident[i].index = "indexed" => i \in projected
=============================================================================
