----------------------------- MODULE Collaboration -----------------------------
(***************************************************************************)
(* The supervised collaboration: a model that decides round by round what  *)
(* to delegate to a knowledge and a diagnostic agent, the agents at work   *)
(* in parallel under a common deadline, the audit of every decision and of *)
(* every result, the bank of evidence that results may add to, and the     *)
(* answer that is merged from them.                                        *)
(*                                                                         *)
(* A piece of evidence has the identity the supervisor gave it, <<t, s>>   *)
(* for source s as delegation t found it, and a text: 0 as retrieved, n    *)
(* when cleaning changed it n times. The claims of a result are one claim  *)
(* that cites the result's evidence. Objectives and questions are named,   *)
(* not written; usage and durations are left out.                          *)
(***************************************************************************)
EXTENDS Naturals, Sequences, FiniteSets

CONSTANTS Documents,      \* what the knowledge agent may retrieve
          Reports,        \* what the diagnostic rules find in the request
          Cleanings,      \* how many times cleaning a source's text changes it
          Void,           \* the sources of which cleaning leaves nothing
          Objectives,
          MaxRounds, MaxDelegations

Sources == Documents \cup Reports

ASSUME CollaborationAssumption ==
  /\ Documents \cap Reports = {}
  /\ Cleanings \in [Sources -> Nat] /\ Void \subseteq Sources
  /\ MaxRounds \in Nat \ {0} /\ MaxDelegations \in Nat

Agents == {"knowledge", "diagnostic"}

EvidenceIds == (1..MaxDelegations) \X Sources
Evidence == [id : EvidenceIds, text : Nat]
Source(e) == e.id[2]

VARIABLES phase,     \* the gate is free in "idle"
          round, stop,
          tasks,     \* the delegations in order
          seen,      \* keys of delegations made
          bank,      \* evidence offered for hand-over
          strikes,   \* invalidCount and noProgress
          recorded,  \* what the audit holds: rounds and delegations
          lost,      \* the audit failed
          ended,     \* what ended the context: "none", "cancelled", "timeout"
          answer     \* of the last run

vars == <<phase, round, stop, tasks, seen, bank, strikes, recorded, lost, ended, answer>>

NoAnswer == [status |-> "none", cited |-> {}]

Init ==
  /\ phase = "idle" /\ round = 0 /\ stop = "none"
  /\ tasks = <<>> /\ seen = {} /\ bank = {}
  /\ strikes = [invalid |-> 0, idle |-> 0]
  /\ recorded = {} /\ lost = FALSE /\ ended = "none" /\ answer = NoAnswer

\* A request takes the gate; while it is taken others are told it is busy.
Accept ==
  /\ phase = "idle"
  /\ phase' = "round" /\ round' = 1 /\ stop' = "round_budget"
  /\ tasks' = <<>> /\ seen' = {} /\ bank' = {}
  /\ strikes' = [invalid |-> 0, idle |-> 0]
  /\ recorded' = {} /\ lost' = FALSE /\ ended' = "none" /\ answer' = NoAnswer

\* The caller leaves or the total time is over, at any moment of the run; a
\* caller who leaves after that is told so.
EndContext(how) ==
  /\ phase # "idle"
  /\ ended = "none" \/ (ended = "timeout" /\ how = "cancelled")
  /\ ended' = how
  /\ UNCHANGED <<phase, round, stop, tasks, seen, bank, strikes, recorded, lost, answer>>

Stop(reason) == stop' = reason /\ phase' = "merging" /\ UNCHANGED round

\* The next round, unless that was the last.
GoOn ==
  IF round = MaxRounds THEN phase' = "merging" /\ UNCHANGED <<round, stop>>
                       ELSE phase' = "round" /\ round' = round + 1 /\ UNCHANGED stop

\* The context is tested, then the size of what the model would be told.
BeginRound ==
  /\ phase = "round"
  /\ \/ ended # "none" /\ Stop("cancelled_or_timeout")
     \/ ended = "none" /\ round > 1 /\ Stop("context_budget")
     \/ ended = "none" /\ phase' = "deciding" /\ UNCHANGED <<round, stop>>
  /\ UNCHANGED <<tasks, seen, bank, strikes, recorded, lost, ended, answer>>

ModelFails ==
  /\ phase = "deciding" /\ Stop("model_error_or_timeout")
  /\ UNCHANGED <<tasks, seen, bank, strikes, recorded, lost, ended, answer>>

\* Anything parseSupervisor refuses; the second time ends the run.
Invalid ==
  /\ phase = "deciding"
  /\ strikes' = [strikes EXCEPT !.invalid = @ + 1]
  /\ IF strikes'.invalid >= 2 THEN Stop("invalid_model_output") ELSE GoOn
  /\ UNCHANGED <<tasks, seen, bank, recorded, lost, ended, answer>>

\* An audit is recorded or not; when it is, that may not be known.
Audit(what, known) ==
  \/ recorded' = recorded \cup {what}
  \/ ~known /\ UNCHANGED recorded

DecisionUnaudited ==
  /\ phase = "deciding"
  /\ Audit(<<"supervisor", round>>, FALSE)
  /\ lost' = TRUE /\ Stop("audit_unavailable")
  /\ UNCHANGED <<tasks, seen, bank, strikes, ended, answer>>

Finish ==
  /\ phase = "deciding"
  /\ Audit(<<"supervisor", round>>, TRUE) /\ Stop("model_finished")
  /\ UNCHANGED <<tasks, seen, bank, strikes, lost, ended, answer>>

BankIds == {e.id : e \in bank}

\* What parseSupervisor lets the supervisor delegate in one decision: one task
\* or two for different agents, within the budget, handing over known evidence.
Batches ==
  {b \in UNION {[A -> [objective : Objectives, handed : SUBSET BankIds]] :
                  A \in (SUBSET Agents) \ {{}}} :
     Cardinality(DOMAIN b) + Len(tasks) <= MaxDelegations}

\* The key keeps an identity that is listed twice twice, what is handed over
\* is the same: an objective here is its words and the repetitions of the list.
DelegationKey(b, a) == [agent |-> a, objective |-> b[a].objective, handed |-> b[a].handed]

Task(b, a) == [agent |-> a, handed |-> b[a].handed, round |-> round,
               status |-> "running", evidence |-> {}]

\* The tasks of a batch in one of the orders the model may give them.
Orders(A) == {o \in [1..Cardinality(A) -> A] : \A a \in A : \E i \in DOMAIN o : o[i] = a}

Delegate(b) ==
  /\ phase = "deciding"
  /\ Audit(<<"supervisor", round>>, TRUE)
  /\ LET keys == {DelegationKey(b, a) : a \in DOMAIN b}
     IN  \/ /\ keys \cap seen # {} /\ Stop("repeated_delegation")
            /\ UNCHANGED <<tasks, seen>>
         \/ /\ keys \cap seen = {}
            /\ seen' = seen \cup keys /\ phase' = "collecting"
            /\ \E o \in Orders(DOMAIN b) : tasks' = tasks \o [i \in DOMAIN o |-> Task(b, o[i])]
            /\ UNCHANGED <<round, stop>>
  /\ UNCHANGED <<bank, strikes, lost, ended, answer>>
-----------------------------------------------------------------------------
Running == {t \in DOMAIN tasks : tasks[t].status = "running"}

\* sameEvidenceIdentity, of evidence under one identity.
SameText(e, f) == Source(e) = Source(f) /\ e.text = f.text

\* What cleaning leaves of a text.
Clean(s, n) == IF n < Cleanings[s] THEN n + 1 ELSE n

\* Mutated form of Namespace: what is retrieved is always new.
NamespaceByTask(t, e) ==
  [id |-> IF e \in bank THEN e.id ELSE <<t, Source(e)>>, text |-> Clean(Source(e), e.text)]

\* Evidence that was handed over keeps its identity; what was retrieved takes
\* that of the same text in the bank (of which there is at most one), else a
\* new one. The texts are compared as they came and cleaned afterwards.
Namespace(t, e) ==
  LET same == {f \in bank : SameText(e, f)}
      id   == IF e \in bank THEN e.id
              ELSE IF same # {} THEN (CHOOSE f \in same : TRUE).id
              ELSE <<t, Source(e)>>
  IN  [id |-> id, text |-> Clean(Source(e), e.text)]

\* What an agent may cite: the knowledge agent what it retrieves, the
\* diagnostic agent the signals of the request and what it was handed.
Allowed(t) ==
  LET Fetched(S) == {[id |-> <<t, s>>, text |-> 0] : s \in S}
  IN  IF tasks[t].agent = "knowledge" THEN Fetched(Documents)
      ELSE Fetched(Reports) \cup {e \in bank : e.id \in tasks[t].handed}

\* Mutated form of Result: it is kept when its audit fails.
ResultUnaudited(t, known, cited) ==
  [tasks[t] EXCEPT !.status   = IF cited # {} THEN "succeeded" ELSE "failed",
                   !.evidence = {Namespace(t, e) : e \in cited}]

\* What a delegation ends with that cites the evidence given, none when it
\* failed one way or another, and that fails when its audit does.
Result(t, known, cited) ==
  [tasks[t] EXCEPT !.status   = IF known /\ cited # {} THEN "succeeded" ELSE "failed",
                   !.evidence = IF known THEN {Namespace(t, e) : e \in cited} ELSE {}]

\* One of the pending results arrives.
Receive(t) ==
  /\ phase = "collecting" /\ t \in Running
  /\ \E known \in BOOLEAN, cited \in SUBSET Allowed(t) :
       /\ Audit(<<"delegate", t>>, known)
       /\ lost' = (lost \/ ~known)
       /\ tasks' = [tasks EXCEPT ![t] = Result(t, known, cited)]
  /\ UNCHANGED <<phase, round, stop, seen, bank, strikes, ended, answer>>

\* The context is over: what is pending is given up, each with its audit.
GiveUp ==
  /\ phase = "collecting" /\ ended # "none" /\ Running # {}
  /\ \E R \in SUBSET Running, known \in BOOLEAN :
       /\ known => R = Running
       /\ recorded' = recorded \cup {<<"delegate", t>> : t \in R}
       /\ lost' = (lost \/ ~known)
  /\ tasks' = [t \in DOMAIN tasks |->
                 IF t \in Running THEN [tasks[t] EXCEPT !.status = "failed"] ELSE tasks[t]]
  /\ UNCHANGED <<phase, round, stop, seen, bank, strikes, ended, answer>>
-----------------------------------------------------------------------------
\* Results that are valid again after cleaning.
Usable(T) == {t \in T : tasks[t].status = "succeeded"
                        /\ \A e \in tasks[t].evidence : Source(e) \notin Void}

Collected(T) == UNION {tasks[t].evidence : t \in Usable(T)}

\* Identities under which the results T disagree: the claims that cite one are
\* rejected.
Collisions(T) ==
  {e.id : e \in {f \in Collected(T) : \E g \in Collected(T) : g.id = f.id /\ ~SameText(f, g)}}

Supported(T) ==
  {t \in Usable(T) : \A e \in tasks[t].evidence : e.id \notin Collisions(T)}

\* The evidence that synthesis admits for the results T.
Admitted(T) == UNION {tasks[t].evidence : t \in Supported(T)}

\* A result's evidence enters the bank, over what has its identity; then the
\* audit and the progress of the round are judged.
CloseRound ==
  /\ phase = "collecting" /\ Running = {}
  /\ LET new == UNION {Admitted({t}) : t \in {u \in DOMAIN tasks : tasks[u].round = round}}
     IN  bank' = new \cup {e \in bank : \A f \in new : f.id # e.id}
  /\ IF lost THEN Stop("audit_unavailable") /\ UNCHANGED strikes
     ELSE /\ strikes' = [strikes EXCEPT !.idle = IF BankIds' = BankIds THEN @ + 1 ELSE 0]
          /\ IF strikes'.idle >= 2 THEN Stop("no_new_evidence") ELSE GoOn
  /\ UNCHANGED <<tasks, seen, recorded, lost, ended, answer>>

\* The status of the answer that is merged from all results: what synthesis
\* says of it, then what the run says.
Status(cited) ==
  LET all == DOMAIN tasks
  IN  IF all = {} /\ stop # "model_finished" THEN "failed"
      ELSE IF ended = "cancelled" THEN "cancelled"
      ELSE IF cited = {} THEN "insufficient"
      ELSE IF Usable(all) # all \/ stop # "model_finished" THEN "partial"
      ELSE "complete"

\* Mutated form of Merged: the last result of each agent.
MergedLast ==
  {t \in DOMAIN tasks : \A u \in DOMAIN tasks : tasks[u].agent = tasks[t].agent => u <= t}

\* The results an answer is merged from: all, not the last one of each agent.
Merged == DOMAIN tasks

Merge ==
  /\ phase = "merging" /\ phase' = "idle"
  /\ LET cited == {e.id : e \in Admitted(Merged)}
     IN  answer' = [status |-> Status(cited), cited |-> cited]
  /\ UNCHANGED <<round, stop, tasks, seen, bank, strikes, recorded, lost, ended>>

Next ==
  \/ Accept \/ BeginRound \/ ModelFails \/ Invalid \/ DecisionUnaudited \/ Finish
  \/ EndContext("cancelled") \/ EndContext("timeout")
  \/ \E b \in Batches : Delegate(b)
  \/ \E t \in DOMAIN tasks : Receive(t)
  \/ GiveUp \/ CloseRound \/ Merge

CollaborationSpec == Init /\ [][Next]_vars
-----------------------------------------------------------------------------
CollaborationTypeOK ==
  /\ phase \in {"idle", "round", "deciding", "collecting", "merging"}
  /\ round \in 0..MaxRounds
  /\ Len(tasks) <= MaxDelegations
  /\ \A t \in DOMAIN tasks :
       /\ tasks[t].agent \in Agents /\ tasks[t].round \in 1..round
       /\ tasks[t].handed \subseteq EvidenceIds /\ tasks[t].evidence \subseteq Evidence
       /\ tasks[t].status \in {"running", "succeeded", "failed"}
       /\ tasks[t].status = "running" => phase = "collecting"
  /\ bank \subseteq Evidence
  /\ strikes \in [invalid : 0..2, idle : 0..2]
  /\ recorded \subseteq ({"supervisor"} \X (1..MaxRounds))
                      \cup ({"delegate"} \X (1..MaxDelegations))
  /\ lost \in BOOLEAN /\ ended \in {"none", "cancelled", "timeout"}
  /\ answer.cited \subseteq EvidenceIds

\* An answer is called complete when the supervisor ended it, nobody left, every
\* delegation succeeded and all of it is in the audit; whatever an answer
\* cites, complete or not, was found by a delegation that succeeded and is
\* in the audit (the order of the audit, the bank and the status in Run).
AnswerIsEarned ==
  /\ answer.status = "complete" =>
       /\ stop = "model_finished" /\ <<"supervisor", round>> \in recorded
       /\ ended # "cancelled" /\ tasks # <<>>
       /\ \A t \in DOMAIN tasks : tasks[t].status = "succeeded"
  /\ \A i \in answer.cited :
       /\ i[1] \in DOMAIN tasks /\ tasks[i[1]].status = "succeeded"
       /\ <<"delegate", i[1]>> \in recorded

\* A source whose text cleaning leaves alone has one identity however often,
\* and by whichever agent, it is found again: it does not count as progress
\* (namespaceTask against parallel results and hand-overs).
EvidenceCountedOnce ==
  \A e \in bank, f \in bank :
    Source(e) = Source(f) /\ Cleanings[Source(e)] = 0 => e = f

\* The answer cites all that was admitted round by round, the supervisor was
\* told of and decided on, unless a text changes again when it is cleaned again
\* (per-task and final Synthesize, collectEvidence's collisions).
AdmittedIsAnswered ==
  answer.status # "none" /\ (\A e \in bank : Cleanings[Source(e)] <= 1)
    => answer.cited = BankIds
=============================================================================
