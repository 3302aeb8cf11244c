------------------------------ MODULE FailurePool ------------------------------
(***************************************************************************)
(* The slow loop over evaluated samples: a miner (the timer of each server *)
(* process, or an operator) lists the window, classifies it in memory and  *)
(* saves the result as an immutable snapshot; harness candidates are made  *)
(* from the newest snapshot.  A snapshot is identified by the samples of   *)
(* its window, not by their statuses: the first to save a window wins.     *)
(***************************************************************************)
EXTENDS OnlineEvaluation

CONSTANTS Reason,     \* the reason a sample was taken for that counts first
          Miners,     \* mining cycles that may overlap
          MaxCycles,  \* bound: cycles
          NoCycle

Reasons == {"user_downvote", "tool_failure", "none"}
Causes  == {"user_downvote", "tool_failure", "judge_low_quality"}

ASSUME PoolAssumption ==
  /\ Reason \in [Samples -> Reasons]
  /\ MaxCycles \in Nat

VARIABLES cycles,     \* cycles begun: orders the snapshots by time
          mined,      \* what each miner holds in memory
          pool,       \* failure_mining_runs with their clusters
          candidates  \* harness_artifacts

poolVars == <<cycles, mined, pool, candidates>>

\* The samples of each cluster; one cluster, and one proposal, per cause.
Snapshots == [at: Nat, window: SUBSET Samples, cluster: [Causes -> SUBSET Samples]]

ASSUME NoCycleAssumption == NoCycle \notin Snapshots

PoolTypeOK ==
  /\ cycles \in 0..MaxCycles
  /\ mined \in [Miners -> Snapshots \cup {NoCycle}]
  /\ pool \subseteq Snapshots
  /\ candidates \subseteq [window: SUBSET Samples, cause: Causes, of: SUBSET Samples]

PoolInit ==
  /\ cycles = 0
  /\ mined = [m \in Miners |-> NoCycle]
  /\ pool = {} /\ candidates = {}
-----------------------------------------------------------------------------
\* ListSamples: the rows of the window, without the acceptance probes.
Window == {s \in Samples : Stored(s) /\ Origin[s] # "acceptance"}

\* Mutated form of Eligible: a sample counts before it is evaluated.
EligibleOpen(s) == Reason[s] # "none" \/ low[s]

\* classify: an evaluated sample with a reason, or a low score.
Eligible(s) == /\ sample[s] \in Final
               /\ Reason[s] # "none" \/ (sample[s] = "completed" /\ low[s])

Cause(s) == IF Reason[s] # "none" THEN Reason[s] ELSE "judge_low_quality"

\* Mine, over the rows just listed.
Mine(m) ==
  /\ mined[m] = NoCycle
  /\ cycles < MaxCycles /\ cycles' = cycles + 1
  /\ mined' = [mined EXCEPT ![m] =
       [at |-> cycles', window |-> Window,
        cluster |-> [c \in Causes |-> {s \in Window : Eligible(s) /\ Cause(s) = c}]]]
  /\ UNCHANGED <<pool, candidates, evaluationVars, deliveryVars>>

\* SaveSnapshot: a window that was saved before is left as it is.
SaveSnapshot(m) ==
  /\ mined[m] # NoCycle
  /\ \/ /\ pool' = IF \E r \in pool : r.window = mined[m].window
                   THEN pool ELSE pool \cup {mined[m]}
        /\ NoFault
     \/ UNCHANGED pool /\ Fault
  /\ mined' = [mined EXCEPT ![m] = NoCycle]
  /\ UNCHANGED <<cycles, candidates, evaluationVars, begun, outbox, queue, hand>>

\* MaterializeLatest: candidates for the causes that have a template; a
\* dataset proposal has none.  A failed insert leaves the later ones out.
Templates == {"tool_failure", "judge_low_quality"}
Materialize ==
  /\ \E r \in pool : /\ \A q \in pool : q.at <= r.at
                     /\ LET made == {[window |-> r.window, cause |-> c, of |-> r.cluster[c]] :
                                       c \in {c \in Templates : r.cluster[c] # {}}}
                        IN  /\ made \ candidates # {}
                            /\ \/ candidates' = candidates \cup made /\ NoFault
                               \/ Fault /\ \E some \in SUBSET made :
                                             candidates' = candidates \cup some
  /\ UNCHANGED <<cycles, mined, pool, evaluationVars, begun, outbox, queue, hand>>

PoolNext == Materialize \/ \E m \in Miners : Mine(m) \/ SaveSnapshot(m)
-----------------------------------------------------------------------------
\* What was mined as a failure stays evaluated: while cycles, consumers that
\* judge a sample twice and retention overlap, no snapshot or candidate rests
\* on a sample that is open, or on an acceptance probe (Mine, MarkEvaluating).
MinedIsFinal ==
  \A s \in UNION ({r.cluster[c] : r \in pool, c \in Causes} \cup {k.of : k \in candidates}) :
    sample[s] \in Final \cup {"pruned"} /\ Origin[s] # "acceptance"
=============================================================================
