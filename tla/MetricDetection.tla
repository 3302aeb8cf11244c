----------------------------- MODULE MetricDetection -----------------------------
(***************************************************************************)
(* What the reconciler of ControlWebhook applies to its incidents: the     *)
(* verdict of AnalyzeMetricWindow on the points the sampler has stored.    *)
(* LatestProductionAnalysis reads the latest batch first and then, one     *)
(* series after the other, the recent points of every series the batch     *)
(* holds a value of; these are not limited to the batch, so the sampler    *)
(* may have stored newer ones in between.                                  *)
(*                                                                         *)
(* A value is a natural, the larger the better (the direction of a policy  *)
(* only turns the order round), a population is large enough or not, and   *)
(* the recording rules keep their version: points of others are not read.  *)
(* The z-score is compared without its root and quotients.                 *)
(***************************************************************************)
EXTENDS ControlWebhook, SequencesExt

CONSTANTS Values,       \* the values a series can take,
          Sparse,       \*   and those it takes when the population is too small
          Warning,      \* DetectionPolicy.WarningThreshold,
          Critical,     \*   CriticalThreshold,
          Consecutive,  \*   ConsecutivePoints,
          MinWindow,    \*   MinimumWindow,
          WindowSize,
          ZThreshold    \*   ZScoreThreshold

VARIABLES points,    \* metric_window_snapshots: each series' observed points
          observed,  \* the series the latest batch holds a value of
          analysis,  \* the reconciler's: the verdict on each series of its batch
          heard      \* history: points behind the last anomaly that was applied

detection     == <<points, observed, analysis, heard>>
detectionVars == <<vars, detection>>

Points   == [value: Values, enough: {TRUE}] \cup [value: Sparse, enough: {FALSE}]
Verdicts == Anomalies \cup {"healthy", "undecided"}
Unread   == [verdict |-> "unread", extent |-> 0]
Skipped  == [verdict |-> "undecided", extent |-> 0]

ASSUME DetectionAssumption ==
  /\ Values \subseteq Nat /\ Sparse \subseteq Nat
  /\ Warning \in Nat /\ Critical \in 0..Warning
  /\ Consecutive \in Nat \ {0}
  /\ MinWindow \in Nat \ {0, 1} /\ WindowSize \in Nat /\ WindowSize >= MinWindow
  /\ ZThreshold \in Nat \ {0}
  /\ Nothing \notin Points

DetectionTypeOK ==
  /\ TypeOK
  /\ points \in [Keys -> Seq(Points)]
  /\ observed \subseteq Keys
  /\ analysis \in [Keys -> [verdict: Verdicts \cup {"unread"}, extent: Nat]]
  /\ heard \in [Keys -> Nat]

DetectionInit ==
  /\ Init
  /\ points = [k \in Keys |-> <<>>]
  /\ observed = {}
  /\ analysis = [k \in Keys |-> Skipped]
  /\ heard = [k \in Keys |-> 0]
-----------------------------------------------------------------------------
(* AnalyzeMetricWindow.                                                    *)

Breached(p) == p.value < Warning

\* The points a verdict is about, and those they are compared with.
Candidates(s)    == SubSeq(s, Len(s) - Consecutive + 1, Len(s))
Baseline(s) == SubSeq(s, 1, Len(s) - Consecutive)

Sum(s, square) == FoldSeq(LAMBDA p, n : n + (IF square THEN p.value * p.value ELSE p.value), 0, s)

\* The distance below the baseline's mean, in standard deviations, reaches the
\* threshold; below a baseline without variance every distance does.
Adverse(p, base) ==
  LET n == Len(base)
      below == Sum(base, FALSE) - n * p.value
      spread == n * Sum(base, TRUE) - Sum(base, FALSE) * Sum(base, FALSE)
  IN  below > 0 /\ below * below >= ZThreshold * ZThreshold * spread

Shifted(s) ==
  /\ Len(Baseline(s)) >= MinWindow
  /\ \A i \in 1..Consecutive : Adverse(Candidates(s)[i], Baseline(s))

Dropped(s) == \A i \in 1..Consecutive : Breached(Candidates(s)[i])

\* Mutated form of Decidable: the population is not looked at.
DecidableAnyway(s) == Len(s) >= Consecutive

\* Every point of the tail is there and has a population that counts.
Decidable(s) ==
  /\ Len(s) >= Consecutive
  /\ \A i \in 1..Consecutive : Candidates(s)[i].enough

\* The decision, with detectorSeverity's view of an anomaly.
Verdict(s) ==
  CASE ~Decidable(s)                                                -> "undecided"
    [] Decidable(s) /\ Dropped(s) /\ s[Len(s)].value < Critical     -> "critical"
    [] Decidable(s) /\ Dropped(s) /\ ~(s[Len(s)].value < Critical)  -> "warning"
    [] Decidable(s) /\ ~Dropped(s) /\ Shifted(s)                    -> "warning"
    [] OTHER                                                        -> "healthy"

\* RecentObserved: as many points as a baseline and a tail take.
Recent(s) ==
  LET limit == WindowSize + Consecutive
  IN  IF Len(s) <= limit THEN s ELSE SubSeq(s, Len(s) - limit + 1, Len(s))
-----------------------------------------------------------------------------
\* The sampler's batch holds a value of some series and none of the others.
Observe ==
  /\ StoreBatch
  /\ \E batch \in [Keys -> Points \cup {Nothing}] :
       /\ observed' = {k \in Keys : batch[k] # Nothing}
       /\ points' = [k \in Keys |-> IF batch[k] = Nothing THEN points[k]
                                    ELSE Append(points[k], batch[k])]
  /\ UNCHANGED <<analysis, heard>>

\* LatestBatch.
ReadLatest ==
  /\ ReadSnapshot
  /\ analysis' = [k \in Keys |-> IF k \in observed THEN Unread ELSE Skipped]
  /\ UNCHANGED <<points, observed, heard>>

\* RecentObserved and AnalyzeMetricWindow for one series.
Analyze(k) ==
  /\ snapshot # Nothing /\ analysis[k] = Unread
  /\ analysis' = [analysis EXCEPT ![k] = [verdict |-> Verdict(Recent(points[k])),
                                          extent |-> Len(points[k])]]
  /\ UNCHANGED <<vars, points, observed, heard>>

\* The candidate the reconciler makes of the verdict; the transaction may fail.
Apply(k) ==
  /\ \A j \in Keys : analysis[j] # Unread
  /\ \/ /\ \E v \in Anomalies : v = analysis[k].verdict /\ (Open(k, v) \/ Continue(k, v))
        /\ heard' = [heard EXCEPT ![k] = analysis[k].extent]
     \/ analysis[k].verdict = "healthy" /\ Recover(k) /\ UNCHANGED heard
     \/ Ignore(k) /\ UNCHANGED heard
  /\ analysis' = IF snapshot' = Nothing THEN [j \in Keys |-> Skipped] ELSE analysis
  /\ UNCHANGED <<points, observed>>

Deliver ==
  /\ \/ Acceptance
     \/ \E d \in Dispatchers : Claim(d) \/ Post(d) \/ Finish(d) \/ Abandon(d)
  /\ UNCHANGED detection

DetectionNext ==
  \/ Observe \/ ReadLatest \/ Deliver
  \/ \E k \in Keys : Analyze(k) \/ Apply(k)

DetectionSpec == DetectionInit /\ [][DetectionNext]_detectionVars
DetectionFair == DetectionSpec /\ Fairness
-----------------------------------------------------------------------------
Normal(p) == p.enough /\ ~Breached(p)

\* Silence is not recovery: an incident is resolved only if a point within the
\* threshold, with a population that counts, was seen after the first of the
\* points its last anomaly was found in, however many batches without a value
\* or with too few requests went by, and whichever points were stored between
\* the reconciler's reads (AnalyzeMetricWindow, LatestProductionAnalysis,
\* transitionIncident).
SilenceIsNotRecovery ==
  \A k \in Keys :
    incident[k] # Nothing /\ incident[k].status = "resolved" =>
      \E i \in 1..Len(points[k]) : i > heard[k] - Consecutive + 1 /\ Normal(points[k][i])
=============================================================================
