------------------------------ MODULE CatalogRerun ------------------------------
(***************************************************************************)
(* The technical rerun of a sealed catalog.  An operator's process takes a *)
(* lock file of the seal, makes a run directory, runs the fixed steps one  *)
(* after the other, and leaves evidence: the plan, a log per step, a       *)
(* checkpoint before the first and after each step that did not fail, a    *)
(* last checkpoint, and the result.  Each of these files is created, and   *)
(* then written and synced: the writer may fail at either, and may die     *)
(* between any two, which leaves no file, a part of it, or all of it.  The *)
(* inspector and the offline verifier read the directories.                *)
(*                                                                         *)
(* The code has six steps; which of them may fail its gate without failing *)
(* the run is a parameter, as is their number.  The lock file is created   *)
(* and its run id written in one step: in between only a reader of the     *)
(* status notices (it answers an error).                                   *)
(***************************************************************************)
EXTENDS CatalogSeal

CONSTANTS Executors,    \* operators' processes
          StepCount,    \* len(fixedStepIDs)
          Gated,        \* steps with a second allowed exit code
          MaxRuns       \* bound: run directories

VARIABLES locks,       \* the seals with a lock file
          runs,        \* run directories, in the order of their names
          exec,        \* each process: its seal, its run and what it does next
          abandoned    \* history: seals whose process died with the lock

rerunVars == <<locks, runs, exec, abandoned>>

\* "unlogged": the step's log files could not be created, so it was not run.
Outcomes == {"passed", "gate", "failed", "unlogged"}
Stages   == {"locked", "plan", "save", "run", "close", "result", "release"}
Writing  == {"plan", "save", "close", "result"}
Results  == {"failed", "technical_gate_failed", "technical_pass"}

ASSUME RerunAssumption ==
  /\ StepCount \in Nat /\ StepCount >= 1
  /\ Gated \subseteq 1..StepCount
  /\ MaxRuns \in Nat
  /\ Nothing \notin Results \cup Writing \cup [seal: SealIds, run: Nat, stage: Stages]

\* Of a directory: which files are there whole, and the one that is there in
\* part, named for the stage that writes it.
Runs == [seal: SealIds, steps: Seq(Outcomes), plan: BOOLEAN,
         checkpoints: SUBSET (0..StepCount + 1), result: Results \cup {Nothing},
         part: Writing \cup {Nothing}]

RerunTypeOK ==
  /\ locks \subseteq SealIds
  /\ runs \in Seq(Runs)
  /\ exec \in [Executors -> [seal: SealIds, run: 0..Len(runs), stage: Stages] \cup {Nothing}]
  /\ abandoned \subseteq SealIds

RerunInit ==
  /\ locks = {} /\ runs = << >> /\ abandoned = {}
  /\ exec = [e \in Executors |-> Nothing]
-----------------------------------------------------------------------------
At(e, stage) == exec[e] # Nothing /\ exec[e].stage = stage
Go(e, stage) == exec' = [exec EXCEPT ![e].stage = stage]
Current(e)   == runs[exec[e].run]

\* Mutated form of Lockable: the lock file is overwritten.
LockableAnyway(q) == TRUE

\* O_CREATE|O_EXCL: ErrBusy when the file exists.
Lockable(q) == q \notin locks

\* BuildPlan and ValidatePlan find a valid seal; the lock is taken.
TakeLock(e) ==
  /\ exec[e] = Nothing /\ Len(runs) < MaxRuns
  /\ \E q \in seals :
       /\ Lockable(q)
       /\ locks' = locks \cup {q}
       /\ exec' = [exec EXCEPT ![e] = [seal |-> q, run |-> 0, stage |-> "locked"]]
  /\ UNCHANGED <<runs, abandoned>>

\* The run directory is made, or not.
OpenRun(e) ==
  /\ At(e, "locked")
  /\ \/ /\ Len(runs) < MaxRuns
        /\ runs' = Append(runs, [seal |-> exec[e].seal, steps |-> << >>, plan |-> FALSE,
                                 checkpoints |-> {}, result |-> Nothing, part |-> Nothing])
        /\ exec' = [exec EXCEPT ![e].run = Len(runs) + 1, ![e].stage = "plan"]
     \/ Go(e, "release") /\ UNCHANGED runs
  /\ UNCHANGED <<locks, abandoned>>

\* writeExclusive, O_CREATE|O_EXCL: the file of this stage is there, empty.
CreateFile(e) ==
  /\ \E w \in Writing :
       /\ At(e, w) /\ Current(e).part = Nothing
       /\ \/ runs' = [runs EXCEPT ![exec[e].run].part = w] /\ UNCHANGED exec
          \/ Go(e, "release") /\ UNCHANGED runs
  /\ UNCHANGED <<locks, abandoned>>

\* writeExclusive, Write, Sync and Close: the file is whole and makes the
\* directory r, the writer told so or told an error; or it stays a part.  An
\* error ends the run.
WriteFile(e, w, r, next) ==
  /\ At(e, w) /\ Current(e).part = w
  /\ \/ /\ runs' = [runs EXCEPT ![exec[e].run] = [r EXCEPT !.part = Nothing]]
        /\ Go(e, next) \/ Go(e, "release")
     \/ Go(e, "release") /\ UNCHANGED runs
  /\ UNCHANGED <<locks, abandoned>>

WritePlan(e) == WriteFile(e, "plan", [Current(e) EXCEPT !.plan = TRUE], "save")

Fatal(o) == o \in {"failed", "unlogged"}

\* runStep: the binary's exit code, outputs and logs give the outcome; one
\* that is fatal closes the report at once.
RunStep(e) ==
  /\ At(e, "run")
  /\ \E o \in Outcomes :
       /\ o = "gate" => Len(Current(e).steps) + 1 \in Gated
       /\ runs' = [runs EXCEPT ![exec[e].run].steps = Append(@, o)]
       /\ Go(e, IF Fatal(o) THEN "close" ELSE "save")
  /\ UNCHANGED <<locks, abandoned>>

LastStep(n) == n = StepCount

\* The checkpoint before the first step and after each; the steps end with
\* the last one.
SaveCheckpoint(e) ==
  LET n == Len(Current(e).steps)
  IN  WriteFile(e, "save", [Current(e) EXCEPT !.checkpoints = @ \cup {n}],
                IF LastStep(n) THEN "close" ELSE "run")

\* finishReport, first file: the last checkpoint, which holds the report.
CloseReport(e) ==
  WriteFile(e, "close", [Current(e) EXCEPT !.checkpoints = @ \cup {Len(Current(e).steps) + 1}],
            "result")

\* The status of the report after these steps.
Verdict(steps) == IF \E i \in 1..Len(steps) : Fatal(steps[i]) THEN "failed"
                  ELSE IF \E i \in 1..Len(steps) : steps[i] = "gate"
                  THEN "technical_gate_failed"
                  ELSE "technical_pass"

\* finishReport, second file: result.json.
WriteResult(e) ==
  WriteFile(e, "result", [Current(e) EXCEPT !.result = Verdict(Current(e).steps)], "release")

\* The deferred removal of the lock, on every path.
ReleaseLock(e) ==
  /\ At(e, "release")
  /\ locks' = locks \ {exec[e].seal}
  /\ exec' = [exec EXCEPT ![e] = Nothing]
  /\ UNCHANGED <<runs, abandoned>>

\* The process dies: nothing removes the lock of this seal any more.
Die(e) ==
  /\ exec[e] # Nothing
  /\ abandoned' = abandoned \cup {exec[e].seal}
  /\ exec' = [exec EXCEPT ![e] = Nothing]
  /\ UNCHANGED <<locks, runs>>

RerunNext == \E e \in Executors :
  \/ TakeLock(e) \/ OpenRun(e) \/ CreateFile(e) \/ WritePlan(e) \/ RunStep(e)
  \/ SaveCheckpoint(e) \/ CloseReport(e) \/ WriteResult(e) \/ ReleaseLock(e) \/ Die(e)
-----------------------------------------------------------------------------
(* What a reader makes of a run directory.                                 *)

\* Mutated form of ExpectedCheckpoints: one after a failed step as well.
ExpectedAfterEach(r) == 0..Len(r.steps) + 1

\* expectedCheckpointIndexes: none after a step that failed, and the last.
ExpectedCheckpoints(r) ==
  (0..(IF r.result = "failed" THEN Len(r.steps) - 1 ELSE Len(r.steps)))
  \cup {Len(r.steps) + 1}

\* ValidateReport: the result agrees with the steps; a step without logs has
\* no hashes and no end, which makes the report invalid.
ValidReport(r) ==
  /\ r.result # Nothing
  /\ r.result # "failed" => Len(r.steps) = StepCount
  /\ r.result = Verdict(r.steps)
  /\ \A i \in 1..Len(r.steps) : r.steps[i] # "unlogged"

\* ValidateRunDirectory: the plan, the result and each checkpoint are there and
\* can be decoded.
Validates(r) ==
  /\ ValidReport(r) /\ r.plan /\ r.checkpoints = ExpectedCheckpoints(r)
  /\ r.part = Nothing
RunsOf(q) == {i \in 1..Len(runs) : runs[i].seal = q}

\* Inspector.Status: the lock first, then the newest directory, by whether it
\* has a result.json and whether that verifies.
StatusOf(q) ==
  IF q \in locks THEN "running"
  ELSE IF RunsOf(q) = {} THEN "not_started"
  ELSE LET r == runs[CHOOSE i \in RunsOf(q) : \A j \in RunsOf(q) : j <= i]
       IN  IF r.result = Nothing /\ r.part # "result" THEN "failed"
           ELSE IF Validates(r) THEN r.result ELSE "invalid report"
-----------------------------------------------------------------------------
(* Properties.                                                             *)

\* A lock file belongs to exactly one process at work on the seal, from
\* before its first write until after its last (single_active_run_per_seal),
\* unless a process died with it.
LockHasOneHolder ==
  /\ \A e \in Executors : exec[e] # Nothing => exec[e].seal \in locks
  /\ \A e, f \in Executors :
       exec[e] # Nothing /\ exec[f] # Nothing /\ exec[e].seal = exec[f].seal => e = f
  /\ \A q \in locks \ abandoned : \E e \in Executors : exec[e] # Nothing /\ exec[e].seal = q

\* Whatever step, create, write or sync failed, and wherever the process died:
\* a directory verifies exactly when all of its result was written, except
\* after a step whose logs could not be created; when only a part of
\* result.json is there, the report it was to hold is in the last checkpoint
\* (failed_run_preserved); and the inspector reports a technical pass only of
\* a run that ended every step at exit code 0, on a seal that was approved.
EvidenceValidates ==
  /\ \A i \in 1..Len(runs) :
       /\ Validates(runs[i]) <=> /\ runs[i].result # Nothing
                                /\ \A j \in 1..Len(runs[i].steps) : runs[i].steps[j] # "unlogged"
       /\ runs[i].part = "result" =>
            runs[i].checkpoints =
              ExpectedCheckpoints([runs[i] EXCEPT !.result = Verdict(runs[i].steps)])
  /\ \A q \in {runs[i].seal : i \in 1..Len(runs)} :
       StatusOf(q) = "technical_pass" =>
         /\ q \in seals /\ WasApproved(q)
         /\ \E i \in RunsOf(q) : runs[i].steps = [j \in 1..StepCount |-> "passed"]
=============================================================================
