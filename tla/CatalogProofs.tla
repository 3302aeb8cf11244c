----------------------------- MODULE CatalogProofs -----------------------------
(***************************************************************************)
(* Proofs about Catalog, for any cases, reviewers, sessions, processes and *)
(* number of steps, and without the bounds on rows and runs mattering.     *)
(*                                                                         *)
(* Three invariants, one per module, each of which rests on those before   *)
(* it: revisions and keys of the table of reviews (ReviewsApplyOnce is     *)
(* inductive by itself); what a session is about to seal was approved; and *)
(* the shape of a run directory at each stage of the process that writes   *)
(* it, no two processes writing the same.  A last part is about the        *)
(* browser's workbench, whose tabs are sessions of the reviews.            *)
(***************************************************************************)
EXTENDS Catalog, ReviewWorkbench, TLAPS

ReviewInv == ReviewTypeOK /\ ReviewsApplyOnce

SealInv ==
  /\ SealTypeOK
  /\ ~started => seals = {} /\ \A s \in Sessions : sealing[s] = Nothing
  /\ SealWasApproved
  /\ \A s \in Sessions : sealing[s] # Nothing => WasApproved(sealing[s])

\* No step of the run was fatal, or just the last.
NoneFatal(r) == \A k \in 1..Len(r.steps) : ~Fatal(r.steps[k])
LastFatal(r) == Len(r.steps) >= 1 /\ Fatal(r.steps[Len(r.steps)])
                /\ \A k \in 1..Len(r.steps) - 1 : ~Fatal(r.steps[k])

\* A run directory by the stage of who writes it, and with its result.
Planning(r) == Len(r.steps) = 0 /\ r.checkpoints = {}
Going(r)   == NoneFatal(r) /\ Len(r.steps) < StepCount /\ r.checkpoints = 0..Len(r.steps) /\ r.plan
Saving(r)  == /\ NoneFatal(r) /\ Len(r.steps) \in 0..StepCount
              /\ r.checkpoints = 0..Len(r.steps) - 1 /\ r.plan
Closing(r) == /\ Len(r.steps) \in 1..StepCount /\ r.plan
              /\ \/ NoneFatal(r) /\ Len(r.steps) = StepCount /\ r.checkpoints = 0..Len(r.steps)
                 \/ LastFatal(r) /\ r.checkpoints = 0..Len(r.steps) - 1
Written(r) == /\ Len(r.steps) \in 1..StepCount /\ r.plan
              /\ \/ /\ NoneFatal(r) /\ Len(r.steps) = StepCount
                    /\ r.checkpoints = (0..Len(r.steps)) \cup {Len(r.steps) + 1}
                 \/ /\ LastFatal(r)
                    /\ r.checkpoints = (0..Len(r.steps) - 1) \cup {Len(r.steps) + 1}

AtStage(stage, r) ==
  /\ stage \in Writing \cup {"run"} => r.result = Nothing
  /\ stage \in Writing => r.part \in {Nothing, stage}
  /\ stage = "run" => Going(r) /\ r.part = Nothing
  /\ stage = "plan" => Planning(r)
  /\ stage = "save" => Saving(r)
  /\ stage = "close" => Closing(r)
  /\ stage = "result" => Written(r)

\* A result is written, whole or in part, after everything else, and whole
\* only once.
Shaped(r) ==
  /\ r.result # Nothing => Written(r) /\ r.result = Verdict(r.steps) /\ r.part = Nothing
  /\ r.part = "result" => Written(r)

RunsShaped == \A i \in 1..Len(runs) : runs[i].seal \in seals /\ Shaped(runs[i])

ExecShaped ==
  \A e \in Executors : exec[e] # Nothing =>
    /\ exec[e].seal \in seals
    /\ exec[e].stage = "locked" => exec[e].run = 0
    /\ exec[e].run = 0 => exec[e].stage \in {"locked", "release"}
    /\ exec[e].run # 0 =>
         exec[e].run \in 1..Len(runs) /\ AtStage(exec[e].stage, runs[exec[e].run])

ExecApart ==
  \A e, f \in Executors :
    exec[e] # Nothing /\ exec[f] # Nothing /\ exec[e].run # 0 /\ exec[e].run = exec[f].run
    => e = f

\* A seal that was rerun has a newest run directory.
HasNewest == \A q : RunsOf(q) # {} => \E i \in RunsOf(q) : \A j \in RunsOf(q) : j <= i

RerunInv == RerunTypeOK /\ LockHasOneHolder /\ RunsShaped /\ ExecShaped /\ ExecApart /\ HasNewest

IInv == ReviewInv /\ SealInv /\ RerunInv
-----------------------------------------------------------------------------
(* Reviews.                                                                *)

LEMMA RowsType ==
  ASSUME ReviewTypeOK
  PROVE  /\ Len(rows) \in Nat /\ DOMAIN rows = 1..Len(rows)
         /\ \A i \in 1..Len(rows) : rows[i] \in Rows /\ rows[i].revision \in Nat
<1>1. Len(rows) \in Nat /\ DOMAIN rows = 1..Len(rows) /\ \A i \in 1..Len(rows) : rows[i] \in Rows
  BY DEF ReviewTypeOK
<1>2. \A r \in Rows : r.revision \in Nat
  BY DEF Rows
<1> QED
  BY <1>1, <1>2

LEMMA ReviewsInitially == ReviewInit => ReviewInv
<1> SUFFICES ASSUME ReviewInit PROVE ReviewInv
  OBVIOUS
<1>1. started \in BOOLEAN /\ request \in [Sessions -> Requests \cup {Nothing}]
  BY DEF ReviewInit
<1>2. CASE rows = << >>
  BY <1>1, <1>2 DEF ReviewInv, ReviewTypeOK, ReviewsApplyOnce
<1>3. ASSUME NEW r \in Rows, r.revision = 1, rows = <<r>> PROVE ReviewInv
  <2>1. rows \in Seq(Rows) /\ Len(rows) = 1 /\ rows[1] = r
    BY <1>3
  <2> QED BY <1>1, <1>3, <2>1 DEF ReviewInv, ReviewTypeOK, ReviewsApplyOnce
<1>4. CASE rows # << >>
  <2>1. PICK u \in Users, d \in Decisions, k \in Keys :
          rows = << [case |-> LegacyCase, user |-> u, revision |-> 1, decision |-> d,
                     key |-> k, schema |-> "v2", hashed |-> "v2"] >>
    BY <1>4 DEF ReviewInit
  <2>2. [case |-> LegacyCase, user |-> u, revision |-> 1, decision |-> d,
         key |-> k, schema |-> "v2", hashed |-> "v2"] \in Rows
    BY ReviewAssumption DEF Rows, Schemas
  <2> QED BY <1>3, <2>1, <2>2
<1> QED
  BY <1>2, <1>4

LEMMA MigrateStep == ASSUME ReviewInv, Migrate PROVE ReviewInv'
<1>1. /\ rows' = [i \in DOMAIN rows |-> Migrated(rows[i])] /\ started' = TRUE /\ request' = request
      /\ rows \in Seq(Rows) /\ Len(rows) \in Nat /\ DOMAIN rows = 1..Len(rows)
      /\ \A i \in 1..Len(rows) : rows[i] \in Rows
  BY RowsType DEF Migrate, ReviewInv, ReviewTypeOK
<1>2. \A i \in 1..Len(rows) :
        /\ rows'[i] \in Rows /\ rows'[i].case = rows[i].case /\ rows'[i].user = rows[i].user
        /\ rows'[i].revision = rows[i].revision /\ rows'[i].key = rows[i].key
  BY <1>1 DEF Migrated, Rows, Schemas
<1>3. rows' \in [1..Len(rows) -> Rows]
  BY <1>1, <1>2
<1>4. rows' \in Seq(Rows) /\ Len(rows') = Len(rows)
  <2> HIDE <1>1
  <2>1. Len(rows) \in Nat
    BY <1>1
  <2> QED BY <1>3, <2>1
<1>5. ReviewsApplyOnce'
  <2>1. \A i \in 1..Len(rows) : 1..i-1 \subseteq 1..Len(rows)
    BY <1>1
  <2> QED BY <1>2, <1>4, <2>1 DEF ReviewInv, ReviewsApplyOnce
<1> QED
  BY <1>1, <1>4, <1>5 DEF ReviewInv, ReviewTypeOK
LEMMA InsertStep ==
  ASSUME ReviewInv, NEW s \in Sessions, Insert(s)
  PROVE  /\ ReviewInv' /\ started' = started
         /\ rows' = rows \/ \E r \in Rows : rows' = Append(rows, r)
<1> DEFINE q == request[s]
           r == [case |-> q.case, user |-> User[s], revision |-> q.expected + 1,
                 decision |-> q.decision, key |-> q.key, schema |-> "v5", hashed |-> "v5"]
<1>1. q \in Requests /\ User[s] \in Users
  BY ReviewAssumption DEF Insert, ReviewInv, ReviewTypeOK
<1>2. r \in Rows /\ r.case = q.case /\ r.user = User[s] /\ r.revision = q.expected + 1 /\ r.key = q.key
  BY <1>1 DEF Rows, Requests, Schemas
<1>3. started' = started /\ started \in BOOLEAN /\ request' \in [Sessions -> Requests \cup {Nothing}]
  BY DEF Insert, ReviewInv, ReviewTypeOK
<1>4. rows \in Seq(Rows) /\ Len(rows) \in Nat /\ \A i \in 1..Len(rows) : rows[i].revision \in Nat
  BY RowsType DEF ReviewInv, ReviewTypeOK
<1>5. CASE rows' = rows
  BY <1>3, <1>5 DEF ReviewInv, ReviewTypeOK, ReviewsApplyOnce
<1>6. CASE /\ Accepts(s, q) /\ ~KeyUsed(User[s], q.key) /\ rows' = Append(rows, r)
  <2> HIDE DEF r
  <2>1. /\ rows' \in Seq(Rows) /\ Len(rows') = Len(rows) + 1 /\ rows'[Len(rows) + 1] = r
        /\ \A i \in 1..Len(rows) : rows'[i] = rows[i]
    BY <1>2, <1>4, <1>6
  <2>2. \A j \in 1..Len(rows) : rows[j].user = r.user => rows[j].key # r.key
    BY <1>2, <1>6 DEF KeyUsed
  <2>3. q.expected \in Nat
    BY <1>1 DEF Requests
  <2>4. \A j \in 1..Len(rows) : rows[j].user = r.user /\ rows[j].case = r.case =>
          rows[j].revision < r.revision
    <3> SUFFICES ASSUME NEW j \in 1..Len(rows), rows[j].user = r.user, rows[j].case = r.case
                 PROVE  rows[j].revision < r.revision
      OBVIOUS
    <3>1. rows[j].revision \in Revisions(q.case, User[s])
      BY <1>2 DEF Revisions
    <3>2. rows[j].revision <= q.expected
      BY <1>6, <3>1 DEF Accepts, CurrentRevision
    <3> QED BY <1>2, <1>4, <2>3, <3>2
  <2>5. r.revision = 1 \/ \E j \in 1..Len(rows) :
          rows[j].case = r.case /\ rows[j].user = r.user /\ rows[j].revision = r.revision - 1
    <3>1. CASE Revisions(q.case, User[s]) = {}
      BY <3>1, <1>2, <1>6 DEF Accepts, CurrentRevision
    <3>2. CASE Revisions(q.case, User[s]) # {}
      <4>1. q.expected \in Revisions(q.case, User[s])
        BY <3>2, <1>6 DEF Accepts, CurrentRevision
      <4>2. PICK j \in 1..Len(rows) : rows[j].case = q.case /\ rows[j].user = User[s]
                                     /\ rows[j].revision = q.expected
        BY <4>1 DEF Revisions
      <4> QED BY <1>2, <2>3, <4>2
    <3> QED BY <3>1, <3>2
  <2>6. ReviewsApplyOnce'
    <3> SUFFICES ASSUME NEW i \in 1..Len(rows')
                 PROVE  /\ rows'[i].revision = 1 \/ \E j \in 1..i-1 :
                             /\ rows'[j].case = rows'[i].case /\ rows'[j].user = rows'[i].user
                             /\ rows'[j].revision = rows'[i].revision - 1
                        /\ \A j \in 1..i-1 : rows'[j].user = rows'[i].user =>
                             /\ rows'[j].key # rows'[i].key
                             /\ rows'[j].case = rows'[i].case => rows'[j].revision < rows'[i].revision
      BY DEF ReviewsApplyOnce
    <3>1. CASE i \in 1..Len(rows)
      <4>1. 1..i-1 \subseteq 1..Len(rows)
        BY <1>4, <3>1
      <4> QED BY <2>1, <3>1, <4>1 DEF ReviewInv, ReviewsApplyOnce
    <3>2. CASE i = Len(rows) + 1
      <4>1. 1..i-1 = 1..Len(rows)
        BY <1>4, <3>2
      <4> QED BY <2>1, <2>2, <2>4, <2>5, <3>2, <4>1
    <3> QED BY <1>4, <2>1, <3>1, <3>2
  <2> QED BY <1>2, <1>3, <1>6, <2>1, <2>6 DEF ReviewInv, ReviewTypeOK
<1> QED
  BY <1>5, <1>6 DEF Insert

LEMMA ReviewStep ==
  ASSUME ReviewInv, [ReviewNext]_reviewVars
  PROVE  /\ ReviewInv'
         /\ \/ ~started /\ started'
            \/ started' = started /\ (rows' = rows \/ \E r \in Rows : rows' = Append(rows, r))
<1>1. CASE Migrate
  BY <1>1, MigrateStep DEF Migrate
<1>2. ASSUME NEW s \in Sessions, Insert(s)
      PROVE  /\ ReviewInv'
             /\ started' = started /\ (rows' = rows \/ \E r \in Rows : rows' = Append(rows, r))
  BY <1>2, InsertStep
<1>3. ASSUME NEW s \in Sessions, FindReplay(s) \/ Abandon(s)
      PROVE  ReviewInv' /\ started' = started /\ rows' = rows
  <2>1. request' \in [Sessions -> Requests \cup {Nothing}]
    <3>1. CASE Abandon(s)
      BY <3>1 DEF Abandon, ReviewInv, ReviewTypeOK
    <3>2. CASE FindReplay(s)
      <4>1. PICK c \in Cases, d \in Decisions, k \in Keys : \E n \in 0..Len(rows) :
              request' = [request EXCEPT ![s] = [case |-> c, expected |-> n, decision |-> d, key |-> k]]
        BY <3>2 DEF FindReplay
      <4>2. PICK n \in 0..Len(rows) :
              request' = [request EXCEPT ![s] = [case |-> c, expected |-> n, decision |-> d, key |-> k]]
        BY <4>1
      <4>3. n \in Nat
        BY RowsType DEF ReviewInv
      <4>4. [case |-> c, expected |-> n, decision |-> d, key |-> k] \in Requests
        BY <4>3 DEF Requests
      <4> QED BY <4>2, <4>4 DEF ReviewInv, ReviewTypeOK
    <3> QED BY <1>3, <3>1, <3>2
  <2>2. started' = started /\ rows' = rows
    BY <1>3 DEF FindReplay, Abandon
  <2> QED BY <2>1, <2>2 DEF ReviewInv, ReviewTypeOK, ReviewsApplyOnce
<1>4. CASE UNCHANGED reviewVars
  BY <1>4 DEF reviewVars, ReviewInv, ReviewTypeOK, ReviewsApplyOnce
<1> QED
  BY <1>1, <1>2, <1>3, <1>4 DEF ReviewNext
-----------------------------------------------------------------------------
(* Seals.                                                                  *)

\* What was approved stays so: rows are only added after the migration.
LEMMA ApprovalIsKept ==
  ASSUME ReviewTypeOK, NEW id, WasApproved(id),
         rows' = rows \/ \E r \in Rows : rows' = Append(rows, r)
  PROVE  WasApproved(id)'
<1>1. Len(rows) \in Nat /\ rows \in Seq(Rows)
  BY RowsType DEF ReviewTypeOK
<1>2. Len(rows') \in Nat /\ Len(rows) <= Len(rows') /\ \A i \in 1..Len(rows) : rows'[i] = rows[i]
  BY <1>1
<1>3. PICK n \in 0..Len(rows) : ReviewSet(id.user, n) = id.set /\ Ready(id.set)
  BY DEF WasApproved
<1>4. \A i \in 1..n : rows'[i] = rows[i]
  BY <1>1, <1>2
<1>5. \A i : Latest(i, n)' <=> Latest(i, n)
  BY <1>4 DEF Latest
<1>6. ReviewSet(id.user, n)' = ReviewSet(id.user, n)
  BY <1>4, <1>5 DEF ReviewSet
<1>7. n \in 0..Len(rows')
  BY <1>1, <1>2
<1> QED
  BY <1>3, <1>6, <1>7 DEF WasApproved, Ready
LEMMA SealsInitially == SealInit => SealInv
  BY DEF SealInit, SealInv, SealTypeOK, SealWasApproved

\* Reviews go on while sets are sealed.
LEMMA SealsSurviveReviews ==
  ASSUME ReviewInv, SealInv, [ReviewNext]_reviewVars, UNCHANGED sealVars PROVE SealInv'
<1>1. CASE ~started /\ started'
  BY <1>1 DEF SealInv, SealTypeOK, SealWasApproved, sealVars
<1>2. CASE started' = started /\ (rows' = rows \/ \E r \in Rows : rows' = Append(rows, r))
  <2>1. \A id : WasApproved(id) => WasApproved(id)'
    BY <1>2, ApprovalIsKept DEF ReviewInv
  <2> QED BY <1>2, <2>1 DEF SealInv, SealTypeOK, SealWasApproved, sealVars
<1> QED
  BY <1>1, <1>2, ReviewStep

LEMMA SealStep ==
  ASSUME ReviewInv, SealInv, [SealNext]_<<reviewVars, sealVars>>
  PROVE  SealInv' /\ UNCHANGED reviewVars /\ seals \subseteq seals'
<1>1. CASE UNCHANGED <<reviewVars, sealVars>>
  BY <1>1 DEF SealInv, SealTypeOK, SealWasApproved, sealVars, reviewVars, WasApproved, Ready,
              ReviewSet, Latest
<1>2. ASSUME NEW s \in Sessions, BeginSeal(s) \/ Publish(s) \/ DropSeal(s)
      PROVE  SealInv' /\ UNCHANGED reviewVars /\ seals \subseteq seals'
  <2>1. UNCHANGED reviewVars /\ rows' = rows /\ started' = started
    BY <1>2 DEF BeginSeal, Publish, DropSeal, reviewVars
  <2>2. \A id : WasApproved(id) => WasApproved(id)'
    BY <2>1, ApprovalIsKept DEF ReviewInv
  <2>3. CASE Publish(s) \/ DropSeal(s)
    <3>1. seals' \subseteq seals \cup {sealing[s]} /\ seals \subseteq seals' /\ sealing[s] # Nothing
          /\ sealing' = [sealing EXCEPT ![s] = Nothing]
      BY <2>3 DEF Publish, DropSeal
    <3>2. SealTypeOK'
      BY <3>1 DEF SealInv, SealTypeOK
    <3>3. started
      BY <3>1 DEF SealInv
    <3>4. \A id \in seals' : WasApproved(id)
      BY <3>1 DEF SealInv, SealWasApproved
    <3>5. \A t \in Sessions : sealing'[t] # Nothing => sealing'[t] = sealing[t]
      BY <3>1 DEF SealInv, SealTypeOK
    <3> QED BY <2>1, <2>2, <3>1, <3>2, <3>3, <3>4, <3>5 DEF SealInv, SealWasApproved
  <2>4. CASE BeginSeal(s)
    <3> DEFINE id == [user |-> User[s], set |-> ReviewSet(User[s], Len(rows))]
    <3>1. /\ started /\ Ready(id.set) /\ seals' = seals
          /\ sealing' = [sealing EXCEPT ![s] = id]
      BY <2>4 DEF BeginSeal, Confirmed
    <3>2. id \in SealIds
      BY RowsType, ReviewAssumption DEF ReviewInv, SealIds, ReviewSet
    <3>3. WasApproved(id)
      BY RowsType, <3>1 DEF WasApproved, ReviewInv
    <3> HIDE DEF id
    <3>4. SealTypeOK'
      BY <3>1, <3>2 DEF SealInv, SealTypeOK
    <3>5. \A t \in Sessions : sealing'[t] = sealing[t] \/ sealing'[t] = id
      BY <3>1 DEF SealInv, SealTypeOK
    <3> QED BY <2>1, <2>2, <3>1, <3>3, <3>4, <3>5 DEF SealInv, SealWasApproved
  <2> QED BY <1>2, <2>1, <2>3, <2>4 DEF BeginSeal, Publish, DropSeal
<1> QED
  BY <1>1, <1>2 DEF SealNext
-----------------------------------------------------------------------------
(* Reruns.                                                                 *)

LEMMA RunsType ==
  ASSUME RerunTypeOK
  PROVE  /\ runs \in Seq(Runs) /\ Len(runs) \in Nat
         /\ \A i \in 1..Len(runs) :
              /\ runs[i] \in Runs /\ runs[i].steps \in Seq(Outcomes) /\ Len(runs[i].steps) \in Nat
              /\ runs[i].seal \in SealIds /\ runs[i].checkpoints \subseteq 0..StepCount + 1
              /\ runs[i].part \in Writing \cup {Nothing}
<1>1. runs \in Seq(Runs) /\ Len(runs) \in Nat /\ \A i \in 1..Len(runs) : runs[i] \in Runs
  BY DEF RerunTypeOK
<1>2. \A r \in Runs : /\ r.steps \in Seq(Outcomes) /\ Len(r.steps) \in Nat /\ r.seal \in SealIds
                      /\ r.checkpoints \subseteq 0..StepCount + 1 /\ r.part \in Writing \cup {Nothing}
  BY DEF Runs
<1> QED
  BY <1>1, <1>2

LEMMA RerunsInitially == RerunInit => RerunInv
<1> SUFFICES ASSUME RerunInit PROVE RerunInv
  OBVIOUS
<1>1. RerunTypeOK
  BY DEF RerunInit, RerunTypeOK
<1>2. LockHasOneHolder /\ RunsShaped /\ ExecShaped /\ ExecApart
  BY DEF RerunInit, LockHasOneHolder, RunsShaped, ExecShaped, ExecApart
<1>3. HasNewest
  BY DEF RerunInit, HasNewest, RunsOf
<1> QED
  BY <1>1, <1>2, <1>3 DEF RerunInv

\* Sealing more disturbs no rerun.
LEMMA RerunsSurvive ==
  ASSUME RerunInv, UNCHANGED rerunVars, seals \subseteq seals' PROVE RerunInv'
<1>1. RerunTypeOK' /\ LockHasOneHolder' /\ ExecApart'
  BY DEF RerunInv, rerunVars, RerunTypeOK, LockHasOneHolder, ExecApart
<1>3. HasNewest'
  <2>1. \A q : RunsOf(q)' = RunsOf(q)
    BY DEF rerunVars, RunsOf
  <2> QED BY <2>1 DEF RerunInv, HasNewest
<1>2. RunsShaped' /\ ExecShaped'
  BY DEF RerunInv, rerunVars, RunsShaped, ExecShaped
<1> QED
  BY <1>1, <1>2, <1>3 DEF RerunInv

\* A process that works on a run replaces it and goes to another stage.
LEMMA WriteStep ==
  ASSUME RerunInv, NEW e \in Executors, exec[e] # Nothing, exec[e].stage \in Writing \cup {"run"},
         NEW r \in Runs, NEW stage \in Stages \ {"locked"},
         UNCHANGED <<locks, abandoned, seals>>,
         runs' = [runs EXCEPT ![exec[e].run] = r],
         exec' = [exec EXCEPT ![e].stage = stage],
         r.seal = runs[exec[e].run].seal,
         AtStage(stage, r), Shaped(r)
  PROVE  RerunInv'
<1> DEFINE i == exec[e].run
           x == [exec[e] EXCEPT !.stage = stage]
<1>1. exec \in [Executors -> [seal: SealIds, run: 0..Len(runs), stage: Stages] \cup {Nothing}]
  BY DEF RerunInv, RerunTypeOK
<1>2. exec[e] \in [seal: SealIds, run: 0..Len(runs), stage: Stages]
  BY <1>1
<1>3. x \in [seal: SealIds, run: 0..Len(runs), stage: Stages] /\ x.seal = exec[e].seal
      /\ x.run = i /\ x.stage = stage
  BY <1>2
<1>4. i \in 1..Len(runs) /\ i # 0 /\ runs \in Seq(Runs) /\ Len(runs) \in Nat
  BY RunsType DEF RerunInv, ExecShaped, Writing
<1>5. /\ runs' \in Seq(Runs) /\ Len(runs') = Len(runs) /\ runs'[i] = r
      /\ \A j \in 1..Len(runs) : j # i => runs'[j] = runs[j]
  BY <1>4
<1>6. x # Nothing
  <2>1. 0..Len(runs) \subseteq Nat
    BY <1>4
  <2>2. x \in [seal: SealIds, run: Nat, stage: Stages]
    BY <1>3, <2>1
  <2> QED BY <2>2, RerunAssumption
<1>7. exec'[e] = x /\ \A f \in Executors : f # e => exec'[f] = exec[f]
  BY <1>1
<1> HIDE DEF x, i
<1>8. RerunTypeOK'
  <2>1. exec' \in [Executors -> [seal: SealIds, run: 0..Len(runs), stage: Stages] \cup {Nothing}]
    BY <1>1, <1>3, <1>7 DEF x
  <2> QED BY <2>1, <1>5 DEF RerunInv, RerunTypeOK
<1>9. \A f \in Executors : /\ exec'[f] # Nothing <=> exec[f] # Nothing
                           /\ exec[f] # Nothing => /\ exec'[f].seal = exec[f].seal
                                                   /\ exec'[f].run = exec[f].run
  BY <1>3, <1>6, <1>7 DEF i
<1>10. LockHasOneHolder'
  BY <1>9 DEF RerunInv, LockHasOneHolder
<1>11. ExecApart'
  BY <1>9 DEF RerunInv, ExecApart
<1>12. RunsShaped'
  BY <1>4, <1>5 DEF RerunInv, RunsShaped, i
<1>13. ExecShaped'
  <2> SUFFICES ASSUME NEW f \in Executors, exec'[f] # Nothing
               PROVE  /\ exec'[f].seal \in seals'
                      /\ exec'[f].stage = "locked" => exec'[f].run = 0
                      /\ exec'[f].run = 0 => exec'[f].stage \in {"locked", "release"}
                      /\ exec'[f].run # 0 =>
                           exec'[f].run \in 1..Len(runs') /\ AtStage(exec'[f].stage, runs'[exec'[f].run])
    BY DEF ExecShaped
  <2>1. CASE f = e
    BY <2>1, <1>3, <1>4, <1>5, <1>7 DEF RerunInv, ExecShaped, i
  <2>2. CASE f # e
    <3>1. exec'[f] = exec[f] /\ exec[f].run # i
      BY <2>2, <1>4, <1>7 DEF RerunInv, ExecApart, i
    <3> QED BY <3>1, <1>5 DEF RerunInv, ExecShaped
  <2> QED BY <2>1, <2>2
<1>14. HasNewest'
  <2>1. \A q : RunsOf(q)' = RunsOf(q)
    BY <1>4, <1>5 DEF RunsOf, i
  <2> QED BY <2>1 DEF RerunInv, HasNewest
<1> QED
  BY <1>8, <1>10, <1>11, <1>12, <1>13, <1>14 DEF RerunInv

\* A process at work on a run.
LEMMA AtWork ==
  ASSUME RerunInv, NEW e \in Executors, exec[e] # Nothing, exec[e].stage \in Writing \cup {"run"}
  PROVE  /\ exec[e].run \in 1..Len(runs) /\ Current(e) \in Runs /\ Shaped(Current(e))
         /\ Current(e).steps \in Seq(Outcomes) /\ Len(Current(e).steps) \in Nat
         /\ Current(e).checkpoints \subseteq 0..StepCount + 1
         /\ AtStage(exec[e].stage, Current(e)) /\ Current(e).result = Nothing
         /\ runs = [runs EXCEPT ![exec[e].run] = Current(e)]
<1>1. exec[e].run \in 1..Len(runs) /\ AtStage(exec[e].stage, Current(e))
  BY DEF RerunInv, ExecShaped, Writing, Current
<1> QED
  BY <1>1, RunsType DEF RerunInv, RunsShaped, AtStage, Current

\* It may give up at any of them.
LEMMA GiveUpStep ==
  ASSUME RerunInv, NEW e \in Executors, exec[e] # Nothing, exec[e].stage \in Writing \cup {"run"},
         UNCHANGED <<runs, locks, abandoned, seals>>, Go(e, "release")
  PROVE  RerunInv'
<1>1. AtStage("release", Current(e)) /\ "release" \in Stages \ {"locked"}
  BY DEF AtStage, Stages, Writing
<1>2. exec' = [exec EXCEPT ![e].stage = "release"] /\ Current(e).seal = runs[exec[e].run].seal
      /\ runs' = [runs EXCEPT ![exec[e].run] = Current(e)]
  BY AtWork DEF Go, Current
<1>3. Current(e) \in Runs /\ Shaped(Current(e))
  BY AtWork
<1> QED
  BY <1>1, <1>2, <1>3, WriteStep

\* A file is created.
LEMMA CreateFileStep ==
  ASSUME RerunInv, NEW e \in Executors, CreateFile(e), UNCHANGED seals PROVE RerunInv'
<1>1. PICK w \in Writing :
        /\ At(e, w) /\ Current(e).part = Nothing
        /\ \/ runs' = [runs EXCEPT ![exec[e].run].part = w] /\ UNCHANGED exec
           \/ Go(e, "release") /\ UNCHANGED runs
  BY DEF CreateFile
<1>2. UNCHANGED <<locks, abandoned>> /\ exec[e] # Nothing /\ exec[e].stage = w
  BY <1>1 DEF CreateFile, At
<1> DEFINE c == Current(e)
           r == [c EXCEPT !.part = w]
<1>3. /\ exec[e].run \in 1..Len(runs) /\ c \in Runs /\ AtStage(w, c) /\ c.result = Nothing
  BY <1>2, AtWork
<1>4. CASE Go(e, "release") /\ UNCHANGED runs
  BY <1>2, <1>4, GiveUpStep
<1>5. CASE runs' = [runs EXCEPT ![exec[e].run].part = w] /\ UNCHANGED exec
  <2>1. /\ r \in Runs /\ r.steps = c.steps /\ r.checkpoints = c.checkpoints /\ r.plan = c.plan
        /\ r.result = Nothing /\ r.part = w /\ r.seal = c.seal
    BY <1>3 DEF Runs
  <2>2. runs' = [runs EXCEPT ![exec[e].run] = r] /\ r.seal = runs[exec[e].run].seal
    BY <1>3, <1>5, <2>1 DEF Current
  <2>3. exec' = [exec EXCEPT ![e].stage = w]
    <3>1. exec[e] \in [seal: SealIds, run: 0..Len(runs), stage: Stages]
      BY <1>2 DEF RerunInv, RerunTypeOK
    <3>2. exec[e] = [exec[e] EXCEPT !.stage = w]
      BY <1>2, <3>1
    <3> QED BY <1>5, <3>2 DEF RerunInv, RerunTypeOK
  <2> HIDE DEF r, c
  <2>4. AtStage(w, r)
    BY <1>3, <2>1, RerunAssumption
       DEF AtStage, Writing, Planning, Going, Saving, Closing, Written, NoneFatal, LastFatal
  <2>5. Shaped(r)
    BY <1>3, <2>1, <2>4 DEF Shaped, AtStage
  <2>6. w \in Stages \ {"locked"}
    BY DEF Writing, Stages
  <2> QED BY <1>2, <2>1, <2>2, <2>3, <2>4, <2>5, <2>6, WriteStep
<1> QED
  BY <1>1, <1>4, <1>5

\* A file that was created is whole in the end, or the run ends.
LEMMA FileStep ==
  ASSUME RerunInv, NEW e \in Executors, NEW w \in Writing, NEW r \in Runs,
         NEW next \in Stages \ {"locked"}, WriteFile(e, w, r, next), UNCHANGED seals,
         r.seal = Current(e).seal,
         AtStage(next, [r EXCEPT !.part = Nothing]), Shaped([r EXCEPT !.part = Nothing])
  PROVE  RerunInv'
<1>1. UNCHANGED <<locks, abandoned>> /\ exec[e] # Nothing /\ exec[e].stage = w
  BY DEF WriteFile, At
<1>2. CASE Go(e, "release") /\ UNCHANGED runs
  BY <1>1, <1>2, GiveUpStep
<1>3. ASSUME NEW st \in {next, "release"}, Go(e, st),
             runs' = [runs EXCEPT ![exec[e].run] = [r EXCEPT !.part = Nothing]]
      PROVE  RerunInv'
  <2> DEFINE d == [r EXCEPT !.part = Nothing]
  <2>1. d \in Runs /\ d.seal = runs[exec[e].run].seal
    BY DEF Runs, Current
  <2>2. AtStage(st, d) /\ st \in Stages \ {"locked"}
    <3> HIDE DEF d
    <3> QED BY DEF AtStage, Stages, Writing, d
  <2>3. Shaped(d) /\ runs' = [runs EXCEPT ![exec[e].run] = d] /\ exec' = [exec EXCEPT ![e].stage = st]
    BY <1>3 DEF Go
  <2> HIDE DEF d
  <2> QED BY <1>1, <2>1, <2>2, <2>3, WriteStep
<1> QED
  BY <1>2, <1>3 DEF WriteFile

\* A process gives up its run: it releases the lock, or dies with it.
LEMMA LeaveStep == ASSUME RerunInv, NEW e \in Executors, ReleaseLock(e) \/ Die(e), UNCHANGED seals
                   PROVE  RerunInv'
<1>1. /\ exec[e] # Nothing /\ exec' = [exec EXCEPT ![e] = Nothing] /\ runs' = runs
      /\ \/ locks' = locks \ {exec[e].seal} /\ abandoned' = abandoned
         \/ locks' = locks /\ abandoned' = abandoned \cup {exec[e].seal}
  BY DEF ReleaseLock, Die, At
<1>2. exec \in [Executors -> [seal: SealIds, run: 0..Len(runs), stage: Stages] \cup {Nothing}]
  BY DEF RerunInv, RerunTypeOK
<1>3. exec'[e] = Nothing /\ \A f \in Executors : f # e => exec'[f] = exec[f]
  BY <1>1, <1>2
<1>4. exec[e].seal \in SealIds
  BY <1>1, <1>2
<1>5. RerunTypeOK'
  BY <1>1, <1>2, <1>4 DEF RerunInv, RerunTypeOK
<1>6. LockHasOneHolder'
  <2>1. \A f \in Executors : exec'[f] # Nothing =>
          f # e /\ exec'[f] = exec[f] /\ exec[f].seal # exec[e].seal
    BY <1>1, <1>3 DEF RerunInv, LockHasOneHolder
  <2>2. \A q \in locks' \ abandoned' : q # exec[e].seal /\ q \in locks \ abandoned
    BY <1>1
  <2>3. \A q \in locks' \ abandoned' : \E f \in Executors : exec'[f] # Nothing /\ exec'[f].seal = q
    BY <1>3, <2>2 DEF RerunInv, LockHasOneHolder
  <2>4. \A f \in Executors : exec'[f] # Nothing => exec'[f].seal \in locks'
    BY <1>1, <2>1 DEF RerunInv, LockHasOneHolder
  <2>5. \A f, g \in Executors :
          exec'[f] # Nothing /\ exec'[g] # Nothing /\ exec'[f].seal = exec'[g].seal => f = g
    BY <2>1 DEF RerunInv, LockHasOneHolder
  <2> QED BY <2>3, <2>4, <2>5 DEF LockHasOneHolder
<1>7. RunsShaped' /\ ExecShaped' /\ ExecApart'
  BY <1>1, <1>3 DEF RerunInv, RunsShaped, ExecShaped, ExecApart
<1>8. HasNewest'
  <2>1. \A q : RunsOf(q)' = RunsOf(q)
    BY <1>1 DEF RunsOf
  <2> QED BY <2>1 DEF RerunInv, HasNewest
<1> QED
  BY <1>5, <1>6, <1>7, <1>8 DEF RerunInv

LEMMA TakeLockStep == ASSUME RerunInv, SealTypeOK, NEW e \in Executors, TakeLock(e), UNCHANGED seals
                      PROVE  RerunInv'
<1>1. PICK q \in seals :
        /\ q \notin locks /\ locks' = locks \cup {q}
        /\ exec' = [exec EXCEPT ![e] = [seal |-> q, run |-> 0, stage |-> "locked"]]
  BY DEF TakeLock, Lockable
<1>2. exec[e] = Nothing /\ runs' = runs /\ abandoned' = abandoned
  BY DEF TakeLock
<1> DEFINE x == [seal |-> q, run |-> 0, stage |-> "locked"]
<1>3. /\ x \in [seal: SealIds, run: 0..Len(runs), stage: Stages] /\ x # Nothing
      /\ x.seal = q /\ x.stage = "locked" /\ x.run = 0 /\ q \in SealIds
  <2>1. q \in SealIds /\ Len(runs) \in Nat /\ "locked" \in Stages
    BY RunsType DEF SealTypeOK, RerunInv, Stages
  <2>2. x \in [seal: SealIds, run: Nat, stage: Stages]
    BY <2>1
  <2>3. x # Nothing
    BY <2>2, RerunAssumption
  <2> QED BY <2>1, <2>3
<1>4. exec \in [Executors -> [seal: SealIds, run: 0..Len(runs), stage: Stages] \cup {Nothing}]
  BY DEF RerunInv, RerunTypeOK
<1>5. exec'[e] = x /\ \A f \in Executors : f # e => exec'[f] = exec[f]
  BY <1>1, <1>4
<1> HIDE DEF x
<1>6. exec' \in [Executors -> [seal: SealIds, run: 0..Len(runs), stage: Stages] \cup {Nothing}]
  BY <1>1, <1>3, <1>4 DEF x
<1>7. RerunTypeOK'
  BY <1>1, <1>2, <1>3, <1>6 DEF RerunInv, RerunTypeOK
<1>8. LockHasOneHolder'
  <2>1. \A f \in Executors : exec[f] # Nothing => f # e /\ exec'[f] = exec[f] /\ exec[f].seal # q
    BY <1>1, <1>2, <1>5 DEF RerunInv, LockHasOneHolder
  <2>2. \A f \in Executors : exec'[f] # Nothing => f = e \/ exec'[f] = exec[f]
    BY <1>5
  <2>3. \A f \in Executors : exec'[f] # Nothing => exec'[f].seal \in locks'
    BY <1>1, <1>3, <1>5, <2>2 DEF RerunInv, LockHasOneHolder
  <2>4. \A f, g \in Executors :
          exec'[f] # Nothing /\ exec'[g] # Nothing /\ exec'[f].seal = exec'[g].seal => f = g
    BY <1>3, <1>5, <2>1 DEF RerunInv, LockHasOneHolder
  <2>5. \A p \in locks' \ abandoned' : \E f \in Executors : exec'[f] # Nothing /\ exec'[f].seal = p
    <3> SUFFICES ASSUME NEW p \in locks' \ abandoned'
                 PROVE  \E f \in Executors : exec'[f] # Nothing /\ exec'[f].seal = p
      OBVIOUS
    <3>1. CASE p = q
      BY <3>1, <1>3, <1>5
    <3>2. CASE p # q
      BY <3>2, <1>1, <1>2, <2>1 DEF RerunInv, LockHasOneHolder
    <3> QED BY <3>1, <3>2
  <2> QED BY <2>3, <2>4, <2>5 DEF LockHasOneHolder
<1>9. RunsShaped' /\ ExecShaped' /\ ExecApart'
  BY <1>2, <1>3, <1>5 DEF RerunInv, RunsShaped, ExecShaped, ExecApart
<1>10. HasNewest'
  <2>1. \A p : RunsOf(p)' = RunsOf(p)
    BY <1>2 DEF RunsOf
  <2> QED BY <2>1 DEF RerunInv, HasNewest
<1> QED
  BY <1>7, <1>8, <1>9, <1>10 DEF RerunInv

\* No directory was made: the process has no run.
LEMMA NoRunStep ==
  ASSUME RerunInv, NEW e \in Executors, exec[e] # Nothing, exec[e].stage = "locked",
         Go(e, "release"), UNCHANGED <<runs, locks, abandoned, seals>>
  PROVE  RerunInv'
<1> DEFINE x == [exec[e] EXCEPT !.stage = "release"]
<1>1. exec \in [Executors -> [seal: SealIds, run: 0..Len(runs), stage: Stages] \cup {Nothing}]
  BY DEF RerunInv, RerunTypeOK
<1>2. /\ exec[e] \in [seal: SealIds, run: 0..Len(runs), stage: Stages] /\ exec[e].run = 0
      /\ exec[e].seal \in seals /\ Len(runs) \in Nat
  BY <1>1, RunsType DEF RerunInv, ExecShaped
<1>3. /\ x \in [seal: SealIds, run: 0..Len(runs), stage: Stages] /\ x.seal = exec[e].seal
      /\ x.run = 0 /\ x.stage = "release"
  BY <1>2 DEF Stages
<1>4. x # Nothing
  <2>1. x \in [seal: SealIds, run: Nat, stage: Stages]
    BY <1>2, <1>3
  <2> QED BY <2>1, RerunAssumption
<1>5. exec'[e] = x /\ (\A f \in Executors : f # e => exec'[f] = exec[f])
      /\ exec' \in [Executors -> [seal: SealIds, run: 0..Len(runs), stage: Stages] \cup {Nothing}]
  <2>1. exec' = [exec EXCEPT ![e] = x]
    BY DEF Go
  <2> HIDE DEF x
  <2> QED BY <1>1, <1>3, <2>1
<1> HIDE DEF x
<1>6. RerunTypeOK'
  BY <1>5 DEF RerunInv, RerunTypeOK
<1>7. \A f \in Executors : /\ exec'[f] # Nothing <=> exec[f] # Nothing
                           /\ exec[f] # Nothing => /\ exec'[f].seal = exec[f].seal
                                                   /\ exec'[f].run = exec[f].run
  BY <1>2, <1>3, <1>4, <1>5
<1>8. LockHasOneHolder' /\ ExecApart'
  BY <1>7 DEF RerunInv, LockHasOneHolder, ExecApart
<1>9. RunsShaped' /\ ExecShaped'
  BY <1>2, <1>3, <1>5 DEF RerunInv, RunsShaped, ExecShaped
<1>10. HasNewest'
  <2>1. \A q : RunsOf(q)' = RunsOf(q)
    BY DEF RunsOf
  <2> QED BY <2>1 DEF RerunInv, HasNewest
<1> QED
  BY <1>6, <1>8, <1>9, <1>10 DEF RerunInv

\* A directory was made.
NewRun(e) ==
  /\ runs' = Append(runs, [seal |-> exec[e].seal, steps |-> << >>, plan |-> FALSE,
                           checkpoints |-> {}, result |-> Nothing, part |-> Nothing])
  /\ exec' = [exec EXCEPT ![e].run = Len(runs) + 1, ![e].stage = "plan"]
  /\ exec[e] # Nothing /\ UNCHANGED <<locks, abandoned>>

LEMMA NewRunStep ==
  ASSUME RerunInv, NEW e \in Executors, NewRun(e), UNCHANGED seals
  PROVE  RerunInv'
<1>1. runs' = Append(runs, [seal |-> exec[e].seal, steps |-> << >>, plan |-> FALSE,
                            checkpoints |-> {}, result |-> Nothing, part |-> Nothing])
      /\ exec' = [exec EXCEPT ![e].run = Len(runs) + 1, ![e].stage = "plan"]
  BY DEF NewRun
<1>2. exec[e] # Nothing /\ locks' = locks /\ abandoned' = abandoned
  BY DEF NewRun
<1> DEFINE n == Len(runs) + 1
           x == [exec[e] EXCEPT !.run = n, !.stage = "plan"]
           r == [seal |-> exec[e].seal, steps |-> << >>, plan |-> FALSE,
                 checkpoints |-> {}, result |-> Nothing, part |-> Nothing]
<1>3. exec \in [Executors -> [seal: SealIds, run: 0..Len(runs), stage: Stages] \cup {Nothing}]
  BY DEF RerunInv, RerunTypeOK
<1>4. exec[e] \in [seal: SealIds, run: 0..Len(runs), stage: Stages] /\ exec[e].seal \in seals
  BY <1>2, <1>3 DEF RerunInv, ExecShaped
<1>5. runs \in Seq(Runs) /\ Len(runs) \in Nat
  BY RunsType DEF RerunInv
<1>6. /\ r \in Runs /\ r.seal = exec[e].seal /\ r.result = Nothing /\ Len(r.steps) = 0
      /\ r.checkpoints = {} /\ r.part = Nothing
  BY <1>4, RerunAssumption DEF Runs
<1>7. "plan" \in Stages
  BY DEF Stages
<1>8. AtStage("plan", r) /\ Shaped(r)
  <2> HIDE DEF r
  <2> QED BY <1>6, RerunAssumption DEF AtStage, Shaped, Planning, Writing
<1>9. /\ x \in [seal: SealIds, run: 0..n, stage: Stages] /\ x.seal = exec[e].seal /\ x.run = n
      /\ x.stage = "plan"
  <2> HIDE DEF n
  <2>1. n \in 0..n
    BY <1>5 DEF n
  <2> QED BY <1>4, <1>7, <2>1
<1>10. x # Nothing
  <2>1. 0..n \subseteq Nat
    BY <1>5
  <2>2. x \in [seal: SealIds, run: Nat, stage: Stages]
    BY <1>9, <2>1
  <2> QED BY <2>2, RerunAssumption
<1>11. exec'[e] = x /\ \A f \in Executors : f # e => exec'[f] = exec[f]
  BY <1>1, <1>3
<1>12. /\ runs' \in Seq(Runs) /\ Len(runs') = n /\ runs'[n] = r
       /\ \A j \in 1..Len(runs) : runs'[j] = runs[j] /\ j \in 1..n /\ j < n
       /\ \A j \in 1..n : j \in 1..Len(runs) \/ j = n
       /\ n \in 1..n
  <2>1. runs' = Append(runs, r)
    BY <1>1
  <2> HIDE DEF r
  <2> QED BY <1>5, <1>6, <2>1
<1>13. exec' \in [Executors -> [seal: SealIds, run: 0..n, stage: Stages] \cup {Nothing}]
  <2>1. \A f \in Executors : exec[f] \in [seal: SealIds, run: 0..n, stage: Stages] \cup {Nothing}
    <3>1. 0..Len(runs) \subseteq 0..n
      BY <1>5
    <3> QED BY <1>3, <3>1
  <2>2. \A f \in Executors : exec'[f] \in [seal: SealIds, run: 0..n, stage: Stages] \cup {Nothing}
    BY <1>9, <1>11, <2>1
  <2>3. exec' \in [Executors -> {exec'[f] : f \in Executors}]
    BY <1>1, <1>3
  <2> QED BY <2>2, <2>3
<1> HIDE DEF x, r, n
<1>14. RerunTypeOK'
  BY <1>2, <1>12, <1>13 DEF RerunInv, RerunTypeOK
<1>15. LockHasOneHolder'
  <2>1. \A f \in Executors : /\ exec'[f] # Nothing <=> exec[f] # Nothing
                             /\ exec[f] # Nothing => exec'[f].seal = exec[f].seal
    BY <1>2, <1>9, <1>10, <1>11
  <2> QED BY <2>1, <1>2 DEF RerunInv, LockHasOneHolder
<1>16. RunsShaped'
  BY <1>4, <1>6, <1>8, <1>12 DEF RerunInv, RunsShaped
<1>17. \A f \in Executors : f # e /\ exec[f] # Nothing /\ exec[f].run # 0 =>
         exec[f].run \in 1..Len(runs) /\ exec[f].run # n
  BY <1>12 DEF RerunInv, ExecShaped
<1>18. ExecShaped'
  <2> SUFFICES ASSUME NEW f \in Executors, exec'[f] # Nothing
               PROVE  /\ exec'[f].seal \in seals'
                      /\ exec'[f].stage = "locked" => exec'[f].run = 0
                      /\ exec'[f].run = 0 => exec'[f].stage \in {"locked", "release"}
                      /\ exec'[f].run # 0 =>
                           exec'[f].run \in 1..Len(runs') /\ AtStage(exec'[f].stage, runs'[exec'[f].run])
    BY DEF ExecShaped
  <2>1. CASE f = e
    BY <2>1, <1>4, <1>5, <1>8, <1>9, <1>11, <1>12 DEF n
  <2>2. CASE f # e
    BY <2>2, <1>11, <1>12 DEF RerunInv, ExecShaped
  <2> QED BY <2>1, <2>2
<1>19. ExecApart'
  BY <1>9, <1>11, <1>17 DEF RerunInv, ExecApart
<1>20. HasNewest'
  <2> SUFFICES ASSUME NEW q, RunsOf(q)' # {}
               PROVE  \E i \in RunsOf(q)' : \A j \in RunsOf(q)' : j <= i
    BY DEF HasNewest
  <2>1. CASE r.seal = q
    <3>1. n \in RunsOf(q)' /\ \A j \in RunsOf(q)' : j <= n
      BY <2>1, <1>5, <1>12 DEF RunsOf, n
    <3> QED BY <3>1
  <2>2. CASE r.seal # q
    <3>1. RunsOf(q)' = RunsOf(q)
      BY <2>2, <1>12 DEF RunsOf
    <3> QED BY <3>1 DEF RerunInv, HasNewest
  <2> QED BY <2>1, <2>2
<1> QED
  BY <1>14, <1>15, <1>16, <1>18, <1>19, <1>20 DEF RerunInv

LEMMA OpenRunStep == ASSUME RerunInv, NEW e \in Executors, OpenRun(e), UNCHANGED seals
                     PROVE  RerunInv'
<1>2. exec[e] # Nothing /\ exec[e].stage = "locked" /\ locks' = locks /\ abandoned' = abandoned
  BY DEF OpenRun, At
<1>1. CASE Go(e, "release") /\ UNCHANGED runs
  BY <1>1, <1>2, NoRunStep
<1>3. CASE /\ runs' = Append(runs, [seal |-> exec[e].seal, steps |-> << >>, plan |-> FALSE,
                                    checkpoints |-> {}, result |-> Nothing, part |-> Nothing])
           /\ exec' = [exec EXCEPT ![e].run = Len(runs) + 1, ![e].stage = "plan"]
  BY <1>3, <1>2, NewRunStep DEF NewRun
<1> QED
  BY <1>3, <1>1 DEF OpenRun

LEMMA RunStepStep == ASSUME RerunInv, NEW e \in Executors, RunStep(e), UNCHANGED seals PROVE RerunInv'
<1> DEFINE c == Current(e)
<1>1. PICK o \in Outcomes :
        /\ runs' = [runs EXCEPT ![exec[e].run].steps = Append(@, o)]
        /\ exec' = [exec EXCEPT ![e].stage = IF Fatal(o) THEN "close" ELSE "save"]
  BY DEF RunStep, Go
<1>2. exec[e] # Nothing /\ exec[e].stage = "run" /\ UNCHANGED <<locks, abandoned>>
  BY DEF RunStep, At
<1>3. /\ exec[e].run \in 1..Len(runs) /\ c \in Runs /\ c.steps \in Seq(Outcomes)
      /\ Len(c.steps) \in Nat /\ Going(c) /\ c.result = Nothing /\ c.part = Nothing
  BY <1>2, AtWork DEF AtStage
<1> DEFINE r == [c EXCEPT !.steps = Append(@, o)]
           st == IF Fatal(o) THEN "close" ELSE "save"
<1>4. /\ Append(c.steps, o) \in Seq(Outcomes) /\ Len(Append(c.steps, o)) = Len(c.steps) + 1
      /\ Append(c.steps, o)[Len(c.steps) + 1] = o
      /\ \A k \in 1..Len(c.steps) : Append(c.steps, o)[k] = c.steps[k]
  BY <1>3
<1>5. r \in Runs /\ r.steps = Append(c.steps, o) /\ r.checkpoints = c.checkpoints
      /\ r.plan = c.plan /\ r.result = Nothing /\ r.part = Nothing /\ r.seal = c.seal
  BY <1>3, <1>4 DEF Runs
<1>6. runs' = [runs EXCEPT ![exec[e].run] = r]
  BY <1>1, <1>3 DEF Current
<1> HIDE DEF r, c
<1>7. Len(r.steps) = Len(c.steps) + 1 /\ Len(r.steps) \in 1..StepCount
      /\ r.checkpoints = 0..Len(r.steps) - 1 /\ r.plan
  BY <1>3, <1>4, <1>5, RerunAssumption DEF Going
<1>8. \A k \in 1..Len(r.steps) - 1 : ~Fatal(r.steps[k])
  BY <1>3, <1>4, <1>5, <1>7 DEF Going, NoneFatal
<1>9. r.steps[Len(r.steps)] = o
  BY <1>4, <1>5, <1>7
<1>10. Fatal(o) => Closing(r)
  BY <1>7, <1>8, <1>9, RerunAssumption DEF Closing, LastFatal
<1>11. ~Fatal(o) => Saving(r)
  <2> SUFFICES ASSUME ~Fatal(o) PROVE \A k \in 1..Len(r.steps) : ~Fatal(r.steps[k])
    BY <1>7 DEF Saving, NoneFatal
  <2>1. \A k \in 1..Len(r.steps) : k \in 1..Len(r.steps) - 1 \/ k = Len(r.steps)
    BY <1>7, RerunAssumption
  <2> QED BY <1>8, <1>9, <2>1
<1>12. AtStage(st, r) /\ Shaped(r) /\ st \in Stages \ {"locked"}
  BY <1>5, <1>10, <1>11, RerunAssumption DEF AtStage, Shaped, Stages, Writing
<1> HIDE DEF st
<1>13. exec' = [exec EXCEPT ![e].stage = st] /\ exec[e].stage \in Writing \cup {"run"}
  BY <1>1, <1>2 DEF st
<1>14. r.seal = runs[exec[e].run].seal
  BY <1>5 DEF c, Current
<1> QED
  BY <1>2, <1>5, <1>6, <1>12, <1>13, <1>14, WriteStep

LEMMA WritePlanStep ==
  ASSUME RerunInv, NEW e \in Executors, WritePlan(e), UNCHANGED seals PROVE RerunInv'
<1> DEFINE c == Current(e)
           r == [c EXCEPT !.plan = TRUE]
           d == [r EXCEPT !.part = Nothing]
<1>1. WriteFile(e, "plan", r, "save") /\ exec[e] # Nothing /\ exec[e].stage = "plan"
  BY DEF WritePlan, WriteFile, At
<1>2. c \in Runs /\ Planning(c) /\ c.result = Nothing
  BY <1>1, AtWork DEF AtStage, Writing
<1>3. /\ r \in Runs /\ r.seal = c.seal
      /\ d.steps = c.steps /\ d.checkpoints = c.checkpoints /\ d.plan /\ d.result = Nothing
      /\ d.part = Nothing
  BY <1>2 DEF Runs
<1> HIDE DEF c, r, d
<1>4. AtStage("save", d) /\ Shaped(d)
  BY <1>2, <1>3, RerunAssumption DEF AtStage, Shaped, Writing, Planning, Saving, NoneFatal
<1>5. "plan" \in Writing /\ "save" \in Stages \ {"locked"}
  BY DEF Writing, Stages
<1> QED
  BY <1>1, <1>3, <1>4, <1>5, FileStep DEF c, d

LEMMA SaveCheckpointStep ==
  ASSUME RerunInv, NEW e \in Executors, SaveCheckpoint(e), UNCHANGED seals PROVE RerunInv'
<1> DEFINE c == Current(e)
           n == Len(c.steps)
           r == [c EXCEPT !.checkpoints = @ \cup {n}]
           d == [r EXCEPT !.part = Nothing]
           st == IF LastStep(n) THEN "close" ELSE "run"
<1>1. WriteFile(e, "save", r, st) /\ exec[e] # Nothing /\ exec[e].stage = "save"
  BY DEF SaveCheckpoint, WriteFile, At
<1>2. c \in Runs /\ Saving(c) /\ c.result = Nothing /\ n \in Nat
  BY <1>1, AtWork DEF AtStage, Writing
<1>3. n \in 0..StepCount /\ c.checkpoints = 0..n - 1 /\ NoneFatal(c) /\ c.plan
  BY <1>2 DEF Saving
<1>4. c.checkpoints \cup {n} = 0..n /\ 0..n \subseteq 0..StepCount + 1
  BY <1>3, RerunAssumption
<1>5. /\ r \in Runs /\ r.seal = c.seal
      /\ d.steps = c.steps /\ d.checkpoints = 0..n /\ d.plan /\ d.result = Nothing
      /\ d.part = Nothing
  <2> HIDE DEF n
  <2> QED BY <1>2, <1>3, <1>4 DEF Runs
<1>6. Len(d.steps) = n /\ NoneFatal(d)
  <2> HIDE DEF d, c
  <2> QED BY <1>3, <1>5 DEF NoneFatal, n
<1> HIDE DEF c, r, d, n
<1>7. LastStep(n) => Closing(d)
  BY <1>3, <1>5, <1>6, RerunAssumption DEF Closing, LastStep
<1>8. ~LastStep(n) => Going(d)
  BY <1>3, <1>5, <1>6, RerunAssumption DEF Going, LastStep
<1>9. AtStage(st, d) /\ Shaped(d) /\ st \in Stages \ {"locked"}
  BY <1>5, <1>7, <1>8, RerunAssumption DEF AtStage, Shaped, Stages, Writing
<1>10. "save" \in Writing
  BY DEF Writing
<1> HIDE DEF st
<1> QED
  BY <1>1, <1>5, <1>9, <1>10, FileStep DEF c, d

LEMMA CloseReportStep ==
  ASSUME RerunInv, NEW e \in Executors, CloseReport(e), UNCHANGED seals PROVE RerunInv'
<1> DEFINE c == Current(e)
           n == Len(c.steps)
           r == [c EXCEPT !.checkpoints = @ \cup {n + 1}]
           d == [r EXCEPT !.part = Nothing]
<1>1. WriteFile(e, "close", r, "result") /\ exec[e] # Nothing /\ exec[e].stage = "close"
  BY DEF CloseReport, WriteFile, At
<1>2. c \in Runs /\ Closing(c) /\ c.result = Nothing /\ n \in Nat /\ c.checkpoints \subseteq 0..StepCount + 1
  BY <1>1, AtWork DEF AtStage, Writing
<1>3. n \in 1..StepCount
  BY <1>2 DEF Closing
<1>4. c.checkpoints \cup {n + 1} \subseteq 0..StepCount + 1
  BY <1>2, <1>3, RerunAssumption
<1>5. /\ r \in Runs /\ r.seal = c.seal
      /\ d.steps = c.steps /\ d.checkpoints = c.checkpoints \cup {n + 1} /\ d.plan = c.plan
      /\ d.result = Nothing /\ d.part = Nothing
  <2> HIDE DEF n
  <2> QED BY <1>2, <1>4 DEF Runs
<1> HIDE DEF c, r, d
<1>6. Written(d)
  BY <1>2, <1>3, <1>5 DEF Closing, Written, NoneFatal, LastFatal
<1>7. AtStage("result", d) /\ Shaped(d)
  BY <1>5, <1>6 DEF AtStage, Shaped, Writing
<1>8. "close" \in Writing /\ "result" \in Stages \ {"locked"}
  BY DEF Writing, Stages
<1> QED
  BY <1>1, <1>5, <1>7, <1>8, FileStep DEF c, d

LEMMA WriteResultStep ==
  ASSUME RerunInv, NEW e \in Executors, WriteResult(e), UNCHANGED seals PROVE RerunInv'
<1> DEFINE c == Current(e)
           r == [c EXCEPT !.result = Verdict(c.steps)]
           d == [r EXCEPT !.part = Nothing]
<1>1. WriteFile(e, "result", r, "release") /\ exec[e] # Nothing /\ exec[e].stage = "result"
  BY DEF WriteResult, WriteFile, At
<1>2. c \in Runs /\ Written(c)
  BY <1>1, AtWork DEF AtStage, Writing
<1>3. Verdict(c.steps) \in Results
  BY DEF Verdict, Results
<1>4. /\ r \in Runs /\ r.seal = c.seal
      /\ d.steps = c.steps /\ d.checkpoints = c.checkpoints /\ d.plan = c.plan
      /\ d.result = Verdict(c.steps) /\ d.part = Nothing
  BY <1>2, <1>3 DEF Runs
<1> HIDE DEF c, r, d
<1>5. Written(d) /\ d.result = Verdict(d.steps)
  BY <1>2, <1>4 DEF Written, NoneFatal, LastFatal
<1>6. AtStage("release", d) /\ Shaped(d)
  BY <1>4, <1>5, RerunAssumption DEF AtStage, Shaped, Writing
<1>7. "result" \in Writing /\ "release" \in Stages \ {"locked"}
  BY DEF Writing, Stages
<1> QED
  BY <1>1, <1>4, <1>6, <1>7, FileStep DEF c, d

LEMMA RerunStep ==
  ASSUME SealTypeOK, RerunInv, RerunNext, UNCHANGED seals PROVE RerunInv'
<1>1. PICK e \in Executors :
        \/ TakeLock(e) \/ OpenRun(e) \/ CreateFile(e) \/ WritePlan(e) \/ RunStep(e)
        \/ SaveCheckpoint(e) \/ CloseReport(e) \/ WriteResult(e) \/ ReleaseLock(e) \/ Die(e)
  BY DEF RerunNext
<1> QED
  BY <1>1, TakeLockStep, OpenRunStep, CreateFileStep, WritePlanStep, RunStepStep,
     SaveCheckpointStep, CloseReportStep, WriteResultStep, LeaveStep

THEOREM Invariance == CatalogSpec => []IInv
<1>1. CatalogInit => IInv
  BY ReviewsInitially, SealsInitially, RerunsInitially DEF CatalogInit, IInv
<1>2. IInv /\ [CatalogNext]_catalogVars => IInv'
  <2> SUFFICES ASSUME IInv, [CatalogNext]_catalogVars PROVE IInv'
    OBVIOUS
  <2>1. CASE ReviewNext /\ UNCHANGED <<sealVars, rerunVars>>
    <3>1. ReviewInv' /\ SealInv'
      BY <2>1, ReviewStep, SealsSurviveReviews DEF IInv
    <3>2. RerunInv'
      BY <2>1, RerunsSurvive DEF IInv, sealVars
    <3> QED BY <3>1, <3>2 DEF IInv
  <2>2. CASE SealNext /\ UNCHANGED rerunVars
    <3>1. SealInv' /\ UNCHANGED reviewVars /\ seals \subseteq seals'
      BY <2>2, SealStep DEF IInv
    <3>2. ReviewInv'
      BY <3>1, ReviewStep DEF IInv
    <3>3. RerunInv'
      BY <2>2, <3>1, RerunsSurvive DEF IInv
    <3> QED BY <3>1, <3>2, <3>3 DEF IInv
  <2>3. CASE RerunNext /\ UNCHANGED <<reviewVars, sealVars>>
    <3>1. RerunInv'
      BY <2>3, RerunStep DEF IInv, SealInv, sealVars
    <3>2. ReviewInv' /\ SealInv'
      BY <2>3, ReviewStep, SealsSurviveReviews DEF IInv
    <3> QED BY <3>1, <3>2 DEF IInv
  <2>4. CASE UNCHANGED catalogVars
    <3>1. ReviewInv' /\ SealInv'
      BY <2>4, ReviewStep, SealsSurviveReviews DEF IInv, catalogVars
    <3>2. RerunInv'
      BY <2>4, RerunsSurvive DEF IInv, catalogVars, sealVars
    <3> QED BY <3>1, <3>2 DEF IInv
  <2> QED BY <2>1, <2>2, <2>3, <2>4 DEF CatalogNext
<1> QED
  BY <1>1, <1>2, PTL DEF CatalogSpec

\* Every state of the catalog has its type.
THEOREM CatalogTypes == CatalogSpec => []CatalogTypeOK
<1>1. IInv => CatalogTypeOK
  BY DEF IInv, ReviewInv, SealInv, RerunInv, CatalogTypeOK
<1> QED
  BY <1>1, Invariance, PTL

\* For any number of sessions, retries and cases, an operator's decision
\* replaces only the one that was shown, and is applied once (Append).
THEOREM DecisionsApplyOnce == CatalogSpec => []ReviewsApplyOnce
<1>1. IInv => ReviewsApplyOnce
  BY DEF IInv, ReviewInv
<1> QED
  BY <1>1, Invariance, PTL

\* A seal was approved as a whole at one moment (Seal, materialize).
THEOREM SealsWereApproved == CatalogSpec => []SealWasApproved
<1>1. IInv => SealWasApproved
  BY DEF IInv, SealInv
<1> QED
  BY <1>1, Invariance, PTL

\* One process at a time reruns a seal (single_active_run_per_seal).
THEOREM LocksHaveOneHolder == CatalogSpec => []LockHasOneHolder
<1>1. IInv => LockHasOneHolder
  BY DEF IInv, RerunInv
<1> QED
  BY <1>1, Invariance, PTL

\* The checkpoints of a written report are those its verdict calls for.
LEMMA WrittenCheckpoints ==
  ASSUME NEW r \in Runs, Written(r)
  PROVE  /\ r.checkpoints = (0..(IF Verdict(r.steps) = "failed" THEN Len(r.steps) - 1 ELSE Len(r.steps)))
                             \cup {Len(r.steps) + 1}
         /\ Verdict(r.steps) # "failed" => /\ Len(r.steps) = StepCount
                                          /\ \A j \in 1..Len(r.steps) : r.steps[j] # "unlogged"
<1> DEFINE n == Len(r.steps)
<1>1. n \in 1..StepCount /\ StepCount \in Nat
  BY RerunAssumption DEF Written
<1>2. CASE NoneFatal(r) /\ n = StepCount /\ r.checkpoints = (0..n) \cup {n + 1}
  <2>1. Verdict(r.steps) # "failed"
    BY <1>2 DEF Verdict, NoneFatal
  <2>2. \A j \in 1..n : r.steps[j] # "unlogged"
    BY <1>2 DEF NoneFatal, Fatal
  <2> QED BY <1>2, <2>1, <2>2
<1>3. CASE LastFatal(r) /\ r.checkpoints = (0..n - 1) \cup {n + 1}
  <2>1. Verdict(r.steps) = "failed"
    BY <1>1, <1>3 DEF Verdict, LastFatal
  <2> QED BY <1>3, <2>1
<1> QED
  BY <1>2, <1>3 DEF Written

\* What finishReport leaves, ValidateRunDirectory accepts, unless a step has
\* no logs.
LEMMA WrittenValidates ==
  ASSUME NEW r \in Runs, Written(r), r.result = Verdict(r.steps), r.result # Nothing, r.part = Nothing
  PROVE  Validates(r) <=> \A j \in 1..Len(r.steps) : r.steps[j] # "unlogged"
<1>1. r.plan
  BY DEF Written
<1> QED
  BY <1>1, WrittenCheckpoints DEF Validates, ValidReport, ExpectedCheckpoints

\* A directory verifies exactly when its result was written to the end and
\* every step has logs, a result there in part is in the last checkpoint, and a
\* technical pass is only reported of an approved seal whose last run passed
\* every step (writeExclusive, finishReport, Inspector.Status).
THEOREM EvidenceIsValid == CatalogSpec => []EvidenceValidates
<1>1. IInv => EvidenceValidates
  <2> SUFFICES ASSUME IInv PROVE EvidenceValidates
    OBVIOUS
  <2>1. ASSUME NEW i \in 1..Len(runs)
        PROVE  /\ Validates(runs[i]) <=> /\ runs[i].result # Nothing
                                         /\ \A j \in 1..Len(runs[i].steps) : runs[i].steps[j] # "unlogged"
               /\ runs[i].part = "result" =>
                    runs[i].checkpoints = ExpectedCheckpoints([runs[i] EXCEPT !.result = Verdict(runs[i].steps)])
    <3> DEFINE r == runs[i]
               d == [r EXCEPT !.result = Verdict(r.steps)]
    <3>1. r \in Runs /\ Shaped(r)
      BY RunsType DEF IInv, RerunInv, RunsShaped
    <3>2. d.result = Verdict(r.steps) /\ d.steps = r.steps
      BY <3>1 DEF Runs
    <3> HIDE DEF r, d
    <3>3. r.part = "result" => r.checkpoints = ExpectedCheckpoints(d)
      BY <3>1, <3>2, WrittenCheckpoints DEF Shaped, ExpectedCheckpoints
    <3>4. Validates(r) <=> r.result # Nothing /\ \A j \in 1..Len(r.steps) : r.steps[j] # "unlogged"
      <4>1. r.result = Nothing => ~Validates(r)
        BY DEF Validates, ValidReport
      <4> QED BY <3>1, <4>1, WrittenValidates DEF Shaped
    <3> QED BY <3>3, <3>4 DEF r, d
  <2>2. ASSUME NEW q \in {runs[i].seal : i \in 1..Len(runs)}, StatusOf(q) = "technical_pass"
        PROVE  /\ q \in seals /\ WasApproved(q)
               /\ \E i \in RunsOf(q) : runs[i].steps = [j \in 1..StepCount |-> "passed"]
    <3>1. q \in seals /\ WasApproved(q)
      BY DEF IInv, RerunInv, RunsShaped, SealInv, SealWasApproved
    <3> DEFINE i == CHOOSE i \in RunsOf(q) : \A j \in RunsOf(q) : j <= i
    <3>2. i \in RunsOf(q)
      <4>1. RunsOf(q) # {}
        BY DEF RunsOf
      <4> QED BY <4>1 DEF IInv, RerunInv, HasNewest
    <3>3. /\ i \in 1..Len(runs) /\ runs[i].result = "technical_pass"
          /\ runs[i].result # Nothing
      BY <2>2, <3>2, <2>1 DEF StatusOf, RunsOf, Validates, ValidReport
    <3> HIDE DEF i
    <3> DEFINE r == runs[i]
    <3>4. /\ r \in Runs /\ Written(r) /\ Verdict(r.steps) = "technical_pass"
          /\ r.steps \in Seq(Outcomes) /\ Len(r.steps) \in Nat
      BY <3>3, RunsType DEF IInv, RerunInv, RunsShaped, Shaped
    <3> HIDE DEF r
    <3>5. \A k \in 1..Len(r.steps) : ~Fatal(r.steps[k]) /\ r.steps[k] # "gate"
      BY <3>4 DEF Verdict
    <3>6. \A k \in 1..Len(r.steps) : r.steps[k] = "passed"
      BY <3>4, <3>5 DEF Fatal, Outcomes
    <3>7. Len(r.steps) = StepCount
      BY <3>4, <3>5 DEF Written, LastFatal
    <3>8. r.steps = [j \in 1..StepCount |-> "passed"]
      BY <3>4, <3>6, <3>7
    <3> QED BY <3>1, <3>2, <3>8 DEF r
  <2> QED BY <2>1, <2>2 DEF EvidenceValidates
<1> QED
  BY <1>1, Invariance, PTL
-----------------------------------------------------------------------------
(* The workbench.                                                          *)

\* A row says that the reviewer decided the case so in this revision.
Says(R, u, c, n, d) ==
  \E i \in 1..Len(R) : R[i].user = u /\ R[i].case = c /\ R[i].revision = n /\ R[i].decision = d

\* The transaction a tab waits for is about what it sent.
Posted == \A s \in Sessions : post[s] = "served" => request[s] = posted[s]

WorkbenchInv ==
  /\ ReviewInv
  /\ DOMAIN post = Sessions /\ DOMAIN posted = Sessions
  /\ Posted
  /\ SavedIsStored

\* The tabs other than s stay as they are.
OthersKeep(s) == \A t \in Sessions \ {s} : post'[t] = post[t] /\ posted'[t] = posted[t]
Domains       == DOMAIN post' = Sessions /\ DOMAIN posted' = Sessions

\* A row says what a tab sent.
SaysPosted(R, t, q) == Says(R, User[t], q.case, q.expected + 1, q.decision)

\* Rows keep what they say: they are upgraded once and then only added to.
LEMMA RowsKeepSaying ==
  ASSUME ReviewInv, [ReviewNext]_reviewVars, NEW u, NEW c, NEW n, NEW d, Says(rows, u, c, n, d)
  PROVE  Says(rows', u, c, n, d)
<1>1. rows \in Seq(Rows) /\ Len(rows) \in Nat /\ \A i \in 1..Len(rows) : rows[i] \in Rows
  BY RowsType DEF ReviewInv, ReviewTypeOK
<1>2. CASE Migrate
  <2>1. rows' = [j \in 1..Len(rows) |-> Migrated(rows[j])]
    BY <1>1, <1>2 DEF Migrate
  <2>2. \A j \in 1..Len(rows) :
          /\ rows'[j].user = rows[j].user /\ rows'[j].case = rows[j].case
          /\ rows'[j].revision = rows[j].revision /\ rows'[j].decision = rows[j].decision
    BY <1>1, <2>1 DEF Migrated, Rows
  <2>3. Len(rows') = Len(rows)
    BY <1>1, <2>1
  <2> QED BY <2>2, <2>3 DEF Says
<1>3. CASE rows' = rows
  BY <1>3 DEF Says
<1>4. ASSUME NEW r \in Rows, rows' = Append(rows, r) PROVE Says(rows', u, c, n, d)
  <2>1. Len(rows') = Len(rows) + 1 /\ \A i \in 1..Len(rows) : rows'[i] = rows[i]
    BY <1>1, <1>4
  <2> QED BY <1>1, <2>1 DEF Says
<1>5. ASSUME NEW s \in Sessions, FindReplay(s) \/ Insert(s) \/ Abandon(s)
      PROVE  rows' = rows \/ \E r \in Rows : rows' = Append(rows, r)
  BY <1>5, InsertStep DEF FindReplay, Abandon
<1> QED
  BY <1>2, <1>3, <1>4, <1>5 DEF ReviewNext, reviewVars

\* What a tab does alone.
Alone(s) == \/ Decide(s) \/ Tick(s) \/ Move(s) \/ Choose(s) \/ Refresh(s) \/ Submit(s)
            \/ Again(s) \/ Show(s) \/ Reset(s)

\* It does not make the server take or store what was sent.
LEMMA TabStep ==
  ASSUME WorkbenchInv, NEW s \in Sessions, Alone(s)
  PROVE  /\ UNCHANGED reviewVars /\ OthersKeep(s) /\ Domains
         /\ post'[s] \in {"served", "saved"} => post'[s] = post[s] /\ posted'[s] = posted[s]
<1>1. CASE Decide(s) \/ Tick(s) \/ Move(s) \/ Choose(s) \/ Refresh(s) \/ Again(s)
  <2>1. UNCHANGED <<reviewVars, postVars>>
    BY <1>1 DEF Decide, Tick, Move, Choose, Refresh, Again
  <2> QED BY <2>1 DEF postVars, WorkbenchInv, OthersKeep, Domains
<1>2. CASE Submit(s)
  <2>1. \E q : posted' = [posted EXCEPT ![s] = q]
    BY <1>2 DEF Submit
  <2> QED BY <1>2, <2>1 DEF Submit, WorkbenchInv, OthersKeep, Domains
<1>3. CASE Show(s) \/ Reset(s)
  <2>1. \E p \in {"none", post[s]} : post' = [post EXCEPT ![s] = p]
    BY <1>3 DEF Show, Reset
  <2>2. UNCHANGED <<reviewVars, posted>>
    BY <1>3 DEF Show, Reset
  <2> QED BY <2>1, <2>2 DEF WorkbenchInv, OthersKeep, Domains
<1> QED
  BY <1>1, <1>2, <1>3 DEF Alone

\* Every step of the workbench is one of the review, or leaves its rows and
\* requests alone.
LEMMA WorkbenchSteps ==
  ASSUME WorkbenchInv, [WorkbenchNext]_benchVars PROVE [ReviewNext]_reviewVars
<1>1. ASSUME NEW s \in Sessions, Alone(s) PROVE UNCHANGED reviewVars
  BY <1>1, TabStep
<1>2. ASSUME NEW s \in Sessions, Serve(s) \/ Store(s)
      PROVE  FindReplay(s) \/ Insert(s) \/ Abandon(s) \/ UNCHANGED reviewVars
  BY <1>2 DEF Serve, Store
<1> QED
  BY <1>1, <1>2 DEF WorkbenchNext, ReviewNext, benchVars, Alone

LEMMA SavedStays ==
  ASSUME WorkbenchInv, [ReviewNext]_reviewVars, NEW t \in Sessions, post[t] = "saved"
  PROVE  SaysPosted(rows', t, posted[t])
<1>1. Says(rows, User[t], posted[t].case, posted[t].expected + 1, posted[t].decision)
  BY DEF WorkbenchInv, SavedIsStored, Says
<1>2. ReviewInv
  BY DEF WorkbenchInv
<1> QED
  BY <1>1, <1>2, RowsKeepSaying DEF SaysPosted

\* A step of one tab: what is to be shown of it, for the rest nothing changes.
LEMMA OneTab ==
  ASSUME WorkbenchInv, [ReviewNext]_reviewVars, NEW s \in Sessions, Domains, OthersKeep(s),
         \A t \in Sessions \ {s} : request'[t] = request[t],
         post'[s] = "served" => request'[s] = posted'[s],
         post'[s] = "saved" => SaysPosted(rows', s, posted'[s])
  PROVE  WorkbenchInv'
<1>1. ReviewInv'
  BY ReviewStep DEF WorkbenchInv
<1>2. Posted'
  BY DEF Posted, WorkbenchInv, OthersKeep
<1>3. \A t \in Sessions : post[t] = "saved" => SaysPosted(rows', t, posted[t])
  BY SavedStays
<1>4. \A t \in Sessions : post'[t] = "saved" => SaysPosted(rows', t, posted'[t])
  BY <1>3 DEF OthersKeep
<1> QED
  BY <1>1, <1>2, <1>4 DEF WorkbenchInv, SavedIsStored, Says, SaysPosted, Domains

\* What the server answers to a tab is heard by no other.
LEMMA Hears ==
  ASSUME WorkbenchInv, NEW s \in Sessions, NEW outcome, Answered(s, outcome)
  PROVE  /\ Domains /\ OthersKeep(s) /\ posted' = posted
         /\ post'[s] = outcome \/ (outcome = "conflict" /\ post'[s] = "none")
  BY DEF Answered, WorkbenchInv, Domains, OthersKeep

LEMMA ServeStep == ASSUME WorkbenchInv, NEW s \in Sessions, Serve(s) PROVE WorkbenchInv'
<1>1. CASE FindReplay(s) /\ request'[s] = posted[s] /\ Answered(s, "served")
  <2>1. [ReviewNext]_reviewVars /\ \A t \in Sessions \ {s} : request'[t] = request[t]
    BY <1>1 DEF FindReplay, ReviewNext, WorkbenchInv, ReviewInv, ReviewTypeOK
  <2>2. Domains /\ OthersKeep(s) /\ posted' = posted /\ post'[s] = "served"
    BY <1>1, Hears
  <2> QED BY <1>1, <2>1, <2>2, OneTab
<1>2. CASE UNCHANGED reviewVars /\ Answered(s, IF Replays(s) THEN "saved" ELSE "conflict")
  <2> DEFINE outcome == IF Replays(s) THEN "saved" ELSE "conflict"
  <2>1. [ReviewNext]_reviewVars /\ request' = request /\ rows' = rows
    BY <1>2 DEF reviewVars
  <2>2. Replays(s) => SaysPosted(rows, s, posted[s])
    BY DEF Replays, Says, SaysPosted
  <2>3. /\ Domains /\ OthersKeep(s) /\ posted' = posted
        /\ post'[s] = outcome \/ (outcome = "conflict" /\ post'[s] = "none")
    BY <1>2, Hears
  <2>4. post'[s] # "served" /\ (post'[s] = "saved" => Replays(s))
    BY <2>3
  <2> QED BY <2>1, <2>2, <2>3, <2>4, OneTab
<1>3. CASE UNCHANGED reviewVars /\ Answered(s, "none")
  <2>1. [ReviewNext]_reviewVars /\ request' = request
    BY <1>3 DEF reviewVars
  <2>2. Domains /\ OthersKeep(s) /\ post'[s] = "none"
    BY <1>3, Hears
  <2> QED BY <2>1, <2>2, OneTab
<1> QED
  BY <1>1, <1>2, <1>3 DEF Serve

LEMMA StoreStep == ASSUME WorkbenchInv, NEW s \in Sessions, Store(s) PROVE WorkbenchInv'
<1>1. [ReviewNext]_reviewVars /\ \A t \in Sessions \ {s} : request'[t] = request[t]
  BY DEF Store, Insert, Abandon, ReviewNext, WorkbenchInv, ReviewInv, ReviewTypeOK
<1>2. CASE Insert(s) /\ Answered(s, IF rows' # rows THEN "saved" ELSE "conflict")
  <2> DEFINE outcome == IF rows' # rows THEN "saved" ELSE "conflict"
             q == request[s]
             r == [case |-> q.case, user |-> User[s], revision |-> q.expected + 1,
                   decision |-> q.decision, key |-> q.key, schema |-> "v5", hashed |-> "v5"]
  <2>1. /\ Domains /\ OthersKeep(s) /\ posted' = posted
        /\ post'[s] = outcome \/ (outcome = "conflict" /\ post'[s] = "none")
    BY <1>2, Hears
  <2>2. post'[s] # "served" /\ (post'[s] = "saved" => rows' # rows)
    BY <2>1
  <2>3. ASSUME rows' # rows PROVE SaysPosted(rows', s, posted[s])
    <3>1. rows' = Append(rows, r)
      BY <1>2, <2>3 DEF Insert
    <3>2. /\ r.user = User[s] /\ r.case = posted[s].case /\ r.revision = posted[s].expected + 1
          /\ r.decision = posted[s].decision
      BY DEF WorkbenchInv, Posted, Store
    <3>3. rows \in Seq(Rows) /\ Len(rows) \in Nat
      BY RowsType DEF WorkbenchInv, ReviewInv, ReviewTypeOK
    <3> HIDE DEF r
    <3>4. Len(rows') = Len(rows) + 1 /\ rows'[Len(rows) + 1] = r
      BY <3>1, <3>3
    <3> QED BY <3>2, <3>3, <3>4 DEF Says, SaysPosted
  <2> QED BY <1>1, <2>1, <2>2, <2>3, OneTab
<1>3. CASE Answered(s, "none")
  <2>1. Domains /\ OthersKeep(s) /\ post'[s] = "none"
    BY <1>3, Hears
  <2> QED BY <1>1, <2>1, OneTab
<1> QED
  BY <1>2, <1>3 DEF Store

LEMMA WorkbenchStep ==
  ASSUME WorkbenchInv, [WorkbenchNext]_benchVars PROVE WorkbenchInv'
<1>1. ASSUME NEW s \in Sessions, Alone(s) PROVE WorkbenchInv'
  <2>1. /\ UNCHANGED reviewVars /\ OthersKeep(s) /\ Domains
        /\ post'[s] \in {"served", "saved"} => post'[s] = post[s] /\ posted'[s] = posted[s]
    BY <1>1, TabStep
  <2>2. [ReviewNext]_reviewVars /\ request' = request
    BY <2>1 DEF reviewVars
  <2>3. post'[s] = "served" => request'[s] = posted'[s]
    BY <2>1, <2>2 DEF WorkbenchInv, Posted
  <2>4. post'[s] = "saved" => SaysPosted(rows', s, posted'[s])
    BY <2>1, <2>2, SavedStays
  <2> QED BY <2>1, <2>2, <2>3, <2>4, OneTab
<1>2. CASE (Migrate \/ UNCHANGED reviewVars) /\ UNCHANGED tabVars
  <2>1. [ReviewNext]_reviewVars /\ request' = request
    BY <1>2 DEF ReviewNext, Migrate, reviewVars
  <2>2. ReviewInv'
    BY <2>1, ReviewStep DEF WorkbenchInv
  <2>3. \A t \in Sessions : post[t] = "saved" => SaysPosted(rows', t, posted[t])
    BY <2>1, SavedStays
  <2>4. post' = post /\ posted' = posted
    BY <1>2 DEF tabVars, postVars
  <2> QED BY <2>1, <2>2, <2>3, <2>4 DEF WorkbenchInv, Posted, SavedIsStored, Says, SaysPosted
<1> QED
  BY <1>1, <1>2, ServeStep, StoreStep DEF WorkbenchNext, benchVars, Alone

LEMMA WorkbenchStarts == WorkbenchInit => WorkbenchInv
  BY ReviewsInitially DEF WorkbenchInit, WorkbenchInv, Posted, SavedIsStored

LEMMA WorkbenchInductive == WorkbenchSpec => []WorkbenchInv
  BY WorkbenchStarts, WorkbenchStep, PTL DEF WorkbenchSpec

\* Tabs that race, retry and lose answers are sessions of CatalogReview: what
\* they do to its rows and requests, its transactions do (submitCatalog, Submit).
THEOREM TabsAreSessions == WorkbenchSpec => ReviewSpec
<1>1. WorkbenchInit => ReviewInit
  BY DEF WorkbenchInit
<1> QED
  BY <1>1, WorkbenchSteps, WorkbenchInductive, PTL DEF WorkbenchSpec, ReviewSpec

\* Whatever the tabs send again, revisions have no gaps and a key is applied
\* once (Append).
THEOREM TabsApplyOnce == WorkbenchSpec => []ReviewsApplyOnce
<1>1. WorkbenchInv => ReviewsApplyOnce
  BY DEF WorkbenchInv, ReviewInv
<1> QED
  BY <1>1, WorkbenchInductive, PTL

\* What a tab reports as saved is stored as it was sent, although the draft
\* can be changed, and another case shown, while the post is on its way
\* (submitCatalog, Append).
THEOREM SavedIsWhatWasSent == WorkbenchSpec => []SavedIsStored
<1>1. WorkbenchInv => SavedIsStored
  BY DEF WorkbenchInv
<1> QED
  BY <1>1, WorkbenchInductive, PTL
=============================================================================
