-------------------------- MODULE DiagnosticRunProofs --------------------------
(***************************************************************************)
(* Proofs about DiagnosticRun, for any number of requests and commands and *)
(* any budget.                                                             *)
(*                                                                         *)
(* What a request holds is old; what makes it harmless is the comparison   *)
(* of the version.  Resuming says what a resume checked before it started  *)
(* its analysis.  Once says that a command that was applied left a version *)
(* behind that it does not expect any more: the swap of its replay cannot  *)
(* succeed.  Pauses is the account of the deadline.                        *)
(***************************************************************************)
EXTENDS DiagnosticRun, TLAPS

\* Before the run exists nothing of it does.
Exists ==
  /\ run.state = "none" => /\ run.version = 0 /\ run.used = 0 /\ waited = 0
                           /\ \A c \in Commands : sent[c] = 0
                           /\ \A r \in Requests : pc[r] = "idle"
  /\ run.state # "none" => run.version >= 1
  /\ run.state = "RECEIVED" => run.used = 0

\* What a cancellation and a resume saw when they were let through.
Stopping == \A r \in Requests : pc[r] = "cancel" => seen[r].state \in Active \cup {"WAITING_USER"}

Resuming == \A r \in Requests :
  /\ kind[r] = "resume" => cmd[r] \in Commands /\ sent[cmd[r]] > 0
  /\ pc[r] = "resume" => block[r] = 0
  /\ pc[r] \in {"analyze", "resume"} /\ block[r] = 0 =>
       kind[r] = "resume" /\ seen[r].state = "WAITING_USER" /\ seen[r].version = sent[cmd[r]]

\* A command that was applied expects a version that is gone.
Once == \A c \in Commands :
  /\ applied[c] <= 1
  /\ applied[c] > 0 => sent[c] > 0 /\ run.version > sent[c]

\* The deadline counts the pauses, the present one up to its beginning.
Pauses ==
  /\ run.updated <= now
  /\ run.state \in Active => run.deadline = run.started + Timeout + waited
  /\ run.state = "WAITING_USER" => run.deadline + (now - run.updated) = run.started + Timeout + waited

IInv == TypeOK /\ Exists /\ Stopping /\ Resuming /\ Once /\ Pauses /\ AckedIsOver

-----------------------------------------------------------------------------
RunType == [state: Rules!States \cup {"none"}, version: Nat, gen: Nat, used: 0..MaxIterations,
            deadline: Nat, started: 0..MaxTime, updated: 0..MaxTime, last: Commands \cup {None}]
SeenType == [state: Rules!States \cup {"none"}, version: Nat, last: Commands \cup {None}, gen: Nat]

\* The initial state satisfies the invariant.
LEMMA IInit == Init => IInv
<1> SUFFICES ASSUME Init PROVE IInv
  OBVIOUS
<1> USE DRAssumption DEF Init
<1>1. TypeOK
  <2>1. run \in RunType
    BY DEF NoRun, RunType
  <2>2. NothingSeen \in SeenType
    BY DEF NothingSeen, SeenType
  <2>3. pc \in [Requests -> Steps]
    BY DEF Steps
  <2>4. seen \in [Requests -> SeenType]
    BY <2>2
  <2>5. gone \in [Requests -> BOOLEAN] /\ acked \in BOOLEAN
    OBVIOUS
  <2> QED BY <2>1, <2>3, <2>4, <2>5 DEF TypeOK, RunType, SeenType
<1>2. Exists /\ Pauses /\ AckedIsOver
  BY DEF Exists, Pauses, AckedIsOver, NoRun, Active
<1>3. Stopping /\ Resuming /\ Once
  BY DEF Stopping, Resuming, Once
<1> QED BY <1>1, <1>2, <1>3 DEF IInv

-----------------------------------------------------------------------------
\* The type invariant in parts: what a request holds, the row, the rest.
LocalOK ==
  /\ running \in Requests \cup {None}
  /\ pc \in [Requests -> Steps]
  /\ kind \in [Requests -> {"none", "start", "resume", "cancel"}]
  /\ cmd \in [Requests -> Commands \cup {None}]
  /\ seen \in [Requests -> SeenType]
  /\ own \in [Requests -> Nat]
  /\ block \in [Requests -> 0..4]
  /\ gone \in [Requests -> BOOLEAN]
RowOK  == run \in RunType /\ contexts \in Nat /\ applied \in [Commands -> Nat] /\ acked \in BOOLEAN
WorldOK == now \in 0..MaxTime /\ waited \in Nat /\ faults \in 0..MaxFaults
SentOK == sent \in [Commands -> Nat]

LEMMA TypeParts == TypeOK <=> LocalOK /\ RowOK /\ WorldOK /\ SentOK
BY DEF TypeOK, LocalOK, RowOK, WorldOK, SentOK, RunType, SeenType

\* A request that is answered holds nothing.
LEMMA ReturnLocal == ASSUME LocalOK, NEW r \in Requests, Return(r) PROVE LocalOK'
<1>1. NothingSeen \in SeenType
  BY DRAssumption DEF NothingSeen, SeenType
<1>2. gone' \in [Requests -> BOOLEAN]
  BY DEF Return, LocalOK
<1>3. pc' \in [Requests -> Steps]
  BY DEF Return, LocalOK, Goto, Steps
<1> QED BY <1>1, <1>2, <1>3 DEF Return, LocalOK

\* So does one that is acknowledged.
LEMMA AcknowledgeLocal == ASSUME LocalOK, NEW r \in Requests, Acknowledge(r) PROVE LocalOK'
<1>1. NothingSeen \in SeenType
  BY DRAssumption DEF NothingSeen, SeenType
<1>2. gone' \in [Requests -> BOOLEAN]
  BY DEF Acknowledge, LocalOK
<1>3. pc' \in [Requests -> Steps]
  BY DEF Acknowledge, LocalOK, Goto, Steps
<1>4. running' \in Requests \cup {None}
  BY DEF Acknowledge, LocalOK
<1>5. /\ kind' \in [Requests -> {"none", "start", "resume", "cancel"}]
      /\ cmd' \in [Requests -> Commands \cup {None}]
      /\ seen' \in [Requests -> SeenType]
  BY <1>1 DEF Acknowledge, LocalOK
<1>6. own' \in [Requests -> Nat] /\ block' \in [Requests -> 0..4]
  BY DEF Acknowledge, LocalOK
<1> QED BY <1>2, <1>3, <1>4, <1>5, <1>6 DEF LocalOK

\* What a request reads has its type.
LEMMA SeeRun ==
  ASSUME LocalOK, RowOK, NEW r \in Requests, NEW gen \in Nat, See(r, run, gen)
  PROVE  seen' \in [Requests -> SeenType]
BY DEF LocalOK, RowOK, See, RunType, SeenType

LEMMA SeeAgain ==
  ASSUME LocalOK, NEW r \in Requests, NEW gen \in Nat, See(r, seen[r], gen)
  PROVE  seen' \in [Requests -> SeenType]
BY DEF LocalOK, See, SeenType

\* Every step keeps the requests' variables in their types.
LEMMA LocalStep == ASSUME LocalOK, RowOK, SentOK, [Next]_vars PROVE LocalOK'
<1> USE DRAssumption
<1>g. run.gen \in Nat
  BY DEF RowOK, RunType
<1>1. ASSUME NEW r \in Requests, Handle(r) PROVE LocalOK'
  <2> USE <1>1
  <2>s. seen[r].gen \in Nat
    BY DEF LocalOK, SeenType
  <2>r. CASE Return(r) \/ Acknowledge(r)
    BY <2>r, ReturnLocal, AcknowledgeLocal
  <2>1. CASE GetOwned(r)
    <3>1. seen' \in [Requests -> SeenType]
      BY <2>1, <2>s, SeeRun DEF GetOwned
    <3> QED BY <2>1, <3>1 DEF GetOwned, LocalOK, Goto, Steps
  <2>2. CASE LatestCheckpoint(r) /\ ~Return(r)
    <3>1. seen' \in [Requests -> SeenType]
      BY <2>2, <1>g, SeeAgain DEF LatestCheckpoint
    <3> QED BY <2>2, <1>g, <3>1 DEF LatestCheckpoint, Execute, LocalOK, Goto, Steps
  <2>3. CASE NextBlock(r)
    <3>1. seen' \in [Requests -> SeenType]
      BY <2>3, <1>g, SeeAgain DEF NextBlock
    <3> QED BY <2>3, <3>1 DEF NextBlock, LocalOK, Goto, Steps
  <2>4. CASE ResumeChecked(r) /\ ~Return(r)
    <3>1. seen' \in [Requests -> SeenType]
      BY <2>4, <1>g, SeeAgain DEF ResumeChecked
    <3> QED BY <2>4, <3>1 DEF ResumeChecked, LocalOK, Goto, Steps
  <2>5. CASE Analyze(r) \/ AnalysisStops(r)
    BY <2>5, <2>s DEF Analyze, AnalysisStops, LocalOK, Goto, Steps
  <2>6. CASE AdvanceStarts(r) /\ ~Return(r)
    BY <2>6 DEF AdvanceStarts, LocalOK, Goto, Steps
  <2>7. CASE Advance(r) /\ ~Return(r)
    <3>1. PICK b \in BlockOf(r) : block' = [block EXCEPT ![r] = b + 1] /\ b # 4
      BY <2>7 DEF Advance
    <3>2. b + 1 \in 0..4
      BY <3>1 DEF BlockOf, LocalOK
    <3> QED BY <2>7, <3>1, <3>2 DEF Advance, LocalOK, Goto, Steps
  <2>8. CASE ResumeAdvance(r) \/ (ResumeReplayed(r) /\ ~Return(r))
    BY <2>8 DEF ResumeAdvance, ResumeReplayed, LocalOK, Goto, Steps
  <2>9. CASE StopChecked(r) /\ ~Acknowledge(r)
    <3>1. seen' \in [Requests -> SeenType]
      BY <2>9, <1>g, SeeRun DEF StopChecked
    <3> QED BY <2>9, <3>1 DEF StopChecked, LocalOK, Goto, Steps
  <2>10. CASE AdvanceRefused(r) \/ ContextError(r) \/ CancelAdvance(r) \/ CancelConflict(r)
    BY <2>10, ReturnLocal, AcknowledgeLocal DEF AdvanceRefused, ContextError, CancelAdvance, CancelConflict
  <2> QED BY <2>r, <2>1, <2>2, <2>3, <2>4, <2>5, <2>6, <2>7, <2>8, <2>9, <2>10 DEF Handle
<1>2. ASSUME NEW r \in Requests, Arrive(r) PROVE LocalOK'
  <2>1. CASE Start(r) \/ Cancel(r)
    BY <2>1 DEF Start, Cancel, Receive, LocalOK, Goto, Steps
  <2>2. ASSUME NEW c \in Commands, Resume(r, c) PROVE LocalOK'
    BY <2>2 DEF Resume, Receive, LocalOK, Goto, Steps
  <2> QED BY <1>2, <2>1, <2>2 DEF Arrive
<1>3. ASSUME NEW r \in Requests, Disconnect(r) PROVE LocalOK'
  <2>1. gone' \in [Requests -> BOOLEAN]
    BY <1>3 DEF Disconnect, LocalOK
  <2> QED BY <1>3, <2>1 DEF Disconnect, LocalOK
<1>4. ASSUME NEW r \in Requests, RequestFails(r) PROVE LocalOK'
  BY <1>4, ReturnLocal DEF RequestFails
<1>5. CASE Crash
  <2>1. NothingSeen \in SeenType /\ "idle" \in Steps
    BY DEF NothingSeen, SeenType, Steps
  <2>2. gone' \in [Requests -> BOOLEAN]
    BY <1>5 DEF Crash
  <2> QED BY <1>5, <2>1, <2>2 DEF Crash, LocalOK
<1>6. CASE Tick \/ UNCHANGED vars
  BY <1>6 DEF Tick, vars, local, LocalOK
<1> QED BY <1>1, <1>2, <1>3, <1>4, <1>5, <1>6 DEF Next

-----------------------------------------------------------------------------
\* The steps that move the run, and what a swap that succeeds was based on.
Moves == \E r \in Requests : Start(r) \/ Advance(r) \/ ResumeAdvance(r) \/ CancelAdvance(r)

\* Every other step leaves the row as it is.
LEMMA RowChange ==
  ASSUME [Next]_vars, ~Moves
  PROVE  UNCHANGED <<run, contexts, applied>>
<1>1. ASSUME NEW r \in Requests, Handle(r) PROVE UNCHANGED <<run, contexts, applied>>
  BY <1>1 DEF Handle, Moves, row, GetOwned, LatestCheckpoint, NextBlock, ResumeChecked, Analyze,
     AnalysisStops, AdvanceStarts, AdvanceRefused, ResumeReplayed, ContextError, StopChecked,
     CancelConflict
<1>2. ASSUME NEW r \in Requests, Arrive(r) \/ Disconnect(r) \/ RequestFails(r)
      PROVE  UNCHANGED <<run, contexts, applied>>
  BY <1>2 DEF Arrive, Moves, row, Cancel, Resume, Disconnect, RequestFails
<1>3. CASE Crash \/ Tick \/ UNCHANGED vars
  BY <1>3 DEF Crash, Tick, vars, row
<1> QED BY <1>1, <1>2, <1>3 DEF Next

\* Only a request that is handled is acknowledged.
LEMMA AckedChange ==
  ASSUME [Next]_vars
  PROVE  acked' = acked \/ \E r \in Requests : Handle(r) /\ Acknowledge(r)
<1>1. ASSUME NEW r \in Requests, Handle(r) PROVE acked' = acked \/ Acknowledge(r)
  <2>1. CASE \/ GetOwned(r) \/ LatestCheckpoint(r) \/ NextBlock(r) \/ ResumeChecked(r)
             \/ Analyze(r) \/ AnalysisStops(r)
    BY <2>1 DEF row, world, GetOwned, LatestCheckpoint, NextBlock, ResumeChecked, Analyze, AnalysisStops
  <2>2. CASE AdvanceStarts(r) \/ Advance(r) \/ AdvanceRefused(r)
    BY <2>2 DEF row, world, AdvanceStarts, Advance, AdvanceRefused
  <2>3. CASE ResumeAdvance(r) \/ ResumeReplayed(r) \/ ContextError(r)
    BY <2>3 DEF row, world, ResumeAdvance, ResumeReplayed, ContextError
  <2>4. CASE StopChecked(r) \/ CancelAdvance(r) \/ CancelConflict(r)
    BY <2>4 DEF world, StopChecked, CancelAdvance, CancelConflict
  <2> QED BY <1>1, <2>1, <2>2, <2>3, <2>4 DEF Handle
<1>2. ASSUME NEW r \in Requests, Arrive(r) \/ Disconnect(r) \/ RequestFails(r) PROVE acked' = acked
  BY <1>2 DEF row, world, Receive, Arrive, Start, Resume, Cancel, Disconnect, RequestFails
<1>3. CASE Crash \/ Tick \/ UNCHANGED vars
  BY <1>3 DEF row, world, vars, Crash, Tick
<1> QED BY <1>1, <1>2, <1>3 DEF Next

\* Requests take no time.
LEMMA WorldChange ==
  ASSUME [Next]_vars
  PROVE  Tick \/ UNCHANGED world \/ (UNCHANGED <<now, waited>> /\ faults < MaxFaults /\ faults' = faults + 1)
<1>1. ASSUME NEW r \in Requests, Handle(r) PROVE UNCHANGED world
  <2>1. CASE \/ GetOwned(r) \/ LatestCheckpoint(r) \/ NextBlock(r) \/ ResumeChecked(r)
             \/ Analyze(r) \/ AnalysisStops(r)
    BY <2>1 DEF world, GetOwned, LatestCheckpoint, NextBlock, ResumeChecked, Analyze, AnalysisStops
  <2>2. CASE AdvanceStarts(r) \/ Advance(r) \/ AdvanceRefused(r)
    BY <2>2 DEF world, AdvanceStarts, Advance, AdvanceRefused
  <2>3. CASE ResumeAdvance(r) \/ ResumeReplayed(r) \/ ContextError(r)
    BY <2>3 DEF world, ResumeAdvance, ResumeReplayed, ContextError
  <2>4. CASE StopChecked(r) \/ CancelAdvance(r) \/ CancelConflict(r)
    BY <2>4 DEF world, StopChecked, CancelAdvance, CancelConflict
  <2> QED BY <1>1, <2>1, <2>2, <2>3, <2>4 DEF Handle
<1>2. ASSUME NEW r \in Requests, Arrive(r) PROVE UNCHANGED world
  BY <1>2 DEF world, Receive, Arrive, Start, Resume, Cancel
<1>3. CASE Crash \/ \E r \in Requests : Disconnect(r) \/ RequestFails(r)
  BY <1>3 DEF Crash, Disconnect, RequestFails
<1>4. CASE UNCHANGED vars
  BY <1>4 DEF vars, world
<1> QED BY <1>1, <1>2, <1>3, <1>4 DEF Next

\* A command keeps the version it was first sent with.
LEMMA SentChange ==
  ASSUME [Next]_vars
  PROVE  sent' = sent \/ \E r \in Requests, c \in Commands : Resume(r, c)
<1>1. ASSUME NEW r \in Requests, Handle(r) PROVE sent' = sent
  <2>1. CASE \/ GetOwned(r) \/ LatestCheckpoint(r) \/ NextBlock(r) \/ ResumeChecked(r)
             \/ Analyze(r) \/ AnalysisStops(r)
    BY <2>1 DEF GetOwned, LatestCheckpoint, NextBlock, ResumeChecked, Analyze, AnalysisStops
  <2>2. CASE AdvanceStarts(r) \/ Advance(r) \/ AdvanceRefused(r)
    BY <2>2 DEF AdvanceStarts, Advance, AdvanceRefused
  <2>3. CASE ResumeAdvance(r) \/ ResumeReplayed(r) \/ ContextError(r)
    BY <2>3 DEF ResumeAdvance, ResumeReplayed, ContextError
  <2>4. CASE StopChecked(r) \/ CancelAdvance(r) \/ CancelConflict(r)
    BY <2>4 DEF StopChecked, CancelAdvance, CancelConflict
  <2> QED BY <1>1, <2>1, <2>2, <2>3, <2>4 DEF Handle
<1>2. ASSUME NEW r \in Requests, Arrive(r) PROVE sent' = sent \/ \E c \in Commands : Resume(r, c)
  BY <1>2 DEF Arrive, Start, Cancel
<1>3. CASE Crash \/ Tick \/ \E r \in Requests : Disconnect(r) \/ RequestFails(r)
  BY <1>3 DEF Crash, Tick, Disconnect, RequestFails
<1>4. CASE UNCHANGED vars
  BY <1>4 DEF vars
<1> QED BY <1>1, <1>2, <1>3, <1>4 DEF Next

\* How a run starts, is advanced, resumed and cancelled, as far as its row
\* is concerned.
LEMMA StartMoves ==
  ASSUME TypeOK, NEW r \in Requests, Start(r), run.state = "none"
  PROVE  /\ run'.state = "RECEIVED" /\ run'.version = 1 /\ run'.used = 0
         /\ run'.deadline = now + Timeout /\ run'.started = now /\ run'.updated = now
         /\ run' \in RunType
<1>1. run' = [state |-> "RECEIVED", version |-> 1, gen |-> 0, used |-> 0,
              deadline |-> now + Timeout, started |-> now, updated |-> now, last |-> None]
  BY DEF Start, NoRun
<1> QED BY <1>1, DRAssumption DEF TypeOK, RunType, Rules!States

LEMMA AdvanceMoves ==
  ASSUME TypeOK, NEW r \in Requests, Advance(r)
  PROVE  /\ run.state \in Active /\ Rules!CanTransition(run.state, run'.state)
         /\ run'.version = run.version + 1 /\ run'.updated = now
         /\ run'.deadline = run.deadline /\ run'.started = run.started /\ run'.last = run.last
         /\ run'.state \in Active => run.state \in Active
         /\ run'.state # "RECEIVED" /\ run'.state # "none"
         /\ (run.state = "RECEIVED" => run.used = 0) => run'.used \in run.used..MaxIterations
         /\ run'.gen = own[r]
<1> USE DRAssumption
<1>1. PICK b \in BlockOf(r), to \in Targets(seen[r].state) : Move(to, own[r], Delta(seen[r].state))
  BY DEF Advance
<1>2. seen[r].state \in Active /\ run.state = seen[r].state
  <2>1. run.state = seen[r].state
    BY DEF Advance, Current
  <2>2. b \in 1..4 /\ Blocks[b] = seen[r].state
    BY DEF BlockOf, TypeOK
  <2>3. Blocks[b] \in Active
    BY <2>2 DEF Blocks, Active
  <2> QED BY <2>1, <2>2, <2>3
<1>3. run.used \in 0..MaxIterations /\ run.version \in Nat
  BY DEF TypeOK
<1> DEFINE d == Delta(seen[r].state)
<1>4. run' = [run EXCEPT !.state = IF Overrun(d) THEN "BUDGET_EXCEEDED" ELSE to,
                     !.version = run.version + 1, !.gen = own[r],
                     !.used = IF Overrun(d) THEN run.used ELSE run.used + d,
                     !.updated = now]
  BY <1>1 DEF Move
<1>5. /\ run'.state = IF Overrun(d) THEN "BUDGET_EXCEEDED" ELSE to
      /\ run'.used = IF Overrun(d) THEN run.used ELSE run.used + d
      /\ run'.version = run.version + 1 /\ run'.updated = now /\ run'.gen = own[r]
      /\ run'.deadline = run.deadline /\ run'.started = run.started /\ run'.last = run.last
  BY <1>4 DEF TypeOK
<1>6. Rules!CanTransition(run.state, run'.state) /\ run'.state # "RECEIVED" /\ run'.state # "none"
  <2>1. CASE Overrun(d)
    BY <2>1, <1>5 DEF Overrun, Rules!CanTransition, Rules!Allowed, Rules!States
  <2>2. CASE ~Overrun(d)
    BY <2>2, <1>1, <1>2, <1>5 DEF Targets, Active, Rules!CanTransition, Rules!Allowed, Rules!States
  <2> QED BY <2>1, <2>2
<1>7. ASSUME run.state = "RECEIVED" => run.used = 0
      PROVE  run'.used \in run.used..MaxIterations
  <2>1. d \in 0..1 /\ (d = 1 => run.state \in {"RECEIVED", "RUNNING"})
    BY <1>2 DEF Delta
  <2>2. CASE Overrun(d)
    BY <2>2, <1>3, <1>5
  <2>3. CASE ~Overrun(d)
    BY <2>3, <2>1, <1>3, <1>5, <1>7 DEF Overrun
  <2> QED BY <2>2, <2>3
<1> QED BY <1>2, <1>5, <1>6, <1>7

LEMMA ResumeMoves ==
  ASSUME TypeOK, Resuming, NEW r \in Requests, ResumeAdvance(r)
  PROVE  /\ run.state = "WAITING_USER" /\ run'.state = "CONTEXT_READY"
         /\ run.version = sent[cmd[r]] /\ cmd[r] \in Commands /\ sent[cmd[r]] > 0
         /\ run'.version = run.version + 1 /\ run'.updated = now
         /\ run'.deadline = run.deadline + (now - run.updated) /\ run'.started = run.started
         /\ run'.used = run.used + 1 /\ run.used < MaxIterations
         /\ run'.last = cmd[r] /\ run'.gen = own[r]
BY DEF ResumeAdvance, Resuming, Current, Extension, TypeOK

LEMMA CancelMoves ==
  ASSUME TypeOK, Stopping, NEW r \in Requests, CancelAdvance(r)
  PROVE  /\ run.state \in Active \cup {"WAITING_USER"}
         /\ run'.state \in {"CANCELLED", "BUDGET_EXCEEDED"}
         /\ Rules!CanTransition(run.state, run'.state)
         /\ run'.version = run.version + 1 /\ run'.updated = now /\ run'.used = run.used
         /\ run'.deadline = run.deadline /\ run'.started = run.started /\ run'.last = run.last
         /\ run'.gen = run.gen
<1>1. run.state \in Active \cup {"WAITING_USER"}
  BY DEF CancelAdvance, Stopping, Current
<1>2. run' = [run EXCEPT !.state = IF Overrun(0) THEN "BUDGET_EXCEEDED" ELSE "CANCELLED",
                     !.version = run.version + 1, !.gen = run.gen,
                     !.used = IF Overrun(0) THEN run.used ELSE run.used + 0,
                     !.updated = now]
  BY DEF CancelAdvance, Move
<1>3. /\ run'.state = IF Overrun(0) THEN "BUDGET_EXCEEDED" ELSE "CANCELLED"
      /\ run'.version = run.version + 1 /\ run'.updated = now /\ run'.used = run.used
      /\ run'.deadline = run.deadline /\ run'.started = run.started /\ run'.last = run.last
      /\ run'.gen = run.gen
  BY <1>2 DEF TypeOK
<1>4. Rules!CanTransition(run.state, run'.state)
  BY <1>1, <1>3 DEF Overrun, Active, Rules!CanTransition, Rules!Allowed, Rules!States
<1> QED BY <1>1, <1>3, <1>4

-----------------------------------------------------------------------------
\* Every step keeps the row in its type.
LEMMA RowStep == ASSUME TypeOK, Exists, Stopping, Resuming, Pauses, [Next]_vars PROVE RowOK'
<1> USE DRAssumption
<1>t. RowOK /\ LocalOK /\ WorldOK /\ SentOK
  BY TypeParts
<1>1. acked' \in BOOLEAN
  <2>1. CASE acked' = acked
    BY <2>1, <1>t DEF RowOK
  <2>2. CASE \E r \in Requests : Acknowledge(r)
    BY <2>2 DEF Acknowledge
  <2> QED BY <2>1, <2>2, AckedChange
<1>2. CASE ~Moves
  BY <1>1, <1>2, <1>t, RowChange DEF RowOK
<1>3. ASSUME NEW r \in Requests, Start(r) PROVE RowOK'
  <2>1. run' \in RunType
    BY <1>3, <1>t, StartMoves DEF Start, RowOK
  <2>2. UNCHANGED <<contexts, applied>>
    BY <1>3 DEF Start
  <2> QED BY <2>1, <2>2, <1>1, <1>t DEF RowOK
<1>4. ASSUME NEW r \in Requests, Advance(r) PROVE RowOK'
  <2>1. PICK b \in BlockOf(r), to \in Targets(seen[r].state) : Move(to, own[r], Delta(seen[r].state))
    BY <1>4 DEF Advance
  <2>a. Rules!CanTransition(run.state, run'.state) /\ run'.used \in run.used..MaxIterations
    BY <1>4, AdvanceMoves DEF Exists
  <2>b. run.used \in 0..MaxIterations
    BY <1>t DEF RowOK, RunType
  <2>2. run'.state \in Rules!States /\ run'.used \in 0..MaxIterations
    BY <2>a, <2>b DEF Rules!CanTransition, Rules!Allowed, Rules!States
  <2>3. run' = [run EXCEPT !.state = run'.state, !.version = run.version + 1, !.gen = own[r],
                           !.used = run'.used, !.updated = now]
    BY <2>1, <1>t DEF Move, RowOK, RunType
  <2>4. own[r] \in Nat /\ run.version + 1 \in Nat /\ now \in 0..MaxTime
    BY <1>t DEF LocalOK, RowOK, WorldOK, RunType
  <2>5. run' \in RunType
    BY <2>2, <2>3, <2>4, <1>t DEF RowOK, RunType
  <2>6. contexts' \in Nat /\ applied' = applied
    BY <1>4, <1>t DEF Advance, RowOK
  <2> QED BY <2>5, <2>6, <1>1, <1>t DEF RowOK
<1>5. ASSUME NEW r \in Requests, ResumeAdvance(r) PROVE RowOK'
  <2>1. cmd[r] \in Commands /\ run.used + 1 \in 0..MaxIterations
    BY <1>5, <1>t, ResumeMoves DEF RowOK, RunType
  <2>2. run.version + 1 \in Nat /\ own[r] \in Nat /\ now \in 0..MaxTime /\ "CONTEXT_READY" \in Rules!States
    BY <1>t DEF LocalOK, RowOK, WorldOK, RunType, Rules!States
  <2>3. Extension \in Nat
    BY <1>t DEF Extension, Pauses, RowOK, RunType, WorldOK
  <2>4. run' \in RunType
    BY <1>5, <2>1, <2>2, <2>3, <1>t DEF ResumeAdvance, RowOK, RunType
  <2>5. contexts' \in Nat /\ applied' \in [Commands -> Nat]
    BY <1>5, <2>1, <1>t DEF ResumeAdvance, RowOK
  <2> QED BY <2>4, <2>5, <1>1 DEF RowOK
<1>6. ASSUME NEW r \in Requests, CancelAdvance(r) PROVE RowOK'
  <2>2. PICK to \in Rules!States :
          run' = [run EXCEPT !.state = to, !.version = run.version + 1, !.gen = run.gen,
                             !.used = run.used, !.updated = now]
    <3>1. run.used + 0 = run.used
      BY <1>t DEF RowOK, RunType
    <3>2. CASE Overrun(0)
      BY <1>6, <3>2 DEF CancelAdvance, Move, Rules!States
    <3>3. CASE ~Overrun(0)
      BY <1>6, <3>1, <3>3 DEF CancelAdvance, Move, Rules!States
    <3> QED BY <3>2, <3>3
  <2>3. run' \in RunType
    <3>1. run.version + 1 \in Nat /\ now \in 0..MaxTime
      BY <1>t DEF RowOK, WorldOK, RunType
    <3> QED BY <2>2, <3>1, <1>t DEF RowOK, RunType
  <2> QED BY <1>6, <2>3, <1>1, <1>t DEF CancelAdvance, RowOK
<1> QED BY <1>2, <1>3, <1>4, <1>5, <1>6 DEF Moves

\* Every step keeps every variable in its type.
LEMMA TypeStep == ASSUME TypeOK, Exists, Stopping, Resuming, Pauses, [Next]_vars PROVE TypeOK'
<1>t. RowOK /\ LocalOK /\ WorldOK /\ SentOK
  BY TypeParts
<1>1. LocalOK' /\ RowOK'
  BY <1>t, LocalStep, RowStep
<1>2. SentOK'
  <2>1. CASE UNCHANGED sent
    BY <2>1, <1>t DEF SentOK
  <2>2. ASSUME NEW r \in Requests, NEW c \in Commands, Resume(r, c) PROVE SentOK'
    BY <2>2, <1>t DEF Resume, SentOK, RowOK, RunType
  <2> QED BY <2>1, <2>2, SentChange
<1>3. WorldOK'
  <2>1. CASE UNCHANGED world
    BY <2>1, <1>t DEF WorldOK, world
  <2>2. CASE Tick
    BY <2>2, <1>t, DRAssumption DEF Tick, WorldOK
  <2>3. CASE UNCHANGED <<now, waited>> /\ faults < MaxFaults /\ faults' = faults + 1
    BY <2>3, <1>t, DRAssumption DEF WorldOK
  <2> QED BY <2>1, <2>2, <2>3, WorldChange
<1>4. LocalOK' /\ RowOK' /\ WorldOK' /\ SentOK' => TypeOK'
  BY DEF TypeOK, LocalOK, RowOK, WorldOK, SentOK, RunType, SeenType
<1> QED BY <1>1, <1>2, <1>3, <1>4

-----------------------------------------------------------------------------
\* Until the run exists there is nothing of it.
LEMMA ExistsStep == ASSUME TypeOK, Exists, Stopping, Resuming, [Next]_vars PROVE Exists'
<1>1. CASE Moves
  <2>1. ASSUME NEW r \in Requests, Start(r) PROVE Exists'
    <3>1. CASE run.state = "none"
      BY <2>1, <3>1, StartMoves DEF Exists
    <3>2. CASE run.state # "none"
      BY <2>1, <3>2 DEF Start, Exists
    <3> QED BY <3>1, <3>2
  <2>2. ASSUME NEW r \in Requests, Advance(r) PROVE Exists'
    BY <2>2, AdvanceMoves DEF Exists, TypeOK
  <2>3. ASSUME NEW r \in Requests, ResumeAdvance(r) PROVE Exists'
    BY <2>3, ResumeMoves DEF Exists, TypeOK
  <2>4. ASSUME NEW r \in Requests, CancelAdvance(r) PROVE Exists'
    BY <2>4, CancelMoves DEF Exists, TypeOK
  <2> QED BY <1>1, <2>1, <2>2, <2>3, <2>4 DEF Moves
<1>2. CASE ~Moves
  <2>1. run' = run
    BY <1>2, RowChange
  <2>2. run.state = "none" => waited' = waited /\ sent' = sent /\ \A r \in Requests : pc'[r] = "idle"
    <3> SUFFICES ASSUME run.state = "none"
                 PROVE  waited' = waited /\ sent' = sent /\ \A r \in Requests : pc'[r] = "idle"
      OBVIOUS
    <3>1. /\ \A c \in Commands : sent[c] = 0
          /\ \A r \in Requests : pc[r] = "idle"
      BY DEF Exists
    <3>2. ASSUME NEW r \in Requests PROVE ~Handle(r) /\ ~Disconnect(r) /\ ~RequestFails(r)
      BY <3>1 DEF Handle, GetOwned, LatestCheckpoint, NextBlock, ResumeChecked, Analyze, AnalysisStops,
         AdvanceStarts, Advance, AdvanceRefused, ResumeAdvance, ResumeReplayed, ContextError,
         StopChecked, CancelAdvance, CancelConflict, Disconnect, RequestFails
    <3>3. ASSUME NEW r \in Requests PROVE ~Arrive(r)
      BY <1>2, <3>1 DEF Arrive, Moves, Cancel, Resume
    <3>4. ~Crash
      BY <3>1 DEF Crash
    <3>5. CASE Tick \/ UNCHANGED vars
      BY <3>1, <3>5 DEF Tick, local, vars
    <3> QED BY <3>2, <3>3, <3>4, <3>5 DEF Next
  <2> QED BY <2>1, <2>2 DEF Exists
<1> QED BY <1>1, <1>2

\* A handler changes what its own request holds, and no other's.
LEMMA OthersKeep ==
  ASSUME LocalOK, NEW r \in Requests, Handle(r), NEW q \in Requests, q # r
  PROVE  /\ pc'[q] = pc[q] /\ kind'[q] = kind[q] /\ cmd'[q] = cmd[q]
         /\ seen'[q] = seen[q] /\ block'[q] = block[q]
<1>1. CASE Return(r) \/ Acknowledge(r)
  BY <1>1 DEF LocalOK, Return, Acknowledge, Goto
<1>2. CASE GetOwned(r) \/ NextBlock(r) \/ Analyze(r) \/ AnalysisStops(r)
  BY <1>2 DEF LocalOK, GetOwned, NextBlock, Analyze, AnalysisStops, See, Goto
<1>3. CASE (LatestCheckpoint(r) \/ ResumeChecked(r) \/ StopChecked(r)) /\ ~(Return(r) \/ Acknowledge(r))
  BY <1>3 DEF LocalOK, LatestCheckpoint, Execute, ResumeChecked, StopChecked, See, Goto
<1>4. CASE (AdvanceStarts(r) \/ Advance(r)) /\ ~Return(r)
  BY <1>4 DEF LocalOK, AdvanceStarts, Advance, Goto
<1>5. CASE (ResumeAdvance(r) \/ ResumeReplayed(r)) /\ ~Return(r)
  BY <1>5 DEF LocalOK, ResumeAdvance, ResumeReplayed, Goto
<1>6. CASE AdvanceRefused(r) \/ ContextError(r) \/ CancelAdvance(r) \/ CancelConflict(r)
  BY <1>1, <1>6 DEF AdvanceRefused, ContextError, CancelAdvance, CancelConflict
<1> QED BY <1>1, <1>2, <1>3, <1>4, <1>5, <1>6 DEF Handle

\* A cancellation is let through only to a run that is not over.
LEMMA StoppingStep == ASSUME TypeOK, Exists, Stopping, [Next]_vars PROVE Stopping'
<1> SUFFICES ASSUME NEW q \in Requests, pc'[q] = "cancel"
             PROVE  seen'[q].state \in Active \cup {"WAITING_USER"}
  BY DEF Stopping
<1>t. pc \in [Requests -> Steps] /\ seen \in [Requests -> SeenType]
  BY DEF TypeOK, SeenType
<1>1. ASSUME NEW r \in Requests, Goto(r, "cancel"), StopChecked(r), r = q
      PROVE  seen'[q].state \in Active \cup {"WAITING_USER"}
  <2>1. ~Rules!IsTerminal(run.state)
    BY <1>1, <1>t DEF StopChecked, Acknowledge, Goto
  <2>2. run.state # "none"
    BY <1>1 DEF Exists, StopChecked
  <2>3. run.state \in Rules!States
    BY <2>2 DEF TypeOK
  <2>4. seen'[q].state = run.state
    BY <1>1, <2>1, <1>t DEF StopChecked, See
  <2> QED BY <2>1, <2>3, <2>4 DEF Rules!IsTerminal, Rules!States, Active
<1>2. CASE pc[q] = "cancel" /\ seen'[q] = seen[q]
  BY <1>2 DEF Stopping
<1>3. ASSUME NEW r \in Requests, Handle(r)
      PROVE  \/ r = q /\ Goto(r, "cancel") /\ StopChecked(r)
             \/ pc[q] = "cancel" /\ seen'[q] = seen[q]
  <2>2. CASE r # q
    BY <1>3, <2>2, OthersKeep, TypeParts
  <2>3. CASE r = q
    <3>1. StopChecked(r)
      BY <1>3, <2>3, <1>t DEF Handle, GetOwned, LatestCheckpoint, NextBlock, ResumeChecked, Analyze,
         AnalysisStops, AdvanceStarts, Advance, AdvanceRefused, ResumeAdvance, ResumeReplayed, ContextError,
         CancelAdvance, CancelConflict, Execute, Return, Acknowledge, Goto
    <3>2. \E s \in Steps : Goto(r, s)
      BY <3>1 DEF StopChecked, Acknowledge, Goto, Steps
    <3> QED BY <2>3, <3>1, <3>2, <1>t DEF Goto
  <2> QED BY <2>2, <2>3
<1>4. ASSUME NEW r \in Requests, Arrive(r) \/ Disconnect(r) \/ RequestFails(r)
      PROVE  pc[q] = "cancel" /\ seen'[q] = seen[q]
  BY <1>4, <1>t DEF Arrive, Start, Resume, Cancel, Receive, Disconnect, RequestFails, Return, Goto
<1>5. CASE Crash
  BY <1>5 DEF Crash
<1>6. CASE Tick \/ UNCHANGED vars
  BY <1>2, <1>6 DEF Tick, vars, local
<1> QED BY <1>1, <1>2, <1>3, <1>4, <1>5, <1>6 DEF Next

\* What a resume checked stays true until it swaps.
LEMMA ResumingStep == ASSUME TypeOK, Exists, Resuming, [Next]_vars PROVE Resuming'
<1>t. LocalOK /\ SentOK
  BY TypeParts
<1> DEFINE P(q) ==
  /\ kind[q] = "resume" => cmd[q] \in Commands /\ sent[cmd[q]] > 0
  /\ pc[q] = "resume" => block[q] = 0
  /\ pc[q] \in {"analyze", "resume"} /\ block[q] = 0 =>
       kind[q] = "resume" /\ seen[q].state = "WAITING_USER" /\ seen[q].version = sent[cmd[q]]
<1> SUFFICES ASSUME NEW q \in Requests PROVE P(q)'
  BY DEF Resuming
<1>p. P(q)
  BY DEF Resuming
<1>1. ASSUME NEW r \in Requests, Handle(r) PROVE P(q)'
  <2>s. sent' = sent
    BY <1>1 DEF Handle, GetOwned, LatestCheckpoint, NextBlock, ResumeChecked, Analyze,
       AnalysisStops, AdvanceStarts, Advance, AdvanceRefused, ResumeAdvance, ResumeReplayed, ContextError,
       StopChecked, CancelAdvance, CancelConflict
  <2>1. CASE r # q
    <3>1. /\ pc'[q] = pc[q] /\ kind'[q] = kind[q] /\ cmd'[q] = cmd[q]
          /\ seen'[q] = seen[q] /\ block'[q] = block[q]
      BY <1>1, <2>1, <1>t, OthersKeep
    <3> QED BY <3>1, <2>s, <1>p
  <2>2. CASE r = q
    <3> USE <2>2
    <3>1. CASE Return(q) \/ Acknowledge(q)
      BY <3>1, <1>t DEF Return, Acknowledge, Goto, LocalOK
    <3>k. CASE ~(Return(q) \/ Acknowledge(q))
      <4>1. kind'[q] = kind[q] /\ cmd'[q] = cmd[q]
        BY <1>1, <3>k DEF Handle, GetOwned, LatestCheckpoint, NextBlock, ResumeChecked, Analyze,
           AnalysisStops, AdvanceStarts, Advance, AdvanceRefused, ResumeAdvance, ResumeReplayed, ContextError,
           StopChecked, CancelAdvance, CancelConflict, Execute
      <4>2. CASE LatestCheckpoint(q)
        BY <4>1, <4>2, <3>k, <2>s, <1>t, <1>p DEF LatestCheckpoint, Execute, Goto, LocalOK
      <4>3. CASE ResumeChecked(q)
        BY <4>1, <4>3, <3>k, <2>s, <1>t, <1>p DEF ResumeChecked, See, Goto, LocalOK
      <4>4. CASE Analyze(q)
        BY <4>1, <4>4, <2>s, <1>t, <1>p DEF Analyze, Goto, LocalOK
      <4>5. CASE pc'[q] \notin {"analyze", "resume"}
        BY <4>1, <4>5, <2>s, <1>p
      <4>6. LatestCheckpoint(q) \/ ResumeChecked(q) \/ Analyze(q) \/ pc'[q] \notin {"analyze", "resume"}
        BY <1>1, <3>k, <1>t DEF LocalOK, Goto, Handle, GetOwned, NextBlock,
           AnalysisStops, AdvanceStarts, Advance, AdvanceRefused, ResumeAdvance, ResumeReplayed, ContextError,
           StopChecked, CancelAdvance, CancelConflict
      <4> QED BY <4>2, <4>3, <4>4, <4>5, <4>6
    <3> QED BY <3>1, <3>k
  <2> QED BY <2>1, <2>2
<1>2. ASSUME NEW r \in Requests, Start(r) \/ Cancel(r) PROVE P(q)'
  BY <1>2, <1>p, <1>t DEF Start, Cancel, Receive, Goto, LocalOK
<1>3. ASSUME NEW r \in Requests, NEW c \in Commands, Resume(r, c) PROVE P(q)'
  <2>1. run.version \in Nat /\ run.version > 0
    <3>1. run.state # "none"
      BY <1>3 DEF Resume, Exists
    <3> QED BY <3>1 DEF Exists, TypeOK
  <2>2. sent'[c] > 0 /\ \A d \in Commands : sent[d] > 0 => sent'[d] = sent[d]
    BY <1>3, <2>1, <1>t DEF Resume, SentOK
  <2> QED BY <1>3, <2>2, <1>p, <1>t DEF Resume, Receive, Goto, LocalOK
<1>4. ASSUME NEW r \in Requests, Disconnect(r) \/ RequestFails(r) PROVE P(q)'
  BY <1>4, <1>p, <1>t DEF Disconnect, RequestFails, Return, Goto, LocalOK
<1>5. CASE Crash
  BY <1>5, <1>p, <1>t DEF Crash
<1>6. CASE Tick \/ UNCHANGED vars
  BY <1>6, <1>p DEF Tick, vars, local
<1> QED BY <1>1, <1>2, <1>3, <1>4, <1>5, <1>6 DEF Next, Arrive

\* A swap that succeeds leaves the version behind that its command expects.
LEMMA OnceStep == ASSUME TypeOK, Exists, Stopping, Resuming, Once, [Next]_vars PROVE Once'
<1>t. RowOK /\ SentOK /\ run.version \in Nat
  BY TypeParts DEF RowOK, RunType
<1>1. ASSUME NEW r \in Requests, ResumeAdvance(r) PROVE Once'
  <2>1. run.version = sent[cmd[r]] /\ run'.version = run.version + 1 /\ cmd[r] \in Commands /\ sent[cmd[r]] > 0
    BY <1>1, ResumeMoves
  <2>2. applied[cmd[r]] = 0
    BY <2>1, <1>t DEF Once, RowOK, SentOK
  <2>3. applied' = [applied EXCEPT ![cmd[r]] = 1] /\ sent' = sent
    BY <1>1, <2>1, <2>2, <1>t DEF ResumeAdvance, RowOK
  <2> QED BY <2>1, <2>3, <1>t DEF Once, RowOK, SentOK
<1>2. CASE UNCHANGED <<applied, sent>> /\ run'.version >= run.version /\ run'.version \in Nat
  BY <1>2, <1>t DEF Once, RowOK, SentOK
<1>3. ASSUME NEW r \in Requests, Start(r) PROVE Once'
  <2>1. CASE run.state = "none"
    BY <1>3, <2>1, StartMoves DEF Start, Exists, Once, TypeOK
  <2>2. CASE run.state # "none"
    BY <1>3, <2>2, <1>2, <1>t DEF Start
  <2> QED BY <2>1, <2>2
<1>4. ASSUME NEW r \in Requests, Advance(r) \/ CancelAdvance(r) PROVE Once'
  <2>1. run'.version = run.version + 1
    BY <1>4, AdvanceMoves, CancelMoves
  <2> QED BY <1>4, <2>1, <1>2, <1>t DEF Advance, CancelAdvance
<1>5. ASSUME NEW r \in Requests, NEW c \in Commands, Resume(r, c) PROVE Once'
  BY <1>5, <1>t DEF Resume, row, Once, RowOK, SentOK
<1>6. CASE ~Moves /\ sent' = sent
  BY <1>6, RowChange, <1>2, <1>t
<1>7. sent' = sent \/ \E r \in Requests, c \in Commands : Resume(r, c)
  BY SentChange
<1> QED BY <1>1, <1>3, <1>4, <1>5, <1>6, <1>7 DEF Moves

\* The account of the deadline stays balanced.
LEMMA PausesStep == ASSUME TypeOK, Exists, Stopping, Resuming, Pauses, [Next]_vars PROVE Pauses'
<1> USE DRAssumption
<1>t. /\ now \in Nat /\ waited \in Nat /\ run.deadline \in Nat
      /\ run.started \in Nat /\ run.updated \in Nat
  BY DEF TypeOK
<1>1. ASSUME NEW r \in Requests, Start(r) PROVE Pauses'
  <2>1. UNCHANGED <<now, waited>>
    BY <1>1 DEF Start, Receive, world
  <2>2. CASE run.state = "none"
    BY <1>1, <2>1, <2>2, <1>t, StartMoves DEF Exists, Pauses
  <2>3. CASE run.state # "none"
    BY <1>1, <2>1, <2>3 DEF Start, Pauses
  <2> QED BY <2>2, <2>3
<1>2. ASSUME NEW r \in Requests, Advance(r) PROVE Pauses'
  <2>1. UNCHANGED <<now, waited>>
    BY <1>2 DEF Advance, world
  <2> QED BY <1>2, <2>1, <1>t, AdvanceMoves DEF Pauses
<1>3. ASSUME NEW r \in Requests, ResumeAdvance(r) PROVE Pauses'
  <2>1. UNCHANGED <<now, waited>>
    BY <1>3 DEF ResumeAdvance, world
  <2> QED BY <1>3, <2>1, <1>t, ResumeMoves DEF Pauses
<1>4. ASSUME NEW r \in Requests, CancelAdvance(r) PROVE Pauses'
  <2>1. UNCHANGED <<now, waited>>
    BY <1>4 DEF CancelAdvance, world
  <2> QED BY <1>4, <2>1, <1>t, CancelMoves DEF Pauses, Active
<1>5. CASE Tick
  BY <1>5, <1>t DEF Tick, row, Pauses, Active
<1>6. CASE ~Moves /\ UNCHANGED <<now, waited>>
  BY <1>6, RowChange DEF Pauses
<1>7. Tick \/ UNCHANGED <<now, waited>>
  BY WorldChange DEF world
<1> QED BY <1>1, <1>2, <1>3, <1>4, <1>5, <1>6, <1>7 DEF Moves

\* Terminal states are final.
LEMMA OverStays ==
  ASSUME TypeOK, Stopping, Resuming, [Next]_vars, Rules!IsTerminal(run.state)
  PROVE  run' = run
<1>1. ASSUME NEW r \in Requests PROVE ~Advance(r) /\ ~ResumeAdvance(r) /\ ~CancelAdvance(r)
  BY AdvanceMoves, ResumeMoves, CancelMoves DEF Rules!IsTerminal, Active
<1>2. ASSUME NEW r \in Requests, Start(r) PROVE run' = run
  BY <1>2 DEF Start, Rules!IsTerminal
<1> QED BY <1>1, <1>2, RowChange DEF Moves

\* A run that is over stays over, and only such a run is acknowledged.
LEMMA AckedStep == ASSUME TypeOK, Stopping, Resuming, AckedIsOver, [Next]_vars PROVE AckedIsOver'
<1>1. Rules!IsTerminal(run.state) => run' = run
  BY OverStays
<1>2. ASSUME NEW r \in Requests, Acknowledge(r), Handle(r), acked' # acked PROVE Rules!IsTerminal(run'.state)
  <2>1. CASE StopChecked(r)
    BY <1>2, <2>1, <1>1 DEF StopChecked
  <2>2. CASE CancelAdvance(r)
    BY <2>2, CancelMoves DEF Rules!IsTerminal
  <2>3. CASE CancelConflict(r)
    BY <1>2, <2>3 DEF CancelConflict, Refused, Rules!IsTerminal
  <2>4. StopChecked(r) \/ CancelAdvance(r) \/ CancelConflict(r)
    BY <1>2 DEF Handle, row, GetOwned, LatestCheckpoint, NextBlock, ResumeChecked, Analyze, AnalysisStops,
       AdvanceStarts, Advance, AdvanceRefused, ResumeAdvance, ResumeReplayed, ContextError
  <2> QED BY <2>1, <2>2, <2>3, <2>4
<1>3. acked' = acked \/ \E r \in Requests : Handle(r) /\ Acknowledge(r)
  BY AckedChange
<1> QED BY <1>1, <1>2, <1>3 DEF AckedIsOver

-----------------------------------------------------------------------------
\* The invariant is preserved by every step.
LEMMA IStep == ASSUME IInv, [Next]_vars PROVE IInv'
BY TypeStep, ExistsStep, StoppingStep, ResumingStep, OnceStep, PausesStep, AckedStep DEF IInv

\* The invariant is inductive.
THEOREM Inductive == Spec => []IInv
BY IInit, IStep, PTL DEF Spec

\* Every variable keeps its type.
THEOREM TypeCorrect == Spec => []TypeOK
<1>1. IInv => TypeOK
  BY DEF IInv
<1> QED BY <1>1, Inductive, PTL

\* However often a resume command is sent and whatever races with it, it
\* changes the run once at most.
THEOREM AppliedOnce == Spec => []ResumeAppliesOnce
<1>1. IInv => ResumeAppliesOnce
  BY DEF IInv, Once, ResumeAppliesOnce
<1> QED BY <1>1, Inductive, PTL

\* The time the user takes is given back to the run, exactly once.
THEOREM PausesAlwaysFree == Spec => []PausesAreFree
<1>1. IInv => PausesAreFree
  BY DEF IInv, Pauses, PausesAreFree
<1> QED BY <1>1, Inductive, PTL

\* A cancellation answered with success is final.
THEOREM AckedStaysOver == Spec => []AckedIsOver
<1>1. IInv => AckedIsOver
  BY DEF IInv
<1> QED BY <1>1, Inductive, PTL

\* The run's row implements the lifecycle of domain.go: a step of any request
\* is a creation, an allowed transition or no change at all.
THEOREM ImplementsLifecycle == Spec => LifecycleKept
<1>1. Init => Lifecycle!Init
  BY DEF Init, NoRun, Lifecycle!Init
<1>2. IInv /\ [Next]_vars => [Lifecycle!Next]_(Lifecycle!vars)
  <2> SUFFICES ASSUME IInv, [Next]_vars PROVE [Lifecycle!Next]_(Lifecycle!vars)
    OBVIOUS
  <2>i. TypeOK /\ Exists /\ Stopping /\ Resuming
    BY DEF IInv
  <2>1. ASSUME NEW r \in Requests, Start(r) PROVE Lifecycle!Next \/ run' = run
    <3>1. CASE run.state = "none"
      BY <2>1, <2>i, <3>1, StartMoves DEF Exists, Lifecycle!Next, Lifecycle!Create
    <3>2. CASE run.state # "none"
      BY <2>1, <3>2 DEF Start
    <3> QED BY <3>1, <3>2
  <2>2. ASSUME NEW r \in Requests, Advance(r) PROVE Lifecycle!Transition
    <3>1. /\ Rules!CanTransition(run.state, run'.state) /\ run'.version = run.version + 1
          /\ run'.used \in run.used..MaxIterations
      BY <2>2, <2>i, AdvanceMoves DEF Exists
    <3> QED BY <3>1 DEF Lifecycle!Transition, Lifecycle!CanTransition, Lifecycle!Allowed, Lifecycle!States,
         Rules!CanTransition, Rules!Allowed, Rules!States
  <2>3. ASSUME NEW r \in Requests, ResumeAdvance(r) PROVE Lifecycle!Transition
    <3>1. /\ run.state = "WAITING_USER" /\ run'.state = "CONTEXT_READY" /\ run'.version = run.version + 1
          /\ run'.used = run.used + 1 /\ run.used < MaxIterations /\ run.used \in Nat
      BY <2>3, <2>i, ResumeMoves DEF TypeOK
    <3> QED BY <3>1, DRAssumption DEF Lifecycle!Transition, Lifecycle!CanTransition, Lifecycle!Allowed, Lifecycle!States
  <2>4. ASSUME NEW r \in Requests, CancelAdvance(r) PROVE Lifecycle!Transition
    <3>1. /\ Rules!CanTransition(run.state, run'.state) /\ run'.version = run.version + 1
          /\ run'.used = run.used /\ run.used \in 0..MaxIterations
      BY <2>4, <2>i, CancelMoves DEF TypeOK
    <3> QED BY <3>1, DRAssumption DEF Lifecycle!Transition, Lifecycle!CanTransition, Lifecycle!Allowed, Lifecycle!States,
         Rules!CanTransition, Rules!Allowed, Rules!States
  <2> QED BY <2>1, <2>2, <2>3, <2>4, RowChange DEF Moves, Lifecycle!Next, Lifecycle!vars
<1> QED BY <1>1, <1>2, Inductive, PTL DEF Spec, LifecycleKept, Lifecycle!Spec

-----------------------------------------------------------------------------
(***************************************************************************)
(* Nobody gives up.  Somebody carries an active run: a request that will   *)
(* reach its next block, and whose reading of the row is still current.    *)
(* Whoever makes another's reading obsolete moved the run, and becomes the *)
(* carrier itself unless its move left the active states.                  *)
(***************************************************************************)
\* What a request holds at its step.
Working == \A r \in Requests :
  /\ pc[r] = "idle" => block[r] = 0
  /\ pc[r] \in {"get", "checkpoint"} /\ block[r] > 0 => own[r] > 0
  /\ pc[r] \in {"advance", "swap"} => own[r] > 0 /\ block[r] > 0
  /\ pc[r] = "resume" => own[r] > 0
  /\ pc[r] \in {"get", "checkpoint", "analyze", "advance", "swap", "resume"} => kind[r] \in {"start", "resume"}

\* Without faults a context is only cancelled once the run is over.
Dropped == faults = 0 => \A r \in Requests : gone[r] => Rules!IsTerminal(run.state)

\* The block of the run's state is not behind the request.
Ahead(r) == \E b \in 1..4 : b >= block[r] /\ Blocks[b] = run.state

Carrier(r) ==
  /\ Ahead(r)
  /\ \/ pc[r] \in {"get", "checkpoint"} /\ (kind[r] = "start" \/ own[r] > 0)
     \/ pc[r] = "analyze" /\ block[r] > 0
     \/ pc[r] \in {"advance", "swap"}
  /\ pc[r] # "get" => Current(r)

Carried == faults = 0 /\ run.state \in Active => \E r \in Requests : Carrier(r)

\* A handler leaves the analysis of other requests alone.
LEMMA OthersOwn ==
  ASSUME LocalOK, NEW r \in Requests, Handle(r), NEW q \in Requests, q # r
  PROVE  own'[q] = own[q]
<1>1. CASE Return(r) \/ Acknowledge(r)
  BY <1>1 DEF LocalOK, Return, Acknowledge
<1>2. CASE GetOwned(r) \/ NextBlock(r) \/ Analyze(r) \/ AnalysisStops(r)
  BY <1>2 DEF LocalOK, GetOwned, NextBlock, Analyze, AnalysisStops
<1>3. CASE (LatestCheckpoint(r) \/ ResumeChecked(r) \/ StopChecked(r)) /\ ~(Return(r) \/ Acknowledge(r))
  BY <1>3 DEF LocalOK, LatestCheckpoint, Execute, ResumeChecked, StopChecked
<1>4. CASE (AdvanceStarts(r) \/ Advance(r)) /\ ~Return(r)
  BY <1>4 DEF LocalOK, AdvanceStarts, Advance
<1>5. CASE (ResumeAdvance(r) \/ ResumeReplayed(r)) /\ ~Return(r)
  BY <1>5 DEF LocalOK, ResumeAdvance, ResumeReplayed
<1>6. CASE AdvanceRefused(r) \/ ContextError(r) \/ CancelAdvance(r) \/ CancelConflict(r)
  BY <1>1, <1>6 DEF AdvanceRefused, ContextError, CancelAdvance, CancelConflict
<1> QED BY <1>1, <1>2, <1>3, <1>4, <1>5, <1>6 DEF Handle

\* Every step leaves each request with what its next one needs.
LEMMA WorkingStep == ASSUME LocalOK, RowOK, Resuming, Working, [Next]_vars PROVE Working'
<1> DEFINE P(q) ==
  /\ pc[q] = "idle" => block[q] = 0
  /\ pc[q] \in {"get", "checkpoint"} /\ block[q] > 0 => own[q] > 0
  /\ pc[q] \in {"advance", "swap"} => own[q] > 0 /\ block[q] > 0
  /\ pc[q] = "resume" => own[q] > 0
  /\ pc[q] \in {"get", "checkpoint", "analyze", "advance", "swap", "resume"} => kind[q] \in {"start", "resume"}
<1> SUFFICES ASSUME NEW q \in Requests PROVE P(q)'
  BY DEF Working
<1>p. P(q)
  BY DEF Working
<1>1. ASSUME NEW r \in Requests, Handle(r) PROVE P(q)'
  <2>1. CASE r # q
    <3>1. pc'[q] = pc[q] /\ kind'[q] = kind[q] /\ block'[q] = block[q] /\ own'[q] = own[q]
      BY <1>1, <2>1, OthersKeep, OthersOwn
    <3> QED BY <3>1, <1>p
  <2>2. CASE r = q
    <3> USE <2>2
    <3>1. CASE Return(q) \/ Acknowledge(q)
      BY <3>1 DEF Return, Acknowledge, Goto, LocalOK
    <3>2. CASE GetOwned(q) \/ NextBlock(q) \/ AnalysisStops(q)
      BY <3>2, <1>p DEF GetOwned, NextBlock, AnalysisStops, Goto, LocalOK
    <3>3. CASE LatestCheckpoint(q) /\ ~Return(q)
      BY <3>3, <1>p DEF LatestCheckpoint, Execute, Goto, LocalOK, RowOK, RunType
    <3>4. CASE ResumeChecked(q) /\ ~Return(q)
      BY <3>4, <1>p DEF ResumeChecked, Goto, LocalOK
    <3>5. CASE Analyze(q)
      BY <3>5, <1>p DEF Analyze, Goto, LocalOK, SeenType
    <3>6. CASE AdvanceStarts(q) /\ ~Return(q)
      BY <3>6, <1>p DEF AdvanceStarts, Goto, LocalOK
    <3>7. CASE Advance(q) /\ ~Return(q)
      BY <3>7, <1>p DEF Advance, Goto, LocalOK
    <3>8. CASE (ResumeAdvance(q) \/ ResumeReplayed(q)) /\ ~Return(q)
      BY <3>8, <1>p DEF ResumeAdvance, ResumeReplayed, Goto, LocalOK
    <3>9. CASE StopChecked(q) /\ ~Acknowledge(q)
      BY <3>9, <1>p DEF StopChecked, Goto, LocalOK
    <3>10. CASE AdvanceRefused(q) \/ ContextError(q) \/ CancelAdvance(q) \/ CancelConflict(q)
      BY <3>1, <3>10 DEF AdvanceRefused, ContextError, CancelAdvance, CancelConflict
    <3> QED BY <1>1, <3>1, <3>2, <3>3, <3>4, <3>5, <3>6, <3>7, <3>8, <3>9, <3>10 DEF Handle
  <2> QED BY <2>1, <2>2
<1>2. ASSUME NEW r \in Requests, Arrive(r) PROVE P(q)'
  BY <1>2, <1>p DEF Arrive, Start, Resume, Cancel, Receive, Goto, LocalOK
<1>3. ASSUME NEW r \in Requests, Disconnect(r) \/ RequestFails(r) PROVE P(q)'
  BY <1>3, <1>p DEF Disconnect, RequestFails, Return, Goto, LocalOK
<1>4. CASE Crash
  BY <1>4 DEF Crash
<1>5. CASE Tick \/ UNCHANGED vars
  BY <1>5, <1>p DEF Tick, vars, local
<1> QED BY <1>1, <1>2, <1>3, <1>4, <1>5 DEF Next

\* Only a cancel request that found the run over, or ended it, cancels the
\* context of another.
LEMMA DroppedStep == ASSUME TypeOK, Stopping, Resuming, Dropped, [Next]_vars PROVE Dropped'
<1>t. LocalOK
  BY TypeParts
<1> SUFFICES ASSUME faults' = 0, NEW q \in Requests, gone'[q] PROVE Rules!IsTerminal(run'.state)
  BY DEF Dropped
<1>f. faults = 0 /\ UNCHANGED <<faults>>
  <2>1. faults \in Nat
    BY DRAssumption DEF TypeOK
  <2> QED BY <2>1, WorldChange DEF world, Tick
<1>1. CASE gone[q]
  BY <1>1, <1>f, OverStays DEF Dropped
<1>2. ASSUME ~gone[q], NEW r \in Requests, Handle(r) PROVE Rules!IsTerminal(run'.state)
  <2>1. CASE StopChecked(r)
    BY <1>2, <2>1 DEF StopChecked
  <2>2. CASE CancelAdvance(r)
    BY <2>2, CancelMoves DEF Rules!IsTerminal
  <2>3. CASE CancelConflict(r)
    BY <1>2, <1>t, <2>3 DEF CancelConflict, Refused, Return, LocalOK, Rules!IsTerminal
  <2>4. ~Return(r)  \/ CancelConflict(r)
    BY <1>2, <1>t DEF Return, LocalOK
  <2>5. StopChecked(r) \/ CancelAdvance(r) \/ CancelConflict(r)
    BY <1>2, <2>4 DEF Handle, GetOwned, LatestCheckpoint, Execute, NextBlock, ResumeChecked, Analyze,
       AnalysisStops, AdvanceStarts, Advance, AdvanceRefused, ResumeAdvance, ResumeReplayed, ContextError
  <2> QED BY <2>1, <2>2, <2>3, <2>5
<1>3. ASSUME ~gone[q], NEW r \in Requests, Arrive(r) PROVE FALSE
  BY <1>3 DEF Arrive, Start, Resume, Cancel, Receive
<1>4. ASSUME ~gone[q], NEW r \in Requests, Disconnect(r) \/ RequestFails(r) PROVE FALSE
  BY <1>4, <1>f DEF Disconnect, RequestFails
<1>5. CASE ~gone[q] /\ (Crash \/ Tick \/ UNCHANGED vars)
  BY <1>5, <1>f DEF Crash, Tick, vars, local
<1> QED BY <1>1, <1>2, <1>3, <1>4, <1>5 DEF Next

\* A move of the run makes the mover its carrier, or ends the run's activity.
LEMMA MoverCarries ==
  ASSUME TypeOK, Exists, Stopping, Resuming, Working, NEW r \in Requests,
         run' # run, Start(r) \/ Advance(r) \/ ResumeAdvance(r) \/ CancelAdvance(r),
         run'.state \in Active
  PROVE  Carrier(r)'
<1>t. LocalOK
  BY TypeParts
<1>1. CASE Start(r)
  <2>1. run.state = "none"
    BY <1>1 DEF Start
  <2>2. run'.state = "RECEIVED"
    BY <1>1, <2>1, StartMoves
  <2>3. pc'[r] = "get" /\ kind'[r] = "start" /\ block'[r] = 0
    BY <1>1, <1>t DEF Start, Receive, Goto, LocalOK, Working
  <2>4. Blocks[1] = "RECEIVED"
    BY DEF Blocks
  <2> QED BY <2>2, <2>3, <2>4 DEF Carrier, Ahead
<1>2. CASE Advance(r)
  <2>1. PICK b \in BlockOf(r) :
          /\ \E to \in Targets(seen[r].state) : Move(to, own[r], Delta(seen[r].state))
          /\ IF b = 4
               THEN Return(r)
               ELSE /\ block' = [block EXCEPT ![r] = b + 1]
                    /\ Goto(r, "get")
                    /\ UNCHANGED <<running, kind, cmd, seen, own, gone>>
    BY <1>2 DEF Advance
  <2>2. b \in 1..4 /\ Blocks[b] = seen[r].state /\ run.state = seen[r].state
    BY <1>2, <1>t DEF Advance, Current, BlockOf, LocalOK
  <2>3. b # 4 /\ Blocks[b + 1] = run'.state
    <3>1. PICK to \in Targets(seen[r].state) : Move(to, own[r], Delta(seen[r].state))
      BY <2>1
    <3>2. run'.state = IF Overrun(Delta(seen[r].state)) THEN "BUDGET_EXCEEDED" ELSE to
      BY <3>1 DEF Move, TypeOK
    <3>3. run'.state = to
      BY <3>2 DEF Active
    <3>4. CASE b = 1
      BY <2>2, <3>3, <3>4 DEF Blocks, Targets
    <3>5. CASE b = 2
      BY <2>2, <3>3, <3>5 DEF Blocks, Targets
    <3>6. CASE b = 3
      BY <2>2, <3>3, <3>6 DEF Blocks, Targets
    <3>7. CASE b = 4
      BY <2>2, <3>3, <3>7 DEF Blocks, Targets, Active
    <3> QED BY <2>2, <3>4, <3>5, <3>6, <3>7
  <2>4. pc'[r] = "get" /\ block'[r] = b + 1 /\ own'[r] = own[r] /\ own[r] > 0
    BY <1>2, <1>t, <2>1, <2>3 DEF Advance, Goto, LocalOK, Working
  <2> QED BY <2>2, <2>3, <2>4 DEF Carrier, Ahead
<1>3. CASE ResumeAdvance(r)
  <2>1. run'.state = "CONTEXT_READY"
    BY <1>3, ResumeMoves
  <2>2. pc'[r] = "get" /\ block'[r] = 0 /\ own'[r] > 0
    BY <1>3, <1>t DEF ResumeAdvance, Goto, LocalOK, Working, Resuming
  <2>3. Blocks[2] = "CONTEXT_READY"
    BY DEF Blocks
  <2> QED BY <2>1, <2>2, <2>3 DEF Carrier, Ahead
<1>4. CASE CancelAdvance(r)
  BY <1>4, CancelMoves DEF Active
<1> QED BY <1>1, <1>2, <1>3, <1>4

\* While nobody moves the run its carrier goes on towards the swap.
LEMMA CarrierGoesOn ==
  ASSUME TypeOK, Working, Dropped, NEW r \in Requests, Carrier(r), Handle(r),
         faults = 0, run.state \in Active, run' = run, ~Advance(r), ~ResumeAdvance(r), ~CancelAdvance(r)
  PROVE  Carrier(r)'
<1>t. LocalOK /\ ~gone[r]
  BY TypeParts DEF Dropped, Rules!IsTerminal, Active
<1>b. BlockOf(r) # {} \/ ~Current(r) \/ block[r] = 0
  BY <1>t DEF BlockOf, Carrier, Ahead, Current, LocalOK
<1>1. CASE GetOwned(r)
  BY <1>1, <1>t DEF GetOwned, See, Goto, Carrier, Ahead, Current, LocalOK
<1>2. CASE LatestCheckpoint(r)
  <2>1. ~Settled(seen[r].state)
    BY <1>2 DEF LatestCheckpoint, Carrier, Current, Settled, Active, Rules!IsTerminal
  <2>2. /\ pc'[r] \in {"analyze", "advance"} /\ block'[r] = 1
        /\ seen'[r].state = seen[r].state /\ seen'[r].version = seen[r].version
    BY <1>2, <1>t, <2>1 DEF LatestCheckpoint, Execute, See, Goto, LocalOK
  <2> QED BY <1>2, <2>2 DEF LatestCheckpoint, Carrier, Ahead, Current
<1>3. CASE NextBlock(r)
  <2>2. /\ pc'[r] = "advance" /\ block'[r] = block[r]
        /\ seen'[r].state = seen[r].state /\ seen'[r].version = seen[r].version
    BY <1>3, <1>t DEF NextBlock, See, Goto, LocalOK
  <2> QED BY <1>3, <2>2 DEF NextBlock, Carrier, Ahead, Current
<1>4. CASE Analyze(r)
  BY <1>4, <1>t DEF Analyze, Goto, Carrier, Ahead, Current, LocalOK
<1>5. CASE AdvanceStarts(r)
  <2>1. pc'[r] = "swap" /\ block'[r] = block[r] /\ seen'[r] = seen[r]
    BY <1>5, <1>t, <1>b DEF AdvanceStarts, Goto, Carrier, LocalOK, Working
  <2> QED BY <1>5, <2>1 DEF AdvanceStarts, Carrier, Ahead, Current
<1>6. ~(ResumeChecked(r) \/ AnalysisStops(r) \/ AdvanceRefused(r) \/ ResumeReplayed(r)
        \/ ContextError(r) \/ StopChecked(r) \/ CancelConflict(r))
  BY <1>t DEF Carrier, ResumeChecked, AnalysisStops, AdvanceRefused, ResumeReplayed, ContextError,
     StopChecked, CancelConflict
<1> QED BY <1>1, <1>2, <1>3, <1>4, <1>5, <1>6 DEF Handle

\* So an active run always has a carrier.
LEMMA CarriedStep ==
  ASSUME TypeOK, Exists, Stopping, Resuming, Working, Dropped, Carried, [Next]_vars
  PROVE  Carried'
<1>t. LocalOK
  BY TypeParts
<1> SUFFICES ASSUME faults' = 0, run'.state \in Active PROVE \E r \in Requests : Carrier(r)'
  BY DEF Carried
<1>f. faults = 0 /\ UNCHANGED <<faults>>
  <2>1. faults \in Nat
    BY DRAssumption DEF TypeOK
  <2> QED BY <2>1, WorldChange DEF world, Tick
<1>1. CASE run' # run
  BY <1>1, MoverCarries, RowChange DEF Moves
<1>2. CASE run' = run
  <2>1. PICK q \in Requests : Carrier(q)
    BY <1>2, <1>f DEF Carried
  <2>k. ASSUME pc'[q] = pc[q], kind'[q] = kind[q], seen'[q] = seen[q], own'[q] = own[q], block'[q] = block[q]
        PROVE  Carrier(q)'
    BY <1>2, <2>1, <2>k DEF Carrier, Ahead, Current
  <2>2. ASSUME NEW r \in Requests, Handle(r) PROVE \E s \in Requests : Carrier(s)'
    <3>1. CASE r # q
      BY <2>2, <2>k, <3>1, <1>t, OthersKeep, OthersOwn
    <3>2. CASE Advance(r) \/ ResumeAdvance(r) \/ CancelAdvance(r)
      <4>1. run'.version = run.version + 1 /\ run.version \in Nat
        BY <3>2, AdvanceMoves, ResumeMoves, CancelMoves DEF TypeOK
      <4> QED BY <1>2, <4>1
    <3> QED BY <1>2, <1>f, <2>1, <2>2, <3>1, <3>2, CarrierGoesOn
  <2>3. ASSUME NEW r \in Requests, Arrive(r) PROVE Carrier(q)'
    <3>1. pc[r] = "idle" /\ r # q
      BY <2>1, <2>3 DEF Arrive, Start, Resume, Cancel, Receive, Carrier
    <3> QED BY <2>3, <2>k, <3>1, <1>t DEF Arrive, Start, Resume, Cancel, Receive, Goto, LocalOK
  <2>4. ASSUME NEW r \in Requests, Disconnect(r) \/ RequestFails(r) PROVE FALSE
    BY <2>4, <1>f DEF Disconnect, RequestFails
  <2>5. CASE Crash \/ Tick \/ UNCHANGED vars
    BY <2>5, <2>k, <1>f DEF Crash, Tick, vars, local
  <2> QED BY <2>1, <2>2, <2>3, <2>4, <2>5 DEF Next
<1> QED BY <1>1, <1>2

\* Unless a client left or something failed, requests that race, conflict and
\* are cancelled never all give up (workflow.go's execute and Resume).
THEOREM SomebodyCarriesOn == Spec => []NobodyGivesUp
<1> DEFINE K == Working /\ Dropped /\ Carried
<1>1. Init => K
  BY DEF Init, NoRun, Working, Dropped, Carried, Active
<1>2. IInv /\ K /\ [Next]_vars => K'
  BY TypeParts, WorkingStep, DroppedStep, CarriedStep DEF IInv
<1>3. K => NobodyGivesUp
  BY DEF Carried, Carrier, NobodyGivesUp
<1> QED BY <1>1, <1>2, <1>3, Inductive, PTL DEF Spec
=============================================================================
