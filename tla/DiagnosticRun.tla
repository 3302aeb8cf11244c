------------------------------ MODULE DiagnosticRun ------------------------------
(***************************************************************************)
(* One diagnostic run and the HTTP requests that drive it: requests that   *)
(* start it (a client repeats them with the same client_request_id), that  *)
(* resume it with more information from the user, and that cancel it.      *)
(* Each request is a goroutine in Workflow; all of them share the run's    *)
(* row, moved by TransitionCAS, and the process-wide map of running        *)
(* contexts.                                                               *)
(*                                                                         *)
(* Advance reads the run, decides, and compares and swaps on the state and *)
(* version it read: when the swap succeeds nothing it read has changed, so *)
(* Advance is one step.  Get is two reads, of the run and of its latest    *)
(* checkpoint.  A checkpoint is abstracted to the generation of the        *)
(* context it was computed from: the first input, then one more for each   *)
(* answer of the user.  The no-progress guard is left out (no two          *)
(* consecutive actions of Workflow have one signature), and of the budget  *)
(* only the iterations are kept.                                           *)
(***************************************************************************)
EXTENDS Naturals

CONSTANTS Requests,       \* concurrent requests
          Commands,       \* resume commands: client request ids
          MaxIterations,  \* budget of the run
          Timeout,        \* DefaultRunTimeout
          MaxTime,        \* bound: the clock
          MaxFaults,      \* bound: crashes, failures and clients that go away
          None            \* no command, no request

ASSUME DRAssumption ==
  /\ MaxIterations \in Nat /\ MaxIterations >= 1
  /\ Timeout \in Nat /\ MaxTime \in Nat /\ MaxFaults \in Nat
  /\ None \notin Commands /\ None \notin Requests

\* The transitions that domain.go allows.
Rules == INSTANCE RunLifecycle WITH state <- "none", version <- 0, used <- 0

VARIABLES run,      \* agent_lifecycle_runs, with the latest checkpoint's generation
          running,  \* Workflow.running: the request registered for the run
          now,
          pc,       \* where each request is
          kind,     \* what it was sent for
          cmd,      \* the command of a resume
          seen,     \* the run and checkpoint it read
          own,      \* the generation of the analysis it holds
          block,    \* the next block of Workflow.execute
          gone,     \* its context is cancelled
          sent,     \* the state version each command expects
          contexts, \* history: contexts the user was told are merged
          applied,  \* history: how often each command changed the run
          waited,   \* history: time the run waited for the user
          acked,    \* history: a cancellation was answered with success
          faults

row    == <<run, contexts, applied, acked>>
local  == <<pc, kind, cmd, seen, own, block, gone>>
world  == <<now, waited, faults>>
vars   == <<run, running, now, pc, kind, cmd, seen, own, block, gone, sent,
            contexts, applied, waited, acked, faults>>

Settled(s)  == s = "WAITING_USER" \/ Rules!IsTerminal(s)
Active      == {"RECEIVED", "CONTEXT_READY", "PLANNED", "RUNNING"}
Blocks      == <<"RECEIVED", "CONTEXT_READY", "PLANNED", "RUNNING">>
NoRun       == [state |-> "none", version |-> 0, gen |-> 0, used |-> 0,
                deadline |-> 0, started |-> 0, updated |-> 0, last |-> None]
NothingSeen == [state |-> "none", version |-> 0, last |-> None, gen |-> 0]
Steps       == {"idle", "get", "checkpoint", "analyze", "advance", "swap", "resume", "stop", "cancel"}

TypeOK ==
  /\ run \in [state: Rules!States \cup {"none"}, version: Nat, gen: Nat, used: 0..MaxIterations,
              deadline: Nat, started: 0..MaxTime, updated: 0..MaxTime, last: Commands \cup {None}]
  /\ running \in Requests \cup {None}
  /\ now \in 0..MaxTime
  /\ pc \in [Requests -> Steps]
  /\ kind \in [Requests -> {"none", "start", "resume", "cancel"}]
  /\ cmd \in [Requests -> Commands \cup {None}]
  /\ seen \in [Requests -> [state: Rules!States \cup {"none"}, version: Nat,
                            last: Commands \cup {None}, gen: Nat]]
  /\ own \in [Requests -> Nat]
  /\ block \in [Requests -> 0..4]
  /\ gone \in [Requests -> BOOLEAN]
  /\ sent \in [Commands -> Nat]
  /\ contexts \in Nat
  /\ applied \in [Commands -> Nat]
  /\ waited \in Nat
  /\ acked \in BOOLEAN
  /\ faults \in 0..MaxFaults

Init ==
  /\ run = NoRun
  /\ running = None
  /\ now = 0
  /\ pc = [r \in Requests |-> "idle"]
  /\ kind = [r \in Requests |-> "none"]
  /\ cmd = [r \in Requests |-> None]
  /\ seen = [r \in Requests |-> NothingSeen]
  /\ own = [r \in Requests |-> 0]
  /\ block = [r \in Requests |-> 0]
  /\ gone = [r \in Requests |-> FALSE]
  /\ sent = [c \in Commands |-> 0]
  /\ contexts = 0
  /\ applied = [c \in Commands |-> 0]
  /\ waited = 0
  /\ acked = FALSE
  /\ faults = 0

\* The request reads the run, and a checkpoint.
See(r, what, gen) ==
  seen' = [seen EXCEPT ![r] = [state |-> what.state, version |-> what.version,
                               last |-> what.last, gen |-> gen]]

Goto(r, step) == pc' = [pc EXCEPT ![r] = step]

\* The request is answered; its deferred functions run: execute forgets the
\* registration of the run, whoever registered last.
Return(r) ==
  /\ Goto(r, "idle")
  /\ running' = IF block[r] > 0 THEN None ELSE running
  /\ kind' = [kind EXCEPT ![r] = "none"]
  /\ cmd' = [cmd EXCEPT ![r] = None]
  /\ seen' = [seen EXCEPT ![r] = NothingSeen]
  /\ own' = [own EXCEPT ![r] = 0]
  /\ block' = [block EXCEPT ![r] = 0]
  /\ gone' = [gone EXCEPT ![r] = FALSE]

-----------------------------------------------------------------------------
(***************************************************************************)
(* Requests arrive.                                                        *)
(***************************************************************************)
Receive(r, k, c, step) ==
  /\ pc[r] = "idle"
  /\ Goto(r, step)
  /\ kind' = [kind EXCEPT ![r] = k]
  /\ cmd' = [cmd EXCEPT ![r] = c]
  /\ UNCHANGED <<running, seen, own, block, gone, world>>

\* CreateIdempotent: the unique key on client_request_id lets one row be
\* created; a repeated request finds it.
Start(r) ==
  /\ Receive(r, "start", None, "get")
  /\ run' = IF run.state = "none"
              THEN [NoRun EXCEPT !.state = "RECEIVED", !.version = 1,
                                 !.deadline = now + Timeout, !.started = now, !.updated = now]
              ELSE run
  /\ UNCHANGED <<sent, contexts, applied, acked>>

\* The user answers the questions of the version on the screen; a command
\* that is sent again keeps its version.
Resume(r, c) ==
  /\ Receive(r, "resume", c, "get")
  /\ run.state = "WAITING_USER" \/ sent[c] > 0
  /\ sent' = [sent EXCEPT ![c] = IF @ = 0 THEN run.version ELSE @]
  /\ UNCHANGED row

Cancel(r) ==
  /\ run.state # "none"
  /\ Receive(r, "cancel", None, "stop")
  /\ UNCHANGED <<row, sent>>

\* The client goes away.
Disconnect(r) ==
  /\ pc[r] # "idle" /\ ~gone[r]
  /\ faults < MaxFaults /\ faults' = faults + 1
  /\ gone' = [gone EXCEPT ![r] = TRUE]
  /\ UNCHANGED <<row, running, now, waited, pc, kind, cmd, seen, own, block, sent>>

-----------------------------------------------------------------------------
(***************************************************************************)
(* Service.Get: the run first, then its checkpoint.                        *)
(***************************************************************************)
GetOwned(r) ==
  /\ pc[r] = "get" /\ ~gone[r]
  /\ See(r, run, seen[r].gen)
  /\ Goto(r, "checkpoint")
  /\ UNCHANGED <<row, running, world, kind, cmd, own, block, gone, sent>>

\* execute starts: it registers its context and analyses the input unless
\* the checkpoint already holds an analysis.
Execute(r, gen) ==
  /\ running' = r
  /\ block' = [block EXCEPT ![r] = 1]
  /\ own' = [own EXCEPT ![r] = gen]
  /\ Goto(r, IF gen = 0 THEN "analyze" ELSE "advance")
  /\ UNCHANGED <<kind, cmd, gone>>

\* A new start, or the second half of a resume.
LatestCheckpoint(r) ==
  /\ pc[r] = "checkpoint" /\ ~gone[r] /\ block[r] = 0 /\ (kind[r] = "start" \/ own[r] > 0)
  /\ IF kind[r] = "start" /\ Settled(seen[r].state)
       THEN Return(r)
       ELSE /\ Execute(r, run.gen)
            /\ See(r, seen[r], run.gen)
  /\ UNCHANGED <<row, world, sent>>

\* Between two blocks of execute: the local analysis is kept.
NextBlock(r) ==
  /\ pc[r] = "checkpoint" /\ ~gone[r] /\ block[r] > 0
  /\ See(r, seen[r], run.gen)
  /\ Goto(r, "advance")
  /\ UNCHANGED <<row, running, world, kind, cmd, own, block, gone, sent>>

\* Workflow.Resume: a replayed command is answered, a stale one refused.
ResumeChecked(r) ==
  /\ pc[r] = "checkpoint" /\ ~gone[r] /\ kind[r] = "resume" /\ own[r] = 0
  /\ IF seen[r].last = cmd[r] \/ seen[r].state # "WAITING_USER" \/ seen[r].version # sent[cmd[r]]
       THEN Return(r)
       ELSE /\ See(r, seen[r], run.gen)
            /\ Goto(r, "analyze")
            /\ UNCHANGED <<running, kind, cmd, own, block, gone>>
  /\ UNCHANGED <<row, world, sent>>

Analyze(r) ==
  /\ pc[r] = "analyze"
  /\ own' = [own EXCEPT ![r] = seen[r].gen + 1]
  /\ Goto(r, IF block[r] > 0 THEN "advance" ELSE "resume")
  /\ UNCHANGED <<row, running, world, kind, cmd, seen, block, gone, sent>>

\* The analyser notices that the client is gone: cancelDueToContext.
AnalysisStops(r) ==
  /\ pc[r] = "analyze" /\ gone[r]
  /\ Goto(r, "stop")
  /\ UNCHANGED <<row, running, world, kind, cmd, seen, own, block, gone, sent>>

-----------------------------------------------------------------------------
(***************************************************************************)
(* Service.Advance and TransitionCAS.                                      *)
(***************************************************************************)
\* Mutated form of Current: only the state is compared.
CurrentState(r) == run.state = seen[r].state

\* Mutated form of Current: no comparison.
Unchecked(r) == TRUE

Current(r) == run.state = seen[r].state /\ run.version = seen[r].version

\* A run that is executed beyond its deadline or its budget stops.
Overrun(delta) ==
  run.state = "RUNNING" /\ (now > run.deadline \/ run.used + delta > MaxIterations)

Move(to, gen, delta) ==
  run' = [run EXCEPT !.state = IF Overrun(delta) THEN "BUDGET_EXCEEDED" ELSE to,
                     !.version = run.version + 1,
                     !.gen = gen,
                     !.used = IF Overrun(delta) THEN run.used ELSE run.used + delta,
                     !.updated = now]

\* What a block of execute moves to; the result is published or the user is
\* asked for what is missing.
Targets(s) == CASE s = "RECEIVED"      -> {"CONTEXT_READY"}
                [] s = "CONTEXT_READY" -> {"PLANNED"}
                [] s = "PLANNED"       -> {"RUNNING"}
                [] s = "RUNNING"       -> {"SUCCEEDED", "WAITING_USER"}
Delta(s) == IF s \in {"RECEIVED", "RUNNING"} THEN 1 ELSE 0

\* Mutated form of BlockOf: execute cannot enter in the middle.
BlockInOrder(r) == {b \in {block[r]} : b > 0 /\ Blocks[b] = seen[r].state}

\* The block for the state that was read, if it is not behind.
BlockOf(r) == {b \in block[r]..4 : b > 0 /\ Blocks[b] = seen[r].state}

\* advanceOrCancel, or nothing more to do, or too late for it.
AdvanceStarts(r) ==
  /\ pc[r] = "advance"
  /\ IF BlockOf(r) = {}
       THEN Return(r)
       ELSE /\ Goto(r, IF gone[r] THEN "stop" ELSE "swap")
            /\ UNCHANGED <<running, kind, cmd, seen, own, block, gone>>
  /\ UNCHANGED <<row, world, sent>>

Advance(r) ==
  /\ pc[r] = "swap" /\ ~gone[r]
  /\ \E b \in BlockOf(r) :
       /\ Current(r)
       /\ \E to \in Targets(seen[r].state) : Move(to, own[r], Delta(seen[r].state))
       /\ contexts' = IF b = 1 THEN 1 ELSE contexts
       /\ IF b = 4
            THEN Return(r)
            ELSE /\ block' = [block EXCEPT ![r] = b + 1]
                 /\ Goto(r, "get")
                 /\ UNCHANGED <<running, kind, cmd, seen, own, gone>>
  /\ UNCHANGED <<world, sent, applied, acked>>

\* Another request moved the run.
AdvanceRefused(r) ==
  /\ pc[r] = "swap" /\ ~gone[r] /\ ~Current(r)
  /\ Return(r)
  /\ UNCHANGED <<row, world, sent>>

\* Mutated form of Extension: the pause is added to the present.
ExtensionFromNow == now + Timeout

\* Human think time is not execution time: the deadline moves by the pause.
Extension == run.deadline + (now - run.updated)

ResumeAdvance(r) ==
  /\ pc[r] = "resume" /\ ~gone[r]
  /\ Current(r) /\ run.used < MaxIterations
  /\ run' = [run EXCEPT !.state = "CONTEXT_READY", !.version = run.version + 1, !.gen = own[r],
                        !.used = run.used + 1, !.deadline = Extension, !.updated = now,
                        !.last = cmd[r]]
  /\ contexts' = contexts + 1
  /\ applied' = [applied EXCEPT ![cmd[r]] = @ + 1]
  /\ Goto(r, "get")
  /\ UNCHANGED <<running, world, kind, cmd, seen, own, block, gone, sent, acked>>

\* A replay that reads that its command was applied goes on to execute.  One
\* that read the run before and then updates no row is a conflict, as any other
\* is; an exhausted budget is an error.
ResumeReplayed(r) ==
  /\ pc[r] = "resume" /\ ~gone[r]
  /\ \/ /\ ~Current(r) /\ run.last = cmd[r]
        /\ Goto(r, "get")
        /\ UNCHANGED <<running, kind, cmd, seen, own, block, gone>>
     \/ (~Current(r) \/ run.used = MaxIterations) /\ Return(r)
  /\ UNCHANGED <<row, world, sent>>

\* A statement of this request fails because its context is cancelled: the
\* database refuses it, or stops it in the middle.
ContextError(r) ==
  /\ gone[r]
  /\ \/ pc[r] \in {"get", "checkpoint", "swap", "resume"}
     \/ kind[r] = "cancel" /\ pc[r] \in {"stop", "cancel"}
  /\ Return(r)
  /\ UNCHANGED <<row, world, sent>>

-----------------------------------------------------------------------------
(***************************************************************************)
(* Service.cancel, for a cancel request and for a context that ended.  The *)
(* latter runs on a context that nobody cancels.                           *)
(***************************************************************************)
\* A cancel request that succeeds also cancels the registered context.
Acknowledge(r) ==
  /\ acked' = (acked \/ kind[r] = "cancel")
  /\ Goto(r, "idle")
  /\ running' = IF block[r] > 0 THEN None ELSE running
  /\ kind' = [kind EXCEPT ![r] = "none"]
  /\ cmd' = [cmd EXCEPT ![r] = None]
  /\ seen' = [seen EXCEPT ![r] = NothingSeen]
  /\ own' = [own EXCEPT ![r] = 0]
  /\ block' = [block EXCEPT ![r] = 0]
  /\ gone' = [q \in Requests |-> IF q = r THEN FALSE
                                 ELSE gone[q] \/ (kind[r] = "cancel" /\ q = running)]

StopChecked(r) ==
  /\ pc[r] = "stop" /\ (gone[r] => kind[r] # "cancel")
  /\ IF Rules!IsTerminal(run.state)
       THEN Acknowledge(r)
       ELSE /\ See(r, run, run.gen)
            /\ Goto(r, "cancel")
            /\ UNCHANGED <<running, kind, cmd, own, block, gone, acked>>
  /\ UNCHANGED <<run, world, sent, contexts, applied>>

CancelAdvance(r) ==
  /\ pc[r] = "cancel" /\ (gone[r] => kind[r] # "cancel") /\ Current(r)
  /\ Move("CANCELLED", run.gen, 0)
  /\ Acknowledge(r)
  /\ UNCHANGED <<world, sent, contexts, applied>>

\* Mutated form of Refused: every conflict is answered like a cancelled run.
NeverRefused(r) == FALSE

\* A conflict is an error, unless the other request cancelled the run.
Refused(r) == run.state # "CANCELLED"

CancelConflict(r) ==
  /\ pc[r] = "cancel" /\ (gone[r] => kind[r] # "cancel") /\ ~Current(r)
  /\ IF Refused(r) THEN Return(r) /\ UNCHANGED acked ELSE Acknowledge(r)
  /\ UNCHANGED <<run, world, sent, contexts, applied>>

-----------------------------------------------------------------------------
\* The database or the analyser fails, or the answer to a commit is lost
\* (that is the failure of the request's next step): the request ends.
RequestFails(r) ==
  /\ pc[r] # "idle"
  /\ faults < MaxFaults /\ faults' = faults + 1
  /\ Return(r)
  /\ UNCHANGED <<row, now, waited, sent>>

\* The process restarts; every request ends without an answer.
Crash ==
  /\ \E r \in Requests : pc[r] # "idle"
  /\ faults < MaxFaults /\ faults' = faults + 1
  /\ running' = None
  /\ pc' = [r \in Requests |-> "idle"]
  /\ kind' = [r \in Requests |-> "none"]
  /\ cmd' = [r \in Requests |-> None]
  /\ seen' = [r \in Requests |-> NothingSeen]
  /\ own' = [r \in Requests |-> 0]
  /\ block' = [r \in Requests |-> 0]
  /\ gone' = [r \in Requests |-> FALSE]
  /\ UNCHANGED <<row, now, waited, sent>>

Tick ==
  /\ now < MaxTime
  /\ now' = now + 1
  /\ waited' = IF run.state = "WAITING_USER" THEN waited + 1 ELSE waited
  /\ UNCHANGED <<row, running, local, sent, faults>>

Handle(r) ==
  \/ GetOwned(r) \/ LatestCheckpoint(r) \/ NextBlock(r) \/ ResumeChecked(r)
  \/ Analyze(r) \/ AnalysisStops(r)
  \/ AdvanceStarts(r) \/ Advance(r) \/ AdvanceRefused(r)
  \/ ResumeAdvance(r) \/ ResumeReplayed(r) \/ ContextError(r)
  \/ StopChecked(r) \/ CancelAdvance(r) \/ CancelConflict(r)

Arrive(r) == Start(r) \/ Cancel(r) \/ \E c \in Commands : Resume(r, c)

Next == Tick \/ Crash \/ \E r \in Requests : Arrive(r) \/ Disconnect(r) \/ RequestFails(r) \/ Handle(r)

Spec == Init /\ [][Next]_vars

-----------------------------------------------------------------------------
\* The run's row implements the lifecycle that domain.go promises, whatever
\* the requests read before it moved.
Lifecycle == INSTANCE RunLifecycle WITH
  state <- run.state, version <- run.version, used <- run.used
LifecycleKept == Lifecycle!Spec

\* A resume command changes the run at most once, however often and late it
\* is sent and whatever else the user did in between.
ResumeAppliesOnce == \A c \in Commands : applied[c] <= 1

\* service.go: "Human think time and service downtime while paused are not
\* execution time": the deadline is the timeout after the start, and the
\* pauses are added exactly once.
PausesAreFree ==
  run.state \in Active => run.deadline = run.started + Timeout + waited

\* A cancellation that was answered with success found a run that is over.
AckedIsOver == acked => Rules!IsTerminal(run.state)

\* Requests that race, conflict and are cancelled never all give up: unless a
\* client left or something failed, a run that nobody works on has a result, a
\* question to the user, or an end.
NobodyGivesUp ==
  faults = 0 /\ (\A r \in Requests : pc[r] = "idle") => run.state \notin Active
=============================================================================
