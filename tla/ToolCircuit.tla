------------------------------ MODULE ToolCircuit ------------------------------
(***************************************************************************)
(* Runtime.Invoke of the governed tool runtime, for concurrent calls of    *)
(* one tool: the result cache with its stale-if-error window, the circuit  *)
(* breaker, the retry loop under one timeout, and callers that cancel or   *)
(* run out of time at any point.                                           *)
(*                                                                         *)
(* The breaker and the cache have a mutex each, so every use of one is one *)
(* step.  Time passes only while calls execute the tool: the rest of       *)
(* Invoke is instantaneous on the scale of milliseconds, but every         *)
(* interleaving at one instant is explored.  The tool is external: it      *)
(* returns anything at any time, at the latest when its context ends.      *)
(* The governance gates before the cache (registry, schema, intent,        *)
(* permission, side effect, budget) touch no shared state and are left     *)
(* out, and so is the request-scoped ActionGuard.                          *)
(***************************************************************************)
EXTENDS Integers, FiniteSets

CONSTANTS Calls,            \* concurrent invocations of the tool
          Keys,             \* cache keys: arguments and principal
          KeyOf,            \* the key each call uses
          CircuitFailures,  \* failures that open the circuit
          CircuitOpen,      \* how long it stays open
          Timeout,          \* of one invocation, all attempts together
          RetryMaxAttempts,
          CacheTTL,
          StaleIfError,
          MaxTime,          \* bound: the clock
          NoEntry           \* no cached result

Times == 0..MaxTime

\* Every registered definition has a timeout shorter than its open window;
\* validateDefinition does not ask for it.
ASSUME ToolAssumption ==
  /\ CircuitFailures \in Nat /\ CircuitFailures >= 1
  /\ CircuitOpen \in Nat /\ Timeout \in Nat /\ Timeout < CircuitOpen
  /\ RetryMaxAttempts \in Nat /\ RetryMaxAttempts >= 1
  /\ CacheTTL \in Nat /\ CacheTTL >= 1 /\ StaleIfError \in Nat
  /\ MaxTime \in Nat
  /\ NoEntry \notin Int
  /\ KeyOf \in [Calls -> Keys]

VARIABLES now,
          state, failures, openedAt, probeInFlight, \* breakerState
          cache,    \* the time at which a key's entry expires
          pc,       \* where each call is in Invoke
          ctx,      \* the caller's context
          deadline, \* of its callContext
          attempt,
          stale,    \* its stale candidate: when that entry expired
          outcome,  \* the status of a failed execution
          reply     \* the ToolMessage returned in this step, if any

breaker == <<state, failures, openedAt, probeInFlight>>
vars    == <<now, state, failures, openedAt, probeInFlight, cache,
             pc, ctx, deadline, attempt, stale, outcome, reply>>

Where    == {"idle", "lookup", "allow", "execute", "fallback", "store"}
Statuses == {"none", "hit", "stale", "success", "error", "timeout", "cancelled", "open"}
NoReply  == [status |-> "none", age |-> 0]

TypeOK ==
  /\ now \in Times
  /\ state \in {"closed", "open", "half_open"}
  /\ failures \in Nat
  /\ openedAt \in Times
  /\ probeInFlight \in BOOLEAN
  /\ cache \in [Keys -> Int \cup {NoEntry}]
  /\ pc \in [Calls -> Where]
  /\ ctx \in [Calls -> {"live", "cancelled", "expired"}]
  /\ deadline \in [Calls -> Int]
  /\ attempt \in [Calls -> Nat]
  /\ stale \in [Calls -> Int \cup {NoEntry}]
  /\ outcome \in [Calls -> {"none", "error", "timeout"}]
  /\ reply \in [status: Statuses, age: Int]

Init ==
  /\ now = 0
  /\ state = "closed" /\ failures = 0 /\ openedAt = 0 /\ probeInFlight = FALSE
  /\ cache = [k \in Keys |-> NoEntry]
  /\ pc = [c \in Calls |-> "idle"]
  /\ ctx = [c \in Calls |-> "live"]
  /\ deadline = [c \in Calls |-> 0]
  /\ attempt = [c \in Calls |-> 0]
  /\ stale = [c \in Calls |-> NoEntry]
  /\ outcome = [c \in Calls |-> "none"]
  /\ reply = NoReply

Silent == reply' = NoReply
Goto(c, step) == pc' = [pc EXCEPT ![c] = step]

-----------------------------------------------------------------------------
\* A caller invokes the tool (again).
Invoke(c) ==
  /\ pc[c] = "idle"
  /\ Goto(c, "lookup") /\ Silent
  /\ UNCHANGED <<now, breaker, cache, ctx, deadline, attempt, stale, outcome>>

\* The caller goes away, or its own deadline passes.
CallerEnds(c) ==
  /\ pc[c] # "idle" /\ ctx[c] = "live"
  /\ \E how \in {"cancelled", "expired"} : ctx' = [ctx EXCEPT ![c] = how]
  /\ Silent
  /\ UNCHANGED <<now, breaker, cache, pc, deadline, attempt, stale, outcome>>

Executing == {c \in Calls : pc[c] = "execute"}

\* A context that ends makes the tool return, so time waits for it.
ContextDone(c) == ctx[c] # "live" \/ now >= deadline[c]

Tick ==
  /\ now < MaxTime
  /\ \A c \in Calls : pc[c] = "idle" \/ (pc[c] = "execute" /\ ~ContextDone(c))
  /\ now' = now + 1
  /\ Silent
  /\ UNCHANGED <<breaker, cache, pc, ctx, deadline, attempt, stale, outcome>>

-----------------------------------------------------------------------------
\* Invoke returns; what is local to the call is forgotten.
Finish(c, status, age) ==
  /\ Goto(c, "idle")
  /\ reply' = [status |-> status, age |-> age]
  /\ ctx' = [ctx EXCEPT ![c] = "live"]
  /\ deadline' = [deadline EXCEPT ![c] = 0]
  /\ attempt' = [attempt EXCEPT ![c] = 0]
  /\ stale' = [stale EXCEPT ![c] = NoEntry]
  /\ outcome' = [outcome EXCEPT ![c] = "none"]

\* The age of the data of an entry that expires at e.
AgeOf(e) == now - (e - CacheTTL)

Fresh(e) == e # NoEntry /\ now < e

\* Mutated form of Usable: the stale window never ends.
UsableForEver(e) == e # NoEntry

Usable(e) == e # NoEntry /\ now < e + StaleIfError

\* memoryToolCache.get: a hit answers at once, an entry in its stale window
\* becomes the candidate, an older one is deleted.
Hit(c) ==
  /\ pc[c] = "lookup" /\ Fresh(cache[KeyOf[c]])
  /\ Finish(c, "hit", AgeOf(cache[KeyOf[c]]))
  /\ UNCHANGED <<now, breaker, cache>>

Miss(c) ==
  LET e == cache[KeyOf[c]] IN
  /\ pc[c] = "lookup" /\ ~Fresh(e)
  /\ Goto(c, "allow") /\ Silent
  /\ stale' = [stale EXCEPT ![c] = IF Usable(e) THEN e ELSE NoEntry]
  /\ cache' = [cache EXCEPT ![KeyOf[c]] = IF Usable(e) THEN e ELSE NoEntry]
  /\ UNCHANGED <<now, breaker, ctx, deadline, attempt, outcome>>

\* Mutated form of Allows: the open window is not awaited.
AllowsEarly == state = "half_open" => ~probeInFlight

Allows ==
  /\ state = "open" => now - openedAt >= CircuitOpen
  /\ state = "half_open" => ~probeInFlight

Allow(c) ==
  /\ pc[c] = "allow" /\ Allows
  /\ state' = IF state = "open" THEN "half_open" ELSE state
  /\ probeInFlight' = (probeInFlight \/ state # "closed")
  /\ Goto(c, "execute") /\ Silent
  /\ deadline' = [deadline EXCEPT ![c] = now + Timeout]
  /\ attempt' = [attempt EXCEPT ![c] = 1]
  /\ UNCHANGED <<now, failures, openedAt, cache, ctx, stale, outcome>>

\* Never convert caller cancellation into apparent success: the stale
\* candidate answers only for a caller that still waits.
HasFallback(c) == stale[c] # NoEntry /\ ctx[c] = "live"

FailFast(c) ==
  /\ pc[c] = "allow" /\ ~Allows
  /\ IF HasFallback(c) THEN Finish(c, "stale", AgeOf(stale[c])) ELSE Finish(c, "open", 0)
  /\ UNCHANGED <<now, breaker, cache>>

-----------------------------------------------------------------------------
\* A retryable error of an idempotent tool is tried again under the same
\* deadline.
Retry(c) ==
  /\ pc[c] = "execute"
  /\ ~ContextDone(c) /\ attempt[c] < RetryMaxAttempts
  /\ attempt' = [attempt EXCEPT ![c] = attempt[c] + 1]
  /\ Silent
  /\ UNCHANGED <<now, breaker, cache, pc, ctx, deadline, stale, outcome>>

Success ==
  /\ state' = "closed" /\ failures' = 0 /\ probeInFlight' = FALSE
  /\ UNCHANGED openedAt

\* Mutated form of Failure: only a failed probe opens the circuit.
FailureOfProbe ==
  /\ probeInFlight' = FALSE
  /\ failures' = failures + 1
  /\ IF state = "half_open" THEN state' = "open" /\ openedAt' = now
                            ELSE UNCHANGED <<state, openedAt>>

Failure ==
  /\ probeInFlight' = FALSE
  /\ failures' = failures + 1
  /\ IF state = "half_open" \/ failures + 1 >= CircuitFailures
       THEN state' = "open" /\ openedAt' = now
       ELSE UNCHANGED <<state, openedAt>>

\* The tool may still return a result when its context ends.
ReturnResult(c) ==
  /\ pc[c] = "execute"
  /\ Success
  /\ Goto(c, "store") /\ Silent
  /\ UNCHANGED <<now, cache, ctx, deadline, attempt, stale, outcome>>

\* The result cannot be encoded or is too large: no fallback.
ReturnUnusable(c) ==
  /\ pc[c] = "execute"
  /\ Failure
  /\ Finish(c, "error", 0)
  /\ UNCHANGED <<now, cache>>

\* A deadline is looked for before a cancellation, in the context and in the
\* error: the tool may report a timeout of its own.
ReturnError(c) ==
  /\ pc[c] = "execute"
  /\ Failure
  /\ Goto(c, "fallback") /\ Silent
  /\ \/ outcome' = [outcome EXCEPT ![c] = "timeout"]
     \/ ~ContextDone(c) /\ outcome' = [outcome EXCEPT ![c] = "error"]
  /\ UNCHANGED <<now, cache, ctx, deadline, attempt, stale>>

\* The breaker does not hear of a call that was cancelled.  Tools do not
\* cancel themselves.
ReturnCancelled(c) ==
  /\ pc[c] = "execute" /\ ctx[c] = "cancelled"
  /\ Finish(c, "cancelled", 0)
  /\ UNCHANGED <<now, breaker, cache>>

Fallback(c) ==
  /\ pc[c] = "fallback"
  /\ IF HasFallback(c) THEN Finish(c, "stale", AgeOf(stale[c])) ELSE Finish(c, outcome[c], 0)
  /\ UNCHANGED <<now, breaker, cache>>

Store(c) ==
  /\ pc[c] = "store"
  /\ cache' = [cache EXCEPT ![KeyOf[c]] = now + CacheTTL]
  /\ Finish(c, "success", 0)
  /\ UNCHANGED <<now, breaker>>

-----------------------------------------------------------------------------
Step(c) ==
  \/ Hit(c) \/ Miss(c) \/ Allow(c) \/ FailFast(c) \/ Retry(c)
  \/ ReturnResult(c) \/ ReturnUnusable(c) \/ ReturnError(c) \/ ReturnCancelled(c)
  \/ Fallback(c) \/ Store(c)

Next == Tick \/ \E c \in Calls : Invoke(c) \/ CallerEnds(c) \/ Step(c)

Spec == Init /\ [][Next]_vars

-----------------------------------------------------------------------------
\* Calls that were admitted before the circuit opened must not be mistaken
\* for its probe: while it is half open nobody but the probe uses the tool.
OneProbe == state = "half_open" => Cardinality(Executing) <= 1

\* The breaker's counter and state agree, whatever finishes late: it is
\* closed exactly below the threshold.
ThresholdKept == state = "closed" <=> failures < CircuitFailures

\* Data is served no longer than its TTL, as a fallback no longer than the
\* stale window and the one timeout that passes between lookup and answer.
StaleIsBounded ==
  /\ reply.status = "hit" => reply.age < CacheTTL
  /\ reply.status = "stale" => reply.age < CacheTTL + StaleIfError + Timeout

=============================================================================
