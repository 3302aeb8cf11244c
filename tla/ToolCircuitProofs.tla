--------------------------- MODULE ToolCircuitProofs ---------------------------
(***************************************************************************)
(* Proofs about ToolCircuit, for any number of calls and keys and for      *)
(* every threshold, window and timeout that ToolAssumption allows.         *)
(*                                                                         *)
(* The argument for OneProbe is about time.  A call that executes was      *)
(* admitted at most Timeout ago (Clock).  While the circuit is open, every *)
(* call that still executes was admitted no later than the moment it       *)
(* opened (Admitted), because nothing is admitted meanwhile.  The probe is *)
(* admitted CircuitOpen after that moment, and Timeout < CircuitOpen: by   *)
(* then all of them have returned (Probing).                               *)
(***************************************************************************)
EXTENDS ToolCircuit, FiniteSetTheorems, TLAPS

\* A call executes between its admission and its deadline.
Clock == \A c \in Calls : pc[c] = "execute" =>
  now <= deadline[c] /\ deadline[c] <= now + Timeout

\* What executes while the circuit is open was admitted before it opened.
Admitted == state = "open" =>
  /\ openedAt <= now
  /\ \A c \in Calls : pc[c] = "execute" => deadline[c] <= openedAt + Timeout

\* What executes while the circuit is half open is the probe.
Probing == state = "half_open" =>
  /\ probeInFlight
  /\ \E p \in Calls : \A c \in Calls : pc[c] = "execute" => c = p

\* How old a call's stale candidate can be at each place in Invoke.
Candidates == \A c \in Calls : stale[c] # NoEntry =>
  /\ pc[c] = "allow" => now < stale[c] + StaleIfError
  /\ pc[c] = "execute" => deadline[c] < stale[c] + StaleIfError + Timeout
  /\ pc[c] = "fallback" => now < stale[c] + StaleIfError + Timeout

IInv == TypeOK /\ Clock /\ Admitted /\ Probing /\ Candidates /\ ThresholdKept /\ StaleIsBounded

-----------------------------------------------------------------------------
\* The initial state satisfies the invariant.
LEMMA IInit == Init => IInv
<1> SUFFICES ASSUME Init PROVE IInv
  OBVIOUS
<1> USE ToolAssumption DEF Init
<1>1. TypeOK
  <2>1. NoReply \in [status: Statuses, age: Int]
    BY DEF NoReply, Statuses
  <2>2. now \in Times /\ openedAt \in Times
    BY DEF Times
  <2>3. pc \in [Calls -> Where] /\ outcome \in [Calls -> {"none", "error", "timeout"}]
    BY DEF Where
  <2>4. ctx \in [Calls -> {"live", "cancelled", "expired"}]
    OBVIOUS
  <2>5. deadline \in [Calls -> Int] /\ attempt \in [Calls -> Nat]
    OBVIOUS
  <2>6. cache \in [Keys -> Int \cup {NoEntry}] /\ stale \in [Calls -> Int \cup {NoEntry}]
    OBVIOUS
  <2> QED BY <2>1, <2>2, <2>3, <2>4, <2>5, <2>6 DEF TypeOK
<1>2. Clock /\ Admitted /\ Probing /\ Candidates
  BY DEF Clock, Admitted, Probing, Candidates
<1>3. ThresholdKept /\ StaleIsBounded
  BY DEF ThresholdKept, StaleIsBounded, NoReply
<1> QED BY <1>1, <1>2, <1>3 DEF IInv

\* Invoke's return leaves the call idle and everything local to it cleared.
LEMMA FinishType ==
  ASSUME TypeOK, NEW c \in Calls, NEW s \in Statuses, NEW age \in Int, Finish(c, s, age)
  PROVE  /\ pc' \in [Calls -> Where] /\ ctx' \in [Calls -> {"live", "cancelled", "expired"}]
         /\ deadline' \in [Calls -> Int] /\ attempt' \in [Calls -> Nat]
         /\ stale' \in [Calls -> Int \cup {NoEntry}]
         /\ outcome' \in [Calls -> {"none", "error", "timeout"}]
         /\ reply' \in [status: Statuses, age: Int]
BY DEF TypeOK, Finish, Goto, Where

\* What a failure leaves in the breaker.
LEMMA FailureType ==
  ASSUME TypeOK, Failure
  PROVE  /\ state' \in {"closed", "open", "half_open"} /\ failures' \in Nat
         /\ openedAt' \in Times /\ probeInFlight' \in BOOLEAN
<1>1. \/ state' = "open" /\ openedAt' = now
      \/ state' = state /\ openedAt' = openedAt
  BY DEF Failure
<1>2. failures' \in Nat
  BY DEF TypeOK, Failure
<1>3. probeInFlight' \in BOOLEAN
  BY DEF Failure
<1>4. state' \in {"closed", "open", "half_open"} /\ openedAt' \in Times
  BY <1>1 DEF TypeOK
<1> QED BY <1>2, <1>3, <1>4

\* The age of an entry that exists is a number.
LEMMA AgeType ==
  ASSUME TypeOK, NEW e \in Int \cup {NoEntry}, e # NoEntry
  PROVE  e \in Int /\ AgeOf(e) \in Int
BY ToolAssumption DEF TypeOK, AgeOf, Times

\* Each step of a call keeps every variable in its type.
LEMMA StepType == ASSUME TypeOK, NEW c \in Calls, Step(c) PROVE TypeOK'
<1> USE ToolAssumption
<1>k. KeyOf[c] \in Keys
  OBVIOUS
<1>q. NoReply \in [status: Statuses, age: Int]
  BY DEF NoReply, Statuses
<1>1. CASE Hit(c)
  <2>1. cache[KeyOf[c]] \in Int \cup {NoEntry} /\ cache[KeyOf[c]] # NoEntry
    BY <1>1, <1>k DEF Hit, Fresh, TypeOK
  <2>2. AgeOf(cache[KeyOf[c]]) \in Int /\ "hit" \in Statuses
    BY <2>1, AgeType DEF Statuses
  <2> QED BY <1>1, <2>2, FinishType DEF Hit, TypeOK, breaker
<1>2. CASE Miss(c)
  BY <1>2, <1>k, <1>q DEF Miss, TypeOK, breaker, Goto, Silent, Where
<1>3. CASE Allow(c)
  BY <1>3, <1>q DEF Allow, TypeOK, Goto, Silent, Where, Times
<1>4. CASE FailFast(c)
  <2>1. CASE HasFallback(c)
    <3>1. AgeOf(stale[c]) \in Int /\ "stale" \in Statuses
      BY <2>1, AgeType DEF HasFallback, TypeOK, Statuses
    <3> QED BY <1>4, <2>1, <3>1, FinishType DEF FailFast, TypeOK, breaker
  <2>2. CASE ~HasFallback(c)
    <3>1. 0 \in Int /\ "open" \in Statuses
      BY DEF Statuses
    <3> QED BY <1>4, <2>2, <3>1, FinishType DEF FailFast, TypeOK, breaker
  <2> QED BY <2>1, <2>2
<1>5. CASE Retry(c)
  BY <1>5, <1>q DEF Retry, TypeOK, breaker, Silent
<1>6. CASE ReturnResult(c)
  BY <1>6, <1>q DEF ReturnResult, Success, TypeOK, Goto, Silent, Where
<1>7. CASE ReturnUnusable(c)
  <2>1. 0 \in Int /\ "error" \in Statuses
    BY DEF Statuses
  <2> QED BY <1>7, <2>1, FinishType, FailureType DEF ReturnUnusable, TypeOK
<1>8. CASE ReturnError(c)
  <2>1. outcome' \in [Calls -> {"none", "error", "timeout"}]
    BY <1>8 DEF ReturnError, TypeOK
  <2> QED BY <1>8, <1>q, <2>1, FailureType DEF ReturnError, TypeOK, Goto, Silent, Where
<1>9. CASE ReturnCancelled(c)
  <2>1. 0 \in Int /\ "cancelled" \in Statuses
    BY DEF Statuses
  <2> QED BY <1>9, <2>1, FinishType DEF ReturnCancelled, TypeOK, breaker
<1>10. CASE Fallback(c)
  <2>1. CASE HasFallback(c)
    <3>1. AgeOf(stale[c]) \in Int /\ "stale" \in Statuses
      BY <2>1, AgeType DEF HasFallback, TypeOK, Statuses
    <3> QED BY <1>10, <2>1, <3>1, FinishType DEF Fallback, TypeOK, breaker
  <2>2. CASE ~HasFallback(c)
    <3>1. 0 \in Int /\ outcome[c] \in Statuses
      BY DEF Statuses, TypeOK
    <3> QED BY <1>10, <2>2, <3>1, FinishType DEF Fallback, TypeOK, breaker
  <2> QED BY <2>1, <2>2
<1>11. CASE Store(c)
  <2>1. 0 \in Int /\ "success" \in Statuses
    BY DEF Statuses
  <2>2. cache' \in [Keys -> Int \cup {NoEntry}]
    BY <1>11, <1>k DEF Store, TypeOK, Times
  <2> QED BY <1>11, <2>1, <2>2, FinishType DEF Store, TypeOK, breaker
<1> QED BY <1>1, <1>2, <1>3, <1>4, <1>5, <1>6, <1>7, <1>8, <1>9, <1>10, <1>11 DEF Step

\* Every step keeps every variable in its type.
LEMMA TypeStep == ASSUME TypeOK, [Next]_vars PROVE TypeOK'
<1>q. NoReply \in [status: Statuses, age: Int]
  BY DEF NoReply, Statuses
<1>1. CASE Tick
  BY <1>1, <1>q, ToolAssumption DEF Tick, TypeOK, breaker, Silent, Times
<1>2. CASE \E c \in Calls : Invoke(c)
  BY <1>2, <1>q DEF Invoke, TypeOK, breaker, Goto, Silent, Where
<1>3. CASE \E c \in Calls : CallerEnds(c)
  BY <1>3, <1>q DEF CallerEnds, TypeOK, breaker, Silent
<1>4. CASE \E c \in Calls : Step(c)
  BY <1>4, StepType
<1>5. CASE UNCHANGED vars
  BY <1>5 DEF vars, TypeOK
<1> QED BY <1>1, <1>2, <1>3, <1>4, <1>5 DEF Next

-----------------------------------------------------------------------------
\* A failure keeps the breaker's counter and state in agreement.
LEMMA FailureThreshold ==
  ASSUME TypeOK, ThresholdKept, Failure
  PROVE  ThresholdKept'
<1> USE ToolAssumption DEF TypeOK, ThresholdKept, Failure
<1>1. CASE state = "half_open" \/ failures + 1 >= CircuitFailures
  BY <1>1
<1>2. CASE ~(state = "half_open" \/ failures + 1 >= CircuitFailures)
  BY <1>2
<1> QED BY <1>1, <1>2

\* Every step keeps them in agreement.
LEMMA ThresholdStep == ASSUME TypeOK, ThresholdKept, [Next]_vars PROVE ThresholdKept'
<1>1. CASE UNCHANGED breaker
  BY <1>1 DEF breaker, ThresholdKept
<1>2. CASE Failure
  BY <1>2, FailureThreshold
<1>3. CASE Success
  BY <1>3, ToolAssumption DEF Success, ThresholdKept
<1>4. ASSUME NEW c \in Calls, Allow(c) PROVE ThresholdKept'
  BY <1>4 DEF Allow, TypeOK, ThresholdKept
<1>5. \/ UNCHANGED breaker \/ Failure \/ Success \/ \E c \in Calls : Allow(c)
  BY DEF Next, vars, breaker, Tick, Invoke, CallerEnds, Step, Hit, Miss, FailFast, Retry,
         ReturnResult, ReturnUnusable, ReturnError, ReturnCancelled, Fallback, Store
<1> QED BY <1>1, <1>2, <1>3, <1>4, <1>5

-----------------------------------------------------------------------------
\* How a step changes what executes: nothing is admitted, or one call is; and
\* time passes only before every deadline.
LEMMA ExecutingStep ==
  ASSUME TypeOK, Clock, [Next]_vars
  PROVE  \/ /\ now' = now
            /\ \A c \in Calls : pc'[c] = "execute" =>
                 pc[c] = "execute" /\ deadline'[c] = deadline[c]
         \/ /\ now' = now /\ UNCHANGED openedAt
            /\ \E c \in Calls :
                 /\ Allow(c)
                 /\ deadline'[c] = now + Timeout
                 /\ \A e \in Calls \ {c} : pc'[e] = "execute" =>
                      pc[e] = "execute" /\ deadline'[e] = deadline[e]
         \/ /\ now' = now + 1 /\ UNCHANGED <<breaker, pc, deadline>>
            /\ \A c \in Calls : pc[c] = "execute" => now < deadline[c]
<1>1. CASE Tick
  BY <1>1, ToolAssumption DEF Tick, TypeOK, ContextDone, Times
<1>2. ASSUME NEW c \in Calls, Invoke(c) \/ CallerEnds(c)
      PROVE  now' = now /\ \A e \in Calls : pc'[e] = "execute" =>
               pc[e] = "execute" /\ deadline'[e] = deadline[e]
  BY <1>2 DEF Invoke, CallerEnds, Goto, TypeOK
<1>3. ASSUME NEW c \in Calls, Allow(c)
      PROVE  /\ now' = now /\ UNCHANGED openedAt
             /\ deadline'[c] = now + Timeout
             /\ \A e \in Calls \ {c} : pc'[e] = "execute" =>
                  pc[e] = "execute" /\ deadline'[e] = deadline[e]
  BY <1>3 DEF Allow, Goto, TypeOK
<1>4. ASSUME NEW c \in Calls, Step(c), ~Allow(c)
      PROVE  now' = now /\ \A e \in Calls : pc'[e] = "execute" =>
               pc[e] = "execute" /\ deadline'[e] = deadline[e]
  <2>1. ASSUME NEW s, NEW age, Finish(c, s, age)
        PROVE  \A e \in Calls : pc'[e] = "execute" =>
                 pc[e] = "execute" /\ deadline'[e] = deadline[e]
    BY <2>1 DEF Finish, Goto, TypeOK
  <2>2. CASE \E s, age : Finish(c, s, age)
    BY <1>4, <2>1, <2>2 DEF Step, Hit, Miss, FailFast, Retry, ReturnResult, ReturnUnusable,
       ReturnError, ReturnCancelled, Fallback, Store
  <2>3. CASE Miss(c) \/ Retry(c) \/ ReturnResult(c) \/ ReturnError(c)
    BY <2>3 DEF Miss, Retry, ReturnResult, ReturnError, Goto, TypeOK
  <2>4. \/ \E s, age : Finish(c, s, age)
        \/ Miss(c) \/ Retry(c) \/ ReturnResult(c) \/ ReturnError(c)
    BY <1>4 DEF Step, Hit, FailFast, ReturnUnusable, ReturnCancelled, Fallback, Store
  <2> QED BY <2>2, <2>3, <2>4
<1>5. CASE UNCHANGED vars
  BY <1>5 DEF vars, TypeOK
<1> QED BY <1>1, <1>2, <1>3, <1>4, <1>5 DEF Next

-----------------------------------------------------------------------------
\* The admission times that Clock relates to the present stay in the past.
LEMMA ClockStep == ASSUME TypeOK, Clock, [Next]_vars PROVE Clock'
<1> SUFFICES ASSUME NEW c \in Calls, pc'[c] = "execute"
             PROVE  now' <= deadline'[c] /\ deadline'[c] <= now' + Timeout
  BY DEF Clock
<1> USE ToolAssumption DEF TypeOK, Times, Clock
<1>1. CASE now' = now /\ pc[c] = "execute" /\ deadline'[c] = deadline[c]
  BY <1>1
<1>2. CASE now' = now /\ deadline'[c] = now + Timeout
  BY <1>2
<1>3. CASE now' = now + 1 /\ pc[c] = "execute" /\ deadline'[c] = deadline[c] /\ now < deadline[c]
  BY <1>3
<1> QED BY <1>1, <1>2, <1>3, ExecutingStep

\* How the breaker's state changes.
LEMMA BreakerStep ==
  ASSUME TypeOK, [Next]_vars
  PROVE  \/ UNCHANGED breaker
         \/ Failure /\ UNCHANGED now
         \/ Success /\ UNCHANGED now
         \/ \E c \in Calls : Allow(c)
BY DEF Next, vars, breaker, Tick, Invoke, CallerEnds, Step, Hit, Miss, FailFast, Retry,
       ReturnResult, ReturnUnusable, ReturnError, ReturnCancelled, Fallback, Store

\* The circuit opens at the present, so whatever executes was admitted before.
LEMMA AdmittedStep == ASSUME TypeOK, Clock, Admitted, [Next]_vars PROVE Admitted'
<1> SUFFICES ASSUME state' = "open"
             PROVE  openedAt' <= now' /\ \A c \in Calls : pc'[c] = "execute" =>
                      deadline'[c] <= openedAt' + Timeout
  BY DEF Admitted
<1> USE ToolAssumption
<1>t. now \in Int /\ openedAt \in Int
  BY DEF TypeOK, Times
<1>1. ~\E c \in Calls : Allow(c)
  BY DEF Allow, TypeOK
<1>2. \/ /\ now' = now
         /\ \A c \in Calls : pc'[c] = "execute" => pc[c] = "execute" /\ deadline'[c] = deadline[c]
      \/ now' = now + 1 /\ UNCHANGED <<breaker, pc, deadline>>
  BY <1>1, ExecutingStep
<1>3. CASE state = "open" /\ openedAt' = openedAt
  BY <1>2, <1>3, <1>t DEF Admitted
<1>4. CASE openedAt' = now /\ now' = now
  BY <1>2, <1>4, <1>t DEF Clock
<1>5. \/ UNCHANGED breaker
      \/ Failure /\ UNCHANGED now
      \/ Success /\ UNCHANGED now
  BY <1>1, BreakerStep
<1>6. CASE Failure /\ UNCHANGED now
  BY <1>3, <1>4, <1>6 DEF Failure
<1> QED BY <1>3, <1>5, <1>6 DEF Success, breaker

\* The probe is admitted when everything admitted before has returned, and
\* nothing is admitted while it executes.
LEMMA ProbingStep ==
  ASSUME TypeOK, Clock, Admitted, Probing, [Next]_vars
  PROVE  Probing'
<1> SUFFICES ASSUME state' = "half_open"
             PROVE  /\ probeInFlight'
                    /\ \E p \in Calls : \A c \in Calls : pc'[c] = "execute" => c = p
  BY DEF Probing
<1> USE ToolAssumption
<1>t. now \in Int /\ openedAt \in Int /\ deadline \in [Calls -> Int]
  BY DEF TypeOK, Times
<1>1. CASE \E c \in Calls : Allow(c)
  <2>1. PICK p \in Calls : Allow(p)
    BY <1>1
  <2>2. state = "open" /\ now - openedAt >= CircuitOpen
    BY <2>1 DEF Allow, Allows, Probing, TypeOK
  <2>3. \A c \in Calls : pc[c] # "execute"
    BY <2>2, <1>t DEF Admitted, Clock
  <2>4. \A c \in Calls : pc'[c] = "execute" => c = p
    BY <2>1, <2>3 DEF Allow, Goto, TypeOK
  <2>5. probeInFlight'
    BY <2>1, <2>2 DEF Allow
  <2> QED BY <2>4, <2>5
<1>2. CASE UNCHANGED breaker /\ ~\E c \in Calls : Allow(c)
  <2>1. probeInFlight' /\ \E p \in Calls : \A c \in Calls : pc[c] = "execute" => c = p
    BY <1>2 DEF breaker, Probing
  <2>2. \A c \in Calls : pc'[c] = "execute" => pc[c] = "execute"
    BY <1>2, ExecutingStep
  <2> QED BY <2>1, <2>2
<1>3. ~Failure /\ ~Success
  BY DEF Failure, Success
<1> QED BY <1>1, <1>2, <1>3, BreakerStep

-----------------------------------------------------------------------------
\* Returning clears the call's candidate and changes no other call.
LEMMA FinishCandidates ==
  ASSUME TypeOK, Candidates, UNCHANGED now, NEW c \in Calls, NEW s, NEW age, Finish(c, s, age)
  PROVE  Candidates'
BY DEF TypeOK, Candidates, Finish, Goto

\* A candidate is in its stale window when it is found, and at most Timeout
\* beyond it when the call has executed.
LEMMA CandidatesStep == ASSUME TypeOK, Clock, Candidates, [Next]_vars PROVE Candidates'
<1> USE ToolAssumption
<1>t. now \in Int /\ deadline \in [Calls -> Int] /\ stale \in [Calls -> Int \cup {NoEntry}]
  BY DEF TypeOK, Times
<1>p. pc \in [Calls -> Where]
  BY DEF TypeOK
<1>1. CASE Tick
  BY <1>1, <1>t DEF Tick, Candidates, Where, Clock, breaker
<1>2. ASSUME NEW c \in Calls, Invoke(c) \/ CallerEnds(c) PROVE Candidates'
  BY <1>2, <1>t, <1>p DEF Invoke, CallerEnds, Goto, Candidates
<1>3. ASSUME NEW c \in Calls, Step(c) PROVE Candidates'
  <2>1. CASE Miss(c)
    <3>1. cache[KeyOf[c]] \in Int \cup {NoEntry}
      BY DEF TypeOK
    <3> QED BY <2>1, <3>1, <1>t, <1>p DEF Miss, Goto, Candidates, Usable
  <2>2. CASE Allow(c)
    BY <2>2, <1>t, <1>p DEF Allow, Goto, Candidates
  <2>3. CASE Retry(c)
    BY <2>3, <1>t DEF Retry, Candidates
  <2>4. CASE ReturnResult(c)
    BY <2>4, <1>t, <1>p DEF ReturnResult, Goto, Candidates
  <2>5. CASE ReturnError(c)
    BY <2>5, <1>t, <1>p DEF ReturnError, Goto, Candidates, Clock
  <2>6. CASE UNCHANGED now /\ \E s, age : Finish(c, s, age)
    BY <2>6, FinishCandidates
  <2> QED BY <1>3, <2>1, <2>2, <2>3, <2>4, <2>5, <2>6 DEF Step, Hit, FailFast, ReturnUnusable,
         ReturnCancelled, Fallback, Store
<1>4. CASE UNCHANGED vars
  BY <1>4 DEF vars, Candidates
<1> QED BY <1>1, <1>2, <1>3, <1>4 DEF Next

\* What is answered from the cache is as young as StaleIsBounded says.
LEMMA StaleStep ==
  ASSUME TypeOK, Clock, Candidates, StaleIsBounded, [Next]_vars
  PROVE  StaleIsBounded'
<1> USE ToolAssumption
<1>t. now \in Int /\ stale \in [Calls -> Int \cup {NoEntry}]
  BY DEF TypeOK, Times
<1>1. CASE reply'.status \notin {"hit", "stale"}
  BY <1>1 DEF StaleIsBounded
<1>2. ASSUME NEW c \in Calls, Hit(c) PROVE StaleIsBounded'
  <2>1. cache[KeyOf[c]] \in Int \cup {NoEntry}
    BY DEF TypeOK
  <2> QED BY <1>2, <2>1, <1>t DEF Hit, Fresh, AgeOf, Finish, StaleIsBounded
<1>3. ASSUME NEW c \in Calls, FailFast(c) \/ Fallback(c) PROVE StaleIsBounded'
  <2>1. CASE ~HasFallback(c)
    BY <1>3, <2>1 DEF FailFast, Fallback, Finish, StaleIsBounded, TypeOK
  <2>2. CASE HasFallback(c)
    <3>1. reply' = [status |-> "stale", age |-> AgeOf(stale[c])]
      BY <1>3, <2>2 DEF FailFast, Fallback, Finish
    <3>2. stale[c] \in Int /\ now < stale[c] + StaleIfError + Timeout
      BY <1>3, <2>2, <1>t DEF FailFast, Fallback, HasFallback, Candidates
    <3> QED BY <3>1, <3>2, <1>t DEF AgeOf, StaleIsBounded
  <2> QED BY <2>1, <2>2
<1>4. CASE UNCHANGED vars
  BY <1>4 DEF vars, StaleIsBounded
<1>5. \/ UNCHANGED vars
      \/ reply'.status \notin {"hit", "stale"}
      \/ \E c \in Calls : Hit(c) \/ FailFast(c) \/ Fallback(c)
  <2>1. ASSUME NEW c \in Calls, Step(c), ~(Hit(c) \/ FailFast(c) \/ Fallback(c))
        PROVE  reply'.status \notin {"hit", "stale"}
    BY <2>1 DEF Step, Miss, Allow, Retry, ReturnResult, ReturnUnusable, ReturnError,
         ReturnCancelled, Store, Finish, Silent, NoReply
  <2>2. CASE Tick \/ \E c \in Calls : Invoke(c) \/ CallerEnds(c)
    BY <2>2 DEF Tick, Invoke, CallerEnds, Silent, NoReply
  <2> QED BY <2>1, <2>2 DEF Next
<1> QED BY <1>1, <1>2, <1>3, <1>4, <1>5

-----------------------------------------------------------------------------
\* The invariant is inductive.
LEMMA IStep == ASSUME IInv, [Next]_vars PROVE IInv'
BY TypeStep, ClockStep, AdmittedStep, ProbingStep, CandidatesStep, ThresholdStep, StaleStep
   DEF IInv

\* The invariant is inductive.
THEOREM Inductive == Spec => []IInv
BY IInit, IStep, PTL DEF Spec

\* Every variable keeps its type.
THEOREM TypeCorrect == Spec => []TypeOK
<1>1. IInv => TypeOK
  BY DEF IInv
<1> QED BY <1>1, Inductive, PTL

\* However many calls were admitted before the circuit opened, none of them is
\* left when the half-open probe is: it alone uses the tool.
THEOREM ProbeIsAlone == Spec => []OneProbe
<1>1. IInv => OneProbe
  <2> SUFFICES ASSUME IInv, state = "half_open" PROVE Cardinality(Executing) <= 1
    BY DEF OneProbe
  <2>1. PICK p \in Calls : \A c \in Calls : pc[c] = "execute" => c = p
    BY DEF IInv, Probing
  <2>2. Executing \subseteq {p}
    BY <2>1 DEF Executing
  <2>3. IsFiniteSet({p}) /\ Cardinality({p}) = 1
    BY FS_Singleton
  <2> QED BY <2>2, <2>3, FS_Subset
<1> QED BY <1>1, Inductive, PTL

\* The breaker is closed exactly below its threshold.
THEOREM ThresholdAlways == Spec => []ThresholdKept
<1>1. IInv => ThresholdKept
  BY DEF IInv
<1> QED BY <1>1, Inductive, PTL

\* No caller gets data older than the TTL, the stale window and one timeout.
THEOREM BoundedStaleness == Spec => []StaleIsBounded
<1>1. IInv => StaleIsBounded
  BY DEF IInv
<1> QED BY <1>1, Inductive, PTL
=============================================================================
