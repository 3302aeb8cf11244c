------------------------------ MODULE RunLifecycle ------------------------------
(***************************************************************************)
(* What the durable state machine of a diagnostic run promises: its state  *)
(* moves along the allowed transitions only, one version at a time, its    *)
(* iterations stay within the budget, and a terminal state is final.       *)
(***************************************************************************)
EXTENDS Naturals

CONSTANT MaxIterations  \* of the budget

States == {"RECEIVED", "CONTEXT_READY", "PLANNED", "RUNNING", "WAITING_USER",
           "SUCCEEDED", "FAILED", "CANCELLED", "BUDGET_EXCEEDED"}

IsTerminal(s) == s \in {"SUCCEEDED", "FAILED", "CANCELLED", "BUDGET_EXCEEDED"}

Allowed ==
  [s \in States |->
     CASE s = "RECEIVED"      -> {"CONTEXT_READY", "FAILED", "CANCELLED"}
       [] s = "CONTEXT_READY" -> {"PLANNED", "FAILED", "CANCELLED"}
       [] s = "PLANNED"       -> {"RUNNING", "FAILED", "CANCELLED"}
       [] s = "RUNNING"       -> {"WAITING_USER", "SUCCEEDED", "FAILED", "CANCELLED", "BUDGET_EXCEEDED"}
       [] s = "WAITING_USER"  -> {"CONTEXT_READY", "CANCELLED"}
       [] OTHER               -> {}]

CanTransition(from, to) == from \in States /\ to \in Allowed[from]

VARIABLES state,    \* of the run, "none" before it is created
          version,  \* state_version
          used      \* iterations

vars == <<state, version, used>>

Init == state = "none" /\ version = 0 /\ used = 0

Create ==
  /\ state = "none"
  /\ state' = "RECEIVED" /\ version' = 1
  /\ UNCHANGED used

Transition ==
  /\ CanTransition(state, state')
  /\ version' = version + 1
  /\ used' \in used..MaxIterations

Next == Create \/ Transition

Spec == Init /\ [][Next]_vars
=============================================================================
