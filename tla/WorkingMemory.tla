---------------------------- MODULE WorkingMemory ----------------------------
(***************************************************************************)
(* The messages of one session: the table in MySQL, which is the           *)
(* authority, and the list of its newest messages in Redis.  A message's   *)
(* id is its position in the table.                                        *)
(*                                                                         *)
(* Writers append to the table first and push to the list afterwards,      *)
(* ignoring failures; readers take the list if it ends with the newest id  *)
(* they read from the table, and otherwise rebuild it.  The list expires   *)
(* or is evicted at any time.                                              *)
(***************************************************************************)
EXTENDS Naturals, Sequences, SequencesExt

CONSTANTS Limit   \* DefaultWindowLimit: messages a window holds

VARIABLES stored,  \* the messages of the session: who wrote them, and as what
          cache    \* the ids in Redis

ASSUME LimitAssumption == Limit \in Nat \ {0}

Ids == DOMAIN stored

Newest(s) == IF Len(s) <= Limit THEN s ELSE SubSeq(s, Len(s) - Limit + 1, Len(s))

\* The newest ids of the first n messages: RecentMessages.
Recent(n) == Newest([i \in 1..n |-> i])

\* A pipelined push and trim, as a transaction of Redis.
Pushed(ids) == Newest(cache \o ids)

\* The list is fresh if it ends with the newest message of the table.
Fresh(latest) == cache # <<>> /\ Last(cache) = latest

\* The list is lost: it expires after a day, or Redis evicts it.
Evict == cache # <<>> /\ cache' = <<>> /\ UNCHANGED stored
=============================================================================
