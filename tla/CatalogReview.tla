----------------------------- MODULE CatalogReview -----------------------------
(***************************************************************************)
(* The human review of the evaluation catalog.  Reviewers decide case by   *)
(* case; every decision is a new row of an append-only table, numbered per *)
(* case and reviewer, and the latest row of a case counts.  A request      *)
(* carries the revision it saw and an idempotency key.  Several sessions   *)
(* (tabs, retries, server processes) of a reviewer work at once: a         *)
(* submission reads the workbench, then runs a transaction that looks for  *)
(* the key in its snapshot and only afterwards locks the case's rows.      *)
(*                                                                         *)
(* One catalog and one governance version: rows of others are never read.  *)
(* A hash of a request or of a row stands for what it is computed from.    *)
(***************************************************************************)
EXTENDS Integers, FiniteSets, Sequences

CONSTANTS Cases, Users, Sessions,
          User,          \* the reviewer of each session
          Keys,          \* idempotency keys a client may send
          LegacyCase,    \* the case whose review may be of an older schema
          MaxReviews,    \* bound: rows
          MaxExpected,   \* bound: the revision a client expects
          Nothing        \* no request, no seal

VARIABLES started,   \* the server has migrated the rows and serves requests
          rows,      \* evaluation_catalog_reviews, in the order of insertion
          request    \* what each session's transaction is about to insert

reviewVars == <<started, rows, request>>

Decisions == {"approved", "rejected"}
Schemas   == {"v2", "v5"}
\* The schema of a row, and the schema by which its request hash was computed.
Rows      == [case: Cases, user: Users, revision: Nat, decision: Decisions,
              key: Keys, schema: Schemas, hashed: Schemas]
Requests  == [case: Cases, expected: Nat, decision: Decisions, key: Keys]

ASSUME ReviewAssumption ==
  /\ User \in [Sessions -> Users]
  /\ LegacyCase \in Cases
  /\ MaxReviews \in Nat /\ MaxExpected \in Nat
  /\ Nothing \notin Requests

ReviewTypeOK ==
  /\ started \in BOOLEAN
  /\ rows \in Seq(Rows)
  /\ request \in [Sessions -> Requests \cup {Nothing}]
-----------------------------------------------------------------------------
(* Reading.                                                                *)

\* The row's decision counts: no row of the same case and reviewer, among
\* the first n, has a higher revision.
Latest(i, n) ==
  /\ i \in 1..n
  /\ \A j \in 1..n : rows[j].case = rows[i].case /\ rows[j].user = rows[i].user
                     => rows[j].revision <= rows[i].revision

\* ListLatest, when n rows are stored: a set of rows, one per reviewed case.
ReviewSet(u, n) == {rows[i] : i \in {i \in 1..n : Latest(i, n) /\ rows[i].user = u}}

\* validateReview: the request hash is the one of the row's schema.
ValidRow(r) == r.schema = "v5" /\ r.hashed = r.schema

\* load: one invalid row makes the reviewer's whole workbench unavailable.
Usable(u) == \A r \in ReviewSet(u, Len(rows)) : ValidRow(r)

\* Mutated form of Ready: complete, but not entirely approved.
Complete(S) == \A c \in Cases : \E r \in S : r.case = c

\* buildProgress: every case is reviewed and approved.
Ready(S) == \A c \in Cases : /\ \E r \in S : r.case = c
                             /\ \A r \in S : r.case = c => r.decision = "approved"

\* The revision of the case's latest row; 0 without one.
Revisions(c, u) == {rows[i].revision : i \in {i \in 1..Len(rows) :
                                                rows[i].case = c /\ rows[i].user = u}}
CurrentRevision(c, u, n) == IF Revisions(c, u) = {} THEN n = 0
                            ELSE n \in Revisions(c, u) /\ \A m \in Revisions(c, u) : m <= n
-----------------------------------------------------------------------------
(* Start-up.                                                               *)

\* Mutated form of Migrated: the request hash is written too.
MigratedWhole(r) == IF r.schema = "v2" THEN [r EXCEPT !.schema = "v5", !.hashed = "v5"] ELSE r

\* MigrateLegacyReviews: the id, the schema and the row's hash are written;
\* the request hash, recomputed in memory, is not among the columns.
Migrated(r) == IF r.schema = "v2" THEN [r EXCEPT !.schema = "v5"] ELSE r

Migrate ==
  /\ ~started /\ started' = TRUE
  /\ rows' = [i \in DOMAIN rows |-> Migrated(rows[i])]
  /\ UNCHANGED request

\* The table is empty, or holds one review of an older version.
ReviewInit ==
  /\ started = FALSE
  /\ \/ rows = << >>
     \/ \E u \in Users, d \in Decisions, k \in Keys :
          rows = << [case |-> LegacyCase, user |-> u, revision |-> 1, decision |-> d,
                     key |-> k, schema |-> "v2", hashed |-> "v2"] >>
  /\ request = [s \in Sessions |-> Nothing]
-----------------------------------------------------------------------------
(* Submit.                                                                 *)

KeyUsed(u, k) == \E i \in 1..Len(rows) : rows[i].user = u /\ rows[i].key = k

\* The workbench loads, the request is well formed, and Append's first
\* statement finds no row with its key: such a row would be the reply, or a
\* conflict if the request differs, and nothing would be written.  A client
\* may expect any revision, one that was or one that is not yet.
FindReplay(s) ==
  /\ started /\ request[s] = Nothing
  /\ Usable(User[s])
  /\ \E c \in Cases, d \in Decisions, k \in Keys :
       \E n \in 0..Len(rows) :
         /\ n <= MaxExpected
         /\ ~KeyUsed(User[s], k)
         /\ request' = [request EXCEPT ![s] = [case |-> c, expected |-> n, decision |-> d,
                                               key |-> k]]
  /\ UNCHANGED <<started, rows>>

\* Mutated form of Accepts: the expected revision is not compared.
AcceptsAny(s, q) == TRUE

\* Append, the locked read: the latest revision is the expected one.
Accepts(s, q) == CurrentRevision(q.case, User[s], q.expected)

\* Append, the insert: the unique indexes refuse a used key or revision.
Insert(s) ==
  /\ request[s] # Nothing
  /\ LET q == request[s]
         r == [case |-> q.case, user |-> User[s], revision |-> q.expected + 1,
               decision |-> q.decision, key |-> q.key, schema |-> "v5", hashed |-> "v5"]
     IN  IF /\ Accepts(s, q)
            /\ r.revision \notin Revisions(q.case, User[s])
            /\ ~KeyUsed(User[s], q.key)
         THEN Len(rows) < MaxReviews /\ rows' = Append(rows, r)
         ELSE UNCHANGED rows
  /\ request' = [request EXCEPT ![s] = Nothing]
  /\ UNCHANGED started

\* The request's context ends, or the process dies: the transaction aborts.
Abandon(s) ==
  /\ request[s] # Nothing
  /\ request' = [request EXCEPT ![s] = Nothing]
  /\ UNCHANGED <<started, rows>>

ReviewNext ==
  \/ Migrate
  \/ \E s \in Sessions : FindReplay(s) \/ Insert(s) \/ Abandon(s)

ReviewSpec == ReviewInit /\ [][ReviewNext]_reviewVars
-----------------------------------------------------------------------------
(* Properties.                                                             *)

\* However sessions overlap and requests are repeated, a reviewer's rows of a
\* case are revisions 1, 2, ... without a gap or a double, and no idempotency
\* key was applied twice: an operator's decision replaces only the decision
\* that was shown (Submit and Append).
ReviewsApplyOnce ==
  \A i \in 1..Len(rows) :
    /\ rows[i].revision = 1 \/ \E j \in 1..i-1 :
         /\ rows[j].case = rows[i].case /\ rows[j].user = rows[i].user
         /\ rows[j].revision = rows[i].revision - 1
    /\ \A j \in 1..i-1 :
         rows[j].user = rows[i].user =>
           /\ rows[j].key # rows[i].key
           /\ rows[j].case = rows[i].case => rows[j].revision < rows[i].revision
=============================================================================
