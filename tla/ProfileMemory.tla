----------------------------- MODULE ProfileMemory -----------------------------
(***************************************************************************)
(* What the assistant knows of a user's environment.  Diagnostic runs      *)
(* observe facts; the user corrects or deletes them; only what the user    *)
(* said, and nothing has contradicted since, may reach a prompt.           *)
(*                                                                         *)
(* The table of one user, one row per observation or correction, in the    *)
(* order of creation.  Every operation is one transaction that locks the   *)
(* rows of its key, hence one step.  A deleted row is gone for the code    *)
(* and kept here as history.  A correction has confidence 1, so the        *)
(* threshold of a recall never bites and confidence is left out.           *)
(***************************************************************************)
EXTENDS Naturals, Sequences

CONSTANTS Facts,    \* keys of the environment
          Values,
          Runs,     \* diagnostic runs of the user
          User,     \* the source of a correction
          MaxRows   \* bound on the rows

VARIABLE rows

ASSUME ProfileAssumption == User \notin Runs /\ MaxRows \in Nat

Statuses == {"candidate", "active", "conflicted", "superseded", "deleted"}
Row      == [fact: Facts, value: Values, source: Runs \cup {User},
             status: Statuses, expired: BOOLEAN]

ProfileTypeOK == rows \in Seq(Row)

ProfileInit == rows = <<>>

-----------------------------------------------------------------------------
\* The rows that compete for a key.
Current == {"candidate", "active", "conflicted"}

CurrentRows(f) == {i \in DOMAIN rows : rows[i].fact = f /\ rows[i].status \in Current}

\* All rows with the current ones of f in status st, and a new one.
WithNew(f, st, row) ==
  Append([i \in DOMAIN rows |-> IF i \in CurrentRows(f) THEN [rows[i] EXCEPT !.status = st]
                                                        ELSE rows[i]], row)

\* Mutated form of Contradict: only candidates are contradicted.
ContradictCandidates(f, row) ==
  Append([i \in DOMAIN rows |->
            IF i \in CurrentRows(f) /\ rows[i].status = "candidate"
            THEN [rows[i] EXCEPT !.status = "conflicted"] ELSE rows[i]], row)

\* A different value puts the whole key in conflict.
Contradict(f, row) == WithNew(f, "conflicted", row)

\* A run's fact: known from this run, a value that is current already (the
\* observation is only recorded), the first one of its key, or a conflict.
Capture(r, f, v) ==
  /\ Len(rows) < MaxRows
  /\ ~\E i \in DOMAIN rows : /\ rows[i].source = r /\ rows[i].fact = f
                             /\ rows[i].status # "deleted"
  /\ LET New(st) == [fact |-> f, value |-> v, source |-> r, status |-> st, expired |-> FALSE]
     IN  \/ /\ \E i \in CurrentRows(f) : rows[i].value = v
            /\ rows' = Append(rows, New("superseded"))
         \/ /\ CurrentRows(f) = {}
            /\ rows' = Append(rows, New("candidate"))
         \/ /\ CurrentRows(f) # {}
            /\ \A i \in CurrentRows(f) : rows[i].value # v
            /\ rows' = Contradict(f, New("conflicted"))

\* The user corrects, or confirms, a row that is listed.
Correct(i, v) ==
  /\ Len(rows) < MaxRows
  /\ rows[i].status \in Current
  /\ rows' = WithNew(rows[i].fact, "superseded",
                     [fact |-> rows[i].fact, value |-> v, source |-> User,
                      status |-> "active", expired |-> FALSE])

\* The user deletes a row, of any status.
Delete(i) ==
  /\ rows[i].status # "deleted"
  /\ rows' = [rows EXCEPT ![i].status = "deleted"]

\* A row's time runs out; only a recall looks at it.
Expire(i) ==
  /\ rows[i].status = "active" /\ ~rows[i].expired
  /\ rows' = [rows EXCEPT ![i].expired = TRUE]

ProfileNext ==
  \/ \E r \in Runs, f \in Facts, v \in Values : Capture(r, f, v)
  \/ \E i \in DOMAIN rows, v \in Values : Correct(i, v)
  \/ \E i \in DOMAIN rows : Delete(i) \/ Expire(i)

\* What a recall may select from: RecallActive and the selector's filter.
Recalled == {i \in DOMAIN rows : rows[i].status = "active" /\ ~rows[i].expired}
-----------------------------------------------------------------------------
\* What a recall may give to a prompt is what the user said last about its
\* key, never an observation, and every observation since agrees with it;
\* so there is at most one value per key (Capture, Correct, RecallActive).
RecallIsConfirmed ==
  \A i \in Recalled :
    /\ rows[i].source = User
    /\ \A j \in DOMAIN rows :
         j > i /\ rows[j].fact = rows[i].fact
           => rows[j].source # User /\ rows[j].value = rows[i].value
=============================================================================
