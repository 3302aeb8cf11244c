---------------------------- MODULE AssistantProofs ----------------------------
(***************************************************************************)
(* Proofs about the two ways the assistant works on a request: the chat    *)
(* with its memories, and the supervised collaboration.  They share no     *)
(* state; the first part is about ChatSession, the second about            *)
(* Collaboration.                                                          *)
(***************************************************************************)
EXTENDS ChatSession, Collaboration, FiniteSetTheorems, SequenceTheorems, WellFoundedInduction,
        TLAPS

-----------------------------------------------------------------------------
(***************************************************************************)
(* Induction on numbers, for operators the theorems on induction cannot be *)
(* instantiated with: a set of counterexamples has a least one, and what   *)
(* is computed step by step is a function.                                 *)
(***************************************************************************)
\* Every set of numbers has a least one: induction, as a counterexample.
LEMMA Least ==
  ASSUME NEW T \in SUBSET Nat, T # {}
  PROVE  \E x \in T : \A y \in T : x <= y
<1>1. PICK x \in T : \A y \in T : ~ (<<y, x>> \in OpToRel(<, Nat))
  BY NatLessThanWellFounded, WFMin
<1>2. \A y \in T : ~(y < x)
  BY <1>1 DEF OpToRel
<1> QED BY <1>2

\* f computes a value from the one before it, n times.
Iterates(f, n, S, base, step) ==
  /\ f \in [0..n -> S]
  /\ f[0] = base /\ \A i \in 1..n : f[i] = step[i][f[i-1]]

\* There is such a function.
LEMMA Iterated ==
  ASSUME NEW n \in Nat, NEW S, NEW base \in S, NEW step \in [1..n -> [S -> S]]
  PROVE  \E f : Iterates(f, n, S, base, step)
<1> DEFINE T == {m \in 0..n : ~ \E f : Iterates(f, m, S, base, step)}
<1>0. n \notin T => \E f : Iterates(f, n, S, base, step)
  OBVIOUS
<1>1. SUFFICES ASSUME T # {} PROVE FALSE
  <2> HIDE DEF T
  <2> QED BY <1>0
<1>2. PICK x \in T : \A y \in T : x <= y
  <2>1. T \in SUBSET Nat
    OBVIOUS
  <2> HIDE DEF T
  <2> QED BY <1>1, <2>1, Least
<1>3. CASE x = 0
  <2>1. Iterates([i \in 0..0 |-> base], 0, S, base, step)
    BY DEF Iterates
  <2> QED BY <1>2, <1>3, <2>1
<1>4. CASE x # 0
  <2>1. x \in 1..n /\ x - 1 \in 0..n /\ ~(x <= x - 1)
    BY <1>2, <1>4
  <2>2. PICK f : Iterates(f, x - 1, S, base, step)
    BY <1>2, <2>1
  <2>3. f \in [0..(x - 1) -> S] /\ f[0] = base /\ \A i \in 1..(x - 1) : f[i] = step[i][f[i-1]]
    BY <2>2 DEF Iterates
  <2> DEFINE g == [i \in 0..x |-> IF i = x THEN step[x][f[x-1]] ELSE f[i]]
  <2>4. g \in [0..x -> S]
    BY <2>1, <2>3
  <2>5. g[0] = base
    BY <1>4, <2>1, <2>3
  <2>6. ASSUME NEW i \in 1..x PROVE g[i] = step[i][g[i-1]]
    <3>1. i \in 0..x /\ i - 1 \in 0..x /\ i - 1 # x
      BY <2>1
    <3>2. g[i - 1] = f[i - 1] /\ g[i] = IF i = x THEN step[x][f[x - 1]] ELSE f[i]
      BY <3>1
    <3>3. CASE i = x
      BY <3>2, <3>3
    <3>4. CASE i # x
      <4>1. i \in 1..(x - 1)
        BY <2>1, <3>4
      <4> QED BY <2>3, <3>2, <3>4, <4>1
    <3> QED BY <3>3, <3>4
  <2> HIDE DEF g
  <2>7. Iterates(g, x, S, base, step)
    BY <2>4, <2>5, <2>6 DEF Iterates
  <2> QED BY <1>2, <2>7
<1> QED BY <1>3, <1>4

-----------------------------------------------------------------------------
(***************************************************************************)
(* The profile: what a recall may give to a prompt is what the user said   *)
(* last, for any number of requests, facts, values, runs and rows.         *)
(***************************************************************************)
\* An active row is the only one that competes for its key.
ActiveIsAlone ==
  \A i, j \in DOMAIN rows :
    /\ rows[i].status = "active" /\ rows[j].status \in Current
    /\ rows[i].fact = rows[j].fact
    => i = j

\* RecallIsConfirmed of active rows, expired or not.
ActiveIsConfirmed ==
  \A i \in DOMAIN rows : rows[i].status = "active" =>
    /\ rows[i].source = User
    /\ \A j \in DOMAIN rows :
         j > i /\ rows[j].fact = rows[i].fact
           => rows[j].source # User /\ rows[j].value = rows[i].value

RowsInv == ProfileTypeOK /\ ActiveIsAlone /\ ActiveIsConfirmed

\* Adding a row: where the rows are afterwards, and what they are.
LEMMA Appended ==
  ASSUME NEW S, NEW s \in Seq(S), NEW x \in S, NEW t, t = Append(s, x)
  PROVE  /\ t \in Seq(S)
         /\ DOMAIN t = DOMAIN s \cup {Len(s) + 1}
         /\ t[Len(s) + 1] = x
         /\ \A i \in DOMAIN s : t[i] = s[i] /\ i \in Nat /\ i < Len(s) + 1
  OBVIOUS

\* Giving the current rows of a key another status.
LEMMA Restated ==
  ASSUME ProfileTypeOK, NEW f, NEW st \in Statuses,
         NEW s, s = [i \in DOMAIN rows |-> IF i \in CurrentRows(f)
                                           THEN [rows[i] EXCEPT !.status = st] ELSE rows[i]]
  PROVE  /\ s \in Seq(Row) /\ DOMAIN s = DOMAIN rows /\ Len(s) = Len(rows)
         /\ \A i \in DOMAIN rows :
              /\ s[i].fact = rows[i].fact /\ s[i].value = rows[i].value
              /\ s[i].source = rows[i].source /\ s[i].expired = rows[i].expired
              /\ s[i].status = IF i \in CurrentRows(f) THEN st ELSE rows[i].status
<1>1. \A i \in DOMAIN rows : rows[i] \in Row
  BY DEF ProfileTypeOK
<1>2. \A i \in DOMAIN rows : s[i] \in Row
  BY <1>1 DEF Row
<1>3. s \in Seq(Row) /\ DOMAIN s = DOMAIN rows /\ Len(s) = Len(rows)
  <2>1. Len(rows) \in Nat /\ DOMAIN rows = 1..Len(rows)
    BY DEF ProfileTypeOK
  <2>2. s \in [1..Len(rows) -> Row]
    BY <1>2, <2>1
  <2>3. s \in Seq(Row)
    BY <2>1, <2>2
  <2> QED BY <2>1, <2>2, <2>3
<1>4. \A i \in DOMAIN rows :
        s[i] = IF i \in CurrentRows(f) THEN [rows[i] EXCEPT !.status = st] ELSE rows[i]
  OBVIOUS
<1>5. \A i \in DOMAIN rows :
        /\ s[i].fact = rows[i].fact /\ s[i].value = rows[i].value
        /\ s[i].source = rows[i].source /\ s[i].expired = rows[i].expired
        /\ s[i].status = IF i \in CurrentRows(f) THEN st ELSE rows[i].status
  BY <1>1, <1>4 DEF Row
<1> QED
  BY <1>3, <1>5

\* A new row that supersedes or contradicts the current ones of its key: the
\* only active row the key may have afterwards is the new one.
LEMMA Replaced ==
  ASSUME RowsInv, NEW f \in Facts, NEW st \in (Statuses \ Current) \cup {"conflicted"},
         NEW x \in Row, x.fact = f,
         x.status = "active" => x.source = User /\ st \notin Current,
         rows' = WithNew(f, st, x)
  PROVE  RowsInv'
<1> DEFINE s == [i \in DOMAIN rows |-> IF i \in CurrentRows(f)
                                       THEN [rows[i] EXCEPT !.status = st] ELSE rows[i]]
           n == Len(rows) + 1
<1>0. st \in Statuses /\ st # "active"
  BY DEF Statuses, Current
<1>1. /\ s \in Seq(Row) /\ DOMAIN s = DOMAIN rows /\ Len(s) = Len(rows)
      /\ \A i \in DOMAIN rows :
           /\ s[i].fact = rows[i].fact /\ s[i].value = rows[i].value
           /\ s[i].source = rows[i].source
           /\ s[i].status = IF i \in CurrentRows(f) THEN st ELSE rows[i].status
  BY <1>0, Restated DEF RowsInv
<1>2. rows' = Append(s, x)
  BY DEF WithNew
<1> HIDE DEF s
<1>3. /\ rows' \in Seq(Row) /\ DOMAIN rows' = DOMAIN rows \cup {n} /\ rows'[n] = x
      /\ \A i \in DOMAIN rows : rows'[i] = s[i] /\ i \in Nat /\ i < n
  BY <1>1, <1>2, Appended
<1>4. n \notin DOMAIN rows /\ n \in Nat
  BY DEF RowsInv, ProfileTypeOK
<1>5. ASSUME NEW i \in DOMAIN rows', rows'[i].status = "active", i # n
      PROVE  i \in DOMAIN rows /\ rows[i].status = "active" /\ rows[i].fact # f
  BY <1>0, <1>1, <1>3, <1>5 DEF CurrentRows, Current
<1>6. ASSUME NEW i \in DOMAIN rows, rows'[i].status \in Current, rows[i].fact # f
      PROVE  rows[i].status \in Current
  BY <1>1, <1>3, <1>6 DEF CurrentRows
<1>7. ASSUME NEW i \in DOMAIN rows, rows'[i].status \in Current, rows[i].fact = f
      PROVE  st \in Current
  BY <1>1, <1>3, <1>7 DEF CurrentRows
<1>8. ActiveIsAlone'
  <2> SUFFICES ASSUME NEW i \in DOMAIN rows', NEW j \in DOMAIN rows',
                      rows'[i].status = "active", rows'[j].status \in Current,
                      rows'[i].fact = rows'[j].fact
               PROVE  i = j
    BY DEF ActiveIsAlone, Current
  <2>1. CASE i = n
    BY <2>1, <1>1, <1>3, <1>7
  <2>2. CASE i # n
    <3>1. i \in DOMAIN rows /\ rows[i].status = "active" /\ rows[i].fact # f
      BY <2>2, <1>5
    <3>2. j \in DOMAIN rows /\ rows[j].fact = rows[i].fact
      BY <3>1, <1>1, <1>3
    <3>3. rows[j].status \in Current
      BY <3>1, <3>2, <1>6
    <3> QED BY <3>1, <3>2, <3>3 DEF RowsInv, ActiveIsAlone
  <2> QED BY <2>1, <2>2
<1>9. ActiveIsConfirmed'
  <2> SUFFICES ASSUME NEW i \in DOMAIN rows', rows'[i].status = "active"
               PROVE  /\ rows'[i].source = User
                      /\ \A j \in DOMAIN rows' :
                           j > i /\ rows'[j].fact = rows'[i].fact
                             => rows'[j].source # User /\ rows'[j].value = rows'[i].value
    BY DEF ActiveIsConfirmed
  <2>1. CASE i = n
    BY <2>1, <1>3, <1>4
  <2>2. CASE i # n
    BY <2>2, <1>1, <1>3, <1>4, <1>5 DEF RowsInv, ActiveIsConfirmed
  <2> QED BY <2>1, <2>2
<1> QED BY <1>3, <1>8, <1>9 DEF RowsInv, ProfileTypeOK

LEMMA CaptureKeeps ==
  ASSUME RowsInv, NEW r \in Runs, NEW f \in Facts, NEW v \in Values,
         Capture(r, f, v)
  PROVE  RowsInv'
<1> DEFINE New(st) == [fact |-> f, value |-> v, source |-> r, status |-> st, expired |-> FALSE]
           n == Len(rows) + 1
<1>1. \A st \in Statuses : New(st) \in Row
  BY DEF Row
<1>2. r # User
  BY ProfileAssumption
<1>3. CASE /\ \E i \in CurrentRows(f) : rows[i].value = v
           /\ rows' = Append(rows, New("superseded"))
  <2>1. New("superseded") \in Row
    BY <1>1 DEF Statuses
  <2>2. /\ rows' \in Seq(Row) /\ DOMAIN rows' = DOMAIN rows \cup {n}
        /\ rows'[n] = New("superseded")
        /\ \A i \in DOMAIN rows : rows'[i] = rows[i] /\ i \in Nat /\ i < n
    BY <1>3, <2>1, Appended DEF RowsInv, ProfileTypeOK
  <2>3. rows'[n].status \notin Current /\ rows'[n].fact = f /\ rows'[n].value = v
        /\ rows'[n].source # User
    BY <2>2, <1>2 DEF Current
  <2>4. \A i \in DOMAIN rows : rows[i].status = "active" /\ rows[i].fact = f => rows[i].value = v
    BY <1>3 DEF RowsInv, ActiveIsAlone, CurrentRows
  <2> HIDE DEF New
  <2>5. ActiveIsAlone'
    BY <2>2, <2>3 DEF RowsInv, ActiveIsAlone, Current
  <2>6. ActiveIsConfirmed'
    BY <2>2, <2>3, <2>4 DEF RowsInv, ActiveIsConfirmed, Current
  <2> QED BY <2>2, <2>5, <2>6 DEF RowsInv, ProfileTypeOK
<1>4. CASE CurrentRows(f) = {} /\ rows' = Append(rows, New("candidate"))
  <2>1. New("candidate") \in Row
    BY <1>1 DEF Statuses
  <2>2. /\ rows' \in Seq(Row) /\ DOMAIN rows' = DOMAIN rows \cup {n}
        /\ rows'[n] = New("candidate")
        /\ \A i \in DOMAIN rows : rows'[i] = rows[i] /\ i \in Nat /\ i < n
    BY <1>4, <2>1, Appended DEF RowsInv, ProfileTypeOK
  <2>3. rows'[n].status = "candidate" /\ rows'[n].fact = f
    BY <2>2
  <2>4. \A i \in DOMAIN rows : rows[i].status \in Current => rows[i].fact # f
    BY <1>4 DEF CurrentRows
  <2> HIDE DEF New
  <2>5. ActiveIsAlone'
    BY <2>2, <2>3, <2>4 DEF RowsInv, ActiveIsAlone, Current
  <2>6. ActiveIsConfirmed'
    BY <2>2, <2>3, <2>4 DEF RowsInv, ActiveIsConfirmed, Current
  <2> QED BY <2>2, <2>5, <2>6 DEF RowsInv, ProfileTypeOK
<1>5. CASE rows' = Contradict(f, New("conflicted"))
  <2> DEFINE x == New("conflicted")
  <2>1. x \in Row /\ x.fact = f /\ x.status # "active"
    BY <1>1 DEF Statuses
  <2>2. rows' = WithNew(f, "conflicted", x)
    BY <1>5 DEF Contradict
  <2> HIDE DEF x
  <2>3. "conflicted" \in (Statuses \ Current) \cup {"conflicted"}
    OBVIOUS
  <2> QED BY <2>1, <2>2, <2>3, Replaced
<1> QED BY <1>3, <1>4, <1>5 DEF Capture

LEMMA CorrectKeeps ==
  ASSUME RowsInv, NEW i \in DOMAIN rows, NEW v \in Values, Correct(i, v)
  PROVE  RowsInv'
<1> DEFINE x == [fact |-> rows[i].fact, value |-> v, source |-> User,
                 status |-> "active", expired |-> FALSE]
<1>1. rows[i] \in Row
  BY DEF RowsInv, ProfileTypeOK
<1>2. x \in Row /\ rows[i].fact \in Facts
  BY <1>1 DEF Row, Statuses
<1>3. rows' = WithNew(rows[i].fact, "superseded", x)
  BY DEF Correct
<1> QED BY <1>2, <1>3, Replaced DEF Statuses, Current

LEMMA DeleteKeeps ==
  ASSUME RowsInv, NEW i \in DOMAIN rows, Delete(i)
  PROVE  RowsInv'
<1>1. \A j \in DOMAIN rows : rows[j] \in Row
  BY DEF RowsInv, ProfileTypeOK
<1>2. /\ rows' \in Seq(Row) /\ DOMAIN rows' = DOMAIN rows
      /\ \A j \in DOMAIN rows :
           /\ rows'[j].fact = rows[j].fact /\ rows'[j].value = rows[j].value
           /\ rows'[j].source = rows[j].source
           /\ rows'[j].status = IF j = i THEN "deleted" ELSE rows[j].status
  BY <1>1 DEF RowsInv, ProfileTypeOK, Delete, Row, Statuses
<1>3. ActiveIsAlone'
  BY <1>2 DEF RowsInv, ActiveIsAlone, Current
<1>4. ActiveIsConfirmed'
  BY <1>2 DEF RowsInv, ActiveIsConfirmed, Current
<1> QED BY <1>2, <1>3, <1>4 DEF RowsInv, ProfileTypeOK

LEMMA ExpireKeeps ==
  ASSUME RowsInv, NEW i \in DOMAIN rows, Expire(i)
  PROVE  RowsInv'
<1>1. \A j \in DOMAIN rows : rows[j] \in Row
  BY DEF RowsInv, ProfileTypeOK
<1>2. /\ rows' \in Seq(Row) /\ DOMAIN rows' = DOMAIN rows
      /\ \A j \in DOMAIN rows :
           /\ rows'[j].fact = rows[j].fact /\ rows'[j].value = rows[j].value
           /\ rows'[j].source = rows[j].source /\ rows'[j].status = rows[j].status
  <2>1. rows' = [rows EXCEPT ![i] = [rows[i] EXCEPT !.expired = TRUE]]
    BY DEF Expire
  <2>2. [rows[i] EXCEPT !.expired = TRUE] \in Row
    BY <1>1 DEF Row
  <2>3. \A j \in DOMAIN rows :
          rows'[j] = IF j = i THEN [rows[i] EXCEPT !.expired = TRUE] ELSE rows[j]
    BY <2>1 DEF RowsInv, ProfileTypeOK
  <2>4. rows' \in Seq(Row) /\ DOMAIN rows' = DOMAIN rows
    BY <2>1, <2>2 DEF RowsInv, ProfileTypeOK
  <2> QED BY <1>1, <2>3, <2>4 DEF Row
<1>3. ActiveIsAlone'
  BY <1>2 DEF RowsInv, ActiveIsAlone, Current
<1>4. ActiveIsConfirmed'
  BY <1>2 DEF RowsInv, ActiveIsConfirmed, Current
<1> QED BY <1>2, <1>3, <1>4 DEF RowsInv, ProfileTypeOK

LEMMA RowsInvInductive == ChatSpec => []RowsInv
<1>1. ChatInit => RowsInv
  BY DEF ChatInit, ProfileInit, RowsInv, ProfileTypeOK, ActiveIsAlone, ActiveIsConfirmed
<1>2. RowsInv /\ [ChatNext]_sessionVars => RowsInv'
  <2> SUFFICES ASSUME RowsInv, [ChatNext]_sessionVars PROVE RowsInv'
    OBVIOUS
  <2>1. CASE UNCHANGED rows
    BY <2>1 DEF RowsInv, ProfileTypeOK, ActiveIsAlone, ActiveIsConfirmed
  <2>2. CASE ProfileNext
    BY <2>2, CaptureKeeps, CorrectKeeps, DeleteKeeps, ExpireKeeps DEF ProfileNext
  <2> QED BY <2>1, <2>2 DEF ChatNext, ProfileStep, sessionVars
<1> QED BY <1>1, <1>2, PTL DEF ChatSpec

\* Nothing an observation, a correction, a deletion or the time does, in any
\* order, lets a recall give what the user did not say last.
THEOREM RecallConfirmed == ChatSpec => []RecallIsConfirmed
<1>1. RowsInv => RecallIsConfirmed
  BY DEF RowsInv, ActiveIsConfirmed, RecallIsConfirmed, Recalled
<1> QED BY <1>1, RowsInvInductive, PTL

-----------------------------------------------------------------------------
(***************************************************************************)
(* The helper's memory: nothing recent is forgotten, for any number of     *)
(* requests, any size of the window and any losses.                        *)
(*                                                                         *)
(* A helper is filled by a chat in three moments that nothing ties         *)
(* together: the newest id is read, then a window, then its messages are   *)
(* taken one by one, while other requests store and remember.  The         *)
(* invariant closes both gaps.  What was stored since the newest id was    *)
(* read is known without the window (SinceKnown), because its request      *)
(* finds a helper to tell (HelperMade); what is left of the window         *)
(* completes what is known (WindowCompletes).                              *)
(***************************************************************************)
\* What a request at work is, but for its prompt.
CallOK(r, n) ==
  /\ r = [at |-> r.at, kind |-> r.kind, latest |-> r.latest, ids |-> r.ids, prompt |-> r.prompt]
  /\ r.at \in Places /\ r.kind \in Kinds
  /\ r.latest \in 0..n /\ r.ids \in Seq(1..n)

\* ChatTypeOK of what the memories hold.
MemoryTypes ==
  /\ stored \in Seq([role: Roles, heard: BOOLEAN])
  /\ cache \in Seq(1..Len(stored))
  /\ helper \in [made: BOOLEAN, loaded: BOOLEAN, memory: Seq(1..Len(stored))]
  /\ DOMAIN call = Requests /\ \A c \in Requests : CallOK(call[c], Len(stored))
  /\ call = [c \in Requests |-> call[c]]
  /\ exact \in BOOLEAN

\* A request that has stored messages and not yet added them.
AtPush(r) == r.at \in {"push", "remember"}

Pending(id) ==
  \E c \in Requests : call[c].at \in {"push", "remember"} /\ id \in Range(call[c].ids)

\* A message the helper knows, will be told of, or need not know.
Accounted(id) == ~stored[id].heard \/ id \in Range(helper.memory) \/ Pending(id)

\* A chat that has asked for the newest id and not got its window yet.
Filling(c) == call[c].kind = "chat" /\ call[c].at \in {"load", "recent", "replace"}

\* While a chat fills the helper there is one, so exchanges are remembered.
HelperMade ==
  /\ helper.loaded => helper.made
  /\ \A c \in Requests : call[c].kind = "chat" => helper.made
  /\ \A c \in Requests : call[c].at = "adopt" => call[c].kind = "chat"
  /\ \A c \in Requests : call[c].at = "delete" => call[c].kind # "chat"

\* The list, and what a request is about to replace it with, is a window;
\* what a request is about to add is something.
ListsFit ==
  /\ Len(cache) <= Limit
  /\ \A c \in Requests : call[c].at \in {"delete", "replace"} => Len(call[c].ids) <= Limit
  /\ \A c \in Requests : AtPush(call[c]) => call[c].ids # <<>>

\* What was stored since the chat read the newest id is known without it.
SinceKnown ==
  \A c \in Requests : Filling(c) => \A id \in Ids : id > call[c].latest => Accounted(id)

\* The rest of a window completes what the helper knows.
WindowCompletes ==
  exact => \A c \in Requests : call[c].at = "adopt" =>
    \A id \in Range(Recent(Len(stored))) : Accounted(id) \/ id \in Range(call[c].ids)

MemoryInv == MemoryTypes /\ HelperMade /\ ListsFit /\ SinceKnown /\ WindowCompletes /\ NothingForgotten

\* The newest of a sequence are elements of it, and no more than Limit.
LEMMA NewestGives ==
  ASSUME NEW S, NEW s \in Seq(S)
  PROVE  Newest(s) \in Seq(S) /\ Len(Newest(s)) <= Limit
<1>1. CASE Len(s) <= Limit
  BY <1>1 DEF Newest
<1>2. CASE ~(Len(s) <= Limit)
  <2>1. Limit \in Nat /\ Len(s) \in Nat /\ Len(s) - Limit + 1 \in 1..Len(s)
    BY <1>2, LimitAssumption
  <2>2. Newest(s) = SubSeq(s, Len(s) - Limit + 1, Len(s))
    BY <1>2 DEF Newest
  <2>3. \A i \in (Len(s) - Limit + 1)..Len(s) : s[i] \in S
    BY <2>1
  <2>4. SubSeq(s, Len(s) - Limit + 1, Len(s)) \in Seq(S) /\ Len(Newest(s)) = Limit
    BY <2>1, <2>2, <2>3, SubSeqProperties
  <2> QED BY <2>1, <2>2, <2>4
<1> QED BY <1>1, <1>2

\* The newest of the first n messages are the last Limit of them.
LEMMA RecentGives ==
  ASSUME NEW n \in Nat
  PROVE  /\ Recent(n) \in Seq(1..n) /\ Len(Recent(n)) <= Limit
         /\ Range(Recent(n)) = {i \in 1..n : i + Limit > n}
<1> DEFINE s == [i \in 1..n |-> i]
<1>1. s \in Seq(1..n) /\ Len(s) = n /\ \A i \in 1..n : s[i] = i
  OBVIOUS
<1>2. Recent(n) = Newest(s)
  BY DEF Recent
<1>3. Recent(n) \in Seq(1..n) /\ Len(Recent(n)) <= Limit
  BY <1>1, <1>2, NewestGives
<1>4. CASE n <= Limit
  <2>1. Newest(s) = s
    BY <1>1, <1>4 DEF Newest
  <2>2. \A i \in 1..n : i + Limit > n
    BY <1>4, LimitAssumption
  <2> HIDE DEF s
  <2>3. Range(s) = 1..n
    BY <1>1 DEF Range
  <2> QED BY <1>2, <1>3, <2>1, <2>2, <2>3
<1>5. CASE ~(n <= Limit)
  <2> HIDE DEF s
  <2>1. n - Limit + 1 \in 1..n /\ Limit \in Nat
    BY <1>5, LimitAssumption
  <2>2. Newest(s) = SubSeq(s, n - Limit + 1, n)
    BY <1>1, <1>5 DEF Newest
  <2> DEFINE t == SubSeq(s, n - Limit + 1, n)
  <2>3. t = [i \in 1..Limit |-> s[n - Limit + i]]
    BY <1>1, <2>1
  <2>4. DOMAIN t = 1..Limit /\ \A i \in 1..Limit : t[i] = n - Limit + i
    BY <1>1, <2>1, <2>3
  <2> HIDE DEF t
  <2>5. \A i \in 1..n : i + Limit > n => i - n + Limit \in 1..Limit /\ t[i - n + Limit] = i
    BY <2>1, <2>4
  <2>6. Range(t) = {i \in 1..n : i + Limit > n}
    BY <2>1, <2>4, <2>5 DEF Range
  <2> QED BY <1>2, <1>3, <2>2, <2>6 DEF t
<1> QED BY <1>4, <1>5

\* One sequence after another.
LEMMA Joined ==
  ASSUME NEW S, NEW s \in Seq(S), NEW t \in Seq(S)
  PROVE  /\ s \o t \in Seq(S) /\ Len(s \o t) = Len(s) + Len(t)
         /\ \A i \in 1..Len(s) : (s \o t)[i] = s[i]
         /\ \A i \in 1..Len(t) : (s \o t)[Len(s) + i] = t[i]
         /\ Range(s \o t) = Range(s) \cup Range(t)
<1>1. s \o t \in Seq(S) /\ Len(s \o t) = Len(s) + Len(t)
  OBVIOUS
<1>2. \A i \in 1..Len(s) : (s \o t)[i] = s[i]
  OBVIOUS
<1>3. \A i \in 1..Len(t) : (s \o t)[Len(s) + i] = t[i]
  OBVIOUS
<1>4. Range(s \o t) = Range(s) \cup Range(t)
  BY RangeConcatenation
<1> QED BY <1>1, <1>2, <1>3, <1>4

\* What a transaction leaves in the table.
LEMMA WithGives ==
  ASSUME MemoryTypes, NEW roles \in Seq(Roles), NEW heard \in BOOLEAN
  PROVE  /\ With(roles, heard) \in Seq([role: Roles, heard: BOOLEAN])
         /\ Len(With(roles, heard)) = Len(stored) + Len(roles)
         /\ \A i \in 1..Len(stored) : With(roles, heard)[i] = stored[i]
         /\ \A i \in 1..Len(roles) : With(roles, heard)[Len(stored) + i].heard = heard
<1> DEFINE new == [i \in DOMAIN roles |-> [role |-> roles[i], heard |-> heard]]
           M   == [role: Roles, heard: BOOLEAN]
<1>1. DOMAIN roles = 1..Len(roles) /\ Len(roles) \in Nat /\ \A i \in 1..Len(roles) : roles[i] \in Roles
  OBVIOUS
<1>2. new \in [1..Len(roles) -> M]
  BY <1>1
<1>3. new \in Seq(M) /\ Len(new) = Len(roles)
  BY <1>1, <1>2
<1>4. \A i \in 1..Len(roles) : new[i].heard = heard
  BY <1>1
<1>5. stored \in Seq(M) /\ With(roles, heard) = stored \o new
  BY DEF With, MemoryTypes
<1> HIDE DEF new, M
<1>6. /\ stored \o new \in Seq(M) /\ Len(stored \o new) = Len(stored) + Len(new)
      /\ \A i \in 1..Len(stored) : (stored \o new)[i] = stored[i]
      /\ \A i \in 1..Len(new) : (stored \o new)[Len(stored) + i] = new[i]
  BY <1>3, <1>5, Joined
<1> QED BY <1>3, <1>4, <1>5, <1>6 DEF M

\* Of the requests at work only c takes part in a step.
Only(c) == /\ DOMAIN call' = Requests /\ call' = [d \in Requests |-> call'[d]]
           /\ \A d \in Requests \ {c} : call'[d] = call[d]

\* An idle request is one.
LEMMA IdleOK == MemoryTypes => CallOK(Idle, Len(stored))
  BY DEF MemoryTypes, CallOK, Idle, Places, Kinds

\* A request goes on to a place, ends, or takes its messages along.
LEMMA GotoGives ==
  ASSUME MemoryTypes, NEW c \in Requests, NEW p \in Places, Goto(c, p)
  PROVE  /\ Only(c) /\ CallOK(call'[c], Len(stored))
         /\ call'[c].at = p /\ call'[c].kind = call[c].kind
         /\ call'[c].latest = call[c].latest /\ call'[c].ids = call[c].ids
<1>1. call' = [call EXCEPT ![c].at = p] /\ call = [d \in Requests |-> call[d]]
  BY DEF Goto, MemoryTypes
<1>2. Only(c) /\ call'[c] = [call[c] EXCEPT !.at = p]
  BY <1>1 DEF Only
<1> DEFINE r == call[c]
<1>3. CallOK(r, Len(stored))
  BY DEF MemoryTypes
<1> HIDE DEF r
<1>4. [r EXCEPT !.at = p]
        = [at |-> p, kind |-> r.kind, latest |-> r.latest, ids |-> r.ids, prompt |-> r.prompt]
  BY <1>3 DEF CallOK
<1> QED BY <1>2, <1>3, <1>4 DEF CallOK, r

LEMMA EndGives ==
  ASSUME MemoryTypes, NEW c \in Requests, End(c)
  PROVE  Only(c) /\ call'[c] = Idle /\ CallOK(call'[c], Len(stored))
<1>1. call' = [call EXCEPT ![c] = Idle] /\ call = [d \in Requests |-> call[d]]
  BY DEF End, MemoryTypes
<1> QED BY <1>1, IdleOK DEF Only

LEMMA CarryGives ==
  ASSUME MemoryTypes, NEW c \in Requests, NEW p \in Places, NEW ids, Carry(c, p, ids)
  PROVE  /\ Only(c)
         /\ call'[c] = [at |-> p, kind |-> call[c].kind, latest |-> 0, ids |-> ids, prompt |-> NoPrompt]
         /\ ids \in Seq(1..Len(stored)) => CallOK(call'[c], Len(stored))
<1>1. call' = [call EXCEPT ![c] = [Idle EXCEPT !.kind = call[c].kind, !.at = p, !.ids = ids]]
  BY DEF Carry
<1>2. Only(c) /\ call'[c] = [Idle EXCEPT !.kind = call[c].kind, !.at = p, !.ids = ids]
  BY <1>1 DEF Only, MemoryTypes
<1>3. call'[c] = [at |-> p, kind |-> call[c].kind, latest |-> 0, ids |-> ids, prompt |-> NoPrompt]
  BY <1>2 DEF Idle
<1>4. CallOK(call[c], Len(stored))
  BY DEF MemoryTypes
<1>5. ids \in Seq(1..Len(stored)) => CallOK(call'[c], Len(stored))
  BY <1>3, <1>4 DEF CallOK, MemoryTypes
<1> QED BY <1>2, <1>3, <1>5

\* Ids of a shorter table are ids of a longer one.
LEMMA Grown ==
  ASSUME NEW m \in Nat, NEW n \in Nat, m <= n
  PROVE  /\ 1..m \subseteq 1..n /\ Seq(1..m) \subseteq Seq(1..n)
         /\ \A r : CallOK(r, m) => CallOK(r, n)
<1>1. 1..m \subseteq 1..n /\ 0..m \subseteq 0..n
  OBVIOUS
<1>2. \A t \in Seq(1..m) : t \in Seq(1..n)
  <2> TAKE t \in Seq(1..m)
  <2>1. DOMAIN t = 1..Len(t) /\ Len(t) \in Nat /\ \A i \in 1..Len(t) : t[i] \in 1..m
    OBVIOUS
  <2>2. t \in [1..Len(t) -> 1..n]
    BY <1>1, <2>1
  <2> QED BY <2>1, <2>2
<1> QED BY <1>1, <1>2 DEF CallOK

\* The types after a step, from those of what it changed.
LEMMA TypesKept ==
  ASSUME MemoryTypes, NEW c \in Requests, Only(c),
         NEW n \in Nat, n = Len(stored'), Len(stored) <= n,
         stored' \in Seq([role: Roles, heard: BOOLEAN]),
         cache' \in Seq(1..n),
         helper' \in [made: BOOLEAN, loaded: BOOLEAN, memory: Seq(1..n)],
         exact' \in BOOLEAN,
         CallOK(call'[c], n)
  PROVE  MemoryTypes'
<1>1. Len(stored) \in Nat
  BY DEF MemoryTypes
<1>2. \A d \in Requests : CallOK(call'[d], n)
  <2> TAKE d \in Requests
  <2>1. CASE d = c
    BY <2>1
  <2>2. CASE d # c
    <3>1. CallOK(call[d], Len(stored)) /\ call'[d] = call[d]
      BY <2>2 DEF MemoryTypes, Only
    <3> QED BY <1>1, <3>1, Grown
  <2> QED BY <2>1, <2>2
<1> QED BY <1>2 DEF MemoryTypes, Only

\* What a helper is filled with while the history is exact.
LEMMA NotedGives ==
  ASSUME MemoryTypes, NEW c \in Requests, NEW ids, Noted(c, ids)
  PROVE  /\ exact' \in BOOLEAN /\ (exact' => exact)
         /\ exact' /\ call[c].kind = "chat"
              => \E n \in call[c].latest..Len(stored) : ids = Recent(n)
<1> DEFINE P == call[c].kind = "chat" => \E n \in call[c].latest..Len(stored) : ids = Recent(n)
<1>1. exact' = (exact /\ P) /\ exact \in BOOLEAN
  BY DEF Noted, MemoryTypes
<1>2. P \in BOOLEAN
  OBVIOUS
<1> HIDE DEF P
<1>3. exact' \in BOOLEAN /\ (exact' => exact /\ P)
  BY <1>1, <1>2
<1> QED BY <1>3 DEF P

\* A request with its window.
LEMMA WindowedGives ==
  ASSUME MemoryTypes, NEW c \in Requests, NEW ids \in Seq(1..Len(stored)), Windowed(c, ids)
  PROVE  /\ Only(c) /\ CallOK(call'[c], Len(stored))
         /\ call[c].kind = "chat" =>
              call'[c] = [at |-> "adopt", kind |-> "chat", latest |-> 0, ids |-> ids, prompt |-> NoPrompt]
         /\ call[c].kind # "chat" => call'[c] = Idle
<1>1. CASE call[c].kind = "chat"
  <2>1. Carry(c, "adopt", ids) /\ "adopt" \in Places
    BY <1>1 DEF Windowed, Places
  <2> QED BY <1>1, <2>1, CarryGives
<1>2. CASE call[c].kind # "chat"
  <2>1. End(c)
    BY <1>2 DEF Windowed
  <2> QED BY <1>2, <2>1, EndGives
<1> QED BY <1>1, <1>2

\* A request that begins.
LEMMA BeginGives ==
  ASSUME MemoryTypes, NEW c \in Requests, NEW k \in Kinds, NEW p \in Places, Begin(c, k, p)
  PROVE  /\ Only(c) /\ CallOK(call'[c], Len(stored))
         /\ call[c].at = "idle"
         /\ call'[c] = [at |-> p, kind |-> k, latest |-> 0, ids |-> <<>>, prompt |-> NoPrompt]
         /\ UNCHANGED <<stored, cache, exact>>
<1>1. /\ call' = [call EXCEPT ![c] = [Idle EXCEPT !.kind = k, !.at = p]]
      /\ call[c].at = "idle" /\ UNCHANGED <<stored, cache, exact>>
  BY DEF Begin, At
<1>2. Only(c) /\ call'[c] = [Idle EXCEPT !.kind = k, !.at = p]
  BY <1>1 DEF Only, MemoryTypes
<1>3. call'[c] = [at |-> p, kind |-> k, latest |-> 0, ids |-> <<>>, prompt |-> NoPrompt]
  BY <1>2 DEF Idle
<1>4. CallOK(call'[c], Len(stored))
  BY <1>3 DEF CallOK, MemoryTypes
<1> QED BY <1>1, <1>2, <1>3, <1>4

\* The ids a transaction's messages get.
LEMMA StoreGives ==
  ASSUME MemoryTypes, NEW c \in Requests, NEW roles \in Seq(Roles), roles # <<>>, Store(c, roles)
  PROVE  /\ stored' \in Seq([role: Roles, heard: BOOLEAN])
         /\ Len(stored') = Len(stored) + Len(roles)
         /\ \A i \in 1..Len(stored) : stored'[i] = stored[i]
         /\ Only(c) /\ CallOK(call'[c], Len(stored'))
         /\ UNCHANGED <<cache, helper, exact>>
         /\ call'[c].kind \in {call[c].kind, "none"}
            /\ call'[c].at \in {"push", "idle"}
         /\ call'[c].at = "push" => call'[c].ids # <<>>
         /\ \A id \in (Len(stored) + 1)..Len(stored') :
              ~stored'[id].heard \/ (call'[c].at = "push" /\ id \in Range(call'[c].ids))
<1> DEFINE ids == [i \in DOMAIN roles |-> Len(stored) + i]
           n   == Len(stored) + Len(roles)
<1>0. /\ DOMAIN roles = 1..Len(roles) /\ Len(roles) \in Nat /\ Len(stored) \in Nat /\ n \in Nat
      /\ UNCHANGED <<cache, helper, exact>>
  BY DEF MemoryTypes, Store
<1>1. CASE stored' = With(roles, TRUE) /\ Carry(c, "push", ids)
  <2>1. ids \in [1..Len(roles) -> 1..n]
    BY <1>0
  <2>2. ids \in Seq(1..n)
    BY <1>0, <2>1
  <2>3. \A id \in (Len(stored) + 1)..n : id - Len(stored) \in DOMAIN roles /\ ids[id - Len(stored)] = id
    BY <1>0
  <2>0. ids # <<>>
    BY <1>0, <2>1
  <2> HIDE DEF ids
  <2>4. \A id \in (Len(stored) + 1)..n : id \in Range(ids)
    BY <1>0, <2>1, <2>3 DEF Range
  <2>5. /\ Only(c)
        /\ call'[c] = [at |-> "push", kind |-> call[c].kind, latest |-> 0, ids |-> ids, prompt |-> NoPrompt]
    BY <1>1, CarryGives DEF Places
  <2>6. call[c].kind \in Kinds
    BY DEF MemoryTypes, CallOK
  <2>7. CallOK(call'[c], n)
    BY <1>0, <2>2, <2>5, <2>6 DEF CallOK, Places
  <2>8. /\ stored' \in Seq([role: Roles, heard: BOOLEAN]) /\ Len(stored') = n
        /\ \A i \in 1..Len(stored) : stored'[i] = stored[i]
    BY <1>1, WithGives
  <2> QED BY <1>0, <2>0, <2>4, <2>5, <2>7, <2>8
<1>2. CASE stored' = With(roles, FALSE) /\ End(c)
  <2>1. Only(c) /\ call'[c] = Idle /\ CallOK(Idle, Len(stored))
    BY <1>2, EndGives
  <2>2. CallOK(call'[c], n)
    BY <1>0, <2>1, Grown
  <2>3. /\ stored' \in Seq([role: Roles, heard: BOOLEAN]) /\ Len(stored') = n
        /\ \A i \in 1..Len(stored) : stored'[i] = stored[i]
        /\ \A i \in 1..Len(roles) : ~stored'[Len(stored) + i].heard
    BY <1>2, WithGives
  <2>4. \A id \in (Len(stored) + 1)..n : id - Len(stored) \in 1..Len(roles) /\ id = Len(stored) + (id - Len(stored))
    BY <1>0
  <2>5. \A id \in (Len(stored) + 1)..n : ~stored'[id].heard
    BY <2>3, <2>4
  <2> QED BY <1>0, <2>1, <2>2, <2>3, <2>5 DEF Idle
<1> QED BY <1>1, <1>2 DEF Store

\* What a step of c has to keep for the helper to forget nothing: the table
\* and the helper's memory only grow, what c was about to add it adds or goes
\* on to, and what it stores it will add.
Keeps(c) ==
  /\ Len(stored) <= Len(stored')
  /\ \A i \in 1..Len(stored) : stored'[i] = stored[i]
  /\ \A id \in (Len(stored) + 1)..Len(stored') :
       ~stored'[id].heard \/ (call'[c].at = "push" /\ id \in Range(call'[c].ids))
  /\ Range(helper.memory) \subseteq Range(helper'.memory)
  /\ helper.made /\ AtPush(call[c]) => \A id \in Range(call[c].ids) :
       id \in Range(helper'.memory) \/ (AtPush(call'[c]) /\ id \in Range(call'[c].ids))
  /\ exact' => exact
  /\ helper.made => helper'.made
  /\ call'[c].kind = "chat" => helper'.made

\* What a step of c has to know to fill the helper.
Fills(c) ==
  /\ call'[c].kind = "chat" /\ call'[c].at \in {"load", "recent", "replace"} =>
       call'[c].latest >= Len(stored) \/ (Filling(c) /\ call'[c].latest = call[c].latest)
  /\ call'[c].at = "delete" => call'[c].kind # "chat"
  /\ call'[c].at = "adopt" =>
       /\ call[c].kind = "chat" /\ call'[c].kind = "chat"
       /\ exact' => \A id \in 1..Len(stored) : id + Limit > Len(stored) =>
            Accounted(id) \/ id \in Range(helper'.memory) \/ id \in Range(call'[c].ids)
  /\ helper'.loaded /\ ~helper.loaded =>
       /\ call[c].kind = "chat"
       /\ exact' => \A id \in 1..Len(stored) : id + Limit > Len(stored) => Accounted(id)

\* What a step of c does to the list.
Bounds(c) ==
  /\ Len(cache') <= Limit
  /\ call'[c].at \in {"delete", "replace"} => Len(call'[c].ids) <= Limit
  /\ AtPush(call'[c]) => call'[c].ids # <<>>

\* A step that does all of it keeps the invariant.
LEMMA MemoryStep ==
  ASSUME MemoryInv, NEW c \in Requests, Only(c), MemoryTypes', Keeps(c), Fills(c), Bounds(c)
  PROVE  MemoryInv'
<1> DEFINE m == Len(stored)
           n == Len(stored')
<1>0. /\ m \in Nat /\ n \in Nat /\ m <= n /\ Limit \in Nat
      /\ Ids = 1..m /\ Ids' = 1..n
      /\ Range(Recent(Len(stored))) = {i \in 1..m : i + Limit > m}
      /\ Range(Recent(Len(stored)))' = {i \in 1..n : i + Limit > n}
  <2>1. m \in Nat /\ n \in Nat /\ Ids = 1..m /\ Ids' = 1..n
    BY DEF MemoryInv, MemoryTypes, Ids
  <2>2. \A k \in Nat : Range(Recent(k)) = {i \in 1..k : i + Limit > k}
    BY RecentGives
  <2> QED BY <2>1, <2>2, LimitAssumption DEF Keeps
<1>1. ASSUME helper.made, NEW id \in 1..m, Accounted(id)
      PROVE  Accounted(id)'
  <2>1. CASE ~stored[id].heard
    BY <2>1 DEF Keeps, Accounted
  <2>2. CASE id \in Range(helper.memory)
    BY <2>2 DEF Keeps, Accounted
  <2>3. CASE Pending(id)
    <3>1. PICK d \in Requests : AtPush(call[d]) /\ id \in Range(call[d].ids)
      BY <2>3 DEF Pending, AtPush
    <3>2. CASE d = c
      BY <1>1, <3>1, <3>2 DEF Keeps, Accounted, Pending, AtPush
    <3>3. CASE d # c
      BY <3>1, <3>3 DEF Only, Accounted, Pending, AtPush
    <3> QED BY <3>2, <3>3
  <2> QED BY <1>1, <2>1, <2>2, <2>3 DEF Accounted
<1>2. \A id \in (m + 1)..n : Accounted(id)'
  BY DEF Keeps, Accounted, Pending
<1>3. HelperMade'
  BY DEF MemoryInv, HelperMade, Only, Keeps, Fills
<1>4. SinceKnown'
  <2> SUFFICES ASSUME NEW d \in Requests, Filling(d)', NEW id \in 1..n, id > call'[d].latest
               PROVE  Accounted(id)'
    BY <1>0 DEF SinceKnown
  <2>1. CASE id \in (m + 1)..n
    BY <1>2, <2>1
  <2>2. CASE id \in 1..m
    <3>1. Filling(d) /\ id > call[d].latest
      <4>1. CASE d = c
        <5>1. call'[c].latest \in Nat
          BY DEF MemoryTypes, CallOK
        <5> QED BY <1>0, <2>2, <4>1, <5>1 DEF Fills, Filling
      <4>2. CASE d # c
        BY <4>2 DEF Only, Filling
      <4> QED BY <4>1, <4>2
    <3>2. Accounted(id) /\ helper.made
      BY <1>0, <2>2, <3>1 DEF MemoryInv, SinceKnown, HelperMade, Filling
    <3> QED BY <1>1, <2>2, <3>2
  <2> QED BY <1>0, <2>1, <2>2
<1>5. WindowCompletes'
  <2> SUFFICES ASSUME exact', NEW d \in Requests, call'[d].at = "adopt",
                      NEW id \in 1..n, id + Limit > n
               PROVE  Accounted(id)' \/ id \in Range(call'[d].ids)
    BY <1>0 DEF WindowCompletes
  <2>1. CASE id \in (m + 1)..n
    BY <1>2, <2>1
  <2>2. CASE id \in 1..m
    <3>1. id + Limit > m
      BY <1>0
    <3>2. CASE d = c
      <4>1. helper.made
        BY <3>2 DEF Fills, MemoryInv, HelperMade
      <4>2. Accounted(id) \/ id \in Range(helper'.memory) \/ id \in Range(call'[c].ids)
        BY <2>2, <3>1, <3>2 DEF Fills
      <4>3. id \in Range(helper'.memory) => Accounted(id)'
        BY DEF Accounted
      <4> QED BY <1>1, <2>2, <3>2, <4>1, <4>2, <4>3
    <3>3. CASE d # c
      <4>1. call'[d] = call[d] /\ exact
        BY <3>3 DEF Only, Keeps
      <4>2. Accounted(id) \/ id \in Range(call[d].ids)
        BY <1>0, <2>2, <3>1, <4>1 DEF MemoryInv, WindowCompletes
      <4>3. helper.made
        BY <4>1 DEF MemoryInv, HelperMade
      <4> QED BY <1>1, <2>2, <4>1, <4>2, <4>3
    <3> QED BY <3>2, <3>3
  <2> QED BY <1>0, <2>1, <2>2
<1>6. NothingForgotten'
  <2> SUFFICES ASSUME helper'.loaded, exact', NEW id \in 1..n, id + Limit > n
               PROVE  Accounted(id)'
    BY <1>0 DEF NothingForgotten, Accounted, Pending
  <2>1. CASE id \in (m + 1)..n
    BY <1>2, <2>1
  <2>2. CASE id \in 1..m
    <3>1. id + Limit > m
      BY <1>0
    <3>2. CASE helper.loaded
      <4>1. exact
        BY DEF Keeps
      <4>2. Accounted(id)
        BY <1>0, <2>2, <3>1, <3>2, <4>1 DEF MemoryInv, NothingForgotten, Accounted, Pending
      <4> QED BY <1>1, <2>2, <3>2, <4>2 DEF MemoryInv, HelperMade
    <3>3. CASE ~helper.loaded
      <4>1. Accounted(id) /\ call[c].kind = "chat"
        BY <2>2, <3>1, <3>3 DEF Fills
      <4> QED BY <1>1, <2>2, <4>1 DEF MemoryInv, HelperMade
    <3> QED BY <3>2, <3>3
  <2> QED BY <1>0, <2>1, <2>2
<1>7. ListsFit'
  BY DEF MemoryInv, ListsFit, Bounds, Only, AtPush
<1> QED BY <1>3, <1>4, <1>5, <1>6, <1>7 DEF MemoryInv

\* A step of c that stores nothing, and leaves the helper or adds to it.
LEMMA ChatQuietStep ==
  ASSUME MemoryInv, NEW c \in Requests, Only(c), CallOK(call'[c], Len(stored)),
         stored' = stored, cache' \in Seq(1..Len(stored)), Bounds(c),
         helper' \in [made: BOOLEAN, loaded: BOOLEAN, memory: Seq(1..Len(stored))],
         exact' \in BOOLEAN, exact' => exact,
         Range(helper.memory) \subseteq Range(helper'.memory),
         helper.made /\ AtPush(call[c]) => \A id \in Range(call[c].ids) :
           id \in Range(helper'.memory) \/ (AtPush(call'[c]) /\ id \in Range(call'[c].ids)),
         helper.made => helper'.made, call'[c].kind = "chat" => helper'.made,
         Fills(c)
  PROVE  MemoryInv'
<1>1. MemoryTypes /\ Len(stored) \in Nat
  BY DEF MemoryInv, MemoryTypes
<1>2. MemoryTypes'
  <2>1. stored' \in Seq([role: Roles, heard: BOOLEAN])
    BY <1>1 DEF MemoryTypes
  <2>2. Len(stored') = Len(stored) /\ Len(stored) <= Len(stored)
    BY <1>1
  <2> QED BY <1>1, <2>1, <2>2, TypesKept
<1>3. Keeps(c)
  BY <1>1 DEF Keeps
<1> QED BY <1>2, <1>3, MemoryStep

\* A request begins.
LEMMA BeginStep ==
  ASSUME MemoryInv, NEW c \in Requests, BeginChat(c) \/ BeginExchange(c) \/ BeginView(c) \/ BeginRebuild(c)
  PROVE  MemoryInv'
<1>1. PICK k \in Kinds, p \in {"ask", "latest", "recent"} :
        /\ Begin(c, k, p)
        /\ \/ k = "chat" /\ p \in {"ask", "latest"} /\ helper' = [helper EXCEPT !.made = TRUE]
           \/ k # "chat" /\ helper' = helper
  BY DEF BeginChat, BeginExchange, BeginView, BeginRebuild, Kinds
<1>2. MemoryTypes
  BY DEF MemoryInv
<1>3. /\ Only(c) /\ CallOK(call'[c], Len(stored)) /\ call[c].at = "idle"
      /\ call'[c].at = p /\ call'[c].kind = k
      /\ UNCHANGED <<stored, cache, exact>>
  <2>1. p \in Places
    BY DEF Places
  <2>2. Begin(c, k, p)
    BY <1>1
  <2>3. /\ Only(c) /\ CallOK(call'[c], Len(stored)) /\ call[c].at = "idle"
        /\ call'[c] = [at |-> p, kind |-> k, latest |-> 0, ids |-> <<>>, prompt |-> NoPrompt]
        /\ UNCHANGED <<stored, cache, exact>>
    BY <1>2, <2>1, <2>2, BeginGives
  <2> QED BY <2>3
<1>4. /\ helper' \in [made: BOOLEAN, loaded: BOOLEAN, memory: Seq(1..Len(stored))]
      /\ helper'.memory = helper.memory /\ helper'.loaded = helper.loaded
      /\ helper.made => helper'.made
      /\ k = "chat" => helper'.made
  BY <1>1, <1>2 DEF MemoryTypes
<1>5. Fills(c) /\ Bounds(c)
  BY <1>1, <1>3, <1>4 DEF Fills, Bounds, AtPush, MemoryInv, ListsFit
<1>6. ~AtPush(call[c])
  BY <1>3 DEF AtPush
<1> QED BY <1>2, <1>3, <1>4, <1>5, <1>6, ChatQuietStep DEF MemoryTypes

\* A request ends where it has nothing left to add.
LEMMA FailStep == ASSUME MemoryInv, NEW c \in Requests, Fail(c) PROVE MemoryInv'
<1>1. MemoryTypes
  BY DEF MemoryInv
<1>2. /\ call[c].at \in {"latest", "recent", "ask", "model"} /\ End(c)
      /\ UNCHANGED <<stored, cache, helper, exact>>
  BY DEF Fail
<1>3. Only(c) /\ call'[c] = Idle /\ CallOK(call'[c], Len(stored))
  BY <1>1, <1>2, EndGives
<1>4. Fills(c) /\ Bounds(c) /\ ~AtPush(call[c]) /\ call'[c].kind # "chat"
  BY <1>2, <1>3 DEF Fills, Bounds, AtPush, MemoryInv, ListsFit, Idle
<1> QED BY <1>1, <1>2, <1>3, <1>4, ChatQuietStep DEF MemoryTypes

\* The newest id: nothing has been stored since.
LEMMA ReadLatestStep == ASSUME MemoryInv, NEW c \in Requests, ReadLatest(c) PROVE MemoryInv'
<1>1. MemoryTypes
  BY DEF MemoryInv
<1>2. /\ call[c].at = "latest"
      /\ call' = [call EXCEPT ![c].at = "load", ![c].latest = Len(stored)]
      /\ UNCHANGED <<stored, cache, helper, exact>>
  BY DEF ReadLatest, At
<1>3. CallOK(call[c], Len(stored)) /\ call = [d \in Requests |-> call[d]] /\ Len(stored) \in Nat
  BY <1>1 DEF MemoryTypes
<1>4. /\ Only(c)
      /\ call'[c] = [at |-> "load", kind |-> call[c].kind, latest |-> Len(stored),
                     ids |-> call[c].ids, prompt |-> call[c].prompt]
  BY <1>2, <1>3 DEF Only, CallOK
<1>5. CallOK(call'[c], Len(stored))
  BY <1>3, <1>4 DEF CallOK, Places
<1>6. call'[c].at = "load" /\ call'[c].kind = call[c].kind /\ call'[c].latest >= Len(stored)
  BY <1>3, <1>4
<1>7. Fills(c) /\ ~AtPush(call[c]) /\ (call'[c].kind = "chat" => helper.made)
  BY <1>2, <1>6 DEF Fills, AtPush, MemoryInv, HelperMade
<1>8. Bounds(c)
  BY <1>2, <1>6 DEF Bounds, AtPush, MemoryInv, ListsFit
<1> QED BY <1>1, <1>2, <1>4, <1>5, <1>7, <1>8, ChatQuietStep DEF MemoryTypes

\* A window of the newest messages, whole since the newest id was read.
LEMMA WindowedStep ==
  ASSUME MemoryInv, NEW c \in Requests, NEW ids \in Seq(1..Len(stored)),
         call[c].at \in {"load", "replace"}, Windowed(c, ids), Noted(c, ids),
         stored' = stored, helper' = helper, cache' \in Seq(1..Len(stored)), Len(cache') <= Limit
  PROVE  MemoryInv'
<1>1. MemoryTypes
  BY DEF MemoryInv
<1>2. /\ Only(c) /\ CallOK(call'[c], Len(stored))
      /\ call[c].kind = "chat" =>
           call'[c] = [at |-> "adopt", kind |-> "chat", latest |-> 0, ids |-> ids, prompt |-> NoPrompt]
      /\ call[c].kind # "chat" => call'[c] = Idle
  BY <1>1, WindowedGives
<1>3. /\ exact' \in BOOLEAN /\ (exact' => exact)
      /\ exact' /\ call[c].kind = "chat" => \E n \in call[c].latest..Len(stored) : ids = Recent(n)
  BY <1>1, NotedGives
<1>4. ~AtPush(call[c]) /\ (call[c].kind = "chat" => helper.made)
  BY DEF AtPush, MemoryInv, HelperMade
<1>5. CASE call[c].kind # "chat"
  <2>1. Fills(c) /\ Bounds(c) /\ call'[c].kind # "chat"
    BY <1>2, <1>5 DEF Fills, Bounds, AtPush, Idle
  <2> QED BY <1>1, <1>2, <1>3, <1>4, <2>1, ChatQuietStep DEF MemoryTypes
<1>6. CASE call[c].kind = "chat"
  <2>1. ASSUME exact', NEW id \in 1..Len(stored), id + Limit > Len(stored)
        PROVE  Accounted(id) \/ id \in Range(ids)
    <3>1. PICK n \in call[c].latest..Len(stored) : ids = Recent(n)
      BY <1>3, <1>6, <2>1
    <3>2. n \in Nat /\ Len(stored) \in Nat /\ n >= call[c].latest /\ n <= Len(stored) /\ Limit \in Nat
      BY <1>1, <3>1, LimitAssumption DEF MemoryTypes, CallOK
    <3>3. Range(ids) = {i \in 1..n : i + Limit > n}
      BY <3>1, <3>2, RecentGives
    <3>4. CASE id <= n
      BY <2>1, <3>2, <3>3, <3>4
    <3>5. CASE id > n
      <4>1. id > call[c].latest /\ id \in Ids
        BY <1>1, <3>2, <3>5 DEF Ids, MemoryTypes, CallOK
      <4> QED BY <1>6, <4>1 DEF MemoryInv, SinceKnown, Filling
    <3> QED BY <3>2, <3>4, <3>5
  <2>2. Fills(c) /\ Bounds(c)
    BY <1>2, <1>6, <2>1 DEF Fills, Bounds, AtPush
  <2> QED BY <1>1, <1>2, <1>3, <1>4, <1>6, <2>2, ChatQuietStep DEF MemoryTypes
<1> QED BY <1>5, <1>6

\* A chat goes on with the newest id it read.
LEMMA LoadCacheStep == ASSUME MemoryInv, NEW c \in Requests, LoadCache(c) PROVE MemoryInv'
<1>1. MemoryTypes /\ call[c].at = "load" /\ UNCHANGED <<stored, cache, helper>>
  BY DEF MemoryInv, LoadCache, At
<1>2. CASE Windowed(c, Newest(cache)) /\ Noted(c, Newest(cache))
  <2>1. Newest(cache) \in Seq(1..Len(stored))
    BY <1>1, NewestGives DEF MemoryTypes
  <2> QED BY <1>1, <1>2, <2>1, WindowedStep DEF MemoryTypes, MemoryInv, ListsFit
<1>3. CASE Goto(c, "recent") /\ UNCHANGED exact
  <2>1. /\ Only(c) /\ CallOK(call'[c], Len(stored))
        /\ call'[c].at = "recent" /\ call'[c].kind = call[c].kind /\ call'[c].latest = call[c].latest
    BY <1>1, <1>3, GotoGives DEF Places
  <2>2. Fills(c) /\ ~AtPush(call[c]) /\ (call'[c].kind = "chat" => helper.made)
    BY <1>1, <2>1 DEF Fills, Filling, AtPush, MemoryInv, HelperMade
  <2>3. Bounds(c)
    BY <1>1, <2>1 DEF Bounds, AtPush, MemoryInv, ListsFit
  <2> QED BY <1>1, <1>3, <2>1, <2>2, <2>3, ChatQuietStep DEF MemoryTypes
<1> QED BY <1>2, <1>3 DEF LoadCache

\* The window is read, and the list is deleted for a rebuild.
LEMMA ReadRecentStep == ASSUME MemoryInv, NEW c \in Requests, ReadRecent(c) PROVE MemoryInv'
<1> DEFINE p == IF call[c].kind = "rebuild" THEN "delete" ELSE "replace"
<1>1. MemoryTypes
  BY DEF MemoryInv
<1>2. /\ call[c].at = "recent"
      /\ call' = [call EXCEPT ![c].ids = Recent(Len(stored)), ![c].at = p]
      /\ UNCHANGED <<stored, cache, helper, exact>>
  BY DEF ReadRecent, At
<1>3. /\ CallOK(call[c], Len(stored)) /\ call = [d \in Requests |-> call[d]]
      /\ Len(stored) \in Nat /\ Recent(Len(stored)) \in Seq(1..Len(stored))
      /\ Len(Recent(Len(stored))) <= Limit
  BY <1>1, RecentGives DEF MemoryTypes
<1>4. /\ Only(c)
      /\ call'[c] = [at |-> p, kind |-> call[c].kind, latest |-> call[c].latest,
                     ids |-> Recent(Len(stored)), prompt |-> call[c].prompt]
  BY <1>2, <1>3 DEF Only, CallOK
<1>5. CallOK(call'[c], Len(stored))
  BY <1>3, <1>4 DEF CallOK, Places
<1>6. Fills(c) /\ ~AtPush(call[c]) /\ (call'[c].kind = "chat" => helper.made)
  BY <1>2, <1>4 DEF Fills, Filling, AtPush, MemoryInv, HelperMade
<1>7. Bounds(c)
  <2>1. call'[c].ids = Recent(Len(stored)) /\ call'[c].at \in {"delete", "replace"}
    BY <1>4
  <2> QED BY <1>2, <1>3, <2>1 DEF Bounds, AtPush, MemoryInv, ListsFit
<1> QED BY <1>1, <1>2, <1>4, <1>5, <1>6, <1>7, ChatQuietStep DEF MemoryTypes

\* A rebuild deletes the list.
LEMMA DeleteCacheStep == ASSUME MemoryInv, NEW c \in Requests, DeleteCache(c) PROVE MemoryInv'
<1>1. MemoryTypes /\ call[c].at = "delete" /\ UNCHANGED <<stored, helper, exact>>
  BY DEF MemoryInv, DeleteCache, At
<1>2. /\ Only(c) /\ CallOK(call'[c], Len(stored))
      /\ call'[c].at = "replace" /\ call'[c].kind = call[c].kind /\ call'[c].ids = call[c].ids
  BY <1>1, GotoGives DEF DeleteCache, Places
<1>3. cache' \in Seq(1..Len(stored)) /\ Len(cache') <= Limit
  <2>1. CASE cache' = <<>>
    BY <2>1, LimitAssumption
  <2>2. CASE cache' = cache
    BY <2>2 DEF MemoryTypes, MemoryInv, ListsFit
  <2> QED BY <2>1, <2>2 DEF DeleteCache
<1>4. Fills(c) /\ ~AtPush(call[c]) /\ call'[c].kind # "chat"
  BY <1>1, <1>2 DEF Fills, AtPush, MemoryInv, HelperMade
<1>5. Bounds(c)
  BY <1>1, <1>2, <1>3 DEF Bounds, AtPush, MemoryInv, ListsFit
<1> QED BY <1>1, <1>2, <1>3, <1>4, <1>5, ChatQuietStep DEF MemoryTypes

\* The list is replaced, and the window is what was read.
LEMMA ReplaceStep == ASSUME MemoryInv, NEW c \in Requests, Replace(c) PROVE MemoryInv'
<1>1. MemoryTypes /\ call[c].at = "replace" /\ UNCHANGED <<stored, helper>>
  BY DEF MemoryInv, Replace, At
<1>2. Windowed(c, call[c].ids) /\ Noted(c, call[c].ids) /\ cache' \in {call[c].ids, cache}
  BY DEF Replace
<1>3. call[c].ids \in Seq(1..Len(stored)) /\ Len(call[c].ids) <= Limit
  BY <1>1 DEF MemoryTypes, CallOK, MemoryInv, ListsFit
<1>4. cache' \in Seq(1..Len(stored)) /\ Len(cache') <= Limit
  BY <1>1, <1>2, <1>3 DEF MemoryTypes, MemoryInv, ListsFit
<1> QED BY <1>1, <1>2, <1>3, <1>4, WindowedStep

\* The helper's memory grows by a message of the table.
LEMMA MemoryGrows ==
  ASSUME MemoryTypes, NEW id \in 1..Len(stored),
         helper' = [helper EXCEPT !.memory = Append(@, id)]
  PROVE  /\ helper' \in [made: BOOLEAN, loaded: BOOLEAN, memory: Seq(1..Len(stored))]
         /\ helper'.made = helper.made /\ helper'.loaded = helper.loaded
         /\ Range(helper'.memory) = Range(helper.memory) \cup {id}
<1>1. /\ helper \in [made: BOOLEAN, loaded: BOOLEAN, memory: Seq(1..Len(stored))]
      /\ helper'.memory = Append(helper.memory, id)
      /\ helper'.made = helper.made /\ helper'.loaded = helper.loaded
  BY DEF MemoryTypes
<1>2. helper' \in [made: BOOLEAN, loaded: BOOLEAN, memory: Seq(1..Len(stored))]
  <2>1. Append(helper.memory, id) \in Seq(1..Len(stored))
    BY <1>1
  <2> HIDE DEF MemoryTypes
  <2>2. \A m \in Seq(1..Len(stored)) : [helper EXCEPT !.memory = m]
          \in [made: BOOLEAN, loaded: BOOLEAN, memory: Seq(1..Len(stored))]
    BY <1>1
  <2> QED BY <2>1, <2>2
<1> DEFINE s == helper.memory
           t == helper'.memory
<1>3. /\ s \in Seq(1..Len(stored)) /\ DOMAIN s = 1..Len(s) /\ Len(s) \in Nat
      /\ DOMAIN t = 1..(Len(s) + 1) /\ t[Len(s) + 1] = id /\ \A i \in 1..Len(s) : t[i] = s[i]
  BY <1>1
<1> HIDE DEF s, t
<1>4. Range(t) = Range(s) \cup {id}
  <2>1. \A i \in DOMAIN t : i = Len(s) + 1 \/ i \in DOMAIN s
    BY <1>3
  <2>2. Len(s) + 1 \in DOMAIN t /\ \A i \in DOMAIN s : i \in DOMAIN t
    BY <1>3
  <2>3. Range(t) = {t[i] : i \in DOMAIN t} /\ Range(s) = {s[i] : i \in DOMAIN s}
    BY DEF Range
  <2> QED BY <1>3, <2>1, <2>2, <2>3
<1> QED BY <1>1, <1>2, <1>4 DEF s, t

\* A sequence is its head and its tail.
LEMMA HeadAndTail ==
  ASSUME NEW S, NEW s \in Seq(S), s # <<>>
  PROVE  Head(s) \in S /\ Tail(s) \in Seq(S) /\ Range(s) = {Head(s)} \cup Range(Tail(s))
<1>1. /\ Len(s) \in Nat \ {0} /\ DOMAIN s = 1..Len(s) /\ Head(s) = s[1] /\ Tail(s) \in Seq(S)
      /\ DOMAIN Tail(s) = 1..(Len(s) - 1) /\ \A i \in 1..(Len(s) - 1) : Tail(s)[i] = s[i + 1]
  OBVIOUS
<1>2. \A i \in 1..Len(s) : i = 1 \/ (i - 1 \in 1..(Len(s) - 1) /\ i = (i - 1) + 1)
  BY <1>1
<1> DEFINE t == Tail(s)
<1>3. \A i \in DOMAIN s : s[i] = Head(s) \/ (i - 1 \in DOMAIN t /\ s[i] = t[i - 1])
  BY <1>1, <1>2
<1>4. /\ 1 \in DOMAIN s /\ s[1] = Head(s)
      /\ \A i \in DOMAIN t : i + 1 \in DOMAIN s /\ t[i] = s[i + 1]
  BY <1>1
<1> HIDE DEF t
<1>5. Range(t) = {t[i] : i \in DOMAIN t} /\ Range(s) = {s[i] : i \in DOMAIN s}
  BY DEF Range
<1>6. Range(s) = {Head(s)} \cup Range(t)
  BY <1>3, <1>4, <1>5
<1> QED BY <1>1, <1>6 DEF t

\* The helper takes the next message of its window, or has all of them.
LEMMA AdoptStep == ASSUME MemoryInv, NEW c \in Requests, Adopt(c) PROVE MemoryInv'
<1>1. /\ MemoryTypes /\ call[c].at = "adopt" /\ UNCHANGED <<stored, cache, exact>>
      /\ call[c].kind = "chat" /\ helper.made /\ ~AtPush(call[c])
  BY DEF MemoryInv, HelperMade, Adopt, At, AtPush
<1>2. call[c].ids \in Seq(1..Len(stored)) /\ Len(stored) \in Nat
  BY <1>1 DEF MemoryTypes, CallOK
<1>3. \A id \in 1..Len(stored) : exact /\ id + Limit > Len(stored) => Accounted(id) \/ id \in Range(call[c].ids)
  <2>1. Range(Recent(Len(stored))) = {i \in 1..Len(stored) : i + Limit > Len(stored)}
    BY <1>2, RecentGives
  <2> QED BY <1>1, <2>1 DEF MemoryInv, WindowCompletes
<1>4. CASE /\ call[c].ids # <<>>
           /\ helper' = [helper EXCEPT !.memory = Append(@, Head(call[c].ids))]
           /\ Carry(c, "adopt", Tail(call[c].ids))
  <2>1. /\ Head(call[c].ids) \in 1..Len(stored) /\ Tail(call[c].ids) \in Seq(1..Len(stored))
        /\ Range(call[c].ids) = {Head(call[c].ids)} \cup Range(Tail(call[c].ids))
    BY <1>2, <1>4, HeadAndTail
  <2>2. /\ helper' \in [made: BOOLEAN, loaded: BOOLEAN, memory: Seq(1..Len(stored))]
        /\ helper'.made = helper.made /\ helper'.loaded = helper.loaded
        /\ Range(helper'.memory) = Range(helper.memory) \cup {Head(call[c].ids)}
    BY <1>1, <1>4, <2>1, MemoryGrows
  <2>3. /\ Only(c) /\ CallOK(call'[c], Len(stored))
        /\ call'[c] = [at |-> "adopt", kind |-> call[c].kind, latest |-> 0,
                       ids |-> Tail(call[c].ids), prompt |-> NoPrompt]
    BY <1>1, <1>4, <2>1, CarryGives DEF Places
  <2>4. Fills(c) /\ Bounds(c)
    BY <1>1, <1>3, <2>1, <2>2, <2>3 DEF Fills, Bounds, AtPush, MemoryInv, ListsFit
  <2> QED BY <1>1, <2>2, <2>3, <2>4, ChatQuietStep DEF MemoryTypes
<1>5. CASE /\ call[c].ids = <<>>
           /\ helper' = [helper EXCEPT !.loaded = TRUE]
           /\ Goto(c, "ask")
  <2>1. /\ helper' \in [made: BOOLEAN, loaded: BOOLEAN, memory: Seq(1..Len(stored))]
        /\ helper'.made = helper.made /\ helper'.memory = helper.memory
    BY <1>1, <1>5 DEF MemoryTypes
  <2>2. Only(c) /\ CallOK(call'[c], Len(stored)) /\ call'[c].at = "ask" /\ call'[c].kind = "chat"
    BY <1>1, <1>5, GotoGives DEF Places
  <2>3. Range(call[c].ids) = {}
    BY <1>5 DEF Range
  <2>4. Fills(c) /\ Bounds(c)
    BY <1>1, <1>3, <2>2, <2>3 DEF Fills, Bounds, AtPush, MemoryInv, ListsFit
  <2> QED BY <1>1, <2>1, <2>2, <2>4, ChatQuietStep DEF MemoryTypes
<1> QED BY <1>4, <1>5 DEF Adopt

\* What is stored is about to be added.
LEMMA StoreStep ==
  ASSUME MemoryInv, NEW c \in Requests, NEW roles \in Seq(Roles), roles # <<>>, Store(c, roles),
         call[c].at \in {"ask", "model"}
  PROVE  MemoryInv'
<1>1. MemoryTypes /\ ~AtPush(call[c]) /\ (call[c].kind = "chat" => helper.made)
  BY DEF MemoryInv, HelperMade, AtPush
<1>2. /\ stored' \in Seq([role: Roles, heard: BOOLEAN])
      /\ Len(stored') = Len(stored) + Len(roles)
      /\ \A i \in 1..Len(stored) : stored'[i] = stored[i]
      /\ Only(c) /\ CallOK(call'[c], Len(stored'))
      /\ UNCHANGED <<cache, helper, exact>>
      /\ call'[c].kind \in {call[c].kind, "none"}
         /\ call'[c].at \in {"push", "idle"}
      /\ call'[c].at = "push" => call'[c].ids # <<>>
      /\ \A id \in (Len(stored) + 1)..Len(stored') :
           ~stored'[id].heard \/ (call'[c].at = "push" /\ id \in Range(call'[c].ids))
  BY <1>1, StoreGives
<1>3. Len(stored) \in Nat /\ Len(roles) \in Nat /\ Len(stored') \in Nat /\ Len(stored) <= Len(stored')
  BY <1>1, <1>2 DEF MemoryTypes
<1>4. MemoryTypes'
  <2>1. Seq(1..Len(stored)) \subseteq Seq(1..Len(stored'))
    BY <1>3, Grown
  <2>2. cache' \in Seq(1..Len(stored'))
    BY <1>1, <1>2, <2>1 DEF MemoryTypes
  <2>3. helper' \in [made: BOOLEAN, loaded: BOOLEAN, memory: Seq(1..Len(stored'))]
    BY <1>1, <1>2, <2>1 DEF MemoryTypes
  <2> QED BY <1>1, <1>2, <1>3, <2>2, <2>3, TypesKept DEF MemoryTypes
<1>5. Keeps(c)
  BY <1>1, <1>2, <1>3 DEF Keeps
<1>6. Fills(c) /\ Bounds(c)
  BY <1>2 DEF Fills, Bounds, AtPush, MemoryInv, ListsFit
<1> QED BY <1>2, <1>4, <1>5, <1>6, MemoryStep

\* What is pushed is still to be added.
LEMMA PushStep == ASSUME MemoryInv, NEW c \in Requests, Push(c) PROVE MemoryInv'
<1>1. MemoryTypes /\ call[c].at = "push" /\ UNCHANGED <<stored, helper, exact>>
  BY DEF MemoryInv, Push, At
<1>2. /\ Only(c) /\ CallOK(call'[c], Len(stored))
      /\ call'[c].at = "remember" /\ call'[c].kind = call[c].kind /\ call'[c].ids = call[c].ids
  BY <1>1, GotoGives DEF Push, Places
<1>3. cache' \in Seq(1..Len(stored)) /\ Len(cache') <= Limit
  <2>1. CASE cache' = Pushed(call[c].ids)
    <3>1. cache \in Seq(1..Len(stored)) /\ call[c].ids \in Seq(1..Len(stored))
      BY <1>1 DEF MemoryTypes, CallOK
    <3>2. cache \o call[c].ids \in Seq(1..Len(stored))
      BY <3>1, Joined
    <3> QED BY <2>1, <3>2, NewestGives DEF Pushed
  <2>2. CASE cache' = cache
    BY <1>1, <2>2 DEF MemoryTypes, MemoryInv, ListsFit
  <2> QED BY <2>1, <2>2 DEF Push
<1>4. call[c].ids # <<>>
  BY <1>1 DEF MemoryInv, ListsFit, AtPush
<1>5. Fills(c) /\ Bounds(c) /\ (call'[c].kind = "chat" => helper.made)
  BY <1>1, <1>2, <1>3, <1>4 DEF Fills, Bounds, AtPush, MemoryInv, ListsFit, HelperMade
<1>6. \A id \in Range(call[c].ids) : AtPush(call'[c]) /\ id \in Range(call'[c].ids)
  BY <1>2 DEF AtPush
<1> QED BY <1>1, <1>2, <1>3, <1>5, <1>6, ChatQuietStep DEF MemoryTypes

\* The helper is told of a request's next message, if there is a helper.
LEMMA RememberStep == ASSUME MemoryInv, NEW c \in Requests, Remember(c) PROVE MemoryInv'
<1>1. MemoryTypes /\ call[c].at = "remember" /\ UNCHANGED <<stored, cache, exact>>
  BY DEF MemoryInv, Remember, At
<1> DEFINE ids == call[c].ids
<1>2. ids \in Seq(1..Len(stored)) /\ (call[c].kind = "chat" => helper.made)
  BY <1>1 DEF MemoryTypes, CallOK, MemoryInv, HelperMade
<1>3. CASE ~Remembers(c)
  <2>1. helper' = helper /\ End(c) /\ ~helper.made
    BY <1>3 DEF Remember, Remembers
  <2>2. Only(c) /\ call'[c] = Idle /\ CallOK(call'[c], Len(stored))
    BY <1>1, <2>1, EndGives
  <2>3. Fills(c) /\ Bounds(c) /\ call'[c].kind # "chat"
    BY <1>1, <2>1, <2>2 DEF Fills, Bounds, AtPush, MemoryInv, ListsFit, Idle
  <2> QED BY <1>1, <2>1, <2>2, <2>3, ChatQuietStep DEF MemoryTypes
<1>4. CASE Remembers(c)
  <2>1. /\ helper' = [helper EXCEPT !.memory = Append(@, Head(ids))]
        /\ \/ Tail(ids) # <<>> /\ Carry(c, "remember", Tail(ids))
           \/ Tail(ids) = <<>> /\ (Goto(c, "prompt") \/ End(c))
    BY <1>4 DEF Remember
  <2>2. ids # <<>>
    BY <1>1 DEF MemoryInv, ListsFit, AtPush
  <2> HIDE DEF ids
  <2>3. /\ Head(ids) \in 1..Len(stored) /\ Tail(ids) \in Seq(1..Len(stored))
        /\ Range(ids) = {Head(ids)} \cup Range(Tail(ids))
    BY <1>2, <2>2, HeadAndTail
  <2>4. /\ helper' \in [made: BOOLEAN, loaded: BOOLEAN, memory: Seq(1..Len(stored))]
        /\ helper'.made = helper.made /\ helper'.loaded = helper.loaded
        /\ Range(helper'.memory) = Range(helper.memory) \cup {Head(ids)}
    BY <1>1, <2>1, <2>3, MemoryGrows
  <2>5. CASE Tail(ids) # <<>> /\ Carry(c, "remember", Tail(ids))
    <3>1. /\ Only(c) /\ CallOK(call'[c], Len(stored))
          /\ call'[c] = [at |-> "remember", kind |-> call[c].kind, latest |-> 0,
                         ids |-> Tail(ids), prompt |-> NoPrompt]
      BY <1>1, <2>3, <2>5, CarryGives DEF Places
    <3>2. Fills(c) /\ Bounds(c) /\ (call'[c].kind = "chat" => helper.made)
      BY <1>1, <1>2, <2>4, <2>5, <3>1 DEF Fills, Bounds, AtPush, MemoryInv, ListsFit
    <3>3. \A id \in Range(ids) :
            id \in Range(helper'.memory) \/ (AtPush(call'[c]) /\ id \in Range(call'[c].ids))
      BY <2>3, <2>4, <3>1 DEF AtPush
    <3> QED BY <1>1, <2>4, <3>1, <3>2, <3>3, ChatQuietStep DEF MemoryTypes, ids
  <2>6. CASE Tail(ids) = <<>> /\ (Goto(c, "prompt") \/ End(c))
    <3>1. /\ Only(c) /\ CallOK(call'[c], Len(stored)) /\ call'[c].at \in {"prompt", "idle"}
          /\ call'[c].kind \in {call[c].kind, "none"}
      BY <1>1, <2>6, GotoGives, EndGives DEF Places, Idle
    <3>2. Fills(c) /\ Bounds(c) /\ (call'[c].kind = "chat" => helper.made)
      BY <1>1, <1>2, <2>4, <3>1 DEF Fills, Bounds, AtPush, MemoryInv, ListsFit
    <3>3. Range(Tail(ids)) = {}
      BY <2>6 DEF Range
    <3>4. \A id \in Range(ids) : id \in Range(helper'.memory)
      BY <2>3, <2>4, <3>3
    <3> QED BY <1>1, <2>4, <3>1, <3>2, <3>4, ChatQuietStep DEF MemoryTypes, ids
  <2> QED BY <2>1, <2>5, <2>6
<1> QED BY <1>3, <1>4

\* A prompt is assembled: no memory changes.
LEMMA PromptStep == ASSUME MemoryInv, NEW c \in Requests, Prompt(c) PROVE MemoryInv'
<1>1. MemoryTypes /\ call[c].at = "prompt" /\ UNCHANGED <<stored, cache, helper, exact>>
  BY DEF MemoryInv, Prompt, At
<1>2. PICK known : call' = [call EXCEPT ![c].at = "model",
                                       ![c].prompt = Assembled(helper.memory, known)]
  BY DEF Prompt
<1> DEFINE p == Assembled(helper.memory, known)
<1> HIDE DEF p
<1>3. CallOK(call[c], Len(stored)) /\ call = [d \in Requests |-> call[d]]
  BY <1>1 DEF MemoryTypes
<1>4. call' = [call EXCEPT ![c].at = "model", ![c].prompt = p]
  BY <1>2 DEF p
<1>5. /\ Only(c)
      /\ call'[c] = [at |-> "model", kind |-> call[c].kind, latest |-> call[c].latest,
                     ids |-> call[c].ids, prompt |-> p]
  BY <1>3, <1>4 DEF Only, CallOK
<1>6. CallOK(call'[c], Len(stored))
  BY <1>3, <1>5 DEF CallOK, Places
<1>7. /\ Fills(c) /\ Bounds(c) /\ ~AtPush(call[c])
      /\ call'[c].kind = "chat" => helper.made
  BY <1>1, <1>5 DEF Fills, Bounds, AtPush, MemoryInv, ListsFit, HelperMade
<1> QED BY <1>1, <1>5, <1>6, <1>7, ChatQuietStep DEF MemoryTypes

\* A new process knows nothing, and nothing is at work.
LEMMA RestartStep == MemoryInv /\ Restart => MemoryInv'
<1> SUFFICES ASSUME MemoryInv, Restart PROVE MemoryInv'
  OBVIOUS
<1>1. /\ MemoryTypes /\ helper' = NoHelper /\ call' = [c \in Requests |-> Idle]
      /\ exact' = TRUE /\ UNCHANGED <<stored, cache>>
  BY DEF MemoryInv, Restart
<1>2. CallOK(Idle, Len(stored))
  BY <1>1, IdleOK
<1>3. MemoryTypes'
  BY <1>1, <1>2 DEF MemoryTypes, NoHelper
<1>4. \A c \in Requests : call'[c] = Idle
  BY <1>1
<1>5. HelperMade' /\ ListsFit' /\ SinceKnown' /\ WindowCompletes' /\ NothingForgotten'
  BY <1>1, <1>4 DEF HelperMade, MemoryInv, ListsFit, SinceKnown, WindowCompletes, NothingForgotten,
                    Filling, AtPush, Idle, NoHelper
<1> QED BY <1>3, <1>5 DEF MemoryInv

\* The list is lost, or the profile changes: nobody's memory does.
LEMMA CacheStep ==
  ASSUME MemoryInv, cache' \in {<<>>, cache}, UNCHANGED <<stored, helper, call, exact>>
  PROVE  MemoryInv'
<1>1. MemoryTypes'
  <2>0. cache \in Seq(1..Len(stored)) /\ <<>> \in Seq(1..Len(stored))
    BY DEF MemoryInv, MemoryTypes
  <2>1. cache' \in Seq(1..Len(stored))
    BY <2>0
  <2> QED BY <2>1 DEF MemoryInv, MemoryTypes
<1>2. Len(cache') <= Limit
  <2>1. Len(<<>>) <= Limit
    BY LimitAssumption
  <2> QED BY <2>1 DEF MemoryInv, ListsFit
<1>3. HelperMade' /\ ListsFit' /\ SinceKnown' /\ WindowCompletes' /\ NothingForgotten'
  BY <1>2 DEF MemoryInv, HelperMade, ListsFit, SinceKnown, WindowCompletes, NothingForgotten,
              Filling, AtPush, Accounted, Pending, Ids, Recent, Newest
<1> QED BY <1>1, <1>3 DEF MemoryInv

\* A step of a request.
LEMMA RequestKeeps == ASSUME MemoryInv, NEW c \in Requests, RequestStep(c) PROVE MemoryInv'
<1>1. CASE Ask(c)
  <2> DEFINE roles == IF call[c].kind = "chat" THEN <<"user">> ELSE <<"user", "assistant">>
  <2>1. Store(c, roles) /\ call[c].at = "ask" 
    BY <1>1 DEF Ask, At
  <2>2. <<"user">> \in Seq(Roles) /\ <<"user", "assistant">> \in Seq(Roles)
    BY DEF Roles
  <2>3. roles \in Seq(Roles) /\ roles # <<>>
    BY <2>2
  <2> QED BY <2>1, <2>3, StoreStep
<1>2. CASE Answer(c)
  <2>1. Store(c, <<"assistant">>) /\ call[c].at = "model" /\ <<"assistant">> \in Seq(Roles)
    BY <1>2 DEF Answer, At, Roles
  <2> QED BY <2>1, StoreStep
<1> QED
  BY <1>1, <1>2, BeginStep, FailStep, ReadLatestStep, LoadCacheStep, ReadRecentStep, DeleteCacheStep,
     ReplaceStep, AdoptStep, PushStep, RememberStep, PromptStep DEF RequestStep

\* A new process.
LEMMA MemoryInitially == ChatInit => MemoryInv
<1> SUFFICES ASSUME ChatInit PROVE MemoryInv
  OBVIOUS
<1>1. /\ stored \in Seq([role: Roles, heard: BOOLEAN])
      /\ cache = <<>> /\ helper = NoHelper /\ call = [c \in Requests |-> Idle] /\ exact = TRUE
  <2> DEFINE first == <<[role |-> "user", heard |-> TRUE], [role |-> "assistant", heard |-> TRUE]>>
  <2>1. first \in Seq([role: Roles, heard: BOOLEAN])
    BY DEF Roles
  <2>2. stored = IF open THEN first ELSE <<>>
    BY DEF ChatInit
  <2> HIDE DEF first
  <2>3. stored \in Seq([role: Roles, heard: BOOLEAN])
    BY <2>1, <2>2
  <2> QED BY <2>3 DEF ChatInit
<1>2. \A c \in Requests : call[c] = Idle /\ CallOK(Idle, Len(stored))
  BY <1>1 DEF CallOK, Idle, Places, Kinds
<1>3. MemoryTypes
  BY <1>1, <1>2 DEF MemoryTypes, NoHelper
<1>4. Len(<<>>) <= Limit
  BY LimitAssumption
<1>5. HelperMade /\ ListsFit /\ SinceKnown /\ WindowCompletes /\ NothingForgotten
  BY <1>1, <1>2, <1>4 DEF HelperMade, ListsFit, SinceKnown, WindowCompletes, NothingForgotten,
                          Filling, AtPush, Idle, NoHelper
<1> QED BY <1>3, <1>5 DEF MemoryInv

\* The invariant of the helper and the window, whatever is interleaved.
THEOREM MemoryInductive == ChatSpec => []MemoryInv
<1>1. ChatInit => MemoryInv
  BY MemoryInitially
<1>2. MemoryInv /\ [ChatNext]_sessionVars => MemoryInv'
  <2> SUFFICES ASSUME MemoryInv, [ChatNext]_sessionVars PROVE MemoryInv'
    OBVIOUS
  <2>1. CASE Restart
    BY <2>1, RestartStep
  <2>2. CASE EvictCache
    BY <2>2, CacheStep DEF EvictCache, Evict
  <2>3. CASE \E c \in Requests : RequestStep(c)
    BY <2>3, RequestKeeps
  <2>4. CASE ProfileStep
    BY <2>4, CacheStep DEF ProfileStep
  <2>5. CASE UNCHANGED sessionVars
    BY <2>5, CacheStep DEF sessionVars, chatVars
  <2> QED BY <2>1, <2>2, <2>3, <2>4, <2>5 DEF ChatNext
<1> QED BY <1>1, <1>2, PTL DEF ChatSpec

\* Once it has loaded the session, a helper knows every recent message, or
\* the request that stored it is about to tell it, for any number of requests
\* and any size of the window (ensureSessionHelper, AddMessageContext,
\* SaveExchange).
THEOREM NothingIsForgotten == ChatSpec => []NothingForgotten
<1>1. MemoryInv => NothingForgotten
  BY DEF MemoryInv
<1> QED BY <1>1, MemoryInductive, PTL

-----------------------------------------------------------------------------
(***************************************************************************)
(* The prompts: types, and the budget, for any budget, costs and lengths.  *)
(*                                                                         *)
(* What is selected for a prompt is a choice (facts, question) or computed *)
(* going back through the messages; that the choices can be made and that  *)
(* what is computed fits follows from a largest or least one.              *)
(***************************************************************************)
\* What a message and a fact cost.
LEMMA CostsAre ==
  ASSUME MemoryTypes
  PROVE  /\ Ids = 1..Len(stored) /\ Len(stored) \in Nat
         /\ \A id : Cost(id) \in Nat
         /\ Tokens.rule \in Nat /\ Tokens.fact \in Nat
         /\ Tokens.question \in Nat /\ Tokens.answer \in Nat /\ Budget \in Nat
  BY ChatAssumption DEF MemoryTypes, Ids, Cost

\* Messages taken one at a time cost what they cost together.
LEMMA CostOfOneMore ==
  ASSUME MemoryTypes, NEW id \in Ids, NEW t \in Seq(Ids)
  PROVE  /\ <<id>> \o t \in Seq(Ids)
         /\ CostOf(t) \in Nat
         /\ CostOf(<<id>> \o t) = CostOf(t) + Cost(id)
<1> DEFINE u == <<id>> \o t
           A == {i \in DOMAIN t : Asked(t[i])}
           B == {i \in DOMAIN u : Asked(u[i])}
           C == {i \in 2..(Len(t) + 1) : Asked(u[i])}
           a == Cardinality(A)
<1>1. /\ u \in Seq(Ids) /\ Len(u) = Len(t) + 1 /\ Len(t) \in Nat
      /\ DOMAIN t = 1..Len(t) /\ DOMAIN u = 1..(Len(t) + 1)
      /\ u[1] = id /\ \A i \in 1..Len(t) : u[i + 1] = t[i]
  OBVIOUS
<1> HIDE DEF u
<1>2. IsFiniteSet(A) /\ a \in Nat /\ a <= Len(t)
  <2>1. IsFiniteSet(1..Len(t)) /\ Cardinality(1..Len(t)) = Len(t)
    <3>1. Len(t) \in Int /\ 1 \in Int /\ (IF 1 > Len(t) THEN 0 ELSE Len(t) - 1 + 1) = Len(t)
      BY <1>1
    <3> QED BY <3>1, FS_Interval
  <2>2. A \in SUBSET (1..Len(t))
    BY <1>1
  <2> HIDE DEF A
  <2>3. IsFiniteSet(A) /\ Cardinality(A) <= Len(t)
    BY <2>1, <2>2, FS_Subset
  <2> QED BY <2>3, FS_CardinalityType
<1>3. IsFiniteSet(C) /\ Cardinality(C) = a
  <2> DEFINE f == [i \in A |-> i + 1]
  <2>1. f \in [A -> C] /\ \A i, j \in A : f[i] = f[j] => i = j
    BY <1>1
  <2>2. \A j \in C : \E i \in A : f[i] = j
    <3> TAKE j \in C
    <3>1. j - 1 \in A /\ f[j - 1] = j
      BY <1>1
    <3> QED BY <3>1
  <2> HIDE DEF f, A, C
  <2>3. ExistsBijection(A, C)
    BY <2>1, <2>2 DEF ExistsBijection, Bijection, Injection, Surjection, IsInjective
  <2> QED BY <1>2, <2>3, FS_Bijection
<1>4. Cardinality(B) = a + (IF Asked(id) THEN 1 ELSE 0)
  <2>1. CASE Asked(id)
    <3>1. B = C \cup {1} /\ 1 \notin C
      BY <1>1, <2>1
    <3> HIDE DEF A, B, C
    <3> QED BY <1>2, <1>3, <2>1, <3>1, FS_AddElement
  <2>2. CASE ~Asked(id)
    <3>1. B = C
      BY <1>1, <2>2
    <3> HIDE DEF A, B, C
    <3> QED BY <1>2, <1>3, <2>2, <3>1
  <2> QED BY <2>1, <2>2
<1>5. /\ CostOf(t) = a * Tokens.question + (Len(t) - a) * Tokens.answer
      /\ CostOf(u) = Cardinality(B) * Tokens.question + (Len(u) - Cardinality(B)) * Tokens.answer
  BY DEF CostOf
<1> DEFINE q == Tokens.question
           w == Tokens.answer
           n == Len(t)
<1>6. q \in Nat /\ w \in Nat /\ n \in Nat
  BY <1>1, CostsAre
<1> HIDE DEF A, B, C, a, q, w, n
<1>7. a * q \in Nat /\ (n - a) * w \in Nat /\ (a + 1) * q = a * q + q /\ (n - a + 1) * w = (n - a) * w + w
  <2>1. n - a \in Nat
    BY <1>1, <1>2, <1>6 DEF n
  <2>2. \A x, y \in Nat : x * y \in Nat /\ (x + 1) * y = x * y + y
    OBVIOUS
  <2> QED BY <1>2, <1>6, <2>1, <2>2
<1>8. CostOf(t) = a * q + (n - a) * w /\ CostOf(t) \in Nat
  BY <1>5, <1>7 DEF q, w, n
<1>9. CASE Asked(id)
  <2>1. Cardinality(B) = a + 1 /\ Cost(id) = q
    BY <1>4, <1>9 DEF Cost, q
  <2>2. CostOf(u) = (a + 1) * q + ((n + 1) - (a + 1)) * w /\ (n + 1) - (a + 1) = n - a
    BY <1>1, <1>2, <1>5, <1>6, <2>1 DEF q, w, n
  <2> QED BY <1>1, <1>6, <1>7, <1>8, <2>1, <2>2 DEF u
<1>10. CASE ~Asked(id)
  <2>1. Cardinality(B) = a /\ Cost(id) = w
    BY <1>2, <1>4, <1>10 DEF Cost, w
  <2>2. CostOf(u) = a * q + ((n + 1) - a) * w /\ (n + 1) - a = n - a + 1
    BY <1>1, <1>2, <1>5, <1>6, <2>1 DEF q, w, n
  <2> QED BY <1>1, <1>6, <1>7, <1>8, <2>1, <2>2 DEF u
<1> QED BY <1>9, <1>10

LEMMA CostOfNone == CostOf(<<>>) = 0
<1>1. {i \in DOMAIN <<>> : Asked(<<>>[i])} = {} /\ Len(<<>>) = 0
  OBVIOUS
<1>2. CostOf(<<>>) = 0 * Tokens.question + (0 - 0) * Tokens.answer
  BY <1>1, FS_EmptySet DEF CostOf
<1>3. Tokens.question \in Nat /\ Tokens.answer \in Nat
  BY ChatAssumption
<1> QED BY <1>2, <1>3

\* Going back through the messages, what is taken is messages, and fits: by
\* the least number of messages after which it would not.
LEMMA MessagesFit ==
  ASSUME MemoryTypes, NEW spent \in Nat, NEW s \in Seq(Ids)
  PROVE  LET fit == MessagesThatFit(spent, s)
         IN  fit \in Seq(Ids) /\ (fit # <<>> => spent + CostOf(fit) <= Budget)
<1> DEFINE n == Len(s)
           Step(m, newer) == IF Fits(spent, newer, s[n - m + 1])
                             THEN <<s[n - m + 1]>> \o newer ELSE newer
           Is(f) == f = [m \in 0..n |-> IF m = 0 THEN <<>> ELSE Step(m, f[m - 1])]
           taken == CHOOSE f : Is(f)
<1>1. MessagesThatFit(spent, s) = taken[n]
  BY DEF MessagesThatFit
<1>2. n \in Nat /\ \A m \in 1..n : s[n - m + 1] \in Ids
  OBVIOUS
<1>3. \A m \in 1..n, t \in Seq(Ids) : Step(m, t) \in Seq(Ids)
  BY <1>2
<1> HIDE DEF n
<1>4. \E f : Is(f)
  <2> DEFINE step == [m \in 1..n |-> [t \in Seq(Ids) |-> Step(m, t)]]
  <2>1. step \in [1..n -> [Seq(Ids) -> Seq(Ids)]] /\ \A m \in 1..n, t \in Seq(Ids) : step[m][t] = Step(m, t)
    <3> HIDE DEF Step
    <3> QED BY <1>3
  <2> HIDE DEF step, Step
  <2>2. PICK f : Iterates(f, n, Seq(Ids), <<>>, step)
    <3>1. <<>> \in Seq(Ids)
      OBVIOUS
    <3> QED BY <1>2, <2>1, <3>1, Iterated
  <2>3. f \in [0..n -> Seq(Ids)] /\ f[0] = <<>> /\ \A i \in 1..n : f[i] = step[i][f[i-1]]
    BY <2>2 DEF Iterates
  <2>4. \A m \in 0..n : f[m] = IF m = 0 THEN <<>> ELSE Step(m, f[m - 1])
    <3> TAKE m \in 0..n
    <3>1. CASE m = 0
      BY <2>3, <3>1
    <3>2. CASE m # 0
      <4>1. m \in 1..n /\ m - 1 \in 0..n
        BY <1>2, <3>2
      <4>2. f[m - 1] \in Seq(Ids) /\ f[m] = step[m][f[m - 1]]
        BY <2>3, <4>1
      <4> QED BY <2>1, <3>2, <4>1, <4>2
    <3> QED BY <3>1, <3>2
  <2>5. f = [m \in 0..n |-> IF m = 0 THEN <<>> ELSE Step(m, f[m - 1])]
    BY <2>3, <2>4
  <2> QED BY <2>5
<1>5. Is(taken)
  BY <1>4
<1> HIDE DEF taken
<1> DEFINE Good(t) == t \in Seq(Ids) /\ (t # <<>> => spent + CostOf(t) <= Budget)
           Bad == {m \in 0..n : ~Good(taken[m])}
<1>6. Bad = {}
  <2> SUFFICES ASSUME Bad # {} PROVE FALSE
    OBVIOUS
  <2>1. PICK m \in Bad : \A k \in Bad : m <= k
    <3>1. Bad \in SUBSET Nat
      OBVIOUS
    <3> HIDE DEF Bad
    <3> QED BY <3>1, Least
  <2>2. \A k \in 0..n : taken[k] = IF k = 0 THEN <<>> ELSE Step(k, taken[k - 1])
    <3> HIDE DEF Step
    <3> QED BY <1>5
  <2>3. m \in 1..n /\ m - 1 \in 0..n /\ Good(taken[m - 1]) /\ taken[m] = Step(m, taken[m - 1])
    <3>1. m # 0
      <4>1. Good(<<>>)
        OBVIOUS
      <4>2. 0 \in 0..n /\ taken[0] = <<>>
        <5> HIDE DEF Step
        <5> QED BY <1>2, <2>2
      <4> HIDE DEF Good
      <4> QED BY <2>1, <4>1, <4>2
    <3>2. m \in 1..n /\ m - 1 \in 0..n /\ ~(m <= m - 1)
      BY <1>2, <2>1, <3>1
    <3> HIDE DEF Step
    <3>3. m - 1 \notin Bad
      BY <2>1, <3>2
    <3> QED BY <2>2, <3>1, <3>2, <3>3
  <2> DEFINE t  == taken[m - 1]
             id == s[n - m + 1]
  <2>4. t \in Seq(Ids) /\ id \in Ids
    BY <1>2, <2>3
  <2> HIDE DEF t, id
  <2>5. CASE Fits(spent, t, id)
    <3>1. taken[m] = <<id>> \o t
      BY <2>3, <2>5 DEF t, id
    <3>2. /\ <<id>> \o t \in Seq(Ids) /\ CostOf(t) \in Nat
          /\ CostOf(<<id>> \o t) = CostOf(t) + Cost(id)
      BY <2>4, CostOfOneMore
    <3>3. spent + CostOf(<<id>> \o t) <= Budget
      BY <2>5, <3>2, CostsAre DEF Fits
    <3> QED BY <2>1, <3>1, <3>2, <3>3
  <2>6. CASE ~Fits(spent, t, id)
    BY <2>1, <2>3, <2>6 DEF t, id
  <2> QED BY <2>5, <2>6
<1>7. Good(taken[n])
  BY <1>2, <1>6
<1> QED BY <1>1, <1>7

\* What is recalled at a time is finitely many facts.
LEMMA RecalledIsFinite ==
  ASSUME ProfileTypeOK
  PROVE  /\ IsFiniteSet({rows[i].fact : i \in Recalled})
         /\ {rows[i].fact : i \in Recalled} \subseteq Facts
<1>1. DOMAIN rows = 1..Len(rows) /\ Len(rows) \in Nat
  BY DEF ProfileTypeOK
<1>2. Recalled \in SUBSET (1..Len(rows))
  BY <1>1 DEF Recalled
<1>3. IsFiniteSet(Recalled)
  <2>1. IsFiniteSet(1..Len(rows))
    BY <1>1, FS_Interval
  <2> QED BY <1>2, <2>1, FS_Subset
<1>4. IsFiniteSet({rows[i].fact : i \in Recalled})
  <2> DEFINE F == {rows[i].fact : i \in Recalled}
             f == [i \in Recalled |-> rows[i].fact]
  <2>1. f \in Surjection(Recalled, F)
    BY DEF Surjection
  <2> HIDE DEF F, f
  <2>2. IsFiniteSet(F)
    BY <1>3, <2>1, FS_Surjection
  <2> QED BY <2>2 DEF F
<1>5. \A i \in Recalled : rows[i].fact \in Facts
  <2>1. \A i \in 1..Len(rows) : rows[i] \in Row
    BY DEF ProfileTypeOK
  <2> QED BY <1>2, <2>1 DEF Row
<1> QED BY <1>4, <1>5

\* There are facts to add until no further one fits: a largest choice.
LEMMA FactsFit ==
  ASSUME NEW known, IsFiniteSet(known), NEW spent \in Nat
  PROVE  LET fs == FactsThatFit(known, spent)
         IN  /\ fs \subseteq known /\ FactCost(fs) \in Nat
             /\ fs # {} => spent + FactCost(fs) <= Budget
             /\ \A f \in known \ fs : spent + FactCost(fs) + Tokens.fact > Budget
<1> DEFINE OK(fs)   == fs # {} => spent + FactCost(fs) <= Budget
           Full(fs) == \A f \in known \ fs : spent + FactCost(fs) + Tokens.fact > Budget
           k        == Cardinality(known)
           T        == {n \in 0..k : \E fs \in SUBSET known : OK(fs) /\ n = k - Cardinality(fs)}
<1>1. Tokens.fact \in Nat /\ Budget \in Nat /\ k \in Nat
  BY ChatAssumption, FS_CardinalityType
<1>2. \A fs \in SUBSET known : IsFiniteSet(fs) /\ Cardinality(fs) \in 0..k
  <2> TAKE fs \in SUBSET known
  <2>1. IsFiniteSet(fs) /\ Cardinality(fs) <= k
    BY FS_Subset
  <2> QED BY <1>1, <2>1, FS_CardinalityType
<1> HIDE DEF k
<1>3. PICK n \in T : \A m \in T : n <= m
  <2>1. OK({}) /\ Cardinality({}) = 0
    BY FS_EmptySet
  <2>2. k - 0 \in T
    <3> HIDE DEF OK
    <3> QED BY <1>1, <2>1
  <2>3. T \in SUBSET Nat /\ T # {}
    BY <1>1, <2>2
  <2> HIDE DEF T
  <2> QED BY <2>3, Least
<1>4. PICK fs \in SUBSET known : OK(fs) /\ n = k - Cardinality(fs)
  OBVIOUS
<1>5. Full(fs)
  <2> SUFFICES ASSUME NEW f \in known \ fs, ~(spent + FactCost(fs) + Tokens.fact > Budget) PROVE FALSE
    OBVIOUS
  <2> DEFINE gs == fs \cup {f}
  <2>1. /\ gs \in SUBSET known /\ Cardinality(gs) = Cardinality(fs) + 1
        /\ Cardinality(gs) \in 0..k /\ Cardinality(fs) \in 0..k
    BY <1>2, FS_AddElement
  <2>2. FactCost(gs) = FactCost(fs) + Tokens.fact /\ FactCost(fs) \in Nat
    <3>1. \A x, y \in Nat : x * y \in Nat /\ (x + 1) * y = x * y + y
      OBVIOUS
    <3>2. Cardinality(fs) \in Nat
      BY <2>1
    <3> HIDE DEF gs
    <3> QED BY <1>1, <2>1, <3>1, <3>2 DEF FactCost
  <2>3. OK(gs)
    BY <1>1, <2>2
  <2>4. k - Cardinality(gs) \in T
    <3> HIDE DEF gs, OK
    <3> QED BY <1>1, <2>1, <2>3
  <2> HIDE DEF gs, OK, T
  <2> QED BY <1>1, <1>3, <1>4, <2>1, <2>4
<1>6. FactsThatFit(known, spent) \in SUBSET known /\ OK(FactsThatFit(known, spent)) /\ Full(FactsThatFit(known, spent))
  <2>1. FactsThatFit(known, spent) = CHOOSE gs \in SUBSET known : OK(gs) /\ Full(gs)
    BY DEF FactsThatFit
  <2> HIDE DEF OK, Full
  <2> QED BY <1>4, <1>5, <2>1
<1>7. FactCost(FactsThatFit(known, spent)) \in Nat
  <2>1. Cardinality(FactsThatFit(known, spent)) \in Nat
    BY <1>1, <1>2, <1>6
  <2>2. \A x, y \in Nat : x * y \in Nat
    OBVIOUS
  <2> QED BY <1>1, <2>1, <2>2 DEF FactCost
<1> QED BY <1>6, <1>7

\* The newest question among messages that hold one.
LEMMA QuestionIs ==
  ASSUME NEW S, NEW s \in Seq(S), NEW i \in DOMAIN s, Asked(s[i])
  PROVE  QuestionAt(s) \in DOMAIN s /\ Asked(s[QuestionAt(s)])
<1> DEFINE T == {m \in 0..Len(s) : \E j \in DOMAIN s : Asked(s[j]) /\ m = Len(s) - j}
<1>1. DOMAIN s = 1..Len(s) /\ Len(s) \in Nat
  OBVIOUS
<1>2. PICK m \in T : \A o \in T : m <= o
  <2>1. Len(s) - i \in T
    BY <1>1
  <2>2. T \in SUBSET Nat /\ T # {}
    BY <1>1, <2>1
  <2> HIDE DEF T
  <2> QED BY <2>2, Least
<1>3. PICK j \in DOMAIN s : Asked(s[j]) /\ m = Len(s) - j
  OBVIOUS
<1>4. \A o \in DOMAIN s : Asked(s[o]) => o <= j
  <2> TAKE o \in DOMAIN s
  <2> HAVE Asked(s[o])
  <2>1. Len(s) - o \in T
    BY <1>1
  <2>2. Len(s) - j <= Len(s) - o
    BY <1>2, <1>3, <2>1
  <2> QED BY <1>1, <2>2
<1> QED BY <1>3, <1>4 DEF QuestionAt

\* Messages without one of them.
LEMMA Removed ==
  ASSUME NEW S, NEW s \in Seq(S), NEW i \in DOMAIN s
  PROVE  RemoveAt(s, i) \in Seq(S)
<1>1. i \in 1..Len(s) /\ Len(s) \in Nat
  OBVIOUS
<1>2. SubSeq(s, 1, i - 1) \in Seq(S) /\ SubSeq(s, i + 1, Len(s)) \in Seq(S)
  BY <1>1
<1> QED BY <1>2 DEF RemoveAt

\* A prompt whose messages are of the table and whose cost is in the budget.
PromptOK(p, n) ==
  /\ p = [rules |-> p.rules, facts |-> p.facts, question |-> p.question, working |-> p.working]
  /\ p.rules \in {1, 2} /\ p.facts \subseteq Facts
  /\ p.question \in 1..n /\ p.working \in Seq(1..n)

WithinBudget(p) == p.facts # {} \/ p.working # <<>> => PromptCost(p) <= Budget

\* What is assembled is such a prompt.
LEMMA AssembledGives ==
  ASSUME MemoryTypes, ProfileTypeOK, NEW known \in SUBSET {rows[i].fact : i \in Recalled},
         NEW i \in DOMAIN helper.memory, Asked(helper.memory[i])
  PROVE  LET p == Assembled(helper.memory, known)
         IN  PromptOK(p, Len(stored)) /\ WithinBudget(p)
<1> DEFINE s        == helper.memory
           at       == QuestionAt(s)
           rules    == IF known = {} THEN 1 ELSE 2
           required == rules * Tokens.rule + Cost(s[at])
           fs       == FactsThatFit(known, required)
           working  == MessagesThatFit(required + FactCost(fs), RemoveAt(s, at))
           p        == Assembled(s, known)
<1>1. /\ Ids = 1..Len(stored) /\ Len(stored) \in Nat /\ s \in Seq(Ids)
      /\ Tokens.rule \in Nat /\ Budget \in Nat /\ \A id : Cost(id) \in Nat
  BY CostsAre DEF MemoryTypes
<1>2. p = [rules |-> rules, facts |-> fs, question |-> s[at], working |-> working]
  BY DEF Assembled
<1> HIDE DEF s
<1>3. at \in DOMAIN s
  BY <1>1, QuestionIs DEF s
<1> HIDE DEF at
<1>4. s[at] \in Ids /\ RemoveAt(s, at) \in Seq(Ids)
  BY <1>1, <1>3, Removed
<1>5. rules \in {1, 2} /\ required \in Nat
  BY <1>1
<1>6. IsFiniteSet(known) /\ known \subseteq Facts
  BY RecalledIsFinite, FS_Subset
<1> HIDE DEF required, rules
<1>7. fs \subseteq known /\ FactCost(fs) \in Nat /\ (fs # {} => required + FactCost(fs) <= Budget)
  BY <1>5, <1>6, FactsFit
<1> HIDE DEF fs
<1>8. working \in Seq(Ids) /\ (working # <<>> => required + FactCost(fs) + CostOf(working) <= Budget)
  <2>1. required + FactCost(fs) \in Nat
    BY <1>5, <1>7
  <2> QED BY <1>4, <2>1, MessagesFit
<1> HIDE DEF working, p
<1>9. /\ p.rules = rules /\ p.facts = fs /\ p.question = s[at] /\ p.working = working
      /\ p = [rules |-> p.rules, facts |-> p.facts, question |-> p.question, working |-> p.working]
  BY <1>2
<1>10. PromptOK(p, Len(stored))
  BY <1>1, <1>4, <1>5, <1>6, <1>7, <1>8, <1>9 DEF PromptOK
<1>11. WithinBudget(p)
  <2>1. PromptCost(p) = required + FactCost(fs) + CostOf(working)
    BY <1>9 DEF PromptCost, required
  <2>2. CASE working # <<>>
    BY <1>8, <2>1, <2>2 DEF WithinBudget
  <2>3. CASE working = <<>>
    <3>1. PromptCost(p) = required + FactCost(fs)
      BY <1>5, <1>7, <2>1, <2>3, CostOfNone
    <3> QED BY <1>7, <1>9, <2>3, <3>1 DEF WithinBudget
  <2> QED BY <2>2, <2>3
<1> QED BY <1>10, <1>11 DEF p, s

\* What the requests and their prompts are, in every state: a chat that goes
\* for its prompt finds a question, and prompts are within their budget.
Fine(r) == r = NoPrompt \/ (PromptOK(r, Len(stored)) /\ WithinBudget(r))

HasQuestion == \E i \in DOMAIN helper.memory : Asked(helper.memory[i])

PromptsFine ==
  /\ open \in BOOLEAN /\ calls \in 0..MaxCalls /\ faults \in 0..MaxFaults
  /\ \A c \in Requests : call[c].at = "prompt" => HasQuestion
  /\ \A c \in Requests : Fine(call[c].prompt)

ChatInv == MemoryInv /\ RowsInv /\ PromptsFine

\* The table and the helper's memory only grow.
Grows ==
  /\ Len(stored) <= Len(stored')
  /\ \A i \in 1..Len(stored) : stored'[i] = stored[i]
  /\ Range(helper.memory) \subseteq Range(helper'.memory)

\* What a step of c has to do to its prompt, if it assembles none.
Quiet(c) ==
  /\ Only(c) /\ Grows
  /\ call'[c].prompt \in {call[c].prompt, NoPrompt}
  /\ call'[c].at = "prompt" => HasQuestion'

\* What is in a prompt stays as it was when it was assembled.
LEMMA FineStays ==
  ASSUME MemoryTypes, MemoryTypes', Grows, NEW p, Fine(p)
  PROVE  Fine(p)'
<1> DEFINE m == Len(stored)
           n == Len(stored')
<1>1. m \in Nat /\ n \in Nat /\ m <= n /\ \A i \in 1..m : stored'[i] = stored[i]
  BY DEF MemoryTypes, Grows
<1>2. CASE p = NoPrompt
  BY <1>2 DEF Fine
<1>3. CASE PromptOK(p, m) /\ WithinBudget(p)
  <2>1. p.question \in 1..m /\ p.working \in Seq(1..m)
    BY <1>3 DEF PromptOK
  <2>2. PromptOK(p, n)
    <3>1. p.question \in 1..n /\ p.working \in Seq(1..n)
      BY <1>1, <2>1, Grown
    <3> QED BY <1>3, <3>1 DEF PromptOK
  <2> DEFINE w == p.working
  <2>3. \A i \in DOMAIN w : w[i] \in 1..m
    BY <2>1
  <2>4. {i \in DOMAIN w : Asked(w[i])} = {i \in DOMAIN w : Asked(w[i])}'
    <3>1. \A i \in DOMAIN w : stored'[w[i]] = stored[w[i]]
      BY <1>1, <2>3
    <3> QED BY <3>1 DEF Asked
  <2>5. CostOf(w)' = CostOf(w)
    BY <2>4 DEF CostOf
  <2>6. Cost(p.question)' = Cost(p.question)
    BY <1>1, <2>1 DEF Cost, Asked
  <2>7. PromptCost(p)' = PromptCost(p)
    BY <2>5, <2>6 DEF PromptCost, FactCost
  <2>8. WithinBudget(p)'
    BY <1>3, <2>7 DEF WithinBudget
  <2> QED BY <2>2, <2>8 DEF Fine
<1> QED BY <1>2, <1>3 DEF Fine

\* A question that is remembered stays so.
LEMMA QuestionStays ==
  ASSUME MemoryTypes, MemoryTypes', Grows, HasQuestion
  PROVE  HasQuestion'
<1>1. PICK i \in DOMAIN helper.memory : Asked(helper.memory[i])
  BY DEF HasQuestion
<1>2. helper.memory \in Seq(1..Len(stored))
  BY DEF MemoryTypes
<1>3. helper.memory[i] \in 1..Len(stored)
  BY <1>2
<1>4. helper.memory[i] \in Range(helper'.memory) /\ stored'[helper.memory[i]] = stored[helper.memory[i]]
  BY <1>3 DEF Grows, Range
<1>5. PICK j \in DOMAIN helper'.memory : helper'.memory[j] = helper.memory[i]
  BY <1>4 DEF Range
<1> QED BY <1>1, <1>4, <1>5 DEF HasQuestion, Asked

\* A step that assembles no prompt keeps them.
LEMMA QuietPromptStep ==
  ASSUME ChatInv, NEW c \in Requests, Quiet(c), MemoryTypes',
         open' \in BOOLEAN, calls' \in 0..MaxCalls, faults' \in 0..MaxFaults
  PROVE  PromptsFine'
<1>1. MemoryTypes /\ Grows
  BY DEF ChatInv, MemoryInv, Quiet
<1>2. \A d \in Requests : call'[d].at = "prompt" => HasQuestion'
  BY <1>1, QuestionStays DEF Quiet, Only, ChatInv, PromptsFine
<1>3. \A d \in Requests : Fine(call[d].prompt)'
  <2> TAKE d \in Requests
  <2>1. PICK p : p = call[d].prompt
    OBVIOUS
  <2>2. Fine(p)
    BY <2>1 DEF ChatInv, PromptsFine
  <2>3. Fine(p)'
    BY <1>1, <2>2, FineStays
  <2>4. call'[d].prompt = p \/ call'[d].prompt = NoPrompt
    BY <2>1 DEF Quiet, Only
  <2> QED BY <2>3, <2>4 DEF Fine
<1> QED BY <1>2, <1>3 DEF PromptsFine

\* Going on to another place keeps the prompt.
LEMMA GotoKeeps ==
  ASSUME MemoryTypes, NEW c \in Requests, NEW p, Goto(c, p)
  PROVE  call'[c].prompt = call[c].prompt
<1>1. call[c] = [at |-> call[c].at, kind |-> call[c].kind, latest |-> call[c].latest,
                 ids |-> call[c].ids, prompt |-> call[c].prompt]
  BY DEF MemoryTypes, CallOK
<1>2. call'[c] = [call[c] EXCEPT !.at = p]
  BY DEF Goto, MemoryTypes
<1> QED BY <1>1, <1>2

\* A step of a request that assembles no prompt.
LEMMA QuietRequest ==
  ASSUME MemoryInv, NEW c \in Requests, RequestStep(c), ~Prompt(c)
  PROVE  Quiet(c)
<1>1. /\ MemoryTypes /\ Len(stored) \in Nat
      /\ CallOK(call[c], Len(stored)) /\ call = [d \in Requests |-> call[d]]
  BY DEF MemoryInv, MemoryTypes
<1>2. UNCHANGED <<stored, helper>> => Grows
  BY <1>1 DEF Grows
<1>2a. ASSUME NEW p \in Places \ {"prompt"}, NEW ids, Carry(c, p, ids)
       PROVE  Only(c) /\ call'[c].at # "prompt" /\ call'[c].prompt = NoPrompt
  <2>1. /\ Only(c)
        /\ call'[c] = [at |-> p, kind |-> call[c].kind, latest |-> 0, ids |-> ids, prompt |-> NoPrompt]
    BY <1>1, <1>2a, CarryGives
  <2> QED BY <2>1
<1>3. CASE BeginChat(c) \/ BeginExchange(c) \/ BeginView(c) \/ BeginRebuild(c)
  <2>1. PICK k \in Kinds, p \in {"ask", "latest", "recent"} :
          Begin(c, k, p) /\ helper' \in {[helper EXCEPT !.made = TRUE], helper}
    BY <1>3 DEF BeginChat, BeginExchange, BeginView, BeginRebuild, Kinds
  <2>2. p \in Places /\ Begin(c, k, p)
    BY <2>1 DEF Places
  <2>3. /\ Only(c) /\ UNCHANGED stored
        /\ call'[c] = [at |-> p, kind |-> k, latest |-> 0, ids |-> <<>>, prompt |-> NoPrompt]
    BY <1>1, <2>2, BeginGives
  <2>4. helper'.memory = helper.memory
    BY <1>1, <2>1 DEF MemoryTypes
  <2> QED BY <1>1, <2>1, <2>3, <2>4 DEF Quiet, Grows
<1>4. CASE Fail(c)
  <2>1. End(c) /\ UNCHANGED <<stored, helper>>
    BY <1>4 DEF Fail
  <2> QED BY <1>1, <1>2, <2>1, EndGives DEF Quiet, Idle
<1>5. CASE ReadLatest(c)
  <2>1. call' = [call EXCEPT ![c].at = "load", ![c].latest = Len(stored)] /\ UNCHANGED <<stored, helper>>
    BY <1>5 DEF ReadLatest
  <2>2. Only(c) /\ call'[c].at = "load" /\ call'[c].prompt = call[c].prompt
    BY <1>1, <2>1 DEF Only, CallOK
  <2> QED BY <1>2, <2>1, <2>2 DEF Quiet
<1>6. CASE ReadRecent(c)
  <2> DEFINE p == IF call[c].kind = "rebuild" THEN "delete" ELSE "replace"
  <2>1. call' = [call EXCEPT ![c].ids = Recent(Len(stored)), ![c].at = p] /\ UNCHANGED <<stored, helper>>
    BY <1>6 DEF ReadRecent
  <2>2. p # "prompt"
    OBVIOUS
  <2> HIDE DEF p
  <2>3. Only(c) /\ call'[c].at = p /\ call'[c].prompt = call[c].prompt
    BY <1>1, <2>1 DEF Only, CallOK
  <2> QED BY <1>2, <2>1, <2>2, <2>3 DEF Quiet
<1>7. ASSUME NEW p \in Places \ {"prompt"}, Goto(c, p), UNCHANGED <<stored, helper>>
      PROVE  Quiet(c)
  BY <1>1, <1>2, <1>7, GotoGives, GotoKeeps DEF Quiet
<1>8. ASSUME NEW ids \in Seq(1..Len(stored)), Windowed(c, ids), UNCHANGED <<stored, helper>>
      PROVE  Quiet(c)
  <2>1. Only(c) /\ call'[c].at # "prompt" /\ call'[c].prompt = NoPrompt
    <3>1. CASE call[c].kind = "chat"
      <4>1. Only(c) /\ call'[c] = [at |-> "adopt", kind |-> "chat", latest |-> 0, ids |-> ids, prompt |-> NoPrompt]
        BY <1>1, <1>8, <3>1, WindowedGives
      <4> QED BY <4>1
    <3>2. CASE call[c].kind # "chat"
      <4>1. Only(c) /\ call'[c] = Idle
        BY <1>1, <1>8, <3>2, WindowedGives
      <4> QED BY <4>1 DEF Idle
    <3> QED BY <3>1, <3>2
  <2> QED BY <1>2, <1>8, <2>1 DEF Quiet
<1>9. CASE LoadCache(c) \/ DeleteCache(c) \/ Replace(c) \/ Push(c)
  <2>1. Newest(cache) \in Seq(1..Len(stored)) /\ call[c].ids \in Seq(1..Len(stored))
    BY <1>1, NewestGives DEF MemoryTypes, CallOK
  <2>2. UNCHANGED <<stored, helper>>
    BY <1>9 DEF LoadCache, DeleteCache, Replace, Push
  <2>3. \/ \E p \in Places \ {"prompt"} : Goto(c, p)
        \/ Windowed(c, Newest(cache)) \/ Windowed(c, call[c].ids)
    BY <1>9 DEF LoadCache, DeleteCache, Replace, Push, Places
  <2> QED BY <1>7, <1>8, <2>1, <2>2, <2>3
<1>10. CASE Adopt(c)
  <2>1. UNCHANGED stored /\ call[c].at = "adopt"
    BY <1>10 DEF Adopt, At
  <2>2. CASE /\ call[c].ids # <<>>
             /\ helper' = [helper EXCEPT !.memory = Append(@, Head(call[c].ids))]
             /\ Carry(c, "adopt", Tail(call[c].ids))
    <3>1. Head(call[c].ids) \in 1..Len(stored)
      BY <1>1, <2>2, HeadAndTail DEF CallOK
    <3>2. Range(helper.memory) \subseteq Range(helper'.memory)
      BY <1>1, <2>2, <3>1, MemoryGrows
    <3>3. Only(c) /\ call'[c].at # "prompt" /\ call'[c].prompt = NoPrompt
      BY <1>2a, <2>2 DEF Places
    <3> QED BY <1>1, <2>1, <3>2, <3>3 DEF Quiet, Grows
  <2>3. CASE helper' = [helper EXCEPT !.loaded = TRUE] /\ Goto(c, "ask")
    <3>1. helper'.memory = helper.memory
      BY <1>1, <2>3 DEF MemoryTypes
    <3>2. Only(c) /\ call'[c].at = "ask" /\ call'[c].prompt = call[c].prompt
      BY <1>1, <2>3, GotoGives, GotoKeeps DEF Places
    <3> QED BY <1>1, <2>1, <3>1, <3>2 DEF Quiet, Grows
  <2> QED BY <1>10, <2>2, <2>3 DEF Adopt
<1>11. ASSUME NEW roles \in Seq(Roles), roles # <<>>, Store(c, roles)
       PROVE  Quiet(c)
  <2>1. /\ Len(stored') = Len(stored) + Len(roles) /\ Len(roles) \in Nat
        /\ \A i \in 1..Len(stored) : stored'[i] = stored[i]
        /\ Only(c) /\ UNCHANGED helper /\ call'[c].at \in {"push", "idle"}
    BY <1>1, <1>11, StoreGives
  <2>2. call'[c].prompt = NoPrompt
    <3>1. CASE Carry(c, "push", [i \in DOMAIN roles |-> Len(stored) + i])
      BY <1>2a, <3>1 DEF Places
    <3>2. CASE End(c)
      BY <1>1, <3>2, EndGives DEF Idle
    <3> QED BY <1>11, <3>1, <3>2 DEF Store
  <2> QED BY <1>1, <2>1, <2>2 DEF Quiet, Grows
<1>12. CASE Ask(c) \/ Answer(c)
  <2>1. PICK roles \in {<<"user">>, <<"user", "assistant">>, <<"assistant">>} : Store(c, roles)
    BY <1>12 DEF Ask, Answer
  <2>2. <<"user">> \in Seq(Roles) /\ <<"user", "assistant">> \in Seq(Roles) /\ <<"assistant">> \in Seq(Roles)
    BY DEF Roles
  <2>3. <<"user">> # <<>> /\ <<"user", "assistant">> # <<>> /\ <<"assistant">> # <<>>
    OBVIOUS
  <2>4. roles \in Seq(Roles) /\ roles # <<>>
    BY <2>2, <2>3
  <2> QED BY <1>11, <2>1, <2>4
<1>13. CASE Remember(c)
  <2> DEFINE ids == call[c].ids
  <2>1. call[c].at = "remember" /\ UNCHANGED stored
    BY <1>13 DEF Remember, At
  <2>2. ids \in Seq(1..Len(stored)) /\ ids # <<>>
    BY <1>1, <2>1 DEF CallOK, MemoryInv, ListsFit, AtPush
  <2>3. CASE ~Remembers(c)
    <3>1. UNCHANGED helper /\ End(c)
      BY <1>13, <2>3 DEF Remember
    <3> QED BY <1>1, <1>2, <2>1, <3>1, EndGives DEF Quiet, Idle
  <2>4. CASE Remembers(c)
    <3>1. /\ helper' = [helper EXCEPT !.memory = Append(@, Head(ids))]
          /\ \/ Carry(c, "remember", Tail(ids))
             \/ Asked(Head(ids)) /\ Goto(c, "prompt")
             \/ End(c)
      BY <1>13, <2>4 DEF Remember, Asked
    <3> HIDE DEF ids
    <3>2. Head(ids) \in 1..Len(stored)
      BY <2>2, HeadAndTail
    <3>3. Range(helper'.memory) = Range(helper.memory) \cup {Head(ids)}
      BY <1>1, <3>1, <3>2, MemoryGrows
    <3>4. CASE Carry(c, "remember", Tail(ids))
      <4>1. Only(c) /\ call'[c].at # "prompt" /\ call'[c].prompt = NoPrompt
        BY <1>2a, <3>4 DEF Places
      <4> QED BY <1>1, <2>1, <3>3, <4>1 DEF Quiet, Grows
    <3>5. CASE Asked(Head(ids)) /\ Goto(c, "prompt")
      <4>1. HasQuestion'
        <5>1. PICK j \in DOMAIN helper'.memory : helper'.memory[j] = Head(ids)
          BY <3>3 DEF Range
        <5> QED BY <2>1, <3>5, <5>1 DEF HasQuestion, Asked
      <4> QED BY <1>1, <2>1, <3>3, <3>5, <4>1, GotoGives, GotoKeeps DEF Quiet, Grows, Places
    <3>6. CASE End(c)
      BY <1>1, <2>1, <3>3, <3>6, EndGives DEF Quiet, Grows, Idle
    <3> QED BY <3>1, <3>4, <3>5, <3>6
  <2> QED BY <2>3, <2>4
<1> QED BY <1>3, <1>4, <1>5, <1>6, <1>9, <1>10, <1>12, <1>13 DEF RequestStep

\* The counters stay in their bounds.
LEMMA CountersKept ==
  ASSUME PromptsFine, [ChatNext]_sessionVars
  PROVE  open' \in BOOLEAN /\ calls' \in 0..MaxCalls /\ faults' \in 0..MaxFaults
<1>1. /\ open \in BOOLEAN /\ calls \in 0..MaxCalls /\ faults \in 0..MaxFaults
      /\ MaxCalls \in Nat /\ MaxFaults \in Nat
  BY ChatAssumption DEF PromptsFine
<1>2. open' \in {open, TRUE}
  BY DEF ChatNext, Restart, EvictCache, RequestStep, ProfileStep, sessionVars, chatVars, BeginChat,
         BeginExchange, BeginView, BeginRebuild, Fail, ReadLatest, LoadCache, ReadRecent, DeleteCache,
         Replace, Adopt, Ask, Store, Push, Remember, Prompt, Answer
<1>3. calls' = calls \/ (calls < MaxCalls /\ calls' = calls + 1)
  BY DEF ChatNext, Restart, EvictCache, RequestStep, ProfileStep, sessionVars, chatVars, BeginChat, Begin,
         BeginExchange, BeginView, BeginRebuild, Fail, ReadLatest, LoadCache, ReadRecent, DeleteCache,
         Replace, Adopt, Ask, Store, Push, Remember, Prompt, Answer
<1>4. faults' = faults \/ (faults < MaxFaults /\ faults' = faults + 1)
  <2>1. ASSUME NEW c \in Requests, RequestStep(c)
        PROVE  NoFault \/ Fault
    <3>1. CASE BeginChat(c) \/ BeginExchange(c) \/ BeginView(c) \/ BeginRebuild(c)
      BY <3>1 DEF BeginChat, Begin, BeginExchange, BeginView, BeginRebuild, NoFault
    <3>2. CASE Fail(c) \/ ReadLatest(c) \/ LoadCache(c) \/ ReadRecent(c) \/ DeleteCache(c)
      BY <3>2 DEF Fail, ReadLatest, LoadCache, ReadRecent, DeleteCache, NoFault
    <3>3. CASE Replace(c) \/ Adopt(c) \/ Ask(c) \/ Push(c)
      BY <3>3 DEF Replace, Adopt, Ask, Push, Store, NoFault
    <3>4. CASE Remember(c) \/ Prompt(c) \/ Answer(c)
      BY <3>4 DEF Remember, Prompt, Answer, Store, NoFault
    <3> QED BY <2>1, <3>1, <3>2, <3>3, <3>4 DEF RequestStep
  <2>2. CASE Restart \/ EvictCache
    BY <2>2 DEF Restart, EvictCache, Fault
  <2>3. CASE ProfileStep \/ UNCHANGED sessionVars
    BY <2>3 DEF ProfileStep, sessionVars, chatVars
  <2>4. CASE \E c \in Requests : RequestStep(c)
    <3>1. NoFault \/ Fault
      BY <2>1, <2>4
    <3> QED BY <3>1 DEF NoFault, Fault
  <2> QED BY <2>2, <2>3, <2>4 DEF ChatNext
<1>5. open' \in BOOLEAN
  BY <1>1, <1>2
<1>6. calls' \in 0..MaxCalls
  BY <1>1, <1>3
<1>7. faults' \in 0..MaxFaults
  BY <1>1, <1>4
<1> QED BY <1>5, <1>6, <1>7

\* A prompt is assembled.
LEMMA PromptFineStep ==
  ASSUME ChatInv, MemoryTypes', NEW c \in Requests, Prompt(c), ChatNext
  PROVE  PromptsFine'
<1>1. MemoryTypes /\ ProfileTypeOK /\ call[c].at = "prompt" /\ UNCHANGED <<stored, helper>>
  BY DEF ChatInv, MemoryInv, RowsInv, Prompt, At
<1>2. PICK i \in DOMAIN helper.memory : Asked(helper.memory[i])
  BY <1>1 DEF ChatInv, PromptsFine, HasQuestion
<1>3. PICK known \in SUBSET {rows[j].fact : j \in Recalled} :
        call' = [call EXCEPT ![c].at = "model", ![c].prompt = Assembled(helper.memory, known)]
  BY DEF Prompt
<1>4. PICK p : p = Assembled(helper.memory, known)
  OBVIOUS
<1>5. PromptOK(p, Len(stored)) /\ WithinBudget(p)
  BY <1>1, <1>2, <1>4, AssembledGives
<1>6. /\ \A d \in Requests \ {c} : call'[d] = call[d]
      /\ call'[c].at = "model" /\ call'[c].prompt = p
  <2>1. CallOK(call[c], Len(stored)) /\ call = [d \in Requests |-> call[d]]
    BY <1>1 DEF MemoryTypes
  <2>2. call' = [call EXCEPT ![c].at = "model", ![c].prompt = p]
    BY <1>3, <1>4
  <2> QED BY <2>1, <2>2 DEF CallOK
<1>7. Grows
  BY <1>1 DEF Grows, MemoryTypes
<1>8. \A d \in Requests : Fine(call[d].prompt)'
  <2> TAKE d \in Requests
  <2>1. CASE d = c
    <3>1. Fine(p)
      BY <1>5 DEF Fine
    <3>2. Fine(p)'
      BY <1>1, <1>7, <3>1, FineStays
    <3> QED BY <1>6, <2>1, <3>2 DEF Fine
  <2>2. CASE d # c
    <3>1. PICK r : r = call[d].prompt
      OBVIOUS
    <3>2. Fine(r)
      BY <3>1 DEF ChatInv, PromptsFine
    <3>3. Fine(r)'
      BY <1>1, <1>7, <3>2, FineStays
    <3> QED BY <1>6, <2>2, <3>1, <3>3 DEF Fine
  <2> QED BY <2>1, <2>2
<1>9. \A d \in Requests : call'[d].at = "prompt" => HasQuestion'
  BY <1>1, <1>2 DEF HasQuestion, Asked
<1> QED BY <1>8, <1>9, CountersKept DEF PromptsFine, ChatInv

\* The invariant of the chat's types, counters and prompts.
LEMMA ChatInvInductive == ChatSpec => []ChatInv
<1>1. ChatInit => PromptsFine
  <2> SUFFICES ASSUME ChatInit PROVE PromptsFine
    OBVIOUS
  <2>1. \A c \in Requests : call[c].at # "prompt" /\ call[c].prompt = NoPrompt
    BY DEF ChatInit, Idle
  <2> QED BY <2>1, ChatAssumption DEF ChatInit, PromptsFine, Fine
<1>2. ChatInv /\ MemoryInv' /\ [ChatNext]_sessionVars => PromptsFine'
  <2> SUFFICES ASSUME ChatInv, MemoryInv', [ChatNext]_sessionVars PROVE PromptsFine'
    OBVIOUS
  <2>1. /\ open' \in BOOLEAN /\ calls' \in 0..MaxCalls /\ faults' \in 0..MaxFaults
        /\ MemoryTypes /\ MemoryTypes' /\ MemoryInv
    BY CountersKept DEF ChatInv, MemoryInv
  <2>2. ASSUME NEW c \in Requests, RequestStep(c), ChatNext
        PROVE  PromptsFine'
    <3>1. CASE Prompt(c)
      BY <2>1, <2>2, <3>1, PromptFineStep
    <3>2. CASE ~Prompt(c)
      BY <2>1, <2>2, <3>2, QuietRequest, QuietPromptStep
    <3> QED BY <3>1, <3>2
  <2>3. CASE Restart
    <3>1. \A c \in Requests : call'[c].at # "prompt" /\ call'[c].prompt = NoPrompt
      BY <2>3 DEF Restart, Idle
    <3> QED BY <2>1, <3>1 DEF PromptsFine, Fine
  <2>4. CASE UNCHANGED <<stored, helper, call>>
    <3>1. Grows
      BY <2>1, <2>4 DEF Grows, MemoryTypes
    <3>2. \A c \in Requests : call'[c].at = "prompt" => HasQuestion'
      BY <2>4 DEF ChatInv, PromptsFine, HasQuestion, Asked
    <3>3. \A c \in Requests : Fine(call[c].prompt)'
      <4> TAKE c \in Requests
      <4>1. PICK r : r = call[c].prompt
        OBVIOUS
      <4>2. Fine(r)
        BY <4>1 DEF ChatInv, PromptsFine
      <4>3. Fine(r)'
        BY <2>1, <3>1, <4>2, FineStays
      <4> QED BY <2>4, <4>1, <4>3 DEF Fine
    <3> QED BY <2>1, <3>2, <3>3 DEF PromptsFine
  <2>5. CASE EvictCache
    BY <2>4, <2>5 DEF EvictCache, Evict
  <2>6. CASE ProfileStep
    BY <2>4, <2>6 DEF ProfileStep
  <2>7. CASE UNCHANGED sessionVars
    BY <2>4, <2>7 DEF sessionVars, chatVars
  <2> QED BY <2>2, <2>3, <2>5, <2>6, <2>7 DEF ChatNext
<1> QED BY <1>1, <1>2, MemoryInductive, RowsInvInductive, PTL DEF ChatInv, ChatSpec

\* Requests, prompts, windows and counters are what they should be: a prompt
\* is made of rules, of facts of the profile, of a question and of messages
\* of the table, and the list never holds more than a window (Service.Window,
\* Assemble).
THEOREM ChatTypes == ChatSpec => []ChatTypeOK
<1>1. ChatInv => ChatTypeOK
  <2> SUFFICES ASSUME ChatInv PROVE ChatTypeOK
    OBVIOUS
  <2>1. MemoryTypes /\ ListsFit /\ ProfileTypeOK /\ PromptsFine
    BY DEF ChatInv, MemoryInv, RowsInv
  <2>2. Ids = 1..Len(stored) /\ Len(stored) \in Nat
    BY <2>1, CostsAre
  <2>3. \A p : Fine(p) => p \in Prompts
    <3> TAKE p
    <3> HAVE Fine(p)
    <3>1. CASE p = NoPrompt
      <4>1. <<>> \in Seq(Nat)
        OBVIOUS
      <4> QED BY <3>1, <4>1 DEF NoPrompt, Prompts
    <3>2. CASE PromptOK(p, Len(stored))
      <4>1. p.working \in Seq(Nat)
        <5>1. p.working \in Seq(1..Len(stored)) /\ 1..Len(stored) \subseteq Nat
          BY <3>2 DEF PromptOK
        <5>2. DOMAIN p.working = 1..Len(p.working) /\ Len(p.working) \in Nat
              /\ \A i \in 1..Len(p.working) : p.working[i] \in Nat
          BY <5>1
        <5>3. p.working \in [1..Len(p.working) -> Nat]
          BY <5>1, <5>2
        <5> QED BY <5>2, <5>3
      <4> QED BY <2>2, <3>2, <4>1 DEF PromptOK, Prompts
    <3> QED BY <3>1, <3>2 DEF Fine
  <2>4. \A c \in Requests : call[c] \in [at: Places, kind: Kinds, latest: 0..Len(stored),
                                         ids: Seq(Ids), prompt: Prompts]
    <3> TAKE c \in Requests
    <3>1. CallOK(call[c], Len(stored)) /\ call[c].prompt \in Prompts
      BY <2>1, <2>3 DEF MemoryTypes, PromptsFine
    <3> QED BY <2>2, <3>1 DEF CallOK
  <2>5. call \in [Requests -> [at: Places, kind: Kinds, latest: 0..Len(stored),
                               ids: Seq(Ids), prompt: Prompts]]
    BY <2>1, <2>4 DEF MemoryTypes
  <2> QED BY <2>1, <2>2, <2>5 DEF ChatTypeOK, MemoryTypes, ListsFit, PromptsFine
<1> QED BY <1>1, ChatInvInductive, PTL

\* A prompt with anything optional in it is within its budget, for any budget
\* and any costs, however long the memory is (Assemble).
THEOREM PromptsWithinBudget == ChatSpec => []PromptWithinBudget
<1>1. ChatInv => PromptWithinBudget
  <2>1. ASSUME NEW p, Fine(p) PROVE WithinBudget(p)
    BY <2>1 DEF Fine, NoPrompt, WithinBudget
  <2> QED BY <2>1 DEF ChatInv, PromptsFine, PromptWithinBudget, WithinBudget
<1> QED BY <1>1, ChatInvInductive, PTL

-----------------------------------------------------------------------------
(***************************************************************************)
(* Collaboration, for any documents, reports, texts, objectives, rounds    *)
(* and delegations.                                                        *)
(*                                                                         *)
(* The invariant follows a piece of evidence from the result that found it *)
(* into the bank and into the answer: which text it has (Texts), where its *)
(* identity comes from while its round is open (Origins), that the bank    *)
(* has one text per identity (BankIsFunction) and holds just what usable   *)
(* results of closed rounds cite (BankHoldsResults), and that whoever      *)
(* found it succeeded and is in the audit (Earned).                        *)
(***************************************************************************)
TaskStatuses == {"running", "succeeded", "failed"}
TaskSet  == [agent : Agents, handed : SUBSET EvidenceIds, round : 1..MaxRounds,
             status : TaskStatuses, evidence : SUBSET Evidence]
Records  == ({"supervisor"} \X (1..MaxRounds)) \cup ({"delegate"} \X (1..MaxDelegations))

Busy == {"round", "deciding", "collecting"}

Types ==
  /\ phase \in Busy \cup {"idle", "merging"}
  /\ round \in 0..MaxRounds /\ (phase # "idle" => round >= 1)
  /\ tasks \in Seq(TaskSet) /\ Len(tasks) <= MaxDelegations
  /\ bank \subseteq Evidence
  /\ strikes \in [invalid : 0..2, idle : 0..2]
  /\ recorded \subseteq Records
  /\ lost \in BOOLEAN /\ ended \in {"none", "cancelled", "timeout"}
  /\ answer.cited \subseteq EvidenceIds

StrikesCount == phase \in Busy => strikes.invalid <= 1 /\ strikes.idle <= 1

\* Tasks belong to the rounds so far, and only the open round has running ones.
Rounds ==
  \A t \in DOMAIN tasks :
    /\ tasks[t].round <= round
    /\ phase \in {"round", "deciding"} => tasks[t].round < round
    /\ tasks[t].status = "running" =>
         phase = "collecting" /\ tasks[t].round = round /\ tasks[t].evidence = {}

AgentsDiffer ==
  \A t, u \in DOMAIN tasks :
    tasks[t].round = tasks[u].round /\ tasks[t].agent = tasks[u].agent => t = u

\* The tasks whose evidence has been offered to the bank.
Closed == {t \in DOMAIN tasks : phase = "collecting" => tasks[t].round < round}

\* The text of evidence that was cleaned at least once.
TextOK(e) ==
  /\ Cleanings[Source(e)] = 0 => e.text = 0
  /\ Cleanings[Source(e)] = 1 => e.text = 1
  /\ Cleanings[Source(e)] > 0 => e.text > 0

Texts ==
  /\ \A e \in bank : TextOK(e)
  /\ \A t \in DOMAIN tasks : \A e \in tasks[t].evidence : TextOK(e)

BankIsFunction == \A e, f \in bank : e.id = f.id => e = f

\* Evidence of an open round is new under its own task, or cleans what the
\* bank has under its identity.
Home(t)     == IF tasks[t].agent = "knowledge" THEN Documents ELSE Reports
New(t, e)   == /\ e.id[1] = t /\ Source(e) \in Home(t) /\ e.text = Clean(Source(e), 0)
               /\ \A f \in bank : Source(f) = Source(e) => f.text # 0
Known(e)    == \E b \in bank : b.id = e.id /\ e.text = Clean(Source(b), b.text)

Origins ==
  phase = "collecting" =>
    \A t \in DOMAIN tasks : tasks[t].round = round =>
      \A e \in tasks[t].evidence : New(t, e) \/ Known(e)

\* A task that succeeded and is in the audit.
Audited(t) == t \in DOMAIN tasks /\ tasks[t].status = "succeeded" /\ <<"delegate", t>> \in recorded

Earned ==
  /\ \A t \in DOMAIN tasks : tasks[t].status = "succeeded" =>
       Audited(t) /\ \A e \in tasks[t].evidence : Audited(e.id[1])
  /\ \A e \in bank : Audited(e.id[1]) /\ e.id[1] \in Closed

BankHoldsResults ==
  BankIds = {e.id : e \in UNION {tasks[t].evidence : t \in Usable(Closed)}}

Finished ==
  phase \in {"merging", "idle"} /\ stop = "model_finished" => <<"supervisor", round>> \in recorded

Answers ==
  /\ phase # "idle" => answer = NoAnswer
  /\ phase # "merging" /\ phase # "idle" => stop = "round_budget"

IInv == /\ Types /\ StrikesCount /\ Rounds /\ AgentsDiffer /\ Texts /\ BankIsFunction
        /\ Origins /\ Earned /\ BankHoldsResults /\ EvidenceCountedOnce /\ Finished
        /\ Answers /\ AnswerIsEarned /\ AdmittedIsAnswered
-----------------------------------------------------------------------------
LEMMA SourceType == \A e \in Evidence : e.id \in EvidenceIds /\ Source(e) \in Sources /\ e.text \in Nat
                                       /\ e.id = <<e.id[1], Source(e)>>
  BY DEF Evidence, EvidenceIds, Source

LEMMA CleaningsType == \A s \in Sources : Cleanings[s] \in Nat
  BY CollaborationAssumption

LEMMA CleanType == \A s \in Sources, n \in Nat : Clean(s, n) \in Nat
  BY CleaningsType DEF Clean

LEMMA TasksType ==
  ASSUME Types
  PROVE  /\ DOMAIN tasks = 1..Len(tasks) /\ Len(tasks) \in Nat
         /\ \A t \in DOMAIN tasks :
              /\ t \in 1..MaxDelegations /\ tasks[t] \in TaskSet
              /\ tasks[t].round \in Nat /\ tasks[t].evidence \subseteq Evidence
              /\ tasks[t].agent \in Agents
         /\ round \in Nat
<1>1. DOMAIN tasks = 1..Len(tasks) /\ Len(tasks) \in Nat
  BY DEF Types
<1>2. \A t \in DOMAIN tasks : tasks[t] \in TaskSet
  BY DEF Types
<1>3. \A t \in DOMAIN tasks : t \in 1..MaxDelegations
  BY <1>1, CollaborationAssumption DEF Types
<1>4. round \in Nat
  BY CollaborationAssumption DEF Types
<1>5. \A t \in DOMAIN tasks : /\ tasks[t].round \in Nat /\ tasks[t].evidence \subseteq Evidence
                              /\ tasks[t].agent \in Agents
  BY <1>2, CollaborationAssumption DEF TaskSet
<1> QED
  BY <1>1, <1>2, <1>3, <1>4, <1>5

\* An order of the agents of a batch names each of them once.
LEMMA OrdersAreInjective ==
  ASSUME NEW A \in (SUBSET Agents) \ {{}}, NEW o \in Orders(A)
  PROVE  /\ Cardinality(A) \in Nat /\ o \in [1..Cardinality(A) -> A]
         /\ \A i, j \in 1..Cardinality(A) : o[i] = o[j] => i = j
<1>1. A = {"knowledge"} \/ A = {"diagnostic"} \/ A = Agents
  BY DEF Agents
<1>2. Cardinality({"knowledge"}) = 1 /\ Cardinality({"diagnostic"}) = 1
  BY FS_Singleton
<1>3. Cardinality(Agents) = 2
  <2>1. IsFiniteSet({"knowledge"}) /\ Cardinality({"knowledge"}) = 1
    BY FS_Singleton
  <2>2. Agents = {"knowledge"} \cup {"diagnostic"} /\ "diagnostic" \notin {"knowledge"}
    BY DEF Agents
  <2>3. Cardinality({"knowledge"} \cup {"diagnostic"}) = 2
    BY <2>1, <2>2, FS_AddElement
  <2> QED BY <2>2, <2>3
<1>4. o \in [1..Cardinality(A) -> A] /\ \A a \in A : \E i \in 1..Cardinality(A) : o[i] = a
  BY DEF Orders
<1>5. CASE A = Agents
  <2>1. o \in [1..2 -> Agents] /\ (\E i \in 1..2 : o[i] = "knowledge")
        /\ \E i \in 1..2 : o[i] = "diagnostic"
    BY <1>3, <1>4, <1>5 DEF Agents
  <2>2. o[1] # o[2]
    BY <2>1
  <2>3. \A i, j \in 1..2 : o[i] = o[j] => i = j
    BY <2>2
  <2> QED BY <2>3, <1>3, <1>4, <1>5
<1>6. CASE A # Agents
  <2>1. Cardinality(A) = 1
    BY <1>1, <1>2, <1>6
  <2> QED BY <2>1, <1>4
<1> QED
  BY <1>5, <1>6

\* In an open round evidence with one identity has one text.
LEMMA RoundIsFunction ==
  ASSUME IInv, phase = "collecting",
         NEW t \in DOMAIN tasks, tasks[t].round = round, NEW e \in tasks[t].evidence,
         NEW u \in DOMAIN tasks, tasks[u].round = round, NEW f \in tasks[u].evidence,
         e.id = f.id
  PROVE  e = f
<1>1. e \in Evidence /\ f \in Evidence /\ Source(e) = Source(f)
  BY TasksType DEF IInv, Source
<1>2. \A b \in bank : b.id[1] # t /\ b.id[1] # u
  BY TasksType DEF IInv, Earned, Closed
<1>3. New(t, e) \/ Known(e)
  BY DEF IInv, Origins
<1>4. New(u, f) \/ Known(f)
  BY DEF IInv, Origins
<1>5. e.text = f.text
  BY <1>1, <1>2, <1>3, <1>4 DEF New, Known, IInv, BankIsFunction
<1> QED
  BY <1>1, <1>5 DEF Evidence

\* So a result of the round is admitted whole, or not at all.
LEMMA RoundIsAdmitted ==
  ASSUME IInv, phase = "collecting", NEW t \in DOMAIN tasks, tasks[t].round = round
  PROVE  Admitted({t}) = UNION {tasks[u].evidence : u \in Usable({t})}
<1>1. \A e, f \in Collected({t}) : e.id = f.id => e = f
  BY RoundIsFunction DEF Collected, Usable
<1>2. Collisions({t}) = {}
  BY <1>1 DEF Collisions, SameText
<1> QED
  BY <1>2 DEF Admitted, Supported
\* A result's evidence is new, or what the bank has, and has been cleaned.
LEMMA NamespaceGives ==
  ASSUME IInv, phase = "collecting", NEW t \in Running, NEW e \in Allowed(t),
         NEW n, n = Namespace(t, e)
  PROVE  n \in Evidence /\ (New(t, n) \/ Known(n)) /\ TextOK(n)
<1> DEFINE s == Source(e)
           same == {f \in bank : SameText(e, f)}
<1>1. t \in DOMAIN tasks /\ tasks[t].round = round /\ t \in 1..MaxDelegations
  BY TasksType DEF IInv, Rounds, Running
<1>2. \A b \in bank : b \in Evidence /\ TextOK(b) /\ b.id[1] # t
  BY <1>1, TasksType DEF IInv, Types, Texts, Earned, Closed
<1>3. e \in bank \/ (e = [id |-> <<t, s>>, text |-> 0] /\ s \in Home(t) /\ s \in Sources)
  BY DEF Allowed, Home, Source, Sources
<1>4. e \in Evidence
  BY <1>1, <1>2, <1>3 DEF Evidence, EvidenceIds
<1>5. s \in Sources /\ e.text \in Nat /\ e.id \in EvidenceIds
  BY <1>4, SourceType
<1>6. Clean(s, e.text) \in Nat
  BY <1>5, CleanType
<1>7. Cleanings[s] \in Nat
  BY <1>5, CleaningsType
<1>8. e.text = 0 \/ TextOK(e)
  BY <1>2, <1>3
<1>9. /\ Cleanings[s] = 0 => Clean(s, e.text) = 0
      /\ Cleanings[s] = 1 => Clean(s, e.text) = 1
      /\ Cleanings[s] > 0 => Clean(s, e.text) > 0
  BY <1>5, <1>7, <1>8 DEF Clean, TextOK
<1>10. n.text = Clean(s, e.text)
  BY DEF Namespace
<1>11. CASE e \in bank
  <2>1. n.id = e.id /\ n \in Evidence
    BY <1>5, <1>6, <1>11 DEF Namespace, Evidence
  <2>2. Known(n)
    BY <2>1, <1>10, <1>11 DEF Known
  <2>3. Source(n) = s
    BY <2>1 DEF Source
  <2> QED BY <2>1, <2>2, <2>3, <1>9, <1>10 DEF TextOK
<1>12. CASE e \notin bank /\ same # {}
  <2>1. PICK f \in same : n.id = f.id
    BY <1>12 DEF Namespace
  <2>2. f \in bank /\ Source(f) = s /\ f.text = e.text
    BY DEF SameText
  <2>3. f.id \in EvidenceIds
    BY <1>2, <2>2 DEF Evidence
  <2>4. n \in Evidence
    BY <2>1, <2>3, <1>6 DEF Namespace, Evidence
  <2>5. Known(n)
    BY <2>1, <2>2, <1>10 DEF Known
  <2>6. Source(n) = s
    BY <2>1, <2>2 DEF Source
  <2> QED BY <2>4, <2>5, <2>6, <1>9, <1>10 DEF TextOK
<1>13. CASE e \notin bank /\ same = {}
  <2>1. n.id = <<t, s>> /\ n.id \in EvidenceIds
    BY <1>13, <1>1, <1>5 DEF Namespace, EvidenceIds
  <2>2. n \in Evidence
    BY <2>1, <1>6 DEF Namespace, Evidence
  <2>3. Source(n) = s /\ n.id[1] = t
    BY <2>1 DEF Source
  <2>4. e.text = 0 /\ s \in Home(t)
    BY <1>3, <1>13
  <2>5. \A f \in bank : Source(f) = s => f.text # 0
    BY <2>4, <1>13 DEF SameText
  <2>6. New(t, n)
    BY <2>3, <2>4, <2>5, <1>10 DEF New
  <2> QED BY <2>2, <2>3, <2>6, <1>9, <1>10 DEF TextOK
<1> QED
  BY <1>11, <1>12, <1>13

\* The parts of the invariant about tasks and evidence.
Kept == /\ AgentsDiffer /\ Texts /\ BankIsFunction /\ Origins /\ Earned
        /\ BankHoldsResults /\ EvidenceCountedOnce

\* They do not depend on a step that only records and moves between phases.
LEMMA QuietStep ==
  ASSUME IInv, tasks' = tasks, bank' = bank, recorded \subseteq recorded',
         \/ phase # "collecting" /\ phase' # "collecting"
         \/ phase' = phase /\ round' = round
  PROVE  Kept'
<1>1. Closed' = Closed
  BY DEF Closed
<1>2. Usable(Closed)' = Usable(Closed)
  BY <1>1 DEF Usable
<1>3. BankHoldsResults'
  <2> DEFINE Found(T) == {e.id : e \in UNION {tasks[t].evidence : t \in T}}
  <2>1. Found(Usable(Closed))' = Found(Usable(Closed)) /\ BankIds' = BankIds
    BY <1>2, Zenon DEF BankIds
  <2>2. BankIds = Found(Usable(Closed))
    BY DEF IInv, BankHoldsResults
  <2> QED BY <2>1, <2>2 DEF BankHoldsResults
<1>4. Origins'
  BY DEF IInv, Origins, New, Known, Home
<1>5. Earned'
  BY <1>1 DEF IInv, Earned, Audited
<1>6. AgentsDiffer' /\ Texts' /\ BankIsFunction' /\ EvidenceCountedOnce'
  BY DEF IInv, AgentsDiffer, Texts, BankIsFunction, EvidenceCountedOnce
<1> QED
  BY <1>3, <1>4, <1>5, <1>6 DEF Kept

\* The delegations of a batch join those of earlier rounds.
LEMMA BatchJoins ==
  ASSUME IInv, phase = "deciding", NEW b \in Batches, NEW o \in Orders(DOMAIN b),
         tasks' = tasks \o [i \in DOMAIN o |-> Task(b, o[i])]
  PROVE  /\ tasks' \in Seq(TaskSet) /\ Len(tasks') <= MaxDelegations
         /\ DOMAIN tasks \subseteq DOMAIN tasks'
         /\ \A t \in DOMAIN tasks : tasks'[t] = tasks[t]
         /\ \A t \in DOMAIN tasks' \ DOMAIN tasks :
              /\ tasks'[t].round = round /\ tasks'[t].status = "running"
              /\ tasks'[t].evidence = {}
         /\ \A t, u \in DOMAIN tasks' \ DOMAIN tasks :
              tasks'[t].agent = tasks'[u].agent => t = u
<1> DEFINE k == Cardinality(DOMAIN b)
           new == [i \in DOMAIN o |-> Task(b, o[i])]
<1>1. PICK A \in (SUBSET Agents) \ {{}} : b \in [A -> [objective : Objectives, handed : SUBSET BankIds]]
  BY DEF Batches
<1>2. DOMAIN b \in (SUBSET Agents) \ {{}}
  BY <1>1
<1>3. k \in Nat /\ o \in [1..k -> DOMAIN b] /\ \A i, j \in 1..k : o[i] = o[j] => i = j
  BY <1>2, OrdersAreInjective
<1>4. BankIds \subseteq EvidenceIds
  BY DEF IInv, Types, BankIds, Evidence
<1>5. round \in 1..MaxRounds
  BY CollaborationAssumption DEF IInv, Types
<1>6. \A a \in DOMAIN b : Task(b, a) \in TaskSet /\ Task(b, a).agent = a
                          /\ Task(b, a).round = round /\ Task(b, a).status = "running"
                          /\ Task(b, a).evidence = {}
  <2> TAKE a \in DOMAIN b
  <2>1. a \in Agents /\ b[a].handed \subseteq EvidenceIds
    BY <1>1, <1>4
  <2>2. {} \in SUBSET Evidence /\ "running" \in TaskStatuses
    BY DEF TaskStatuses
  <2> QED BY <2>1, <2>2, <1>5 DEF Task, TaskSet
<1>7. new \in [1..k -> TaskSet] /\ \A i \in 1..k : new[i] = Task(b, o[i]) /\ o[i] \in DOMAIN b
  BY <1>3, <1>6
<1>8. new \in Seq(TaskSet) /\ Len(new) = k
  <2> HIDE DEF new, k
  <2> QED BY <1>3, <1>7
<1>9. tasks \in Seq(TaskSet) /\ Len(tasks) \in Nat
  BY DEF IInv, Types
<1>10. /\ tasks' \in Seq(TaskSet) /\ Len(tasks') = Len(tasks) + k
       /\ \A t \in 1..Len(tasks) : tasks'[t] = tasks[t]
       /\ \A t \in 1..(Len(tasks) + k) : t > Len(tasks) => tasks'[t] = new[t - Len(tasks)]
  <2>1. tasks' = tasks \o new
    OBVIOUS
  <2>2. /\ tasks \o new \in Seq(TaskSet) /\ Len(tasks \o new) = Len(tasks) + Len(new)
        /\ \A t \in 1..(Len(tasks) + Len(new)) :
             (tasks \o new)[t] = IF t <= Len(tasks) THEN tasks[t] ELSE new[t - Len(tasks)]
    BY <1>8, <1>9, ConcatProperties
  <2>3. k \in Nat /\ Len(new) = k /\ Len(tasks) \in Nat
    BY <1>3, <1>8, <1>9
  <2> HIDE DEF new, k
  <2>4. tasks' \in Seq(TaskSet) /\ Len(tasks') = Len(tasks) + k
    BY <2>1, <2>2, <2>3
  <2>5. \A t \in 1..(Len(tasks) + k) :
          tasks'[t] = IF t <= Len(tasks) THEN tasks[t] ELSE new[t - Len(tasks)]
    BY <2>1, <2>2, <2>3
  <2>6. \A t \in 1..Len(tasks) : t \in 1..(Len(tasks) + k) /\ t <= Len(tasks)
    BY <2>3
  <2>7. \A t \in 1..(Len(tasks) + k) : t > Len(tasks) => ~(t <= Len(tasks))
    BY <2>3
  <2> QED BY <2>4, <2>5, <2>6, <2>7
<1>11. k + Len(tasks) <= MaxDelegations
  BY DEF Batches
<1>12. DOMAIN tasks = 1..Len(tasks) /\ DOMAIN tasks' = 1..(Len(tasks) + k)
  BY <1>3, <1>9, <1>10
<1>13. \A t \in DOMAIN tasks' \ DOMAIN tasks :
         t - Len(tasks) \in 1..k /\ t \in Nat /\ tasks'[t] = Task(b, o[t - Len(tasks)])
  <2> HIDE DEF new, k
  <2> QED BY <1>3, <1>7, <1>9, <1>10, <1>12
<1>14. \A t, u \in DOMAIN tasks' \ DOMAIN tasks : tasks'[t].agent = tasks'[u].agent => t = u
  <2> TAKE t, u \in DOMAIN tasks' \ DOMAIN tasks
  <2> HAVE tasks'[t].agent = tasks'[u].agent
  <2> HIDE DEF new, k
  <2>1. o[t - Len(tasks)] = o[u - Len(tasks)]
    BY <1>6, <1>7, <1>13
  <2>2. t - Len(tasks) = u - Len(tasks)
    BY <1>3, <1>13, <2>1
  <2> QED BY <2>2, <1>9, <1>13
<1>15. Len(tasks') <= MaxDelegations
  BY <1>3, <1>9, <1>10, <1>11, CollaborationAssumption
<1>16. \A t \in DOMAIN tasks' \ DOMAIN tasks :
         tasks'[t].round = round /\ tasks'[t].status = "running" /\ tasks'[t].evidence = {}
  <2> TAKE t \in DOMAIN tasks' \ DOMAIN tasks
  <2> HIDE DEF new, k
  <2>1. o[t - Len(tasks)] \in DOMAIN b
    BY <1>7, <1>13
  <2> QED BY <2>1, <1>6, <1>13
<1>17. DOMAIN tasks \subseteq DOMAIN tasks' /\ \A t \in DOMAIN tasks : tasks'[t] = tasks[t]
  <2> HIDE DEF new, k
  <2> QED BY <1>3, <1>9, <1>10, <1>12
<1> QED
  BY <1>10, <1>14, <1>15, <1>16, <1>17
\* While there is no answer nothing is said of it.
LEMMA NothingAnswered ==
  ASSUME answer = NoAnswer PROVE AnswerIsEarned /\ AdmittedIsAnswered
  BY DEF NoAnswer, AnswerIsEarned, AdmittedIsAnswered

LEMMA Initially == Init => IInv
<1> SUFFICES ASSUME Init PROVE IInv
  OBVIOUS
<1>0. <<>> \in Seq(TaskSet) /\ Len(<<>>) = 0
  OBVIOUS
<1>1. Types /\ StrikesCount
  <2>1. tasks \in Seq(TaskSet) /\ Len(tasks) <= MaxDelegations
    BY <1>0, CollaborationAssumption DEF Init
  <2>2. strikes \in [invalid : 0..2, idle : 0..2] /\ round \in 0..MaxRounds
    BY CollaborationAssumption DEF Init
  <2> QED BY <2>1, <2>2 DEF Init, Types, StrikesCount, Busy, NoAnswer
<1>2. Rounds /\ AgentsDiffer /\ Texts /\ BankIsFunction /\ Origins /\ Earned /\ EvidenceCountedOnce
  BY DEF Init, Rounds, AgentsDiffer, Texts, BankIsFunction, Origins, Earned, EvidenceCountedOnce
<1>3. BankHoldsResults
  <2>1. Usable(Closed) = {} /\ BankIds = {}
    BY DEF Init, Usable, Closed, BankIds
  <2> QED BY <2>1 DEF BankHoldsResults
<1>4. Finished /\ Answers
  BY DEF Init, Finished, Answers
<1> QED
  BY <1>1, <1>2, <1>3, <1>4, NothingAnswered DEF IInv, Init

LEMMA AcceptStep == IInv /\ Accept => IInv'
<1> SUFFICES ASSUME IInv, Accept PROVE IInv'
  OBVIOUS
<1>0. <<>> \in Seq(TaskSet) /\ Len(<<>>) = 0
  OBVIOUS
<1>1. Types' /\ StrikesCount'
  <2>1. tasks' \in Seq(TaskSet) /\ Len(tasks') <= MaxDelegations
    BY <1>0, CollaborationAssumption DEF Accept
  <2>2. strikes' \in [invalid : 0..2, idle : 0..2] /\ round' \in 0..MaxRounds
    BY CollaborationAssumption DEF Accept
  <2>3. phase' \in Busy /\ round' >= 1 /\ bank' = {} /\ recorded' = {} /\ lost' = FALSE
        /\ ended' = "none" /\ answer'.cited = {} /\ strikes'.invalid <= 1 /\ strikes'.idle <= 1
    BY DEF Accept, Busy, NoAnswer
  <2> QED BY <2>1, <2>2, <2>3 DEF Types, StrikesCount
<1>2. (Rounds /\ AgentsDiffer /\ Texts /\ BankIsFunction /\ Origins /\ Earned /\ EvidenceCountedOnce)'
  BY DEF Accept, Rounds, AgentsDiffer, Texts, BankIsFunction, Origins, Earned, EvidenceCountedOnce
<1>3. BankHoldsResults'
  <2>1. Usable(Closed)' = {} /\ BankIds' = {}
    BY DEF Accept, Usable, Closed, BankIds
  <2> QED BY <2>1 DEF BankHoldsResults
<1>4. (Finished /\ Answers)'
  BY DEF Accept, Finished, Answers
<1>5. (AnswerIsEarned /\ AdmittedIsAnswered)'
  BY DEF Accept, NoAnswer, AnswerIsEarned, AdmittedIsAnswered
<1> QED
  BY <1>1, <1>2, <1>3, <1>4, <1>5 DEF IInv

LEMMA EndStep == ASSUME IInv, NEW how \in {"cancelled", "timeout"}, EndContext(how) PROVE IInv'
<1>1. Kept'
  BY QuietStep DEF EndContext
<1>2. (Types /\ StrikesCount /\ Rounds /\ Finished /\ Answers)'
  BY DEF EndContext, IInv, Types, StrikesCount, Rounds, Finished, Answers, NoAnswer
<1>3. (AnswerIsEarned /\ AdmittedIsAnswered)'
  BY DEF EndContext, IInv, Answers, NoAnswer, AnswerIsEarned, AdmittedIsAnswered
<1> QED
  BY <1>1, <1>2, <1>3 DEF IInv, Kept

LEMMA BeginRoundStep == IInv /\ BeginRound => IInv'
<1> SUFFICES ASSUME IInv, BeginRound PROVE IInv'
  OBVIOUS
<1>1. Kept'
  BY QuietStep DEF BeginRound, Stop
<1>2. (Types /\ StrikesCount /\ Rounds /\ Finished /\ Answers)'
  BY DEF BeginRound, Stop, IInv, Types, StrikesCount, Rounds, Finished, Answers, NoAnswer, Busy
<1>3. (AnswerIsEarned /\ AdmittedIsAnswered)'
  BY DEF BeginRound, IInv, Answers, NoAnswer, AnswerIsEarned, AdmittedIsAnswered
<1> QED
  BY <1>1, <1>2, <1>3 DEF IInv, Kept

\* After a round that delegated nothing, or whose tasks are all done.
LEMMA GoOnTypes ==
  ASSUME IInv, GoOn, phase \in {"deciding", "collecting"}, Running = {}, tasks' = tasks
  PROVE  /\ round' \in 0..MaxRounds /\ round' >= 1 /\ Rounds'
         /\ phase' \in {"round", "merging"} /\ stop' = "round_budget"
<1>1. round \in 1..MaxRounds /\ stop = "round_budget"
  BY DEF IInv, Types, Answers
<1>2. \A t \in DOMAIN tasks : tasks[t].round \in Nat /\ tasks[t].round <= round
                            /\ tasks[t].status # "running"
  BY TasksType DEF IInv, Rounds, Running
<1>3. MaxRounds \in Nat
  BY CollaborationAssumption
<1>4. CASE round = MaxRounds
  BY <1>1, <1>2, <1>3, <1>4 DEF GoOn, Rounds
<1>5. CASE round # MaxRounds
  BY <1>1, <1>2, <1>3, <1>5 DEF GoOn, Rounds
<1> QED
  BY <1>4, <1>5

LEMMA DecidingRunsNone == ASSUME IInv, phase = "deciding" PROVE Running = {}
  BY DEF IInv, Rounds, Running

\* What ends the decision without a delegation.
LEMMA DecisionStep ==
  ASSUME IInv, ModelFails \/ Invalid \/ DecisionUnaudited \/ Finish
  PROVE  IInv'
<1>1. /\ phase = "deciding" /\ phase' \in {"round", "merging"} /\ tasks' = tasks /\ bank' = bank
      /\ answer' = answer /\ ended' = ended /\ lost' \in BOOLEAN
  BY DEF ModelFails, Invalid, DecisionUnaudited, Finish, Stop, GoOn, IInv, Types
<1>2. recorded \subseteq recorded' /\ recorded' \subseteq Records
  <2>1. <<"supervisor", round>> \in Records
    BY <1>1 DEF IInv, Types, Records
  <2> QED BY <2>1 DEF ModelFails, Invalid, DecisionUnaudited, Finish, Audit, IInv, Types
<1>3. Kept'
  BY <1>1, <1>2, QuietStep
<1>4. round' \in 0..MaxRounds /\ round' >= 1 /\ Rounds' /\ (phase' = "round" => stop' = "round_budget")
  <2>1. CASE GoOn
    BY <2>1, <1>1, GoOnTypes, DecidingRunsNone
  <2>2. CASE round' = round /\ phase' = "merging"
    BY <2>2, <1>1 DEF IInv, Types, Rounds
  <2> QED BY <2>1, <2>2 DEF ModelFails, Invalid, DecisionUnaudited, Finish, Stop
<1>5. strikes' \in [invalid : 0..2, idle : 0..2] /\ StrikesCount'
  <2>1. strikes \in [invalid : 0..2, idle : 0..2] /\ strikes.invalid <= 1 /\ strikes.idle <= 1
    BY <1>1 DEF IInv, Types, StrikesCount, Busy
  <2>2. CASE Invalid
    BY <2>1, <2>2 DEF Invalid, Stop, GoOn, StrikesCount, Busy
  <2>3. CASE strikes' = strikes
    BY <2>1, <2>3 DEF StrikesCount
  <2> QED BY <2>2, <2>3 DEF ModelFails, DecisionUnaudited, Finish
<1>6. Types'
  BY <1>1, <1>2, <1>4, <1>5 DEF IInv, Types, Busy
<1>7. Finished'
  <2>1. stop = "round_budget"
    BY <1>1 DEF IInv, Answers
  <2> QED BY <2>1, <1>1 DEF ModelFails, Invalid, DecisionUnaudited, Finish, Stop, GoOn, Audit, Finished
<1>8. Answers'
  BY <1>1, <1>4 DEF IInv, Answers, NoAnswer
<1>9. (AnswerIsEarned /\ AdmittedIsAnswered)'
  BY <1>1 DEF IInv, Answers, NoAnswer, AnswerIsEarned, AdmittedIsAnswered
<1> QED
  BY <1>3, <1>4, <1>5, <1>6, <1>7, <1>8, <1>9 DEF IInv, Kept
LEMMA DelegateStep == ASSUME IInv, NEW b \in Batches, Delegate(b) PROVE IInv'
<1>1. /\ phase = "deciding" /\ bank' = bank /\ strikes' = strikes /\ lost' = lost
      /\ ended' = ended /\ answer' = answer /\ round' = round
  BY DEF Delegate, Stop
<1>2. recorded' = recorded \cup {<<"supervisor", round>>} /\ recorded' \subseteq Records
  <2>1. <<"supervisor", round>> \in Records
    BY <1>1 DEF IInv, Types, Records
  <2> QED BY <2>1 DEF Delegate, Audit, IInv, Types
<1>3. stop = "round_budget" /\ answer = NoAnswer
  BY <1>1 DEF IInv, Answers
<1>4. (StrikesCount /\ AnswerIsEarned /\ AdmittedIsAnswered)'
  BY <1>1, <1>3 DEF IInv, StrikesCount, Busy, NoAnswer, AnswerIsEarned, AdmittedIsAnswered
<1>5. Running = {}
  BY <1>1, DecidingRunsNone
<1>6. CASE Stop("repeated_delegation") /\ tasks' = tasks
  <2>1. Kept'
    BY <1>1, <1>2, <1>6, QuietStep DEF Stop
  <2>2. (Types /\ Rounds /\ Finished /\ Answers)'
    BY <1>1, <1>2, <1>3, <1>6 DEF Stop, IInv, Types, Rounds, Finished, Answers
  <2> QED BY <2>1, <2>2, <1>4 DEF IInv, Kept
<1>7. ASSUME NEW o \in Orders(DOMAIN b), stop' = stop, phase' = "collecting",
             tasks' = tasks \o [i \in DOMAIN o |-> Task(b, o[i])]
      PROVE  IInv'
  <2>1. /\ tasks' \in Seq(TaskSet) /\ Len(tasks') <= MaxDelegations
        /\ DOMAIN tasks \subseteq DOMAIN tasks'
        /\ \A t \in DOMAIN tasks : tasks'[t] = tasks[t]
        /\ \A t \in DOMAIN tasks' \ DOMAIN tasks :
             /\ tasks'[t].round = round /\ tasks'[t].status = "running"
             /\ tasks'[t].evidence = {}
        /\ \A t, u \in DOMAIN tasks' \ DOMAIN tasks :
             tasks'[t].agent = tasks'[u].agent => t = u
    BY <1>1, <1>7, BatchJoins
  <2>2. round \in Nat /\ \A t \in DOMAIN tasks : /\ tasks[t].round \in Nat /\ tasks[t].round < round
                                               /\ tasks[t].status # "running"
    BY <1>1, <1>5, TasksType DEF IInv, Rounds, Running
  <2>3. Types'
    BY <1>1, <1>2, <1>7, <2>1 DEF IInv, Types, Busy
  <2>4. Rounds'
    <3>1. \A t \in DOMAIN tasks' :
            /\ tasks'[t].round <= round
            /\ tasks'[t].status = "running" => tasks'[t].round = round /\ tasks'[t].evidence = {}
      BY <2>1, <2>2
    <3> QED BY <1>1, <1>7, <3>1 DEF Rounds
  <2>5. AgentsDiffer'
    BY <2>1, <2>2 DEF IInv, AgentsDiffer
  <2>6. (Texts /\ BankIsFunction /\ EvidenceCountedOnce)'
    BY <1>1, <2>1 DEF IInv, Texts, BankIsFunction, EvidenceCountedOnce, TextOK
  <2>7. Origins'
    BY <1>1, <2>1, <2>2 DEF Origins
  <2>8. Closed' = DOMAIN tasks /\ Closed = DOMAIN tasks
    <3>1. \A t \in DOMAIN tasks' : tasks'[t].round < round <=> t \in DOMAIN tasks
      BY <2>1, <2>2
    <3>2. Closed' = {t \in DOMAIN tasks' : tasks'[t].round < round}
      BY <1>1, <1>7 DEF Closed
    <3>3. Closed = DOMAIN tasks
      BY <1>1 DEF Closed
    <3> QED BY <2>1, <3>1, <3>2, <3>3
  <2>9. Earned'
    BY <1>1, <1>2, <2>1, <2>8 DEF IInv, Earned, Audited
  <2>10. Usable(Closed)' = Usable(Closed) /\ Usable(Closed) \subseteq DOMAIN tasks
    BY <2>1, <2>8 DEF Usable
  <2>11. UNION {tasks[t].evidence : t \in Usable(Closed)}
         = UNION {tasks'[t].evidence : t \in Usable(Closed)'}
    BY <2>1, <2>10
  <2>12. BankHoldsResults'
    BY <1>1, <2>11 DEF IInv, BankHoldsResults, BankIds
  <2>13. (Finished /\ Answers)'
    BY <1>1, <1>3, <1>7 DEF Finished, Answers
  <2> QED
    BY <1>4, <2>3, <2>4, <2>5, <2>6, <2>7, <2>9, <2>12, <2>13 DEF IInv
<1> QED
  BY <1>6, <1>7 DEF Delegate

\* A step of the collecting phase ends running tasks.
LEMMA CollectingStep ==
  ASSUME IInv, phase = "collecting", phase' = phase, round' = round, stop' = stop, bank' = bank,
         strikes' = strikes, answer' = answer, ended' = ended, lost' \in BOOLEAN,
         recorded \subseteq recorded', recorded' \subseteq Records,
         DOMAIN tasks' = DOMAIN tasks, tasks' \in Seq(TaskSet),
         \A t \in DOMAIN tasks :
           /\ tasks'[t].agent = tasks[t].agent /\ tasks'[t].round = tasks[t].round
           /\ t \notin Running => tasks'[t] = tasks[t]
           /\ t \in Running =>
                \/ tasks'[t] = tasks[t]
                \/ tasks'[t].status = "failed" /\ tasks'[t].evidence = {}
                \/ /\ tasks'[t].status = "succeeded" /\ <<"delegate", t>> \in recorded'
                   /\ \A e \in tasks'[t].evidence : (New(t, e) \/ Known(e)) /\ TextOK(e)
  PROVE  IInv'
<1>1. \A t \in DOMAIN tasks : tasks[t].round \in Nat /\ round \in Nat /\ tasks[t].round <= round
                            /\ (t \in Running => tasks[t].round = round)
  BY TasksType DEF IInv, Rounds, Running
<1>2. \A t \in DOMAIN tasks : tasks[t].status = "succeeded" => tasks'[t] = tasks[t]
  BY DEF Running
<1>3. Types' /\ StrikesCount' /\ Finished' /\ Answers'
  <2>1. Len(tasks') = Len(tasks)
    BY DEF IInv, Types
  <2> QED BY <2>1 DEF IInv, Types, StrikesCount, Finished, Answers
<1>4. Rounds' /\ AgentsDiffer'
  BY <1>1 DEF IInv, Rounds, AgentsDiffer, Running
<1>5. Texts' /\ BankIsFunction' /\ EvidenceCountedOnce'
  BY DEF IInv, Texts, BankIsFunction, EvidenceCountedOnce, TextOK
<1>6. \A t \in DOMAIN tasks : Home(t)' = Home(t)
  BY DEF Home
<1>7. \A t \in DOMAIN tasks : \A e : (New(t, e) <=> New(t, e)') /\ (Known(e) <=> Known(e)')
  BY <1>6 DEF New, Known
<1>8. Origins'
  BY <1>7 DEF IInv, Origins
<1>9. Closed' = Closed
  BY DEF Closed
<1>10. \A t \in DOMAIN tasks : Audited(t) => Audited(t)'
  BY <1>2 DEF Audited
<1>11. Earned'
  <2>1. \A e \in bank : Audited(e.id[1])' /\ e.id[1] \in Closed'
    BY <1>9, <1>10 DEF IInv, Earned, Closed
  <2>2. ASSUME NEW t \in DOMAIN tasks, tasks'[t].status = "succeeded"
        PROVE  Audited(t)' /\ \A e \in tasks'[t].evidence : Audited(e.id[1])'
    <3>1. CASE tasks'[t] = tasks[t]
      <4>1. Audited(t)
        BY <2>2, <3>1 DEF IInv, Earned
      <4>2. \A e \in tasks[t].evidence : Audited(e.id[1]) /\ e.id[1] \in DOMAIN tasks
        BY <2>2, <3>1 DEF IInv, Earned, Audited
      <4> QED BY <4>1, <4>2, <3>1, <1>10
    <3>2. CASE tasks'[t] # tasks[t]
      <4>1. Audited(t)'
        BY <2>2, <3>2 DEF Audited
      <4>2. \A e \in tasks'[t].evidence : New(t, e) \/ Known(e)
        BY <2>2, <3>2
      <4> QED BY <2>1, <4>1, <4>2 DEF New, Known
    <3> QED BY <3>1, <3>2
  <2> QED BY <2>1, <2>2 DEF Earned
<1>12. BankHoldsResults'
  <2>1. \A t \in Closed : tasks'[t] = tasks[t]
    <3> SUFFICES ASSUME NEW t \in Closed PROVE tasks'[t] = tasks[t]
      OBVIOUS
    <3>1. t \in DOMAIN tasks /\ tasks[t].round < round
      BY DEF Closed
    <3>2. t \notin Running
      BY <1>1, <3>1
    <3> QED BY <3>1, <3>2
  <2>2. Usable(Closed)' = Usable(Closed)
    BY <1>9, <2>1 DEF Usable
  <2>3. UNION {tasks[t].evidence : t \in Usable(Closed)}
        = UNION {tasks'[t].evidence : t \in Usable(Closed)'}
    BY <2>1, <2>2 DEF Usable
  <2> QED BY <2>3 DEF IInv, BankHoldsResults, BankIds
<1>13. (AnswerIsEarned /\ AdmittedIsAnswered)'
  BY DEF IInv, Answers, NoAnswer, AnswerIsEarned, AdmittedIsAnswered
<1> QED
  BY <1>3, <1>4, <1>5, <1>8, <1>11, <1>12, <1>13 DEF IInv
LEMMA ReceiveStep == ASSUME IInv, NEW t \in DOMAIN tasks, Receive(t) PROVE IInv'
<1>1. /\ phase = "collecting" /\ t \in Running /\ phase' = phase /\ round' = round /\ stop' = stop
      /\ bank' = bank /\ strikes' = strikes /\ answer' = answer /\ ended' = ended
  BY DEF Receive
<1>2. PICK known \in BOOLEAN, cited \in SUBSET Allowed(t) :
        /\ Audit(<<"delegate", t>>, known) /\ lost' = (lost \/ ~known)
        /\ tasks' = [tasks EXCEPT ![t] = Result(t, known, cited)]
  BY DEF Receive
<1>3. t \in 1..MaxDelegations /\ tasks[t] \in TaskSet /\ tasks \in Seq(TaskSet)
  BY TasksType DEF IInv, Types
<1> DEFINE ev == IF known THEN {Namespace(t, e) : e \in cited} ELSE {}
           st == IF known /\ cited # {} THEN "succeeded" ELSE "failed"
<1>4. \A n \in ev : n \in Evidence /\ (New(t, n) \/ Known(n)) /\ TextOK(n)
  <2>1. \A e \in cited : e \in Allowed(t)
    OBVIOUS
  <2> QED BY <1>1, <2>1, NamespaceGives
<1>5. Result(t, known, cited) = [tasks[t] EXCEPT !.status = st, !.evidence = ev]
  BY DEF Result
<1>6. /\ Result(t, known, cited) \in TaskSet
      /\ Result(t, known, cited).agent = tasks[t].agent /\ Result(t, known, cited).round = tasks[t].round
      /\ Result(t, known, cited).status = st /\ Result(t, known, cited).evidence = ev
  <2>1. st \in TaskStatuses /\ ev \subseteq Evidence
    BY <1>4 DEF TaskStatuses
  <2> HIDE DEF st, ev
  <2> QED BY <1>3, <1>5, <2>1 DEF TaskSet
<1>7. /\ tasks' \in Seq(TaskSet) /\ DOMAIN tasks' = DOMAIN tasks
      /\ tasks'[t] = Result(t, known, cited)
      /\ \A u \in DOMAIN tasks : u # t => tasks'[u] = tasks[u]
  BY <1>2, <1>3, <1>6
<1>8. recorded \subseteq recorded' /\ recorded' \subseteq Records /\ lost' \in BOOLEAN
      /\ (known => <<"delegate", t>> \in recorded')
  BY <1>2, <1>3 DEF Audit, IInv, Types, Records
<1>9. st = "failed" => ev = {}
  OBVIOUS
<1>10. st = "succeeded" => known
  OBVIOUS
<1>11. st = "failed" \/ st = "succeeded"
  OBVIOUS
<1> HIDE DEF st, ev
<1>12. \A u \in DOMAIN tasks :
        /\ tasks'[u].agent = tasks[u].agent /\ tasks'[u].round = tasks[u].round
        /\ u \notin Running => tasks'[u] = tasks[u]
        /\ u \in Running =>
             \/ tasks'[u] = tasks[u]
             \/ tasks'[u].status = "failed" /\ tasks'[u].evidence = {}
             \/ /\ tasks'[u].status = "succeeded" /\ <<"delegate", u>> \in recorded'
                /\ \A e \in tasks'[u].evidence : (New(u, e) \/ Known(e)) /\ TextOK(e)
  BY <1>1, <1>4, <1>6, <1>7, <1>8, <1>9, <1>10, <1>11
<1> QED
  BY <1>1, <1>7, <1>8, <1>12, CollectingStep

LEMMA GiveUpStep == IInv /\ GiveUp => IInv'
<1> SUFFICES ASSUME IInv, GiveUp PROVE IInv'
  OBVIOUS
<1>1. /\ phase = "collecting" /\ phase' = phase /\ round' = round /\ stop' = stop
      /\ bank' = bank /\ strikes' = strikes /\ answer' = answer /\ ended' = ended
      /\ tasks' = [t \in DOMAIN tasks |->
                    IF t \in Running THEN [tasks[t] EXCEPT !.status = "failed"] ELSE tasks[t]]
  BY DEF GiveUp
<1>2. \A t \in DOMAIN tasks : /\ tasks[t] \in TaskSet /\ t \in 1..MaxDelegations
                            /\ (t \in Running => tasks[t].evidence = {})
  BY TasksType DEF IInv, Rounds, Running
<1>3. recorded \subseteq recorded' /\ recorded' \subseteq Records /\ lost' \in BOOLEAN
  BY <1>2 DEF GiveUp, Running, IInv, Types, Records
<1>4. \A t \in DOMAIN tasks :
        /\ tasks'[t] \in TaskSet
        /\ tasks'[t].agent = tasks[t].agent /\ tasks'[t].round = tasks[t].round
        /\ t \notin Running => tasks'[t] = tasks[t]
        /\ t \in Running => tasks'[t].status = "failed" /\ tasks'[t].evidence = {}
  BY <1>1, <1>2 DEF TaskSet, TaskStatuses
<1>5. tasks' \in Seq(TaskSet) /\ DOMAIN tasks' = DOMAIN tasks
  <2>1. DOMAIN tasks = 1..Len(tasks) /\ Len(tasks) \in Nat
    BY TasksType DEF IInv
  <2>2. tasks' \in [1..Len(tasks) -> TaskSet]
    BY <1>1, <1>4, <2>1
  <2>3. DOMAIN tasks' = DOMAIN tasks
    BY <2>1, <2>2
  <2> HIDE <1>1
  <2>4. tasks' \in Seq(TaskSet)
    BY <2>1, <2>2
  <2> QED BY <2>3, <2>4
<1> QED
  BY <1>1, <1>3, <1>4, <1>5, CollectingStep

LEMMA CloseRoundStep == IInv /\ CloseRound => IInv'
<1> SUFFICES ASSUME IInv, CloseRound PROVE IInv'
  OBVIOUS
<1> DEFINE now == {t \in DOMAIN tasks : tasks[t].round = round}
           new == UNION {Admitted({t}) : t \in now}
           old == {e \in bank : \A f \in new : f.id # e.id}
<1>1. /\ phase = "collecting" /\ Running = {} /\ bank' = new \cup old
      /\ tasks' = tasks /\ recorded' = recorded /\ lost' = lost /\ ended' = ended
      /\ answer' = answer /\ phase' \in {"round", "merging"}
  BY DEF CloseRound, Stop, GoOn
<1>2. \A t \in now : /\ t \in DOMAIN tasks /\ tasks[t].round = round
                     /\ Admitted({t}) = UNION {tasks[u].evidence : u \in Usable({t})}
  BY <1>1, RoundIsAdmitted
<1>3. \A e : e \in new <=> \E t \in now : t \in Usable(now) /\ e \in tasks[t].evidence
  <2>1. \A t \in now : \A u : u \in Usable({t}) <=> u = t /\ t \in Usable(now)
    BY DEF Usable
  <2>2. \A e : e \in new <=> \E t \in now : e \in Admitted({t})
    OBVIOUS
  <2>3. \A t \in now : \A e : e \in Admitted({t}) <=> \E u \in Usable({t}) : e \in tasks[u].evidence
    BY <1>2
  <2>4. \A t \in now : \A e : e \in Admitted({t}) <=> t \in Usable(now) /\ e \in tasks[t].evidence
    BY <2>1, <2>3
  <2> HIDE DEF new, now
  <2> QED BY <2>2, <2>4
<1>4. \A e \in new : e \in Evidence /\ TextOK(e)
  BY <1>3, TasksType DEF IInv, Texts
<1>5. \A e, f \in new : e.id = f.id => e = f
  BY <1>1, <1>2, <1>3, RoundIsFunction
<1>6. \A e \in new : Known(e) \/ \E t \in now : New(t, e)
  BY <1>1, <1>2, <1>3 DEF IInv, Origins
<1> HIDE DEF new
<1>7. round' \in 0..MaxRounds /\ round' >= 1 /\ Rounds' /\ (phase' = "round" => stop' = "round_budget")
      /\ (phase' = "merging" /\ stop' = "model_finished" => FALSE)
  <2>1. CASE GoOn
    BY <2>1, <1>1, GoOnTypes
  <2>2. CASE round' = round /\ phase' = "merging" /\ stop' \in {"audit_unavailable", "no_new_evidence"}
    BY <2>2, <1>1 DEF IInv, Types, Rounds, Running
  <2> QED BY <2>1, <2>2 DEF CloseRound, Stop
<1>8. strikes' \in [invalid : 0..2, idle : 0..2] /\ StrikesCount'
  <2>1. strikes \in [invalid : 0..2, idle : 0..2] /\ strikes.invalid <= 1 /\ strikes.idle <= 1
    BY <1>1 DEF IInv, Types, StrikesCount, Busy
  <2>2. CASE lost
    BY <2>1, <2>2 DEF CloseRound, Stop, StrikesCount, Busy
  <2>3. CASE ~lost
    <3>1. /\ strikes' = [strikes EXCEPT !.idle = IF BankIds' = BankIds THEN @ + 1 ELSE 0]
          /\ IF strikes'.idle >= 2 THEN Stop("no_new_evidence") ELSE GoOn
      BY <2>3 DEF CloseRound
    <3>2. strikes' \in [invalid : 0..2, idle : 0..2] /\ strikes'.invalid <= 1
      BY <2>1, <3>1
    <3>3. strikes'.idle <= 1 \/ phase' = "merging"
      BY <3>1, <3>2 DEF Stop
    <3> QED BY <3>2, <3>3 DEF StrikesCount, Busy
  <2> QED BY <2>2, <2>3
<1>9. Types'
  BY <1>1, <1>4, <1>7, <1>8 DEF IInv, Types, Busy
<1>10. AgentsDiffer' /\ Origins' /\ Finished' /\ Answers'
  BY <1>1, <1>7 DEF IInv, AgentsDiffer, Origins, Finished, Answers, NoAnswer
<1>11. Texts'
  BY <1>1, <1>4 DEF IInv, Texts, TextOK
<1>12. BankIsFunction'
  BY <1>1, <1>5 DEF IInv, BankIsFunction
<1>13. Closed' = DOMAIN tasks /\ \A t \in DOMAIN tasks : t \in Closed \/ t \in now
  <2>1. \A t \in DOMAIN tasks : tasks[t].round < round \/ tasks[t].round = round
    BY TasksType DEF IInv, Rounds
  <2> QED BY <1>1, <2>1 DEF Closed
<1>14. Earned'
  <2>1. \A i : Audited(i)' <=> Audited(i)
    BY <1>1 DEF Audited
  <2>2. \A e \in new : Audited(e.id[1])
    BY <1>3 DEF IInv, Earned, Usable
  <2> QED BY <1>1, <1>13, <2>1, <2>2 DEF IInv, Earned, Audited
<1>15. BankHoldsResults'
  <2>1. \A i : i \in BankIds' <=> i \in BankIds \/ \E e \in new : i = e.id
    BY <1>1 DEF BankIds
  <2>2. \A t : t \in Usable(DOMAIN tasks) <=> t \in Usable(Closed) \/ t \in Usable(now)
    BY <1>13 DEF Usable, Closed
  <2>3. Usable(Closed)' = Usable(DOMAIN tasks)
    BY <1>1, <1>13 DEF Usable
  <2>4. \A i : i \in BankIds <=> \E t \in Usable(Closed) : \E e \in tasks[t].evidence : i = e.id
    BY DEF IInv, BankHoldsResults
  <2>5. \A i : (\E e \in new : i = e.id) <=> \E t \in Usable(now) : \E e \in tasks[t].evidence : i = e.id
    BY <1>3 DEF Usable
  <2>6. \A i : i \in BankIds' <=> \E t \in Usable(DOMAIN tasks) : \E e \in tasks[t].evidence : i = e.id
    BY <2>1, <2>2, <2>4, <2>5
  <2>7. BankIds' = {e.id : e \in UNION {tasks[t].evidence : t \in Usable(DOMAIN tasks)}}
    BY <2>6
  <2> QED BY <1>1, <2>3, <2>7 DEF BankHoldsResults
<1>16. EvidenceCountedOnce'
  <2> SUFFICES ASSUME NEW e \in new \cup old, NEW f \in new \cup old, Source(e) = Source(f),
                      Cleanings[Source(e)] = 0
               PROVE  e = f
    BY <1>1 DEF EvidenceCountedOnce
  <2>1. \A g \in bank : g \in Evidence /\ TextOK(g)
    BY DEF IInv, Types, Texts
  <2>2. e \in Evidence /\ f \in Evidence /\ e.text = 0 /\ f.text = 0
    BY <1>4, <2>1 DEF TextOK
  <2>3. \A g \in new \cup old : Source(g) = Source(e) =>
          (\E b \in bank : b.id = g.id) \/ (g \in new /\ \E t \in now : New(t, g))
    BY <1>6 DEF Known
  <2>4. \A b, c \in bank : Source(b) = Source(e) /\ Source(c) = Source(e) => b = c
    BY DEF IInv, EvidenceCountedOnce
  <2>5. CASE \E b \in bank : Source(b) = Source(e)
    <3>1. \A b \in bank : Source(b) = Source(e) => b.text = 0
      BY <2>1 DEF TextOK
    <3>2. ~\E t \in now : New(t, e) \/ New(t, f)
      BY <2>5, <3>1 DEF New
    <3>3. PICK b \in bank, c \in bank : b.id = e.id /\ c.id = f.id
      BY <2>3, <3>2
    <3>4. b = c
      BY <2>4, <3>3 DEF Source
    <3> QED BY <2>2, <3>3, <3>4 DEF Evidence
  <2>6. CASE ~\E b \in bank : Source(b) = Source(e)
    <3>1. ~\E b \in bank : b.id = e.id \/ b.id = f.id
      BY <2>6 DEF Source
    <3>2. PICK t \in now, u \in now : New(t, e) /\ New(u, f)
      BY <2>3, <3>1
    <3>3. tasks[t].agent \in Agents /\ tasks[u].agent \in Agents
      BY TasksType DEF IInv
    <3>4. tasks[t].agent = tasks[u].agent
      <4>1. Source(e) \in Home(t) /\ Source(e) \in Home(u)
        BY <3>2 DEF New
      <4> QED BY <3>3, <4>1, CollaborationAssumption DEF Home, Agents
    <3>5. t = u
      BY <3>4 DEF IInv, AgentsDiffer
    <3>6. e.id[1] = t /\ f.id[1] = u
      BY <3>2 DEF New
    <3>7. e.id = f.id
      BY <2>2, <3>5, <3>6, SourceType
    <3> QED BY <2>2, <3>7 DEF Evidence
  <2> QED BY <2>5, <2>6
<1>17. (AnswerIsEarned /\ AdmittedIsAnswered)'
  BY <1>1 DEF IInv, Answers, NoAnswer, AnswerIsEarned, AdmittedIsAnswered
<1> QED
  BY <1>7, <1>8, <1>9, <1>10, <1>11, <1>12, <1>14, <1>15, <1>16, <1>17 DEF IInv
LEMMA MergeStep == IInv /\ Merge => IInv'
<1> SUFFICES ASSUME IInv, Merge PROVE IInv'
  OBVIOUS
<1> DEFINE cited == {e.id : e \in Admitted(DOMAIN tasks)}
<1>1. /\ phase = "merging" /\ phase' = "idle" /\ answer' = [status |-> Status(cited), cited |-> cited]
      /\ round' = round /\ stop' = stop /\ tasks' = tasks /\ bank' = bank /\ strikes' = strikes
      /\ recorded' = recorded /\ lost' = lost /\ ended' = ended
  BY DEF Merge, Merged
<1>2. \A e \in Admitted(DOMAIN tasks) : \E t \in DOMAIN tasks :
        t \in Usable(DOMAIN tasks) /\ tasks[t].status = "succeeded" /\ e \in tasks[t].evidence
        /\ e \in Evidence
  BY TasksType DEF IInv, Admitted, Supported, Usable
<1>3. answer'.cited = cited /\ answer'.status = Status(cited) /\ cited \subseteq EvidenceIds
  BY <1>1, <1>2 DEF Evidence
<1>4. Kept'
  BY <1>1, QuietStep
<1>5. (Types /\ StrikesCount /\ Rounds /\ Finished /\ Answers)'
  BY <1>1, <1>3 DEF IInv, Types, StrikesCount, Rounds, Finished, Answers, Busy
<1>6. AnswerIsEarned'
  <2>1. \A i \in cited : Audited(i[1])
    BY <1>2 DEF IInv, Earned
  <2>2. ASSUME Status(cited) = "complete"
        PROVE  /\ stop = "model_finished" /\ ended # "cancelled" /\ tasks # <<>>
               /\ \A t \in DOMAIN tasks : tasks[t].status = "succeeded"
    <3>1. stop = "model_finished" /\ ended # "cancelled" /\ cited # {} /\ Usable(DOMAIN tasks) = DOMAIN tasks
      BY <2>2 DEF Status
    <3>2. DOMAIN tasks # {}
      BY <1>2, <3>1
    <3> QED BY <3>1, <3>2 DEF Usable
  <2>3. stop = "model_finished" => <<"supervisor", round>> \in recorded
    BY <1>1 DEF IInv, Finished
  <2> QED BY <1>1, <1>3, <2>1, <2>2, <2>3 DEF AnswerIsEarned, Audited
<1>7. AdmittedIsAnswered'
  <2> SUFFICES ASSUME \A e \in bank : Cleanings[Source(e)] <= 1
               PROVE  cited = BankIds
    BY <1>1, <1>3 DEF AdmittedIsAnswered, BankIds
  <2>1. Closed = DOMAIN tasks
    BY <1>1 DEF Closed
  <2>2. \A i : i \in BankIds <=> \E e \in Collected(DOMAIN tasks) : i = e.id
    BY <2>1 DEF IInv, BankHoldsResults, Collected
  <2>3. \A e \in Collected(DOMAIN tasks) : e \in Evidence /\ TextOK(e)
    BY TasksType DEF IInv, Collected, Usable, Texts
  <2>4. \A e \in Collected(DOMAIN tasks) : Cleanings[Source(e)] <= 1
    BY <2>2 DEF BankIds, Source
  <2>5. \A e \in Collected(DOMAIN tasks) : Cleanings[Source(e)] \in Nat
    BY <2>3, SourceType, CleaningsType
  <2>6. \A e, f \in Collected(DOMAIN tasks) : e.id = f.id => SameText(e, f)
    BY <2>3, <2>4, <2>5 DEF TextOK, SameText, Source
  <2>7. Collisions(DOMAIN tasks) = {}
    BY <2>6 DEF Collisions
  <2>8. Admitted(DOMAIN tasks) = Collected(DOMAIN tasks)
    BY <2>7 DEF Admitted, Supported, Collected
  <2> QED BY <2>2, <2>8
<1> QED
  BY <1>4, <1>5, <1>6, <1>7 DEF IInv, Kept

LEMMA Stutter == IInv /\ UNCHANGED vars => IInv'
<1> SUFFICES ASSUME IInv, UNCHANGED vars PROVE IInv'
  OBVIOUS
<1>1. Kept'
  BY QuietStep DEF vars
<1>2. (Types /\ StrikesCount /\ Rounds /\ Finished /\ Answers)'
  BY DEF vars, IInv, Types, StrikesCount, Rounds, Finished, Answers
<1>3. (AnswerIsEarned /\ AdmittedIsAnswered)'
  BY DEF vars, IInv, AnswerIsEarned, AdmittedIsAnswered, BankIds
<1> QED
  BY <1>1, <1>2, <1>3 DEF IInv, Kept

\* The invariant, for any documents, reports, cleanings and budgets.
THEOREM Invariance == CollaborationSpec => []IInv
<1>1. IInv /\ [Next]_vars => IInv'
  <2> SUFFICES ASSUME IInv, [Next]_vars PROVE IInv'
    OBVIOUS
  <2>1. CASE Accept \/ BeginRound
    BY <2>1, AcceptStep, BeginRoundStep
  <2>2. CASE ModelFails \/ Invalid \/ DecisionUnaudited \/ Finish
    BY <2>2, DecisionStep
  <2>3. CASE EndContext("cancelled") \/ EndContext("timeout")
    BY <2>3, EndStep
  <2>4. CASE \E b \in Batches : Delegate(b)
    BY <2>4, DelegateStep
  <2>5. CASE \E t \in DOMAIN tasks : Receive(t)
    BY <2>5, ReceiveStep
  <2>6. CASE GiveUp \/ CloseRound \/ Merge
    BY <2>6, GiveUpStep, CloseRoundStep, MergeStep
  <2>7. CASE UNCHANGED vars
    BY <2>7, Stutter
  <2> QED BY <2>1, <2>2, <2>3, <2>4, <2>5, <2>6, <2>7 DEF Next
<1> QED
  BY <1>1, Initially, PTL DEF CollaborationSpec

\* Every state of a run has its type, the budgets included (newState, Run).
THEOREM CollaborationTypes == CollaborationSpec => []CollaborationTypeOK
<1>1. IInv => CollaborationTypeOK
  <2> SUFFICES ASSUME IInv PROVE CollaborationTypeOK
    OBVIOUS
  <2>1. \A t \in DOMAIN tasks :
          /\ tasks[t].agent \in Agents /\ tasks[t].round \in 1..round
          /\ tasks[t].handed \subseteq EvidenceIds /\ tasks[t].evidence \subseteq Evidence
          /\ tasks[t].status \in {"running", "succeeded", "failed"}
          /\ tasks[t].status = "running" => phase = "collecting"
    BY TasksType, CollaborationAssumption DEF IInv, Rounds, TaskSet, TaskStatuses
  <2> QED BY <2>1 DEF IInv, Types, CollaborationTypeOK, Busy, Records
<1> QED
  BY <1>1, Invariance, PTL

\* No answer is called complete, and no evidence cited, that was not earned
\* and audited, however the agents, the audit and the caller interleave.
THEOREM AnswersAreEarned == CollaborationSpec => []AnswerIsEarned
<1>1. IInv => AnswerIsEarned
  BY DEF IInv
<1> QED
  BY <1>1, Invariance, PTL

\* Found twice is counted once, for texts that cleaning leaves alone.
THEOREM EvidenceIsCountedOnce == CollaborationSpec => []EvidenceCountedOnce
<1>1. IInv => EvidenceCountedOnce
  BY DEF IInv
<1> QED
  BY <1>1, Invariance, PTL

\* What was admitted round by round is what the answer cites, as long as a
\* text is clean once it has been cleaned.
THEOREM AnswersHoldAdmitted == CollaborationSpec => []AdmittedIsAnswered
<1>1. IInv => AdmittedIsAnswered
  BY DEF IInv
<1> QED
  BY <1>1, Invariance, PTL

================================================================================
