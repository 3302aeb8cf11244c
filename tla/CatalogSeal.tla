------------------------------ MODULE CatalogSeal ------------------------------
(***************************************************************************)
(* Sealing a reviewed catalog.  A session that confirms the review set it  *)
(* was shown gets an immutable directory made of exactly that set: the     *)
(* service reads the reviews, writes all files to a temporary directory    *)
(* and renames it.  Reviews go on meanwhile, other sessions may seal the   *)
(* same set, and the process may die at any point.                         *)
(*                                                                         *)
(* A seal is identified by what its name is the hash of: the reviewer and  *)
(* the set of rows (the catalog is one).  What a crash leaves of a         *)
(* temporary directory is never looked at.                                 *)
(***************************************************************************)
EXTENDS CatalogReview

VARIABLES sealing,   \* the seal each session is making
          seals      \* the sealed directories

sealVars == <<sealing, seals>>

SealIds == [user: Users, set: SUBSET Rows]

SealTypeOK ==
  /\ sealing \in [Sessions -> SealIds \cup {Nothing}]
  /\ seals \subseteq SealIds

SealInit == sealing = [s \in Sessions |-> Nothing] /\ seals = {}

\* Mutated form of Confirmed: a complete review is enough.
ConfirmedComplete(S) == Complete(S)

\* What the reviews must be for the confirmed set to be sealed.
Confirmed(S) == Ready(S)

\* Seal up to the temporary directory: the set the command names is the
\* current one and ready, and not sealed yet (else the seal is the reply).
BeginSeal(s) ==
  /\ started /\ sealing[s] = Nothing
  /\ Usable(User[s])
  /\ LET id == [user |-> User[s], set |-> ReviewSet(User[s], Len(rows))]
     IN  /\ Confirmed(id.set)
         /\ id \notin seals
         /\ sealing' = [sealing EXCEPT ![s] = id]
  /\ UNCHANGED <<seals, reviewVars>>

\* materialize writes the set in memory, not the table, to the temporary
\* directory; the rename fails when another session was first, whose seal is
\* then the reply.
Publish(s) ==
  /\ sealing[s] # Nothing
  /\ seals' = seals \cup {sealing[s]}
  /\ sealing' = [sealing EXCEPT ![s] = Nothing]
  /\ UNCHANGED reviewVars

\* A failed write, or the death of the process.
DropSeal(s) ==
  /\ sealing[s] # Nothing
  /\ sealing' = [sealing EXCEPT ![s] = Nothing]
  /\ UNCHANGED <<seals, reviewVars>>

SealNext == \E s \in Sessions : BeginSeal(s) \/ Publish(s) \/ DropSeal(s)

-----------------------------------------------------------------------------
\* A seal holds what its reviewer had decided at one moment, all of it
\* approved, even if decisions changed before or after it was written
\* (service.go: all_320_approved_required, source_database_review_set_bound).
WasApproved(id) ==
  \E n \in 0..Len(rows) : ReviewSet(id.user, n) = id.set /\ Ready(id.set)

SealWasApproved == \A id \in seals : WasApproved(id)
=============================================================================
