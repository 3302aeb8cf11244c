---------------------------- MODULE ReviewWorkbench ----------------------------
(***************************************************************************)
(* The browser's side of the catalog review: every session of              *)
(* CatalogReview is a tab with the human review workbench open.  A tab     *)
(* shows one case, the one on the current page of the list of the chosen   *)
(* filter, as it was when the list was last loaded.  The reviewer picks a  *)
(* decision, ticks a box that confirms the case was examined, and submits; *)
(* the tab makes an idempotency key for the submission and keeps it, so    *)
(* that a submission whose answer is lost can be sent again.               *)
(*                                                                         *)
(* Only the button that submits waits for a post: the box, the decision,   *)
(* pages, filters and the refresh do not.  While a list loads, the case is *)
(* hidden with all that belongs to it, the filters are not; loading again  *)
(* is passed over, and who asked for it goes on as if it had loaded.       *)
(*                                                                         *)
(* The seal panel, the judge's tab, the filters beside "pending" and       *)
(* "all", and closing the workbench are left out.                          *)
(***************************************************************************)
EXTENDS CatalogReview, FiniteSetsExt, SequencesExt

CONSTANT CaseOrder  \* the sequence in which the catalog lists its cases

VARIABLES filter,    \* of each tab: catalogStatus
          page,      \* catalogPage
          shown,     \* catalogCase with its revision and how many are listed, or nothing
          decision,  \* catalogDecision
          ticked,    \* catalogAcknowledged
          key,       \* catalogIdempotencyKey
          loading,   \* the list on its way: what was asked for and by whom, or nothing
          resets,    \* who will reset the draft after a further read
          post,      \* the submission: none, or how far it is
          posted,    \* the body of the last post
          vouched,   \* history: the case that was shown when the box was ticked
          confirmed  \* history: the same of the last post

draftVars == <<decision, ticked, key, vouched>>
listVars  == <<filter, page, shown, loading, resets>>
postVars  == <<post, posted, confirmed>>
tabVars   == <<draftVars, listVars, postVars>>
benchVars == <<reviewVars, tabVars>>

Ask(s, by) == [filter |-> filter[s], page |-> page[s], by |-> by]

WorkbenchInit ==
  /\ ReviewInit
  /\ filter = [s \in Sessions |-> "pending"]
  /\ page = [s \in Sessions |-> 1]
  /\ shown = [s \in Sessions |-> Nothing]
  /\ decision = [s \in Sessions |-> "approved"]
  /\ ticked = [s \in Sessions |-> FALSE]
  /\ key = [s \in Sessions |-> Nothing]
  /\ loading = [s \in Sessions |-> [filter |-> "pending", page |-> 1, by |-> "open"]]
  /\ resets = [s \in Sessions |-> {}]
  /\ post = [s \in Sessions |-> "none"]
  /\ posted = [s \in Sessions |-> Nothing]
  /\ vouched = [s \in Sessions |-> Nothing]
  /\ confirmed = [s \in Sessions |-> Nothing]
-----------------------------------------------------------------------------
(* What the reviewer does.                                                 *)

\* A case is on the page.
Visible(s) == shown[s] # Nothing /\ loading[s] = Nothing

Decide(s) ==
  /\ Visible(s)
  /\ decision' = [decision EXCEPT ![s] = CHOOSE d \in Decisions : d # decision[s]]
  /\ UNCHANGED <<reviewVars, ticked, key, vouched, listVars, postVars>>

Tick(s) ==
  /\ Visible(s)
  /\ ticked' = [ticked EXCEPT ![s] = ~ticked[s]]
  /\ vouched' = [vouched EXCEPT ![s] = IF ticked[s] THEN Nothing ELSE shown[s].case]
  /\ UNCHANGED <<reviewVars, decision, key, listVars, postVars>>

\* A new key is one that nobody has.
NewKeys == Keys \ ({rows[i].key : i \in 1..Len(rows)} \cup {key[t] : t \in Sessions}
                   \cup {posted[t].key : t \in {t \in Sessions : posted[t] # Nothing}})

\* submitCatalog: the body is made of what the tab shows now.
Submit(s) ==
  /\ Visible(s) /\ ticked[s] /\ post[s] = "none"
  /\ \E k \in IF key[s] = Nothing THEN NewKeys ELSE {key[s]} :
       /\ key' = [key EXCEPT ![s] = k]
       /\ posted' = [posted EXCEPT ![s] = [case |-> shown[s].case, expected |-> shown[s].revision,
                                           decision |-> decision[s], key |-> k]]
  /\ post' = [post EXCEPT ![s] = "sent"]
  /\ confirmed' = [confirmed EXCEPT ![s] = vouched[s]]
  /\ UNCHANGED <<reviewVars, decision, ticked, vouched, listVars>>

\* resetCatalogDecision: the decision is the one of the case's latest row.
ResetDecision(s, case) ==
  /\ ticked' = [ticked EXCEPT ![s] = FALSE]
  /\ vouched' = [vouched EXCEPT ![s] = Nothing]
  /\ key' = [key EXCEPT ![s] = Nothing]
  /\ decision' = [decision EXCEPT ![s] = IF case = Nothing THEN "approved" ELSE case.decision]

\* Turning a page: the list is loaded.
Move(s) ==
  /\ Visible(s)
  /\ \E n \in {page[s] - 1, page[s] + 1} \cap (1..shown[s].of) :
       /\ page' = [page EXCEPT ![s] = n]
       /\ loading' = [loading EXCEPT ![s] = [Ask(s, "move") EXCEPT !.page = n]]
  /\ UNCHANGED <<reviewVars, filter, shown, resets, draftVars, postVars>>

\* Choosing a filter: the list is loaded, unless one is on its way; then the
\* draft is reset at once.
Choose(s) ==
  /\ \E f \in {"pending", "all"} :
       /\ f # filter[s]
       /\ filter' = [filter EXCEPT ![s] = f]
       /\ page' = [page EXCEPT ![s] = 1]
       /\ IF loading[s] # Nothing
            THEN ResetDecision(s, shown[s]) /\ UNCHANGED loading
            ELSE /\ loading' = [loading EXCEPT ![s] = [filter |-> f, page |-> 1, by |-> "move"]]
                 /\ UNCHANGED draftVars
  /\ UNCHANGED <<reviewVars, shown, resets, postVars>>

\* reloadActive: the list is loaded and the draft is kept.
Refresh(s) ==
  /\ loading[s] = Nothing
  /\ loading' = [loading EXCEPT ![s] = Ask(s, "refresh")]
  /\ UNCHANGED <<reviewVars, filter, page, shown, resets, draftVars, postVars>>
-----------------------------------------------------------------------------
(* What the tab and the server make of it.                                 *)

\* The post is answered, or its answer is lost, or it fails on the way.  A
\* conflict makes the tab forget the key.  After a success and a conflict the
\* list is loaded; if one is on its way already, a success goes on to its
\* second read, and a conflict is over.
Answered(s, outcome) ==
  /\ key' = [key EXCEPT ![s] = IF outcome = "conflict" THEN Nothing ELSE key[s]]
  /\ post' = [post EXCEPT ![s] =
       IF outcome = "conflict" /\ loading[s] # Nothing THEN "none" ELSE outcome]
  /\ loading' = [loading EXCEPT ![s] =
       IF outcome \in {"saved", "conflict"} /\ loading[s] = Nothing THEN Ask(s, "post") ELSE @]
  /\ resets' = [resets EXCEPT ![s] =
       IF outcome = "saved" /\ loading[s] # Nothing THEN @ \cup {"saved"} ELSE @]
  /\ UNCHANGED <<filter, page, shown, decision, ticked, vouched, posted, confirmed>>

\* Append: the row with the tab's key was written for what is submitted now.
Replays(s) ==
  \E i \in 1..Len(rows) :
    /\ rows[i].key = posted[s].key /\ rows[i].user = User[s] /\ rows[i].case = posted[s].case
    /\ rows[i].revision = posted[s].expected + 1 /\ rows[i].decision = posted[s].decision

Serve(s) ==
  /\ post[s] = "sent"
  /\ \/ FindReplay(s) /\ request'[s] = posted[s] /\ Answered(s, "served")
     \/ /\ KeyUsed(User[s], posted[s].key)
        /\ Answered(s, IF Replays(s) THEN "saved" ELSE "conflict")
        /\ UNCHANGED reviewVars
     \/ Answered(s, "none") /\ UNCHANGED reviewVars

\* The transaction ends, and its answer arrives or is lost.  A connection that
\* ends earlier ends the request's context: the transaction is over before
\* the reviewer sends it again.
Store(s) ==
  /\ post[s] = "served"
  /\ \/ Insert(s) /\ Answered(s, IF rows' # rows THEN "saved" ELSE "conflict")
     \/ Insert(s) /\ Answered(s, "none")
     \/ Abandon(s) /\ Answered(s, "none")

\* The cases a filter lists.
Listed(s, f) ==
  SelectSeq(CaseOrder, LAMBDA c : f = "pending" => Revisions(c, User[s]) = {})

\* The case with its latest row.
Item(s, c, of) ==
  LET n == Max({0} \cup Revisions(c, User[s]))
  IN  [case |-> c, revision |-> n, of |-> of,
       decision |-> IF n = 0 THEN "approved"
                    ELSE (CHOOSE r \in Range(rows) : /\ r.case = c /\ r.user = User[s]
                                                     /\ r.revision = n).decision]

\* loadCatalog, the answer: the page as it was asked for; none if the list is
\* empty or shorter, or could not be read.
Arrives(s) ==
  LET list == Listed(s, loading[s].filter)
      n    == loading[s].page
  IN  shown' = [shown EXCEPT ![s] =
        IF n <= Len(list) THEN Item(s, list[n], Len(list)) ELSE Nothing]

\* The list became shorter: its last page is loaded, by the filter of now.
Shorter(s) == Len(Listed(s, loading[s].filter)) \in 1..loading[s].page - 1 /\ page[s] > 1

Again(s) ==
  /\ started /\ loading[s] # Nothing /\ Usable(User[s]) /\ Shorter(s)
  /\ Arrives(s)
  /\ LET last == Len(Listed(s, loading[s].filter))
     IN  /\ page' = [page EXCEPT ![s] = last]
         /\ loading' = [loading EXCEPT ![s].filter = filter[s], ![s].page = last]
  /\ UNCHANGED <<reviewVars, filter, resets, draftVars, postVars>>

\* Who asked goes on: a move resets the draft, a success and the opening of
\* the workbench have more to read before they do, a refresh and a conflict
\* leave the draft as it is.
Show(s) ==
  /\ started /\ loading[s] # Nothing
  /\ \/ Usable(User[s]) /\ ~Shorter(s) /\ Arrives(s)
     \/ shown' = [shown EXCEPT ![s] = Nothing]
  /\ loading' = [loading EXCEPT ![s] = Nothing]
  /\ LET by == IF loading[s].by = "post" THEN post[s] ELSE loading[s].by
     IN  /\ resets' = [resets EXCEPT ![s] = IF by \in {"open", "saved"} THEN @ \cup {by} ELSE @]
         /\ post' = [post EXCEPT ![s] = IF by = "conflict" THEN "none" ELSE @]
         /\ IF by = "move" THEN ResetDecision(s, shown'[s]) ELSE UNCHANGED draftVars
  /\ UNCHANGED <<reviewVars, filter, page, posted, confirmed>>

\* The last read of a success or of the opening arrives.
Reset(s) ==
  /\ \E by \in resets[s] :
       /\ resets' = [resets EXCEPT ![s] = @ \ {by}]
       /\ post' = [post EXCEPT ![s] = IF by = "saved" THEN "none" ELSE @]
  /\ ResetDecision(s, shown[s])
  /\ UNCHANGED <<reviewVars, filter, page, shown, loading, posted, confirmed>>

WorkbenchNext ==
  \/ Migrate /\ UNCHANGED tabVars
  \/ \E s \in Sessions : \/ Decide(s) \/ Tick(s) \/ Move(s) \/ Choose(s) \/ Refresh(s) \/ Submit(s)
                         \/ Serve(s) \/ Store(s) \/ Again(s) \/ Show(s) \/ Reset(s)

WorkbenchSpec == WorkbenchInit /\ [][WorkbenchNext]_benchVars
-----------------------------------------------------------------------------
(* Properties.                                                             *)

\* What a tab reports as saved is stored as it was sent, the decision included,
\* also when an earlier answer to the same key was lost and the reviewer
\* changed the draft before sending it again, and whatever the reviewer does
\* while the post is on its way (submitCatalog, Append).
SavedIsStored ==
  \A s \in Sessions : post[s] = "saved" =>
    \E i \in 1..Len(rows) :
      /\ rows[i].user = User[s] /\ rows[i].case = posted[s].case
      /\ rows[i].revision = posted[s].expected + 1 /\ rows[i].decision = posted[s].decision

\* The box says "I have first derived the conclusion from the rules and the
\* evidence above ... this is not a batch confirmation" and is sent along as
\* I_REVIEWED_CASE_AND_EXPECTED_RESULT: a submission is of the case that was
\* shown when the reviewer ticked the box.
EachCaseIsAcknowledged ==
  \A s \in Sessions : post[s] = "served" => confirmed[s] = request[s].case
=============================================================================
