----------------------------- MODULE ChatSession -----------------------------
(***************************************************************************)
(* Chatting in one session of one user.  The process keeps a helper per    *)
(* session, whose memory is filled from the working memory by the first    *)
(* chat and extended by every message after it.  Several requests are at   *)
(* work at once, with no lock over a whole one:                            *)
(*   chat      question stored, prompt assembled, model asked, answer      *)
(*             stored (ChatSendContext and its streaming form);            *)
(*   exchange  the knowledge agent's question and answer, stored together; *)
(*   view      the public window and its context;                          *)
(*   rebuild   the window built anew on the user's request.                *)
(*                                                                         *)
(* Which model answers, the texts and their streaming are left out; a      *)
(* message stands for its text.                                            *)
(***************************************************************************)
EXTENDS WorkingMemory, ProfileMemory

CONSTANTS Requests,   \* places for requests at work
          MaxCalls,   \* bound on requests and operations on the profile
          MaxFaults,  \* bound on lost pushes, evictions, failures, restarts
          Budget,     \* tokens of a prompt
          Tokens      \* what a rule, a fact, a question and an answer cost

ASSUME ChatAssumption ==
  /\ MaxCalls \in Nat /\ MaxFaults \in Nat /\ Budget \in Nat
  /\ Tokens \in [rule: Nat, fact: Nat, question: Nat, answer: Nat]

VARIABLES open,    \* whether the session exists
          helper,  \* what the helper remembers, and whether history was loaded
          call,    \* the requests at work
          calls,   \* requests and profile operations so far
          faults,
          exact    \* history: the helper was filled with the newest messages

chatVars == <<open, stored, cache, helper, call, calls, faults, exact>>
sessionVars == <<chatVars, rows>>

Kinds   == {"none", "chat", "exchange", "view", "rebuild"}
Roles   == {"user", "assistant"}
Prompts  == [rules: 0..2, facts: SUBSET Facts, question: Nat, working: Seq(Nat)]
NoPrompt == [rules |-> 0, facts |-> {}, question |-> 0, working |-> <<>>]
Idle     == [at |-> "idle", kind |-> "none", latest |-> 0, ids |-> <<>>, prompt |-> NoPrompt]
NoHelper == [made |-> FALSE, loaded |-> FALSE, memory |-> <<>>]

Places == {"idle", "latest", "load", "recent", "delete", "replace", "adopt",
           "ask", "push", "remember", "prompt", "model"}

ChatTypeOK ==
  /\ ProfileTypeOK
  /\ open \in BOOLEAN
  /\ stored \in Seq([role: Roles, heard: BOOLEAN])
  /\ cache \in Seq(Ids) /\ Len(cache) <= Limit
  /\ helper \in [made: BOOLEAN, loaded: BOOLEAN, memory: Seq(Ids)]
  /\ call \in [Requests -> [at: Places, kind: Kinds,
                            latest: 0..Len(stored), ids: Seq(Ids), prompt: Prompts]]
  /\ calls \in 0..MaxCalls /\ faults \in 0..MaxFaults
  /\ exact \in BOOLEAN

\* A new process, with a session from before it or none.
ChatInit ==
  /\ ProfileInit
  /\ open \in BOOLEAN
  /\ stored = IF open THEN <<[role |-> "user", heard |-> TRUE],
                          [role |-> "assistant", heard |-> TRUE]>> ELSE <<>>
  /\ cache = <<>>
  /\ helper = NoHelper
  /\ call = [c \in Requests |-> Idle]
  /\ calls = 0 /\ faults = 0
  /\ exact = TRUE
-----------------------------------------------------------------------------
At(c, place)      == call[c].at = place
Goto(c, place)    == call' = [call EXCEPT ![c].at = place]
Carry(c, p, ids)  ==
  call' = [call EXCEPT ![c] = [Idle EXCEPT !.kind = call[c].kind, !.at = p, !.ids = ids]]
End(c)            == call' = [call EXCEPT ![c] = Idle]
Fault             == faults < MaxFaults /\ faults' = faults + 1
NoFault           == UNCHANGED faults

\* A request arrives at a place.
Begin(c, kind, place) ==
  /\ At(c, "idle") /\ calls < MaxCalls
  /\ calls' = calls + 1
  /\ call' = [call EXCEPT ![c] = [Idle EXCEPT !.kind = kind, !.at = place]]
  /\ UNCHANGED <<stored, cache, faults, exact>>

\* A chat creates the helper if there is none, and the session if it names
\* none; history is loaded unless that is done.
BeginChat(c) ==
  /\ open' = TRUE
  /\ helper' = [helper EXCEPT !.made = TRUE]
  /\ Begin(c, "chat", IF helper.loaded THEN "ask" ELSE "latest")

\* An exchange creates the session if it names none; no helper is needed.
BeginExchange(c) == open' = TRUE /\ Begin(c, "exchange", "ask") /\ UNCHANGED helper

BeginView(c)    == open /\ Begin(c, "view", "latest") /\ UNCHANGED <<open, helper>>
BeginRebuild(c) == open /\ Begin(c, "rebuild", "recent") /\ UNCHANGED <<open, helper>>

\* A read or a transaction of MySQL fails, the model fails, or the request's
\* context is cancelled: the request ends where it is.
Fail(c) ==
  /\ call[c].at \in {"latest", "recent", "ask", "model"} /\ Fault
  /\ End(c)
  /\ UNCHANGED <<open, stored, cache, helper, calls, exact>>
-----------------------------------------------------------------------------
(* The window.                                                             *)

ReadLatest(c) ==
  /\ At(c, "latest")
  /\ call' = [call EXCEPT ![c].at = "load", ![c].latest = Len(stored)]
  /\ UNCHANGED <<open, stored, cache, helper, calls, faults, exact>>

\* Where a request goes that has its window.
Windowed(c, ids) == IF call[c].kind = "chat" THEN Carry(c, "adopt", ids) ELSE End(c)

\* The helper is only ever filled with what the table held while it was read.
Noted(c, ids) ==
  exact' = (exact /\ (call[c].kind = "chat"
                        => \E n \in call[c].latest..Len(stored) : ids = Recent(n)))

LoadCache(c) ==
  /\ At(c, "load")
  /\ \/ Fresh(call[c].latest) /\ Windowed(c, Newest(cache)) /\ Noted(c, Newest(cache)) /\ NoFault
     \/ ~Fresh(call[c].latest) /\ Goto(c, "recent") /\ NoFault /\ UNCHANGED exact
     \/ Goto(c, "recent") /\ Fault /\ UNCHANGED exact
  /\ UNCHANGED <<open, stored, cache, helper, calls>>

ReadRecent(c) ==
  /\ At(c, "recent")
  /\ call' = [call EXCEPT ![c].ids = Recent(Len(stored)),
                          ![c].at  = IF call[c].kind = "rebuild" THEN "delete" ELSE "replace"]
  /\ UNCHANGED <<open, stored, cache, helper, calls, faults, exact>>

DeleteCache(c) ==
  /\ At(c, "delete")
  /\ \/ cache' = <<>> /\ NoFault
     \/ UNCHANGED cache /\ Fault
  /\ Goto(c, "replace")
  /\ UNCHANGED <<open, stored, helper, calls, exact>>

\* The list is replaced by what was read; the window is what was read.
Replace(c) ==
  /\ At(c, "replace")
  /\ \/ cache' = call[c].ids /\ NoFault
     \/ UNCHANGED cache /\ Fault
  /\ Windowed(c, call[c].ids) /\ Noted(c, call[c].ids)
  /\ UNCHANGED <<open, stored, helper, calls>>

\* The helper takes the window's messages one by one, then is loaded.
Adopt(c) ==
  /\ At(c, "adopt")
  /\ \/ /\ call[c].ids # <<>>
        /\ helper' = [helper EXCEPT !.memory = Append(@, Head(call[c].ids))]
        /\ Carry(c, "adopt", Tail(call[c].ids))
     \/ /\ call[c].ids = <<>>
        /\ helper' = [helper EXCEPT !.loaded = TRUE]
        /\ Goto(c, "ask")
  /\ UNCHANGED <<open, stored, cache, calls, faults, exact>>
-----------------------------------------------------------------------------
(* Messages.                                                               *)

\* The messages a request's transaction stores.
With(roles, heard) == stored \o [i \in DOMAIN roles |-> [role |-> roles[i], heard |-> heard]]

\* The transaction commits, or commits and the request is told it failed.
Store(c, roles) ==
  /\ \/ /\ stored' = With(roles, TRUE) /\ NoFault
        /\ Carry(c, "push", [i \in DOMAIN roles |-> Len(stored) + i])
     \/ stored' = With(roles, FALSE) /\ Fault /\ End(c)
  /\ UNCHANGED <<open, cache, helper, calls, exact>>

\* A chat stores its question, an exchange all of it.
Ask(c) ==
  /\ At(c, "ask")
  /\ Store(c, IF call[c].kind = "chat" THEN <<"user">> ELSE <<"user", "assistant">>)

\* The model replies, and its answer is stored.
Answer(c) == At(c, "model") /\ Store(c, <<"assistant">>)

Push(c) ==
  /\ At(c, "push")
  /\ \/ cache' = Pushed(call[c].ids) /\ NoFault
     \/ UNCHANGED cache /\ Fault
  /\ Goto(c, "remember")
  /\ UNCHANGED <<open, stored, helper, calls, exact>>

\* Mutated form of Remembers: an exchange is remembered by a loaded helper.
RemembersLoaded(c) == call[c].kind = "chat" \/ helper.loaded

\* An exchange is remembered if there is a helper, loaded or not.
Remembers(c) == call[c].kind = "chat" \/ helper.made

Remember(c) ==
  /\ At(c, "remember")
  /\ IF Remembers(c)
     THEN /\ helper' = [helper EXCEPT !.memory = Append(@, Head(call[c].ids))]
          /\ IF Tail(call[c].ids) # <<>> THEN Carry(c, "remember", Tail(call[c].ids))
             ELSE IF stored[Head(call[c].ids)].role = "user" THEN Goto(c, "prompt")
             ELSE End(c)
     ELSE UNCHANGED helper /\ End(c)
  /\ UNCHANGED <<open, stored, cache, calls, faults, exact>>
-----------------------------------------------------------------------------
(* The prompt.                                                             *)

Asked(id)    == stored[id].role = "user"
Cost(id)     == IF Asked(id) THEN Tokens.question ELSE Tokens.answer
FactCost(fs) == Cardinality(fs) * Tokens.fact

\* The questions among them, and the answers.
CostOf(ids) ==
  LET asked == Cardinality({i \in DOMAIN ids : Asked(ids[i])})
  IN  asked * Tokens.question + (Len(ids) - asked) * Tokens.answer

\* The newest question the helper remembers, whoever asked it.
QuestionAt(s) == CHOOSE i \in DOMAIN s : /\ Asked(s[i])
                                         /\ \A j \in DOMAIN s : Asked(s[j]) => j <= i

\* As many of the recalled facts as fit.
FactsThatFit(known, spent) ==
  CHOOSE fs \in SUBSET known :
    /\ fs # {} => spent + FactCost(fs) <= Budget
    /\ \A f \in known \ fs : spent + FactCost(fs) + Tokens.fact > Budget

\* Mutated form of Fits: what was taken already is not counted.
FitsAlone(spent, taken, id) == spent + Cost(id) <= Budget

\* Whether a message fits with what has been spent and taken.
Fits(spent, taken, id) == spent + CostOf(taken) + Cost(id) <= Budget

\* The newest messages that fit, in their order, skipping what does not.
MessagesThatFit(spent, s) ==
  LET taken[n \in 0..Len(s)] ==   \* of the last n
        IF n = 0 THEN <<>>
        ELSE LET id == s[Len(s) - n + 1]  newer == taken[n - 1]
             IN  IF Fits(spent, newer, id) THEN <<id>> \o newer ELSE newer
  IN  taken[Len(s)]

\* The context for the remembered messages and the recalled facts: the rules
\* (one more with facts) and the question always, then facts, then the other
\* messages.
Assembled(s, known) ==
  LET at       == QuestionAt(s)
      rules    == IF known = {} THEN 1 ELSE 2
      required == rules * Tokens.rule + Cost(s[at])
      fs       == FactsThatFit(known, required)
  IN  [rules |-> rules, facts |-> fs, question |-> s[at],
       working |-> MessagesThatFit(required + FactCost(fs), RemoveAt(s, at))]

\* The profile is asked for what is relevant to the question, in vain if it
\* fails.
Prompt(c) ==
  /\ At(c, "prompt")
  /\ \E known \in SUBSET {rows[i].fact : i \in Recalled} :
       call' = [call EXCEPT ![c].at = "model", ![c].prompt = Assembled(helper.memory, known)]
  /\ UNCHANGED <<open, stored, cache, helper, calls, faults, exact>>
-----------------------------------------------------------------------------
\* The process restarts: helpers and requests are gone.
Restart ==
  /\ Fault
  /\ helper' = NoHelper
  /\ call' = [c \in Requests |-> Idle]
  /\ exact' = TRUE
  /\ UNCHANGED <<open, stored, cache, calls>>

EvictCache == Fault /\ Evict /\ UNCHANGED <<open, helper, call, calls, exact>>

RequestStep(c) ==
  \/ BeginChat(c) \/ BeginExchange(c) \/ BeginView(c) \/ BeginRebuild(c)
  \/ Fail(c) \/ ReadLatest(c) \/ LoadCache(c) \/ ReadRecent(c) \/ DeleteCache(c) \/ Replace(c)
  \/ Adopt(c) \/ Ask(c) \/ Push(c) \/ Remember(c) \/ Prompt(c) \/ Answer(c)

ProfileStep == /\ calls < MaxCalls /\ calls' = calls + 1
               /\ ProfileNext
               /\ UNCHANGED <<open, stored, cache, helper, call, faults, exact>>

ChatNext ==
  \/ /\ Restart \/ EvictCache \/ \E c \in Requests : RequestStep(c)
     /\ UNCHANGED rows
  \/ ProfileStep

ChatSpec == ChatInit /\ [][ChatNext]_sessionVars
-----------------------------------------------------------------------------
\* Once a helper has loaded the session, it knows every recent message: what
\* a chat or an exchange stored before, while or after it was filled is in
\* its memory or about to be added by the request that stored it, whatever
\* was interleaved (ensureSessionHelper, AddMessageContext, SaveExchange).
\* Left out are messages whose transaction reported an error, and a helper
\* that was filled from a list with gaps, which passes the freshness check.
NothingForgotten ==
  helper.loaded /\ exact =>
    \A id \in Range(Recent(Len(stored))) :
      \/ ~stored[id].heard
      \/ id \in Range(helper.memory)
      \/ \E c \in Requests : call[c].at \in {"push", "remember"} /\ id \in Range(call[c].ids)

\* A prompt is within its budget unless it is only what every prompt has,
\* the rules and the question (Assemble: what is optional is dropped).
PromptCost(p) ==
  p.rules * Tokens.rule + Cost(p.question) + FactCost(p.facts) + CostOf(p.working)

PromptWithinBudget ==
  \A c \in Requests : At(c, "model") =>
    LET p == call[c].prompt
    IN  p.facts # {} \/ p.working # <<>> => PromptCost(p) <= Budget
=============================================================================
