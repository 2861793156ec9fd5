------------------------------- MODULE DemoChat -------------------------------
(***************************************************************************)
(* The chat of the demo page (dashboard/src/app/agent/content.tsx) and its *)
(* route (app/api/agent/route.ts).  Every request carries the whole        *)
(* conversation; the route refuses one that is too long, and otherwise     *)
(* lets the language model call tools and answer in a bounded number of    *)
(* steps.  The tools look, and simulate_payment sends a payment that the   *)
(* proxy cannot parse: none of them changes a table.                       *)
(***************************************************************************)
EXTENDS Naturals

CONSTANTS
    ChatTabs,     \* tabs of the browser
    MaxMessages,  \* messages the route accepts: 20
    MaxSteps,     \* stepCountIs: 5
    MaxSends      \* bound: messages the user sends in one conversation

ASSUME ChatAssumption ==
    MaxMessages \in Nat \ {0} /\ MaxSteps \in Nat \ {0} /\ MaxSends \in Nat

VARIABLE chat

\* messages: of the user and of the assistant; sends: those of the user;
\* steps: of the answer that is streaming; calls: of the model in this
\* conversation; indicator: of the last tool of the last answer.
NoChat == [status |-> "ready", messages |-> 0, sends |-> 0, steps |-> 0, calls |-> 0,
           indicator |-> "none"]

ChatType ==
    chat \in [ChatTabs -> [status: {"ready", "submitted", "streaming", "error"},
                           messages: Nat, sends: 0..MaxSends, steps: 0..MaxSteps, calls: Nat,
                           indicator: {"none", "spinning", "done"}]]

ChatInit == chat = [t \in ChatTabs |-> NoChat]

-----------------------------------------------------------------------------

Says(t, c) == chat' = [chat EXCEPT ![t] = c]

\* sendMessage appends a message and posts the conversation.
Submitted(c) == [c EXCEPT !.status = "submitted", !.messages = @ + 1, !.sends = @ + 1]

\* The input and its button are disabled, and handleSend does nothing.
IsLoading(c) == c.status \in {"submitted", "streaming"}

HandleSend(t) ==
    /\ ~IsLoading(chat[t]) /\ chat[t].sends < MaxSends
    /\ Says(t, Submitted(chat[t]))

\* Mutant of HandleRetry: the answer that failed is dropped, and what was
\* asked before is posted again.
HandleRetryAnew(t) ==
    /\ chat[t].status = "error" /\ chat[t].sends < MaxSends
    /\ Says(t, [chat[t] EXCEPT !.status = "submitted", !.messages = chat[t].sends])

\* The banner with the button "Try again".
ErrorBanner(c) == c.status = "error"

\* The last message of the user is sent again, as a new one.
HandleRetry(t) ==
    /\ ErrorBanner(chat[t]) /\ chat[t].sends < MaxSends
    /\ Says(t, Submitted(chat[t]))

\* POST: the limiter, the configuration, the body; RequestBodySchema.
Post(t) ==
    /\ chat[t].status = "submitted"
    /\ \/ Says(t, [chat[t] EXCEPT !.status = "error"])
       \/ /\ chat[t].messages <= MaxMessages
          /\ Says(t, [chat[t] EXCEPT !.status = "streaming", !.steps = 0, !.indicator = "none"])

\* One call of the model.  The first begins the message of the assistant.
Called(c) == [c EXCEPT !.steps = @ + 1, !.calls = @ + 1,
                       !.messages = IF c.steps = 0 THEN @ + 1 ELSE @]

\* The model may be called: it has not called a tool, or has its result.
MayCall(c) == c.status = "streaming" /\ c.indicator # "spinning"

ModelAnswers(t) ==
    /\ MayCall(chat[t])
    /\ Says(t, [Called(chat[t]) EXCEPT !.status = "ready"])

\* What a call of a tool comes to, ten seconds later at most: an answer of the
\* proxy, which may be an error, or an exception of the tool.
proxyFetch == {"output-available", "output-error"}

ToolCallIndicator(state) == IF state \in proxyFetch THEN "done" ELSE "spinning"

\* The page shows the state of the last tool.
renderMessage(c, state) == [c EXCEPT !.indicator = ToolCallIndicator(state)]

CallsTool(t) ==
    /\ MayCall(chat[t])
    /\ Says(t, renderMessage(Called(chat[t]), "input-available"))

\* The model is called again while there are steps left.
ToolReturns(t) ==
    /\ chat[t].status = "streaming" /\ chat[t].indicator = "spinning"
    /\ \E state \in proxyFetch :
          Says(t, [renderMessage(chat[t], state) EXCEPT
                      !.status = IF chat[t].steps = MaxSteps THEN "ready" ELSE @])

\* The model fails, or the stream breaks; the indicator of a tool that was
\* called stays as it is.
StreamFails(t) ==
    /\ chat[t].status = "streaming"
    /\ Says(t, [chat[t] EXCEPT !.status = "error"])

Respond(t) == Post(t) \/ ModelAnswers(t) \/ CallsTool(t) \/ ToolReturns(t) \/ StreamFails(t)

-----------------------------------------------------------------------------
(* Properties. *)

\* Every call of the model costs the operator of the demo.  A conversation
\* costs no more than MaxSteps calls for each of MaxMessages messages,
\* however often it fails, is retried and is continued.
CostBounded == \A t \in ChatTabs : chat[t].calls <= MaxMessages * MaxSteps
=============================================================================
