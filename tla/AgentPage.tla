------------------------------- MODULE AgentPage -------------------------------
(***************************************************************************)
(* The page of an agent in the dashboard, and the server actions behind    *)
(* its buttons (dashboard/src/app/dashboard/actions.ts), over the          *)
(* management handlers of the proxy.  Next.js runs the actions of one tab   *)
(* one after the other; those of several tabs, and everything else that     *)
(* reaches the proxy, run at the same time.                                *)
(***************************************************************************)
EXTENDS PaymentProxy, SignIn

CONSTANTS
    Owner,  \* Owner[a] is the owner_address of agent a
    Sites   \* how the dashboard may be deployed

ASSUME SiteAssumption ==
    /\ Owner \in [Agents -> Wallets]
    /\ Sites \subseteq [gateway: BOOLEAN, apiKey: BOOLEAN, rowSecurity: BOOLEAN]

VARIABLES
    site,   \* gateway: PROXY_URL adds the API key that lib/proxy.ts does not
            \* send; apiKey: MANAGEMENT_API_KEY is set; rowSecurity: migration
            \* 005 is applied
    page,   \* the page of an agent, in each tab
    action  \* the server action of a tab

pageVars == <<site, page, action>>

Fetches == {"agent", "rules", "keys"}   \* the three of Promise.all

\* revoked: the keys that the page shows as revoked.
NoPage == [state |-> "none", agent |-> Absent, pending |-> {},
           active |-> FALSE, rules |-> {}, keys |-> {}, revoked |-> {}]

Op(name, a, arg) == [name |-> name, agent |-> a, arg |-> arg]
Ops == [name: {"createRule", "deleteRule", "createKey", "revokeKey", "revokeAll"},
        agent: Agents, arg: RuleIds \cup Keys \cup {Absent}]

\* user: the wallet of the request's cookies; wrote: the proxy has done what
\* it was asked; watched: the tab still waits for the result.
NoAction == [op |-> Absent, user |-> Nobody, stage |-> "idle", wrote |-> FALSE,
             watched |-> FALSE, outcome |-> "none"]

PageType ==
    /\ site \in Sites
    /\ page \in [Tabs -> [state: {"none", "loading", "shown", "failed", "notFound", "crashed"},
                          agent: Agents \cup {Absent}, pending: SUBSET Fetches,
                          active: BOOLEAN, rules: SUBSET RuleIds,
                          keys: SUBSET Keys, revoked: SUBSET Keys]]
    /\ action \in [Tabs -> [op: Ops \cup {Absent}, user: Wallets \cup {Nobody},
                            stage: {"idle", "owner", "call", "refresh"}, wrote: BOOLEAN,
                            watched: BOOLEAN, outcome: {"none", "success", "error", "refused"}]]

PageInit ==
    /\ site \in Sites
    /\ page = [t \in Tabs |-> NoPage]
    /\ action = [t \in Tabs |-> NoAction]

-----------------------------------------------------------------------------
(* The page.  It does not ask whose agent it shows. *)

Opened(a) == [NoPage EXCEPT !.state = "loading", !.agent = a, !.pending = Fetches]

\* What a fetch that succeeds adds.  The proxy lists active rules only.
Fetched(p, what) ==
    CASE what = "agent" -> [p EXCEPT !.active = agents[p.agent] = "active"]
      [] what = "rules" -> [p EXCEPT !.rules =
            {i \in RuleIds : rules[i] # Absent /\ rules[i].agent = p.agent /\ rules[i].active}]
      [] what = "keys"  -> [p EXCEPT !.keys =
            {k \in Keys : keys[k] # Absent /\ keys[k].agent = p.agent},
            !.revoked = {k \in Keys : keys[k] # Absent /\ keys[k].agent = p.agent /\ keys[k].revoked}]

\* dashboard/error.tsx takes over; its button renders the same page again.
Crashed(p) == [p EXCEPT !.state = "crashed"]

\* With a rule to show the page crashes: GuardrailTable renders rule_type,
\* which the proxy sends as an object.
Rendered(p) ==
    IF p.pending # {} THEN p
    ELSE IF p.rules # {} THEN Crashed(p) ELSE [p EXCEPT !.state = "shown"]

\* Mutant of Becomes: only a page that is shown ends its action.
BecomesIfShown(t, p) ==
    /\ page' = [page EXCEPT ![t] = p]
    /\ action' = IF p.state = "shown" /\ action[t].stage = "refresh"
                 THEN [action EXCEPT ![t].stage = "idle", ![t].outcome = "success"]
                 ELSE action

\* The page in tab t becomes p.  An action that waited for it is reported to
\* the user together with it.
Becomes(t, p) ==
    /\ page' = [page EXCEPT ![t] = p]
    /\ action' = IF p.state # "loading" /\ action[t].stage = "refresh"
                 THEN [action EXCEPT ![t].stage = "idle", ![t].outcome = "success"]
                 ELSE action

Load(t) ==
    /\ page[t].state = "loading"
    /\ \E what \in page[t].pending :
          \/ /\ site.gateway
             /\ what = "agent" => agents[page[t].agent] # "none"
             /\ Becomes(t, Rendered([Fetched(page[t], what)
                                        EXCEPT !.pending = page[t].pending \ {what}]))
          \/ /\ site.gateway /\ what = "agent" /\ agents[page[t].agent] = "none"
             /\ Becomes(t, [NoPage EXCEPT !.state = "notFound"])
          \/ Becomes(t, [NoPage EXCEPT !.state = "failed"])
    /\ UNCHANGED <<vars, signInVars, site>>

-----------------------------------------------------------------------------
(* The server actions. *)

\* The buttons of a page, each a component of its own.  Those of a rule are
\* never seen, since the page crashes before.
CreateRuleDialog(p) == {Op("createRule", p.agent, Absent)}
CreateKeyDialog(p) == {Op("createKey", p.agent, Absent)}
RevokeAllButton(p) == {Op("revokeAll", p.agent, Absent)}
RuleActions(p) == {Op("deleteRule", p.agent, i) : i \in p.rules}
KeyActions(k, a) == Op("revokeKey", a, k)
SessionKeyTable(p) == {KeyActions(k, p.agent) : k \in p.keys \ p.revoked}

Buttons(p) == CreateRuleDialog(p) \cup CreateKeyDialog(p) \cup RevokeAllButton(p)
                \cup RuleActions(p) \cup SessionKeyTable(p)

Press(t) ==
    /\ page[t].state = "shown" /\ action[t].stage = "idle"
    /\ \E op \in Buttons(page[t]) :
          action' = [action EXCEPT ![t] = [NoAction EXCEPT
                        !.op = op, !.user = session, !.stage = "owner", !.watched = TRUE]]
    /\ UNCHANGED <<vars, signInVars, site, page>>

Finish(t, outcome) ==
    action' = [action EXCEPT ![t].stage = "idle", ![t].outcome = outcome]

\* redirect('/login'), which the tab may get through the middleware or
\* rendered with the answer of the action.
SentAway(t, wrote) ==
    /\ action' = [action EXCEPT ![t].stage = "idle", ![t].wrote = wrote]
    /\ IF action[t].watched
       THEN /\ \E p \in Asked("login", session) : place' = [place EXCEPT ![t] = p]
            /\ page' = [page EXCEPT ![t] = NoPage]
       ELSE UNCHANGED <<place, page>>
    /\ UNCHANGED <<account, nonce, supabase, session, signers, form>>

\* Mutant of MayAct: the ownership check is left out.
MayActIfSignedIn(a, user) == TRUE

MayAct(a, user) == Owner[a] = user

\* apiHeaders: without the key the proxy refuses every call.
Authorized == site.apiKey

\* verifySession and assertAgentOwnership, which calls verifySession again: the
\* step is the one of the two that decides.  A getUser that fails for another
\* reason redirects as well.
CheckOwner(t) ==
    LET a == action[t].op.agent
        user == action[t].user
    IN  /\ action[t].stage = "owner"
        /\ \/ SentAway(t, FALSE)
           \/ /\ LoggedIn(user)
              /\ \/ Finish(t, "error")
                 \/ /\ Authorized
                    /\ IF MayAct(a, user) THEN action' = [action EXCEPT ![t].stage = "call"]
                       ELSE Finish(t, "refused")
              /\ UNCHANGED <<page, signInVars>>
        /\ UNCHANGED <<vars, site>>

\* What the proxy does with the call of each action.  It refuses every rule:
\* the body that createGuardrailRule sends is not the one create_rule reads.
createGuardrailRule(op) == FALSE
deleteGuardrailRule(op) == DeactivateRule(op.arg, op.agent)
createSessionKey(op) == \E k \in Keys : CreateSessionKey(k, op.agent)
revokeSessionKey(op) == RevokeSessionKey(op.arg, op.agent)
revokeAllSessionKeys(op) == RevokeAll(op.agent)

Write(op) ==
    CASE op.name = "createRule" -> createGuardrailRule(op)
      [] op.name = "deleteRule" -> deleteGuardrailRule(op)
      [] op.name = "createKey"  -> createSessionKey(op)
      [] op.name = "revokeKey"  -> revokeSessionKey(op)
      [] op.name = "revokeAll"  -> revokeAllSessionKeys(op)

\* Mutant of Reported: the path is not revalidated.
ReportedAtOnce(t) ==
    /\ action' = [action EXCEPT ![t].stage = "idle", ![t].wrote = TRUE, ![t].outcome = "success"]
    /\ UNCHANGED <<page, signInVars>>

\* The action returns success, and the page is rendered again in the same
\* request.
Reported(t) ==
    IF ~action[t].watched
    THEN /\ action' = [action EXCEPT ![t].stage = "idle", ![t].wrote = TRUE]
         /\ UNCHANGED <<page, signInVars>>
    ELSE \/ SentAway(t, TRUE)
         \/ /\ LoggedIn(action[t].user)
            /\ action' = [action EXCEPT ![t].stage = "refresh", ![t].wrote = TRUE]
            /\ page' = [page EXCEPT ![t] = Opened(page[t].agent)]
            /\ UNCHANGED signInVars

\* The call of the proxy.  When it fails, or its answer is lost, the action
\* returns an error and the page stays as it is, whatever was written.
CallProxy(t) ==
    /\ action[t].stage = "call"
    /\ \/ Write(action[t].op) /\ Reported(t)
       \/ /\ Write(action[t].op)
          /\ action' = [action EXCEPT ![t].stage = "idle", ![t].wrote = TRUE, ![t].outcome = "error"]
          /\ UNCHANGED <<page, signInVars>>
       \/ Finish(t, "error") /\ UNCHANGED <<vars, page, signInVars>>
    /\ UNCHANGED site

\* The tab goes elsewhere.  The server finishes what it has begun.
Unwatched(t) ==
    IF action[t].stage \in {"owner", "call"}
    THEN [action EXCEPT ![t].watched = FALSE] ELSE [action EXCEPT ![t] = NoAction]

-----------------------------------------------------------------------------
(* Properties. *)

\* Nothing is written in the name of an agent but by a user who has proved,
\* by a signature in this browser, to hold the wallet that owns it: whichever
\* tabs signed in or out meanwhile, whichever account the wallet was at, and
\* although the page of every agent can be opened.
WritesBySigner == \A t \in Tabs : action[t].wrote => Owner[action[t].op.agent] \in signers

\* What the user sees can be relied on.  A key that is shown as revoked is,
\* as is an agent that is shown as inactive; and a page on which an action
\* was reported done shows it done.
PageTellsTheTruth ==
    \A t \in Tabs : page[t].state = "shown" =>
        LET p == page[t]
            op == action[t].op
        IN  /\ \A k \in p.revoked : keys[k].revoked
            /\ ~p.active => agents[p.agent] # "active"
            /\ action[t].outcome = "success" =>
                  /\ op.name = "revokeKey" => op.arg \in p.revoked
                  /\ op.name = "revokeAll" => ~p.active
                  /\ op.name = "createKey" => p.keys # {}
=============================================================================
