-------------------------------- MODULE Website --------------------------------
(***************************************************************************)
(* The dashboard as one browser uses it: the pages of SignIn, AgentPage,   *)
(* SpendMonitor and DemoChat in its tabs, over the proxy.  A page belongs   *)
(* to its tab: when the tab goes elsewhere, what the page kept is gone, and *)
(* what the server was doing for it goes on.                               *)
(***************************************************************************)
EXTENDS SpendMonitor, DemoChat

\* Bound: what the user may do in one behaviour.  places: the pages that each
\* tab asks for; agents: those whose pages are asked for; who: signed in from an
\* earlier visit; nonces: how many are issued; site: where; pays: the agents
\* pay meanwhile; managed: the agents that are managed from elsewhere as well.
CONSTANT Journeys

Journey == [places: [Tabs -> SUBSET Places], agents: SUBSET Agents,
            who: Wallets \cup {Nobody}, nonces: 0..MaxNonces, site: Sites,
            pays: BOOLEAN, managed: SUBSET Agents]

ASSUME WebsiteAssumption == Journeys \subseteq Journey /\ ChatTabs = Tabs

VARIABLE journey

websiteVars == <<vars, signInVars, pageVars, overviewVars, chat, journey>>

SiteType ==
    /\ journey \in Journeys
    /\ SignInType /\ PageType /\ OverviewType /\ ChatType

WebsiteInit ==
    /\ journey \in Journeys /\ site = journey.site
    /\ Init /\ SignInInit(journey.who) /\ PageInit /\ OverviewInit /\ ChatInit

-----------------------------------------------------------------------------

\* The overview that the tab has come to, or none.
OpensOverview(t) ==
    /\ overview' = [overview EXCEPT ![t] =
          IF place'[t] = "overview" THEN [state |-> "loading", user |-> session'] ELSE NoOverview]
    /\ cards' = [cards EXCEPT ![t] = NoCards]

\* The tab renders the page it has come to.
Arrives(t) ==
    /\ IF place'[t] = "agent"
       THEN \E a \in journey.agents : page' = [page EXCEPT ![t] = Opened(a)]
       ELSE page' = [page EXCEPT ![t] = NoPage]
    /\ OpensOverview(t)
    /\ chat' = [chat EXCEPT ![t] = NoChat]
    /\ action' = Unwatched(t)
    /\ UNCHANGED <<vars, site, journey>>

\* Bound: the user waits until a page is there before leaving it.
Waits(t) == page[t].state = "loading" \/ overview[t].state = "loading"

Navigate(t) ==
    /\ ~Waits(t)
    /\ \E p \in journey.places[t] : Visit(t, p)
    /\ Arrives(t)

Leave(t) == ~Waits(t) /\ SignOut(t) /\ Arrives(t)

Land(t) == SetSession(t) /\ Arrives(t)

\* The user, in one tab.
Use(t) ==
    \/ Navigate(t) \/ Leave(t)
    \/ "login" \in journey.places[t] /\ Click(t)
          /\ UNCHANGED <<vars, pageVars, overviewVars, chat, journey>>
    \/ Press(t) /\ UNCHANGED <<overviewVars, chat, journey>>
    \/ place[t] = "demo" /\ (HandleSend(t) \/ HandleRetry(t))
          /\ UNCHANGED <<vars, signInVars, pageVars, overviewVars, journey>>

SigningIn(t) ==
    \/ /\ Hook(t) /\ issued' <= journey.nonces
       /\ UNCHANGED <<vars, pageVars, overviewVars, chat, journey>>
    \/ Land(t)

Rendering(t) ==
    \/ Load(t) /\ UNCHANGED <<overviewVars, chat, journey>>
    \/ LoadOverview(t) /\ UNCHANGED <<chat, journey>>

\* An action may send its tab away.
Acting(t) ==
    /\ CheckOwner(t) \/ CallProxy(t)
    /\ IF place' = place THEN UNCHANGED overviewVars ELSE OpensOverview(t)
    /\ UNCHANGED <<chat, journey>>

Chatting(t) ==
    Respond(t) /\ UNCHANGED <<vars, signInVars, pageVars, overviewVars, journey>>

Monitoring(t) == Monitor(t) /\ UNCHANGED <<chat, journey>>

\* The wallet, the cookie, and what reaches the proxy from elsewhere.
Elsewhere ==
    /\ \/ /\ \E t \in Tabs : "login" \in journey.places[t]
          /\ ChangeAccount \/ NonceExpires
          /\ UNCHANGED <<vars, cards>>
       \/ /\ journey.pays
          /\ Tick \/ \E r \in Requests : Receive(r) \/ Step(r) \/ Abort(r)
          /\ Publish /\ UNCHANGED signInVars
       \/ /\ \E a \in journey.managed : ManageAgent(a)
          /\ UNCHANGED <<signInVars, cards>>
    /\ UNCHANGED <<pageVars, overview, chat, journey>>

WebsiteNext ==
    \/ \E t \in Tabs :
          Use(t) \/ SigningIn(t) \/ Rendering(t) \/ Acting(t) \/ Chatting(t) \/ Monitoring(t)
    \/ Elsewhere

WebsiteSpec == WebsiteInit /\ [][WebsiteNext]_websiteVars

\* The servers end what they have begun: each of their awaits is a fetch that
\* times out.  The user, the wallet and the proxy's callers owe nothing.
Answering(t) ==
    (FetchNonce(t) \/ Verify(t) \/ FindUser(t) \/ CreateUser(t) \/ NewUser(t) \/ VerifyFails(t))
       /\ UNCHANGED <<vars, pageVars, overviewVars, chat, journey>>

WebsiteFair ==
    /\ WebsiteSpec
    /\ \A t \in Tabs :
          /\ WF_websiteVars(Answering(t) \/ Land(t) \/ Chatting(t))
          /\ WF_websiteVars(Rendering(t))
          /\ WF_websiteVars(Acting(t))

-----------------------------------------------------------------------------
(* Properties. *)

\* A tab shows the user that something is going on: outside the dashboard (a
\* sign-in, a conversation), or inside (a page, an action).
BusyOutside(t) ==
    \/ form[t].state \in Waiting \ {"switch", "sign"}
    \/ chat[t].status \in {"submitted", "streaming"}
BusyInside(t) == Waits(t) \/ action[t].stage # "idle"

\* No tab is busy for ever: neither with a page that fails or crashes, nor
\* with a sign-in that another tab spoils or signs out, nor with an action
\* whose page has gone, nor with a conversation.
PagesSettle ==
    \A t \in Tabs :
        /\ BusyOutside(t) ~> ~BusyOutside(t)
        /\ BusyInside(t) ~> ~BusyInside(t)
=============================================================================
