----------------------------- MODULE SpendMonitor -----------------------------
(***************************************************************************)
(* The overview of the dashboard: a card for each agent of the user, with  *)
(* a monitor of what it spends (components/spend/SpendMonitor.tsx).  A     *)
(* monitor starts from a snapshot that the server rendered, joins the      *)
(* stream of new rows of spend_ledger (hooks/useSpendRealtime.ts), adds    *)
(* their amounts, and raises an alert when the sum crosses 80% of the      *)
(* daily limit.                                                            *)
(***************************************************************************)
EXTENDS AgentPage

VARIABLES
    overview,  \* the overview of a tab, and the wallet of its request
    cards      \* the monitors on it, by agent

overviewVars == <<overview, cards>>

\* stage: rendered by the server, mounted (its effects have run), or joined
\* to the channel of its agent; first: the sum of the snapshot; prev: the sum
\* of the last effect; feed: rows on their way to the browser.
NoMonitor == [stage |-> "none", first |-> 0, spent |-> 0, cap |-> Absent,
              prev |-> 0, alerts |-> 0, feed |-> {}]

NoOverview == [state |-> "none", user |-> Nobody]

OverviewType ==
    /\ overview \in [Tabs -> [state: {"none", "loading", "failed", "shown"},
                             user: Wallets \cup {Nobody}]]
    /\ cards \in [Tabs -> [Agents ->
          [stage: {"none", "noData", "rendered", "mounted", "joined"}, first: Nat, spent: Nat,
           cap: Nat \cup {Absent}, prev: Nat, alerts: Nat, feed: SUBSET LedgerRow]]]

NoCards == [a \in Agents |-> NoMonitor]

OverviewInit ==
    /\ overview = [t \in Tabs |-> NoOverview]
    /\ cards = [t \in Tabs |-> NoCards]

-----------------------------------------------------------------------------

\* get_agent_spend_summary: the rows of 24 hours, and the limit of one of the
\* active MaxSpendPerDay rules (LIMIT 1 without an order).
Summaries(a) ==
    LET sum == Total({row \in ledger : row.agent = a /\ row.at + Day >= now})
    IN  {[NoMonitor EXCEPT !.stage = "rendered", !.first = sum, !.spent = sum, !.cap = limit] :
            limit \in ExtractDailyLimit(ActiveRules(a))}

\* The agents of a wallet; none at all under the policies of migration 005,
\* which look for the wallet at the wrong place of the token.  Without the
\* summary, which is one call for all agents, no card has a monitor.
OwnAgents(user) ==
    {a \in Agents : agents[a] # "none" /\ Owner[a] = user /\ ~site.rowSecurity}

NoData == [NoMonitor EXCEPT !.stage = "noData"]

\* fetchAgentSpendSummary, whose error is taken for no data.
SpendData(own) ==
    {data \in [own -> UNION {Summaries(a) : a \in own} \cup {NoData}] :
        (\A a \in own : data[a] \in Summaries(a)) \/ (\A a \in own : data[a] = NoData)}

LoadOverview(t) ==
    LET own == OwnAgents(overview[t].user)
    IN  /\ overview[t].state = "loading"
        /\ \/ /\ overview' = [overview EXCEPT ![t].state = "shown"]
              /\ \E data \in SpendData(own) :
                    cards' = [cards EXCEPT ![t] = [a \in Agents |->
                                 IF a \in own THEN data[a] ELSE NoMonitor]]
           \/ overview' = [overview EXCEPT ![t].state = "failed"] /\ UNCHANGED cards
        /\ UNCHANGED <<vars, signInVars, pageVars>>

Monitors(t, a, m) ==
    /\ cards' = [cards EXCEPT ![t][a] = m]
    /\ UNCHANGED <<vars, signInVars, pageVars, overview>>

\* Mutant of Mount: the percentage before the first effect is zero.
MountAlerting(t, a) ==
    /\ cards[t][a].stage = "rendered"
    /\ Monitors(t, a, [cards[t][a] EXCEPT !.stage = "mounted"])

\* The first effects: prevPctRef is set and the channel is asked for.
Mount(t, a) ==
    /\ cards[t][a].stage = "rendered"
    /\ Monitors(t, a, [cards[t][a] EXCEPT !.stage = "mounted", !.prev = cards[t][a].spent])

\* Rows that were committed between the snapshot and now are never counted
\* (assumed of Realtime: what was committed before the join is not sent).
Join(t, a) ==
    /\ cards[t][a].stage = "mounted"
    /\ Monitors(t, a, [cards[t][a] EXCEPT !.stage = "joined"])

\* Mutant of Feeds: neither the filter of the channel nor the test of the
\* hook looks at the agent.
FeedsAny(a, row) == TRUE

Feeds(a, row) == row.agent = a

\* Postgres has committed rows that the joined channels will be sent.
Publish ==
    cards' = [t \in Tabs |-> [a \in Agents |->
                 IF cards[t][a].stage = "joined"
                 THEN [cards[t][a] EXCEPT !.feed = @ \cup {row \in ledger' \ ledger : Feeds(a, row)}]
                 ELSE cards[t][a]]]

\* A row arrives, or is lost on the way.
Deliver(t, a) ==
    \E row \in cards[t][a].feed, arrives \in BOOLEAN :
        Monitors(t, a, [cards[t][a] EXCEPT !.feed = @ \ {row},
                                           !.spent = IF arrives THEN @ + row.amount ELSE @])

\* Is a sum at 80% of the cap?
AtLimit(m, sum) == m.cap # Absent /\ m.cap > 0 /\ 5 * sum >= 4 * m.cap

\* The effect after a render: the alert is for the crossing.
Effect(t, a) ==
    LET m == cards[t][a]
    IN  /\ m.stage \in {"mounted", "joined"} /\ m.prev # m.spent
        /\ Monitors(t, a, [m EXCEPT
              !.prev = m.spent,
              !.alerts = IF ~AtLimit(m, m.prev) /\ AtLimit(m, m.spent) THEN @ + 1 ELSE @])

Monitor(t) == \E a \in Agents : Mount(t, a) \/ Join(t, a) \/ Deliver(t, a) \/ Effect(t, a)

-----------------------------------------------------------------------------
(* Properties. *)

\* A monitor never shows more than its agent has reserved, though it starts
\* from a snapshot and counts a stream; and it raises one alert for one
\* crossing: exactly if the snapshot was below 80% of the limit and what its
\* last effect saw is not.
MonitorSound ==
    \A t \in Tabs, a \in Agents :
        LET m == cards[t][a]
        IN  m.stage \in {"mounted", "joined"} =>
                /\ m.spent <= Total({row \in ledger : row.agent = a})
                /\ m.alerts = IF ~AtLimit(m, m.first) /\ AtLimit(m, m.prev) THEN 1 ELSE 0
=============================================================================
