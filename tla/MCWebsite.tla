------------------------------- MODULE MCWebsite -------------------------------
(***************************************************************************)
(* One browser with two tabs and two wallets, each of which owns an agent. *)
(***************************************************************************)
EXTENDS Website, MCPaymentProxy

CONSTANTS a2, w1, w2, t1, t2

MCOwner == [a \in Agents |-> IF a = a1 THEN w1 ELSE w2]

\* As it should be; and as it is shipped, with migration 005.
Working == [gateway |-> TRUE, apiKey |-> TRUE, rowSecurity |-> FALSE]
Shipped == [gateway |-> FALSE, apiKey |-> FALSE, rowSecurity |-> TRUE]
MCSites == {Working, Shipped}

\* The pages t1 asks for, the pages t2 asks for, and who is signed in.
Trip(first, second, who) ==
    [places |-> (t1 :> first @@ t2 :> second), agents |-> {a1}, who |-> who,
     nonces |-> 1, site |-> Working, pays |-> FALSE, managed |-> {}]

MCJourneys ==
    {[Trip({"login"}, {"login"}, Nobody)           \* two sign-ins at once
         EXCEPT !.nonces = 2, !.site = Shipped],
     Trip({"login", "agent", "home"}, {}, Nobody), \* one, and then an agent
     [Trip({"agent"}, {"logs"}, w1)                \* an agent, while others manage it
         EXCEPT !.managed = {a1}],
     [Trip({"agent"}, {}, w2)                      \* an agent that has a rule
         EXCEPT !.agents = {a2}, !.managed = {a2}],
     [Trip({"agent", "overview"}, {}, w2)          \* the site as it is shipped
         EXCEPT !.agents = {a2}, !.site = Shipped],
     [Trip({"overview"}, {}, w2)                   \* the monitors
         EXCEPT !.pays = TRUE],
     Trip({"demo", "home"}, {}, Nobody)}           \* the chat

\* Whichever payment of a2 comes first, the larger one crosses 80% of its
\* limit, and the smaller one does not.
TwoPay == {Pay(a2, Absent, 1, n2), Pay(a2, Absent, 4, n3)}

\* The rule of a2, whose page crashes with it.
RuleOfTwo == [i \in RuleIds |-> [agent |-> a2, type |-> DayRule(5), active |-> TRUE]]

OneKeySpec == {[max |-> 1, expires |-> 2, allowed |-> {}]}

OneRuleType == {DayRule(5)}

SiteOperations == {"CreateSessionKey", "RevokeSessionKey", "RevokeAll",
                   "UpdateRule", "DeactivateRule"}
=============================================================================
