----------------------------- MODULE MCAgentTools -----------------------------
(***************************************************************************)
(* Small instances of AgentTools: agents that use up to seven tools, over  *)
(* a proxy with one agent that has a day rule and a roomy session key.     *)
(***************************************************************************)
EXTENDS AgentTools, TLC

CONSTANTS a1, a2, a3, k1, k2, k3, n1, n2

MCAddress == {"a", "b"}
MCLower == [x \in MCAddress |-> x]

Pay(agentId, key, nonce) ==
    [agent |-> agentId, key |-> key, value |-> 1, nonce |-> nonce, form |-> "Sound",
     validAfter |-> 0, validBefore |-> 10, timeout |-> 1, payTo |-> "b",
     contract |-> Absent, leverage |-> Absent, slippage |-> Absent]

Paid(id, p) == [p EXCEPT !.agent = id]
SomePayloads ==
    {Pay(a1, k1, n1), Pay(a1, Absent, n1), Pay(Absent, Absent, n1)}
      \cup {Paid(id, DemoPayment(v, n)) : id \in {a2, a3}, v \in {1, 4}, n \in {n1, n2}}

DayRule(limit) == [kind |-> "MaxSpendPerDay", arg |-> limit]
TxRule(limit) == [kind |-> "MaxSpendPerTx", arg |-> limit]
SomeRules == {DayRule(3), TxRule(2), DayRule(10)}
SomeSpecs == {[max |-> 3, expires |-> 9, allowed |-> {}]}

OneActive == [a \in Agents |-> IF a = a1 THEN "active" ELSE "none"]
OneDayRule == [i \in RuleIds |->
    IF i = 1 THEN [agent |-> a1, type |-> DayRule(3), active |-> TRUE] ELSE Absent]
OneKey == [k \in Keys |->
    IF k = k1 THEN [agent |-> a1, max |-> 3, spent |-> 0, expires |-> 9,
                    allowed |-> {}, revoked |-> FALSE] ELSE Absent]

\* What somebody else does, and what the calls of the client do.
SomeOperations == {"LoseNonces", "CreateAgent", "CreateRule", "CreateSessionKey",
                   "RevokeSessionKey", "RevokeAll"}

Setup(host, id, retries, tools) ==
    [host |-> host, url |-> TRUE, agent |-> id, apiKey |-> TRUE, retries |-> retries,
     tools |-> tools]

Spec1 == CHOOSE spec \in SomeSpecs : TRUE

\* One payment with two retries.
OnePayment == Setup("openclaw", a1, 2, <<Step1("proxy_payment", Absent, Pay(Absent, k1, n1))>>)

\* A key is created while everything is revoked; a payment is tried after
\* everything was revoked (these two without retries).
Emergency ==
    Setup("openclaw", a1, 1, <<Step1("create_session_key", Absent, Spec1),
                               Step1("revoke_all", a1, Absent)>>)
Afterwards ==
    Setup("openclaw", a1, 0, <<Step1("revoke_all", a1, Absent),
                               Step1("proxy_payment", Absent, Pay(Absent, Absent, n1))>>)

\* All the other tools of OpenClaw, without and with an agent.
Looking ==
    Setup("openclaw", Absent, 0,
          <<Step1("health_check", Absent, Absent), Step1("get_agent", Absent, Absent),
            Step1("get_agent", a1, Absent), Step1("create_rule", a1, Unknown),
            Step1("list_rules", a1, Absent)>>)
LookingOn ==
    Setup("openclaw", Absent, 0,
          <<Step1("list_session_keys", a1, Absent),
            Step1("proxy_solana_payment", Absent, "devnet")>>)
Writing ==
    {Setup("openclaw", Absent, 1, <<Step1("create_agent", Absent, Absent)>>),
     Setup("openclaw", Absent, 1, <<Step1("create_rule", a1, TxRule(2))>>)}

Revoking == Setup("openclaw", a1, 1, <<Step1("revoke_session_key", Absent, k1)>>)
Locked == [Revoking EXCEPT !.apiKey = FALSE]

Eliza ==
    Setup("elizaos", a1, 0,
          <<Step1("init", Absent, Absent), Step1("status", Absent, Absent),
            Step1("guarded_payment", Absent, Absent), Step1("guarded_payment_solana", Absent, "vault"),
            Step1("guarded_payment", Absent, Pay(Absent, Absent, n1))>>)

Unconfigured == [Eliza EXCEPT !.url = FALSE]

Cod3xPaying ==
    Setup("cod3x", a1, 0, <<Step1("guarded_execute", Absent, Pay(Absent, Absent, n1))>>)
Cod3xRevoking ==
    Setup("cod3x", a1, 0, <<Step1("guarded_solana_execute", Absent, "solana-devnet"),
                            Step1("revoke_all_keys", a1, Absent)>>)

\* The attempts of the first payment, and the first ones of the second.
SomeRequests == {<<1, 0>>, <<1, 1>>, <<1, 2>>, <<2, 0>>}

SomeConfigs ==
    Writing \cup
    {OnePayment, Emergency, Afterwards, Looking, LookingOn, Revoking, Locked,
     Eliza, Unconfigured, Cod3xPaying, Cod3xRevoking,
     Setup("demo", Absent, 0, Cod3xDemo(n1, n2)), Setup("demo", Absent, 0, ElizaDemo(n1, n2))}
JustOnePayment == {[OnePayment EXCEPT !.retries = 1]}
=============================================================================
