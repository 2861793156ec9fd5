------------------------------ MODULE AgentTools ------------------------------
(***************************************************************************)
(* The framework plugins over the SDK (examples/openclaw, elizaos, cod3x): *)
(* the tools an AI agent calls, what each asks of the client, and what it  *)
(* tells the agent; and the scripts of the two demos.  An agent uses one   *)
(* tool after the other, as its configuration lists them.                  *)
(***************************************************************************)
EXTENDS RetryClient

CONSTANTS
    Created,  \* stands for the id that create_agent returned
    Unknown   \* a rule type that does not exist

VARIABLE agent  \* the agent: is a tool running, and what the tools returned

toolVars == <<sdkVars, agent>>

\* tools: the uses of tools, in order, each with the agent id and the
\* argument it is given; agent: the configured agent id; url: proxyUrl is set.
\* Only a demo uses the agent it has created, and the adapter's management
\* calls do not type without an agent.  What is paid is a payment, which
\* a message to ElizaOS may lack.
ASSUME ToolAssumption ==
    /\ Created \notin Agents \cup {Absent}
    /\ \A c \in Configs :
          /\ c.host \in {"openclaw", "elizaos", "cod3x", "demo"} /\ c.url \in BOOLEAN
          /\ c.agent \in Agents \cup {Absent}
          /\ Len(c.tools) \in Nat /\ DOMAIN c.tools = 1..Len(c.tools)
          /\ \A n \in DOMAIN c.tools :
                LET use == c.tools[n]
                IN  /\ use.agent \in Agents \cup {Absent, Created}
                    /\ use.tool \in {"create_guardrail", "revoke_all_keys"} => use.agent # Absent
                    /\ use.tool = "revoke_session_key" => use.arg \in Keys
                    /\ use.tool \in {"proxy_payment", "guarded_execute"} => use.arg \in Payload
                    /\ use.tool = "guarded_payment" => use.arg \in Payload \cup {Absent}
                    /\ use.agent = Created =>
                          /\ c.host = "demo"
                          /\ \E m \in 1..(n - 1) : c.tools[m].tool = "create_agent"

\* What a tool returned, and the call it made for it (0 if none).
Returned == [result: {"success", "blocked", "unreachable", "error", "thrown"},
             call: 0..MaxCalls]

ToolType ==
    /\ ClientType
    /\ agent.busy \in BOOLEAN
    /\ agent.results \in Seq(Returned) /\ Len(agent.results) <= Len(config.tools)

ToolInit ==
    /\ SdkInit
    /\ agent = [busy |-> FALSE, results |-> <<>>]

-----------------------------------------------------------------------------
(* How a tool is used. *)

tool == config.tools[Len(agent.results) + 1]

\* The plugin could not be registered or initialised, the demo exited, or
\* there is nothing left to do.
Over ==
    \/ Len(agent.results) = Len(config.tools)
    \/ config.host = "openclaw" /\ ~config.url
    \/ /\ config.host \in {"elizaos", "demo"}
       /\ \E n \in DOMAIN agent.results : agent.results[n].result = "thrown"

Using(host, names) ==
    /\ ~agent.busy /\ ~Over
    /\ config.host = host /\ tool.tool \in names

Ask(method, id, arg) ==
    /\ Start(method, id, arg)
    /\ agent' = [agent EXCEPT !.busy = TRUE]

\* The tool returns without a call.
AtOnce(result) ==
    /\ agent' = [agent EXCEPT !.results = Append(@, [result |-> result, call |-> 0])]
    /\ UNCHANGED sdkVars

\* input.agent_id ?? defaultAgentId
GivenOrConfigured == IF tool.agent # Absent THEN tool.agent ELSE config.agent

AskFor(method, arg) ==
    IF GivenOrConfigured = Absent THEN AtOnce("error")
    ELSE Ask(method, GivenOrConfigured, arg)

-----------------------------------------------------------------------------
(* OpenClaw: one action per file of tools. *)

OpenclawHealth ==
    /\ Using("openclaw", {"health_check"})
    /\ Ask("healthCheck", Absent, Absent)

OpenclawAgents ==
    \/ Using("openclaw", {"create_agent"}) /\ Ask("createAgent", Absent, Absent)
    \/ Using("openclaw", {"get_agent"}) /\ AskFor("getAgent", Absent)

\* parseRuleType throws before anything is asked.
OpenclawRules ==
    \/ /\ Using("openclaw", {"create_rule"})
       /\ IF tool.arg = Unknown /\ GivenOrConfigured # Absent THEN AtOnce("thrown")
          ELSE AskFor("createRule", tool.arg)
    \/ Using("openclaw", {"list_rules"}) /\ AskFor("listRules", Absent)

OpenclawSessionKeys ==
    \/ Using("openclaw", {"create_session_key"}) /\ AskFor("createSessionKey", tool.arg)
    \/ Using("openclaw", {"list_session_keys"}) /\ AskFor("listSessionKeys", Absent)
    \/ Using("openclaw", {"revoke_session_key"}) /\ AskFor("revokeSessionKey", tool.arg)

OpenclawRevokeAll ==
    Using("openclaw", {"revoke_all"}) /\ AskFor("revokeAll", Absent)

\* A payment may go without an agent.
OpenclawPayment ==
    /\ Using("openclaw", {"proxy_payment"})
    /\ Ask("proxyPayment", GivenOrConfigured, tool.arg)

OpenclawSolanaPayment ==
    /\ Using("openclaw", {"proxy_solana_payment"})
    /\ Ask("proxySolanaPayment", Absent, tool.arg)

-----------------------------------------------------------------------------
(* ElizaOS. *)

\* init, and the provider of the proxy's status.
ElizaHealth ==
    /\ Using("elizaos", {"init", "status"})
    /\ IF config.url THEN Ask("healthCheck", Absent, Absent)
       ELSE AtOnce(IF tool.tool = "init" THEN "success" ELSE "error")

\* extractPaymentParams and buildClient: the message may lack the payment,
\* and the settings the proxy's URL.
Unpayable == ~config.url \/ tool.arg = Absent

\* GUARDED_PAYMENT on EVM: the agent id is always the configured one.
GuardedPayment ==
    /\ Using("elizaos", {"guarded_payment"})
    /\ IF Unpayable THEN AtOnce("error") ELSE Ask("proxyPayment", config.agent, tool.arg)

\* GUARDED_PAYMENT on Solana, whose network is always "solana"; the message
\* may lack the owner of the vault.
GuardedSolanaPayment ==
    /\ Using("elizaos", {"guarded_payment_solana"})
    /\ IF Unpayable THEN AtOnce("error") ELSE Ask("proxySolanaPayment", Absent, "solana")

-----------------------------------------------------------------------------
(* Cod3x: the adapter hands its arguments on. *)

\* The agent of a demo is the one its create_agent returned.
CreatedAgent ==
    LET n == CHOOSE m \in CallsOf({"createAgent"}) : TRUE
    IN  served[n][calls[n].attempt].row

Id == IF tool.agent = Created THEN CreatedAgent ELSE tool.agent

\* guardedExecute takes the agent from the request, not from the adapter's
\* configuration.
GuardedExecute ==
    \/ /\ Using("cod3x", {"health_check"}) \/ Using("demo", {"health_check"})
       /\ Ask("healthCheck", Absent, Absent)
    \/ /\ Using("cod3x", {"guarded_execute"}) \/ Using("demo", {"guarded_execute"})
       /\ Ask("proxyPayment", Id, tool.arg)
    \/ /\ Using("cod3x", {"guarded_solana_execute"})
       /\ Ask("proxySolanaPayment", Absent, tool.arg)

Cod3xManagement ==
    \/ /\ Using("cod3x", {"create_agent"}) \/ Using("demo", {"create_agent"})
       /\ Ask("createAgent", Absent, Absent)
    \/ /\ Using("cod3x", {"create_guardrail"}) \/ Using("demo", {"create_guardrail"})
       /\ Ask("createRule", Id, tool.arg)
    \/ Using("demo", {"list_rules"}) /\ Ask("listRules", Id, Absent)
    \/ Using("cod3x", {"revoke_all_keys"}) /\ Ask("revokeAll", Id, Absent)

-----------------------------------------------------------------------------
(* The demo scripts.  Amounts are in half dollars.  What they encode as a   *)
(* payment is not what the proxy parses, so that it refuses both payments.  *)

Step1(name, id, arg) == [tool |-> name, agent |-> id, arg |-> arg]

DemoPayment(value, nonce) ==
    [agent |-> Absent, key |-> Absent, value |-> value, nonce |-> nonce,
     form |-> "BadRequest", validAfter |-> 0, validBefore |-> 10, timeout |-> 1,
     payTo |-> "b", contract |-> Absent, leverage |-> Absent, slippage |-> Absent]

Cod3xDemo(n, m) ==
    <<Step1("health_check", Absent, Absent), Step1("create_agent", Absent, Absent),
      Step1("create_guardrail", Created, [kind |-> "MaxSpendPerTx", arg |-> 2]),
      Step1("guarded_execute", Created, DemoPayment(1, n)),
      Step1("guarded_execute", Created, DemoPayment(4, m))>>

ElizaDemo(n, m) ==
    <<Step1("health_check", Absent, Absent), Step1("create_agent", Absent, Absent),
      Step1("create_guardrail", Created, [kind |-> "MaxSpendPerTx", arg |-> 2]),
      Step1("create_guardrail", Created, [kind |-> "MaxSpendPerDay", arg |-> 10]),
      Step1("list_rules", Created, Absent),
      Step1("guarded_execute", Created, DemoPayment(1, n)),
      Step1("guarded_execute", Created, DemoPayment(4, m))>>

-----------------------------------------------------------------------------
(* The tools return. *)

\* The tools, and the steps of the demos, that catch what the client throws.
\* The Cod3x adapter hands its errors on to its caller: its result is the
\* class of the error that was thrown.
Catching == {"health_check", "status", "proxy_payment", "proxy_solana_payment",
             "guarded_payment", "guarded_payment_solana", "guarded_execute"}

ResultOf(result) ==
    IF \/ result = "success" \/ config.host = "cod3x"
       \/ tool.tool \in Catching /\ ~(config.host = "demo" /\ tool.tool = "health_check")
    THEN result ELSE "thrown"

Return ==
    /\ agent.busy /\ Idle
    /\ agent' = [busy |-> FALSE,
                 results |-> Append(agent.results, [result |-> ResultOf(Classified(call.outcome)),
                                                    call |-> Current])]
    /\ UNCHANGED sdkVars

Use ==
    \/ OpenclawHealth \/ OpenclawAgents \/ OpenclawRules \/ OpenclawSessionKeys
    \/ OpenclawRevokeAll \/ OpenclawPayment \/ OpenclawSolanaPayment
    \/ ElizaHealth \/ GuardedPayment \/ GuardedSolanaPayment \/ GuardedExecute \/ Cod3xManagement

Finished == Over /\ UNCHANGED toolVars

ToolNext ==
    \/ Use \/ Return
    \/ (Client \/ Proxy) /\ UNCHANGED agent
    \/ Finished

ToolSpec == ToolInit /\ [][ToolNext]_toolVars

\* An agent goes on to its next tool.
FairToolSpec ==
    /\ ToolSpec
    /\ WF_toolVars(Use \/ Return)
    /\ WF_toolVars((Answer \/ NetworkError) /\ UNCHANGED agent)
    /\ WF_toolVars(Wake /\ UNCHANGED agent)
    /\ \A r \in Requests : WF_toolVars(Step(r) /\ UNCHANGED <<sdkOnly, agent>>)

-----------------------------------------------------------------------------
(* Properties. *)

Told(result) == {n \in DOMAIN agent.results :
                    agent.results[n].result = result /\ agent.results[n].call # 0}
CallOf(n) == calls[agent.results[n].call]

\* What an agent is told is so.  A tool that reports success has delivered
\* its payment, or written its row, or deactivated its agent; one that
\* reports a block, none of its attempts being lost, has delivered nothing.
\* And the POSTs that create, which are retried blindly, leave one row at most
\* if none of their attempts was lost.
ToldTheTruth ==
    /\ \A n \in Told("success") :
          LET made == agent.results[n].call
          IN  /\ CallOf(n).method = "proxyPayment" => delivered \cap AttemptsOf(made) # {}
              /\ CallOf(n).method \in Creations => RowsOf(made) # {}
              /\ CallOf(n).method = "revokeAll" => agents[CallOf(n).agent] = "inactive"
    /\ \A n \in Told("blocked") :
          ~CallOf(n).lost => delivered \cap AttemptsOf(agent.results[n].call) = {}
    /\ \A n \in CallsOf(Creations) : ~calls[n].lost => Cardinality(RowsOf(n)) <= 1

\* After an agent was told that everything is revoked, a key of it that is
\* not revoked comes from a create_session_key of which an attempt was lost
\* (and arrived late), or that was called afterwards.
LateKeysOnlyAfterLoss ==
    \A n \in Told("success") : CallOf(n).method = "revokeAll" =>
        \A k \in Keys : keys[k] # Absent /\ keys[k].agent = CallOf(n).agent /\ ~keys[k].revoked =>
            \E m \in CallsOf({"createSessionKey"}) :
                k \in RowsOf(m) /\ (calls[m].lost \/ m > agent.results[n].call)

\* Every tool returns, and the agent comes to the end of what it does.
AgentFinishes == <>Over
=============================================================================
