-------------------------- MODULE AgentTools_proofs --------------------------
(***************************************************************************)
(* Theorems about AgentTools, for every configuration, any number of calls *)
(* and retries: what the SDK and the tools do to the proxy is what anyone  *)
(* may do, so that the theorems of PaymentProxy_proofs hold under them;    *)
(* and what the tools tell the agent is so.                                *)
(***************************************************************************)
EXTENDS AgentTools, PaymentProxy_proofs, FiniteSetTheorems, SequenceTheorems

-----------------------------------------------------------------------------
(* The calls, and what the proxy served. *)

ArgsOf(c) == {c.tools[n].arg : n \in DOMAIN c.tools}
Args == (UNION {ArgsOf(c) : c \in Configs}) \cup {Absent, "solana"}

CallRow == [method: Methods, agent: Agents \cup {Absent}, arg: Args, attempt: Attempts,
            state: {"fetch", "sleep", "done"},
            outcome: Answers \cup {"OK", Absent} \cup Errors, lost: BOOLEAN]

Addressed == {"createRule", "createSessionKey", "revokeSessionKey", "revokeAll"}
Writers == Creations \cup Revocations

\* What writes names an agent, and a key where it needs one; nothing is
\* retried but payments, unless an attempt was lost.
CallOK(c) ==
    /\ c.method \in Addressed => c.agent \in Agents
    /\ c.method = "revokeSessionKey" => c.arg \in Keys
    /\ c.method = "proxyPayment" => c.arg \in Payload
    /\ c.outcome # Absent <=> c.state = "done"
    /\ c.outcome = "Unreachable" => c.lost
    /\ c.method \notin {"proxyPayment", "proxySolanaPayment"} /\ ~c.lost =>
          c.attempt = 0 /\ c.state # "sleep"

CallsInv ==
    /\ config \in Configs
    /\ calls \in Seq(CallRow) /\ Len(calls) <= MaxCalls
    /\ \A n \in 1..Len(calls) : CallOK(calls[n]) /\ (n < Len(calls) => calls[n].state = "done")

ServedRow == [answer: Answers \cup {"OK", Absent},
              row: Agents \cup RuleIds \cup Keys \cup {Absent}]

\* s may be what became of an attempt of c.
ServedOK(c, s) ==
    /\ c.method # "proxyPayment" /\ s.answer # Absent
    /\ c.method # "proxySolanaPayment" => s.answer # "RateLimited"
    /\ c.method \in Writers /\ s.answer \in Success => s.row # Absent
    /\ c.method = "createAgent" /\ s.row # Absent => s.row \in Agents
    /\ c.method = "revokeAll" /\ s.row # Absent => s.row = c.agent

ServedInv ==
    /\ served \in [1..MaxCalls -> [Attempts -> ServedRow]]
    /\ \A n \in 1..MaxCalls, i \in Attempts : served[n][i] # NotServed =>
          n \in 1..Len(calls) /\ i <= calls[n].attempt /\ ServedOK(calls[n], served[n][i])

\* A call that ended with an answer had it from the proxy.
EndedInv ==
    \A n \in 1..Len(calls) :
        /\ calls[n].method # "proxyPayment" /\ calls[n].state = "done"
        /\ calls[n].outcome # "Unreachable"
        => /\ served[n][calls[n].attempt] # NotServed
           /\ calls[n].outcome \in {served[n][calls[n].attempt].answer, "Unreadable"}

-----------------------------------------------------------------------------
(* The agent. *)

AgentInv ==
    /\ agent \in [busy: BOOLEAN, results: Seq(Returned)]
    /\ Len(agent.results) <= Len(config.tools)
    /\ agent.busy => calls # <<>> /\ Len(agent.results) < Len(config.tools)
    /\ ~agent.busy => \A n \in 1..Len(calls) : calls[n].state = "done"
    /\ \A m \in 1..Len(agent.results) :
          LET said == agent.results[m]
          IN  said.call # 0 =>
                /\ said.call \in 1..Len(calls) /\ calls[said.call].state = "done"
                /\ said.result \in {Classified(calls[said.call].outcome), "thrown"}

\* Is the m-th tool one that creates an agent?
Creates(m) == config.tools[m].tool = "create_agent"

\* A demo that goes on has created the agent that it uses.
DemoInv ==
    config.host = "demo" /\ (\A m \in 1..Len(agent.results) : agent.results[m].result # "thrown") =>
        /\ \A n \in 1..Len(calls) :
              calls[n].method = "createAgent" /\ (n < Len(calls) \/ ~agent.busy)
                 => calls[n].outcome \in Success
        /\ \A m \in 1..Len(config.tools) :
              /\ Creates(m)
              /\ m <= Len(agent.results) \/ (agent.busy /\ m = Len(agent.results) + 1)
              => \E n \in 1..Len(calls) : calls[n].method = "createAgent"
        /\ agent.busy /\ calls[Len(calls)].method = "createAgent"
              => Creates(Len(agent.results) + 1)

RouteInv == CallsInv /\ ServedInv /\ EndedInv /\ AgentInv /\ DemoInv

-----------------------------------------------------------------------------

LEMMA ConfigFacts ==
    ASSUME config \in Configs
    PROVE  /\ config.host \in {"openclaw", "elizaos", "cod3x", "demo"}
           /\ config.agent \in Agents \cup {Absent}
           /\ config.retries \in Attempts
           /\ Len(config.tools) \in Nat /\ DOMAIN config.tools = 1..Len(config.tools)
           /\ \A n \in 1..Len(config.tools) :
                 LET use == config.tools[n]
                 IN  /\ use.arg \in Args
                     /\ use.agent \in Agents \cup {Absent, Created}
                     /\ use.tool \in {"create_guardrail", "revoke_all_keys"} => use.agent # Absent
                     /\ use.tool = "revoke_session_key" => use.arg \in Keys
                     /\ use.tool \in {"proxy_payment", "guarded_execute"} => use.arg \in Payload
                     /\ use.tool = "guarded_payment" => use.arg \in Payload \cup {Absent}
                     /\ use.agent = Created =>
                           /\ config.host = "demo"
                           /\ \E m \in 1..(n - 1) : Creates(m)
<1>1. /\ config.host \in {"openclaw", "elizaos", "cod3x", "demo"}
      /\ config.agent \in Agents \cup {Absent} /\ config.retries \in Attempts
      /\ Len(config.tools) \in Nat /\ DOMAIN config.tools = 1..Len(config.tools)
  BY ToolAssumption, RetryAssumption
<1>2. ASSUME NEW n \in 1..Len(config.tools) PROVE config.tools[n].arg \in Args
  <2>1. config.tools[n].arg \in ArgsOf(config)
    BY <1>1 DEF ArgsOf
  <2>2. QED
    BY <2>1 DEF Args
<1>3. QED
  BY <1>1, <1>2, ToolAssumption DEF Creates

LEMMA CallRows ==
    ASSUME CallsInv
    PROVE  /\ Len(calls) \in 0..MaxCalls /\ DOMAIN calls = 1..Len(calls)
           /\ \A n \in 1..Len(calls) :
                /\ n \in 1..MaxCalls /\ calls[n] \in CallRow /\ CallOK(calls[n])
                /\ calls[n].attempt \in Attempts
<1>1. Len(calls) \in Nat /\ Len(calls) <= MaxCalls /\ MaxCalls \in Nat
  BY RetryAssumption DEF CallsInv
<1>2. ASSUME NEW n \in 1..Len(calls) PROVE calls[n] \in CallRow
  BY DEF CallsInv
<1>3. \A c \in CallRow : c.attempt \in Attempts
  BY DEF CallRow
<1>4. DOMAIN calls = 1..Len(calls)
  BY DEF CallsInv
<1>5. QED
  BY <1>1, <1>2, <1>3, <1>4 DEF CallsInv

LEMMA ToolInitInv == ToolInit => RouteInv
<1> SUFFICES ASSUME ToolInit PROVE RouteInv
  OBVIOUS
<1>1. /\ config \in Configs /\ calls = <<>>
      /\ served = [n \in 1..MaxCalls |-> [i \in Attempts |-> NotServed]]
      /\ agent = [busy |-> FALSE, results |-> <<>>]
  BY DEF ToolInit, SdkInit
<1>2. CallsInv
  BY <1>1, RetryAssumption DEF CallsInv
<1>3. ServedInv /\ EndedInv
  BY <1>1 DEF ServedInv, EndedInv, NotServed, ServedRow
<1>4. AgentInv /\ DemoInv
  BY <1>1, ConfigFacts DEF AgentInv, DemoInv
<1>5. QED
  BY <1>2, <1>3, <1>4 DEF RouteInv

-----------------------------------------------------------------------------
(* The agent in a demo that goes on. *)

LEMMA DemoAgent ==
    ASSUME RouteInv, ~agent.busy, ~Over, tool.agent = Created
    PROVE  CreatedAgent \in Agents
<1> USE DEF RouteInv
<1> DEFINE l == Len(agent.results) + 1
<1>1. l \in 1..Len(config.tools)
  BY ConfigFacts DEF Over, AgentInv, CallsInv
<1>2. /\ config.host = "demo" /\ \E m \in 1..(l - 1) : Creates(m)
      /\ \A m \in 1..Len(agent.results) : agent.results[m].result # "thrown"
  BY <1>1, ConfigFacts DEF Over, tool, CallsInv, AgentInv
<1>3. \E n \in 1..Len(calls) : calls[n].method = "createAgent"
  BY <1>1, <1>2 DEF DemoInv, AgentInv
<1>4. CallsOf({"createAgent"}) # {} /\ DOMAIN calls = 1..Len(calls)
  BY <1>3 DEF CallsOf, CallsInv
<1>5. PICK n \in 1..Len(calls) :
        /\ calls[n].method = "createAgent"
        /\ CreatedAgent = served[n][calls[n].attempt].row
  BY <1>4 DEF CreatedAgent, CallsOf
<1>6. calls[n].outcome \in Success /\ calls[n].state = "done"
  BY <1>2, <1>5 DEF DemoInv, AgentInv
<1>7. n \in 1..MaxCalls /\ calls[n].attempt \in Attempts
  BY CallRows
<1>8. /\ served[n][calls[n].attempt] # NotServed
      /\ served[n][calls[n].attempt].answer = calls[n].outcome
  BY <1>5, <1>6 DEF EndedInv, Success
<1>9. QED
  BY <1>5, <1>6, <1>7, <1>8 DEF ServedInv, ServedOK, Writers, Creations

-----------------------------------------------------------------------------
(* A call begins. *)

LEMMA CallAdded ==
    ASSUME CallsInv, NEW c \in CallRow, calls' = Append(calls, c), Len(calls) < MaxCalls
    PROVE  /\ calls' \in Seq(CallRow) /\ Len(calls') = Len(calls) + 1
           /\ Len(calls') \in 1..MaxCalls
           /\ calls'[Len(calls) + 1] = c
           /\ \A n \in 1..Len(calls) : n \in 1..Len(calls') /\ calls'[n] = calls[n]
           /\ \A n \in 1..Len(calls') : n \in 1..Len(calls) \/ n = Len(calls) + 1
  BY CallRows, RetryAssumption DEF CallsInv

LEMMA AskRoute ==
    ASSUME RouteInv, NEW method \in Methods, NEW id \in Agents \cup {Absent}, NEW arg \in Args,
           ~agent.busy, ~Over, Ask(method, id, arg),
           method \in Addressed => id \in Agents,
           method = "revokeSessionKey" => arg \in Keys,
           method = "proxyPayment" => arg \in Payload,
           config.host = "demo" => (method = "createAgent" <=> tool.tool = "create_agent")
    PROVE  RouteInv'
<1> USE DEF RouteInv
<1> DEFINE c == [method |-> method, agent |-> id, arg |-> arg, attempt |-> 0,
                 state |-> "fetch", outcome |-> Absent, lost |-> FALSE]
<1>1. /\ calls' = Append(calls, c) /\ UNCHANGED <<config, served>>
      /\ agent' = [agent EXCEPT !.busy = TRUE] /\ Len(calls) < MaxCalls
  BY DEF Ask, Start, Current
<1>2. c \in CallRow /\ CallOK(c)
  <2>1. 0 \in Attempts
    BY RetryAssumption DEF Attempts
  <2>2. c \in CallRow
    BY <2>1 DEF CallRow
  <2>3. CallOK(c)
    BY RetryAssumption DEF CallOK
  <2>4. QED
    BY <2>2, <2>3
<1>3. /\ calls' \in Seq(CallRow) /\ Len(calls') = Len(calls) + 1 /\ Len(calls') \in 1..MaxCalls
      /\ calls'[Len(calls) + 1] = c
      /\ \A n \in 1..Len(calls) : n \in 1..Len(calls') /\ calls'[n] = calls[n]
      /\ \A n \in 1..Len(calls') : n \in 1..Len(calls) \/ n = Len(calls) + 1
  BY <1>1, <1>2, CallAdded
<1>4. \A n \in 1..Len(calls) : calls[n].state = "done"
  BY DEF AgentInv
<1>5. /\ Len(calls) \in Nat /\ Len(agent.results) \in Nat /\ Len(agent.results) < Len(config.tools)
      /\ Len(config.tools) \in Nat /\ agent.results \in Seq(Returned)
      /\ agent'.busy /\ agent'.results = agent.results
      /\ agent' \in [busy: BOOLEAN, results: Seq(Returned)]
  <2>1. Len(calls) \in Nat /\ Len(config.tools) \in Nat
    BY CallRows, ConfigFacts DEF CallsInv
  <2>2. agent \in [busy: BOOLEAN, results: Seq(Returned)] /\ Len(agent.results) <= Len(config.tools)
    BY DEF AgentInv
  <2>3. Len(agent.results) # Len(config.tools)
    BY DEF Over
  <2>4. agent.results \in Seq(Returned) /\ Len(agent.results) \in Nat
    BY <2>2
  <2>5. agent'.busy /\ agent'.results = agent.results
    BY <1>1, <2>2
  <2>6. agent' \in [busy: BOOLEAN, results: Seq(Returned)]
    BY <1>1, <2>2
  <2>7. QED
    BY <2>1, <2>2, <2>3, <2>4, <2>5, <2>6
<1> HIDE DEF c
<1>6. CallsInv'
  BY <1>1, <1>2, <1>3, <1>4, <1>5, RetryAssumption DEF CallsInv
<1>7. ServedInv' /\ EndedInv'
  <2>1. ServedInv'
    BY <1>1, <1>3 DEF ServedInv
  <2>2. c.state # "done"
    BY DEF c
  <2>3. EndedInv'
    BY <1>1, <1>3, <2>2 DEF EndedInv
  <2>4. QED
    BY <2>1, <2>3
<1>8. AgentInv'
  <2>1. \A m \in 1..Len(agent.results) :
            agent.results[m].call # 0 =>
                /\ agent.results[m].call \in 1..Len(calls)
                /\ calls[agent.results[m].call].state = "done"
                /\ agent.results[m].result \in
                      {Classified(calls[agent.results[m].call].outcome), "thrown"}
    BY DEF AgentInv
  <2>2. Len(agent'.results) <= Len(config'.tools) /\ Len(agent'.results) < Len(config'.tools)
    BY <1>1, <1>5
  <2>3. calls' # <<>>
    <3>1. Len(calls') # 0
      BY <1>3, <1>5
    <3>2. QED
      BY <3>1
  <2> HIDE DEF RouteInv
  <2>4. \A m \in 1..Len(agent'.results) :
            agent'.results[m].call # 0 =>
                /\ agent'.results[m].call \in 1..Len(calls')
                /\ calls'[agent'.results[m].call].state = "done"
                /\ agent'.results[m].result \in
                      {Classified(calls'[agent'.results[m].call].outcome), "thrown"}
    BY <1>3, <1>5, <2>1
  <2>5. QED
    BY <1>5, <2>2, <2>3, <2>4 DEF AgentInv, Classified
<1>9. DemoInv'
  <2>1. SUFFICES ASSUME config.host = "demo",
                        \A m \in 1..Len(agent.results) : agent.results[m].result # "thrown"
                 PROVE  DemoInv'
    BY <1>1, <1>5 DEF DemoInv
  <2>2. /\ \A n \in 1..Len(calls) : calls[n].method = "createAgent" => calls[n].outcome \in Success
        /\ \A m \in 1..Len(config.tools) : Creates(m) /\ m <= Len(agent.results) =>
              \E n \in 1..Len(calls) : calls[n].method = "createAgent"
    BY <2>1 DEF DemoInv
  <2>3. c.method = "createAgent" <=> Creates(Len(agent.results) + 1)
    BY <2>1 DEF c, tool, Creates
  <2>4. \A n \in 1..Len(calls') : calls'[n].method = "createAgent" /\ n < Len(calls')
            => calls'[n].outcome \in Success
    BY <1>3, <1>5, <2>2
  <2>5. \A m \in 1..Len(config.tools) : Creates(m) /\ m <= Len(agent.results) + 1 =>
            \E n \in 1..Len(calls') : calls'[n].method = "createAgent"
    <3> SUFFICES ASSUME NEW m \in 1..Len(config.tools), Creates(m),
                        m <= Len(agent.results) + 1
                 PROVE  \E n \in 1..Len(calls') : calls'[n].method = "createAgent"
      OBVIOUS
    <3>1. CASE m <= Len(agent.results)
      BY <1>3, <2>2, <3>1
    <3>2. CASE m = Len(agent.results) + 1
      <4>1. Len(calls) + 1 \in 1..Len(calls')
        BY <1>3, <1>5
      <4>2. QED
        BY <1>3, <2>3, <3>2, <4>1
    <3>3. QED
      BY <1>5, <3>1, <3>2
  <2>6. QED
    BY <1>1, <1>3, <1>5, <2>3, <2>4, <2>5 DEF DemoInv, Creates
<1>10. QED
  BY <1>6, <1>7, <1>8, <1>9

\* A tool of a framework that returns without a call.
LEMMA AtOnceRoute ==
    ASSUME RouteInv, NEW result \in {"success", "error", "thrown"}, ~agent.busy, ~Over,
           AtOnce(result), config.host # "demo"
    PROVE  RouteInv'
<1> USE DEF RouteInv
<1> DEFINE said == [result |-> result, call |-> 0]
<1>1. /\ UNCHANGED <<config, calls, served>>
      /\ agent' = [agent EXCEPT !.results = Append(@, said)]
  BY DEF AtOnce, sdkVars, sdkOnly
<1>2. said \in Returned /\ said.call = 0
  BY RetryAssumption DEF Returned
<1>3. /\ Len(agent.results) \in Nat /\ Len(agent.results) < Len(config.tools)
      /\ Len(config.tools) \in Nat /\ agent.results \in Seq(Returned)
      /\ agent'.results = Append(agent.results, said) /\ agent'.busy = agent.busy
  BY <1>1, ConfigFacts DEF AgentInv, CallsInv, Over
<1> HIDE DEF said
<1>4. /\ agent'.results \in Seq(Returned) /\ Len(agent'.results) = Len(agent.results) + 1
      /\ \A m \in 1..Len(agent'.results) :
            \/ m \in 1..Len(agent.results) /\ agent'.results[m] = agent.results[m]
            \/ agent'.results[m].call = 0
  BY <1>2, <1>3
<1>5. agent' \in [busy: BOOLEAN, results: Seq(Returned)]
  BY <1>1, <1>3, <1>4 DEF AgentInv
<1>6. AgentInv'
  <2>1. \A m \in 1..Len(agent.results) :
            agent.results[m].call # 0 =>
                /\ agent.results[m].call \in 1..Len(calls)
                /\ calls[agent.results[m].call].state = "done"
                /\ agent.results[m].result \in
                      {Classified(calls[agent.results[m].call].outcome), "thrown"}
    BY DEF AgentInv
  <2>2. /\ Len(agent'.results) <= Len(config.tools) /\ ~agent'.busy
        /\ \A n \in 1..Len(calls) : calls[n].state = "done"
    BY <1>3, <1>4 DEF AgentInv
  <2> HIDE DEF RouteInv
  <2>3. \A m \in 1..Len(agent'.results) :
            agent'.results[m].call # 0 =>
                /\ agent'.results[m].call \in 1..Len(calls)
                /\ calls[agent'.results[m].call].state = "done"
                /\ agent'.results[m].result \in
                      {Classified(calls[agent'.results[m].call].outcome), "thrown"}
    BY <1>4, <2>1
  <2>4. UNCHANGED <<config, calls>>
    BY <1>1
  <2>5. QED
    BY <1>5, <2>2, <2>3, <2>4 DEF AgentInv, Classified
<1>7. CallsInv' /\ ServedInv' /\ EndedInv' /\ DemoInv'
  BY <1>1 DEF CallsInv, ServedInv, EndedInv, DemoInv
<1>8. QED
  BY <1>6, <1>7

-----------------------------------------------------------------------------
(* A call ends, or goes on. *)

LEMMA ReturnRoute ==
    ASSUME RouteInv, Return
    PROVE  RouteInv'
<1> USE DEF RouteInv
<1> DEFINE said == [result |-> ResultOf(Classified(call.outcome)), call |-> Len(calls)]
<1>1. /\ UNCHANGED <<config, calls, served>> /\ agent.busy /\ Idle
      /\ agent' = [busy |-> FALSE, results |-> Append(agent.results, said)]
  BY DEF Return, sdkVars, sdkOnly, Current
<1>2. /\ Len(agent.results) \in Nat /\ Len(agent.results) < Len(config.tools)
      /\ Len(config.tools) \in Nat /\ agent.results \in Seq(Returned)
      /\ calls # <<>> /\ Len(calls) \in 1..MaxCalls
  BY <1>1, CallRows, ConfigFacts DEF AgentInv, CallsInv
<1>3. /\ said.call = Len(calls) /\ said.result \in {Classified(call.outcome), "thrown"}
      /\ call = calls[Len(calls)] /\ call.state = "done"
      /\ \A n \in 1..Len(calls) : calls[n].state = "done"
  BY <1>1, <1>2 DEF ResultOf, Idle, call, Current, CallsInv
<1>4. said \in Returned
  <2>1. Classified(call.outcome) \in {"success", "blocked", "unreachable", "error"}
    BY DEF Classified
  <2>2. QED
    BY <1>2, <1>3, <2>1, RetryAssumption DEF Returned
<1>5. config.host = "demo" /\ said.result # "thrown" /\ Creates(Len(agent.results) + 1)
        => call.outcome \in Success
  BY DEF ResultOf, Catching, Creates, tool, Classified, said
<1> HIDE DEF said
<1>6. /\ agent'.results \in Seq(Returned) /\ Len(agent'.results) = Len(agent.results) + 1
      /\ \A m \in 1..Len(agent.results) : agent'.results[m] = agent.results[m]
      /\ agent'.results[Len(agent.results) + 1] = said /\ ~agent'.busy
      /\ \A m \in 1..Len(agent'.results) : m \in 1..Len(agent.results) \/ m = Len(agent.results) + 1
  BY <1>1, <1>2, <1>4
<1>7. AgentInv'
  <2>1. agent' \in [busy: BOOLEAN, results: Seq(Returned)]
    BY <1>1, <1>6
  <2>2. \A m \in 1..Len(agent'.results) :
            agent'.results[m].call # 0 =>
                /\ agent'.results[m].call \in 1..Len(calls)
                /\ calls[agent'.results[m].call].state = "done"
                /\ agent'.results[m].result \in
                      {Classified(calls[agent'.results[m].call].outcome), "thrown"}
    BY <1>2, <1>3, <1>6 DEF AgentInv
  <2>3. Len(agent'.results) <= Len(config.tools)
    BY <1>2, <1>6
  <2>4. ~agent'.busy
    BY <1>6
  <2>5. UNCHANGED <<config, calls>>
    BY <1>1
  <2> HIDE DEF RouteInv
  <2>6. QED
    BY <1>3, <2>1, <2>2, <2>3, <2>4, <2>5 DEF AgentInv, Classified
<1>8. DemoInv'
  <2>1. SUFFICES ASSUME config.host = "demo", said.result # "thrown",
                        \A m \in 1..Len(agent.results) : agent.results[m].result # "thrown"
                 PROVE  DemoInv'
    <3>1. Len(agent.results) + 1 \in 1..Len(agent'.results)
      BY <1>2, <1>6
    <3>2. \A m \in 1..Len(agent.results) : m \in 1..Len(agent'.results)
      BY <1>2, <1>6
    <3>3. QED
      BY <1>1, <1>6, <3>1, <3>2 DEF DemoInv
  <2>2. \A n \in 1..Len(calls) : calls[n].method = "createAgent" => calls[n].outcome \in Success
    BY <1>1, <1>2, <1>3, <1>5, <2>1 DEF DemoInv
  <2>3. \A m \in 1..Len(config.tools) : Creates(m) /\ m <= Len(agent.results) + 1 =>
            \E n \in 1..Len(calls) : calls[n].method = "createAgent"
    <3> SUFFICES ASSUME NEW m \in 1..Len(config.tools), Creates(m),
                        m <= Len(agent.results) + 1
                 PROVE  \E n \in 1..Len(calls) : calls[n].method = "createAgent"
      OBVIOUS
    <3>1. m <= Len(agent.results) \/ (agent.busy /\ m = Len(agent.results) + 1)
      BY <1>1, <1>2
    <3>2. QED
      BY <2>1, <3>1 DEF DemoInv
  <2>4. QED
    BY <1>1, <1>2, <1>6, <2>2, <2>3 DEF DemoInv, Creates
<1>9. CallsInv' /\ ServedInv' /\ EndedInv'
  BY <1>1 DEF CallsInv, ServedInv, EndedInv
<1>10. QED
  BY <1>7, <1>8, <1>9

-----------------------------------------------------------------------------
(* The client handles what fetch or the timer gives it. *)

\* c may be what becomes of the call under way.
Successor(c) ==
    /\ c \in CallRow /\ CallOK(c)
    /\ c.method = call.method /\ c.agent = call.agent /\ c.arg = call.arg
    /\ call.lost => c.lost
    /\ \/ call.state = "fetch" /\ c.attempt = call.attempt /\ c.state \in {"sleep", "done"}
       \/ /\ call.state = "sleep" /\ c.attempt = call.attempt + 1 /\ c.state = "fetch"
          /\ c.lost = call.lost /\ c.outcome = call.outcome
    /\ c.state = "sleep" /\ ~c.lost => AnswerTo(Current, c.attempt) = "RateLimited"
    /\ c.state = "done" /\ c.outcome # "Unreachable" =>
          /\ AnswerTo(Current, c.attempt) \in Answers \cup {"OK"}
          /\ c.outcome \in {AnswerTo(Current, c.attempt), "Unreadable"}

LEMMA UnderWayFacts ==
    ASSUME CallsInv, UnderWay("fetch") \/ UnderWay("sleep")
    PROVE  /\ Current \in 1..MaxCalls /\ Current = Len(calls) /\ call = calls[Current]
           /\ call \in CallRow /\ CallOK(call) /\ call.attempt \in Attempts
           /\ call.state \in {"fetch", "sleep"}
<1>1. calls # <<>> /\ call.state \in {"fetch", "sleep"}
  BY DEF UnderWay
<1>2. Len(calls) \in 1..MaxCalls /\ Len(calls) \in 1..Len(calls)
  BY <1>1, CallRows DEF CallsInv
<1>3. QED
  BY <1>1, <1>2, CallRows DEF Current, call

LEMMA AnswerSuccessor ==
    ASSUME CallsInv, ServedInv, Answer
    PROVE  \E c : Become(c) /\ Successor(c)
<1>1. /\ Current \in 1..MaxCalls /\ Current = Len(calls) /\ call = calls[Current]
      /\ call \in CallRow /\ CallOK(call) /\ call.attempt \in Attempts /\ call.state = "fetch"
  BY UnderWayFacts DEF Answer, UnderWay
<1>2. PICK answer \in Answers \cup {"OK"} :
        /\ answer = AnswerTo(Current, call.attempt)
        /\ \/ Retried(answer) /\ TryAgain /\ Become([call EXCEPT !.state = "sleep"])
           \/ Become(Ended(answer)) \/ Become(Ended("Unreadable"))
  BY DEF Answer
<1>3. answer = "RateLimited" => call.method \in {"proxyPayment", "proxySolanaPayment"}
  <2>1. SUFFICES ASSUME call.method # "proxyPayment", answer = "RateLimited"
                 PROVE  call.method = "proxySolanaPayment"
    OBVIOUS
  <2>2. served[Current][call.attempt].answer = "RateLimited"
    BY <1>1, <1>2, <2>1 DEF AnswerTo, IsPayment
  <2>3. served[Current][call.attempt] # NotServed
    BY <2>2, RetryAssumption DEF NotServed, Answers
  <2>4. QED
    BY <1>1, <2>1, <2>2, <2>3 DEF ServedInv, ServedOK
<1>4. CASE answer = "RateLimited" /\ Become([call EXCEPT !.state = "sleep"])
  <2> DEFINE c == [call EXCEPT !.state = "sleep"]
  <2>1. c \in CallRow /\ c.state = "sleep" /\ c.outcome = call.outcome /\ c.lost = call.lost
        /\ c.method = call.method /\ c.agent = call.agent /\ c.arg = call.arg
        /\ c.attempt = call.attempt
    BY <1>1 DEF CallRow
  <2>2. Become(c)
    BY <1>4
  <2> HIDE DEF c
  <2>3. CallOK(c)
    BY <1>1, <1>3, <1>4, <2>1 DEF CallOK
  <2>4. QED
    BY <1>1, <1>2, <1>4, <2>1, <2>2, <2>3 DEF Successor
<1>5. CASE Become(Ended(answer)) \/ Become(Ended("Unreadable"))
  <2>1. PICK o \in {answer, "Unreadable"} : Become(Ended(o))
    BY <1>5
  <2>2. o \in Answers \cup {"OK", Absent} \cup Errors /\ o # Absent /\ o # "Unreachable"
    BY RetryAssumption DEF Errors, Answers
  <2> DEFINE c == Ended(o)
  <2>3. c \in CallRow /\ c.state = "done" /\ c.outcome = o /\ c.lost = call.lost
        /\ c.method = call.method /\ c.agent = call.agent /\ c.arg = call.arg
        /\ c.attempt = call.attempt
    BY <1>1, <2>2 DEF CallRow, Ended
  <2>4. Become(c)
    BY <2>1
  <2> HIDE DEF c
  <2>5. CallOK(c)
    BY <1>1, <2>2, <2>3 DEF CallOK
  <2>6. QED
    BY <1>1, <1>2, <2>1, <2>3, <2>4, <2>5 DEF Successor
<1>6. QED
  BY <1>2, <1>4, <1>5 DEF Retried

LEMMA LostSuccessor ==
    ASSUME CallsInv, NetworkError
    PROVE  \E c : Become(c) /\ Successor(c)
<1>1. /\ Current \in 1..MaxCalls /\ Current = Len(calls) /\ call = calls[Current]
      /\ call \in CallRow /\ CallOK(call) /\ call.attempt \in Attempts /\ call.state = "fetch"
  BY UnderWayFacts DEF NetworkError, UnderWay
<1> DEFINE c == [IF TryAgain THEN [call EXCEPT !.state = "sleep"] ELSE Ended("Unreachable")
                    EXCEPT !.lost = TRUE]
<1>2. Become(c)
  BY DEF NetworkError
<1>3. /\ c \in CallRow /\ c.lost /\ c.attempt = call.attempt
      /\ c.method = call.method /\ c.agent = call.agent /\ c.arg = call.arg
      /\ \/ c.state = "sleep" /\ c.outcome = call.outcome
         \/ c.state = "done" /\ c.outcome = "Unreachable"
  BY <1>1 DEF CallRow, Ended, Errors
<1> HIDE DEF c
<1>4. CallOK(c)
  BY <1>1, <1>3, RetryAssumption DEF CallOK
<1>5. QED
  BY <1>1, <1>2, <1>3, <1>4 DEF Successor

LEMMA WakeSuccessor ==
    ASSUME CallsInv, Wake
    PROVE  \E c : Become(c) /\ Successor(c)
<1>1. /\ Current \in 1..MaxCalls /\ Current = Len(calls) /\ call = calls[Current]
      /\ call \in CallRow /\ CallOK(call) /\ call.attempt \in Attempts /\ call.state = "sleep"
  BY UnderWayFacts DEF Wake, UnderWay
<1> DEFINE c == [call EXCEPT !.state = "fetch", !.attempt = @ + 1]
<1>2. Become(c) /\ call.attempt + 1 \in Attempts
  BY DEF Wake
<1>3. /\ c \in CallRow /\ c.lost = call.lost /\ c.attempt = call.attempt + 1
      /\ c.method = call.method /\ c.agent = call.agent /\ c.arg = call.arg
      /\ c.state = "fetch" /\ c.outcome = call.outcome
  BY <1>1, <1>2 DEF CallRow
<1> HIDE DEF c
<1>4. CallOK(c)
  BY <1>1, <1>3 DEF CallOK
<1>5. QED
  BY <1>1, <1>2, <1>3, <1>4 DEF Successor

LEMMA ClientChange ==
    ASSUME RouteInv, Client
    PROVE  /\ UNCHANGED <<vars, config, served>> /\ Len(calls) \in 1..MaxCalls
           /\ call = calls[Len(calls)] /\ call \in CallRow /\ CallOK(call)
           /\ call.attempt \in Attempts /\ call.state \in {"fetch", "sleep"}
           /\ \E c : /\ calls' = [calls EXCEPT ![Len(calls)] = c] /\ Successor(c)
                    /\ Len(calls') = Len(calls) /\ calls'[Len(calls)] = c
                    /\ \A n \in 1..Len(calls) : n # Len(calls) => calls'[n] = calls[n]
<1> USE DEF RouteInv
<1>1. UNCHANGED <<vars, config, served>>
  BY DEF Client, Answer, NetworkError, Wake
<1>2. UnderWay("fetch") \/ UnderWay("sleep")
  BY DEF Client, Answer, NetworkError, Wake
<1>3. PICK c : calls' = [calls EXCEPT ![Len(calls)] = c] /\ Successor(c)
  BY AnswerSuccessor, LostSuccessor, WakeSuccessor DEF Client, Become, Current
<1>4. /\ Len(calls') = Len(calls) /\ calls'[Len(calls)] = c
      /\ \A n \in 1..Len(calls) : n # Len(calls) => calls'[n] = calls[n]
  BY <1>2, <1>3, UnderWayFacts, CallRows DEF CallsInv, Successor
<1>5. QED
  BY <1>1, <1>2, <1>3, <1>4, UnderWayFacts

LEMMA ClientRoute ==
    ASSUME RouteInv, Client, UNCHANGED agent
    PROVE  RouteInv'
<1> USE DEF RouteInv
<1>1. /\ UNCHANGED <<vars, config, served>> /\ Len(calls) \in 1..MaxCalls
      /\ call = calls[Len(calls)] /\ call \in CallRow /\ CallOK(call)
      /\ call.attempt \in Attempts /\ call.state \in {"fetch", "sleep"}
  BY ClientChange
<1>2. PICK c : /\ calls' = [calls EXCEPT ![Len(calls)] = c] /\ Successor(c)
               /\ Len(calls') = Len(calls) /\ calls'[Len(calls)] = c
               /\ \A n \in 1..Len(calls) : n # Len(calls) => calls'[n] = calls[n]
  BY ClientChange
<1>3. /\ c \in CallRow /\ CallOK(c) /\ c.method = call.method /\ c.agent = call.agent
      /\ c.arg = call.arg /\ call.attempt <= c.attempt /\ c.attempt \in Attempts
  <2>1. \A d \in CallRow : d.attempt \in Attempts
    BY DEF CallRow
  <2>2. call.attempt \in Nat /\ (c.attempt = call.attempt \/ c.attempt = call.attempt + 1)
    BY <1>1, <1>2, RetryAssumption DEF Successor, Attempts
  <2>3. QED
    BY <1>1, <1>2, <2>1, <2>2 DEF Successor
<1>4. agent.busy
  BY <1>1 DEF AgentInv
<1>5. CallsInv'
  <2>1. calls' \in Seq(CallRow)
    <3>1. calls \in Seq(CallRow) /\ Len(calls) \in 1..Len(calls)
      BY <1>1, RetryAssumption DEF CallsInv
    <3>2. QED
      BY <1>2, <1>3, <3>1, ExceptSeq
  <2>2. QED
    BY <1>1, <1>2, <1>3, <2>1 DEF CallsInv
<1>6. ServedInv'
  <2>1. \A s : ServedOK(call, s) => ServedOK(c, s)
    BY <1>3 DEF ServedOK
  <2>2. ASSUME NEW n \in 1..MaxCalls, NEW i \in Attempts, served[n][i] # NotServed
        PROVE  n \in 1..Len(calls') /\ i <= calls'[n].attempt /\ ServedOK(calls'[n], served[n][i])
    <3>1. n \in 1..Len(calls) /\ i <= calls[n].attempt /\ ServedOK(calls[n], served[n][i])
      BY <2>2 DEF ServedInv
    <3>2. CASE n # Len(calls)
      BY <1>2, <3>1, <3>2
    <3>3. CASE n = Len(calls)
      <4>1. i <= c.attempt
        BY <1>1, <1>3, <3>1, <3>3 DEF Attempts
      <4>2. QED
        BY <1>1, <1>2, <2>1, <3>1, <3>3, <4>1
    <3>4. QED
      BY <3>2, <3>3
  <2>3. QED
    BY <1>1, <2>2 DEF ServedInv
<1>7. EndedInv'
  <2>1. SUFFICES ASSUME NEW n \in 1..Len(calls), calls'[n].method # "proxyPayment",
                        calls'[n].state = "done", calls'[n].outcome # "Unreachable"
                 PROVE  /\ served[n][calls'[n].attempt] # NotServed
                        /\ calls'[n].outcome \in {served[n][calls'[n].attempt].answer, "Unreadable"}
    BY <1>1, <1>2 DEF EndedInv
  <2>2. CASE n # Len(calls)
    BY <1>2, <2>1, <2>2 DEF EndedInv
  <2>3. CASE n = Len(calls)
    <3>1. /\ served[n][c.attempt].answer \in Answers \cup {"OK"}
          /\ c.outcome \in {served[n][c.attempt].answer, "Unreadable"}
      BY <1>1, <1>2, <1>3, <2>1, <2>3 DEF Successor, AnswerTo, IsPayment, Current
    <3>2. served[n][c.attempt] # NotServed
      BY <3>1, RetryAssumption DEF NotServed
    <3>3. QED
      BY <1>2, <2>3, <3>1, <3>2
  <2>4. QED
    BY <2>2, <2>3
<1>8. AgentInv'
  <2>1. calls' # <<>>
    <3>1. Len(calls) # 0
      BY <1>1, RetryAssumption
    <3>2. Len(calls') = Len(calls)
      BY <1>2
    <3>3. QED
      BY <3>1, <3>2
  <2>2. ASSUME NEW n \in 1..Len(calls), calls[n].state = "done"
        PROVE  calls'[n] = calls[n]
    BY <1>1, <1>2, <2>2
  <2>3. /\ agent \in [busy: BOOLEAN, results: Seq(Returned)]
        /\ Len(agent.results) <= Len(config.tools) /\ Len(agent.results) < Len(config.tools)
        /\ \A m \in 1..Len(agent.results) :
              agent.results[m].call # 0 =>
                /\ agent.results[m].call \in 1..Len(calls)
                /\ calls[agent.results[m].call].state = "done"
                /\ agent.results[m].result \in
                      {Classified(calls[agent.results[m].call].outcome), "thrown"}
    BY <1>4 DEF AgentInv
  <2>4. Len(calls') = Len(calls) /\ UNCHANGED <<config, agent>>
    BY <1>1, <1>2
  <2> HIDE DEF RouteInv
  <2>5. QED
    BY <1>4, <2>1, <2>2, <2>3, <2>4 DEF AgentInv, Classified
<1>9. DemoInv'
  <2>1. SUFFICES ASSUME config.host = "demo",
                        \A m \in 1..Len(agent.results) : agent.results[m].result # "thrown"
                 PROVE  DemoInv'
    BY <1>1 DEF DemoInv
  <2>2. \A n \in 1..Len(calls) : calls'[n].method = calls[n].method
    BY <1>1, <1>2, <1>3
  <2>3. /\ \A n \in 1..Len(calls) :
              calls[n].method = "createAgent" /\ n < Len(calls) => calls[n].outcome \in Success
        /\ \A m \in 1..Len(config.tools) :
              Creates(m) /\ m <= Len(agent.results) + 1 /\ m \in Nat
                => \E n \in 1..Len(calls) : calls[n].method = "createAgent"
        /\ calls[Len(calls)].method = "createAgent" => Creates(Len(agent.results) + 1)
    <3>1. /\ \A n \in 1..Len(calls) :
                calls[n].method = "createAgent" /\ n < Len(calls) => calls[n].outcome \in Success
          /\ calls[Len(calls)].method = "createAgent" => Creates(Len(agent.results) + 1)
      BY <1>4, <2>1 DEF DemoInv
    <3>2. ASSUME NEW m \in 1..Len(config.tools), Creates(m), m <= Len(agent.results) + 1
          PROVE  \E n \in 1..Len(calls) : calls[n].method = "createAgent"
      <4>1. Len(agent.results) \in Nat /\ Len(config.tools) \in Nat
        BY ConfigFacts DEF AgentInv, CallsInv
      <4>2. m <= Len(agent.results) \/ (agent.busy /\ m = Len(agent.results) + 1)
        BY <1>4, <3>2, <4>1
      <4>3. QED
        BY <2>1, <3>2, <4>2 DEF DemoInv
    <3>3. QED
      BY <3>1, <3>2
  <2>4. Len(calls') = Len(calls) /\ UNCHANGED <<config, agent>>
    BY <1>1, <1>2
  <2>5. ASSUME NEW n \in 1..Len(calls), n < Len(calls)
        PROVE  calls'[n].outcome = calls[n].outcome
    <3>1. Len(calls) \in Int /\ n \in Int
      BY <1>1, RetryAssumption
    <3>2. n # Len(calls)
      BY <2>5, <3>1
    <3>3. QED
      BY <1>2, <3>2
  <2>6. /\ \A n \in 1..Len(calls') :
              calls'[n].method = "createAgent" /\ (n < Len(calls') \/ ~agent'.busy)
                => calls'[n].outcome \in Success
        /\ agent'.busy /\ calls'[Len(calls')].method = "createAgent"
              => Creates(Len(agent.results) + 1)
    BY <1>1, <1>4, <2>2, <2>3, <2>4, <2>5
  <2>7. ASSUME NEW m \in 1..Len(config.tools), Creates(m),
               m <= Len(agent.results) \/ (agent.busy /\ m = Len(agent.results) + 1)
        PROVE  \E n \in 1..Len(calls') : calls'[n].method = "createAgent"
    <3>1. m \in Nat /\ m <= Len(agent.results) + 1
      BY <2>7, ConfigFacts DEF AgentInv, CallsInv
    <3>2. QED
      BY <2>2, <2>3, <2>4, <2>7, <3>1
  <2>8. QED
    BY <2>4, <2>6, <2>7 DEF DemoInv, Creates
<1>10. QED
  BY <1>5, <1>6, <1>7, <1>8, <1>9

-----------------------------------------------------------------------------
(* The proxy serves an attempt. *)

LEMMA WriteRow ==
    ASSUME NEW c \in CallRow, NEW row \in Agents \cup RuleIds \cup Keys, Write(c, row)
    PROVE  /\ row # Absent /\ c.method \in Writers
           /\ c.method = "createAgent" => row \in Agents
           /\ c.method = "createRule" => row \in RuleIds
           /\ c.method = "createSessionKey" => row \in Keys
           /\ c.method = "revokeAll" => row = c.agent
<1>1. row # Absent
  BY RetryAssumption, ProxyAssumption
<1>2. c.method \in Writers
  BY DEF Write, Writers, Creations, Revocations
<1>3. ASSUME c.method = "createAgent" PROVE row \in Agents
  <2>1. IsNext(row, {a \in Agents : agents[a] = "none"})
    BY <1>3 DEF Write
  <2>2. QED
    BY <2>1 DEF IsNext
<1>4. ASSUME c.method = "createRule" PROVE row \in RuleIds
  <2>1. IsNext(row, {i \in RuleIds : rules[i] = Absent})
    BY <1>4 DEF Write
  <2>2. QED
    BY <2>1 DEF IsNext
<1>5. ASSUME c.method = "createSessionKey" PROVE row \in Keys
  <2>1. IsNext(row, {k \in Keys : keys[k] = Absent})
    BY <1>5 DEF Write
  <2>2. QED
    BY <2>1 DEF IsNext
<1>6. c.method = "revokeAll" => row = c.agent
  BY DEF Write
<1>7. QED
  BY <1>1, <1>2, <1>3, <1>4, <1>5, <1>6

LEMMA UnmovedAnswers ==
    ASSUME NEW c \in CallRow, NEW answer \in Unmoved(c)
    PROVE  /\ answer \in Answers \cup {"OK"} /\ answer # Absent
           /\ c.method # "proxySolanaPayment" => answer # "RateLimited"
           /\ c.method \in Writers => answer \notin Success
<1>1. answer \in Answers \cup {"OK"}
  BY DEF Unmoved, Answers
<1>2. c.method # "proxySolanaPayment" => answer # "RateLimited"
  BY DEF Unmoved
<1>3. c.method \in Writers => answer \notin Success
  BY DEF Unmoved, Writers, Creations, Revocations, Reads, Success
<1>4. QED
  BY <1>1, <1>2, <1>3, RetryAssumption

LEMMA ServeChange ==
    ASSUME RouteInv, NEW n \in 1..MaxCalls, NEW i \in Attempts, Serve(n, i)
    PROVE  /\ n \in 1..Len(calls) /\ i <= calls[n].attempt /\ calls[n] \in CallRow
           /\ served[n][i] = NotServed /\ UNCHANGED <<config, calls>>
           /\ \E s \in ServedRow :
                /\ s # NotServed /\ ServedOK(calls[n], s) /\ served'[n][i] = s
                /\ served' \in [1..MaxCalls -> [Attempts -> ServedRow]]
                /\ \A m \in 1..MaxCalls, j \in Attempts :
                      <<m, j>> # <<n, i>> => served'[m][j] = served[m][j]
                /\ \/ UNCHANGED vars /\ s.row = Absent
                   \/ Write(calls[n], s.row) /\ s.row \in Agents \cup RuleIds \cup Keys
<1> USE DEF RouteInv
<1>1. /\ n \in 1..Len(calls) /\ i <= calls[n].attempt /\ calls[n] \in CallRow
      /\ calls[n].method # "proxyPayment"
      /\ served[n][i] = NotServed /\ UNCHANGED <<config, calls>>
  BY CallRows DEF Serve, Sent, IsPayment
<1>2. served \in [1..MaxCalls -> [Attempts -> ServedRow]]
  BY DEF ServedInv
<1>3. PICK s \in ServedRow :
        /\ s # NotServed /\ ServedOK(calls[n], s)
        /\ served' = [served EXCEPT ![n] = [served[n] EXCEPT ![i] = s]]
        /\ \/ UNCHANGED vars /\ s.row = Absent
           \/ Write(calls[n], s.row) /\ s.row \in Agents \cup RuleIds \cup Keys
  <2>1. CASE /\ UNCHANGED vars
             /\ \E answer \in Unmoved(calls[n]) : served' = [served EXCEPT ![n][i].answer = answer]
    <3>1. PICK answer \in Unmoved(calls[n]) : served' = [served EXCEPT ![n][i].answer = answer]
      BY <2>1
    <3> DEFINE s == [answer |-> answer, row |-> Absent]
    <3>2. served' = [served EXCEPT ![n] = [served[n] EXCEPT ![i] = s]]
      <4>1. [served[n][i] EXCEPT !.answer = answer] = s
        BY <1>1 DEF NotServed
      <4>2. served' = [served EXCEPT ![n] = [served[n] EXCEPT ![i] =
                          [served[n][i] EXCEPT !.answer = answer]]]
        BY <1>2, <3>1
      <4>3. QED
        BY <4>1, <4>2
    <3>3. /\ answer \in Answers \cup {"OK"} /\ answer # Absent
          /\ calls[n].method # "proxySolanaPayment" => answer # "RateLimited"
          /\ calls[n].method \in Writers => answer \notin Success
      BY <1>1, UnmovedAnswers
    <3>4. s \in ServedRow /\ s # NotServed /\ ServedOK(calls[n], s)
      BY <1>1, <3>3 DEF ServedRow, NotServed, ServedOK
    <3>5. QED
      BY <2>1, <3>2, <3>4
  <2>2. CASE \E row \in Agents \cup RuleIds \cup Keys, answer \in {"OK", "Internal"} :
                /\ Write(calls[n], row)
                /\ served' = [served EXCEPT ![n][i] = [answer |-> answer, row |-> row]]
    <3>1. PICK row \in Agents \cup RuleIds \cup Keys, answer \in {"OK", "Internal"} :
                /\ Write(calls[n], row)
                /\ served' = [served EXCEPT ![n][i] = [answer |-> answer, row |-> row]]
      BY <2>2
    <3> DEFINE s == [answer |-> answer, row |-> row]
    <3>2. served' = [served EXCEPT ![n] = [served[n] EXCEPT ![i] = s]]
      BY <1>1, <1>2, <3>1
    <3>3. row # Absent /\ (calls[n].method = "createAgent" => row \in Agents)
          /\ (calls[n].method = "revokeAll" => row = calls[n].agent)
      BY <1>1, <3>1, WriteRow
    <3>4. answer \in Answers \cup {"OK"} /\ answer # Absent /\ answer # "RateLimited"
      BY RetryAssumption DEF Answers
    <3>5. s \in ServedRow /\ s # NotServed /\ ServedOK(calls[n], s)
      BY <1>1, <3>3, <3>4 DEF ServedRow, NotServed, ServedOK
    <3>6. QED
      BY <3>1, <3>2, <3>5
  <2>3. QED
    BY <2>1, <2>2 DEF Serve
<1>4. /\ served'[n][i] = s /\ served' \in [1..MaxCalls -> [Attempts -> ServedRow]]
      /\ \A m \in 1..MaxCalls, j \in Attempts :
            <<m, j>> # <<n, i>> => served'[m][j] = served[m][j]
  BY <1>2, <1>3
<1>5. QED
  BY <1>1, <1>3, <1>4

LEMMA ServeRoute ==
    ASSUME RouteInv, NEW n \in 1..MaxCalls, NEW i \in Attempts, Serve(n, i), UNCHANGED agent
    PROVE  RouteInv'
<1> USE DEF RouteInv
<1>1. /\ n \in 1..Len(calls) /\ i <= calls[n].attempt
      /\ served[n][i] = NotServed /\ UNCHANGED <<config, calls>>
  BY ServeChange
<1>2. PICK s \in ServedRow :
        /\ s # NotServed /\ ServedOK(calls[n], s) /\ served'[n][i] = s
        /\ served' \in [1..MaxCalls -> [Attempts -> ServedRow]]
        /\ \A m \in 1..MaxCalls, j \in Attempts :
              <<m, j>> # <<n, i>> => served'[m][j] = served[m][j]
  BY ServeChange
<1>3. CallsInv' /\ AgentInv' /\ DemoInv'
  BY <1>1 DEF CallsInv, AgentInv, DemoInv, Creates, Classified
<1>4. ServedInv'
  BY <1>1, <1>2 DEF ServedInv
<1>5. EndedInv'
  <2>1. SUFFICES ASSUME NEW m \in 1..Len(calls), calls[m].method # "proxyPayment",
                        calls[m].state = "done", calls[m].outcome # "Unreachable"
                 PROVE  served'[m][calls[m].attempt] = served[m][calls[m].attempt]
    BY <1>1 DEF EndedInv
  <2>2. m \in 1..MaxCalls /\ calls[m].attempt \in Attempts
    BY CallRows
  <2>3. served[m][calls[m].attempt] # NotServed
    BY <2>1 DEF EndedInv
  <2>4. QED
    BY <1>1, <1>2, <2>2, <2>3
<1>6. QED
  BY <1>3, <1>4, <1>5

-----------------------------------------------------------------------------
(* A tool is used. *)

LEMMA ToolFacts ==
    ASSUME RouteInv, ~agent.busy, ~Over
    PROVE  /\ tool.arg \in Args /\ Absent \in Args /\ "solana" \in Args
           /\ config.agent \in Agents \cup {Absent}
           /\ config.host # "demo" => GivenOrConfigured \in Agents \cup {Absent}
           /\ Id \in Agents \cup {Absent}
           /\ tool.tool \in {"create_guardrail", "revoke_all_keys"} => Id \in Agents
           /\ tool.tool = "revoke_session_key" => tool.arg \in Keys
           /\ tool.tool \in {"proxy_payment", "guarded_execute"} => tool.arg \in Payload
           /\ tool.tool = "guarded_payment" => tool.arg \in Payload \cup {Absent}
<1>1. Len(agent.results) + 1 \in 1..Len(config.tools) /\ config \in Configs
  BY ConfigFacts DEF Over, RouteInv, AgentInv, CallsInv
<1>2. /\ config.agent \in Agents \cup {Absent}
      /\ tool.arg \in Args /\ tool.agent \in Agents \cup {Absent, Created}
      /\ tool.tool \in {"create_guardrail", "revoke_all_keys"} => tool.agent # Absent
      /\ tool.tool = "revoke_session_key" => tool.arg \in Keys
      /\ tool.tool \in {"proxy_payment", "guarded_execute"} => tool.arg \in Payload
      /\ tool.tool = "guarded_payment" => tool.arg \in Payload \cup {Absent}
      /\ tool.agent = Created => config.host = "demo"
  BY <1>1, ConfigFacts DEF tool
<1>3. tool.agent = Created => CreatedAgent \in Agents
  BY DemoAgent
<1>4. Absent \in Args /\ "solana" \in Args
  BY DEF Args
<1>5. Id \in Agents \cup {Absent} /\ (tool.agent # Absent => Id \in Agents)
  BY <1>2, <1>3 DEF Id
<1>6. config.host # "demo" => GivenOrConfigured \in Agents \cup {Absent}
  BY <1>2 DEF GivenOrConfigured
<1>7. QED
  BY <1>2, <1>4, <1>5, <1>6

LEMMA AskForRoute ==
    ASSUME RouteInv, ~agent.busy, ~Over, config.host # "demo",
           NEW method \in Methods, NEW arg \in Args, AskFor(method, arg),
           method = "revokeSessionKey" => arg \in Keys, method # "proxyPayment"
    PROVE  RouteInv'
<1>1. GivenOrConfigured \in Agents \cup {Absent}
  BY ToolFacts
<1>2. CASE GivenOrConfigured = Absent
  BY <1>2, AtOnceRoute DEF AskFor
<1>3. CASE GivenOrConfigured # Absent
  BY <1>1, <1>3, AskRoute DEF AskFor
<1>4. QED
  BY <1>2, <1>3

LEMMA OpenclawRoute ==
    ASSUME RouteInv, \/ OpenclawHealth \/ OpenclawAgents \/ OpenclawRules
                     \/ OpenclawSessionKeys \/ OpenclawRevokeAll
                     \/ OpenclawPayment \/ OpenclawSolanaPayment
    PROVE  RouteInv'
<1>1. ~agent.busy /\ ~Over /\ config.host = "openclaw"
  BY DEF OpenclawHealth, OpenclawAgents, OpenclawRules, OpenclawSessionKeys,
         OpenclawRevokeAll, OpenclawPayment, OpenclawSolanaPayment, Using
<1> USE DEF Methods, Creations, Revocations, Reads, Addressed
<1>2. CASE OpenclawHealth
  BY <1>1, <1>2, ToolFacts, AskRoute DEF OpenclawHealth
<1>3. CASE OpenclawAgents
  BY <1>1, <1>3, ToolFacts, AskRoute, AskForRoute DEF OpenclawAgents
<1>4. CASE OpenclawRules
  BY <1>1, <1>4, ToolFacts, AtOnceRoute, AskForRoute DEF OpenclawRules
<1>5. CASE OpenclawSessionKeys
  BY <1>1, <1>5, ToolFacts, AskForRoute DEF OpenclawSessionKeys, Using
<1>6. CASE OpenclawRevokeAll
  BY <1>1, <1>6, ToolFacts, AskForRoute DEF OpenclawRevokeAll
<1>7. CASE OpenclawPayment
  BY <1>1, <1>7, ToolFacts, AskRoute DEF OpenclawPayment, Using
<1>8. CASE OpenclawSolanaPayment
  BY <1>1, <1>8, ToolFacts, AskRoute DEF OpenclawSolanaPayment
<1>9. QED
  BY <1>2, <1>3, <1>4, <1>5, <1>6, <1>7, <1>8

LEMMA ElizaRoute ==
    ASSUME RouteInv, ElizaHealth \/ GuardedPayment \/ GuardedSolanaPayment
    PROVE  RouteInv'
<1>1. ~agent.busy /\ ~Over /\ config.host = "elizaos"
  BY DEF ElizaHealth, GuardedPayment, GuardedSolanaPayment, Using
<1> USE DEF Methods, Addressed
<1>2. CASE ElizaHealth
  BY <1>1, <1>2, ToolFacts, AtOnceRoute, AskRoute DEF ElizaHealth
<1>3. CASE GuardedPayment
  BY <1>1, <1>3, ToolFacts, AtOnceRoute, AskRoute DEF GuardedPayment, Using, Unpayable
<1>4. CASE GuardedSolanaPayment
  BY <1>1, <1>4, ToolFacts, AtOnceRoute, AskRoute DEF GuardedSolanaPayment
<1>5. QED
  BY <1>2, <1>3, <1>4

LEMMA Cod3xRoute ==
    ASSUME RouteInv, GuardedExecute \/ Cod3xManagement
    PROVE  RouteInv'
<1>1. ~agent.busy /\ ~Over
  BY DEF GuardedExecute, Cod3xManagement, Using
<1> USE DEF Methods, Creations, Revocations, Reads, Addressed
<1>2. CASE GuardedExecute
  BY <1>1, <1>2, ToolFacts, AskRoute DEF GuardedExecute, Using
<1>3. CASE Cod3xManagement
  BY <1>1, <1>3, ToolFacts, AskRoute DEF Cod3xManagement, Using
<1>4. QED
  BY <1>2, <1>3

-----------------------------------------------------------------------------
(* The specification. *)

LEMMA RouteFrame ==
    ASSUME RouteInv, UNCHANGED <<sdkOnly, agent>>
    PROVE  RouteInv'
<1>1. UNCHANGED <<config, calls, served, agent>>
  BY DEF sdkOnly
<1>2. CallsInv' /\ ServedInv'
  BY <1>1 DEF RouteInv, CallsInv, ServedInv
<1>3. EndedInv' /\ AgentInv' /\ DemoInv'
  BY <1>1 DEF RouteInv, EndedInv, AgentInv, DemoInv, Creates, Classified
<1>4. QED
  BY <1>2, <1>3 DEF RouteInv

LEMMA NextRoute ==
    ASSUME RouteInv, [ToolNext]_toolVars
    PROVE  RouteInv'
<1>1. CASE Use
  BY <1>1, OpenclawRoute, ElizaRoute, Cod3xRoute DEF Use
<1>2. CASE Return
  BY <1>2, ReturnRoute
<1>3. CASE Client /\ UNCHANGED agent
  BY <1>3, ClientRoute
<1>4. CASE Proxy /\ UNCHANGED agent
  BY <1>4, ServeRoute, RouteFrame DEF Proxy
<1>5. CASE UNCHANGED toolVars
  BY <1>5, RouteFrame DEF toolVars, sdkVars
<1>6. QED
  BY <1>1, <1>2, <1>3, <1>4, <1>5 DEF ToolNext, Finished

\* The invariant of the SDK and the tools by themselves.
THEOREM RouteInvCorrect == ToolSpec => []RouteInv
<1>1. ToolInit => RouteInv
  BY ToolInitInv
<1>2. RouteInv /\ [ToolNext]_toolVars => RouteInv'
  BY NextRoute
<1>3. QED
  BY <1>1, <1>2, PTL DEF ToolSpec

LEMMA WriteManages ==
    ASSUME NEW c \in CallRow, CallOK(c), NEW row \in Agents \cup RuleIds \cup Keys, Write(c, row)
    PROVE  Manage
<1>1. /\ c.method = "createAgent" => row \in Agents
      /\ c.method = "createRule" => row \in RuleIds
      /\ c.method = "createSessionKey" => row \in Keys
      /\ c.method \in Addressed => c.agent \in Agents
      /\ c.method = "revokeSessionKey" => c.arg \in Keys
  BY WriteRow DEF CallOK
<1>2. CASE c.method = "createAgent" /\ CreateAgent(row)
  BY <1>1, <1>2 DEF Manage, ManageAgent
<1>3. CASE c.method = "createRule" /\ CreateRule(row, c.agent)
  BY <1>1, <1>3 DEF Manage, ManageAgent, Addressed
<1>4. CASE c.method = "createSessionKey" /\ CreateSessionKey(row, c.agent)
  BY <1>1, <1>4 DEF Manage, ManageAgent, Addressed
<1>5. CASE c.method = "revokeSessionKey" /\ row = c.arg /\ RevokeSessionKey(row, c.agent)
  BY <1>1, <1>5 DEF Manage, ManageAgent, Addressed
<1>6. CASE c.method = "revokeAll" /\ row = c.agent /\ RevokeAll(row)
  BY <1>1, <1>6 DEF Manage, ManageAgent, Addressed
<1>7. QED
  BY <1>2, <1>3, <1>4, <1>5, <1>6 DEF Write

LEMMA ToolStep ==
    ASSUME RouteInv, [ToolNext]_toolVars
    PROVE  [Next]_vars
<1>1. ASSUME Use PROVE UNCHANGED vars
  <2> USE DEF Ask, Start, AtOnce, AskFor, sdkVars
  <2>1. CASE OpenclawHealth \/ OpenclawAgents \/ OpenclawRules \/ OpenclawSessionKeys
    BY <2>1 DEF OpenclawHealth, OpenclawAgents, OpenclawRules, OpenclawSessionKeys
  <2>2. CASE OpenclawRevokeAll \/ OpenclawPayment \/ OpenclawSolanaPayment
    BY <2>2 DEF OpenclawRevokeAll, OpenclawPayment, OpenclawSolanaPayment
  <2>3. CASE ElizaHealth \/ GuardedPayment \/ GuardedSolanaPayment
    BY <2>3 DEF ElizaHealth, GuardedPayment, GuardedSolanaPayment
  <2>4. CASE GuardedExecute \/ Cod3xManagement
    BY <2>4 DEF GuardedExecute, Cod3xManagement
  <2>5. QED
    BY <1>1, <2>1, <2>2, <2>3, <2>4 DEF Use
<1>2. ASSUME Return \/ Client \/ UNCHANGED toolVars PROVE UNCHANGED vars
  BY <1>2 DEF Return, Client, Answer, NetworkError, Wake, toolVars, sdkVars
<1>3. ASSUME NEW n \in 1..MaxCalls, NEW i \in Attempts, Serve(n, i) PROVE [Next]_vars
  <2>1. calls[n] \in CallRow /\ CallOK(calls[n])
    BY <1>3, ServeChange, CallRows DEF RouteInv
  <2>2. \/ UNCHANGED vars
        \/ \E row \in Agents \cup RuleIds \cup Keys : Write(calls[n], row)
    BY <1>3 DEF Serve
  <2>3. QED
    BY <2>1, <2>2, WriteManages DEF Next
<1>4. ASSUME Proxy PROVE [Next]_vars
  BY <1>3, <1>4 DEF Proxy, Arrive, Next
<1>5. QED
  BY <1>1, <1>2, <1>4 DEF ToolNext, Finished

\* Whatever the tools do with the SDK, and the network with its attempts, the
\* proxy does what it may do for any of its callers: so every theorem of
\* PaymentProxy_proofs that concludes from Spec holds under the tools.
THEOREM ToolsUnderneath == ToolSpec => Spec
<1>1. ToolInit => Init
  BY DEF ToolInit, SdkInit
<1>2. RouteInv /\ [ToolNext]_toolVars => [Next]_vars
  BY ToolStep
<1>3. QED
  BY <1>1, <1>2, RouteInvCorrect, PTL DEF ToolSpec, Spec

\* The client's calls, their attempts and outcomes, what the proxy served and
\* what the tools returned keep their types.
THEOREM ToolTypeCorrect == ToolSpec => []ToolType
<1>1. RouteInv => ToolType
  <2> SUFFICES ASSUME RouteInv PROVE ToolType
    OBVIOUS
  <2> USE DEF RouteInv
  <2>1. \A c \in CallRow :
          /\ c.method \in Methods /\ c.attempt \in Attempts /\ c.state \in {"fetch", "sleep", "done"}
          /\ c.outcome \in Answers \cup {"OK", Absent} \cup Errors /\ c.lost \in BOOLEAN
    BY DEF CallRow
  <2>2. ClientType
    BY <2>1, CallRows DEF ClientType, CallsInv, ServedInv, ServedRow
  <2>3. QED
    BY <2>2 DEF ToolType, AgentInv
<1>2. QED
  BY <1>1, RouteInvCorrect, PTL
=============================================================================
