-------------------------- MODULE AgentTruth_proofs --------------------------
(***************************************************************************)
(* Theorems about AgentTools over the proxy, for every configuration, any  *)
(* number of calls, retries and keys: what a call of the SDK, and a tool   *)
(* over it, reports is true of the proxy, now and later.                   *)
(***************************************************************************)
EXTENDS AgentTools_proofs

-----------------------------------------------------------------------------
(* What an answer of the proxy says, and what has become of every attempt. *)

\* A request that was answered 200 was delivered, and one that was delivered
\* was not refused.
SettledInv ==
    \A r \in Requests :
        /\ r \in delivered => status[r] \in {"Forwarded", "UpstreamFailed", "Internal"}
        /\ status[r] \in {"Forwarded", "UpstreamFailed"} => r \in delivered

BodyOf(n) == [calls[n].arg EXCEPT !.agent = calls[n].agent]

\* Every request is an attempt of a payment, with the payment's body.
IsAttempt(r, n, i) == IsPayment(n) /\ r = Request(n, i) /\ payload[r] = BodyOf(n)

AttemptInv ==
    \A r \in Requests : status[r] # "idle" =>
        \E n \in 1..Len(calls), i \in Attempts : IsAttempt(r, n, i)

\* Unless one was lost, the earlier attempts of a payment were answered 429;
\* and a payment that ended with an answer had it from its last attempt.
Passed(n, i) == i < calls[n].attempt \/ (i = calls[n].attempt /\ calls[n].state = "sleep")

HistoryInv ==
    \A n \in 1..Len(calls) : IsPayment(n) =>
        /\ ~calls[n].lost => \A i \in Attempts :
              Passed(n, i) /\ Request(n, i) \in Requests => status[Request(n, i)] = "RateLimited"
        /\ calls[n].state = "done" /\ calls[n].outcome # "Unreachable" =>
              LET r == Request(n, calls[n].attempt)
              IN  /\ r \in Requests /\ status[r] \in Answers
                  /\ calls[n].outcome \in {status[r], "Unreadable"}

-----------------------------------------------------------------------------
(* Revocation. *)

\* Has an attempt of call n deactivated the agent?
Deactivated(n) ==
    calls[n].method = "revokeAll" /\ \E i \in Attempts : served[n][i].row # Absent

RevokeInv ==
    \A n \in 1..Len(calls) : Deactivated(n) => agents[calls[n].agent] = "inactive"

\* The attempts of a payment that is made afterwards are blocked.
ShutOutInv ==
    \A n \in 1..Len(calls), i \in Attempts :
        IsPayment(n) /\ RevokedBefore(n) /\ Request(n, i) \in Requests =>
            status[Request(n, i)] = "idle" \/ Blocked(Request(n, i))

\* A key that is still usable was created late or afterwards.
LateFor(k, n) ==
    \E m \in 1..Len(calls) :
        /\ calls[m].method = "createSessionKey" /\ k \in RowsOf(m)
        /\ calls[m].lost \/ m > n

KeyInv ==
    \A n \in 1..Len(calls) : Deactivated(n) =>
        \A k \in Keys : keys[k] # Absent /\ keys[k].agent = calls[n].agent /\ ~keys[k].revoked =>
            LateFor(k, n)

TruthInv ==
    /\ RouteInv /\ IInv
    /\ SettledInv /\ AttemptInv /\ HistoryInv /\ RevokeInv /\ ShutOutInv /\ KeyInv

-----------------------------------------------------------------------------
(* The steps of one request. *)

LEMMA RequestStep ==
    ASSUME IInv, NEW r \in Requests, Step(r) \/ Abort(r)
    PROVE  /\ status[r] \in Awaits /\ UNCHANGED payload
           /\ \E s : /\ Goto(r, s) /\ s # "idle"
                     /\ \/ UNCHANGED delivered /\ s \notin {"Forwarded", "UpstreamFailed"}
                        \/ /\ delivered' = delivered \cup {r}
                           /\ s \in {"Forwarded", "UpstreamFailed", "Internal"}
<1> DEFINE Quiet == \E s : /\ Goto(r, s) /\ s # "idle" /\ UNCHANGED delivered
                           /\ s \notin {"Forwarded", "UpstreamFailed"}
<1>1. status[r] \in Awaits /\ UNCHANGED payload
  BY DEF Step, Abort, FindKey, FindAgent, FindRules, SumSpent, StoreNonce, CheckRate,
         BeginInsert, CommitInsert, ChargeKey, Forward, locals, Awaits
<1>2. ASSUME FindKey(r) PROVE Quiet
  BY <1>2 DEF FindKey, AnswerOfKey, AfterKey
<1>3. ASSUME FindAgent(r) PROVE Quiet
  BY <1>3 DEF FindAgent, AnswerOfAgent
<1>4. ASSUME FindRules(r) \/ SumSpent(r) PROVE Quiet
  BY <1>4 DEF FindRules, SumSpent
<1>5. ASSUME StoreNonce(r) \/ CheckRate(r) PROVE Quiet
  BY <1>5 DEF StoreNonce, CheckRate
<1>6. ASSUME BeginInsert(r) \/ CommitInsert(r) PROVE Quiet
  <2>1. CASE BeginInsert(r)
    <3>1. Goto(r, "Internal") \/ Goto(r, "inserting")
      BY <2>1 DEF BeginInsert
    <3>2. QED
      BY <2>1, <3>1 DEF BeginInsert
  <2>2. CASE CommitInsert(r)
    <3>1. \/ Goto(r, "Internal") \/ Goto(r, "GuardrailViolation")
          \/ Goto(r, "charge") \/ Goto(r, "forward")
      BY <2>2 DEF CommitInsert
    <3>2. QED
      BY <2>2, <3>1 DEF CommitInsert
  <2>3. QED
    BY <1>6, <2>1, <2>2
<1>7. ASSUME ChargeKey(r) \/ Abort(r) PROVE Quiet
  BY <1>7 DEF ChargeKey, Abort
<1>8. CASE Forward(r)
  BY <1>1, <1>8 DEF Forward
<1>9. QED
  BY <1>1, <1>2, <1>3, <1>4, <1>5, <1>6, <1>7, <1>8 DEF Step

LEMMA ReceiveStep ==
    ASSUME IInv, NEW r \in Requests, Receive(r)
    PROVE  /\ status[r] = "idle" /\ UNCHANGED <<delivered, tables>>
           /\ \E p \in Payload : /\ payload' = [payload EXCEPT ![r] = p]
                                 /\ Goto(r, VerifyPayment(p))
                                 /\ VerifyPayment(p) \in
                                      {"BadRequest", "Unauthorized", "findKey", "findAgent", "storeNonce"}
                                 /\ VerifyPayment(p) = "storeNonce" => p.agent = Absent
<1>1. PICK p \in Payloads : payload' = [payload EXCEPT ![r] = p] /\ Goto(r, VerifyPayment(p))
  BY DEF Receive
<1>2. p \in Payload
  BY ProxyAssumption
<1>3. /\ VerifyPayment(p) \in {"BadRequest", "Unauthorized", "findKey", "findAgent", "storeNonce"}
      /\ VerifyPayment(p) = "storeNonce" => p.agent = Absent
  BY <1>2 DEF VerifyPayment, FirstAwait, AfterKey, Payload, Forms
<1>4. QED
  BY <1>1, <1>2, <1>3 DEF Receive, tables

\* What a step of the proxy may do to a request.
LEMMA StatusStep ==
    ASSUME IInv, SettledInv, [Next]_vars, NEW r \in Requests
    PROVE  /\ status[r] \in Answers \cup {"Aborted"} => status'[r] = status[r]
           /\ status[r] # "idle" => status'[r] # "idle" /\ payload'[r] = payload[r]
           /\ r \in delivered' => status'[r] \in {"Forwarded", "UpstreamFailed", "Internal"}
           /\ status'[r] \in {"Forwarded", "UpstreamFailed"} => r \in delivered'
<1> DEFINE Kept == status'[r] = status[r] /\ payload'[r] = payload[r] /\ (r \in delivered' <=> r \in delivered)
           Conclusion ==
             /\ status[r] \in Answers \cup {"Aborted"} => status'[r] = status[r]
             /\ status[r] # "idle" => status'[r] # "idle" /\ payload'[r] = payload[r]
             /\ r \in delivered' => status'[r] \in {"Forwarded", "UpstreamFailed", "Internal"}
             /\ status'[r] \in {"Forwarded", "UpstreamFailed"} => r \in delivered'
<1> SUFFICES Conclusion
  OBVIOUS
<1>1. /\ status \in [Requests -> {"idle", "Aborted"} \cup Awaits \cup Answers]
      /\ payload \in [Requests -> Payloads \cup {Absent}]
  BY DEF IInv, TypeOK
<1>2. ASSUME Kept PROVE Conclusion
  BY <1>2 DEF SettledInv
<1>3. ASSUME NEW q \in Requests, Step(q) \/ Abort(q) PROVE Conclusion
  <2>1. /\ status[q] \in Awaits /\ UNCHANGED payload
        /\ \E s : /\ Goto(q, s) /\ s # "idle"
                  /\ \/ UNCHANGED delivered /\ s \notin {"Forwarded", "UpstreamFailed"}
                     \/ /\ delivered' = delivered \cup {q}
                        /\ s \in {"Forwarded", "UpstreamFailed", "Internal"}
    BY <1>3, RequestStep
  <2>2. CASE q # r
    BY <1>1, <1>2, <2>1, <2>2 DEF Goto
  <2>3. CASE q = r
    <3>1. status[r] \notin {"idle", "Aborted"} \cup Answers /\ r \notin delivered
      BY <2>1, <2>3 DEF Awaits, Answers, SettledInv
    <3>2. QED
      BY <1>1, <2>1, <2>3, <3>1 DEF Goto
  <2>4. QED
    BY <2>2, <2>3
<1>4. ASSUME NEW q \in Requests, Receive(q) PROVE Conclusion
  <2>1. /\ status[q] = "idle" /\ UNCHANGED delivered
        /\ \E p \in Payload : /\ payload' = [payload EXCEPT ![q] = p]
                              /\ Goto(q, VerifyPayment(p))
                              /\ VerifyPayment(p) \in
                                   {"BadRequest", "Unauthorized", "findKey", "findAgent", "storeNonce"}
    BY <1>4, ReceiveStep
  <2>2. CASE q # r
    BY <1>1, <1>2, <2>1, <2>2 DEF Goto
  <2>3. CASE q = r
    <3>1. status[r] \notin {"Aborted"} \cup Answers /\ r \notin delivered
      BY <2>1, <2>3 DEF Answers, SettledInv
    <3>2. QED
      BY <1>1, <2>1, <2>3, <3>1 DEF Goto
  <2>4. QED
    BY <2>2, <2>3
<1>5. ASSUME Manage \/ Tick \/ LoseNonces \/ Done \/ UNCHANGED vars PROVE Kept
  BY <1>5 DEF Manage, ManageAgent, CreateAgent, RevokeAll, CreateRule, UpdateRule, DeactivateRule,
      CreateSessionKey, RevokeSessionKey, dbOnly, locals, Tick, LoseNonces, Done, vars
<1> HIDE DEF Conclusion, Kept
<1>6. QED
  BY <1>2, <1>3, <1>4, <1>5 DEF Next

-----------------------------------------------------------------------------
(* The numbers of the payments. *)

LEMMA CountGrows ==
    ASSUME NEW S, NEW n \in Nat, NEW m \in Nat, m < n, n \in S
    PROVE  Cardinality({x \in 1..m : x \in S}) # Cardinality({x \in 1..n : x \in S})
<1> DEFINE A == {x \in 1..m : x \in S}
           B == {x \in 1..n : x \in S}
<1>1. IsFiniteSet(1..n)
  BY FS_Interval
<1>2. IsFiniteSet(B)
  BY <1>1, FS_Subset
<1>3. A \in SUBSET B /\ n \in B /\ n \notin A
  OBVIOUS
<1> HIDE DEF A, B
<1>4. Cardinality(A) # Cardinality(B)
  BY <1>2, <1>3, FS_Subset
<1>5. QED
  BY <1>4 DEF A, B

\* Two payments have no request in common.
LEMMA RequestsApart ==
    ASSUME NEW n \in Nat, NEW m \in Nat, IsPayment(n), IsPayment(m), n > 0, m > 0,
           NEW i, NEW j, Request(n, i) = Request(m, j)
    PROVE  n = m /\ i = j
<1> DEFINE S == {x \in Nat : IsPayment(x)}
<1>1. \A k \in Nat : {x \in 1..k : IsPayment(x)} = {x \in 1..k : x \in S}
  OBVIOUS
<1>2. /\ i = j
      /\ Cardinality({x \in 1..n : x \in S}) = Cardinality({x \in 1..m : x \in S})
  BY <1>1 DEF Request
<1>3. n \in S /\ m \in S
  OBVIOUS
<1> HIDE DEF S
<1>4. ~(m < n) /\ ~(n < m)
  BY <1>2, <1>3, CountGrows
<1>5. QED
  BY <1>2, <1>4

-----------------------------------------------------------------------------
(* The steps of the SDK and the tools, by what they change. *)

Begun ==
    /\ UNCHANGED <<vars, config, served>>
    /\ \A n \in 1..Len(calls) : calls[n].state = "done"
    /\ \E c : /\ calls' = Append(calls, c)
             /\ c.state = "fetch" /\ c.attempt = 0 /\ ~c.lost /\ c.outcome = Absent

Served == \E n \in 1..MaxCalls, i \in Attempts : Serve(n, i)

Run ==
    \/ \E n \in 1..MaxCalls, i \in Attempts : Arrive(n, i)
    \/ \E r \in Requests : Step(r) \/ Abort(r)
    \/ Tick \/ LoseNonces \/ UNCHANGED vars

LEMMA Kinds ==
    ASSUME RouteInv, [ToolNext]_toolVars
    PROVE  Begun \/ Client \/ Served \/ (Run /\ UNCHANGED <<config, calls, served>>)
<1>1. ASSUME NEW method, NEW id, NEW arg, Start(method, id, arg) PROVE Begun
  <2>1. \A n \in 1..Len(calls) : calls[n].state = "done"
    BY <1>1, CallRows DEF Start, Idle, call, Current, RouteInv, CallsInv
  <2>2. QED
    BY <1>1, <2>1 DEF Start, Begun
<1>2. ASSUME NEW result, AtOnce(result) PROVE UNCHANGED <<vars, config, calls, served>>
  BY <1>2 DEF AtOnce, sdkVars, sdkOnly
<1>3. ASSUME Use PROVE Begun \/ UNCHANGED <<vars, config, calls, served>>
  <2> USE DEF Ask, AskFor
  <2>1. CASE OpenclawHealth \/ OpenclawAgents \/ OpenclawRules \/ OpenclawSessionKeys
    BY <1>1, <1>2, <2>1 DEF OpenclawHealth, OpenclawAgents, OpenclawRules, OpenclawSessionKeys
  <2>2. CASE OpenclawRevokeAll \/ OpenclawPayment \/ OpenclawSolanaPayment
    BY <1>1, <1>2, <2>2 DEF OpenclawRevokeAll, OpenclawPayment, OpenclawSolanaPayment
  <2>3. CASE ElizaHealth \/ GuardedPayment \/ GuardedSolanaPayment
    BY <1>1, <1>2, <2>3 DEF ElizaHealth, GuardedPayment, GuardedSolanaPayment
  <2>4. CASE GuardedExecute \/ Cod3xManagement
    BY <1>1, <1>2, <2>4 DEF GuardedExecute, Cod3xManagement
  <2>5. QED
    BY <1>3, <2>1, <2>2, <2>3, <2>4 DEF Use
<1>4. ASSUME Return \/ UNCHANGED toolVars PROVE UNCHANGED <<vars, config, calls, served>>
  BY <1>4 DEF Return, toolVars, sdkVars, sdkOnly
<1>5. ASSUME Proxy PROVE Served \/ (Run /\ UNCHANGED <<config, calls, served>>)
  BY <1>5 DEF Proxy, Served, Run, sdkOnly
<1>6. QED
  BY <1>3, <1>4, <1>5 DEF ToolNext, Finished, Run

\* Calls are added one at a time, when the one before has ended, and keep
\* their request; what was served stays.
LEMMA Onward ==
    ASSUME RouteInv, [ToolNext]_toolVars
    PROVE  /\ Len(calls) \in Nat
           /\ \A n \in 1..Len(calls) :
                /\ n \in 1..Len(calls')
                /\ calls'[n].method = calls[n].method /\ calls'[n].agent = calls[n].agent
                /\ calls'[n].arg = calls[n].arg
                /\ calls[n].lost => calls'[n].lost
                /\ calls[n].state = "done" => calls'[n] = calls[n]
                /\ calls[n].attempt \in Nat /\ calls'[n].attempt \in Nat
                /\ calls[n].attempt <= calls'[n].attempt
           /\ \A n \in 1..Len(calls') : n \in 1..Len(calls) \/
                /\ n = Len(calls) + 1 /\ Begun
                /\ calls'[n].state = "fetch" /\ calls'[n].attempt = 0
                /\ ~calls'[n].lost /\ calls'[n].outcome = Absent
           /\ \A n \in 1..MaxCalls, i \in Attempts :
                served[n][i] # NotServed => served'[n][i] = served[n][i]
<1> DEFINE Kept ==
      \A n \in 1..Len(calls) :
         /\ n \in 1..Len(calls')
         /\ calls'[n].method = calls[n].method /\ calls'[n].agent = calls[n].agent
         /\ calls'[n].arg = calls[n].arg
         /\ calls[n].lost => calls'[n].lost
         /\ calls[n].state = "done" => calls'[n] = calls[n]
         /\ calls[n].attempt <= calls'[n].attempt
    Fresh ==
      \A n \in 1..Len(calls') : n \in 1..Len(calls) \/
         /\ n = Len(calls) + 1 /\ Begun
         /\ calls'[n].state = "fetch" /\ calls'[n].attempt = 0
         /\ ~calls'[n].lost /\ calls'[n].outcome = Absent
    Stays ==
      \A n \in 1..MaxCalls, i \in Attempts :
         served[n][i] # NotServed => served'[n][i] = served[n][i]
<1>1. Len(calls) \in Nat /\ calls \in Seq(CallRow) /\ CallsInv'
  BY CallRows, NextRoute DEF RouteInv, CallsInv
<1>2. \A n \in 1..Len(calls) : calls[n].attempt \in Nat
  BY CallRows, RetryAssumption DEF RouteInv, Attempts
<1>3. \A n \in 1..Len(calls') : calls'[n].attempt \in Nat
  <2>1. \A c \in CallRow : c.attempt \in Nat
    BY RetryAssumption DEF CallRow, Attempts
  <2>2. QED
    BY <1>1, <2>1 DEF CallsInv
<1>4. ASSUME Begun PROVE Kept /\ Fresh /\ Stays
  <2>1. PICK c : /\ calls' = Append(calls, c)
                 /\ c.state = "fetch" /\ c.attempt = 0 /\ ~c.lost /\ c.outcome = Absent
    BY <1>4 DEF Begun
  <2>2. /\ Len(calls') = Len(calls) + 1 /\ calls'[Len(calls) + 1] = c
        /\ \A n \in 1..Len(calls) : calls'[n] = calls[n]
    BY <1>1, <2>1
  <2>3. Kept /\ Fresh
    BY <1>1, <1>2, <1>4, <2>1, <2>2
  <2>4. Stays
    BY <1>4 DEF Begun
  <2>5. QED
    BY <2>3, <2>4
<1>5. ASSUME Client PROVE Kept /\ Fresh /\ Stays
  <2>1. UNCHANGED served /\ Len(calls) \in 1..Len(calls) /\ call = calls[Len(calls)]
        /\ call.state # "done"
    BY <1>1, <1>5, ClientChange, RetryAssumption
  <2>2. PICK c : /\ Successor(c) /\ Len(calls') = Len(calls) /\ calls'[Len(calls)] = c
                 /\ \A n \in 1..Len(calls) : n # Len(calls) => calls'[n] = calls[n]
    BY <1>5, ClientChange
  <2>3. /\ c.method = call.method /\ c.agent = call.agent /\ c.arg = call.arg
        /\ (call.lost => c.lost) /\ call.attempt <= c.attempt
    BY <1>2, <2>1, <2>2 DEF Successor
  <2>4. QED
    BY <1>1, <1>2, <2>1, <2>2, <2>3
<1>6. ASSUME Served PROVE Kept /\ Fresh /\ Stays
  <2>1. PICK n \in 1..MaxCalls, i \in Attempts : Serve(n, i)
    BY <1>6 DEF Served
  <2>2. UNCHANGED calls /\ served[n][i] = NotServed
        /\ \A m \in 1..MaxCalls, j \in Attempts :
              <<m, j>> # <<n, i>> => served'[m][j] = served[m][j]
    BY <2>1, ServeChange
  <2>3. QED
    BY <1>1, <1>2, <2>2
<1>7. ASSUME UNCHANGED <<calls, served>> PROVE Kept /\ Fresh /\ Stays
  BY <1>2, <1>7
<1> HIDE DEF Fresh, Stays
<1>8. Kept /\ Fresh /\ Stays
  BY <1>4, <1>5, <1>6, <1>7, Kinds
<1>9. QED
  BY <1>1, <1>2, <1>3, <1>8 DEF Fresh, Stays

LEMMA RequestKept ==
    ASSUME RouteInv, [ToolNext]_toolVars, NEW n \in 1..Len(calls), NEW i
    PROVE  /\ Request(n, i)' = Request(n, i)
           /\ IsPayment(n)' <=> IsPayment(n)
<1>1. /\ Len(calls) \in Nat
      /\ \A m \in 1..Len(calls) : calls'[m].method = calls[m].method
  BY Onward
<1>2. \A m \in 1..n : m \in 1..Len(calls)
  BY <1>1
<1>3. {m \in 1..n : IsPayment(m)}' = {m \in 1..n : IsPayment(m)}
  BY <1>1, <1>2 DEF IsPayment
<1>4. QED
  BY <1>1, <1>3 DEF Request, IsPayment

\* A request that begins is an attempt that arrives.
LEMMA OnlyArrivals ==
    ASSUME RouteInv, IInv, [ToolNext]_toolVars, NEW r \in Requests,
           status[r] = "idle", status'[r] # "idle"
    PROVE  /\ UNCHANGED <<config, calls, served, agents>> /\ Receive(r)
           /\ \E n \in 1..Len(calls), i \in Attempts :
                IsPayment(n) /\ r = Request(n, i) /\ payload'[r] = BodyOf(n)
<1>1. status \in [Requests -> {"idle", "Aborted"} \cup Awaits \cup Answers]
  BY DEF IInv, TypeOK
<1>2. ~Begun /\ ~Client
  BY ClientChange DEF Begun, vars
<1>3. ~Served
  <2>1. SUFFICES ASSUME NEW n \in 1..MaxCalls, NEW i \in Attempts, Serve(n, i) PROVE FALSE
    BY DEF Served
  <2>2. UNCHANGED vars \/ \E row : Write(calls[n], row)
    BY <2>1, ServeChange
  <2>3. UNCHANGED status
    BY <2>2 DEF Write, CreateAgent, CreateRule, CreateSessionKey, RevokeSessionKey, RevokeAll,
        dbOnly, vars
  <2>4. QED
    BY <2>3
<1>4. Run /\ UNCHANGED <<config, calls, served>>
  BY <1>2, <1>3, Kinds
<1>5. ~(\E q \in Requests : Step(q) \/ Abort(q))
  <2>1. SUFFICES ASSUME NEW q \in Requests, Step(q) \/ Abort(q) PROVE FALSE
    OBVIOUS
  <2>2. status[q] \in Awaits /\ \E s : Goto(q, s)
    BY <2>1, RequestStep
  <2>3. q # r
    BY <2>2 DEF Awaits
  <2>4. QED
    BY <1>1, <2>2, <2>3 DEF Goto
<1>6. PICK n \in 1..MaxCalls, i \in Attempts : Arrive(n, i)
  BY <1>4, <1>5 DEF Run, Tick, LoseNonces, vars
<1>7. /\ n \in 1..Len(calls) /\ IsPayment(n) /\ Request(n, i) \in Requests
      /\ Receive(Request(n, i)) /\ payload'[Request(n, i)] = BodyOf(n)
  BY <1>6, CallRows DEF Arrive, Sent, BodyOf, RouteInv
<1>8. r = Request(n, i) /\ UNCHANGED agents
  BY <1>1, <1>7, ReceiveStep DEF Goto, tables
<1>9. QED
  BY <1>4, <1>7, <1>8

-----------------------------------------------------------------------------
(* The invariant. *)

LEMMA TruthInit == ToolInit => TruthInv
<1> SUFFICES ASSUME ToolInit PROVE TruthInv
  OBVIOUS
<1>1. RouteInv /\ IInv
  BY ToolInitInv, InitIInv DEF ToolInit, SdkInit
<1>2. /\ calls = <<>> /\ delivered = {} /\ \A r \in Requests : status[r] = "idle"
  BY DEF ToolInit, SdkInit, Init
<1>3. SettledInv /\ AttemptInv /\ HistoryInv /\ RevokeInv /\ ShutOutInv /\ KeyInv
  BY <1>2 DEF SettledInv, AttemptInv, HistoryInv, RevokeInv, ShutOutInv, KeyInv
<1>4. QED
  BY <1>1, <1>3 DEF TruthInv

LEMMA ProxyPart ==
    ASSUME TruthInv, [ToolNext]_toolVars
    PROVE  RouteInv' /\ IInv' /\ SettledInv' /\ [Next]_vars
<1>1. [Next]_vars
  BY ToolStep DEF TruthInv
<1>2. RouteInv' /\ IInv'
  BY <1>1, NextRoute, NextIInv DEF TruthInv
<1>3. SettledInv'
  BY <1>1, StatusStep DEF TruthInv, SettledInv
<1>4. QED
  BY <1>1, <1>2, <1>3

LEMMA AttemptStep ==
    ASSUME TruthInv, [ToolNext]_toolVars
    PROVE  AttemptInv'
<1> USE DEF TruthInv
<1> SUFFICES ASSUME NEW r \in Requests, status'[r] # "idle"
             PROVE  \E n \in 1..Len(calls'), i \in Attempts : IsAttempt(r, n, i)'
  BY DEF AttemptInv
<1>1. CASE status[r] # "idle"
  <2>1. PICK n \in 1..Len(calls), i \in Attempts : IsAttempt(r, n, i)
    BY <1>1 DEF AttemptInv
  <2>2. /\ n \in 1..Len(calls') /\ calls'[n].agent = calls[n].agent
        /\ calls'[n].arg = calls[n].arg
    BY Onward
  <2>3. Request(n, i)' = Request(n, i) /\ (IsPayment(n)' <=> IsPayment(n))
    BY RequestKept
  <2>4. payload'[r] = payload[r]
    BY <1>1, ProxyPart, StatusStep
  <2>5. QED
    BY <2>1, <2>2, <2>3, <2>4 DEF IsAttempt, BodyOf
<1>2. CASE status[r] = "idle"
  <2>1. UNCHANGED calls /\ \E n \in 1..Len(calls), i \in Attempts :
           IsPayment(n) /\ r = Request(n, i) /\ payload'[r] = BodyOf(n)
    BY <1>2, OnlyArrivals
  <2>2. QED
    BY <2>1 DEF IsAttempt, IsPayment, Request, BodyOf
<1>3. QED
  BY <1>1, <1>2

LEMMA HistoryStep ==
    ASSUME TruthInv, [ToolNext]_toolVars
    PROVE  HistoryInv'
<1> USE DEF TruthInv
<1> DEFINE
      Early(n) == ~calls[n].lost => \A i \in Attempts :
              Passed(n, i) /\ Request(n, i) \in Requests => status[Request(n, i)] = "RateLimited"
      Last(n) == calls[n].state = "done" /\ calls[n].outcome # "Unreachable" =>
              LET r == Request(n, calls[n].attempt)
              IN  /\ r \in Requests /\ status[r] \in Answers
                  /\ calls[n].outcome \in {status[r], "Unreadable"}
<1> SUFFICES ASSUME NEW n \in 1..Len(calls'), IsPayment(n)' PROVE Early(n)' /\ Last(n)'
  BY DEF HistoryInv
<1>1. /\ status \in [Requests -> {"idle", "Aborted"} \cup Awaits \cup Answers]
      /\ \A r \in Requests : status[r] \in Answers => status'[r] = status[r]
  BY ProxyPart, StatusStep DEF IInv, TypeOK
<1>2. CASE n \notin 1..Len(calls)
  <2>1. calls'[n].state = "fetch" /\ calls'[n].attempt = 0
    BY <1>2, Onward
  <2>2. QED
    BY <2>1, RetryAssumption DEF Passed, Attempts
<1>3. CASE n \in 1..Len(calls) /\ calls'[n] = calls[n]
  <2>1. \A i : Request(n, i)' = Request(n, i)
    BY <1>3, RequestKept
  <2>2. Early(n) /\ Last(n)
    BY <1>3, RequestKept DEF HistoryInv
  <2>3. Early(n)'
    BY <1>1, <1>3, <2>1, <2>2 DEF Passed, Answers
  <2>4. Last(n)'
    BY <1>1, <1>3, <2>1, <2>2
  <2>5. QED
    BY <2>3, <2>4
<1>4. CASE n \in 1..Len(calls) /\ calls'[n] # calls[n]
  <2>1. Client
    <3>1. ~Begun
      BY <1>4, Onward DEF Begun
    <3>2. ~Served
      BY <1>4, ServeChange DEF Served
    <3>3. QED
      BY <1>4, <3>1, <3>2, Kinds
  <2>2. /\ UNCHANGED <<vars, served>> /\ n = Len(calls) /\ n \in 1..Len(calls)
        /\ call = calls[n] /\ Current = n /\ call.attempt \in Attempts
    BY <1>4, <2>1, ClientChange DEF Current
  <2>3. PICK c : Successor(c) /\ calls'[n] = c
    BY <2>1, <2>2, ClientChange
  <2>4. /\ \A i : Request(n, i)' = Request(n, i)
        /\ UNCHANGED status /\ IsPayment(n) /\ Early(n)
    BY <1>4, <2>2, RequestKept DEF HistoryInv, vars
  <2>5. ASSUME NEW i \in Attempts, AnswerTo(n, i) \in Answers \cup {"OK"}
        PROVE  /\ Request(n, i) \in Requests /\ status[Request(n, i)] = AnswerTo(n, i)
               /\ status[Request(n, i)] \in Answers
    <3>1. Request(n, i) \in Requests /\ status[Request(n, i)] = AnswerTo(n, i)
      BY <2>4, <2>5, RetryAssumption DEF AnswerTo
    <3>2. status[Request(n, i)] # "OK"
      BY <1>1, <3>1 DEF Awaits, Answers
    <3>3. QED
      BY <2>5, <3>1, <3>2
  <2>6. c.attempt \in Attempts /\ call.attempt \in Nat
    BY <2>2, <2>3, RetryAssumption DEF Successor, CallRow, Attempts
  <2>7. Early(n)'
    <3>1. SUFFICES ASSUME ~c.lost, NEW i \in Attempts,
                          i < c.attempt \/ (i = c.attempt /\ c.state = "sleep"),
                          Request(n, i) \in Requests
                   PROVE  status[Request(n, i)] = "RateLimited"
      BY <2>3, <2>4 DEF Passed
    <3>2. ~call.lost
      BY <2>3, <3>1 DEF Successor
    <3>3. CASE Passed(n, i)
      BY <2>2, <2>4, <3>1, <3>2, <3>3
    <3>4. CASE i = c.attempt /\ c.state = "sleep"
      <4>1. AnswerTo(n, i) = "RateLimited"
        BY <2>2, <2>3, <3>1, <3>4 DEF Successor
      <4>2. QED
        BY <2>5, <4>1 DEF Answers
    <3>5. CASE i < c.attempt
      <4>1. i \in Nat
        BY RetryAssumption DEF Attempts
      <4>2. \/ call.state = "fetch" /\ c.attempt = call.attempt
            \/ call.state = "sleep" /\ c.attempt = call.attempt + 1
        BY <2>3 DEF Successor
      <4>3. Passed(n, i)
        BY <2>2, <2>6, <3>5, <4>1, <4>2 DEF Passed
      <4>4. QED
        BY <3>3, <4>3
    <3>6. QED
      BY <3>1, <3>4, <3>5
  <2>8. Last(n)'
    <3>1. SUFFICES ASSUME c.state = "done", c.outcome # "Unreachable"
                   PROVE  LET r == Request(n, c.attempt)
                          IN  /\ r \in Requests /\ status[r] \in Answers
                              /\ c.outcome \in {status[r], "Unreadable"}
      BY <2>3, <2>4
    <3>2. /\ AnswerTo(n, c.attempt) \in Answers \cup {"OK"}
          /\ c.outcome \in {AnswerTo(n, c.attempt), "Unreadable"}
      BY <2>2, <2>3, <3>1 DEF Successor
    <3>3. QED
      BY <2>5, <2>6, <3>2
  <2>9. QED
    BY <2>7, <2>8
<1>5. QED
  BY <1>2, <1>3, <1>4

-----------------------------------------------------------------------------
(* Revocation. *)

\* What was served now, or before, or not at all.
LEMMA RowServed ==
    ASSUME RouteInv, [ToolNext]_toolVars, NEW n \in 1..Len(calls'), NEW i \in Attempts,
           served'[n][i].row # Absent
    PROVE  /\ n \in 1..Len(calls)
           /\ \/ served[n][i].row # Absent
              \/ /\ Serve(n, i) /\ UNCHANGED calls /\ served[n][i] = NotServed
                 /\ served'[n][i].row \in Agents \cup RuleIds \cup Keys
                 /\ Write(calls[n], served'[n][i].row)
<1>1. RouteInv' /\ n \in 1..MaxCalls
  BY NextRoute, RetryAssumption DEF RouteInv, CallsInv
<1>2. NotServed.row = Absent
  BY DEF NotServed
<1>3. CASE served[n][i] # NotServed
  <2>1. served'[n][i] = served[n][i] /\ n \in 1..Len(calls)
    BY <1>1, <1>3, Onward DEF RouteInv, ServedInv
  <2>2. QED
    BY <2>1
<1>4. CASE served[n][i] = NotServed
  <2>1. Served
    <3>1. ~(UNCHANGED served)
      BY <1>2, <1>4
    <3>2. QED
      BY <3>1, Kinds, ClientChange DEF Begun
  <2>2. PICK m \in 1..MaxCalls, j \in Attempts : Serve(m, j)
    BY <2>1 DEF Served
  <2>3. m = n /\ j = i
    BY <1>1, <1>2, <1>4, <2>2, ServeChange
  <2>4. QED
    BY <1>4, <2>2, <2>3, ServeChange
<1>5. QED
  BY <1>3, <1>4

LEMMA RevokeStep ==
    ASSUME TruthInv, [ToolNext]_toolVars
    PROVE  RevokeInv'
<1> USE DEF TruthInv
<1> SUFFICES ASSUME NEW n \in 1..Len(calls'), calls'[n].method = "revokeAll",
                    NEW i \in Attempts, served'[n][i].row # Absent
             PROVE  agents'[calls'[n].agent] = "inactive"
  BY DEF RevokeInv, Deactivated
<1>1. /\ n \in 1..Len(calls)
      /\ \/ served[n][i].row # Absent
         \/ Write(calls[n], served'[n][i].row)
  BY RowServed
<1>2. /\ calls[n].method = "revokeAll" /\ calls'[n].agent = calls[n].agent
      /\ calls[n].agent \in Agents
  BY <1>1, Onward, CallRows DEF RouteInv, CallOK, Addressed
<1>3. CASE served[n][i].row # Absent
  <2>1. agents[calls[n].agent] = "inactive"
    BY <1>1, <1>2, <1>3 DEF RevokeInv, Deactivated
  <2>2. QED
    BY <1>2, <2>1, ProxyPart, RevocationStep DEF IInv
<1>4. CASE Write(calls[n], served'[n][i].row)
  <2>1. RevokeAll(calls[n].agent)
    BY <1>2, <1>4 DEF Write
  <2>2. QED
    BY <1>2, <2>1 DEF RevokeAll, IInv, TypeOK
<1>5. QED
  BY <1>1, <1>3, <1>4

\* A call that was answered "OK" has left its row.
LEMMA AnsweredRow ==
    ASSUME RouteInv, NEW n \in 1..Len(calls), calls[n].method \in Writers,
           calls[n].outcome \in Success
    PROVE  /\ calls[n].attempt \in Attempts /\ calls[n].attempt \in 0..calls[n].attempt
           /\ n \in 1..MaxCalls /\ served[n][calls[n].attempt].row # Absent
<1>1. n \in 1..MaxCalls /\ calls[n].attempt \in Attempts /\ CallOK(calls[n])
  BY CallRows DEF RouteInv
<1>2. calls[n].state = "done"
  BY <1>1, RetryAssumption DEF CallOK, Success, Answers
<1>3. /\ served[n][calls[n].attempt] # NotServed
      /\ served[n][calls[n].attempt].answer = calls[n].outcome
  BY <1>2 DEF RouteInv, EndedInv, Success, Writers, Creations, Revocations
<1>4. served[n][calls[n].attempt].row # Absent
  BY <1>1, <1>3 DEF RouteInv, ServedInv, ServedOK
<1>5. calls[n].attempt \in 0..calls[n].attempt
  BY <1>1, RetryAssumption DEF Attempts
<1>6. QED
  BY <1>1, <1>4, <1>5

LEMMA RevokedAgent ==
    ASSUME RouteInv, RevokeInv, NEW n \in 1..Len(calls), RevokedBefore(n)
    PROVE  calls[n].agent \in Agents /\ agents[calls[n].agent] = "inactive"
<1>1. PICK m \in 1..Len(calls) :
        /\ calls[m].method = "revokeAll" /\ calls[m].agent = calls[n].agent
        /\ calls[m].outcome = "OK"
  BY CallRows DEF RevokedBefore, CallsOf, RouteInv
<1>2. Deactivated(m)
  BY <1>1, AnsweredRow DEF Deactivated, Writers, Revocations, Success
<1>3. calls[m].agent \in Agents
  BY <1>1, CallRows DEF RouteInv, CallOK, Addressed
<1>4. QED
  BY <1>1, <1>2, <1>3 DEF RevokeInv

\* A payment that begins in the name of a deactivated agent is blocked.
LEMMA BlockedAtOnce ==
    ASSUME IInv, NEW r \in Requests, Receive(r), NEW a \in Agents, agents[a] = "inactive",
           payload'[r].agent = a
    PROVE  Blocked(r)'
<1>1. /\ status[r] = "idle" /\ UNCHANGED <<delivered, tables>>
      /\ \E p \in Payload : /\ payload' = [payload EXCEPT ![r] = p]
                            /\ Goto(r, VerifyPayment(p))
                            /\ VerifyPayment(p) \in
                                 {"BadRequest", "Unauthorized", "findKey", "findAgent", "storeNonce"}
                            /\ VerifyPayment(p) = "storeNonce" => p.agent = Absent
  BY ReceiveStep
<1>2. r \notin delivered'
  BY <1>1 DEF IInv, ReservedInv, Answered, Answers
<1>3. /\ payload'[r] \in Payload
      /\ status'[r] \in {"BadRequest", "Unauthorized", "findKey", "findAgent"}
  BY <1>1, ProxyAssumption DEF IInv, TypeOK, Goto
<1>4. payload'[r] # Absent /\ payload'[r].agent # Absent /\ agents'[a] = "inactive"
  BY <1>1, <1>3, ProxyAssumption DEF tables
<1>5. QED
  BY <1>2, <1>3, <1>4 DEF Blocked, CutOff, BeforeAgent, Metered, Answered, Answers

\* The body of a payment names the agent of the call.
LEMMA BodyAgent ==
    ASSUME NEW n, BodyOf(n) \in Payload
    PROVE  BodyOf(n).agent = calls[n].agent
<1>1. DOMAIN BodyOf(n) = DOMAIN calls[n].arg
  BY DEF BodyOf
<1>2. "agent" \in DOMAIN BodyOf(n)
  BY DEF Payload
<1>3. QED
  BY <1>1, <1>2 DEF BodyOf

LEMMA ShutOutStep ==
    ASSUME TruthInv, [ToolNext]_toolVars
    PROVE  ShutOutInv'
<1> USE DEF TruthInv
<1> SUFFICES ASSUME NEW n \in 1..Len(calls'), NEW i \in Attempts, IsPayment(n)',
                    RevokedBefore(n)', Request(n, i)' \in Requests
             PROVE  status'[Request(n, i)'] = "idle" \/ Blocked(Request(n, i))'
  BY DEF ShutOutInv
<1>1. CASE n \notin 1..Len(calls)
  <2>1. SUFFICES ASSUME status'[Request(n, i)'] # "idle" PROVE FALSE
    OBVIOUS
  <2> DEFINE r == Request(n, i)'
  <2>2. UNCHANGED vars /\ n = Len(calls) + 1 /\ Len(calls) \in Nat
    BY <1>1, Onward DEF Begun
  <2>3. status[r] # "idle"
    BY <2>1, <2>2 DEF vars
  <2>4. PICK m \in 1..Len(calls), j \in Attempts : IsAttempt(r, m, j)
    BY <2>3 DEF AttemptInv
  <2>5. Request(m, j)' = Request(n, i)' /\ IsPayment(m)'
    BY <2>4, RequestKept DEF IsAttempt
  <2>6. m < n /\ m \in Nat /\ n \in Nat
    BY <2>2
  <2> DEFINE S == {x \in Nat : IsPayment(x)'}
  <2>7. \A k \in Nat : {x \in 1..k : IsPayment(x)}' = {x \in 1..k : x \in S}
    OBVIOUS
  <2>8. Cardinality({x \in 1..m : x \in S}) = Cardinality({x \in 1..n : x \in S})
    BY <2>5, <2>6, <2>7 DEF Request
  <2>9. n \in S
    BY <2>6
  <2> HIDE DEF S
  <2>10. QED
    BY <2>6, <2>8, <2>9, CountGrows
<1>2. CASE n \in 1..Len(calls)
  <2> DEFINE r == Request(n, i)
  <2>1. /\ Request(n, i)' = r /\ IsPayment(n) /\ r \in Requests
        /\ calls'[n].agent = calls[n].agent /\ Len(calls) \in Nat
    BY <1>2, RequestKept, Onward
  <2>2. RevokedBefore(n)
    <3>1. PICK m \in 1..Len(calls') :
            /\ calls'[m].method = "revokeAll" /\ m < n /\ calls'[m].agent = calls'[n].agent
            /\ calls'[m].outcome = "OK"
      <4>1. DOMAIN calls' = 1..Len(calls')
        BY ProxyPart DEF RouteInv, CallsInv
      <4>2. QED
        BY <4>1 DEF RevokedBefore, CallsOf
    <3>2. m \in 1..Len(calls) /\ m < Len(calls)
      BY <1>2, <2>1, <3>1
    <3>3. calls'[m] = calls[m]
      BY <3>2, Onward DEF RouteInv, CallsInv
    <3>4. DOMAIN calls = 1..Len(calls)
      BY CallRows DEF RouteInv
    <3>5. QED
      BY <2>1, <3>1, <3>2, <3>3, <3>4 DEF RevokedBefore, CallsOf
  <2>3. CASE status[r] # "idle"
    <3>1. Blocked(r)
      BY <1>2, <2>1, <2>2, <2>3 DEF ShutOutInv
    <3>2. \A q \in Requests : Blocked(q) => Blocked(q)'
      BY ProxyPart, BlockedStep
    <3>3. Blocked(Request(n, i))'
      BY <2>1, <3>1, <3>2 DEF Blocked, CutOff, BeforeAgent, BeforeCharge, Metered, Answered
    <3>4. QED
      BY <3>3
  <2>4. CASE status[r] = "idle" /\ status'[r] # "idle"
    <3>1. /\ Receive(r) /\ UNCHANGED calls
          /\ \E m \in 1..Len(calls), j \in Attempts :
                IsPayment(m) /\ r = Request(m, j) /\ payload'[r] = BodyOf(m)
      BY <2>1, <2>4, OnlyArrivals
    <3>2. payload'[r] = BodyOf(n)
      BY <1>2, <2>1, <3>1, RequestsApart
    <3>3. payload'[r] \in Payload
      BY <2>1, <3>1, ReceiveStep DEF IInv, TypeOK
    <3>4. calls[n].agent \in Agents /\ agents[calls[n].agent] = "inactive"
      BY <1>2, <2>2, RevokedAgent
    <3>5. Blocked(r)'
      BY <2>1, <3>1, <3>2, <3>3, <3>4, BodyAgent, BlockedAtOnce
    <3>6. QED
      BY <2>1, <3>1, <3>5 DEF Request, IsPayment
  <2>5. QED
    BY <2>1, <2>3, <2>4
<1>3. QED
  BY <1>1, <1>2

-----------------------------------------------------------------------------
(* Session keys. *)

\* No step gives a key to another agent.
LEMMA KeyAgentStays ==
    ASSUME IInv, [Next]_vars, NEW k \in Keys, keys[k] # Absent
    PROVE  keys'[k].agent = keys[k].agent
<1>1. keys[k] \in KeyRow /\ keys \in [Keys -> KeyRow \cup {Absent}]
  BY DEF IInv, TypeOK
<1>2. CASE UNCHANGED keys
  BY <1>2
<1>3. ASSUME NEW r \in Requests, ChargeKey(r) PROVE keys'[k].agent = keys[k].agent
  <2>1. keys'[k] \in {keys[k], [keys[k] EXCEPT !.spent = @ + payload[r].value]}
    BY <1>1, <1>3 DEF ChargeKey
  <2>2. QED
    BY <1>1, <2>1 DEF KeyRow
<1>4. ASSUME NEW a \in Agents, NEW j \in Keys,
             RevokeAll(a) \/ RevokeSessionKey(j, a) \/ CreateSessionKey(j, a)
      PROVE  keys'[k].agent = keys[k].agent
  <2>1. keys'[k] \in {keys[k], [keys[k] EXCEPT !.revoked = TRUE]}
    BY <1>1, <1>4 DEF RevokeAll, RevokeSessionKey, CreateSessionKey
  <2>2. QED
    BY <1>1, <2>1 DEF KeyRow
<1>5. CASE \E r \in Requests : Receive(r) \/ Step(r) \/ Abort(r)
  BY <1>2, <1>3, <1>5, TableFrame
<1>6. CASE Manage
  BY <1>2, <1>4, <1>6 DEF Manage, ManageAgent, CreateAgent, CreateRule, UpdateRule, DeactivateRule
<1>7. CASE Tick \/ LoseNonces \/ Done \/ UNCHANGED vars
  BY <1>2, <1>7 DEF Tick, LoseNonces, Done, vars, tables
<1>8. QED
  BY <1>5, <1>6, <1>7 DEF Next

\* A key comes from an attempt of createSessionKey.
LEMMA NewKey ==
    ASSUME RouteInv, IInv, [ToolNext]_toolVars, NEW k \in Keys,
           keys[k] = Absent, keys'[k] # Absent
    PROVE  /\ UNCHANGED calls
           /\ \E n \in 1..Len(calls), i \in Attempts :
                /\ calls[n].method = "createSessionKey" /\ i <= calls[n].attempt
                /\ served[n][i] = NotServed /\ served'[n][i].row = k
<1>1. keys \in [Keys -> KeyRow \cup {Absent}]
  BY DEF IInv, TypeOK
<1>2. ~Begun /\ ~Client
  BY ClientChange DEF Begun, vars, tables
<1>3. ~Run
  <2>1. ASSUME NEW r \in Requests, ChargeKey(r) PROVE keys'[k] = Absent
    <3>1. keys[payload[r].key] # Absent
      BY <2>1 DEF ChargeKey, IInv, CarriesInv, KeyFoundInv, Awaits
    <3>2. QED
      BY <1>1, <2>1, <3>1 DEF ChargeKey
  <2>2. ASSUME NEW r \in Requests, Receive(r) \/ Step(r) \/ Abort(r) PROVE keys'[k] = Absent
    BY <2>1, <2>2, TableFrame
  <2>3. QED
    BY <2>2 DEF Run, Arrive, Tick, LoseNonces, vars, tables
<1>4. PICK n \in 1..MaxCalls, i \in Attempts : Serve(n, i)
  BY <1>2, <1>3, Kinds DEF Served
<1>5. PICK s \in ServedRow :
        /\ served'[n][i] = s
        /\ \/ UNCHANGED vars
           \/ Write(calls[n], s.row) /\ s.row \in Agents \cup RuleIds \cup Keys
  BY <1>4, ServeChange
<1>6. /\ n \in 1..Len(calls) /\ i <= calls[n].attempt /\ calls[n] \in CallRow
      /\ served[n][i] = NotServed /\ UNCHANGED calls
  BY <1>4, ServeChange
<1>7. calls[n].method = "createSessionKey" /\ s.row = k
  <2>1. Write(calls[n], s.row)
    BY <1>5 DEF vars, tables
  <2>2. ~(UNCHANGED keys)
    OBVIOUS
  <2>3. ~RevokeSessionKey(s.row, calls[n].agent) /\ ~RevokeAll(s.row)
    BY <1>1 DEF RevokeSessionKey, RevokeAll
  <2>4. calls[n].method = "createSessionKey" /\ CreateSessionKey(s.row, calls[n].agent)
    BY <2>1, <2>2, <2>3 DEF Write, CreateAgent, CreateRule
  <2>5. QED
    BY <1>1, <2>4 DEF CreateSessionKey
<1>8. QED
  BY <1>5, <1>6, <1>7

LEMMA RowsStay ==
    ASSUME RouteInv, [ToolNext]_toolVars, NEW n \in 1..Len(calls), NEW row \in RowsOf(n)
    PROVE  row \in RowsOf(n)'
<1>1. PICK i \in 0..calls[n].attempt : row = served[n][i].row /\ row # Absent
  BY DEF RowsOf
<1>2. /\ n \in 1..MaxCalls /\ calls[n].attempt \in Attempts /\ calls'[n].attempt \in Nat
      /\ calls[n].attempt <= calls'[n].attempt
  BY CallRows, Onward DEF RouteInv
<1>3. i \in Attempts /\ i \in 0..calls'[n].attempt
  BY <1>1, <1>2, RetryAssumption DEF Attempts
<1>4. served'[n][i] = served[n][i]
  BY <1>1, <1>2, <1>3, Onward DEF NotServed
<1>5. QED
  BY <1>1, <1>3, <1>4 DEF RowsOf

LEMMA KeyStep ==
    ASSUME TruthInv, [ToolNext]_toolVars
    PROVE  KeyInv'
<1> USE DEF TruthInv
<1> SUFFICES ASSUME NEW n \in 1..Len(calls'), calls'[n].method = "revokeAll",
                    NEW i \in Attempts, served'[n][i].row # Absent,
                    NEW k \in Keys, keys'[k] # Absent, keys'[k].agent = calls'[n].agent,
                    ~keys'[k].revoked
             PROVE  LateFor(k, n)'
  BY DEF KeyInv, Deactivated
<1>1. /\ n \in 1..Len(calls)
      /\ \/ served[n][i].row # Absent
         \/ Write(calls[n], served'[n][i].row)
  BY RowServed
<1>2. /\ calls[n].method = "revokeAll" /\ calls'[n].agent = calls[n].agent
  BY <1>1, Onward
<1>3. keys \in [Keys -> KeyRow \cup {Absent}] /\ IInv /\ [Next]_vars
  BY ProxyPart DEF IInv, TypeOK
<1>4. CASE Write(calls[n], served'[n][i].row)
  <2>1. RevokeAll(calls[n].agent)
    BY <1>2, <1>4 DEF Write
  <2>2. keys[k] # Absent /\ keys[k].agent = calls[n].agent
    BY <1>2, <1>3, <2>1 DEF RevokeAll, KeyRow
  <2>3. keys'[k] = [keys[k] EXCEPT !.revoked = TRUE]
    BY <2>1, <2>2 DEF RevokeAll
  <2>4. QED
    BY <1>3, <2>2, <2>3 DEF KeyRow
<1>5. CASE served[n][i].row # Absent /\ keys[k] # Absent
  <2>1. keys[k].agent = calls[n].agent /\ ~keys[k].revoked
    BY <1>2, <1>3, <1>5, KeyAgentStays, RevocationStep DEF IInv
  <2>2. LateFor(k, n)
    BY <1>1, <1>2, <1>5, <2>1 DEF KeyInv, Deactivated
  <2>3. PICK m \in 1..Len(calls) :
          /\ calls[m].method = "createSessionKey" /\ k \in RowsOf(m)
          /\ calls[m].lost \/ m > n
    BY <2>2 DEF LateFor
  <2>4. /\ m \in 1..Len(calls') /\ calls'[m].method = "createSessionKey"
        /\ calls'[m].lost \/ m > n
    BY <2>3, Onward
  <2>5. k \in RowsOf(m)'
    BY <2>3, RowsStay
  <2>6. QED
    BY <2>4, <2>5 DEF LateFor
<1>6. CASE keys[k] = Absent
  <2>1. UNCHANGED calls
    BY <1>6, NewKey
  <2>2. PICK m \in 1..Len(calls), j \in Attempts :
          /\ calls[m].method = "createSessionKey" /\ j <= calls[m].attempt
          /\ served[m][j] = NotServed /\ served'[m][j].row = k
    BY <1>6, NewKey
  <2>3. Len(calls) \in Nat /\ CallOK(calls[m]) /\ calls[m].attempt \in Attempts
    BY CallRows DEF RouteInv
  <2>4. k \in RowsOf(m)'
    <3>1. j \in 0..calls[m].attempt /\ k # Absent
      BY <2>2, <2>3, RetryAssumption, ProxyAssumption DEF Attempts
    <3>2. QED
      BY <2>1, <2>2, <3>1 DEF RowsOf
  <2>5. calls[m].lost \/ m > n
    <3>1. CASE m = Len(calls)
      <4>1. m # n
        BY <1>2, <2>2
      <4>2. QED
        BY <1>1, <2>3, <3>1, <4>1
    <3>2. CASE m # Len(calls) /\ ~calls[m].lost
      <4>1. calls[m].state = "done"
        BY <2>3, <3>2 DEF RouteInv, CallsInv
      <4>2. calls[m].attempt = 0 /\ calls[m].outcome # "Unreachable"
        BY <2>2, <2>3, <3>2 DEF CallOK
      <4>3. served[m][calls[m].attempt] # NotServed
        BY <2>2, <4>1, <4>2 DEF RouteInv, EndedInv
      <4>4. j = calls[m].attempt
        BY <2>2, <4>2, RetryAssumption DEF Attempts
      <4>5. QED
        BY <2>2, <4>3, <4>4
    <3>3. QED
      BY <3>1, <3>2
  <2>6. QED
    BY <2>1, <2>2, <2>4, <2>5 DEF LateFor
<1>7. QED
  BY <1>1, <1>4, <1>5, <1>6

\* The invariant that ties calls, attempts and answers to the requests, the
\* tables and the deliveries of the proxy, in every reachable state.
THEOREM TruthInvCorrect == ToolSpec => []TruthInv
<1>1. ToolInit => TruthInv
  BY TruthInit
<1>2. TruthInv /\ [ToolNext]_toolVars => TruthInv'
  BY ProxyPart, AttemptStep, HistoryStep, RevokeStep, ShutOutStep, KeyStep DEF TruthInv
<1>3. QED
  BY <1>1, <1>2, PTL DEF ToolSpec

-----------------------------------------------------------------------------
(* What the calls report. *)

LEMMA CallsAre ==
    ASSUME RouteInv, NEW methods, NEW n \in CallsOf(methods)
    PROVE  n \in 1..Len(calls) /\ calls[n].method \in methods /\ CallOK(calls[n])
  BY CallRows DEF CallsOf, RouteInv

\* A payment that ended in a refusal, none of its attempts being lost, was
\* delivered by none of them.
LEMMA RefusedUndelivered ==
    ASSUME TruthInv, NEW n \in 1..Len(calls), IsPayment(n), calls[n].state = "done",
           ~calls[n].lost, calls[n].outcome \notin Success \cup {"Internal", "Unreadable"}
    PROVE  delivered \cap AttemptsOf(n) = {}
<1>1. CallOK(calls[n]) /\ calls[n].attempt \in Attempts
  BY CallRows DEF TruthInv, RouteInv
<1>2. /\ calls[n].outcome # "Unreachable"
      /\ status[Request(n, calls[n].attempt)] = calls[n].outcome
  BY <1>1 DEF TruthInv, HistoryInv, CallOK
<1>3. SUFFICES ASSUME NEW i \in 0..calls[n].attempt, Request(n, i) \in Requests,
                      Request(n, i) \in delivered
               PROVE  FALSE
  BY DEF AttemptsOf
<1>4. status[Request(n, i)] \in {"Forwarded", "UpstreamFailed", "Internal"}
  BY <1>3 DEF TruthInv, SettledInv
<1>5. i # calls[n].attempt
  BY <1>2, <1>4 DEF Success
<1>6. i \in Attempts /\ i < calls[n].attempt
  BY <1>1, <1>5, RetryAssumption DEF Attempts
<1>7. status[Request(n, i)] = "RateLimited"
  BY <1>3, <1>6 DEF TruthInv, HistoryInv, Passed
<1>8. QED
  BY <1>4, <1>7

\* fetchWithRetry and request() (retry.ts, client.ts): however the attempts of
\* a payment interleave with the proxy, a refusal without a lost attempt can
\* be believed.
THEOREM RefusalIsFinalCorrect == ToolSpec => []RefusalIsFinal
<1>1. TruthInv => RefusalIsFinal
  BY RefusedUndelivered, CallsAre DEF RefusalIsFinal, HasEnded, IsPayment, TruthInv
<1>2. QED
  BY <1>1, TruthInvCorrect, PTL

\* After revokeAll was reported done, no payment that is made in the name of
\* the agent reaches the upstream, whichever of its attempts arrives.
THEOREM ReportedRevocationCorrect == ToolSpec => []ReportedRevocationHolds
<1>1. ASSUME TruthInv, NEW n \in CallsOf({"proxyPayment"}), RevokedBefore(n)
      PROVE  delivered \cap AttemptsOf(n) = {}
  <2>1. n \in 1..Len(calls) /\ IsPayment(n) /\ calls[n].attempt \in Attempts
    BY <1>1, CallsAre, CallRows DEF TruthInv, IsPayment, RouteInv
  <2>2. SUFFICES ASSUME NEW i \in 0..calls[n].attempt, Request(n, i) \in Requests,
                        Request(n, i) \in delivered
                 PROVE  FALSE
    BY DEF AttemptsOf
  <2>3. i \in Attempts
    BY <2>1, RetryAssumption DEF Attempts
  <2>4. status[Request(n, i)] # "idle"
    BY <1>1, <2>2 DEF TruthInv, SettledInv
  <2>5. QED
    BY <1>1, <2>1, <2>2, <2>3, <2>4 DEF TruthInv, ShutOutInv, Blocked
<1>2. TruthInv => ReportedRevocationHolds
  BY <1>1 DEF ReportedRevocationHolds
<1>3. QED
  BY <1>2, TruthInvCorrect, PTL

LEMMA SaidFacts ==
    ASSUME TruthInv, NEW result \in {"success", "blocked"}, NEW n \in Told(result)
    PROVE  /\ agent.results[n].call \in 1..Len(calls)
           /\ CallOf(n).state = "done" /\ Classified(CallOf(n).outcome) = result
<1>1. n \in 1..Len(agent.results) /\ agent.results[n].result = result /\ agent.results[n].call # 0
  BY DEF Told, TruthInv, RouteInv, AgentInv
<1>2. QED
  BY <1>1 DEF TruthInv, RouteInv, AgentInv, CallOf

LEMMA AtMostOne ==
    ASSUME NEW S, \A x, y \in S : x = y
    PROVE  Cardinality(S) <= 1
<1>1. CASE S = {}
  BY <1>1, FS_EmptySet
<1>2. CASE S # {}
  <2>1. PICK x \in S : TRUE
    BY <1>2
  <2>2. S = {x}
    BY <2>1
  <2>3. QED
    BY <2>2, FS_Singleton
<1>3. QED
  BY <1>1, <1>2

LEMMA SuccessIsSo ==
    ASSUME TruthInv, NEW n \in 1..Len(calls), calls[n].outcome \in Success, calls[n].state = "done"
    PROVE  /\ calls[n].method = "proxyPayment" => delivered \cap AttemptsOf(n) # {}
           /\ calls[n].method \in Creations => RowsOf(n) # {}
           /\ calls[n].method = "revokeAll" => agents[calls[n].agent] = "inactive"
<1>1. calls[n].attempt \in Attempts /\ calls[n].attempt \in 0..calls[n].attempt
  BY CallRows, RetryAssumption DEF TruthInv, RouteInv, Attempts
<1>2. ASSUME calls[n].method = "proxyPayment" PROVE delivered \cap AttemptsOf(n) # {}
  <2> DEFINE r == Request(n, calls[n].attempt)
  <2>1. r \in Requests /\ status[r] \in Answers /\ status[r] = calls[n].outcome
    BY <1>2 DEF TruthInv, HistoryInv, IsPayment, Success
  <2>2. r \in delivered
    BY <2>1 DEF TruthInv, SettledInv, Success, Answers
  <2>3. r \in AttemptsOf(n)
    BY <1>1, <1>2, <2>1 DEF AttemptsOf, IsPayment
  <2>4. QED
    BY <2>2, <2>3
<1>3. ASSUME calls[n].method \in Creations PROVE RowsOf(n) # {}
  <2>1. served[n][calls[n].attempt].row # Absent
    BY <1>3, AnsweredRow DEF TruthInv, Writers
  <2>2. QED
    BY <1>1, <2>1 DEF RowsOf
<1>4. ASSUME calls[n].method = "revokeAll" PROVE agents[calls[n].agent] = "inactive"
  <2>1. Deactivated(n)
    BY <1>1, <1>4, AnsweredRow DEF TruthInv, Writers, Revocations, Deactivated
  <2>2. QED
    BY <2>1 DEF TruthInv, RevokeInv
<1>5. QED
  BY <1>2, <1>3, <1>4

\* What a tool of the three plugins tells the agent is so: see ToldTheTruth.
THEOREM ToldTheTruthCorrect == ToolSpec => []ToldTheTruth
<1>1. ASSUME TruthInv, NEW n \in Told("success")
      PROVE  LET made == agent.results[n].call
             IN  /\ CallOf(n).method = "proxyPayment" => delivered \cap AttemptsOf(made) # {}
                 /\ CallOf(n).method \in Creations => RowsOf(made) # {}
                 /\ CallOf(n).method = "revokeAll" => agents[CallOf(n).agent] = "inactive"
  <2>1. agent.results[n].call \in 1..Len(calls) /\ CallOf(n).state = "done"
    BY <1>1, SaidFacts
  <2>2. CallOf(n).outcome \in Success
    BY <1>1, SaidFacts DEF Classified
  <2>3. QED
    BY <1>1, <2>1, <2>2, SuccessIsSo DEF CallOf
<1>2. ASSUME TruthInv, NEW n \in Told("blocked"), ~CallOf(n).lost
      PROVE  delivered \cap AttemptsOf(agent.results[n].call) = {}
  <2>1. agent.results[n].call \in 1..Len(calls) /\ CallOf(n).state = "done"
    BY <1>2, SaidFacts
  <2>2. CallOf(n).outcome \notin Success \cup {"Internal", "Unreadable"}
    BY <1>2, SaidFacts DEF Classified, Success
  <2>3. CASE IsPayment(agent.results[n].call)
    BY <1>2, <2>1, <2>2, <2>3, RefusedUndelivered DEF CallOf
  <2>4. CASE ~IsPayment(agent.results[n].call)
    BY <2>4 DEF AttemptsOf
  <2>5. QED
    BY <2>3, <2>4
<1>3. ASSUME TruthInv, NEW n \in CallsOf(Creations), ~calls[n].lost
      PROVE  Cardinality(RowsOf(n)) <= 1
  <2>1. calls[n].attempt = 0
    BY <1>3, CallsAre DEF TruthInv, CallOK, Creations
  <2>2. \A x, y \in RowsOf(n) : x = y
    BY <2>1 DEF RowsOf
  <2>3. QED
    BY <2>2, AtMostOne
<1>4. TruthInv => ToldTheTruth
  BY <1>1, <1>2, <1>3 DEF ToldTheTruth
<1>5. QED
  BY <1>4, TruthInvCorrect, PTL

\* Which keys may be usable after an agent was told that all are revoked.
THEOREM LateKeysCorrect == ToolSpec => []LateKeysOnlyAfterLoss
<1>1. ASSUME TruthInv, NEW n \in Told("success"), CallOf(n).method = "revokeAll",
             NEW k \in Keys, keys[k] # Absent, keys[k].agent = CallOf(n).agent, ~keys[k].revoked
      PROVE  \E m \in CallsOf({"createSessionKey"}) :
                k \in RowsOf(m) /\ (calls[m].lost \/ m > agent.results[n].call)
  <2> DEFINE made == agent.results[n].call
  <2>1. made \in 1..Len(calls) /\ CallOf(n) = calls[made]
    BY <1>1, SaidFacts DEF CallOf
  <2>2. calls[made].outcome \in Success
    BY <1>1, <2>1, SaidFacts DEF Classified
  <2>3. Deactivated(made)
    BY <1>1, <2>1, <2>2, AnsweredRow DEF TruthInv, Writers, Revocations, Deactivated
  <2>4. LateFor(k, made)
    BY <1>1, <2>1, <2>3 DEF TruthInv, KeyInv
  <2>5. DOMAIN calls = 1..Len(calls)
    BY <1>1, CallRows DEF TruthInv, RouteInv
  <2>6. QED
    BY <2>4, <2>5 DEF LateFor, CallsOf
<1>2. TruthInv => LateKeysOnlyAfterLoss
  BY <1>1 DEF LateKeysOnlyAfterLoss
<1>3. QED
  BY <1>2, TruthInvCorrect, PTL

\* However often a payment in an agent's name is retried, and whatever its
\* attempts do at the same time, it is delivered once at most and has one row
\* in the ledger at most.
THEOREM MadeOnceCorrect ==
    ToolSpec => [](\A n \in CallsOf({"proxyPayment"}) : calls[n].agent # Absent => MadeOnce(n))
<1> DEFINE Once == \A n \in CallsOf({"proxyPayment"}) : calls[n].agent # Absent => MadeOnce(n)
<1>1. ASSUME TruthInv, MeteredNonceOnce, NEW n \in CallsOf({"proxyPayment"}), calls[n].agent # Absent
      PROVE  MadeOnce(n)
  <2>1. n \in 1..Len(calls) /\ IsPayment(n) /\ Len(calls) \in Nat
    BY <1>1, CallsAre, CallRows DEF TruthInv, IsPayment, RouteInv
  <2>2. ASSUME NEW r \in AttemptsOf(n), status[r] # "idle"
        PROVE  payload[r] = BodyOf(n) /\ Metered(r)
    <3>1. r \in Requests /\ \E i : r = Request(n, i)
      BY <2>1 DEF AttemptsOf
    <3>2. PICK m \in 1..Len(calls), j \in Attempts : IsAttempt(r, m, j)
      BY <1>1, <2>2, <3>1 DEF TruthInv, AttemptInv
    <3>3. m = n
      <4>1. n \in Nat /\ m \in Nat /\ n > 0 /\ m > 0 /\ IsPayment(m)
        BY <2>1, <3>2 DEF IsAttempt
      <4>2. PICK i : Request(n, i) = Request(m, j)
        BY <3>1, <3>2 DEF IsAttempt
      <4>3. QED
        BY <2>1, <4>1, <4>2, RequestsApart
    <3>4. payload[r] \in Payload /\ payload[r] # Absent
      BY <1>1, <2>2, <3>1, ProxyAssumption DEF TruthInv, IInv, TypeOK, CarriesInv
    <3>5. payload[r] = BodyOf(n)
      BY <3>2, <3>3 DEF IsAttempt
    <3>6. BodyOf(n).agent = calls[n].agent
      BY <3>4, <3>5, BodyAgent
    <3>7. QED
      BY <1>1, <3>4, <3>5, <3>6 DEF Metered
  <2>3. \A r, q \in delivered \cap AttemptsOf(n) : r = q
    <3>1. \A r \in delivered \cap AttemptsOf(n) :
            r \in DeliveredMetered /\ payload[r] = BodyOf(n)
      <4>1. \A r \in delivered \cap AttemptsOf(n) : r \in Requests /\ status[r] # "idle"
        BY <1>1, <2>1 DEF TruthInv, SettledInv, AttemptsOf
      <4>2. QED
        BY <2>2, <4>1 DEF DeliveredMetered
    <3>2. QED
      BY <1>1, <3>1 DEF MeteredNonceOnce
  <2>4. \A row, other \in {x \in ledger : x.id \in AttemptsOf(n)} : row = other
    <3>1. ASSUME NEW row \in ledger, row.id \in AttemptsOf(n)
          PROVE  row.nonce = BodyOf(n).nonce
      <4>1. status[row.id] \in PastInsert /\ RowOf(row, row.id)
        BY <1>1, <3>1 DEF TruthInv, IInv, LedgerInv
      <4>2. status[row.id] # "idle"
        BY <4>1 DEF PastInsert, Answers
      <4>3. QED
        BY <2>2, <3>1, <4>1, <4>2 DEF RowOf
    <3>2. \A row, other \in ledger : row.nonce = other.nonce => row = other
      BY <1>1 DEF TruthInv, IInv, LedgerInv
    <3>3. QED
      BY <3>1, <3>2
  <2>5. QED
    BY <2>3, <2>4, AtMostOne DEF MadeOnce
<1>2. TruthInv /\ MeteredNonceOnce => Once
  BY <1>1
<1> HIDE DEF Once
<1>3. ToolSpec => []Once
  BY <1>2, TruthInvCorrect, ToolsUnderneath, MeteredNonceOnceCorrect, PTL
<1>4. QED
  BY <1>3 DEF Once

-----------------------------------------------------------------------------
(* The charges of the session keys. *)

LEMMA ValuesAdd ==
    ASSUME NEW S, IsFiniteSet(S)
    PROVE  MapThenSumSet(LAMBDA n : calls[n].arg.value, S) = SumOf([n \in S |-> calls[n].arg.value], S)
<1> DEFINE value == [n \in S |-> calls[n].arg.value]
           Equation(sum) ==
             sum = [T \in SUBSET S |->
                      IF T = {} THEN 0 ELSE calls[Pick(T)].arg.value + sum[T \ {Pick(T)}]]
           chosen == CHOOSE sum : Equation(sum)
<1>1. MapThenSumSet(LAMBDA n : calls[n].arg.value, S) = chosen[S]
  BY DEF MapThenSumSet, MapThenFoldSet, Pick
<1>2. ASSUME NEW sum PROVE Equation(sum) <=> Adds(sum, value, S)
  <2>1. ASSUME NEW T \in SUBSET S, T # {} PROVE value[Pick(T)] = calls[Pick(T)].arg.value
    BY <2>1 DEF Pick
  <2>2. [T \in SUBSET S |-> IF T = {} THEN 0 ELSE calls[Pick(T)].arg.value + sum[T \ {Pick(T)}]]
          = [T \in SUBSET S |-> IF T = {} THEN 0 ELSE value[Pick(T)] + sum[T \ {Pick(T)}]]
    BY <2>1
  <2>3. QED
    BY <2>2 DEF Adds
<1>3. Adds(chosen, value, S)
  <2>1. \E sum : Equation(sum)
    BY <1>2, AddsExists
  <2> HIDE DEF Equation
  <2>2. Equation(chosen)
    BY <2>1
  <2>3. QED
    BY <1>2, <2>2
<1>4. QED
  <2> HIDE DEF chosen, value
  <2>1. chosen[S] = SumOf(value, S)
    BY <1>3, SumBySolution
  <2>2. QED
    BY <1>1, <2>1 DEF value

\* The payments of the client that name the key.
MadeWith(k) == {n \in CallsOf({"proxyPayment"}) : calls[n].arg.key = k}

LEMMA MadeWithFacts ==
    ASSUME RouteInv, NEW k
    PROVE  /\ IsFiniteSet(MadeWith(k))
           /\ \A n \in MadeWith(k) :
                 n \in 1..Len(calls) /\ IsPayment(n) /\ calls[n].arg \in Payload
<1>1. \A n \in MadeWith(k) : n \in 1..Len(calls) /\ IsPayment(n) /\ calls[n].arg \in Payload
  BY CallsAre DEF MadeWith, CallOK, IsPayment
<1>2. Len(calls) \in Nat /\ IsFiniteSet(1..Len(calls))
  BY CallRows, FS_Interval, RetryAssumption DEF RouteInv
<1>3. MadeWith(k) \subseteq 1..Len(calls)
  BY <1>1
<1>4. QED
  BY <1>1, <1>2, <1>3, FS_Subset

\* A row that names a key is the row of an attempt of a payment with the key.
LEMMA RowOfPayment ==
    ASSUME TruthInv, NEW row \in ledger, row.key # Absent
    PROVE  \E n \in MadeWith(row.key) :
              row.amount = calls[n].arg.value /\ row.nonce = calls[n].arg.nonce
<1>1. /\ row \in LedgerRow /\ row.id \in Requests
      /\ status[row.id] \in PastInsert /\ RowOf(row, row.id)
  BY DEF TruthInv, IInv, TypeOK, LedgerInv, LedgerRow
<1>2. status[row.id] # "idle"
  BY <1>1 DEF PastInsert, Answers
<1>3. PICK n \in 1..Len(calls), i \in Attempts : IsAttempt(row.id, n, i)
  BY <1>1, <1>2 DEF TruthInv, AttemptInv
<1>4. calls[n].arg \in Payload
  BY <1>3, CallRows DEF TruthInv, RouteInv, CallOK, IsAttempt, IsPayment
<1>5. /\ BodyOf(n).key = calls[n].arg.key /\ BodyOf(n).value = calls[n].arg.value
      /\ BodyOf(n).nonce = calls[n].arg.nonce
  BY <1>4 DEF BodyOf, Payload
<1>6. payload[row.id] = BodyOf(n)
  BY <1>3 DEF IsAttempt
<1>7. n \in MadeWith(row.key)
  BY <1>1, <1>3, <1>5, <1>6, CallRows DEF TruthInv, RouteInv, MadeWith, CallsOf, IsAttempt, IsPayment, RowOf
<1>8. QED
  BY <1>1, <1>5, <1>6, <1>7 DEF RowOf

\* The rows of a key go, one to one, into the payments made with it.
LEMMA RowsWithinPayments ==
    ASSUME TruthInv, SpendInv, NEW k \in Keys
    PROVE  /\ Total({row \in ledger : row.key = k})
                <= MapThenSumSet(LAMBDA n : calls[n].arg.value, MadeWith(k))
           /\ Total({row \in ledger : row.key = k}) \in Nat
           /\ MapThenSumSet(LAMBDA n : calls[n].arg.value, MadeWith(k)) \in Nat
<1> DEFINE rows == {row \in ledger : row.key = k}
           made == MadeWith(k)
           worth == [n \in made |-> calls[n].arg.value]
           Paid(row, n) == row.amount = calls[n].arg.value /\ row.nonce = calls[n].arg.nonce
           f == [row \in rows |-> CHOOSE n \in made : Paid(row, n)]
<1>1. rows \in SUBSET LedgerRow /\ IsFiniteSet(rows)
  BY FS_Subset DEF TruthInv, IInv, TypeOK, SpendInv
<1>2. IsFiniteSet(made) /\ \A n \in made : worth[n] \in Nat
  BY MadeWithFacts DEF TruthInv, Payload
<1>3. \A row \in rows : f[row] \in made /\ Paid(row, f[row])
  <2>1. ASSUME NEW row \in rows PROVE \E n \in made : Paid(row, n)
    BY RowOfPayment, ProxyAssumption, AddressAssumption
  <2> HIDE DEF Paid, made, rows
  <2>2. QED
    BY <2>1
<1>4. \A row, other \in rows : f[row] = f[other] => row = other
  <2>1. \A row, other \in ledger : row.nonce = other.nonce => row = other
    BY DEF TruthInv, IInv, LedgerInv
  <2> HIDE DEF f
  <2>2. QED
    BY <1>3, <2>1
<1>5. \A row \in rows : Amount[row] \in Nat /\ Amount[row] <= worth[f[row]]
  <2>1. \A row \in rows : Amount[row] = row.amount /\ Amount[row] \in Nat
    BY <1>1, AmountType
  <2>2. \A row \in rows : row.amount = worth[f[row]]
    <3> HIDE DEF f, made
    <3>1. QED
      BY <1>3
  <2> HIDE DEF f, worth, rows
  <2>3. QED
    BY <2>1, <2>2
<1>6. f \in [rows -> made]
  <2> HIDE DEF Paid, made, rows
  <2>1. QED
    BY <1>3
<1>7. SumOf(Amount, rows) <= SumOf(worth, made)
  <2> HIDE DEF f, worth, rows, made
  <2>1. QED
    BY <1>1, <1>2, <1>4, <1>5, <1>6, SumOfInjection
<1>8. Total(rows) = SumOf(Amount, rows) /\ Total(rows) \in Nat
  <2> HIDE DEF rows
  <2>1. QED
    BY <1>1, TotalIsSum
<1>9. /\ MapThenSumSet(LAMBDA n : calls[n].arg.value, made) = SumOf(worth, made)
      /\ SumOf(worth, made) \in Nat
  <2>1. SumOf(worth, made) \in Nat
    <3> HIDE DEF worth, made
    <3>1. QED
      BY <1>2, SumOfType
  <2>2. QED
    BY <1>2, <2>1, ValuesAdd
<1>10. QED
  BY <1>7, <1>8, <1>9

\* However often the payments of a client are retried, and whatever their
\* attempts do at the same time: a payment in an agent's name is delivered
\* once at most and has one row at most, and a session key is charged once at
\* most for each payment that was made with it.
THEOREM PaidOnceCorrect == ToolSpec => []PaidOnce
<1> DEFINE Once == \A n \in CallsOf({"proxyPayment"}) : calls[n].agent # Absent => MadeOnce(n)
<1>1. TruthInv /\ IInv /\ SpendInv /\ KeySpendSandwich /\ Once => PaidOnce
  <2> SUFFICES ASSUME TruthInv, IInv, SpendInv, KeySpendSandwich, NEW k \in Keys, keys[k] # Absent
               PROVE  keys[k].spent <= MapThenSumSet(LAMBDA n : calls[n].arg.value, MadeWith(k))
    BY DEF PaidOnce, MadeWith
  <2>1. keys[k].spent \in Nat
    BY DEF IInv, TypeOK, KeyRow
  <2>2. keys[k].spent <= Total({row \in ledger : row.key = k})
    BY DEF KeySpendSandwich
  <2> DEFINE due == Total({row \in ledger : row.key = k})
             made == MapThenSumSet(LAMBDA n : calls[n].arg.value, MadeWith(k))
  <2>3. due <= made /\ due \in Nat /\ made \in Nat
    BY RowsWithinPayments
  <2>4. keys[k].spent <= due
    BY <2>2
  <2>5. keys[k].spent <= made
    <3> HIDE DEF due, made
    <3>1. QED
      BY <2>1, <2>3, <2>4
  <2>6. QED
    BY <2>5
<1>2. ToolSpec => []Once
  BY MadeOnceCorrect
<1> HIDE DEF Once
<1>3. TruthInv => IInv
  BY DEF TruthInv
<1>4. QED
  BY <1>1, <1>2, <1>3, TruthInvCorrect, ToolsUnderneath, SpendInvCorrect,
     KeySpendSandwichCorrect, PTL
=============================================================================
