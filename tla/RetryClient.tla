----------------------------- MODULE RetryClient -----------------------------
(***************************************************************************)
(* The TypeScript SDK (examples/core/src) against the proxy: the methods   *)
(* of X402GuardClient over request() and fetchWithRetry().  A client makes *)
(* one call after the other.  The network may lose or delay an attempt of  *)
(* a call and may lose its answer, so that an attempt may still arrive, or *)
(* run, when the next one starts, and even when the call has long failed.  *)
(*                                                                         *)
(* An attempt of proxyPayment is a request of PaymentProxy; an attempt of  *)
(* every other method is served in one step.                               *)
(***************************************************************************)
EXTENDS PaymentProxy, Integers, Sequences

CONSTANTS
    MaxRetries,  \* bound: the largest maxRetries a client is configured with
    MaxCalls,    \* bound: calls of the client in one behaviour
    Configs,     \* configurations of the client, one of which is used
    SolanaNetworks  \* networks that forward_solana_request accepts

Attempts == 0..MaxRetries

\* A payment is numbered among the payments of the client.
ASSUME RetryAssumption ==
    /\ MaxRetries \in Nat /\ MaxCalls \in Nat
    /\ Requests \subseteq (1..MaxCalls) \X Attempts
    /\ Absent \notin RuleIds /\ Absent \notin Answers \cup {"OK", "Unreachable", "Unreadable"}
    /\ \A c \in Configs : c.retries \in Attempts /\ c.apiKey \in BOOLEAN

VARIABLES
    config,  \* the frozen configuration of the client
    calls,   \* the calls made so far, of which the last may be under way
    served   \* served[n][i]: what became of attempt i of call n, if it is no payment

sdkOnly == <<config, calls, served>>
sdkVars == <<vars, sdkOnly>>

Creations == {"createAgent", "createRule", "createSessionKey"}
Revocations == {"revokeSessionKey", "revokeAll"}
Reads == {"getAgent", "listRules", "listSessionKeys", "getSessionKey"}
Methods == Creations \cup Revocations \cup Reads
             \cup {"healthCheck", "proxyPayment", "proxySolanaPayment"}

Success == {"OK", "Forwarded", "UpstreamFailed"}   \* the proxy answers 200
Errors == {"Unreachable", "Unreadable"}            \* no answer, or no JSON

NotServed == [answer |-> Absent, row |-> Absent]

\* attempt: the attempt that is under way; state: awaiting fetch, awaiting
\* sleep, or done; outcome: how the call ended; lost: some attempt ended in a
\* network error.
ClientType ==
    /\ config \in Configs
    /\ Len(calls) <= MaxCalls
    /\ \A n \in DOMAIN calls :
          /\ calls[n].method \in Methods /\ calls[n].attempt \in Attempts
          /\ calls[n].state \in {"fetch", "sleep", "done"}
          /\ calls[n].outcome \in Answers \cup {"OK", Absent} \cup Errors
          /\ calls[n].lost \in BOOLEAN
    /\ served \in [1..MaxCalls -> [Attempts ->
                     [answer: Answers \cup {"OK", Absent},
                      row: Agents \cup RuleIds \cup Keys \cup {Absent}]]]

SdkInit ==
    /\ Init
    /\ config \in Configs
    /\ calls = <<>>
    /\ served = [n \in 1..MaxCalls |-> [i \in Attempts |-> NotServed]]

-----------------------------------------------------------------------------
(* The calls and their attempts. *)

IsPayment(n) == calls[n].method = "proxyPayment"

\* The request of PaymentProxy that is attempt i of call n.
Request(n, i) == <<Cardinality({m \in 1..n : IsPayment(m)}), i>>

\* What the proxy has answered; a payment beyond the bound never arrives.
AnswerTo(n, i) ==
    IF ~IsPayment(n) THEN served[n][i].answer
    ELSE IF Request(n, i) \in Requests THEN status[Request(n, i)] ELSE Absent

Current == Len(calls)
call == calls[Current]
UnderWay(s) == IF calls = <<>> THEN FALSE ELSE call.state = s
Idle == calls # <<>> => call.state = "done"

\* A method of the client is called.
Start(method, agent, arg) ==
    /\ Idle /\ Current < MaxCalls
    /\ calls' = Append(calls, [method |-> method, agent |-> agent, arg |-> arg,
                               attempt |-> 0, state |-> "fetch",
                               outcome |-> Absent, lost |-> FALSE])
    /\ UNCHANGED <<vars, config, served>>

-----------------------------------------------------------------------------
(* fetchWithRetry and request. *)

Become(c) == calls' = [calls EXCEPT ![Current] = c]

Ended(outcome) == [call EXCEPT !.state = "done", !.outcome = outcome]

\* Mutant of TryAgain: attempt <= maxRetries.
TryAgainOnceMore == call.attempt <= config.retries

\* attempt < config.maxRetries
TryAgain == call.attempt < config.retries

\* Mutant of Retried: errors of the proxy are retried as well.
RetriedOnInternal(answer) == answer \in {"RateLimited", "Internal"}

\* response.status === 429
Retried(answer) == answer = "RateLimited"

\* Mutant of Answer: the call ends with the status of the proxy's request as
\* it is, an attempt that was cut off included.
AnswerKeepingStatus ==
    /\ UnderWay("fetch")
    /\ AnswerTo(Current, call.attempt) \in Answers \cup {"OK", "Aborted"}
    /\ Become(Ended(AnswerTo(Current, call.attempt)))
    /\ UNCHANGED <<vars, config, served>>

\* fetch resolves.  request() then reads the body, which may fail.
Answer ==
    /\ UnderWay("fetch")
    /\ LET answer == AnswerTo(Current, call.attempt)
       IN  /\ answer \in Answers \cup {"OK"}
           /\ \/ Retried(answer) /\ TryAgain /\ Become([call EXCEPT !.state = "sleep"])
              \/ /\ ~(Retried(answer) /\ TryAgain)
                 /\ Become(Ended(answer)) \/ Become(Ended("Unreadable"))
    /\ UNCHANGED <<vars, config, served>>

\* fetch rejects with a TypeError, wherever the attempt is.
NetworkError ==
    /\ UnderWay("fetch")
    /\ Become([IF TryAgain THEN [call EXCEPT !.state = "sleep"] ELSE Ended("Unreachable")
                  EXCEPT !.lost = TRUE])
    /\ UNCHANGED <<vars, config, served>>

Wake ==
    /\ UnderWay("sleep") /\ call.attempt + 1 \in Attempts
    /\ Become([call EXCEPT !.state = "fetch", !.attempt = @ + 1])
    /\ UNCHANGED <<vars, config, served>>

\* Mutant of Classified: a body that cannot be read counts as an empty one.
ClassifiedUnreadable(outcome) ==
    CASE outcome \in Success \cup {"Unreadable"} -> "success"
      [] outcome \in {"GuardrailViolation", "Forbidden"} -> "blocked"
      [] outcome = "Unreachable" -> "unreachable" [] OTHER -> "error"

\* What request() returns or throws: every 403 is a GuardrailViolationError,
\* whose rule is "Unknown" when the proxy's message names none.
Classified(outcome) ==
    CASE outcome \in Success -> "success"
      [] outcome \in {"GuardrailViolation", "Forbidden"} -> "blocked"
      [] outcome = "Unreachable" -> "unreachable"
      [] OTHER -> "error"

-----------------------------------------------------------------------------
(* The proxy runs the attempts that were sent, whatever became of the       *)
(* client.                                                                  *)

Sent(n, i) == n \in DOMAIN calls /\ i <= calls[n].attempt

\* The body of every attempt of a payment is the same.
Arrive(n, i) ==
    /\ Sent(n, i) /\ IsPayment(n)
    /\ Request(n, i) \in Requests
    /\ Receive(Request(n, i))
    /\ payload'[Request(n, i)] = [calls[n].arg EXCEPT !.agent = calls[n].agent]

Found(c) ==
    IF c.method \in {"getSessionKey", "revokeSessionKey"}
    THEN keys[c.arg] # Absent /\ keys[c.arg].agent = c.agent
    ELSE IF c.method \in {"createAgent", "listRules", "listSessionKeys"} THEN TRUE
    ELSE agents[c.agent] # "none"

\* What a handler may answer that has written nothing.  The management
\* routes are behind the API key; a body that is refused (400, or 422 of the
\* extractor) is refused before anything is looked up; an id that
\* revoke_session_key does not find is an internal error; revoke_all compares
\* the owner it is told.
Unmoved(c) ==
    IF c.method = "healthCheck" THEN {"OK"}
    ELSE IF c.method = "proxySolanaPayment"
         THEN IF c.arg \in SolanaNetworks THEN Answers ELSE {"BadRequest"}
    ELSE IF ~config.apiKey THEN {"Unauthorized"}
    ELSE {"Internal"}
           \cup (IF c.method \in Reads /\ Found(c) THEN {"OK"} ELSE {})
           \cup (IF ~Found(c) /\ c.method # "revokeSessionKey" THEN {"NotFound"} ELSE {})
           \cup (IF c.method \in Creations \cup {"revokeAll"} THEN {"BadRequest"} ELSE {})
           \cup (IF c.method = "revokeAll" THEN {"Unauthorized"} ELSE {})

\* The database numbers its rows.
IsNext(row, free) == free # {} /\ row = CHOOSE x \in free : TRUE

\* Mutant of Write: revoke_all only deactivates the agent.
WriteWithoutKeys(c, row) ==
    \/ /\ c.method = "createSessionKey" /\ IsNext(row, {k \in Keys : keys[k] = Absent})
       /\ CreateSessionKey(row, c.agent)
    \/ /\ c.method = "revokeAll" /\ row = c.agent
       /\ agents' = [agents EXCEPT ![row] = "inactive"]
       /\ UNCHANGED <<rules, keys, ledger, dbOnly>>

\* The handlers that write, and the row they write.
Write(c, row) ==
    \/ /\ c.method = "createAgent" /\ IsNext(row, {a \in Agents : agents[a] = "none"})
       /\ CreateAgent(row)
    \/ /\ c.method = "createRule" /\ IsNext(row, {i \in RuleIds : rules[i] = Absent})
       /\ CreateRule(row, c.agent) /\ rules'[row].type = c.arg
    \/ /\ c.method = "createSessionKey" /\ IsNext(row, {k \in Keys : keys[k] = Absent})
       /\ CreateSessionKey(row, c.agent)
    \/ c.method = "revokeSessionKey" /\ row = c.arg /\ RevokeSessionKey(row, c.agent)
    \/ c.method = "revokeAll" /\ row = c.agent /\ RevokeAll(row)

Awaited(n, i) == n = Current /\ i = call.attempt /\ UnderWay("fetch")

\* An attempt nobody waits for matters only by what it writes.  A commit whose
\* acknowledgement is lost is answered 500.
Serve(n, i) ==
    /\ Sent(n, i) /\ ~IsPayment(n) /\ served[n][i] = NotServed
    /\ \/ /\ Awaited(n, i)
          /\ \E answer \in Unmoved(calls[n]) :
                served' = [served EXCEPT ![n][i].answer = answer]
          /\ UNCHANGED vars
       \/ /\ config.apiKey
          /\ \E row \in Agents \cup RuleIds \cup Keys,
                answer \in IF Awaited(n, i) THEN {"OK", "Internal"} ELSE {"OK"} :
                /\ Write(calls[n], row)
                /\ served' = [served EXCEPT ![n][i] = [answer |-> answer, row |-> row]]
    /\ UNCHANGED <<config, calls>>

Proxy ==
    \/ \E n \in 1..MaxCalls, i \in Attempts : Serve(n, i)
    \/ /\ \/ \E n \in 1..MaxCalls, i \in Attempts : Arrive(n, i)
          \/ \E r \in Requests : Step(r) \/ Abort(r)
          \/ Tick \/ LoseNonces
       /\ UNCHANGED sdkOnly

Client == Answer \/ NetworkError \/ Wake

-----------------------------------------------------------------------------
(* Properties. *)

AttemptsOf(n) == IF IsPayment(n) THEN {Request(n, i) : i \in 0..calls[n].attempt} \cap Requests
                 ELSE {}
CallsOf(methods) == {n \in DOMAIN calls : calls[n].method \in methods}
HasEnded(n) == calls[n].state = "done"

MadeOnce(n) ==
    /\ Cardinality(delivered \cap AttemptsOf(n)) <= 1
    /\ Cardinality({row \in ledger : row.id \in AttemptsOf(n)}) <= 1

\* However often a payment in an agent's name is retried, and whatever its
\* attempts do at the same time: it is delivered once, and has one row in the
\* ledger; and a session key is charged once for each payment made with it.
PaidOnce ==
    /\ \A n \in CallsOf({"proxyPayment"}) : calls[n].agent # Absent => MadeOnce(n)
    /\ \A k \in Keys : keys[k] # Absent =>
          keys[k].spent <= MapThenSumSet(LAMBDA n : calls[n].arg.value,
                              {n \in CallsOf({"proxyPayment"}) : calls[n].arg.key = k})

\* A refusal can be believed when no answer was lost: if every attempt was
\* answered and the call ends in a refusal by the proxy, nothing was
\* delivered, although the nonce was used up.
RefusalIsFinal ==
    \A n \in CallsOf({"proxyPayment"}) :
        /\ HasEnded(n) /\ ~calls[n].lost
        /\ calls[n].outcome \notin Success \cup {"Internal", "Unreadable"}
        => delivered \cap AttemptsOf(n) = {}

\* The rows that the attempts of a POST have left.
RowsOf(n) == {served[n][i].row : i \in 0..calls[n].attempt} \ {Absent}

\* Once revokeAll was reported done, no payment that the client makes
\* afterwards in the name of that agent is delivered.
RevokedBefore(n) ==
    \E m \in CallsOf({"revokeAll"}) :
        m < n /\ calls[m].agent = calls[n].agent /\ calls[m].outcome = "OK"

ReportedRevocationHolds ==
    \A n \in CallsOf({"proxyPayment"}) :
        RevokedBefore(n) => delivered \cap AttemptsOf(n) = {}

-----------------------------------------------------------------------------
(* What the tests of the SDK say and the system does not do: a call that    *)
(* was answered 429 is retried and then succeeds.  (retry.test.ts)          *)

\* A retry after 429 is not refused for the nonce of its own first attempt.
RetryNotWasted ==
    \A n \in CallsOf({"proxyPayment"}) :
        HasEnded(n) /\ ~calls[n].lost /\ calls[n].attempt > 0
          => calls[n].outcome # "BadRequest"
=============================================================================
