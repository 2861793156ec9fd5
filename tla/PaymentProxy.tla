----------------------------- MODULE PaymentProxy -----------------------------
(***************************************************************************)
(* The payment path of the proxy (proxy/src/handlers/proxy.rs,             *)
(* forward_request) over the two stores it shares with every other         *)
(* request: the Postgres tables and the Redis nonce keys, together with    *)
(* the management handlers that change the tables meanwhile.               *)
(*                                                                         *)
(* A request is a process.  Its status names the await it is at, or, once  *)
(* it is answered, the answer.  Each action runs one request from one      *)
(* await to the next, which is the grain at which tokio interleaves        *)
(* handlers.  The INSERT of record_spend_atomic is two steps, because      *)
(* Postgres runs it at READ COMMITTED: the sub-query reads the rows        *)
(* committed when the statement starts, and the row becomes visible when   *)
(* the statement commits.                                                  *)
(***************************************************************************)
EXTENDS Guardrails, FiniteSets, FiniteSetsExt

CONSTANTS
    Requests,    \* calls of POST /x402/proxy in one behaviour
    Agents, Keys, RuleIds, Nonces,
    Payloads,    \* what a call may carry
    RuleTypes,   \* rules that create_rule and update_rule may be given
    KeySpecs,    \* [max, expires, allowed] create_session_key may be given
    InitAgents, InitRules, InitKeys,  \* the tables when the behaviour starts
    Operations,  \* the management operations called in the behaviour
    PoolSize,    \* connections of the database pool
    Day,         \* 24 hours, in clock ticks
    MinTtl, MaxTtl,  \* MIN_NONCE_TTL and MAX_NONCE_TTL, in clock ticks
    MaxTime      \* bound: the clock stops here

VARIABLES
    now,        \* the clock, shared by proxy, Postgres and Redis
    agents,     \* table agents: "none", "active" or "inactive"
    rules,      \* table guardrail_rules
    keys,       \* table session_keys
    ledger,     \* table spend_ledger, append-only
    nonces,     \* Redis: when the key of a nonce expires, 0 if never set
    status,     \* the await a request is at, or its answer
    payload,    \* what a request carries
    seenRules,  \* agent_rules of a request: the rules it loaded
    stmt,       \* the INSERT a request is running: its limit and snapshot
    delivered   \* requests whose X-Payment header reached the upstream

tables == <<agents, rules, keys, ledger>>
locals == <<payload, seenRules, stmt>>
vars == <<now, tables, nonces, status, locals, delivered>>

-----------------------------------------------------------------------------
(* Types. *)

KeyRow == [agent: Agents, max: Nat, spent: Nat, expires: Nat,
           allowed: SUBSET Address, revoked: BOOLEAN]
RuleRow == [agent: Agents, type: RuleTypes, active: BOOLEAN]

\* What the checks that touch no state make of a payment: URL, resource,
\* asset, scheme, network, amount required, recipient, UUIDs, signature.
Forms == {"Sound", "BadRequest", "Unauthorized"}

Payload == [agent: Agents \cup {Absent}, key: Keys \cup {Absent}, value: Nat,
            nonce: Nonces, form: Forms, validAfter: Nat,
            validBefore: Nat, timeout: Nat, payTo: Address,
            contract: Address \cup {Absent, Malformed},
            leverage: Nat \cup {Absent, Malformed},
            slippage: Nat \cup {Absent, Malformed}]

\* The amount is a BIGINT with CHECK (amount > 0).
LedgerRow == [id: Requests, agent: Agents, key: Keys \cup {Absent},
              amount: 1..MaxI64, nonce: Nonces, at: Nat]

\* The awaits of forward_request, in the order of the code.
Awaits == {"findKey", "findAgent", "findRules", "sumSpent", "storeNonce",
           "rateLimit", "reserve", "inserting", "charge", "forward"}
Answers == {"BadRequest", "Unauthorized", "NotFound", "Forbidden",
            "GuardrailViolation", "RateLimited", "Internal",
            "Forwarded", "UpstreamFailed"}

NoStmt == [limit |-> Absent, rows |-> {}, at |-> 0]

ASSUME ProxyAssumption ==
    /\ Absent \notin Agents /\ Absent \notin Keys
    /\ Absent \notin Payload /\ Absent \notin KeyRow /\ Absent \notin RuleRow
    /\ Payloads \subseteq Payload
    /\ RuleTypes \subseteq RuleType
    /\ KeySpecs \subseteq [max: 1..MaxI64, expires: Nat, allowed: SUBSET Address]
    /\ InitAgents \in [Agents -> {"none", "active", "inactive"}]
    /\ InitRules \in [RuleIds -> RuleRow \cup {Absent}]
    /\ InitKeys \in [Keys -> KeyRow \cup {Absent}]
    /\ \A k \in Keys : InitKeys[k] # Absent =>
          /\ InitKeys[k].spent = 0 /\ InitKeys[k].max <= MaxI64
          /\ InitAgents[InitKeys[k].agent] # "none"
    /\ PoolSize \in Nat \ {0} /\ Day \in Nat \ {0} /\ MaxTime \in Nat
    /\ MinTtl \in Nat \ {0} /\ MaxTtl \in Nat /\ MinTtl <= MaxTtl

TypeOK ==
    /\ now \in 0..MaxTime
    /\ agents \in [Agents -> {"none", "active", "inactive"}]
    /\ rules \in [RuleIds -> RuleRow \cup {Absent}]
    /\ keys \in [Keys -> KeyRow \cup {Absent}]
    /\ ledger \in SUBSET LedgerRow
    /\ nonces \in [Nonces -> 0..(MaxTime + MaxTtl)]
    /\ status \in [Requests -> {"idle", "Aborted"} \cup Awaits \cup Answers]
    /\ payload \in [Requests -> Payloads \cup {Absent}]
    /\ seenRules \in [Requests -> SUBSET RuleRow]
    /\ stmt \in [Requests -> [limit: Nat \cup {Absent}, rows: SUBSET LedgerRow, at: Nat]]
    /\ delivered \in SUBSET Requests

Init ==
    /\ now = 0
    /\ agents = InitAgents
    /\ rules = InitRules
    /\ keys = InitKeys
    /\ ledger = {}
    /\ nonces = [n \in Nonces |-> 0]
    /\ status = [r \in Requests |-> "idle"]
    /\ payload = [r \in Requests |-> Absent]
    /\ seenRules = [r \in Requests |-> {}]
    /\ stmt = [r \in Requests |-> NoStmt]
    /\ delivered = {}

-----------------------------------------------------------------------------
(* What the queries return. *)

Metered(r) == payload[r] # Absent /\ payload[r].agent # Absent

\* SUM(amount) over a set of rows.
Total(rows) == MapThenSumSet(LAMBDA row : row.amount, rows)

\* The rows of the agent with created_at > now() - interval '24 hours'.
WindowRows(a) == {row \in ledger : row.agent = a /\ row.at + Day > now}

ActiveRules(a) == {rule \in {rules[i] : i \in RuleIds} \ {Absent} :
                      rule.agent = a /\ rule.active}

\* Mutant of Fits: the amount of the new row does not count.
FitsIgnoringAmount(r) ==
    stmt[r].limit # Absent => Total(stmt[r].rows) <= stmt[r].limit

\* Would the row that r inserts fit under the limit of its statement?
Fits(r) ==
    stmt[r].limit # Absent =>
        Total(stmt[r].rows) + payload[r].value <= stmt[r].limit

\* Mutants of InsertFails: the UNIQUE index on tx_nonce, or the CHECK on
\* amount and the overflow of the sum, is missing.
InsertFailsWithoutUnique(r) == Fits(r) /\ payload[r].value = 0
InsertFailsUnchecked(r) ==
    Fits(r) /\ \E row \in ledger : row.nonce = payload[r].nonce

\* The statement raises an error: a BIGINT overflows, or the CHECK on amount
\* or the UNIQUE index on tx_nonce refuses the row.
InsertFails(r) ==
    \/ /\ stmt[r].limit # Absent
       /\ Total(stmt[r].rows) + payload[r].value > MaxI64
    \/ /\ Fits(r)
       /\ payload[r].value = 0 \/ \E row \in ledger : row.nonce = payload[r].nonce

NewRow(r) == [id |-> r, agent |-> payload[r].agent, key |-> payload[r].key,
              amount |-> payload[r].value, nonce |-> payload[r].nonce,
              at |-> stmt[r].at]

-----------------------------------------------------------------------------
(* The steps of forward_request. *)

Goto(r, s) == status' = [status EXCEPT ![r] = s]

\* The await after the session key was looked at.
AfterKey(p) == IF p.agent # Absent THEN "findAgent" ELSE "storeNonce"

FirstAwait(p) == IF p.key # Absent THEN "findKey" ELSE AfterKey(p)

\* Steps 1 to 5 of the handler touch no shared state but the clock.
VerifyPayment(p) ==
    IF p.form # "Sound"           THEN p.form
    ELSE IF now < p.validAfter    THEN "BadRequest"
    ELSE IF now >= p.validBefore  THEN "Unauthorized"
    ELSE IF p.value > MaxU64      THEN "BadRequest"
    ELSE FirstAwait(p)

Receive(r) ==
    /\ status[r] = "idle"
    /\ \E p \in Payloads :
          /\ payload' = [payload EXCEPT ![r] = p]
          /\ Goto(r, VerifyPayment(p))
    /\ UNCHANGED <<now, tables, nonces, seenRules, stmt, delivered>>

\* Step 6.  The key is not compared with the agent of the request.
AnswerOfKey(k, p) ==
    IF k = Absent                            THEN "NotFound"
    ELSE IF VerifySessionKey(k, p, now)      THEN AfterKey(p)
    ELSE IF /\ ~k.revoked /\ now < k.expires
            /\ SaturatingAdd(k.spent, p.value) > k.max THEN "GuardrailViolation"
    ELSE "Forbidden"

FindKey(r) ==
    /\ status[r] = "findKey"
    /\ Goto(r, AnswerOfKey(keys[payload[r].key], payload[r]))
    /\ UNCHANGED <<now, tables, nonces, locals, delivered>>

\* Mutant of AnswerOfAgent: is_active is not looked at.
AnswerOfAnyAgent(state) == IF state = "none" THEN "NotFound" ELSE "findRules"

\* Step 7: the agent, its rules and its 24h sum are three queries.
AnswerOfAgent(state) ==
    IF state = "none" THEN "NotFound"
    ELSE IF state = "inactive" THEN "Forbidden" ELSE "findRules"

FindAgent(r) ==
    /\ status[r] = "findAgent"
    /\ Goto(r, AnswerOfAgent(agents[payload[r].agent]))
    /\ UNCHANGED <<now, tables, nonces, locals, delivered>>

FindRules(r) ==
    /\ status[r] = "findRules"
    /\ seenRules' = [seenRules EXCEPT ![r] = ActiveRules(payload[r].agent)]
    /\ Goto(r, "sumSpent")
    /\ UNCHANGED <<now, tables, nonces, payload, stmt, delivered>>

SumSpent(r) ==
    /\ status[r] = "sumSpent"
    /\ LET spent == Total(WindowRows(payload[r].agent))
           ok == Evaluate(seenRules[r], payload[r], spent)
       IN  /\ Goto(r, IF spent > MaxI64 THEN "Internal"
                      ELSE IF ok THEN "storeNonce" ELSE "GuardrailViolation")
           /\ seenRules' = [seenRules EXCEPT ![r] =
                               IF spent <= MaxI64 /\ ok THEN @ ELSE {}]
    /\ UNCHANGED <<now, tables, nonces, payload, stmt, delivered>>

\* requirements.max_timeout_seconds.clamp(MIN_NONCE_TTL, MAX_NONCE_TTL)
NonceTtl(p) == IF p.timeout < MinTtl THEN MinTtl
               ELSE IF p.timeout > MaxTtl THEN MaxTtl ELSE p.timeout

\* Mutant of StoreNonce: a nonce that is taken is waited for.
StoreNonceWaiting(r) ==
    /\ status[r] = "storeNonce"
    /\ nonces[payload[r].nonce] <= now
    /\ nonces' = [nonces EXCEPT ![payload[r].nonce] = now + NonceTtl(payload[r])]
    /\ Goto(r, "rateLimit")
    /\ UNCHANGED <<now, tables, locals, delivered>>

\* Step 8: SET key 1 NX EX ttl.  An error of the command counts as "not set",
\* whether Redis has stored the key and the reply was lost, or has not.
StoreNonce(r) ==
    /\ status[r] = "storeNonce"
    /\ LET n == payload[r].nonce
       IN  \/ /\ nonces[n] <= now
              /\ nonces' = [nonces EXCEPT ![n] = now + NonceTtl(payload[r])]
              /\ \/ Goto(r, "rateLimit") /\ UNCHANGED seenRules
                 \/ Goto(r, "BadRequest") /\ seenRules' = [seenRules EXCEPT ![r] = {}]
           \/ /\ Goto(r, "BadRequest")
              /\ seenRules' = [seenRules EXCEPT ![r] = {}]
              /\ UNCHANGED nonces
    /\ UNCHANGED <<now, tables, payload, stmt, delivered>>

\* Mutants of CheckRate: the request is forwarded before it is metered,
\* which the ledger records afterwards or not at all.
CheckRateForwarding(r) ==
    /\ status[r] = "rateLimit"
    /\ Goto(r, "forward")
    /\ UNCHANGED <<now, tables, nonces, locals, delivered>>
CheckRateDelivering(r) ==
    /\ status[r] = "rateLimit"
    /\ delivered' = delivered \cup {r}
    /\ Goto(r, IF Metered(r) THEN "reserve" ELSE "Forwarded")
    /\ UNCHANGED <<now, tables, nonces, locals>>

\* Step 9.  RateLimiter models how the answer comes about.
CheckRate(r) ==
    /\ status[r] = "rateLimit"
    /\ \/ Metered(r) /\ Goto(r, "reserve") /\ UNCHANGED seenRules
       \/ ~Metered(r) /\ Goto(r, "forward") /\ UNCHANGED seenRules
       \/ /\ Goto(r, "RateLimited")
          /\ seenRules' = [seenRules EXCEPT ![r] = {}]
    /\ UNCHANGED <<now, tables, nonces, payload, stmt, delivered>>

\* Step 10, record_spend_atomic: the statement takes a connection and its
\* snapshot.  Amounts and limits beyond a BIGINT are refused before.
BeginInsert(r) ==
    /\ status[r] = "reserve"
    /\ seenRules' = [seenRules EXCEPT ![r] = {}]
    /\ \E limit \in ExtractDailyLimit(seenRules[r]) :
          IF payload[r].value > MaxI64 \/ (limit # Absent /\ limit > MaxI64)
          THEN /\ Goto(r, "Internal")
               /\ UNCHANGED stmt
          ELSE /\ Cardinality({q \in Requests : status[q] = "inserting"}) < PoolSize
               /\ stmt' = [stmt EXCEPT ![r] =
                     [limit |-> limit, at |-> now,
                      rows |-> IF limit = Absent THEN {}
                               ELSE WindowRows(payload[r].agent)]]
               /\ Goto(r, "inserting")
    /\ UNCHANGED <<now, tables, nonces, payload, delivered>>

\* Mutant of CommitInsert: an error of the statement is only logged.
CommitInsertIgnoringErrors(r) ==
    /\ status[r] = "inserting"
    /\ stmt' = [stmt EXCEPT ![r] = NoStmt]
    /\ ledger' = IF InsertFails(r) \/ ~Fits(r) THEN ledger ELSE ledger \cup {NewRow(r)}
    /\ Goto(r, "forward")
    /\ UNCHANGED <<now, agents, rules, keys, nonces, payload, seenRules, delivered>>

\* ... and commits, whatever was committed since its snapshot.
CommitInsert(r) ==
    /\ status[r] = "inserting"
    /\ stmt' = [stmt EXCEPT ![r] = NoStmt]
    /\ \/ /\ InsertFails(r)
          /\ Goto(r, "Internal")
          /\ UNCHANGED ledger
       \/ /\ ~InsertFails(r) /\ ~Fits(r)
          /\ Goto(r, "GuardrailViolation")
          /\ UNCHANGED ledger
       \/ /\ ~InsertFails(r) /\ Fits(r)
          /\ ledger' = ledger \cup {NewRow(r)}
          /\ Goto(r, IF payload[r].key # Absent THEN "charge" ELSE "forward")
    /\ UNCHANGED <<now, agents, rules, keys, nonces, payload, seenRules, delivered>>

\* Mutants of ChargeKey: the WHERE clause lost its revoked, or the handler
\* ignores that it matched no row.
ChargeKeyRevoked(r) ==
    /\ status[r] = "charge" /\ Goto(r, "forward")
    /\ keys[payload[r].key].spent + payload[r].value <= keys[payload[r].key].max
    /\ keys' = [keys EXCEPT ![payload[r].key].spent = @ + payload[r].value]
    /\ UNCHANGED <<now, agents, rules, ledger, nonces, locals, delivered>>
ChargeKeyUnchecked(r) ==
    /\ status[r] = "charge" /\ Goto(r, "forward")
    /\ LET k == keys[payload[r].key]
       IN  keys' = IF ~k.revoked /\ k.spent + payload[r].value <= k.max
                   THEN [keys EXCEPT ![payload[r].key].spent = @ + payload[r].value]
                   ELSE keys
    /\ UNCHANGED <<now, agents, rules, ledger, nonces, locals, delivered>>

\* increment_spent: one UPDATE, whose WHERE clause Postgres evaluates on the
\* locked row.  An error of the database is answered like a row that did not
\* match, even when only the acknowledgement of the commit was lost.  The row
\* of the ledger stays when it refuses.
ChargeKey(r) ==
    /\ status[r] = "charge"
    /\ LET p == payload[r]
           k == keys[p.key]
       IN  \/ /\ ~k.revoked /\ k.spent + p.value <= k.max
              /\ keys' = [keys EXCEPT ![p.key].spent = @ + p.value]
              /\ Goto(r, "forward") \/ Goto(r, "GuardrailViolation")
           \/ /\ Goto(r, "GuardrailViolation")
              /\ UNCHANGED keys
    /\ UNCHANGED <<now, agents, rules, ledger, nonces, locals, delivered>>

\* Step 11.  A transport error (or the 30 s timeout of the client) says
\* nothing about whether the upstream got the request.
Forward(r) ==
    /\ status[r] = "forward"
    /\ seenRules' = [seenRules EXCEPT ![r] = {}]
    /\ \/ /\ delivered' = delivered \cup {r}
          /\ \E answer \in {"Forwarded", "UpstreamFailed", "Internal"} : Goto(r, answer)
       \/ /\ Goto(r, "Internal")
          /\ UNCHANGED delivered
    /\ UNCHANGED <<now, tables, nonces, payload, stmt>>

\* An await fails and is answered 500 (that of charge is ChargeKey's), or the
\* caller hangs up and hyper drops the handler, or the process dies.  Nothing
\* is rolled back, and an INSERT that was running may still commit (the pool
\* drains a connection before it reuses it, so the commit cannot come later
\* than this step frees the connection).
Abort(r) ==
    /\ status[r] \in Awaits
    /\ \/ Goto(r, "Aborted")
       \/ status[r] # "charge" /\ Goto(r, "Internal")
    /\ seenRules' = [seenRules EXCEPT ![r] = {}]
    /\ stmt' = [stmt EXCEPT ![r] = NoStmt]
    /\ \/ UNCHANGED ledger
       \/ /\ status[r] = "inserting" /\ ~InsertFails(r) /\ Fits(r)
          /\ ledger' = ledger \cup {NewRow(r)}
    /\ UNCHANGED <<now, agents, rules, keys, nonces, payload, delivered>>

-----------------------------------------------------------------------------
(* The management handlers.  Agents, rules and keys are never deleted, so a *)
(* look-up that precedes a write (does the agent exist?) is as good as part *)
(* of it; the transaction of revoke_all shows both its updates at once.     *)

dbOnly == <<now, nonces, status, locals, delivered>>

CreateAgent(a) ==
    /\ "CreateAgent" \in Operations
    /\ agents[a] = "none"
    /\ agents' = [agents EXCEPT ![a] = "active"]
    /\ UNCHANGED <<rules, keys, ledger, dbOnly>>

CreateRule(i, a) ==
    /\ "CreateRule" \in Operations
    /\ agents[a] # "none" /\ rules[i] = Absent
    /\ \E t \in RuleTypes :
          rules' = [rules EXCEPT ![i] = [agent |-> a, type |-> t, active |-> TRUE]]
    /\ UNCHANGED <<agents, keys, ledger, dbOnly>>

UpdateRule(i, a) ==
    /\ "UpdateRule" \in Operations
    /\ rules[i] # Absent /\ rules[i].agent = a
    /\ \E t \in RuleTypes, active \in BOOLEAN :
          rules' = [rules EXCEPT ![i].type = t, ![i].active = active]
    /\ UNCHANGED <<agents, keys, ledger, dbOnly>>

DeactivateRule(i, a) ==
    /\ "DeactivateRule" \in Operations
    /\ rules[i] # Absent /\ rules[i].agent = a
    /\ rules' = [rules EXCEPT ![i].active = FALSE]
    /\ UNCHANGED <<agents, keys, ledger, dbOnly>>

\* The agent must exist; it need not be active.
CreateSessionKey(k, a) ==
    /\ "CreateSessionKey" \in Operations
    /\ agents[a] # "none" /\ keys[k] = Absent
    /\ \E spec \in KeySpecs :
          /\ spec.expires > now
          /\ keys' = [keys EXCEPT ![k] =
                [agent |-> a, max |-> spec.max, spent |-> 0, expires |-> spec.expires,
                 allowed |-> spec.allowed, revoked |-> FALSE]]
    /\ UNCHANGED <<agents, rules, ledger, dbOnly>>

RevokeSessionKey(k, a) ==
    /\ "RevokeSessionKey" \in Operations
    /\ keys[k] # Absent /\ keys[k].agent = a
    /\ keys' = [keys EXCEPT ![k].revoked = TRUE]
    /\ UNCHANGED <<agents, rules, ledger, dbOnly>>

RevokeAll(a) ==
    /\ "RevokeAll" \in Operations
    /\ agents[a] # "none"
    /\ keys' = [k \in Keys |-> IF keys[k] # Absent /\ keys[k].agent = a
                               THEN [keys[k] EXCEPT !.revoked = TRUE]
                               ELSE keys[k]]
    /\ agents' = [agents EXCEPT ![a] = "inactive"]
    /\ UNCHANGED <<rules, ledger, dbOnly>>

-----------------------------------------------------------------------------
(* The environment. *)

Tick ==
    /\ now < MaxTime
    /\ now' = now + 1
    /\ UNCHANGED <<tables, nonces, status, locals, delivered>>

\* Redis restarts and has lost some of its keys (appendonly syncs once a
\* second), or evicted them.
LoseNonces ==
    /\ "LoseNonces" \in Operations
    /\ \E lost \in SUBSET {n \in Nonces : nonces[n] > now} :
          /\ lost # {}
          /\ nonces' = [n \in Nonces |-> IF n \in lost THEN 0 ELSE nonces[n]]
    /\ UNCHANGED <<now, tables, status, locals, delivered>>

Answered(r) == status[r] \in Answers \cup {"Aborted"}

\* All calls of the behaviour are answered and the clock has stopped.
Done ==
    /\ now = MaxTime /\ \A r \in Requests : Answered(r)
    /\ UNCHANGED vars

Step(r) ==
    \/ FindKey(r) \/ FindAgent(r) \/ FindRules(r) \/ SumSpent(r)
    \/ StoreNonce(r) \/ CheckRate(r) \/ BeginInsert(r) \/ CommitInsert(r)
    \/ ChargeKey(r) \/ Forward(r)

ManageAgent(a) ==
    \/ CreateAgent(a) \/ RevokeAll(a)
    \/ \E i \in RuleIds : CreateRule(i, a) \/ UpdateRule(i, a) \/ DeactivateRule(i, a)
    \/ \E k \in Keys : CreateSessionKey(k, a) \/ RevokeSessionKey(k, a)

Manage == \E a \in Agents : ManageAgent(a)

Next ==
    \/ \E r \in Requests : Receive(r) \/ Step(r) \/ Abort(r)
    \/ Manage
    \/ Tick \/ LoseNonces \/ Done

Spec == Init /\ [][Next]_vars

\* tokio runs every handler whose await is ready, and every await ends: the
\* pool, the database and the HTTP client have timeouts.
FairSpec == Spec /\ \A r \in Requests : WF_vars(Step(r))

-----------------------------------------------------------------------------
(* Properties. *)

DeliveredMetered == {r \in delivered : Metered(r)}

Spent(rs) == MapThenSumSet(LAMBDA r : payload[r].value, rs)

\* A payment that names an agent reaches the upstream at most once per
\* nonce, although Redis forgets nonces (TTL, restart): the UNIQUE index of
\* the ledger stands behind it, and the row comes before the forwarding.
MeteredNonceOnce ==
    \A r, q \in DeliveredMetered : payload[r].nonce = payload[q].nonce => r = q

\* Reserve-then-forward: what an agent's requests delivered upstream is
\* covered by the rows of the ledger in its name, whatever was aborted in
\* between, for every window of time the rows can be asked about.
DeliveredIsRecorded ==
    \A a \in Agents :
        Spent({r \in DeliveredMetered : payload[r].agent = a})
          <= Total({row \in ledger : row.agent = a})

\* For every session key: what was delivered with it (by requests that name
\* an agent) is within the counter of the key, and the counter within the
\* limit and within the rows of the ledger that name the key.
KeySpendSandwich ==
    \A k \in Keys : keys[k] # Absent =>
        /\ Spent({r \in DeliveredMetered : payload[r].key = k}) <= keys[k].spent
        /\ keys[k].spent <= keys[k].max
        /\ keys[k].spent <= Total({row \in ledger : row.key = k})

\* Revocation is final and stops a key at once: no step of any request adds
\* to the counter of a key that is revoked, no step makes it usable again,
\* and a deactivated agent stays deactivated.
RevocationIsFinal ==
    [][/\ \A k \in Keys : keys[k] # Absent /\ keys[k].revoked =>
              keys'[k].revoked /\ keys'[k].spent = keys[k].spent
       /\ \A a \in Agents : agents[a] = "inactive" => agents'[a] = "inactive"]_vars

\* r has not yet looked at its agent / at its session key.
BeforeAgent(r) == status[r] \in {"findKey", "findAgent"} /\ Metered(r)
BeforeCharge(r) ==
    \/ status[r] = "findKey"
    \/ Metered(r) /\ payload[r].key # Absent
         /\ status[r] \in {"findAgent", "findRules", "sumSpent", "storeNonce",
                           "rateLimit", "reserve", "inserting", "charge"}

\* A request that has yet to pass the check of a deactivated agent or the
\* charge of a revoked key never reaches the upstream, however far it was
\* when the revocation committed.
CutOff(r) ==
    \/ BeforeAgent(r) /\ agents[payload[r].agent] = "inactive"
    \/ /\ BeforeCharge(r)
       /\ keys[payload[r].key] # Absent /\ keys[payload[r].key].revoked

RevokedNeverDelivered == \A r \in Requests : [](CutOff(r) => [](r \notin delivered))

\* The daily limit under concurrency: the rows of an agent's last 24 hours
\* add up to at most PoolSize times its largest MaxSpendPerDay limit, since
\* no more than PoolSize INSERTs can run on overlapping snapshots.  (For
\* rules that do not change; one connection makes the limit exact.)
DailyMax(a) == CHOOSE m \in DailyLimits(ActiveRules(a)) :
                  \A n \in DailyLimits(ActiveRules(a)) : n <= m

OverspendWithinPool ==
    \A a \in Agents : DailyLimits(ActiveRules(a)) # {} =>
        Total(WindowRows(a)) <= PoolSize * DailyMax(a)

\* Every call that was received is answered.
EveryCallAnswered == \A r \in Requests : status[r] \in Awaits ~> Answered(r)

\* The inductive invariant.  A request carries what its await reads; a
\* session key that was found stays in the table; the ledger holds at most one
\* row per request and per nonce; and a request that names an agent is past
\* its reservation only if its row is in the ledger.
RowOf(row, r) ==
    /\ row.id = r /\ row.agent = payload[r].agent /\ row.key = payload[r].key
    /\ row.amount = payload[r].value /\ row.nonce = payload[r].nonce

HasRow(r) == \E row \in ledger : RowOf(row, r)

CarriesInv ==
    \A r \in Requests :
        /\ status[r] # "idle" => payload[r] # Absent
        /\ status[r] \in {"findAgent", "findRules", "sumSpent", "reserve",
                          "inserting", "charge"} => Metered(r)
        /\ status[r] \in {"findKey", "charge"} => payload[r].key # Absent
        /\ status[r] = "inserting" => payload[r].value <= MaxI64

KeyFoundInv ==
    \A r \in Requests :
        status[r] \in Awaits \ {"findKey"} /\ payload[r].key # Absent
          => keys[payload[r].key] # Absent

PastInsert == {"charge", "forward", "Aborted"} \cup Answers

LedgerInv ==
    /\ \A row \in ledger :
          /\ status[row.id] \in PastInsert
          /\ RowOf(row, row.id)
    /\ \A row, other \in ledger : row.nonce = other.nonce => row = other
    /\ \A row, other \in ledger : row.id = other.id => row = other

ReservedInv ==
    /\ \A r \in Requests :
          status[r] \in {"charge", "forward"} /\ Metered(r) => HasRow(r)
    /\ \A r \in delivered : Answered(r) /\ (Metered(r) => HasRow(r))

KeyLimitInv == \A k \in Keys : keys[k] # Absent => keys[k].spent <= keys[k].max

IInv == TypeOK /\ CarriesInv /\ KeyFoundInv /\ LedgerInv /\ ReservedInv /\ KeyLimitInv

\* The proxy implements MeteredPayments for the requests that name an agent.
Payments == INSTANCE MeteredPayments WITH
    reserved <- {<<row.id, row.nonce>> : row \in ledger},
    settled <- DeliveredMetered

ImplementsMeteredPayments == Payments!Spec

-----------------------------------------------------------------------------
(* What the documentation says and the code does not do. *)

\* spend_ledger.rs: "two concurrent requests cannot both pass the daily
\* limit check".
DailyLimitHolds ==
    \A a \in Agents : DailyLimits(ActiveRules(a)) # {} =>
        Total(WindowRows(a)) <= DailyMax(a)
=============================================================================
