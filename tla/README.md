# x402Guard: TLA+ models, model checking and proofs

x402Guard stands between AI agents and the services they pay with the x402
protocol (HTTP 402, EIP-3009 USDC authorisations). A Rust proxy checks every
payment against the guardrails of the agent before it forwards it; a Solana
program holds a vault that an agent may draw from within limits; a TypeScript
SDK and the plugins of three agent frameworks call the proxy; a dashboard
manages agents, shows what they spend and what was logged, and has a demo chat.

This directory holds TLA+ modules of these parts, TLC configurations that check
them on small instances, and proofs checked by TLAPS for every value of the
constants. Paths below are relative to the root of the repository.

## 1. Inventory

| Component | State | Operations | Module |
|---|---|---|---|
| Payment path, `proxy/src/handlers/proxy.rs` `forward_request`, with `repo/*` and `middleware/nonce.rs` | Postgres tables `agents`, `guardrail_rules`, `session_keys`, `spend_ledger`; Redis nonce keys; the locals of a running handler | one handler, eleven steps, ten awaits | `PaymentProxy` |
| Guardrail rules and session key checks, `middleware/guardrails.rs`, `middleware/eip7702.rs` | none (pure) | `evaluate`, `extract_daily_limit`, `verify_session_key` | `Guardrails` |
| Management handlers, `handlers/agents.rs`, `guardrail_rules.rs`, `session_keys.rs` | the same tables | create agent, create / update / deactivate rule, create / revoke session key, revoke all (the kill switch) | `PaymentProxy` |
| x402 headers and signatures, `middleware/x402/*` | none | parse, verify | `PaymentProxy` (`VerifyPayment`), partly |
| Rate limiter, `middleware/rate_limit.rs` | one Redis sorted set | `check` | `RateLimiter` |
| Audit writer, `services/audit_writer.rs`, `repo/audit_log.rs` | an mpsc channel, a batch, table `audit_log` | `emit`, `writer_loop`, `insert_batch` | `AuditWriter` |
| Solana program, `solana/programs/x402-guard` | the vault PDA, token accounts | six instructions | `Vault` |
| Solana flow of the proxy, `forward_solana_request`, `services/solana_rpc.rs` | a copy of the vault at finalized commitment | pre-flight check, forwarding | `SolanaProxy` |
| TypeScript SDK, `examples/core/src` | the calls of a client, the retry loop | the methods of `X402GuardClient` over `fetchWithRetry` | `RetryClient` |
| Framework plugins and demo scripts, `examples/openclaw`, `elizaos`, `cod3x` | what the tools told the agent | tools, actions, adapter; two demos | `AgentTools` |
| Sign-in, `dashboard/src/hooks/use-siwe-auth.ts`, `app/api/auth/*`, `middleware.ts` | nonce and session cookies, users and sessions at Supabase, the hook in every tab | click, nonce, sign, verify, sign-out | `SignIn` |
| Agent page and server actions, `app/dashboard/actions.ts`, `app/dashboard/agents/[agentId]` | what a page shows, the action of a tab | load, create / delete rule, create / revoke key, revoke all | `AgentPage` |
| Overview and spend monitor, `components/spend`, `hooks/useSpendRealtime.ts`, migration 004 | snapshot, sum, alerts of every card | load, join, receive a row, alert | `SpendMonitor` |
| Audit pages, `lib/audit-queries.ts`, `components/audit` | rows on the screen, stack of cursors, fetches under way | filter, next, previous | `AuditPages` |
| Demo chat, `app/agent/content.tsx`, `app/api/agent/route.ts` | the conversation of a tab | send, retry, the steps of the model and its tools | `DemoChat` |
| Row level security, migration 005 | none | access policies; only that they hide every row from the dashboard | `SpendMonitor`, partly |
| Start-up, configuration, routing, API key, health; EIP-7702 revocation data; static pages and interface components | read once, or none | | not modelled |

### How they interact

A handler of the proxy is a tokio task; it shares nothing in memory with the
others except the connection pool and the audit channel, and meets them in
Postgres and in Redis. Between two awaits it runs undisturbed, between two
queries anything may commit. The SDK reaches the proxy over HTTP and sends the
same body again when it retries; the tools of the frameworks call the SDK one
after the other and turn its errors into words. The dashboard's server actions
call the management handlers after a check of ownership; its pages read the
proxy, Supabase and a realtime stream of new ledger rows. All tabs of a browser
share its cookies and its wallet. The proxy knows the Solana vault only through
the JSON-RPC of a node; agent and owner submit the program's instructions on
their own. The handlers report what they did to the audit writer, after they
did it, and do not wait.

### What is hard, and what should hold

* **Two payments at once.** Agent, rules and 24h sum are three queries, the
  nonce is another store, and the INSERT that enforces the daily limit reads a
  snapshot. A payment is forwarded at most once per nonce, is recorded before it
  is forwarded, and limits hold up to a known factor.
* **Revocation during a payment.** The kill switch may commit at every await.
  It is final, and it stops every request that has yet to look at the agent or
  to charge the key.
* **Failure between two steps.** Handler dropped, process gone, reply lost,
  Redis restarted with a second of writes missing. The ledger may over-count,
  never under-count.
* **Retries.** A client cannot tell a lost request from a lost answer, and an
  attempt may arrive long after its call was given up. What a tool reports to
  an agent is so.
* **The day window of the vault.** A counter that is reset lazily, by updates of
  single limits in any order. There is a bound on what leaves in any 24 hours.
* **One rule in two languages.** The pre-flight check repeats the program's
  rules on an old copy of the vault.
* **A window counted by callers with clocks of their own**: the rate limiter.
* **A queue that nobody waits for**: the audit trail, its order and its losses.
* **Tabs that share cookies.** Two sign-ins at once, a sign-out while an action
  runs, an account changed between two clicks. Only an owner's session writes,
  a sign-in fails only for a reason, and no tab waits for ever.
* **Screens beside a moving table.** Actions of others while a page is shown, a
  snapshot and a stream that overlap, pages by cursor while rows come in.
* **A conversation that fails and is retried** costs a bounded amount.

`PROJECT.json` lists each hazard at its line with the properties that cover it.

## 2. Modules

```
Guardrails <- PaymentProxy <- RetryClient <- AgentTools
                   |
SignIn ----------- + <- AgentPage <- SpendMonitor --+
                                       DemoChat ----+- Website
MeteredPayments    (abstract; PaymentProxy implements it)
Vault <- SolanaProxy       RateLimiter       AuditWriter <- AuditPages

<M>_proofs  theorems about PaymentProxy, Vault (with SolanaProxy), RateLimiter,
            AuditWriter (with AuditPages), Website and AgentTools (with
            AgentTruth_proofs); SumTheorems about sums over sets
MC*         instances for TLC
```

An arrow leads from a module to one that EXTENDS it and composes with it.

**Guardrails** has the five rule types, `evaluate`, `extract_daily_limit` and
`verify_session_key` as operators. Addresses keep their letter case through
`Lower`, JSON values may be absent or of the wrong type, integers keep their
widths (`MaxU32`, `MaxI64`, `MaxU64` are constants, with `MaxI64 < MaxU64`).
`extract_daily_limit` takes the first `MaxSpendPerDay` rule of a query without
`ORDER BY`: a choice among them.

**PaymentProxy** has one process per call. `status[r]` is the await the call is
at, or its answer; each action runs one call from one await to the next:
`Receive` (steps 1 to 5), `FindKey` (6), `FindAgent`, `FindRules`, `SumSpent`
(7), `StoreNonce` (8), `CheckRate` (9), `BeginInsert` / `CommitInsert` and
`ChargeKey` (10), `Forward` (11). The `INSERT ... SELECT` of
`record_spend_atomic` is two actions because Postgres runs it at READ COMMITTED:
its sub-query sees what was committed when the statement began (`stmt[r].rows`),
its row appears when it commits, and the `UNIQUE` index on `tx_nonce` is
evaluated against what is committed then. `Abort` is every way an await does not
return: an error, a caller that hangs up, the end of the process; nothing is
rolled back, and a running INSERT may commit or not. `LoseNonces` is Redis
after a restart (`appendfsync everysec`) or an eviction. The management handlers
are one action each; their look-ups are part of the write since agents, rules
and keys are never deleted, and `revoke_all` is a transaction. The checks of URL,
resource, asset and signature touch no state and are one field of a payload,
`form`.

**MeteredPayments** is what the payment path promises about an agent's payments,
without how: reserve under an unused nonce, then settle once. The refinement
maps reservations to rows of `spend_ledger` and settled payments to requests that
reached the upstream.

**RetryClient** extends `PaymentProxy` with the SDK. `calls` is what the client has
called so far, of which the last may be under way; `Answer`, `NetworkError` and
`Wake` are the loop of `fetchWithRetry`. An attempt of `proxyPayment` is a request
of `PaymentProxy` (`Arrive`), an attempt of another method is served in one step
(`Serve`), and either may happen when the client has long given it up. POSTs
that create are retried like everything else.

**AgentTools** are the tools of OpenClaw, the actions and the provider of ElizaOS,
the adapter of Cod3x and the scripts of the two demos as uses of the SDK: which
agent id they pass on, what they refuse at once, and what they tell the agent
(`agent.results`). The Cod3x adapter throws: its result is the class of the error. A configuration lists the tools an agent uses, in order.

**SignIn** has the hook of the login page in every tab, the routes `nonce` and
`verify` with each of their awaits, the two cookies that the tabs share, the
users and sessions at Supabase, the route guard and sign-out. The rate limiter
of the routes is an answer that may come.

**AgentPage** adds the page of an agent, whose three fetches are answered in any
order, its buttons, and the five server actions: `CheckOwner` is the check of
session and ownership, `CallProxy` the call of the management handler, of which
the answer may be lost, and the page is then fetched again. `site` is how the
dashboard is deployed; as shipped the pages of agents do not load.

**SpendMonitor** adds the overview: a summary per agent (`get_agent_spend_summary`),
a card that mounts and joins the stream of its agent's rows, and the alert of the
effect that compares the sum before and after.

**DemoChat** is the conversation of a tab: `useChat`'s states, the checks of the
route, an answer in at most `MaxSteps` steps, and a stream that may break. None of
its tools changes a table.

**Website** composes the four, as one browser uses them: what is kept by a page goes
with it, and what the server is doing for it goes on. A `Journey` says which pages
the user asks for, how the dashboard is deployed, how many nonces are given out, and
which agents are managed, or pay, meanwhile. What a tab waits for is at the routes
(`BusyOutside`) or in a page (`BusyInside`); `PagesSettle` says that both end.

**RateLimiter** is `RateLimiter::check`: read the clock, run one atomic pipeline
(evict, add, count, expire), take the entry back if refused, by a command whose
error is ignored. `PaymentProxy.CheckRate` keeps only its answer.

**AuditWriter** is `emit`, the channel, `writer_loop` and `insert_batch`: a batch is
inserted event by event and given up at the first error. Events the foreign
keys of `audit_log` refuse are a constant, since `proxy_request_received` carries the
agent id of the caller before anybody looked it up.

**AuditPages** adds the log page: fetches under way, of which each may fail or be
overtaken, the cursor (the id of a row, looked up by the server), the filters, and
the stack behind Previous.

**Vault** has the six instructions as actions. A transaction that fails changes
nothing, so the checks are guards. `drawn[t]`, what was withdrawn before tick `t`,
is a history variable: it lets an invariant speak about every window of a day.

**SolanaProxy** extends `Vault` with `forward_solana_request`, which reads the vault at
finalized commitment: `finalized` follows `vault` at any distance.

Each MC module defines the values of the constants that a cfg cannot write down
and adds nothing else. Operators whose comment begins with "Mutant of" are plausible
bugs of the definition that follows them; no action uses them. Each checked property
is paired with the mutant that violates it in `PROJECT.json`, which shows that the
property depends on the code.

## 3. What is checked

Every definition of the models that stands for code is mapped to its lines in `PROJECT.json`.

| Run | Instance | Question |
|---|---|---|
| `replay` | 3 requests, 2 nonces, 1 agent, 1 key of limit 1, pool of 2, clock 0..1, day of 1, Redis loses keys | Are payments in an agent's name forwarded once per nonce (`MeteredNonceOnce`), recorded before they are forwarded (`DeliveredIsRecorded`), bracketed by the key's counter (`KeySpendSandwich`), and is `MeteredPayments` implemented? Is `IInv` an invariant? |
| `pool` | 3 payments of 1 and 2 units with nonces of their own, daily limit 2, pool of 2 | `OverspendWithinPool`: the rows of 24 hours add up to at most `PoolSize` times the limit |
| `manage` | 1 request of nine kinds (refusals of every sort, amounts of zero and beyond the widths), every management operation, two rules, tables empty at the start | Does no amount outside the range of the ledger's column get in (`TypeOK`)? Is a revocation final (`RevocationIsFinal`), and does it cut off a request in flight (`RevokedNeverDelivered`)? |
| `retry` | 13 configurations of OpenClaw, ElizaOS, Cod3x and the demos, up to 7 tools and 3 attempts each, pool of 1, lost keys | Are payments made once (`PaidOnce`), can a refusal be believed (`RefusalIsFinal`), is what a tool reports so (`ToldTheTruth`, `ReportedRevocationHolds`), where does a usable key come from after a reported kill switch (`LateKeysOnlyAfterLoss`), and does the agent get to its end (`AgentFinishes`, `EveryCallAnswered`)? |
| `site` | 2 tabs, 2 wallets with an agent each, 7 journeys: two sign-ins at once; a sign-in, then an agent; an agent managed from a page and from outside while the other tab is at the logs, where it may sign out; an agent whose rule makes its page fail; agent and overview as shipped; the monitors while `a2` pays 1 and 4 of a limit of 5; the chat | Does only a signer write (`WritesBySigner`), has a failed sign-in an excuse (`FailureExcused`), can the page be believed (`PageTellsTheTruth`), the monitor and its alert (`MonitorSound`), is a conversation bounded in cost (`CostBounded`), and does no tab stay busy (`PagesSettle`)? |
| `vault_window` | limits and amounts 0..2, valid and invalid parameters, partial updates, a second account of the vault (`spare`) that takes deposits and may be the one that is closed, day of 2 ticks, clock 0..4 | `IInv`, `RollingWithinTwice`, `LimitsOrdered`, `WithdrawalsCharged`; and does the owner keep a way to the tokens (`Recoverable`)? |
| `solana_preflight` | 1 call of the proxy, amounts 0..2, destinations inside and outside the whitelist, missing and malformed; a vault with caps 1 and 2 that expires, is updated, revoked, closed and opened again; day of 1 tick, clock 0..1 | `PassedMeansAccepted`: on the vault it read, what the proxy passes the program accepts |
| `rate_window` | 4 calls, 2 per window of 2 ticks, clock 0..6, any delay between clock and pipeline | `InOrderWindow`, `AllowedStaysLogged`, `RefusedForCause` |
| `audit_trail` | 4 events, batches of 2, one event refused, one other error, one restart; pages of 1 row, rows that share `created_at`, ids in another order, 2 fetches, a filter by event and day | Is the trail in order and free of doubles (`InOrderOnce`), what may be lost (`LossWithinBatch`), is every event settled (`AlwaysSettled`), and does a reader who pages on miss a row (`NothingSkipped`)? |

Each run also checks the type invariant of its top module.

### Where code and words disagree

Three runs check what a comment, a document or a test says, and end in a
counterexample:

* `daily_limit`, `DailyLimitHolds`. `repo/spend_ledger.rs:8-11` and `SECURITY.md:37-39` say that two
  concurrent requests cannot both pass the daily limit. Two INSERTs whose
  snapshots overlap both do. `OverspendWithinPool` is what does hold; with a
  pool of one connection the limit is exact.
* `audit_recorded`, `EveryActionRecorded`. `README.md:78` says every action is
  immutably recorded. An event the foreign keys refuse takes the rest of its
  batch with it, without any failure of a machine.
* `retry_wasted`, `RetryNotWasted`. The retry test of the SDK expects a call answered
  429 to succeed when tried again. The nonce is stored before the rate limit is
  checked, so the retry is answered 400 "nonce already used".

Divergences noticed while reading, which no run shows:

*Proxy and program*

* `middleware/nonce.rs:3-4` promises each nonce once within the validity window of the
  payment. The TTL is `max_timeout_seconds` clamped to 60..86400 whatever
  `validBefore` is, and a request without an agent has no row in the ledger to
  stand behind it. (`MeteredNonceOnce` is about requests that name an agent.)
* A request that names a session key and no agent is compared with the key's
  counter and never charged (`handlers/proxy.rs:217` and `244`, against `middleware/eip7702.rs:6`).
* The list of steps at `handlers/proxy.rs:50-55` puts recording the spend after forwarding; the
  code records first, and the properties depend on it.
* The pre-flight check lets a call pass in the very second the agent
  expires, with amount zero, and without destination under a whitelist
  (`handlers/proxy.rs:629`, `657`, `673`), and does not roll the day over (`643-648`), so it
  also refuses what the program would accept. `PassedMeansAccepted` states the
  part on which both agree.
* `state/vault.rs:33` says "24-hour rolling window". The window tumbles
  (`guarded_withdraw.rs:111`): the cap can be drawn at its end and again a moment
  later. `RollingWithinTwice` is what holds, and is proved.
* `close_vault.rs:10` says "Drains all USDC and closes both"; the handler drains and closes
  the one account it is given (`34-35`, `66`). If that is another account of the vault than
  the associated one, the associated one stays, `initialize_vault` (which creates it) never
  succeeds again, and what it holds is lost. `Recoverable` says that this is the only way to
  lose the tokens; the instance has such an account.
* `README.md:414` says the rate limit is per IP; the key is "global".
* A call to the rate limiter that is overtaken by a younger one finds entries of its
  own window evicted, and one whose pipeline runs more than a window after it read the
  clock (`rate_limit.rs:51`) may find the key expired; nothing in the code bounds that
  delay, nor does the model. `InOrderWindow` leaves out exactly those calls.

*SDK and plugins*

* `RateLimitedError` and `SessionKeyExpiredError` of the SDK are never thrown, though the
  README of the Cod3x adapter names them; a body that is no JSON ends in an error the
  SDK does not wrap; the client never uses `config.agentId`.
* The payment headers of both demos cannot be parsed by the proxy and are answered 400;
  `elizaos/demo/demo.ts:162-163` and `208-209` announce a payment.
* A payment that the upstream refused (200 with `success: false`) is reported as a success
  by OpenClaw and ElizaOS. `ToldTheTruth` therefore says that a payment reported as
  made has reached the upstream, not that the upstream took it.
* `openclaw/README.md:128` says all tools return structured responses; the management tools
  throw. The networks "solana", "devnet" and "mainnet-beta", which the tools pass on,
  are always answered 400.
* The Cod3x adapter's `guardedExecute` does not use the configured agent (`adapter.ts:58-63`):
  without one in the request the payment is not metered.
* A `create_session_key` whose attempt was lost may arrive after `revoke_all` was reported done.
  `LateKeysOnlyAfterLoss` says that this is the only way.

*Dashboard*

* `lib/proxy.ts` reads the proxy without the API key, so that the page of an agent does not
  load as shipped. The second deployment of the `site` run is this; in the first a
  gateway adds the key.
* `createGuardrailRule` sends a body the proxy refuses (422). The page of an agent does not check
  whose agent it is (the actions do). A rule of object type makes `GuardrailTable` fail.
* The policies of migration 005 read the wallet at a place of the token where it is not,
  and so hide every row; an error of the summary shows as "No spend data".
* Two sign-ins of a new wallet may both create the user: one of them is told that it
  failed. The nonce cookie is shared: a second tab spoils the sign-in of the first.
  `SECURITY.md:97` says `verify` is not rate limited, and it is.
* Previous on the log page shows the previous page without its first row. A fetch that
  ends after a newer filter was chosen overwrites its rows; a failed one leaves the
  old rows under the new filter; a cursor that is not found shows the first page.
  `NothingSkipped` leaves out a filter that is changed while a page is being fetched.
* A chat of more than `MaxMessages` messages is refused for ever, and "Try again" makes it
  longer. `simulate_payment` is always refused, `get_audit_log` queries a table that does not
  exist, the indicator shows failed tools as done and spins on when a stream breaks.

### Bounds, and why they are enough

* Two requests show every race of the payment path; three allow one to settle
  a nonce between two others, and exceed a pool of two by one. Sums need amounts of 1
  and 2 to differ from counts. `MaxU32 = 3`, `MaxI64 = 6`, `MaxU64 = 8` leave amounts
  between the widths and beyond them (7 and 9).
* A day of two ticks with a clock to two (`pool`, `manage`), or of one with a clock to one
  (`replay`, where nonces expire at the same tick), lets rows leave the 24h window
  while requests run; with a clock to four (vault) two whole windows and a
  third that begins.
* The rate limiter's clock spans three windows and the expiry of the key, so that a call
  may wait for its pipeline longer than either.
* `MaxRetries = 2` has a first, a middle and a last attempt; configurations of several tools
  have one retry or none, which suffices for an attempt that arrives after its call.
  `retry` stops the clock (`MaxTime = 0`) and has a pool of one; expiry and overlapping
  INSERTs are the subject of the runs above.
* Four events in batches of two have a batch before, at and after an error. Pages of one
  row make every row a cursor.
* Two tabs of one browser share cookies and wallet; two nonces are one for each tab or
  two of one tab. `MaxMessages = 3`, `MaxSteps = 2`, `MaxSends = 4` pass the length limit. A journey
  keeps the parts of the dashboard apart that do not meet: what pages share is the
  sign-in and the proxy, and both meet an agent's page.
* In `site` the user waits until a page is there before leaving it (`Waits`), does not come
  back to the login page while the hook still runs (`Visit`), and gets as many nonces as
  the journey allows: two where two tabs sign in, else one. Both deployments are visited,
  each by the journeys that differ under it. `a2`'s two payments come in either order: the
  larger crosses 80 % of the limit alone, the smaller does not, so a card starts on either
  side of the alert. Agent `a1` pays nothing there, so that a card never meets the rows of
  another agent in the run; the filter of the channel is covered by `MonitorSoundCorrect`.
* Symmetry of the requests (`replay`, `pool`) and of the calls (`rate_window`) is
  used in runs without liveness properties; no constant distinguishes them.
* `site` does not check deadlock: when the user is done nothing need happen. Nor does
  `vault_window`: after the last tick a vault that cannot be created again stays as it is.

### Fairness

* `PaymentProxy!FairSpec`: weak fairness of each call's steps. tokio polls every task
  whose await is ready, and every await ends: the pool has an acquire timeout,
  `reqwest` one of 30 s. `Abort`, `Receive`, the management operations, the clock and
  Redis have no fairness.
* `AgentTools!FairToolSpec`: an agent goes on to its next tool; `fetch` resolves or rejects;
  `sleep` ends; and the steps of the proxy as above.
* `AuditWriter!FairSpec`, `AuditPages!PagesSpec`: the writer task runs while it has something to do, and a
  handler that committed reaches its `emit` unless the process ends. Readers owe nothing.
* `Website!WebsiteFair`, for every tab: the routes of sign-in and chat answer and their
  callers take the answer, a page that is loading is rendered or fails, a server action
  ends. Every await of theirs is a fetch with a timeout. The user, the wallet (which
  may leave a request to sign open for ever) and the callers of the proxy owe nothing.

## 4. What is proved

Eight modules of theorems, for all values of the constants that satisfy the
`ASSUME`s of the modules (which TLC evaluates in the runs).

| Theorem | Statement |
|---|---|
| `PaymentProxy_proofs!IInvCorrect`, `TypeCorrect` | `Spec => []IInv`, `Spec => []TypeOK` |
| `MeteredNonceOnceCorrect` | one delivery per nonce for requests that name an agent |
| `KeyLimitCorrect` | a session key's counter never exceeds its limit |
| `RevocationCorrect` | `Spec => RevocationIsFinal`, an action property |
| `RevokedNeverDeliveredCorrect` | a revocation cuts off the requests that have yet to reach its check |
| `Refinement` | `Spec => Payments!Spec`: the payment path implements `MeteredPayments` |
| `SpendInvCorrect`, `DeliveredIsRecordedCorrect`, `KeySpendSandwichCorrect` | what was delivered is covered by rows; a key's counter lies between deliveries, limit and rows |
| `OverspendWithinPoolCorrect` | while the rules stay as they are, the rows of 24 hours are at most `PoolSize` times the largest daily limit |
| `Vault_proofs!IInvCorrect` | `Spec => []IInv` |
| `RollingWithinTwiceCorrect` | at most twice the largest cap within any day |
| `LimitsOrderedCorrect` | limits stay positive and ordered through every sequence of updates |
| `RecoverableCorrect`, `WithdrawalsChargedCorrect` | the owner's way to the tokens stays open but for a close with a side account; a withdrawal is in the counter and within the cap of its day |
| `VaultUnderneath` | `ProxySpec => Spec`: the proxy beside the vault takes nothing from its theorems |
| `ProxyIInvCorrect`, `ProxyTypeCorrect`, `PassedMeansAcceptedCorrect` | types; what passes the pre-flight check the program accepts |
| `RateLimiter_proofs!IInvCorrect`, `TypeCorrect` | `Spec => []IInv`, `Spec => []TypeOK` |
| `AllowedStaysLoggedCorrect`, `InOrderWindowCorrect` | an allowed call is counted as long as it must be; at most `MaxRequests` of the calls that run in order and within a window of their stamps, however late the others are |
| `RefusedForCauseCorrect` | `Spec => RefusedForCause`, an action property |
| `AuditWriter_proofs!IInvCorrect`, `TypeCorrect` | `Spec => []IInv`, `Spec => []TypeOK` |
| `InOrderOnceCorrect`, `LossWithinBatchCorrect` | order, uniqueness, and what an error may cost, through failures and restarts |
| `PagesOnlyReads` | `PagesSpec => Spec`: the log page takes nothing from the theorems of the writer |
| `PagesInvCorrect`, `PagesTypeCorrect`, `NothingSkippedCorrect` | the invariant of the log page; types; a reader misses no row |
| `AgentTools_proofs!RouteInvCorrect`, `ToolTypeCorrect` | the invariant of SDK and tools by themselves; types |
| `ToolsUnderneath` | `ToolSpec` implements `PaymentProxy!Spec`, whose theorems hold under SDK and tools |
| `AgentTruth_proofs!TruthInvCorrect` | the inductive invariant of SDK and tools over the proxy |
| `MadeOnceCorrect`, `PaidOnceCorrect` | a payment is delivered once and has one row at most, however it is retried, and a key is charged once at most for each |
| `RefusalIsFinalCorrect`, `ReportedRevocationCorrect` | what a refusal, and a reported revocation, may be believed for |
| `ToldTheTruthCorrect`, `LateKeysCorrect` | what the tools tell the agent is so; which keys may outlive the kill switch |
| `Website_proofs!WebsiteInvCorrect` | the inductive invariant of sign-in and agent pages |
| `WritesBySignerCorrect`, `PageTellsTheTruthCorrect` | who writes, and what a page may be believed, for any number of tabs and wallets |
| `FailureExcusedCorrect` | a sign-in that is refused for its nonce has an excuse outside its tab |
| `CardsInvCorrect`, `MonitorSoundCorrect` | a monitor shows at most what was reserved, and raises one alert for a crossing |
| `SiteTypeCorrect` | types of everything the pages keep |
| `ChatInvCorrect`, `CostBoundedCorrect` | a conversation costs at most `MaxMessages * MaxSteps` calls of the model |
| `ProxyUnderneath` | `WebsiteSpec` implements `PaymentProxy!Spec`, whose theorems hold under the dashboard |

*Payment path.* `MeteredNonceOnce` is not inductive: a request that is about to be
forwarded must already be known to own a row. `IInv` adds that a request carries what
its next await reads, with an amount that fits its column (`CarriesInv`), that a key that was found stays in the table
(`KeyFoundInv`), that rows belong to requests past their insert, one per request and one
per nonce (`LedgerInv`), and that whoever is past the insert, or delivered, has a row
(`ReservedInv`). Redis occurs nowhere in it: what it forgets makes no difference to
these results. The proof has one lemma per action, with the parts of `IInv` that
the action leaves alone settled once. The refinement follows from `IInv`: `CommitInsert`
(or the commit inside an `Abort`) is `Reserve`, `Forward` is `Settle`, everything else
stutters. `RevokedNeverDelivered` is split into two invariants of the behaviour
after the cut-off: the request stays before the check it cannot pass, or is answered.

*Sums.* The sums of the models are `MapThenSumSet`, which adds by a recursive function on
sets. `SumTheorems` shows that the equation of this function has one solution, by induction
over the subsets of a finite set (a least set that lacks the property exists by
well-foundedness of the strict-subset order), and from it how a sum grows. Every bound
on a sum then is an injection from one set of terms into another.

*What was spent.* `SpendInv` keeps the counter of a key between two sums over its rows: those
whose request has charged the key, and those whose request has come as far as the charge
(an `Abort` may lie between commit and answer). Deliveries go one to one into the former.
For the daily limit `PoolInv` says: whichever INSERTs are running, the rows of the window that
they do not see, and one largest limit for each of them, stay within the bound;
an INSERT that commits turns its share into a row, and one that begins
sees all rows there are. At most `PoolSize` of them run. It assumes finitely many
rules (`IsFiniteSet(RuleIds)`) and, like the run, that no rule is created, updated or
deactivated (`RulesFixed`): a limit that is lowered or added says nothing about rows that
are there already.

*Vault.* `RollingWithinTwice` speaks about pairs of ticks, `WindowInv` connects them with
the counter: what is in the counter is what was drawn since the window started; a
day or more after its start nothing was drawn under it; and the day before the start
saw at most one cap. A day that begins inside one window therefore meets at most
that window and the next. `RecoverableCorrect` follows which accounts exist: only `close_vault`
ends one, a side account is never created again, and the associated one goes or stays with
the choice of the owner; it needs that this account is not there at the start (`VaultAssumption`),
since `initialize_vault` creates it.

*Solana flow.* What a passed call leaves behind is `Checked`: the facts about the vault it read that
its branches established. Every step of the composition is a step of `Vault`
or leaves it alone, so `Vault_proofs` supplies the types of the vault.

*Rate limiter.* The window holds because of what is still in the sorted set: `LoggedInv` says
that an allowed call has its entry, or a call a full window younger has run (and
evicted it), or two windows have gone by (and the key may expire). A call that runs in
order therefore finds every allowed call of its window in the set, injectively,
and the count it compares with the limit bounds them. Calls that were overtaken or slow are
left out of the count, not assumed away: they may run among the others as late as they like.

*Audit writer.* The argument follows positions in `emitted`: batch and channel are its end
(`SuffixInv`), the table's rows are earlier positions in rising order (`OrderInv`), and
every earlier position is in the table, was cut off by a restart, or has a failed
event fewer than `MaxBatch` positions before it (`LossInv`).

*Log page.* The order by `created_at` and id is total because the ids differ
(`NewerOrder`), every set of rows can be put in it (`OrderedExists`), and a page
is a prefix of the matching rows behind its cursor (`PageFacts`). `NothingSkipped` is not
inductive, for the next page starts at a cursor. `PagesInv` says it of every cursor in
use: what is on the screen, on the stack of Previous or carried by a fetch
*covers* the user's tour, that is, no row of the tour that is as new has not been shown;
and without a change of filter during a fetch there is one fetch at a time, for the filter
that is chosen (`Steady`). Rows keep their place while the writer appends
(`RowsStay`), which needs that no event is in the table twice: `OrderInv`.

*SDK and tools.* `RouteInv` is what SDK and tools know without the proxy: what was served belongs
to a call and fits its method, a call that ended with an answer had it from what was served,
and a demo that goes on has created its agent (`DemoInv`); so every write has an agent of
the table, and a step of the tools is a step of the proxy or none. `TruthInv` adds
that a request of the proxy is an attempt of one payment, with its body (`AttemptInv`; two
payments share no request since their numbers differ), that the attempts before the
last were answered 429 unless one was lost (`HistoryInv`), that only answers of delivered
requests say so (`SettledInv`), and for revocation that payments begun afterwards are
blocked (`ShutOutInv`, by the lemma behind `RevokedNeverDelivered`) and usable keys late (`KeyInv`).
`PaidOnce` maps the rows in a key's name one to one to the payments made with it
(`RowsWithinPayments`) and compares both sums with the counter by `SpendInv`.
The assumptions on configurations are in `ToolAssumption`: a tool that needs an agent or a key
is given one, a payment has a payload, and only a demo uses the agent it has created.

*Dashboard.* The invariant says that whoever is live has signed, that a form at the route
`verify` carries the address that signed, and that a running action has an owner among
the signers. `PageTellsTheTruth` needs that revocation is final in the proxy below
(`Grown`), and that an action which wrote has left what its page will show.
`CostBounded` follows the answers begun in a conversation: each adds a message that
the next request carries, and the route refuses a request that is too long.
`FailureExcused` follows the cookie: unless the tab was spoiled, the cookie is the nonce that
waits for the signature, and what was sent is the nonce that was signed (`ExcuseInv`);
"nobody" must be neither a wallet nor a tab (`SignInAssumption`). `MonitorSound` rests on
`CardsInv`: what a card has added up and what its feed may still bring are together at most
the rows of its agent, and the alerts it has raised are those its sums call for; that rows
stay and are finitely many comes from the proxy below.

### Only model-checked

Liveness (`EveryCallAnswered`, `AgentFinishes`, `AlwaysSettled`, `PagesSettle`) is outside
what the prover handles. Every safety property and every action property that a passing run
checks is also a theorem.

## 5. Abstractions to know of

* Proxy, Postgres and Redis share one clock, and so do the proxy and the chain; a
  tick is any unit, and everything that happens within it has one time stamp.
* `OverspendWithinPool` is checked for rules that do not change: a limit that is lowered
  says nothing about rows that are there already.
* After a crash of the process its connections may have an INSERT running while a
  new process opens `PoolSize` more; the model bounds the overlap by `PoolSize` throughout.
* The UNIQUE indexes on an owner's agent and on a session key's public key
  (`001_create_tables.sql:10` and `35`) are not modelled: `CreateAgent` and `CreateSessionKey` may
  succeed where the code answers 500, so the model has more behaviours than the program.
* A command to Redis that fails is answered like a nonce that is taken, whether it stored
  the nonce or not; an error of the database at the charge of a key is answered 403, as a
  limit is, charged or not.
* The vault's list of allowed addresses is a set. One mint is modelled, and the
  associated account is created once per vault, by `initialize_vault`.
* The rate limiter's model has no restart of Redis: with the set gone every call is new.
  In sign-in and in `PaymentProxy` a limiter is an answer that may come.
* Signature checking, encoding, PDA derivation and the byte layout of the vault account are taken
  to do what they are written for.
* An attempt of an SDK method other than `proxyPayment` is served in one step, since its
  handler commits once. An attempt nobody waits for is served only if it writes.
* A query of the log page is evaluated when it is answered.
* Realtime delivers the rows committed after a card joined its channel, once each and in any order; rows between
  the snapshot and the join are missed, so a monitor may show less than was reserved and
  never more (`MonitorSound`). That nothing committed before the join is sent after it is
  assumed of Realtime (`Join`).
* A user does not edit the `user_metadata.wallet_address` of the Supabase account, and the
  development switch `DEV_SKIP_AUTH` is off.
* `getUser` may fail at any request: the page then finds nobody and the tab is sent to the
  login page (`Asked`). A sign-out or a `setSession` whose call fails leaves the session
  as it was; a nonce whose answer is lost has set its cookie. The two calls of `verifySession` in an
  action are one step, since nothing is read or written between them.
* What a language model says is left to chance; which tool it calls matters only
  for the indicator.

## 6. Not modelled

Start-up, configuration, routing, the API key and the health endpoints hold no state that
changes. `services/revocation.rs` builds a value for the owner to sign. The policies of
migration 005 one by one; the layout of the dashboard, its static pages and its
interface components; `examples/virtuals`, a Python script of the calls that the demos
make too.

## 7. Plan

Done, in this order: `Guardrails`, `PaymentProxy` with its proofs, `MeteredPayments`,
`Vault` with its proofs, `SolanaProxy`, `RateLimiter`, `AuditWriter`, `RetryClient`;
then `AgentTools`, `AuditPages`, `SignIn`, `AgentPage`, `SpendMonitor`, `DemoChat` and
`Website`, and the proofs about `Website`, `RateLimiter`, `AuditWriter`, `SolanaProxy` and
`AgentTools`; then the theorems about sums and those that rest on them, and the log page.

Left, by weight:

1. An abstract specification of the rate limiter (a sliding log) and of the audit trail (a
   sequence with gaps), with refinements.
2. The daily limit for rules that change: a bound in terms of the largest limit of
   the last 24 hours.
