# TrueFlow gateway: TLA+ specifications

TrueFlow is an AI gateway: clients send LLM requests with a virtual token, and
the gateway checks policies, spend caps and approvals, chooses an upstream,
injects the real credential, translates, forwards, bills and logs. It is one
Rust service (`src/gateway`) that runs as several processes sharing a
PostgreSQL database and a Redis, with a Next.js dashboard and a Python SDK as
clients of its HTTP API.

The specifications cover the places where concurrent actors meet on shared
state (handlers on one token, administrators and jobs on one row, a cache
between a table and its readers, chunks of a stream), the order in which one
request passes its checks, and the translations whose mistakes show only after
several turns. Paths below are relative to `src/gateway/src` unless they begin
with another top-level directory.

Contents: [inventory](#1-inventory), [plan](#2-plan),
[modules](#3-modules-and-the-code), [runs](#4-runs),
[fairness](#5-fairness), [proofs](#6-proofs),
[disagreements](#7-where-code-and-documents-disagree),
[limits](#8-what-is-not-modelled).

To repeat a run: `tlc -config HitlTokens.cfg MCHitlApproval`; the table in
section 4 names the module and the configuration of each. To repeat a proof:
`tlapm SpendCap.tla`; section 6 names the modules that have proofs. `SafeAreas`
takes about twenty minutes, the others a few each.

## 1. Inventory

Each entry: state, operations, what is hard, when it is correct.

### What a request passes

- **Request pipeline** (`proxy/handler/core.rs`). The token's row and its
  model groups, the counters below, one row of `audit_logs` per request.
  Some thirty early returns between the virtual key and the audit row; the
  model is checked once and changed later; the client may leave at any await.
  Correct when what is denied or not permitted is never sent, and what is sent
  is charged and recorded once.
- **Policy engine** (`middleware/engine`, `models/policy.rs`). No state; policies
  in order, with phases, modes, asynchronous rules and header presets. Correct
  when a deny stops the request unless something that may take it out has.
- **Approval gate** (`core.rs` section 3.8, `store/postgres/approvals.rs`,
  `api/handlers/approvals.rs`, `jobs/approval_expiry.rs`). Rows, a Redis list
  per row, `tokens.is_active`. The decision is written to two stores and the
  second write may be lost; retries wait for one decision; the wait may take
  half an hour. Correct when admission agrees with the row and the live token,
  retries share one approval, an approval is not lost, everything ends.
- **Spend caps** (`middleware/spend.rs`). Rows, Redis counters, the
  `spend_cap_overrun` flag. Check and bill are far apart, and who bills decides
  what a failed bill leaves. Correct when no counter passes its cap, nothing is
  counted twice, and a counter lacks a cost only where the code lets go of it
  (`SpendAccounted`). Their **cache** has a TTL, one
  mutex per token and process, and a DEL that races with loads.
- **Sessions** (`store/postgres/sessions.rs`, `jobs/session_cleanup.rs`). One
  row; increments in detached tasks, status changes in two statements.
- **Load balancer and circuit breaker** (`proxy/loadbalancer.rs`). Health
  entries keyed by URL, in memory. Outcomes arrive in any order and under
  another URL than the selected one.
- **Rate limits, in-flight counters, response cache** (`cache.rs`,
  `proxy/smart_router.rs`, `proxy/response_cache.rs`). Shared counters and
  entries; rejected requests count; futures that hold a counter are dropped.
- **Guardrails and redaction** (`middleware/guardrail`, `pii`, `redact.rs`,
  `sanitize.rs`, `external_guardrail.rs`). Several steps edit one body, later
  steps add text, and four copies are made. Correct when no copy has what was
  to be kept out of it.
- **Model access** (`middleware/model_access.rs`, `teams.rs`, `utils.rs`).
  Lists, groups and teams that are edited while requests read them one by one;
  three matchers of patterns.
- **Model router** (`proxy/model_router`). Messages, tools, options, usage,
  errors and addresses in four dialects.
- **Tool loop and MCP** (`middleware/mcp.rs`, `mcp/`). Tools of servers, their
  registry behind two locks, its tables, their access tokens. Several turns per
  request, in another dialect than the client's.
- **Streams** (`proxy/stream_bridge.rs`, `proxy/stream.rs`,
  `model_router/streaming.rs`, `bedrock.rs`, `proxy/realtime.rs`). A reader, a
  channel, a waiter; events cut anywhere; sessions with two pumps.
- **Audit writer and budgets** (`middleware/audit.rs`,
  `jobs/budget_checker.rs`). Rows written in three statements with retries,
  aggregates, verdicts and alerts written at four other times.
- **Secrets** (`vault/`, `rotation.rs`). Envelopes, stores of customers with
  shared access tokens, and schedulers of several processes that rotate keys.
- **Observers** (`middleware/observer.rs`, `langfuse.rs`, `anomaly.rs`,
  `notification/webhook.rs`). A buffer between tasks and a ticker, a sorted set
  that requests share, deliveries with attempts.

### What administrators change

- **Logins and keys** (`middleware/oidc.rs`, `api/mod.rs`,
  `store/postgres/api_keys.rs`, `users.rs`). A cache of signing keys, the last
  admin key, accounts made at the first login.
- **Policies, presets, experiments** (`api/handlers/policies.rs`,
  `api/guardrail_presets.rs`, `api/experiment_handlers.rs`). Series of
  statements without a transaction, on rows that several handlers edit.
- **Configuration files** (`iac/`, `api/config.rs`). Plan, import and caps, with
  stops half way.
- **Prompts** (`store/postgres/prompts.rs`), **prices**
  (`models/pricing_cache.rs`, `models/cost.rs`), **projects, organizations,
  users** (`api/handlers/projects.rs`, `users.rs`).

### How they interact

```
client --> handler: token, policies --> rate limit, budget, session
             |                              |           ^
             v                              v           | increment
        approval gate <-- reviewers     PostgreSQL      | (detached task)
             |       ^--- expiry job        ^           |
             v                              |           |
   spend check -> content, model access -> target -> translate -> upstream
        ^                                   ^                        |
   caps cache                 health entries, in-flight counters     |
                                                                     v
 audit row <- bill <- cache, content of the answer <- tool loop, stream bridge
     |          |                                         |
 budget job   Redis counters                       MCP registry, OAuth
```

A handler goes through the components in sequence and shares no lock between
two of them; what couples them is its own life (it may be dropped at any await)
and the tables and keys that other requests, jobs and administrators change.
Most modules therefore take one component with all its concurrent actors and
represent the rest of the pipeline by any verdict it can give. Where components
are coupled by data they are composed: `SpendTrail` (bridge, writer, budget),
`ToolLoop` (router, tools), `RequestPipeline` (engine, limits, cache, calls).

### Components without shared state

Request signing, analytics (read-only SQL), the cleanup of old rows, the
admin router, start-up, migrations, the dashboard, the SDK and the test tools
are not modelled; `PROJECT.json` gives the reason for each.

## 2. Plan

| step | modules | state |
|---|---|---|
| 1 | `ApprovalGate`, `HitlApproval` | checked; every safety property and the refinement proved |
| 2 | `SpendCap`, `SpendCapsCache` | checked; types, caps and sums of `SpendCap` proved |
| 3 | `CircuitBreaker`, `SessionLifecycle` | checked; `TracksFailures`, `InvalidOnlyByRace` proved |
| 4 | `StreamBridge`, `BudgetCap`, composed with the audit writer in `SpendTrail`; `SpendTrail_proofs` | checked; every safety property proved |
| 5 | `PolicyEngine`, `RequestPipeline`, `RequestPipeline_proofs` | checked; every property of the run proved |
| 6 | `ModelRouter`, `ToolLoop`, `ToolLoop_proofs`, `RequestOptions`, `EventStream`, `Realtime` | checked; `ResultsAnswerCalls`, `BlockedNeverRuns`, `StreamAgrees`, `StreamsCarried` proved |
| 7 | `McpRegistry`, `McpTools`, `McpOAuth` | checked; `CallsOwnServer`, `TokensOutliveCalls`, `CopiesKept` proved |
| 8 | `ContentPath`, `NamePatterns`, `AccessLists` | checked; `SentIsClean`, `CopiesClean` proved |
| 9 | `ApiKeys`, `JwksCache`, `Tenants`, `PromptRegistry`, `PolicyAdmin`, `ConfigAsCode`, `Experiments`, `PriceTable`; `SafeAreas` | checked; every property but the splits of `Experiments` proved |
| 10 | `SecretStores`, `KeyRotation`, `Exporters`, `Alerts` | checked; `TokenOutlivesCall` of `SecretStores` proved |
| 11 | proofs, see section 6 | done; left: below |

Proofs still worth having: `SuccessIsOwn` (`KeyRotation`) and `ExportedOnce`
(`Exporters`), whose invariants are local to a task and a row; the staleness
property of `SpendCapsCache`; the addresses and usages of `RequestOptions`. A
component's proofs stand at the end of its module where they are short, in a module with
`_proofs` in its name where they are long, and in `SafeAreas` for the components
that it puts side by side.

Conventions: parameters are CONSTANTS with named assumptions; each operation is
an action named after the function it models; failures are disjuncts or actions
of their own next to the successful ones; a variable marked "history" is read by
properties only; the operators called "Mutant" keep a plausible mistake beside
the definition they would replace and are used by no behaviour.

## 3. Modules and the code

`PROJECT.json` maps each definition to the lines it stands for. Here is what the
variables are and what was abstracted.

### HitlApproval and ApprovalGate

`row` is `approval_requests.status` (a row is named by the request that
inserted it), `due` the rows with `expires_at < NOW()`, `list` the Redis list
`hitl:decision:{id}`, `unsent` a decision between its UPDATE and its LPUSH,
`pc`, `ticket`, `reply` a handler's position, its `approval_id` and a popped
value on the wire, `active` is `tokens.is_active`.

A reply is a step of its own, because Redis removes the element before the
client has it. `Drop` is a dropped future; a crash is every handler of the
process dropped and its pushes lost. Durations are abstracted to "may end now";
policy timeouts of zero, which BLPOP never ends, are the set `Unbounded`.
`ApprovalGate` keeps only rows, tickets, verdicts and live tokens; the mapping
takes a handler's stage to its verdict.

### SpendCap and SpendCapsCache

A request of `SpendCap` is one bill: one call of `check_and_increment_spend`. Its
`site` says who calls: the handler for the answer that it is about to return
("unary", `core.rs:3617`), the task that follows a stream ("streamed"), or a place
that only logs an error ("logged": the response cache at 2158, the turns of the
tool loop at 3495, the test header at 3582). The loop's last answer is billed at
two sites and is two requests here. An error at the first two sets the handler's
local variable (stage "overrun"), which becomes the column `spend_cap_overrun`
with `audit.emit` ("flagged"); until then a post-flight rule that denies the
answer (3671, "denied") or a client that leaves (4108, "lost") takes it away.
`limit` is `spend_caps.limit_usd` per period, `stale` what the 60 s cache may
still return, `counter` and `window` the Redis counters and the window that the
clock names, `pc`, `caps`, `at`, `todo` a request's stage, its loaded caps, the
keys it computed and the periods it has left. The Lua script is one action,
because Redis runs it as one; a failing EVAL may or may not have run. Keys are
computed once when billing starts, so midnight may pass before the script runs.
Amounts are whole units, and a sum is the number of the units of its amounts
(`Units`), so that a bill of two costs twice as many units as one of one.

In the cache, `db` are the rows, `cached` the entry, `holder` the mutex of each
process. A load is GET, lock, GET, SELECT, SETEX, each its own step. Redis
failures make a GET a miss and a SETEX or DEL a no-op.

### CircuitBreaker

`tracked` are the keys of the `health` map, `healthy`, `failures`, `last`,
`probes`, `window` the fields of `UpstreamHealth`, `counter` the round-robin
counter, `pc` and `url` a handler's stage and its `final_upstream_url`,
`outcomes` history. `finalUrl` is the rewriting of a URL with the path.
`Succeed` and `Close` are `record_success` and `mark_healthy`, between which
other requests may run. The cooldown is the three-valued `last`. The choice by
weight is the set of targets whose share of the round the counter is in, which
has one member.

### SessionLifecycle

`status`, `completed`, `cap`, `total`, `idle` are the row; `apc`, `seen` and
`wanted` a status change between its SELECT and its UPDATE. Increments may
fail or be lost with the process. Tokens and request counts move with the cost.

### RequestPipeline and PolicyEngine

`RequestPipeline` has one record `h[r]` per request with what the handler has
decided so far, and shared variables for the token's row and groups, the usage
counter, the sliding windows, the in-flight counters, the response cache and
time. A stage is what the handler does between two awaits that matter to
another request. `text` is what `CACHE_KEY_FIELDS` keeps of a body besides the
model, `rest` what it leaves out: parameters that no list names and the path,
which stay as the client sent them. In the tool loop the call, the reading of
the answer (`receiving`), the look-up of its price (`pricing`) and the EVAL that
charges it (`charging`) are stages of their own, and `charged` lists the answers
that were charged, in order. A process reads its clock just before it calls the script on a
window (`cache.rs:176`); the model takes both as one step, so delays between
them and clocks that differ between processes are left out. What has several
entries is a set: the entries of the windows (`hits`), those of the cache, and
the limits that a handler has passed (`passed`, history). Approval, spend,
breaker and session are "may refuse here".

`PolicyEngine` translates evaluation: a condition is the sequence of its nodes
with children before parents; the rules of a phase are one list, and what is
matched, reached and triggered are sets of places in it; a pattern operator is
membership in the set of what it matches. `Forbids` is what the engine promises,
said without the engine: the first deny that a request matches, and that no
asynchronous rule or header voids, forbids it.

### StreamBridge, BudgetCap, SpendTrail

`StreamBridge` has, per stream, what the upstream still has to send (`left`),
the channel, the accumulator, the slot and the waiter. The waiter looks at the
slot, listens, looks again and waits: each is a step. `BudgetCap` has the
aggregate (`spend`), marks, sent notices, the cached verdict, and the job: what
it read when it fetched (`spend`, `marks`), the alerts it has `left`, which come
in any order, and the `notice` it looks at. `SpendTrail` has one writer per
entry (payload store, row, bodies, tool calls, with retries of the whole) and
joins it with the other two, the billing task, the month, faults of the stores
and restarts: it is where an answer becomes a row, a sum and a refusal.

### ModelRouter and ToolLoop

A message is a record of role, form of content and kinds of its blocks; texts,
arguments and renamed parameters are left out. `TranslateRequest` and
`TranslateResponse` fold over turns and blocks for each dialect, with what each
drops (calls for Anthropic, ids for Gemini). `ToolLoop` adds a client that sends
the conversation again with each answer, the lists of tools, the loop, and
streams that are cut into chunks anywhere and put together by
`StreamAccumulator`. What is picked from a list is picked by `Only`, from a set.

### RequestOptions

`provider`, `options`, `native`, `address`, `answer`, `shown` follow one request
from the client's options to the provider's and its answer or error back to the
client's. The model keeps to the provider's request. `Anthropic`, `Gemini`,
`Bedrock` translate tools, choice, limit, stops and form; `AnthropicUsage` and
the others the usage, which may be missing; `AnthropicType` and the others the
type of an error. `Address` is `rewrite_url` and `rewrite_upstream_url`;
addresses are sequences of segments after the host.

### EventStream and Realtime

In `EventStream` a message has its true size, the size that its bytes say, two
checksums that fit or not, and headers; `arrived`, `consumed` and `out` are what
came, was cut off and decoded. Bytes are counted in units, the prelude being
one; the length found where no message begins is arbitrary. `Realtime` has the
admission with its own rate window, the two connections, what each pump has in
hand, and the select that drops the other when one ends.

### McpRegistry, McpTools, McpOAuth

`McpRegistry` has the map `servers`, the `index` of names, the `rows`, and the
two tokio RwLocks as `held` and `queue` (first come, first served, readers
together). Each await for a lock is a step and a place to be dropped.
`McpTools` takes one server: what its provider offers, what the registry has in
`memory`, what the `table` has, statement by statement, and the restart that
reads it. `McpOAuth` has the cached token, the provider's own view of it, and
tasks that renew it, with times in units of the 60 s margin.

### ContentPath, NamePatterns, AccessLists

`ContentPath` follows `body`, `sent`, `answer`, `forwarded`, `shown`, `cached`
and `stored` of one request. A text is a set of pieces, each a kind that a
pattern can tell apart and a place (message, system text, tool argument,
continuation, header key); `banned` is history: what an action promised to keep
out. `NamePatterns` takes the three matchers over short names; the engine's
backtracking matcher runs one iteration a step. `AccessLists` has groups, a
team, their editing handlers, and checks that read one after the other.

### ApiKeys, JwksCache, Tenants, PromptRegistry

`ApiKeys`: a revocation counts in one statement and writes in another.
`JwksCache`: the provider's keys, one process-wide entry, logins that fetch and
replace it with the reply that they have. `Tenants`: each statement of a login
and of the handlers of projects and users is a step. `PromptRegistry`:
transactions at READ COMMITTED, where a statement sees what was committed when
it began and waits for locked rows.

### PolicyAdmin, ConfigAsCode, Experiments, PriceTable

Each is requests of administrators as series of statements on rows (`table`,
`rows`), with the answer they give and history of what has disturbed them
(`alone`, `crossed`, `meddled`), and a restart or a stop where it matters.
`PolicyAdmin` chooses first which phases the CHECK on the table admits
(`phases`): with that of `migrations/009` no preset can be inserted, so enabling
answers 500 unless there is a policy to update; with one that admits what
`insert_policy` writes the rest of the handlers is reached. `When` is how
`get_policies_for_token` reads a phase.
`ConfigAsCode` takes the command line's whole course: export, plan, import,
export, caps. `Experiments` adds requests that are split by weight and results
that are counted by name. `PriceTable` has the table, the copy in each process
and the three ways by which a call's price is found.

### SecretStores, KeyRotation, Exporters, Alerts

`SecretStores`: one credential and its store; `cached` tokens with their ends,
calls and logins with a timeout per network step. `KeyRotation`: schedulers with
their candidates and versions read, and `rotation_log`. `Exporters`: the set of
model labels, the buffer, the batches under way. `Alerts`: the seconds in a
token's sorted set, counts of windows, the deliveries of an event to its URLs.

### MC modules

Parts that share nothing are put side by side, so that one configuration does
for all of them. `SafeAreas` has `ContentPath` (which it extends, and which keeps
its names) and fourteen instances, each with its names replaced: sessions,
prompts, keys, logins, tokens and tools of MCP servers, stores of secrets,
configuration, policies, prices, tenants, experiments, binary streams, realtime
sessions. It states their properties and proves them, each of the part's own
specification (`Prompt!Spec /\ Config!Spec => []ChangesLive`). `MCSafeAreas` extends
it with the three areas that are only checked (patterns, access lists, options)
and with the values of the constants. In `AreasSpec` a behaviour is of one area
from its first state on and the variables of the others keep one initial value:
this is a union of the areas' behaviours, not their product, and neither adds a
behaviour to a part nor takes one away. Where a part has more ways to begin than
make a difference, `KeyJobs`, `LoginStarts`, `SecretStarts` and `PriceStarts` are
those that the run takes. `MCFairAreas` does the same with the parts that need
fairness; it extends `McpRegistry`. The other MC modules give one component its
constants.

## 4. Runs

A passing run explores every reachable state of its instance. Times are on two
workers.

| run | module, cfg | instance | properties | states, time |
|---|---|---|---|---|
| `hitl_tokens` | `MCHitlApproval`, `HitlTokens` | three requests, two tokens, one key, cap 1, retries symmetric | `OutcomeMatchesRow`, `KeyNamesOneApproval`, `RevokedNeverAdmitted` | 893k, 40 s |
| `hitl_retries` | `MCHitlApproval`, `HitlRetries` | two retries of one token, cap 2 | `GateResolves`, `GateRefined` | 6k, 3 s |
| `spend_caps` | `MCSpendCap`, `SpendCaps` | costs 2 and 1, three sites, daily and lifetime, caps 2, 3 or none, one midnight, one change | `CapHolds`, `SpendAccounted` | 1.13M, 30 s |
| `spend_hit_cap` | `MCSpendCap`, `SpendHitCap` | two requests, lifetime, cap 2 | `HitCapBlocks`, violated | |
| `cb_safety` | `MCCircuitBreaker`, `CbSafety` | two handlers, two targets (one rewritten), a service, threshold 2 | `TracksFailures` | 278k, 15 s |
| `cb_heals` | `MCCircuitBreaker`, `CbHeals` | one target, rate mode 50 % of 2 | `Recovers` | 2k, 2 s |
| `cb_paths` | `MCCircuitBreaker`, `CbPaths` | two targets, both rewritten | `FailsFast`, violated | |
| `pipeline` | `MCRequestPipeline`, `Pipeline` | fourteen pairs of requests, two tokens, models and URLs, window 2, one retry, two rounds of tools, one edit | `DeniedNeverSent`, `ModelPermittedWhenSent`, `RateLimitHolds`, `InFlightCounts`, `UnkeyedSentOnce`, `CacheServesOwnAnswers`, `AnswersCharged`, `AuditedOnce` | 1.24M, 85 s |
| `spend_trail` | `MCSpendTrail`, `SpendTrail` | a stream in three dialects; a plain answer with small or large bodies, or in a month without a partition; two answers against a budget; one fault | `RecordComplete`, `VerdictBacked`, `AlertsBounded`, `OpenAIStreamsBilled` | 540k, 150 s |
| `tool_loop` | `MCToolLoop`, `ToolLoop` | three requests, two servers, one tool of the client's, two rounds | `ResultsAnswerCalls`, `BlockedNeverRuns`, `StreamAgrees` | 1.56M, 90 s |
| `safe_areas` | `MCSafeAreas`, `SafeAreas.cfg` | eighteen areas | see below | 1.02M, 185 s |
| `fair_areas` | `MCFairAreas`, `FairAreas` | five areas | see below | 92k, 180 s |

What the properties say. Some are conjunctions; their parts have comments and
names of their own in the modules.

Approvals. `OutcomeMatchesRow`: a handler past the gate, or one that answered
"rejected", agrees with its row, whichever way the decision travelled.
`KeyNamesOneApproval`: retries with one key on one token wait for one row,
nobody waits for another token's. `RevokedNeverAdmitted`: no step admits a
request whose token is revoked. `GateResolves`: handlers end, an approval that
arrives during the wait is never reported as a timeout, rows do not stay
pending. `GateRefined`: every behaviour is one of `ApprovalGate`.

Spend. `CapHolds`: with unchanged caps no counter passes its cap.
`SpendAccounted`: nothing is counted twice; a cost that a capped counter lacks is
still being billed, is flagged on an audit row, or was let go of where the code
does that: at a site that only logs, after a failed bill whose answer a
post-flight rule denies, or with a client that leaves. A streamed cost is counted
or flagged whatever the client does. `OpenAIStreamsBilled`: what the usage of a
stream in OpenAI's dialect says reaches the bill, but for named excuses; a stream
of any dialect leaves its record. The other dialects' usage is not covered, since
the code loses it (`EveryDialectBilled`, section 7).
`RecordComplete`: a record that is done is whole. `VerdictBacked`: a project is
over its cap only if rows of a month reach it, or a store failed.
`AlertsBounded`: a marked notice was sent, and repeated only by a cut-off run.

Breaker. `TracksFailures`: a tracked URL's circuit is not closed exactly when its
last `FailureThreshold` answers failed. `Recovers`: requests never stop being
sent; if failures stop, the circuit closes for good.

Pipeline. `DeniedNeverSent`: a rule that denies stops the request, with two
exceptions that the code has (an earlier asynchronous deny; one that the
client's headers took out with the token's leave). `ModelPermittedWhenSent`: the
model that is sent is in the lists the request was checked against.
`RateLimitHolds`: in any stretch of time as long as a
window, no more requests get past limits of n on it than n. `InFlightCounts`:
the counter is the calls in progress and those that have leaked.
`UnkeyedSentOnce`: a mutating body without a key is taken once, but on the two
paths with retries of their own. `CacheServesOwnAnswers`: a cached answer was
given to the same token for the same model and the same keyed fields (not: the
same body, section 7), and had passed every check. `AnswersCharged`: in the tool
loop, an answer after the first is charged before the next request, unless the
client leaves while the last one is being charged; none is charged twice but the
loop's last; the row has the cost of the last charge. `AuditedOnce`: a request
that ended has one row, as the exit paths say.

Conversations. `ResultsAnswerCalls`: every result that a provider gets is that of
a call before it, and every call the gateway took up is answered.
`BlockedNeverRuns`: the lists hold under both spellings of a tool's name.
`StreamAgrees`: chunks put together say what the answer says (Gemini's, if there is
one chunk: a client stops at the `[DONE]` that each ends with).

`safe_areas`:

| property | areas | it says |
|---|---|---|
| `ChangesLive` | prompts, configuration | a label renders where the last deploy put it; what was applied is live, however often it stopped half way before |
| `TokensOutliveCalls` | MCP tokens, vaults' tokens | a token does not end before the call that carries it arrives |
| `SentIsClean`, `CopiesClean` | content | what was to be kept from the provider is; the copies for client, cache and audit row are clean |
| `CopiesKept` | MCP tools, prices | a table and its copy agree when nobody is between them |
| `AsConfigured` | patterns, lists, options, experiments | matchers agree with their meaning; a token's model is one that its lists have; a request reaches its endpoint, its answer keeps to the options and an error tells its cause; splits are exact and results belong to their experiment |
| `StreamsCarried` | binary streams, realtime | intact messages are decoded once, in order and at once, however the stream is cut; sessions carry words in order and a window holds |
| `BrokenOnlyByRace` | sessions, keys, tenants, experiments | a rule that the code enforces by looking before it writes is broken only by an overlap |
| `LoginsHold` | JWT, tenants | a published key works at once, a withdrawn one stops in time; one person has one account |
| `AnswersHold` | policies | a request that nobody disturbed did what its answer says; guardrails that it enabled are in force on requests, those for answers too (section 7, `AnswersGuarded`) |

`fair_areas`: `CacheFollowsRows` (staleness has two causes and ends, loads end),
`CallsOwnServer` (a tool is called on a connected server of the caller's
project), `HangsOnlyCrossed` (no task of the registry hangs, but by the one
crossing of its locks), `OverdueRotatedOnce` (overdue keys are rotated, each
version by one rotation), `EventsExported` (what is recorded is exported once,
trace and generation together), `AlertsArrive` (a rise is noticed and each URL
is told or tried as often as allowed).

### Why the bounds are enough

- Approvals: conflicts are between two requests for one row, and between two
  tokens with one key. Three requests give both. Nothing compares more than
  two, and the proofs cover any number for the properties of section 6.
- Spend: one request alone fits a cap of 2, both together fit 3 but not 2; each of
  the two is billed at each site. Two
  periods, one of which rolls over, suffice for "all or none" and for midnight
  between key and script. One change of the caps exercises stale loads.
- Cache: two loads in one process compete for the mutex, a third in another
  process does not; two changes let a fill overlap a second change.
- Breaker: a success and a failure of one URL overlap with two handlers;
  threshold 2 tells "one" from "enough"; counters are kept up to the value above
  which nothing reads them.
- Pipeline: each kind of action, mode, phase and header occurs in a pair, the
  other request of which is the competitor for a window, a counter or an entry
  of the cache. Pairs for the cache differ in token, in keyed text, or only in
  what the key leaves out. Two rounds of the loop are one continuation and the limit; time
  runs to `MaxTime` = the window, so a window passes.
- Trail: a channel of capacity 1 makes the reader block on the client; one chunk
  may cut the usage in two; two attempts are one retry; two months and the one
  after the last partition are the calendar's cases; one fault per behaviour may
  be any failure of either store or a restart at any point.
- Tool loop: an answer has up to two blocks, so two calls, text before a call,
  and calls of two owners occur; the third request carries results of the
  second's calls. Streams are cut at every event.
- Areas: two competing requests where a race needs two, three where a third
  must see what two left (prompts, tenants, policies); at most one restart; two
  processes; the sets of duties in `MCSafeAreas` are those combinations whose
  statements touch common rows.

`MaxWindow`, `MaxChanges`, `MaxWrites`, `CounterCap`, `Memory`, `MaxDepth`,
`MaxTime`, `MaxEdits`, `MaxFaults`, `MaxRestarts`, `MaxVersion`, `MaxClock`,
`MaxFailures`, `MaxEvents`, `MaxRequests` and `LastMonth` are bounds of the
models; `MaxRetries`, `MaxLoop`, `MaxIterations`, `MaxAttempts`, `MaxPending`,
`MaxCardinality`, `MaxBatch`, `Limit` are limits of the code, made small.
Deadlock is not checked where the system may come to rest; the circuit breaker's
handlers serve request after request, and its runs do check for it.

## 5. Fairness

- A handler or task that is not dropped keeps being polled by tokio and each of
  its waits has a deadline: weak fairness of its steps (`HitlApproval`,
  `SpendCapsCache`, `SpendTrail`'s `Follow` and `Reader`, `McpRegistry`,
  `Exporters`' `Push`, `Drain` and `FlushBatch`, `Alerts`' `Send`). Not fair:
  arrivals, reviewers, administrators, failures, revocation, drops, restarts.
- Jobs tick from `tokio::time::interval` and are respawned when they panic:
  weak fairness of one tick (`ExpireApprovals`, `KeyRotation`'s `FindDue` and
  `Rotate`, `Exporters`' `Tick`).
- Time passes: weak fairness of `FallDue`, `CoolDown` and of the TTL (`Expire`
  in the cache).
- tokio's mutex is a FIFO queue: strong fairness of `Lock`. The RwLocks of
  `McpRegistry` have their queue in the model and need weak fairness only.
- Circuit breaker: requests keep coming, and those to a URL are not all
  abandoned, dropped or failed (strong fairness of selection, dispatch and
  success per handler and URL). This describes the environment of the promise
  "self-heals when the upstream recovers"; it does not say that the scheduler
  favours any target.

A step of a webhook's or a provider's server is never fair: `AlertsArrive` says
"told, or tried as often as is allowed". `StreamRecorded` excepts a process that
stops, and `OverdueRotatedOnce` holds while fewer credentials are broken than one
cycle takes.

## 6. Proofs

Checked by TLAPS for every value of the constants that satisfies the module's
assumption (`ConstantsAssumption` and the like, one in a module at most): any
number of requests, tokens, keys, periods, windows, policies, targets and
faults. The assumptions are what the code's types and configuration say: limits
and costs are natural numbers, requests are finitely many where they are
counted, a placeholder is none of the values it stands beside. Those of the parts
in `SafeAreas` (`PartsAssumption` joins them) say besides that a task does one
thing (calls and reauthorizations are disjoint), that identifiers made by an
INSERT are new, that what a provider offers is a function, that a request about
policies names ones that exist, and that workloads are typed.

| module | theorems (property) |
|---|---|
| `HitlApproval` | `TypeCorrect`, `OutcomesAgree` (`OutcomeMatchesRow`), `RevocationHolds` (`RevokedNeverAdmitted`), `KeysNameOne` (`KeyNamesOneApproval`), `GateImplemented` (`GateRefined`) |
| `SpendCap` | `TypeCorrect`, `CapsEnforced` (`CapHolds`), `AccountsAgree` (`SpendAccounted`) |
| `CircuitBreaker` | `CircuitsFollowAnswers` (`TracksFailures`) |
| `RequestPipeline_proofs` | `DenyReachesHandler`, `PipelineInvariant`, `DeniedNeverReachUpstream` (`DeniedNeverSent`), `SentModelsPermitted` (`ModelPermittedWhenSent`), `RateLimitsHold` (`RateLimitHolds`), `CountersExact` (`InFlightCounts`), `UnkeyedNeverRepeated` (`UnkeyedSentOnce`), `CacheNeverCrosses` (`CacheServesOwnAnswers`), `ChargesComplete` (`AnswersCharged`), `OneRow` (`AuditedOnce`) |
| `SpendTrail_proofs` | `RecordsComplete` (`RecordComplete`), `AlertsStayBounded` (`AlertsBounded`), `VerdictsBacked` (`VerdictBacked`), `OpenAIBilledInFull` (`UsageBilled`, the safe half of `OpenAIStreamsBilled`) |
| `ToolLoop_proofs` | `ResultsHaveCalls` (`ResultsAnswerCalls`), `ExcludedNeverRun` (`BlockedNeverRuns`), `StreamsAgree` (`StreamAgrees`) |
| `SafeAreas` | `PromisesKept` (`SentIsClean`), `CopiesAreClean` (`CopiesClean`), `RulesBrokenOnlyByRace` (`BrokenOnlyByRace`), `ChangesAreLive` (`ChangesLive`), `TokensGoodOnArrival` (`TokensOutliveCalls`), `CopiesOfStoresKept` (`CopiesKept`), `LoginsAndAccountsHold` (`LoginsHold`), `PolicyAnswersHold` (`AnswersHold`), `StreamsStayWhole` (`StreamsCarried`) |
| `McpRegistry` | `CallsStayOwn` (`CallsOwnServer`) |

### Approvals

`OutcomeMatchesRow` is not inductive: nothing in it says that what is popped
from the list is what the row holds. `GateInv` adds that a waiting handler's
row exists (`TicketsFiled`) and that a decision equals its row's status on each
leg of its way: before the push (`UnsentAgrees`), in the list (`ListAgrees`),
on the wire (`ReplyAgrees`). It is inductive because only a pending row
changes, and a pending row has no decision anywhere. `HandlerInv`, `PopInv` and
`EnvironmentInv` preserve it for handlers that touch no list, for pops, and for
reviewers, clock and jobs; `StepInv` joins them. Revocation follows from one
look at `Next`: `Validate` alone admits, and it reads `active`.

For the keys, `KeyInv` says that a ticket is a filed row of the request's own
token and key (`TicketsKeyed`) and that two filed rows of one token and key are
one row (`KeysUnique`, what the UNIQUE constraint keeps); of `GateInv` it needs
only that a handler about to file has not filed. The refinement maps a
handler's stage to its verdict; `HandlerRefines` and `EnvironmentRefines` show
for each action which step of `ApprovalGate` it is, or that it is none. What
`ApprovalGate` requires of a verdict that is learned comes from `GateInv`.

### Spend caps

`CapHolds` needs two facts more (`SpendInv`): while the caps have not changed,
whatever caps a request holds are those in force (`CapsInForce`), so the script
compares with the right limit; and what is still to be tracked without
comparison has no cap (`TodoUncapped`). The bill then compares and adds in one
step. This is where the Lua script's atomicity is used: two requests that pass
the advisory check together change nothing.

`SpendAccounted` is about sums. A sum is the number of its units, so that facts
about finite sets (`UnitsGrow`, `DisjointSum`, `UnitsAdd`, `UnitsOne`) take the
place of an induction. `LedgerInv` names, for each period, the requests whose
cost its counters hold: each entered once, none before it was billed, and every
billed one whose caps name the period. `SitesHold` says which stages belong to
which site: a bill is "logged" only where it is only logged, denied only in the
handler of a plain answer, and never lost by the task of a stream.

### Circuit breaker

`BreakerInv` ties `failures` to `outcomes`, the answers so far: it is the number
of the latest ones that failed, up to the threshold (`FailedLast`), and a
circuit is closed below the threshold (`Counted`). It holds between
`record_success` and `mark_healthy` too, when another request may fail. Before
a token has entries nothing has been sent for it, so no answer is missed.
Selection changes none of this (`SelectionOnlyRoutes`).

### Policies and the pipeline

`DenyReachesHandler` follows the first forbidding deny through the engine's
list of rules, the flattening of what they trigger, and what the client's
headers add, replace and take out. Facts about `FlattenSeq` are had by induction
over the lengths of sequences, as well-foundedness of < on the natural numbers
applied to a set of lengths (`SetInduction`), which needs no operator as a
parameter. It assumes that lists are lists (`PoliciesTyped`, `HeaderTyped`),
which `PipelineAssumption` says of all requests.

`PipelineInv` is a conjunction of five, each with its reason to be inductive:

- `HandlerInv`: what a handler knows of its own request, stage by stage: nothing
  is sent before the model is checked (`Checked`), an unkeyed body is out once at
  most (`SentOnce`), which row is left (`RowLeft`), and which answers have been
  charged, as the exact sequence at each stage (`Charged`: none before the first
  continuation, then the second answer and those after it in order, with the last
  one missing while it is priced and doubled once the handler has billed it). A step moves one handler, so each of its lemmas is about one.
- `CacheInv`: an entry, or an answer in hand, is that of a handler that has
  answered with success, whose token, model and keyed text are the entry's, and
  which no longer moves.
- `Counted`: a counter is the number of its callers and of those that have left
  without lowering it; a step moves at most one request between the two.
- `WindowsInv`: a limit that was passed less than a window ago has its entry in
  `hits`. A request that passes sees all of them, so there are no more than its
  limit.
- `DenyInv`: until a forbidden request ends there is a deny among the actions it
  still has to execute. What an action does to those behind it, and what a
  continuation of the loop puts there, keeps it (`TailKeepsDeny`, `ExecuteStep`).

### Spend trail

`RecordInv`: a writer past the row's insertion has a row, one past the bodies
has them in the database or a URL, at each attempt and after a failure that was
in truth a commit. `JobInv`: of each notice that the run of the job has still to
look at, the job knows the mark (`JobKnows`), since no other run sets any; so an
unmarked notice was sent at most once per fault (`SentOften`). `VerdictInv`: the
aggregate is covered by the rows of some month (`SpendCovered`), rows only grow
(`RowsKept`), and a verdict, cached or decided, has had such an aggregate behind
it. `StreamInv`: of an OpenAI stream whose usage came in one piece, either the
slot has all of it, or the accumulator of a reader that has not ended
(`BillsAll`).

### Conversations

A conversation (`Conversation`) is a list of messages in which each result
answers a call that an assistant's message before it made. `LoopInv` says that
the client's messages and those the loop sends are conversations, and that an
answer, plain or put together by the accumulator, has texts and calls such as a
conversation can be extended with (`Extended`). It is inductive: `Continue` adds
the model's message before the results of its calls, `Reply` what the client
was given. That translation keeps it is two lemmas, one per dialect that names
calls: OpenAI's is message by message (`OpenAIAnswered`), Bedrock's drops
messages (`BedrockAnswered`), for which it takes where in a flattened
list an element comes from (`Flattened`: in order, and nothing else). Recursions
are treated as in the policy engine: a list of steps, and induction over their
number. The assumptions (`ToolLoopAssumption`) are that models answer with texts
and calls, and that a client opens with a conversation: one whose opening has a
result without its call gets what it asks for, in any gateway.

For `StreamAgrees`, `HalfwayInv` says what has come of a stream: the events that
are gone and those that are left make up the answer's events, and the accumulator
has what it would have if those that are gone had come in one chunk (with Gemini,
as long as they did). That a chunk
may be cut anywhere is then two facts: `TranslateChunk` of a list is that of its
parts in order, and so is `PushAll`. At the end everything has come, and what is
left is one lemma per dialect, that the events of an answer in one chunk give the
texts, calls and reason of its plain translation. It needs one assumption more:
the value that stands for no reason is not a reason (`ToolLoopAssumption`).

### Content

`ContentInv` says that the body, not only what was last sent, keeps every
promise made so far, so that an action may run on it after others and a
continuation may send it again; and that there is no copy before the end. It
rests on `ContentAssumption`: bodies are records, JSON or not, and an answer has
one of three forms.

### MCP registry

`MapInv` is the argument of readers and writers: who is on the network holds the
map (`servers`), and who holds the map to change it is alone with it. A step of
one task therefore changes nothing that a call of another rests on, unless it
is granted the lock, and it is only granted it alone or with readers
(`GrantedAlone`, `HoldKeeps`).

### What `SafeAreas` proves

Each area has a theorem about its own specification; those of the table join
them. All follow one argument: what a task has in hand between two statements is
still so, or something has come between and the history says what.

| area | theorem | inductive invariant |
|---|---|---|
| sessions | `StatusBrokenOnlyByRace` | `SessionInv`: a change that is about to be written was allowed when the status was read |
| keys | `AdminBrokenOnlyByRace` | `KeyInv`: a revocation of an admin key that is about to write has counted two at least; they are fewer now only if another has written |
| tenants | `AccountsHold`, `ProjectsLostOnlyByRace` | `TenantInv`: persons have one row (`UsersApart`), whom a login has found is its person (`LoginKeeps`), a project that a task goes on with is of its organization (`ProjectKeeps`), and a deletion that none overlaps still counts two |
| experiments | `ExperimentsPreserved` | `TrialInv`: an update not overtaken has read the condition its experiment has |
| MCP tokens | `TokensSentUnexpired` | `TokenInv`: the end that the cache believes in is the delay of a reply after the real one at most, and so for a reply on its way; a call under way is due before its token ends |
| stores | `StoreTokensOutliveCalls` | `SecretInv`: the same with leases, and a login that began at most one timeout before its end |
| MCP tools | `ToolsOfMemoryKept` | `ToolInv`: until a writer is disturbed there is one, it writes what the registry has, and the part that it has written is the table |
| prices | `PricesOfProcessLive` | `PriceInv`: a copy is the table unless the process is behind or reloads; what a task that met no other has read is the table |
| logins | `KeysFollowed` | `LoginInv`: keys in hand or in the cache come from a time when they were published (`KeysInTime`, `CacheInTime`); an unhindered login's key is among those it fetched (`KeySeen`) |
| policies | `ChangesAnswered` | `AdminInv`: of two running requests neither is alone; what a lone one has done so far is in the table, statement by statement, and the rest is as it began (`UpdateWork`, `DisableWork`, `EnableWork`) |
| prompts | `LabelsRendered` | `PromptInv`: versions are numbered by the publishers that have committed, under one lock (`Publication`); a deploy that was not passed sees each version that has its label (`Labelling`) |
| configuration | `FilesAreLive` | `ConfigInv`: of a clean run, the tokens, policies and caps that are no longer planned are as in the file |
| realtime | `WordsStayWhole` | `VoiceInv`: in each direction some number of words has been heard, the next may be in a pump's hand, the rest waits in order, and an end is behind all (`Relayed`); `WindowInv`: a window admits no more than its count |
| binary streams | `FramesStayWhole` | `FrameInv`: what was decoded are events of intact messages in order, within the units consumed; with true lengths all of them (`Complete`), the buffer begins where a message does (`Boundary`), with one that has not all come (`Partial`) |

Three need more than a step by step look. For binary streams, that `Start`,
`Decode` and `Cut` satisfy their equations is shown for the recursive functions as
functions on sets of numbers, by induction as well-foundedness (`NumbersBySteps`);
then two complete lists of the same messages are equal (`ListsAlike`), which is
`WholeAsInParts`. For policies, that the newest row of some exists takes
`MaxOfRows`. For prompts, tenants and keys, cardinalities of sets to which one
element comes.

Attempts that failed changed the model in four places. `Preserved`: two updates
of one experiment and an edit between them leave the second with an old condition
that the history did not tell of; TLC's instance has two tasks and never came
there, and `overtaken` now includes it (`Overtaken`). `WholeAsInParts` is false
for streams longer than the decoder's `MaxEvents`, where a stream that comes at
once is cut and one that comes in parts is not; it says so now. `Realtime` and
`McpOAuth` needed to be told that a placeholder is no frame and that no task is
both a call and a reauthorization.

### What stays with TLC

- All liveness properties (`GateResolves`, `Recovers`, the eventual half of
  `OpenAIStreamsBilled`, `CacheFollowsRows`, `HangsOnlyCrossed`,
  `OverdueRotatedOnce`, `EventsExported`, `AlertsArrive`): liveness under fairness
  and ENABLED are out of the prover's reach.
- `AsConfigured`: three matchers, four translations of options, and the exactness
  of splits are functions compared with their definitions, over data that TLC
  enumerates.
- `SuccessIsOwn` and `ExportedOnce` are the safe halves of temporal properties of
  `fair_areas`; so is the staleness of the caps' cache.
- `TracksFailures` is proved and checked where failures are counted. In rate
  mode only `Recovers` says something, with TLC.

## 7. Where code and documents disagree

### Shown by a run

- **Reaching a cap does not block** (`spend_hit_cap`, `middleware/spend.rs:120`).
  The advisory check refuses only above the cap and the script never goes above
  it, so requests are sent and flagged; README.md promises that they are
  blocked.
- **Circuits of rewritten URLs never open** (`cb_paths`, `core.rs:2872`). Health
  entries are keyed by the targets' URLs, outcomes are reported under the URL
  with the path.

### Shown by a definition that no run lists

Each of the definitions below states what a comment, a document or an ordinary
reader expects, and is violated. To see the counterexample, list it under
INVARIANTS, or where marked * under PROPERTIES, of the configuration named.

With `SafeAreas.cfg` (definitions at the end of `MCSafeAreas`):

- `TransitionsValid`*: a finished session is reopened by a status change that
  overlaps another (`sessions.rs:88`, the UPDATE does not repeat its condition).
- `LastDeployWins`, `MissingKeepsLabel`*: a deploy does not see a version
  published after it began; one that answers 404 has removed the label
  (`prompts.rs:178`).
- `LastAdminStays`*: two revocations that count each other's key remove both,
  which `api_keys.rs:83` calls atomic.
- `RetryHelps`, `RemovedForgotten`: the retry after a 401 sends the same token
  (`mcp/client.rs:251`); a renewal under way brings a removed server's token
  back.
- `RoutedToOwnStore`: the proxy gives no hint (`core.rs:2072`), so a credential of
  a customer's store is looked up in the default one (`vault/mod.rs:264`).
- `PlanEmptyAfterApply`, `PoliciesAttached`, `FilesApply`: a file without a log
  level or retries never compares equal; the import attaches no policies although
  `api/config.rs:353` says so; a file with policies is refused, since the command
  line sends no `token_name`.
- `AnswersGuarded`*: guardrails for answers are inserted with the phase
  "response" (`guardrail_presets.rs:697`). The CHECK of `migrations/009:5` admits
  "pre" and "post" only, so the INSERT fails, as that with "request" does (669);
  under a CHECK that admits them, `store/postgres/policies.rs:49` reads both as
  `Phase::Pre`, and the guardrails see the request and never the answer.
  `AnswersHold` therefore says in force on requests.
- `ReenabledIsEnforced`*, `EnabledStays`, `HistoryComplete`: guardrails that were
  disabled are enabled by an UPDATE of a deleted row and answer "success"; two
  requests that write the token's list back lose one change; two updates keep one
  version in the history.
- `HarmfulSuppressed`, `StoredOnlyIfShown`: a filter on answers reads no
  `choices` and never blocks an OpenAI answer (`core.rs:3797`); below level 2
  too the audit row can have what sanitization kept from the client.
- `ListedWhole`, `TokensOwned`, `RestoredWorks`*: a listing meets a table
  between DELETE and INSERT; a token is kept of a server whose handshake failed;
  a restored server stays disconnected (`mcp/registry.rs:552` and 597).
- `ProcessesAgree`, `SpecificFirst`, `ArmsReached`, `PathsAgree`,
  `RouterKnowsPrices`: other processes keep old prices until they restart
  (`pricing.rs:80`); rows are matched by substring in the order of their
  patterns, so `gpt-4` has the price of `gpt-4o` (`cost.rs:66`,
  `migrations/022`); some fallback prices stand behind a shorter pattern; a
  provider has other names on other paths, so the router finds no price of
  Gemini or Azure.
- `CheckedAsConfigured`, `SlashMatchesSlash`: `?` is a wildcard where targets are
  chosen and a letter where models are admitted; `/*` matches everything, also what does not begin with a
  slash (`operators.rs:90`).
- `GroupsRestrict`: a token that has only groups may call everything while they
  are empty, deleted or unreadable.
- `ProjectsStay`, `DefaultProjectExists`, `NoEmptyOrgs`: two overlapping
  deletions remove the last project (`projects.rs:112`); no project has the
  organization's id (`api/mod.rs:96`); a login that stops half way leaves an
  organization without a user.
- `ChoiceKeptByAll`, `FormKeptByAll`, `AnswersCounted`: Bedrock is sent neither
  the choice of tools nor the form, Anthropic no form; a missing input count is
  zero, and Bedrock's output too.
- `VersionedReached`, `ActionCorrect`, `WrittenForTarget`: a token for Groq whose
  URL has `/v1`, as in `tokens.rs:654`, loses `/chat/completions`; a Bedrock URL
  with a model keeps its verb whatever the request wants (`url_rewrite.rs:92`
  "just ensure correct action"); with a routing policy the body is translated
  for the provider that was detected first (`core.rs:2359`), the address made for
  the target.
- `QuotaToldAlike`: a full quota is `rate_limit_error`, `rate_limit_exceeded` or
  `throttling`, by provider (`error.rs:67`).
- `DamageIsLocal`, `IncompleteWaits`, `TypesRead`: the bridge cuts by a length
  that no checksum vouches for (`stream_bridge.rs:484`, against `bedrock.rs:108`),
  so a damaged one loses the rest of the stream or makes the buffer wait for
  ever; boolean headers are taken for a byte longer than they are
  (`bedrock.rs:37`).
- `LastWordsArrive`, `UpstreamTold`, `RevokedIsCut`*: when one pump ends, what the
  other has in hand is dropped and its side not told; a session outlives its
  token.
- `ConditionKept`*, `WeightsKept`, `RunningSplits`, `AllListed`*,
  `ShownWithResults`, `NamesApart`: an update that an edit overtakes restores the
  old condition (`experiment_handlers.rs:397`); sums of weights wrap and zero sums
  split nothing; only the newest 1,000 policies are looked through; a failed query
  shows empty results; results are counted by the name in a policy's rule, which
  an edit can make that of another experiment.

With `FairAreas.cfg` (at the end of `MCFairAreas`): `TasksFinish`*: `unregister`
and `get_openai_tools_by_name` take the two locks in opposite order
(`mcp/registry.rs:413`, 469) and everybody waits. `ReconnectsOnCall`*: no call
connects a restored server. `FailedIsUnchanged`*: a failure in the log may be of a
rotation that happened. `SeriesBounded`: the set of labels passes its limit when
requests look at its size together. `VelocityCountsRequests`: requests of one
second are one member of the sorted set.

With `SpendTrail.cfg`: `EveryDialectBilled`* (`CONSTANT Arrivals <-
GeminiArrivals`): Gemini's stream has a `[DONE]` with each chunk and is not
billed (`stream_bridge.rs:7`). `EveryRequestLogged`: partitions exist for
2026-02 to 04 only (`migrations/005`, README.md:86).

With `ToolLoop.cfg`: `OfferedNeverRefused`: tools on an allow list are offered
under one spelling and refused under the other (`middleware/mcp.rs:113`).
`GeminiNamesRight`: generated ids start again with each turn (`request.rs:311`).
`AnthropicCallsKept`: of an assistant's message only role and content are
translated, its calls are dropped (`request.rs:54`).

With `Pipeline.cfg`: `EveryAnswerCharged`: the first answer of the tool loop is
never charged, though `core.rs:3452` says that all are. `AnswersChargedOnce`: the
loop's last answer is charged in the loop and again behind it (`core.rs:3495` and
3617). `CachedForSameBody`: `response_cache.rs:19` says that "any parameter NOT in
this list is assumed NOT to affect the response content"; bodies that differ in
`input`, `prompt`, `n`, `stop_sequences` or `max_completion_tokens`, and requests
that differ in their path, share an entry.

With other constants: `GateResolves`* in `HitlRetries.cfg` with
`Unbounded <- {r1}`: a policy timeout of `0s` waits for ever, since BLPOP takes 0
as no timeout (`core.rs:1751`). `Recovers`* in `CbHeals.cfg` with the two targets
of `CbPaths.cfg` at their own URLs: being considered takes a target's half-open
slot, even when another is picked (`loadbalancer.rs:681`), and a recovered target
is never tried.

### Observed while reading

- Approvals. The pending cap is checked before the INSERT. An approval expires
  after ten minutes although its handler may wait for thirty.
- Breaker. `record_success` is followed by `mark_healthy`, which clears the
  window, so in rate mode successes never dilute failures. `least_busy` reads the
  counter of the base URL, which nothing raises.
- Spend and budgets. A cost that the caps refused, or that could not be counted, is
  not always flagged as `models/audit.rs:84` and `core.rs:3567` have it: the
  response cache (2158), the tool loop (3495) and the test header (3582) only log
  the error, and the flag of the main path is a local that a post-flight deny (3671)
  or a disconnect before `audit.emit` (4108) loses. `SpendAccounted` names each of
  these as missing. `usage_usd` is only incremented and `reset_at` never read. A
  project over its hard cap stays refused after the month ends. A database error
  counts as over budget, though `budget_checker.rs:176` says it fails open. Nothing
  writes `budget_alerts`. `record_team_spend` has no caller.
- Retries. `no_retry = RetryConfig::default()` has three retries (`core.rs:3405`);
  `forward_raw` resends mutating streams (`upstream.rs:71`).
- Policies. `validate_phase_actions` and `validate_routing_actions` read
  `rule.actions` where rules have `then`; a stored rule that does not deserialize
  fails every request of its tokens; `policies.token_id` has no migration.
  Asynchronous guardrails (`core.rs:4259`) run at the end of the plain path only.
- Content. Arguments of tool calls are stored raw at every level; bodies that are
  no JSON skip redaction; keys of JSON are never scanned; text of continuations and
  tool results is not redacted; response-side Redact and Transform change a copy
  that is not sent.
- Streams. Bedrock's `[DONE]` at `messageStop` precedes the usage, which is lost if
  it comes in a later chunk; Bedrock's exceptions are dropped. A streamed request
  with MCP servers never runs tools. Realtime sessions check no model list, are
  not billed, and have a rate limit key of their own.
- Router. Errors that are no JSON are passed on as they are. GPT models at an Azure
  host are taken for OpenAI's by their name and never get Azure's address.
- Accounts. `update_api_key` writes a column that no migration adds; `expires_at`
  is never set. `update_user_role` does not look for the last admin.
  `purge_project_data` names a table that does not exist. The signing-key cache is
  dropped by any JWT that fails.
- Keys. One interval that does not parse fails the query for all overdue
  credentials; nothing sets `rotation_enabled`; nothing caches `credential:{id}`.
- Webhooks. Retries carry one delivery id and may arrive twice; the present window
  is in its own baseline, so twelve windows are just enough for three sigma.

## 8. What is not modelled

- Data: JSON bodies, prompts, headers, arithmetic of prices, encryption. The
  models take a request's cost, a vendor's verdict and an upstream's outcome as
  inputs.
- Regular expressions and the tables of patterns and presets: what a pattern
  matches is a kind of text.
- Pure functions over one request that no interleaving and no sequence affects:
  signing, attribution fields, header copying, the budget headers of an answer,
  images and embeddings, `api-version` in addresses.
- Real time: deadlines are steps that may happen. Properties that depend on one
  deadline being shorter than another are stated only where the module counts time
  in units of them (`McpOAuth`, `SecretStores`, `JwksCache`, the window of
  `RequestPipeline` and `Realtime`).
- Several Redis or database nodes: each is one linearizable store whose calls
  may fail. Isolation is modelled where a transaction has several statements
  (`PromptRegistry`); elsewhere a statement is a step.
- Read-only SQL: analytics, listings, dashboards' queries. It changes nothing that
  a modelled component reads. It is several thousand lines, as are request and
  response types, CRUD of rows without rules, start-up, the text of command line
  reports, and unit tests kept beside the code; none is mapped.
- Secret references (`api/handlers/secret_references.rs`,
  `vault/secret_cache.rs`). The row type reads `version` as text and
  `migrations/055` makes it an integer, so no row that is inserted can be read
  back; the cache is reached only with an external reference where a credential's
  UUID is parsed (`vault/mod.rs:334`). A model of what runs would have one step
  that fails.
- Creation of tokens: `insert_token` has 18 columns and 19 placeholders and always
  fails. Models begin with tokens that exist.
- Tokenization of PII, the Redis failure counter of the breaker,
  `reconcile_spend_from_audit_logs`, `post_flight.rs`: no caller in the gateway, or
  written and never read.
- The table of system settings: written and read back by its own page only.
- Components listed as not modelled in `PROJECT.json`, with the reason there.
