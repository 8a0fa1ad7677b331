--------------------------- MODULE RequestPipeline ---------------------------
(***************************************************************************)
(* The proxy handler (proxy/handler/core.rs): what one request passes on   *)
(* its way from a virtual key to an upstream and back, and what requests   *)
(* share: the token's row and model groups, the usage counter, the sliding *)
(* windows, the in-flight counters and the response cache. Approvals,      *)
(* spend caps, breakers, sessions and streams have modules of their own;   *)
(* here their verdict is any that the component can give.                  *)
(***************************************************************************)
EXTENDS PolicyEngine, FiniteSets

CONSTANTS
    Requests,
    Tokens,
    Models,       \* names that the "model" field of a body can have
    Texts,        \* what a body's other keyed fields (CACHE_KEY_FIELDS) can say
    Bases,        \* base URLs of upstreams
    None,         \* no value
    Arrivals,     \* what the requests may ask: functions on Requests
    Grants,       \* model lists a token may have: its row's and its groups'
    MaxRetries,   \* max_retries of the retry configuration (default 3)
    MaxLoop,      \* MAX_TOOL_LOOP_ITERATIONS (10)
    Window,       \* length of a rate limit window in ticks
    MaxTime,      \* bound: ticks
    MaxEdits      \* bound: administrative changes

ASSUME PipelineAssumption ==
    /\ {MaxRetries, MaxLoop, Window, MaxTime, MaxEdits} \subseteq Nat
    /\ IsFiniteSet(Requests)
    /\ None \notin Bases \cup Models \cup Requests
    /\ \A a \in Arrivals, r \in Requests :
          /\ a[r].token \in Tokens /\ a[r].model \in Models /\ a[r].text \in Texts
          /\ a[r].base \in Bases
          /\ a[r].defaultLimit \in Nat
          /\ PoliciesTyped(a[r].policies) /\ HeaderTyped(a[r].header)

VARIABLES
    req,      \* what each request asks
    h,        \* the handler of each request: its stage and its locals
    active,   \* is_active of each token's row
    lists,    \* models that each token's row and groups name
    edits,    \* administrative changes so far
    used,     \* the requests_today counter of each token
    hits,     \* entries of the windows' sorted sets
    now,
    inflight, \* in-flight counter of each URL
    cache     \* entries of the response cache: a key and whose answer it is

admin  == <<active, lists, edits>>
shared == <<admin, used, hits, now, inflight, cache>>
vars   == <<req, h, shared>>

\* Stages of a handler that is still running.
Running ==
    {"arrived", "authenticated", "acting", "admitting", "approving", "routing",
     "routed", "looking", "checking", "listed", "building", "injecting",
     "entering", "sending", "reading", "looping", "resending", "receiving", "pricing",
     "charging", "billing", "screening"}

\* How it ends. "storing": answered, and a spawned task has still to write
\* the cache entry; "streamed": goes on in a task of its own (StreamBridge).
Over == {"refused", "unsigned", "failed", "cut", "suppressed", "answered", "storing",
         "served", "streamed", "dropped", "droppedSending"}

\* The keys of a token's windows: one for each policy and the default one.
PolicyWindow(token, policy) == <<"policy", token, policy>>
DefaultWindow(token) == <<"default", token>>

\* A request's final URL is a base with the request's path appended.
Final(base) == <<base, "path">>
Urls == Bases \cup {Final(b) : b \in Bases}

NewHandler(q) ==
    [pc       |-> "arrived",
     row      |-> {},      \* allowed_models of the token row it read
     groups   |-> {},      \* group_models
     seen     |-> 0,       \* requests_today as it was read
     todo     |-> <<>>,    \* actions still to execute
     model    |-> q.model, \* "model" of parsed_body
     text     |-> q.text,  \* the other fields of it that the cache key hashes
     limited  |-> FALSE,   \* policy_rate_limited
     passed   |-> {},      \* rate limits it passed: window, time and limit
     hitl     |-> FALSE,   \* hitl_required
     override |-> None,    \* dynamic_upstream_override
     url      |-> None,    \* final_upstream_url
     attempt  |-> 0,
     sends    |-> 0,       \* times an upstream took the body being sent
     success  |-> FALSE,   \* status.is_success()
     answers  |-> 0,       \* successful answers so far
     body     |-> 0,       \* the answer that resp_body holds, 0 for an error
     charged  |-> <<>>,    \* answers given to check_and_increment_spend
     cost     |-> 0,       \* the answer whose cost is on the audit row
     rows     |-> 0,       \* audit rows
     source   |-> None]    \* the request whose cached answer it served

Init ==
    /\ req \in Arrivals
    /\ h = [r \in Requests |-> NewHandler(req[r])]
    /\ active = [t \in Tokens |-> TRUE]
    /\ \E g \in Grants : lists = [t \in Tokens |-> g]
    /\ edits = 0
    /\ used = [t \in Tokens |-> 0]
    /\ hits = {}
    /\ now = 0
    /\ inflight = [u \in Urls |-> 0]
    /\ cache = {}

At(r, stage) == h[r].pc = stage

Goto(r, stage) == h' = [h EXCEPT ![r].pc = stage]

\* The handler ends without an answer and its locals are gone; what stays is
\* the rows emitted, now with audit more, the limits it passed, the URL whose
\* counter it raised, and the answers received and charged.
Return(r, end, audit) ==
    h' = [h EXCEPT ![r] = [NewHandler(req[r]) EXCEPT
                              !.pc = end, !.rows = h[r].rows + audit,
                              !.passed = h[r].passed, !.url = h[r].url,
                              !.answers = h[r].answers, !.charged = h[r].charged]]

Fields(r, requests, status) ==
    [model |-> h[r].model, requests |-> requests, status |-> status]

-----------------------------------------------------------------------------
\* Before the call: sections 1 to 3 of the handler

\* An unknown, revoked or expired key is refused without a row.
Authenticate(r) ==
    /\ At(r, "arrived")
    /\ IF active[req[r].token]
       THEN h' = [h EXCEPT ![r].pc = "authenticated",
                           ![r].row = lists[req[r].token].row]
       ELSE Return(r, "refused", 0)
    /\ UNCHANGED <<req, shared>>

EvaluateWith(r, requests) ==
    h' = [h EXCEPT ![r].pc = "acting",
                   ![r].seen = requests,
                   ![r].todo = PreFlightActions(req[r].policies,
                                   Fields(r, requests, Missing), req[r].header)]

\* Policies are loaded (a failure ends the request), the counters are raised
\* and read in one pipeline (a failure reads 0), the policies evaluated.
EvaluatePreFlight(r) ==
    /\ At(r, "authenticated")
    /\ \/ /\ used' = [used EXCEPT ![req[r].token] = @ + 1]
          /\ EvaluateWith(r, used'[req[r].token])
       \/ EvaluateWith(r, 0) /\ UNCHANGED used
       \/ Return(r, "refused", 0) /\ UNCHANGED used
    /\ UNCHANGED <<req, admin, hits, now, inflight, cache>>

\* The next action that the loop over the outcome's actions executes.
Acts(r, kind) ==
    /\ At(r, "acting")
    /\ h[r].todo # <<>>
    /\ Head(h[r].todo).kind = kind

Action(r) == Head(h[r].todo)

\* It has no effect on what the handler does next: allow, log, tag, throttle,
\* webhook, and schemas, which only answers are checked against.
Note(r) ==
    /\ Acts(r, "note")
    /\ h' = [h EXCEPT ![r].todo = Tail(@)]
    /\ UNCHANGED <<req, shared>>

RequireApproval(r) ==
    /\ Acts(r, "require_approval")
    /\ h' = [h EXCEPT ![r].todo = Tail(@), ![r].hitl = TRUE]
    /\ UNCHANGED <<req, shared>>

Deny(r) ==
    /\ Acts(r, "deny")
    /\ Return(r, "refused", 1)
    /\ UNCHANGED <<req, shared>>

\* Mutant: entries are dropped one tick early.
Hit_Early(r, window) ==
    hits' = {e \in hits : e.window # window \/ e.at + Window > now + 1}
                \cup {[window |-> window, member |-> <<r, Len(h[r].todo)>>, at |-> now]}

\* increment_sliding_window: the request is entered as a new member, whether
\* or not it will pass, and entries as old as the window are removed.
Hit(r, window) ==
    hits' = {e \in hits \cup {[window |-> window, member |-> <<r, Len(h[r].todo)>>, at |-> now]} :
                e.window # window \/ e.at + Window > now}

Exceeded(window, limit) == Cardinality({e \in hits' : e.window = window}) > limit

Passed(r, window, limit) ==
    h[r].passed \cup {[window |-> window, at |-> now, limit |-> limit]}

\* max_requests is an unsigned number.
PolicyRateLimit(r) ==
    LET window == PolicyWindow(req[r].token, Action(r).policy)
        limit  == Action(r).max
    IN  /\ Acts(r, "rate_limit")
        /\ limit \in Nat
        /\ \/ /\ Hit(r, window)
              /\ IF Exceeded(window, limit)
                 THEN Return(r, "refused", 1)
                 ELSE h' = [h EXCEPT ![r].todo = Tail(@),
                                     ![r].limited = TRUE,
                                     ![r].passed = Passed(r, window, limit)]
           \/ Return(r, "refused", 0) /\ UNCHANGED hits
        /\ UNCHANGED <<req, admin, used, now, inflight, cache>>

\* override and split write fields of the body, whichever they name; the
\* variant of a split is a function of the request's id.
Rewrite(r) ==
    /\ Acts(r, "rewrite")
    /\ \E m \in Action(r).models, text \in Texts :
          h' = [h EXCEPT ![r].todo = Tail(@), ![r].model = m, ![r].text = text]
    /\ UNCHANGED <<req, shared>>

\* route_least_busy reads the counters of the targets' bases.
LeastBusy(targets) ==
    {t \in targets : \A u \in targets : inflight[t.base] <= inflight[u.base]}

\* select_route: targets whose circuit is open are left out, then the
\* strategy chooses. With no healthy target it is the fallback, if that is
\* healthy, or none.
Routes(action) ==
    LET chosen(healthy) ==
            IF action.strategy = "least_busy" THEN LeastBusy(healthy) ELSE healthy
    IN  UNION {chosen(s) : s \in SUBSET action.pool} \cup action.fallback

\* Without a route the request goes where it would have gone.
DynamicRoute(r) ==
    /\ Acts(r, "dynamic_route")
    /\ \/ \E t \in Routes(Action(r)) :
             h' = [h EXCEPT ![r].todo = Tail(@),
                            ![r].model = t.model, ![r].override = t.base]
       \/ h' = [h EXCEPT ![r].todo = Tail(@)]
    /\ UNCHANGED <<req, shared>>

ConditionalRoute(r) ==
    LET targets == RouteTargets(Action(r).branches, Action(r).fallback,
                                Fields(r, Missing, Missing))
    IN  /\ Acts(r, "conditional_route")
        /\ IF targets = {} THEN Return(r, "refused", 0)
           ELSE \E t \in targets :
                   h' = [h EXCEPT ![r].todo = Tail(@),
                                  ![r].model = t.model, ![r].override = t.base]
        /\ UNCHANGED <<req, shared>>

\* A content filter that blocks leaves no row.
ContentFilter(r) ==
    /\ Acts(r, "filter")
    /\ Return(r, "refused", 0) \/ h' = [h EXCEPT ![r].todo = Tail(@)]
    /\ UNCHANGED <<req, shared>>

\* Nor does a redaction whose on_match is block; any other changes the text,
\* as a transform does.
Redact(r) ==
    /\ Acts(r, "redact")
    /\ \/ Action(r).blocks /\ Return(r, "refused", 0)
       \/ \E text \in Texts :
             h' = [h EXCEPT ![r].todo = Tail(@), ![r].text = text]
    /\ UNCHANGED <<req, shared>>

\* A vendor's verdict, or its failure, blocks or not as the action says.
ExternalGuardrail(r) ==
    /\ Acts(r, "guardrail")
    /\ Return(r, "refused", 1) \/ h' = [h EXCEPT ![r].todo = Tail(@)]
    /\ UNCHANGED <<req, shared>>

ToolScope(r) ==
    /\ Acts(r, "tool_scope")
    /\ IF ToolsPermitted(req[r].tools, Action(r).allowed, Action(r).blocked)
       THEN h' = [h EXCEPT ![r].todo = Tail(@)]
       ELSE Return(r, "refused", 1)
    /\ UNCHANGED <<req, shared>>

\* The configured default limit, if there is one and no policy's was passed.
DefaultRateLimit(r) ==
    LET window == DefaultWindow(req[r].token)
        limit  == req[r].defaultLimit
    IN  /\ At(r, "acting")
        /\ h[r].todo = <<>>
        /\ \/ /\ h[r].limited \/ limit = 0
              /\ Goto(r, "admitting")
              /\ UNCHANGED hits
           \/ /\ ~h[r].limited /\ limit > 0
              /\ \/ /\ Hit(r, window)
                    /\ IF Exceeded(window, limit)
                       THEN Return(r, "refused", 1)
                       ELSE h' = [h EXCEPT ![r].pc = "admitting",
                                           ![r].passed = Passed(r, window, limit)]
                 \/ Return(r, "refused", 0) /\ UNCHANGED hits
        /\ UNCHANGED <<req, admin, used, now, inflight, cache>>

\* Spend cap (3.5) and project hard cap leave a row when they refuse; the
\* session's guard (3.6) does not. They are SpendCap and SessionLifecycle.
Admit(r) ==
    /\ At(r, "admitting")
    /\ \/ \E audit \in {0, 1} : Return(r, "refused", audit)
       \/ Goto(r, IF h[r].hitl THEN "approving" ELSE "routing")
    /\ UNCHANGED <<req, shared>>

\* Section 3.8, which is HitlApproval: approved, and the key still active.
Approve(r) ==
    /\ At(r, "approving")
    /\ \/ \E audit \in {0, 1} : Return(r, "refused", audit)
       \/ active[req[r].token] /\ Goto(r, "routing")
    /\ UNCHANGED <<req, shared>>

-----------------------------------------------------------------------------
\* Sections 4 and 5: route, cache, access checks

\* A service or a target of the load balancer, which may name its own model;
\* or no service of that name, or no healthy target.
ResolveUpstream(r) ==
    /\ At(r, "routing")
    /\ \/ Return(r, "refused", 0)
       \/ h' = [h EXCEPT ![r].pc = "routed",
                         ![r].model = IF req[r].target = None THEN @ ELSE req[r].target]
    /\ UNCHANGED <<req, shared>>

\* vault.retrieve.
RetrieveCredential(r) ==
    /\ At(r, "routed")
    /\ Return(r, "refused", 0) \/ Goto(r, "looking")
    /\ UNCHANGED <<req, shared>>

\* Mutant: a keyed field is missing from the list.
CacheKey_Short(r) == <<req[r].token, h[r].model>>

\* compute_cache_key: the token and CACHE_KEY_FIELDS of the body as it is
\* now. What else a request says (req[r].rest: its path, its MCP servers,
\* fields such as input, prompt, n or max_completion_tokens) is not hashed.
CacheKey(r) == <<req[r].token, h[r].model, h[r].text>>

\* A hit is charged like an answer and ends the request before the checks of
\* the model, the team and the provider. A read that fails is a miss.
LookUp(r) ==
    /\ At(r, "looking")
    /\ \/ /\ req[r].cacheable
          /\ \E e \in cache :
                /\ e.key = CacheKey(r)
                /\ h' = [h EXCEPT ![r].pc = "served",
                                  ![r].source = e.source,
                                  ![r].charged = <<1>>,
                                  ![r].rows = @ + 1]
       \/ Goto(r, "checking")
    /\ UNCHANGED <<req, shared>>

\* Mutant: the model that the client asked for is checked.
CheckedModel_Asked(r) == req[r].model

\* detected_model: the one in the body after every rewriting.
CheckedModel(r) == h[r].model

\* The groups are resolved now; a lookup that fails finds no models.
CheckModelAccess(r) ==
    /\ At(r, "checking")
    /\ \E groups \in {lists[req[r].token].groups, {}} :
          IF ModelPermitted(CheckedModel(r), h[r].row \cup groups)
          THEN h' = [h EXCEPT ![r].pc = "listed", ![r].groups = groups]
          ELSE Return(r, "refused", 1)
    /\ UNCHANGED <<req, shared>>

\* The team's budget and models refuse without a row, the provider with one.
CheckTeamAndProvider(r) ==
    /\ At(r, "listed")
    /\ \/ \E audit \in {0, 1} : Return(r, "refused", audit)
       \/ Goto(r, "building")
    /\ UNCHANGED <<req, shared>>

\* The body is translated and given tools, the URL chosen. The provider of a
\* dynamic route may be one that the token may not use.
BuildRequest(r) ==
    /\ At(r, "building")
    /\ \/ h[r].override # None /\ Return(r, "refused", 0)
       \/ h' = [h EXCEPT ![r].pc = "injecting",
                         ![r].url = Final(IF h[r].override = None
                                          THEN req[r].base ELSE h[r].override)]
    /\ UNCHANGED <<req, shared>>

\* The credential, or what the client brought, becomes a header of the call;
\* a value that no header can hold ends the request.
InjectCredential(r) ==
    /\ At(r, "injecting")
    /\ Return(r, "refused", 0) \/ Goto(r, "entering")
    /\ UNCHANGED <<req, shared>>

\* Mutant: the return at an open circuit does not lower the counter.
EnterUpstream_Leaks(r) ==
    LET raised == [inflight EXCEPT ![h[r].url] = @ + 1]
    IN  /\ At(r, "entering")
        /\ \/ Return(r, "refused", 0) /\ inflight' = raised
           \/ req[r].signed /\ Return(r, "unsigned", 0) /\ inflight' = raised
           \/ /\ h' = [h EXCEPT ![r].pc = "sending", ![r].attempt = 1]
              /\ inflight' = raised
        /\ UNCHANGED <<req, admin, used, hits, now, cache>>

\* The counter of the final URL is raised. An open circuit lowers it again
\* on the way out, a SigV4 failure does not.
EnterUpstream(r) ==
    LET raised == [inflight EXCEPT ![h[r].url] = @ + 1]
    IN  /\ At(r, "entering")
        /\ \/ Return(r, "refused", 0) /\ UNCHANGED inflight
           \/ req[r].signed /\ Return(r, "unsigned", 0) /\ inflight' = raised
           \/ /\ h' = [h EXCEPT ![r].pc = "sending", ![r].attempt = 1]
              /\ inflight' = raised
        /\ UNCHANGED <<req, admin, used, hits, now, cache>>

-----------------------------------------------------------------------------
\* Section 5: the call

\* Mutant: a request with no idempotency key is retried like any other.
Retries_Unguarded(r) == IF req[r].stream THEN 1 ELSE MaxRetries

\* forward_raw resends a stream once; robust_request resends up to
\* max_retries times, but never what mutates and has no idempotency key.
Retries(r) ==
    IF req[r].stream THEN 1
    ELSE IF req[r].mutating /\ ~req[r].keyed THEN 0 ELSE MaxRetries

\* A retryable status, or a network error, which may follow after the
\* upstream took the body.
Resend(r, retries) ==
    /\ h[r].attempt <= retries
    /\ \E taken \in {0, 1} :
          h' = [h EXCEPT ![r].attempt = @ + 1, ![r].sends = @ + taken]

Retry(r) ==
    /\ At(r, "sending")
    /\ Resend(r, Retries(r))
    /\ UNCHANGED <<req, shared>>

\* decrement_in_flight saturates at zero.
Leave(r) == inflight' = [inflight EXCEPT ![h[r].url] = IF @ > 0 THEN @ - 1 ELSE 0]

\* The headers of an answer arrive: a success, or the last error.
Respond(r) ==
    /\ At(r, "sending")
    /\ \E ok \in BOOLEAN :
          h' = [h EXCEPT ![r].pc = IF req[r].stream /\ ok THEN "streamed" ELSE "reading",
                         ![r].sends = @ + 1,
                         ![r].success = ok]
    /\ Leave(r)
    /\ UNCHANGED <<req, admin, used, hits, now, cache>>

\* Mutant: the row is left out.
Fail_Silent(r) ==
    /\ At(r, "sending")
    /\ Return(r, "failed", 0)
    /\ Leave(r)
    /\ UNCHANGED <<req, admin, used, hits, now, cache>>

\* The last attempt fails, or the timeout around all of them expires.
Fail(r) ==
    /\ At(r, "sending")
    /\ Return(r, "failed", 1)
    /\ Leave(r)
    /\ UNCHANGED <<req, admin, used, hits, now, cache>>

\* The body is read; a connection lost meanwhile leaves no row.
ReadBody(r) ==
    /\ At(r, "reading")
    /\ \/ Return(r, "cut", 0)
       \/ h[r].success /\ h' = [h EXCEPT ![r].pc = "looping",
                                         ![r].answers = 1, ![r].body = 1]
       \/ ~h[r].success /\ Goto(r, "billing")
    /\ UNCHANGED <<req, shared>>

-----------------------------------------------------------------------------
\* The MCP tool loop

\* Nothing in the answer asks for a tool, or the loop cannot go on.
LoopEnds(r) ==
    /\ At(r, "looping")
    /\ Goto(r, "billing")
    /\ UNCHANGED <<req, shared>>

\* The tools have run and a continuation is sent, with the retries of the
\* default configuration.
LoopContinues(r) ==
    /\ At(r, "looping")
    /\ req[r].mcp
    /\ h[r].answers <= MaxLoop
    /\ h' = [h EXCEPT ![r].pc = "resending", ![r].attempt = 1, ![r].sends = 0]
    /\ UNCHANGED <<req, shared>>

LoopRetry(r) ==
    /\ At(r, "resending")
    /\ Resend(r, MaxRetries)
    /\ UNCHANGED <<req, shared>>

\* No answer: the previous one stays.
LoopFails(r) ==
    /\ At(r, "resending")
    /\ \E taken \in {0, 1} :
          h' = [h EXCEPT ![r].pc = "billing", ![r].sends = @ + taken]
    /\ UNCHANGED <<req, shared>>

LoopRespond(r) ==
    /\ At(r, "resending")
    /\ h' = [h EXCEPT ![r].pc = "receiving", ![r].sends = @ + 1]
    /\ UNCHANGED <<req, shared>>

\* A body that cannot be read: the previous answer stays too.
LoopCut(r) ==
    /\ At(r, "receiving")
    /\ Goto(r, "billing")
    /\ UNCHANGED <<req, shared>>

\* An error ends the loop, and its body takes the place of the answer; the
\* status stays that of the first answer.
LoopError(r) ==
    /\ At(r, "receiving")
    /\ h' = [h EXCEPT ![r].pc = "billing", ![r].body = 0]
    /\ UNCHANGED <<req, shared>>

\* A success takes the place of the answer. All answers have usage and a
\* price here.
LoopAnswer(r) ==
    /\ At(r, "receiving")
    /\ h' = [h EXCEPT ![r].pc = "pricing",
                      ![r].answers = @ + 1,
                      ![r].body = h[r].answers + 1]
    /\ UNCHANGED <<req, shared>>

\* calculate_cost_with_cache.
PriceAnswer(r) ==
    /\ At(r, "pricing")
    /\ Goto(r, "charging")
    /\ UNCHANGED <<req, shared>>

\* Mutant: iterations are counted and not charged.
ChargeAnswer_Free(r) ==
    /\ At(r, "charging")
    /\ Goto(r, "looping")
    /\ UNCHANGED <<req, shared>>

\* check_and_increment_spend, before the loop goes on.
ChargeAnswer(r) ==
    /\ At(r, "charging")
    /\ h' = [h EXCEPT ![r].pc = "looping", ![r].charged = Append(@, h[r].answers)]
    /\ UNCHANGED <<req, shared>>

-----------------------------------------------------------------------------
\* Sections 6 and 7: billing, post-flight policies, audit, cache

PostFlightActions(r) ==
    EvaluatePolicies(req[r].policies,
                     Fields(r, h[r].seen, IF h[r].success THEN 200 ELSE 500),
                     "post").actions

\* The body that resp_body holds is charged if the first status was a
\* success, the loop's last answer too, which the loop has charged already;
\* post-flight policies are evaluated after.
Bill(r) ==
    /\ At(r, "billing")
    /\ h' = [h EXCEPT
                ![r].pc      = "screening",
                ![r].charged = IF h[r].body = 0 THEN @ ELSE Append(@, h[r].body),
                ![r].cost    = h[r].body,
                ![r].todo    = PostFlightActions(r)]
    /\ UNCHANGED <<req, shared>>

\* A deny, or a filter, schema or vendor whose verdict is against it,
\* suppresses the answer and leaves no row.
Suppress(r) ==
    /\ At(r, "screening")
    /\ h[r].todo # <<>>
    /\ Action(r).kind \in {"deny", "filter", "schema", "guardrail"}
    /\ Return(r, "suppressed", 0)
    /\ UNCHANGED <<req, shared>>

\* Any other verdict lets it pass, and redactions and transforms change a
\* copy that is neither sent nor cached.
Pass(r) ==
    /\ At(r, "screening")
    /\ h[r].todo # <<>>
    /\ Action(r).kind # "deny"
    /\ h' = [h EXCEPT ![r].todo = Tail(@)]
    /\ UNCHANGED <<req, shared>>

\* The row, the answer, and a task that stores a successful answer.
Finish(r) ==
    /\ At(r, "screening")
    /\ h[r].todo = <<>>
    /\ h' = [h EXCEPT ![r].pc = IF req[r].cacheable /\ h[r].success
                                THEN "storing" ELSE "answered",
                      ![r].rows = @ + 1]
    /\ UNCHANGED <<req, shared>>

\* set_cached; a large answer is not stored, and the write may fail.
Store(r) ==
    /\ At(r, "storing")
    /\ Goto(r, "answered")
    /\ \/ cache' = {e \in cache : e.key # CacheKey(r)}
                        \cup {[key |-> CacheKey(r), source |-> r]}
       \/ UNCHANGED cache
    /\ UNCHANGED <<req, admin, used, hits, now, inflight>>

-----------------------------------------------------------------------------
\* The environment

\* The client disconnects: the handler's future is dropped where it waits.
Disconnect(r) ==
    /\ h[r].pc \in Running
    /\ Return(r, IF At(r, "sending") THEN "droppedSending" ELSE "dropped", 0)
    /\ UNCHANGED <<req, shared>>

Revoke(t) ==
    /\ edits < MaxEdits
    /\ active[t]
    /\ active' = [active EXCEPT ![t] = FALSE]
    /\ edits' = edits + 1
    /\ UNCHANGED <<req, h, lists, used, hits, now, inflight, cache>>

ChangeLists(t) ==
    /\ edits < MaxEdits
    /\ \E g \in Grants \ {lists[t]} : lists' = [lists EXCEPT ![t] = g]
    /\ edits' = edits + 1
    /\ UNCHANGED <<req, h, active, used, hits, now, inflight, cache>>

\* The entry's time to live ends.
Expire(entry) ==
    /\ cache' = cache \ {entry}
    /\ UNCHANGED <<req, h, admin, used, hits, now, inflight>>

\* Time matters only to a window that has entries.
Tick ==
    /\ now < MaxTime
    /\ hits # {}
    /\ now' = now + 1
    /\ UNCHANGED <<req, h, admin, used, hits, inflight, cache>>

PreFlight(r) ==
    \/ Authenticate(r) \/ EvaluatePreFlight(r)
    \/ Note(r) \/ RequireApproval(r) \/ Deny(r) \/ PolicyRateLimit(r)
    \/ Rewrite(r) \/ DynamicRoute(r) \/ ConditionalRoute(r)
    \/ ContentFilter(r) \/ Redact(r) \/ ExternalGuardrail(r) \/ ToolScope(r)
    \/ DefaultRateLimit(r) \/ Admit(r) \/ Approve(r)

Call(r) ==
    \/ ResolveUpstream(r) \/ RetrieveCredential(r) \/ LookUp(r)
    \/ CheckModelAccess(r) \/ CheckTeamAndProvider(r) \/ BuildRequest(r)
    \/ InjectCredential(r) \/ EnterUpstream(r) \/ Retry(r) \/ Respond(r) \/ Fail(r) \/ ReadBody(r)

PostFlight(r) ==
    \/ LoopEnds(r) \/ LoopContinues(r) \/ LoopRetry(r) \/ LoopFails(r)
    \/ LoopRespond(r) \/ LoopCut(r) \/ LoopError(r) \/ LoopAnswer(r)
    \/ PriceAnswer(r) \/ ChargeAnswer(r)
    \/ Bill(r) \/ Suppress(r) \/ Pass(r) \/ Finish(r) \/ Store(r)

Next ==
    \/ \E r \in Requests :
          PreFlight(r) \/ Call(r) \/ PostFlight(r) \/ Disconnect(r)
    \/ \E t \in {req[r].token : r \in Requests} : Revoke(t) \/ ChangeLists(t)
    \/ \E e \in cache : Expire(e)
    \/ Tick

Spec == Init /\ [][Next]_vars

-----------------------------------------------------------------------------
\* Properties

Called(r) == h[r].attempt > 0

\* The request that was read and counted is one that its policies forbid.
Forbidden(r) ==
    Forbids(req[r].policies,
            [model |-> req[r].model, requests |-> h[r].seen, status |-> Missing],
            req[r].header)

\* No upstream is called for a request that a rule denies. A rule in shadow
\* mode neither denies nor keeps a later one from doing so; what does is an
\* earlier asynchronous deny, or one that the client's headers took out.
DeniedNeverSent == \A r \in Requests : Called(r) => ~Forbidden(r)

\* The model that is sent is in the lists that the request was checked
\* against, whichever policy or target put it into the body.
ModelPermittedWhenSent ==
    \A r \in Requests : Called(r) => ModelPermitted(h[r].model, h[r].row \cup h[r].groups)

\* In any stretch of time as long as the window, no more requests get past
\* limits of n on it than n.
RateLimitHolds ==
    \A r \in Requests : \A p \in h[r].passed :
        Cardinality({q \in Requests : \E o \in h[q].passed :
                        /\ o.window = p.window /\ o.limit <= p.limit
                        /\ o.at \in p.at..(p.at + Window - 1)})
            <= p.limit

\* The counter of a URL is the number of calls in progress, and of those that
\* will never lower it again: dropped in the call, or never signed.
InFlightCounts ==
    \A u \in Urls :
        inflight[u] = Cardinality({r \in Requests :
            h[r].url = u /\ h[r].pc \in {"sending", "unsigned", "droppedSending"}})

\* Without an idempotency key a mutating body is taken by an upstream at most
\* once; exceptions are streams, which are resent after a timeout, and
\* continuations of the tool loop, which have the default retries.
UnkeyedSentOnce ==
    \A r \in Requests :
        h[r].sends > 1 => \/ ~req[r].mutating \/ req[r].keyed
                          \/ req[r].stream \/ h[r].answers > 0

\* A cached answer is served only to the token that paid for it, for a body
\* with the same model and the same keyed fields after all rewriting, and it
\* passed the checks and the post-flight policies once.
CacheServesOwnAnswers ==
    \A r \in Requests : h[r].source # None =>
        LET q == h[r].source
        IN  /\ req[q].token = req[r].token
            /\ h[q].model = h[r].model /\ h[q].text = h[r].text
            /\ h[q].pc = "answered" /\ h[q].success

\* response_cache.rs:19: "Any parameter NOT in this list is assumed NOT to
\* affect the response content." It does not hold of those in rest.
CachedForSameBody ==
    \A r \in Requests :
        h[r].source # None => req[h[r].source].rest = req[r].rest

\* Every answer that continues the tool loop is charged before the loop goes
\* on, unless the client leaves while the last one is being charged. No
\* answer is charged twice but the loop's last, which Bill charges again; and
\* the row of a request that was answered has the cost of the last charge,
\* the only one if no tool was called.
AnswersCharged ==
    \A r \in Requests :
        LET charged == h[r].charged
            last    == h[r].answers
        IN  /\ \A n \in 2..last :
                  \/ \E i \in DOMAIN charged : charged[i] = n
                  \/ n = last /\ h[r].pc \in {"pricing", "charging", "dropped"}
            /\ \A i, j \in DOMAIN charged :
                  i < j /\ charged[i] = charged[j]
                      => charged[i] = last /\ last > 1 /\ j = Len(charged)
            /\ h[r].pc \in {"answered", "storing"} /\ h[r].body > 0 =>
                  /\ charged # <<>>
                  /\ charged[Len(charged)] = last /\ h[r].cost = last
                  /\ last = 1 => charged = <<1>>

\* handler/core.rs:3452: "Accumulate token usage for cumulative billing
\* across MCP loop iterations. This ensures all LLM calls within the tool
\* loop are billed to the token".
EveryAnswerCharged ==
    \A r \in Requests : h[r].pc \in {"answered", "storing"} =>
        \A n \in 1..h[r].answers : \E i \in DOMAIN h[r].charged : h[r].charged[i] = n

\* Nor is each answer charged only once: Bill charges the loop's last again.
AnswersChargedOnce ==
    \A r \in Requests : \A i, j \in DOMAIN h[r].charged :
        h[r].charged[i] = h[r].charged[j] => i = j

\* A request leaves at most one row, and exactly one if its client has an
\* answer or the upstream failed to give one.
AuditedOnce ==
    \A r \in Requests :
        /\ h[r].rows <= 1
        /\ h[r].pc \in {"answered", "storing", "served", "failed"} => h[r].rows = 1

=============================================================================
