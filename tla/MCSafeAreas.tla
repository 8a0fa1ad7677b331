----------------------------- MODULE MCSafeAreas -----------------------------
\* Small instances of the parts of the gateway whose properties need no
\* fairness: sessions, prompts, API keys, logins, tokens and tools of MCP
\* servers, secrets, config as code, policies, the text of requests and
\* answers, prices, patterns of names, access lists, organizations with their
\* projects and users, the options of requests, binary streams, realtime
\* sessions and experiments. A behaviour is of one of these areas; the others
\* stay as they begin. The text of requests and answers (ContentPath) has its
\* own names here, the others' are renamed where they would meet.
EXTENDS SafeAreas, TLC

\* Model values.
CONSTANTS r1, r2, production, k1, k2, q1, q2, q3, c1, c2, Junk

\* Where an area has more ways to begin than make a difference, those it begins
\* with.
CONSTANTS KeyJobs, LoginStarts, SecretStarts, PriceStarts

VARIABLES
    area,
    glob, subject, inGlob, inSubject, stars, rounds, matched,
    groups, team, bearer, model, lpc, proposed, required, lost, teamless, rewrites,
    faults,
    provider, options, native, address, reply, returned, npc

sessionVars == <<status, completed, cap, total, idle, spc, apc, wasStatus, wanted, changes>>
promptVars  == <<active, count, labels, ppc, number, dpc, ask, seen, current, passed, crossed>>
keyVars     == <<row, role, kjob, kpc, counted>>
loginVars   == <<clock, published, withdrawn, jwksCache, key, good, ipc, jwks, attempt, due, hindered>>
tokenVars   == <<time, present, tokenCache, live, epoch, opc, round, token, tries, until>>
secretVars  == <<now, credential, usable, content, storeCache, task, vpc, store, lease, deadline, got>>
configVars  == <<tokens, policies, caller, file, cpc, export, known, planned, clean, runs, edits, failures>>
policyVars  ==
    <<table, ids, versions, phases, request, gpc, target, ident, edit, doomed, begun, alone, written>>
toolVars    == <<demands, offered, switches, memory, grant, server, stock, toolTask, tpc, taken,
                 left, listing, disturbed, reboots>>
priceVars   == <<prices, copy, pricing, mpc, rows, single, behind, outages>>
patternVars == <<glob, subject, inGlob, inSubject, stars, rounds, matched>>
listVars    == <<groups, team, bearer, model, lpc, proposed, required, lost, teamless, rewrites,
                 faults>>
tenantVars  == <<orgs, projects, users, duty, upc, found, told, overlapping, breaks>>
optionVars  == <<provider, options, native, address, reply, returned, npc>>
frameVars   == <<stream, stray, arrived, consumed, out, over>>
voiceVars   == <<granted, windows, opened, admitted, wpc, said, side, queue, held, heard, ended>>
trialVars   == <<trials, audits, trial, xpc, looked, verdicts, meddled, overtaken>>

\* Areas in groups, of those who call and of what is configured.
callerVars  == <<sessionVars, keyVars, loginVars, tokenVars, secretVars, tenantVars,
                 voiceVars>>
configuredVars == <<promptVars, configVars, policyVars, priceVars, listVars, toolVars, trialVars>>
requestVars == <<vars, patternVars, optionVars, frameVars>>
areasVars   == <<area, callerVars, configuredVars, requestVars>>

MCCost == (r1 :> 1) @@ (r2 :> 2)

MCKind == (q1 :> "revoke") @@ (q2 :> "revoke") @@ (q3 :> "create")

\* A key is created by an administrator who logs in.
MCKeyJobs ==
    {[q \in {q1, q2, q3} |-> IF q = q3 THEN [by |-> Jwt, key |-> k] ELSE j[q]] :
        j \in [{q1, q2} -> ApiKey!Jobs], k \in {k1, k2}}

\* One JWT is in order; what the keys are called makes no difference.
MCLoginStarts ==
    [published : {{k1}, {k1, k2}}, key : [{"l1", "l2"} -> {k1, k2}], good : {{"l1"}}]

Stored(backend, ref) == [backend |-> backend, ref |-> ref]

MCCredentials ==
    {Stored("builtin", None), Stored("transit", "vault:v1:x"), Stored("kv", "path:key"),
     Stored("azure", "name"), Stored("transit", "path:key")}

MCContents == {"text", "value", "absent"}

\* What an external store holds makes a difference to it alone.
MCSecretStarts ==
    {s \in [row : MCCredentials, content : MCContents,
            job : [{c1, c2} -> {"retrieve", "retrieve_credential", "health"}]] :
        /\ s.content = "text" \/ s.row.backend \notin {"builtin", "transit"}
        /\ s.job[c1] # "health"}

-----------------------------------------------------------------------------
\* Documents and projects that agree and differ in each of their fields.

Spelt(upstream, logLevel, names, daily) ==
    [upstream |-> upstream, level |-> logLevel, policies |-> names,
     caps |-> [p \in {"daily"} |-> daily]]

Rule(name, rules, retry) == [token |-> name, rules |-> rules, retry |-> retry]

MCFiles ==
    {[tokens |-> "t" :> Spelt("u1", l, ps, 1) @@ "t2" :> Spelt(u, "full", {}, None), policies |-> pp] :
        l \in {"full", None}, ps \in {{}, {"p"}}, u \in {"u1", "bad"},
        pp \in {<<>>, "p" :> Rule("t", "new", None), "p" :> Rule("t2", "new", "retry")}}

MCProjects ==
    {[tokens |-> "t" :> a @@ "t2" :> None, policies |-> "p" :> b] :
        a \in {[active |-> TRUE] @@ Spelt("u0", "redacted", {"p"}, None),
               [active |-> TRUE] @@ Spelt("u1", "full", {}, 2), None},
        b \in {None, [active |-> TRUE] @@ Rule("t", "old", "retry"),
               [active |-> FALSE] @@ Rule("t", "old", None)}}

\* Tokens without guardrails, with deleted ones, with both kinds, and with one
\* that an administrator has made as a policy.
Policy(name, isActive, phase) ==
    [name |-> name, active |-> isActive, version |-> 1, mode |-> "enforce", phase |-> phase,
     rules |-> "old"]

OwnPolicy == Policy(<<"own", "p">>, TRUE, "pre")

MCTables ==
    {<<OwnPolicy>>,
     <<OwnPolicy, Policy(<<"in", "sdk">>, FALSE, "request")>>,
     <<OwnPolicy, Policy(<<"in", "sdk">>, TRUE, "request"),
       Policy(<<"out", "sdk">>, TRUE, "response")>>,
     <<OwnPolicy, Policy(<<"out", "sdk">>, TRUE, "post")>>}

\* That of migrations/009, and one that admits what the presets insert.
MCPhaseChecks == {{"pre", "post"}, {"pre", "post", "request", "response"}}

Enable(source, kinds, rules) ==
    [do |-> "enable", source |-> source, kinds |-> kinds, rules |-> rules]

Replace(mode, phase, rules) ==
    [do |-> "update", id |-> 1, mode |-> mode, phase |-> phase, rules |-> rules]

MCPolicyJobs ==
    {Enable("sdk", {"in"}, "g1"), Enable("dashboard", {"in", "out"}, "g2"),
     Enable("sdk", {"out"}, "g2"), [do |-> "disable"],
     Replace("shadow", None, None), Replace(None, "post", "new"), [do |-> "delete", id |-> 1]}

-----------------------------------------------------------------------------
\* A piece of text of each kind that two patterns, two places or two actions
\* treat differently, and actions that do.

Body(json, messages, text) == [json |-> json, messages |-> messages, text |-> text]

MCBodies ==
    {Body(TRUE, TRUE, {Piece("content", "card"), Piece("arguments", k), Piece("user", "email")}) :
        k \in {"email", "bomb", "number"}}
    \cup {Body(TRUE, TRUE, {Piece("content", "dan"), Piece(p, "aim"), Piece("name", "email")}) :
        p \in {"tools", "user"}}
    \cup {Body(TRUE, FALSE, {Piece("prompt", "person"), Piece("user", "ssn"), Piece("user", "nine")}),
          Body(FALSE, FALSE, {Piece("content", "card")})}

Scrub(direction, patterns, fields, block, nlp) ==
    [kind |-> "redact", direction |-> direction, patterns |-> patterns, fields |-> fields,
     block |-> block, nlp |-> nlp]

Check(categories, allowed, threshold) ==
    [kind |-> "filter", categories |-> categories, denied |-> {"secret"}, allowed |-> allowed,
     threshold |-> threshold, max |-> 2]

Op(what, place, text, from) ==
    [kind |-> "transform", what |-> what, place |-> place, text |-> text, from |-> from]

Guard(vendor, threshold, onFail, onError) ==
    [kind |-> "guardrail", vendor |-> vendor, threshold |-> threshold, onFail |-> onFail,
     onError |-> onError]

Schema(accepts, not) == [kind |-> "schema", accepts |-> accepts, not |-> not]

Harmful == Check({"harmful", "jailbreak"}, {}, 10)

Scrubs ==
    {Scrub("both", {"email", "credit_card"}, {}, FALSE, FALSE),
     Scrub("request", {"invalid", "ssn"}, {"user"}, FALSE, TRUE),
     Scrub("response", {"ssn", "email"}, {}, TRUE, FALSE),
     Scrub("both", {"ssn", "phone"}, {}, TRUE, TRUE)}

Checks == {Harmful, Check({"jailbreak", "ip_leakage"}, {"card"}, 6)}

Ops ==
    {Op("prompt", "", "email", ""), Op("message", "", "slur", ""), Op("set", "user", "ssn", ""),
     Op("remove", "user", "", ""), Op("replace", "", "email", "number")}

Guards == {Guard("azure", 40, "deny", "allow"), Guard("llama", 5, "log", "deny"),
           Guard("palo_alto", 5, "deny", "allow"),
           Guard("prompt_security", 5, "deny", "deny")}

MCOutgoing ==
    {<<a, b>> : a \in Scrubs \cup Checks, b \in Scrubs \cup Checks \cup Ops}
    \cup {<<a, b>> : a \in Guards \cup Ops, b \in {Harmful}}

MCIncoming ==
    {<<>>} \cup {<<a, b>> : a \in Scrubs, b \in Ops} \cup {<<a>> : a \in Checks \cup Guards}
    \cup {<<Schema(accepts, not)>> : accepts \in {{"good"}, {}}, not \in BOOLEAN}

MCAnswers ==
    {[form |-> "json", text |-> {Piece("choices", "card"), Piece("calls", "nine")}, value |-> "good"],
     [form |-> "json", text |-> {Piece("choices", "email"), Piece("choices", "bomb"),
                                 Piece("name", "ssn")}, value |-> "string"],
     [form |-> "text", text |-> {Piece("choices", "number")}, value |-> "body"],
     [form |-> "binary", text |-> {Piece("choices", "email")}, value |-> "body"]}

MCToolTexts == {{"email"}, {"bomb"}}

-----------------------------------------------------------------------------
\* Tools of an MCP server, and prices in two processes.

Handler(kind, with) == [kind |-> kind, with |-> with]

MCToolWorkloads ==
    {(q1 :> a) @@ (q2 :> b) @@ (q3 :> Handler("list", FALSE)) :
        a \in {Handler("register", TRUE), Handler("register", FALSE), Handler("discover", TRUE),
               Handler("refresh", FALSE)},
        b \in {Handler("refresh", FALSE), Handler("delete", FALSE)}}

MCOffers == {"x" :> 1 @@ "y" :> 1, "y" :> 2}

Entry(vendor, models) == [provider |-> vendor, pattern |-> models]

Google == Entry("google", "gemini")
Gpt4   == Entry("openai", "gpt-4")
Gpt4o  == Entry("openai", "gpt-4o")

Change(process, kind, entry, amount) ==
    [at |-> process, kind |-> kind, key |-> entry, price |-> amount]

MCPriceWorkloads ==
    {(q1 :> Change("i1", "upsert", Gpt4, 2)) @@ (q2 :> b) @@ (q3 :> Change("i2", "delete", Google, 1)) :
        b \in {Change("i1", "upsert", Gpt4o, 3), Change("i1", "delete", Gpt4, 1)}}

MCOrder == <<Google, Gpt4, Gpt4o>>

MCPriceStarts == {p \in [{Google, Gpt4, Gpt4o} -> {1, None}] : p[Google] = 1}

MCWithin ==
    ("gpt-4o" :> {"gpt-4", "gpt-4o"}) @@ ("gpt-4" :> {"gpt-4"}) @@ ("llama" :> {"llama"})
    @@ ("gemini" :> {"gemini"})

-----------------------------------------------------------------------------
\* Patterns of three and four characters, and the lists that have them.

Words(letters, n) == UNION {[1..k -> letters] : k \in 0..n}

Pattern == INSTANCE NamePatterns WITH
    Patterns <- Words({"a", "A", "*", "?"}, 3) \cup Words({"a", "b", "*"}, 4)
                \cup {<<"/", "*">>, <<"/", "*", "a">>},
    Texts <- Words({"a", "b"}, 3) \cup {<<"A", "b">>, <<"a", "/">>},
    MaxRounds <- 100, MaxDepth <- 6,
    pattern <- glob, text <- subject, p <- inGlob, t <- inSubject, stack <- stars

Bearer(own, listed, inTeam, vendors) ==
    [own |-> own, groups |-> listed, team |-> inTeam, providers |-> vendors]

Access == INSTANCE AccessLists WITH
    Requests <- {q1}, Groups <- {"g"},
    Tokens <- {Bearer({}, {"g"}, FALSE, None), Bearer({"a*"}, {"g"}, TRUE, {}),
               Bearer({}, {}, TRUE, {"x"})},
    Models <- {"ab", "b"}, Fits <- {<<"a*", "ab">>, <<"b", "b">>},
    Providers <- "ab" :> "x" @@ "b" :> "y", Lists <- {{"a*"}, {"b"}, {}, Junk},
    MaxChanges <- 2, MaxFailures <- 1,
    rows <- groups, token <- bearer, pc <- lpc, offered <- proposed, alone <- teamless,
    changes <- rewrites, failures <- faults

-----------------------------------------------------------------------------
\* First logins of one person, and projects that are made, left and chosen.

Enters(who) == [do |-> "login", person |-> who]
Drops(which) == [do |-> "delete", project |-> which]
Selects(which, who) == [do |-> "select", project |-> which, user |-> who]
Creates == [do |-> "create", org |-> "o"]
Becomes(rank) == [do |-> "role", user |-> "u", role |-> rank]

Three(a, b, c) == (q1 :> a) @@ (q2 :> b) @@ (q3 :> c)

MCTenantWorkloads ==
    {Three(Enters("bob"), Enters("bob"), Enters(c)) : c \in {"bob", "u"}}
    \cup {Three(Creates, Drops("o"), c) :
            c \in {Drops("p1"), Selects("p1", None), Selects("o", "u")}}
    \cup {Three(Creates, Enters("bob"), c) : c \in {Selects("p2", "u"), Drops("p2")}}
    \cup {Three(Enters("bob"), Becomes("viewer"), Becomes("admin")),
          Three(Enters("u"), Enters("u"), Enters("bob"))}

MCProjectOf == Three("p1", "p2", "p3")

Way(base, path, stream_, route_) ==
    [base |-> base, path |-> path, stream |-> stream_, route |-> route_]

ChatPath == <<"v1", "chat", "completions">>

By(way, functions, choice, limit, stop, format) ==
    [functions |-> functions, choice |-> choice, limit |-> limit, stop |-> stop,
     format |-> format, schema |-> stop # "one", way |-> way]

Wish(functions, choice, limit, stop, format) ==
    By(Way(<<>>, ChatPath, FALSE, None), functions, choice, limit, stop, format)

\* URLs of tokens with and without a path, streams, a client that speaks its
\* provider's own dialect, and targets of policies.
Ways ==
    {Way(base, ChatPath, streamed, None) :
        base \in {<<>>, <<"v1">>, <<"model", "m", "converse">>,
                  <<"openai", "deployments", "d", "chat", "completions">>},
        streamed \in BOOLEAN}
    \cup {Way(<<>>, <<"v1", "messages">>, FALSE, None)}
    \cup {Way(<<>>, ChatPath, TRUE, to) : to \in {"gemini", "groq", "openai"}}

Options == INSTANCE RequestOptions WITH
    Tools <- {"x", "y"}, Lengths <- {0, 2, 3},
    Requests <- {Wish(f, choice, 2, "one", m) :
                    f \in {{}, {"x", "y"}}, choice \in {None, "odd", "none", "required", "x"},
                    m \in {None, "object", "schema"}}
                \cup {Wish({"x"}, "auto", None, stop, "schema") : stop \in {None, "odd", "list"}}
                \cup {By(way, {"x"}, "auto", None, None, None) : way \in Ways},
    answer <- reply, shown <- returned, pc <- npc

-----------------------------------------------------------------------------
\* Messages of a binary stream, whole and damaged in each of their parts, and
\* sessions of which one reaches its provider.

Frame(size, says, prelude, rest, headers) ==
    [size |-> size, says |-> says, prelude |-> prelude, rest |-> rest, headers |-> headers,
     json |-> headers # <<>>]

MCFrames ==
    {Frame(3, 3, TRUE, TRUE, <<"type", "string">>), Frame(2, 2, TRUE, TRUE, <<"boolean", "type">>),
     Frame(2, 2, TRUE, TRUE, <<>>), Frame(2, 2, TRUE, FALSE, <<"type">>),
     Frame(2, 2, FALSE, FALSE, <<"type">>), Frame(2, 3, FALSE, FALSE, <<"type">>),
     Frame(3, 1, FALSE, FALSE, <<"type">>)}

MCTransmissions == UNION {[1..n -> MCFrames] : n \in 1..3}

MCSideWords == ("client" :> 1) @@ ("upstream" :> 2)

-----------------------------------------------------------------------------
\* Experiments whose weights are even, zero, uneven and too large, and what
\* meets them.

Starts(name, weights) == [do |-> "create", name |-> name, when |-> "some", weights |-> weights]
Weighs(weights) == [do |-> "update", id |-> 1, weights |-> weights]
Edits(name) == [do |-> "edit", id |-> 1, name |-> name, when |-> "always"]
About(do, id) == [do |-> do, id |-> id]
Asks == [do |-> "request"]

Four(a, b, c, d) == (q1 :> a) @@ (q2 :> b) @@ (q3 :> c) @@ (c1 :> d)

MCTrialWorkloads ==
    {Four(Starts("a", <<1, 2>>), Asks, About("stop", 1), Starts("a", <<3, 1>>)) @@ (c2 :> e) :
        e \in {About("results", 1), About("series", 2), Asks}}
    \cup {Four(Starts("a", <<2, 2>>), Weighs(w), Edits(n), e) @@ (c2 :> About("get", 1)) :
            w \in {<<0, 0>>, <<7, 3>>, <<0, 3>>, <<1>>}, n \in {"a", "b"},
            e \in {Starts("a", <<1, 1>>), Asks}}
    \cup {Four(Starts("a", <<2, 2>>), Weighs(<<1, 3>>), Weighs(<<3, 1>>), Edits("a")) @@ (c2 :> About("stop", 1))}
    \cup {Four(Starts("a", <<2, 2>>), Starts("b", w), Asks, e) @@ (c2 :> About("results", 2)) :
            w \in {<<1, 3>>, <<0, 1>>, <<6, 6>>}, e \in {[do |-> "list"], Asks}}

-----------------------------------------------------------------------------

ASSUME AreasAssumption == Pattern!LimitsAssumption /\ Access!NamesAssumption

Areas == {"sessions", "prompts", "keys", "logins", "tokens", "secrets", "config", "policies",
          "content", "tools", "prices", "patterns", "lists", "tenants", "options", "frames",
          "voice", "trials"}

\* Some element: where an area that does not run begins makes no difference.
Some(S) == CHOOSE x \in S : TRUE

\* Where the area that runs begins. The others begin in one state each.
AreasInit ==
    /\ area \in Areas
    /\ IF area = "prompts" THEN TRUE
       ELSE ask = [d \in Deployers |-> [label |-> Some(Labels), version |-> 1]]
    /\ IF area = "keys" THEN kjob \in KeyJobs
       ELSE /\ row = [k \in ApiKeyNames |-> "none"]
            /\ role = [k \in ApiKeyNames |-> "member"]
            /\ kjob = Some(KeyJobs)
    /\ \E start \in IF area = "logins" THEN LoginStarts ELSE {Some(LoginStarts)} :
          published = start.published /\ key = start.key /\ good = start.good
    /\ IF area = "tokens" THEN TRUE ELSE live = None
    /\ Secret!Init
    /\ \E start \in IF area = "secrets" THEN SecretStarts ELSE {Some(SecretStarts)} :
          credential = start.row /\ content = start.content /\ task = start.job
    /\ IF area = "config" THEN TRUE
       ELSE /\ file = Some(Files) /\ caller = "cli"
            /\ LET project == Some(ConfigProjects)
               IN  tokens = project.tokens /\ policies = project.policies
    /\ IF area = "policies" THEN TRUE
       ELSE /\ phases = {"pre", "post"} /\ table = <<OwnPolicy>>
            /\ request = [r \in PolicyRequests |-> Some(PolicyJobs)]
    /\ IF area = "content" THEN TRUE
       ELSE body = Some(Bodies) /\ todo = Some(Outgoing)
    /\ IF area = "tools" THEN TRUE
       ELSE demands = "nothing" /\ offered = Some(Offers) /\ toolTask = Some(ToolWorkloads)
    /\ Price!Init
    /\ IF area = "prices" THEN prices \in PriceStarts
       ELSE prices = Some(PriceStarts) /\ pricing = Some(PriceWorkloads)
    /\ IF area = "patterns" THEN TRUE ELSE glob = <<>> /\ subject = <<>>
    /\ IF area = "lists" THEN TRUE
       ELSE /\ groups = "g" :> None /\ team = None
            /\ bearer = (q1 :> Bearer({}, {"g"}, FALSE, None)) /\ model = (q1 :> "b")
    /\ IF area = "tenants" THEN TRUE
       ELSE /\ duty = Some(TenantWorkloads)
            /\ users = [u \in {Founder} |-> Tenant!User(Founder, Org, "member", TRUE)]
    /\ IF area = "options" THEN TRUE
       ELSE provider = "openai" /\ options = Wish({"x"}, "auto", None, None, "schema")
    /\ IF area = "frames" THEN TRUE
       ELSE stream = <<Frame(2, 2, TRUE, TRUE, <<>>)>> /\ stray = 0
    /\ IF area = "trials" THEN TRUE ELSE trial = Some(TrialWorkloads)
    /\ Session!Init /\ Prompt!Init /\ ApiKey!Init /\ Login!Init /\ Oauth!Init
    /\ Config!Init /\ Admin!Init /\ Init
    /\ Tool!Init /\ Pattern!Init /\ Access!Init /\ Tenant!Init /\ Options!Init
    /\ Events!Init /\ Voice!Init /\ Trial!Init

OfSessions == UNCHANGED <<area, keyVars, loginVars, tokenVars, secretVars, tenantVars, voiceVars,
                          configuredVars, requestVars>>
OfKeys     == UNCHANGED <<area, sessionVars, loginVars, tokenVars, secretVars, tenantVars, voiceVars,
                          configuredVars, requestVars>>
OfLogins   == UNCHANGED <<area, sessionVars, keyVars, tokenVars, secretVars, tenantVars, voiceVars,
                          configuredVars, requestVars>>
OfTokens   == UNCHANGED <<area, sessionVars, keyVars, loginVars, secretVars, tenantVars, voiceVars,
                          configuredVars, requestVars>>
OfSecrets  == UNCHANGED <<area, sessionVars, keyVars, loginVars, tokenVars, tenantVars, voiceVars,
                          configuredVars, requestVars>>
OfTenants  == UNCHANGED <<area, sessionVars, keyVars, loginVars, tokenVars, secretVars, voiceVars,
                          configuredVars, requestVars>>
OfPrompts  == UNCHANGED <<area, configVars, policyVars, priceVars, listVars, toolVars, trialVars,
                          callerVars, requestVars>>
OfConfig   == UNCHANGED <<area, promptVars, policyVars, priceVars, listVars, toolVars, trialVars,
                          callerVars, requestVars>>
OfPolicies == UNCHANGED <<area, promptVars, configVars, priceVars, listVars, toolVars, trialVars,
                          callerVars, requestVars>>
OfPrices   == UNCHANGED <<area, promptVars, configVars, policyVars, listVars, toolVars, trialVars,
                          callerVars, requestVars>>
OfLists    == UNCHANGED <<area, promptVars, configVars, policyVars, priceVars, toolVars, trialVars,
                          callerVars, requestVars>>
OfTools    == UNCHANGED <<area, promptVars, configVars, policyVars, priceVars, listVars, trialVars,
                          callerVars, requestVars>>
OfVoice    == UNCHANGED <<area, sessionVars, keyVars, loginVars, tokenVars, secretVars, tenantVars,
                          configuredVars, requestVars>>
OfTrials   == UNCHANGED <<area, promptVars, configVars, policyVars, priceVars, listVars, toolVars,
                          callerVars, requestVars>>
OfContent  == UNCHANGED <<area, patternVars, optionVars, frameVars, callerVars, configuredVars>>
OfPatterns == UNCHANGED <<area, vars, optionVars, frameVars, callerVars, configuredVars>>
OfOptions  == UNCHANGED <<area, vars, patternVars, frameVars, callerVars, configuredVars>>
OfFrames   == UNCHANGED <<area, vars, patternVars, optionVars, callerVars, configuredVars>>

AreasNext ==
    \/ area = "sessions" /\ Session!Next /\ OfSessions
    \/ area = "keys"     /\ ApiKey!Next  /\ OfKeys
    \/ area = "logins"   /\ Login!Next   /\ OfLogins
    \/ area = "tokens"   /\ Oauth!Next   /\ OfTokens
    \/ area = "secrets"  /\ Secret!Next  /\ OfSecrets
    \/ area = "tenants"  /\ Tenant!Next  /\ OfTenants
    \/ area = "prompts"  /\ Prompt!Next  /\ OfPrompts
    \/ area = "config"   /\ Config!Next  /\ OfConfig
    \/ area = "policies" /\ Admin!Next   /\ OfPolicies
    \/ area = "prices"   /\ Price!Next   /\ OfPrices
    \/ area = "lists"    /\ Access!Next  /\ OfLists
    \/ area = "tools"    /\ Tool!Next    /\ OfTools
    \/ area = "content"  /\ Next         /\ OfContent
    \/ area = "patterns" /\ Pattern!Next /\ OfPatterns
    \/ area = "options"  /\ Options!Next /\ OfOptions
    \/ area = "frames"   /\ Events!Next  /\ OfFrames
    \/ area = "voice"    /\ Voice!Next   /\ OfVoice
    \/ area = "trials"   /\ Trial!Next   /\ OfTrials

AreasSpec == AreasInit /\ [][AreasNext]_areasVars

-----------------------------------------------------------------------------
\* Invariants and action properties of the areas, and what they rest on.

\* Names, lists, options and weights have the effect that they say: patterns
\* match what they mean, a token's own list and its groups admit a model that
\* one of their patterns has, a request reaches its endpoint, an answer keeps to
\* the client's options and an error tells its cause, and an experiment splits
\* requests by its weights and counts its own.
AsConfigured ==
    /\ Pattern!PatternsMean /\ Access!AdmittedByPattern /\ Options!OptionsKept
    /\ Options!ErrorsTold /\ Options!EndpointReached
    /\ Trial!SplitExact /\ Trial!ResultsOwn

-----------------------------------------------------------------------------
\* What the code or its comments promise and the areas do not keep. No run
\* checks them: listed in SafeAreas.cfg, each is violated.

\* A status changes only by the transitions of sessions.rs.
TransitionsValid == Session!TransitionsValid

\* A label renders where the last deploy put it, without exception.
LastDeployWins == Prompt!LastDeployWins

\* A deploy to a version that is not there changes nothing.
MissingKeepsLabel == Prompt!MissingKeepsLabel

\* An organization keeps an admin key.
LastAdminStays == ApiKey!LastAdminStays

\* A call that is answered with 401 succeeds after its retry.
RetryHelps == Oauth!RetryHelps

\* A removed server has no token.
RemovedForgotten == Oauth!RemovedForgotten

\* A credential is asked for in its own store.
RoutedToOwnStore == Secret!RoutedToOwnStore

\* Nothing is left to do after a file was applied.
PlanEmptyAfterApply == Config!PlanEmptyAfterApply

\* A policy of a file is in the list of its token.
PoliciesAttached == Config!PoliciesAttached

\* A file with policies can be applied.
FilesApply == Config!FilesApply

\* Guardrails that are enabled again are enforced.
ReenabledIsEnforced == Admin!ReenabledIsEnforced

\* Guardrails for answers are in force on answers.
AnswersGuarded == Admin!AnswersGuarded

\* Guardrails that are enabled stay so.
EnabledStays == Admin!EnabledStays

\* The history has each content that a policy has had.
HistoryComplete == Admin!HistoryComplete

\* A listing shows all that the provider offered.
ListedWhole == Tool!ListedWhole

\* A server that is not in the registry has no token.
TokensOwned == Tool!TokensOwned

\* A server that was connected is so after a restart.
RestoredWorks == Tool!RestoredWorks

\* A new price is charged in every process.
ProcessesAgree == Price!ProcessesAgree

\* The longest pattern of a model has its price.
SpecificFirst == Price!SpecificFirst

\* Each of the prices in the code is charged for some model.
ArmsReached == Price!ArmsReached

\* A provider has one name on all paths that look prices up.
PathsAgree == Price!PathsAgree

\* The choice by price knows the prices of the table.
RouterKnowsPrices == Price!RouterKnowsPrices

\* A pattern that is checked as one is used as one.
CheckedAsConfigured == Pattern!CheckedAsConfigured

\* A star in a pattern matches a slash too.
SlashMatchesSlash == Pattern!SlashMatchesSlash

\* A token with groups has the models of its groups.
GroupsRestrict == Access!GroupsRestrict

\* An organization keeps a project.
ProjectsStay == Tenant!ProjectsStay

\* An organization has a project of its own id.
DefaultProjectExists == Tenant!DefaultProjectExists

\* An organization has a user.
NoEmptyOrgs == Tenant!NoEmptyOrgs

\* Every provider keeps to the client's choice of tools.
ChoiceKeptByAll == Options!ChoiceKeptByAll

\* Every provider keeps to the form that the client asks for.
FormKeptByAll == Options!FormKeptByAll

\* A token whose URL has a version reaches the endpoint.
VersionedReached == Options!VersionedReached

\* Bedrock streams where the URL has the model already.
ActionCorrect == Options!ActionCorrect

\* The target of a policy gets what is written for it.
WrittenForTarget == Options!WrittenForTarget

\* A full quota is told alike whatever provider it is of.
QuotaToldAlike == Options!QuotaToldAlike

\* No answer is free.
AnswersCounted == Options!AnswersCounted

\* A damaged message is lost alone.
DamageIsLocal == Events!DamageIsLocal

\* Nothing waits in the buffer but a part of a message.
IncompleteWaits == Events!IncompleteWaits

\* Each event has its type.
TypesRead == Events!TypesRead

\* What a provider says before it closes reaches a client that is there.
LastWordsArrive == Voice!LastWordsArrive

\* A provider that is there is told of the end of a session.
UpstreamTold == Voice!UpstreamTold

\* Nothing is carried after the token was revoked.
RevokedIsCut == Voice!RevokedIsCut

\* An update keeps the condition of its experiment.
ConditionKept == Trial!ConditionKept

\* Any weights split as they say.
WeightsKept == Trial!WeightsKept

\* An experiment that runs has a variant to choose.
RunningSplits == Trial!RunningSplits

\* Every experiment that runs is listed.
AllListed == Trial!AllListed

\* An experiment is shown with its results.
ShownWithResults == Trial!ShownWithResults

\* No two experiments share their results.
NamesApart == Trial!NamesApart

=============================================================================
