------------------------- MODULE MCRequestPipeline -------------------------
\* Small instances of RequestPipeline: pairs of requests whose policies reach
\* every kind of action.
EXTENDS RequestPipeline

CONSTANTS r1, r2, t1, t2, m1, m2, b1, b2, x, y

\* Conditions: always, "model is m", and "not the first request today".
Always == <<[kind |-> "always"]>>
Asks(m) == <<[kind |-> "check", field |-> "model", op |-> "eq", value |-> m]>>
Again == <<[kind |-> "check", field |-> "requests", op |-> "lte", value |-> 1],
           [kind |-> "not", of |-> {1}],
           [kind |-> "check", field |-> "status", op |-> "exists", value |-> 0],
           [kind |-> "not", of |-> {3}],
           [kind |-> "all", of |-> {2, 4}]>>

Sync(when, then)  == [when |-> when, then |-> then, async |-> FALSE]
Async(when, then) == [when |-> when, then |-> then, async |-> TRUE]
Pre(mode, rules)  == [phase |-> "pre", mode |-> mode, rules |-> rules]
Post(rules)       == [phase |-> "post", mode |-> "enforce", rules |-> rules]

A(kind)       == [kind |-> kind, policy |-> "p"]
DenyBy(name)  == [kind |-> "deny", policy |-> name]
Limit(n)      == [kind |-> "rate_limit", policy |-> "p", max |-> n]
To(models)    == [kind |-> "rewrite", policy |-> "p", models |-> models]
Least(pool)   == [kind |-> "dynamic_route", policy |-> "p", strategy |-> "least_busy",
                  pool |-> pool, fallback |-> {}]
IfModel(m, target) ==
    [kind |-> "conditional_route", policy |-> "p", fallback |-> {},
     branches |-> <<[field |-> "model", op |-> "eq", value |-> m, target |-> target]>>]
Tools(allowed, blocked) ==
    [kind |-> "tool_scope", policy |-> "p", allowed |-> allowed, blocked |-> blocked]

NoHeader == [mode |-> "disabled", guardrails |-> <<>>, enable |-> <<>>, disable |-> {}]

\* A POST with no idempotency key and no policies.
Plain(t, m) ==
    [token |-> t, model |-> m, text |-> x, rest |-> "plain", base |-> b1,
     target |-> None, mutating |-> TRUE, keyed |-> FALSE, stream |-> FALSE,
     mcp |-> FALSE, cacheable |-> FALSE, signed |-> FALSE, defaultLimit |-> 0,
     tools |-> {}, policies |-> <<>>, header |-> NoHeader]

With(q, policies) == [q EXCEPT !.policies = policies]

\* A shadow deny before an enforced one.
Denied == With(Plain(t1, m1),
    <<Pre("shadow",  <<Sync(Always, <<DenyBy("p")>>)>>),
      Pre("enforce", <<Sync(Asks(m1), <<A("note"), DenyBy("strict")>>)>>)>>)

\* The second request of the day is denied, unless an asynchronous deny
\* comes first.
Quota == With(Plain(t1, m1), <<Pre("enforce", <<Sync(Again, <<DenyBy("quota")>>)>>)>>)
Loose == With(Plain(t1, m1),
    <<Pre("enforce", <<Async(Always, <<DenyBy("watch")>>),
                       Sync(Always, <<DenyBy("p")>>)>>)>>)

\* The client's headers take the deny out.
Spares(q, mode, guardrails, disable) ==
    [q EXCEPT !.header = [mode |-> mode, guardrails |-> guardrails,
                          enable |-> <<"hipaa">>, disable |-> disable]]

Limited == With(Plain(t1, m1), <<Pre("enforce", <<Sync(Always, <<Limit(1)>>)>>)>>)

Default == [Plain(t1, m1) EXCEPT !.defaultLimit = 1]

Rerouted == With(Plain(t1, m1),
    <<Pre("enforce", <<Sync(Always, <<To({m1, m2}), IfModel(m1, [model |-> m2, base |-> b2]),
                                      A("require_approval")>>)>>)>>)

Routed == With([Plain(t1, m1) EXCEPT !.signed = TRUE],
    <<Pre("enforce", <<Sync(Always,
        <<Least({[model |-> m1, base |-> b1], [model |-> m2, base |-> b2]})>>)>>)>>)

Guarded == With([Plain(t1, m1) EXCEPT !.tools = {"x"}, !.target = m2, !.keyed = TRUE],
    <<Pre("enforce", <<Sync(Always, <<A("filter"), A("guardrail"), Tools({"x"}, {})>>),
                       Sync(Asks(m2), <<Tools({}, {"x"})>>)>>),
      Post(<<Sync(Always, <<A("schema"), A("redact")>>),
             Sync(<<[kind |-> "check", field |-> "status", op |-> "gte", value |-> 500]>>,
                  <<A("deny")>>)>>)>>)

\* Another text, or other fields that are not keyed, such as n: another answer
\* is due.
Cached(t) == [Plain(t, m1) EXCEPT !.cacheable = TRUE]
OtherText == [Cached(t1) EXCEPT !.text = y]
OtherRest == [Cached(t1) EXCEPT !.rest = "other"]
Loops     == [Cached(t1) EXCEPT !.mcp = TRUE]
Streams   == [Plain(t1, m1) EXCEPT !.stream = TRUE]

Both(p, q) == (r1 :> p) @@ (r2 :> q)

MCArrivals ==
    {Both(Denied, Plain(t1, m1)), Both(Quota, Quota), Both(Loose, Denied),
     Both(Spares(Denied, "override", <<"pii_block">>, {}), Denied),
     Both(Spares(Denied, "append", <<"pii_redaction">>, {"strict"}), Denied),
     Both(Limited, Limited), Both(Default, Default),
     Both(Rerouted, Denied), Both(Routed, Routed),
     Both(Guarded, Denied), Both(Cached(t1), Cached(t2)),
     Both(Cached(t1), OtherText), Both(Loops, OtherRest), Both(Streams, Denied)}

MCGrants == {[row |-> {m1}, groups |-> {}], [row |-> {}, groups |-> {m2}]}

=============================================================================
