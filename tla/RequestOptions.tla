--------------------------- MODULE RequestOptions ---------------------------
(***************************************************************************)
(* The options of a request, in the dialects of proxy/model_router: which  *)
(* tools the model may call and whether it has to, how long the answer may *)
(* be and in which form, the usage that comes back with the answer, and    *)
(* errors. A client writes them as OpenAI has them; Anthropic, Gemini and  *)
(* Bedrock each have a part of them under other names. The messages        *)
(* themselves are those of ModelRouter. A model does what its provider's   *)
(* request says. The address that a request is sent to is made from the    *)
(* token's or the target's URL and the client's path.                      *)
(***************************************************************************)
EXTENDS Naturals, FiniteSets, Sequences, SequencesExt

CONSTANTS
    Tools,     \* names of tools
    Requests,  \* options, as clients write them
    Lengths,   \* lengths of answers, in tokens
    None

VARIABLES
    provider,
    options,   \* of the client's request
    native,    \* of the provider's request
    address,   \* of the provider's request
    answer,    \* the model's: calls, length, form, whether it went past a
               \* text to stop at, and usage; or the provider's error
    shown,     \* what the client gets
    pc

vars == <<provider, options, native, address, answer, shown, pc>>

\* "groq" stands for those that speak OpenAI's dialect at other hosts (Mistral,
\* Together, Cohere).
Providers == {"openai", "anthropic", "gemini", "bedrock", "azure", "groq", "ollama"}

Dialects == {"anthropic", "gemini", "bedrock"}

Init ==
    /\ provider \in Providers
    /\ options \in Requests
    /\ native = None /\ address = None /\ answer = None /\ shown = None
    /\ pc = "asked"

-----------------------------------------------------------------------------
\* Requests. Of a client's tools, "functions" can be called by the model, and
\* others (a search of the provider's) have no translation. Its choice is
\* None, a word or the name of a tool; a choice of another form is "odd". A
\* limit and texts to stop at may be missing.

Native(tools, choice, limit, stops, form) ==
    [tools |-> tools, choice |-> choice, limit |-> limit, stops |-> stops, form |-> form]

\* Texts to stop at: one is a list of one, and what is neither is left out.
Stops(o) == o.stop \in {"one", "list"}

Choice(o) ==
    CASE o.choice = "required" -> "any"
      [] o.choice = "none"     -> "none"
      [] o.choice \in Tools    -> o.choice
      [] o.choice \in {None, "auto", "odd"} -> "auto"

\* Mutant: tools stay when none is to be called.
Anthropic_NoneKeepsTools(o) ==
    Native(o.functions, IF o.choice = "none" THEN "auto" ELSE Choice(o),
           IF o.limit = None THEN 4096 ELSE o.limit, Stops(o), "any")

\* There is no choice "none": the tools are taken out instead. A limit must be
\* given. Forms of answers are not translated.
Anthropic(o) ==
    Native(IF o.choice = "none" THEN {} ELSE o.functions,
           IF o.choice = "none" THEN "auto" ELSE Choice(o),
           IF o.limit = None THEN 4096 ELSE o.limit, Stops(o), "any")

\* A schema that is not where it should be leaves the answer to be JSON.
Form(o) == CASE o.format = "object" -> "json"
             [] o.format = "schema" -> IF o.schema THEN "schema" ELSE "json"
             [] OTHER               -> "any"

Gemini(o) == Native(o.functions, Choice(o), o.limit, Stops(o), Form(o))

\* Neither the choice nor the form of the answer is translated.
Bedrock(o) == Native(o.functions, "auto", o.limit, Stops(o), "any")

\* The request is sent as it is.
OpenAI(o) == Native(o.functions, Choice(o), o.limit, Stops(o), Form(o))

\* Addresses are sequences of the segments that follow the host. A client's
\* way is the URL of its token, its path, whether it wants a stream, and the
\* provider of the target that a policy has routed it to, or None.

Chat == <<"v1", "chat", "completions">>

\* transform::rewrite_url
Joined(way) == way.base \o way.path

\* A target of a policy has no path.
Given(way) == IF way.route = None THEN Joined(way) ELSE way.base

\* The path that the router attached is taken off again.
Root(url) == IF IsSuffix(Chat, url) THEN SubSeq(url, 1, Len(url) - Len(Chat)) ELSE url

Verb(way, once, streamed) == IF way.stream THEN streamed ELSE once

BedrockAddress(way, root) ==
    IF Contains(root, "model") THEN root
    ELSE root \o <<"model", "m", Verb(way, "converse", "converse-stream")>>

\* rewrite_upstream_url, for the providers that are not OpenAI
Rewritten(to, way, root) ==
    CASE to = "gemini" ->
            root \o <<"v1beta", "models", "m",
                      Verb(way, "generateContent", "streamGenerateContent")>>
      [] to = "anthropic" -> root \o <<"v1", "messages">>
      [] to = "azure"     -> IF Contains(root, "deployments") THEN root
                             ELSE root \o <<"openai", "deployments", "m", "chat", "completions">>
      [] to = "bedrock"   -> BedrockAddress(way, root)
      [] to = "ollama"    -> IF Contains(root, "v1") \/ Contains(root, "api") THEN root
                             ELSE root \o Chat
      [] to = "groq"      -> IF Contains(root, "v1") THEN root ELSE root \o Chat

Address(way) ==
    LET to == IF way.route = None THEN provider ELSE way.route
    IN  IF to = "openai" THEN Joined(way) ELSE Rewritten(to, way, Root(Given(way)))

\* The body is translated for the provider that was detected first, the address
\* is made for the target.
Translate ==
    /\ pc = "asked"
    /\ native' = CASE provider = "anthropic" -> Anthropic(options)
                   [] provider = "gemini"    -> Gemini(options)
                   [] provider = "bedrock"   -> Bedrock(options)
                   [] provider \notin Dialects -> OpenAI(options)
    /\ address' = Address(options.way)
    /\ pc' = "sent"
    /\ UNCHANGED <<provider, options, answer, shown>>

-----------------------------------------------------------------------------
\* The model, which keeps to the request that it gets.

Callable == CASE native.choice = "auto" -> SUBSET native.tools
              [] native.choice = "none" -> {{}}
              [] native.choice = "any"  -> SUBSET native.tools \ {{}}
              [] native.choice \in Tools -> {{native.choice}}

\* A request that has to call a tool and has none is refused.
Served == (native.choice = "any" => native.tools # {})
          /\ (native.choice \in Tools => native.choice \in native.tools)

Forms == CASE native.form = "any"    -> {"words", "json", "schema"}
           [] native.form = "json"   -> {"json", "schema"}
           [] native.form = "schema" -> {"schema"}

\* Usage may be missing, or a part of it.
Answer ==
    /\ pc = "sent"
    /\ Served
    /\ \E calls \in Callable, length \in Lengths, form \in Forms, past \in BOOLEAN,
          input \in {7, None}, counted \in BOOLEAN :
          /\ native.limit # None => length <= native.limit
          /\ native.stops => ~ past
          /\ length > 0 \/ calls # {}
          /\ answer' = [calls |-> calls, length |-> length, form |-> form, past |-> past,
                        usage |-> [input  |-> input,
                                   output |-> IF counted THEN length + Cardinality(calls) ELSE None]]
    /\ pc' = "answered"
    /\ UNCHANGED <<provider, options, native, address, shown>>

\* Any request may fail, and one that cannot be served does. What the cause is
\* called in the provider's errors, or None if it has no name of its own there.
Causes == {"invalid", "auth", "denied", "missing", "rate", "failed", "busy", "late"}

Called(cause) ==
    CASE provider = "anthropic" ->
            [invalid |-> "invalid_request_error", auth |-> "authentication_error",
             denied |-> "permission_error", missing |-> "not_found_error",
             rate |-> "rate_limit_error", failed |-> "api_error", busy |-> "overloaded_error",
             late |-> None][cause]
      [] provider = "gemini" ->
            [invalid |-> "INVALID_ARGUMENT", auth |-> "UNAUTHENTICATED",
             denied |-> "PERMISSION_DENIED", missing |-> "NOT_FOUND",
             rate |-> "RESOURCE_EXHAUSTED", failed |-> "INTERNAL", busy |-> "UNAVAILABLE",
             late |-> "DEADLINE_EXCEEDED"][cause]
      [] provider = "bedrock" ->
            [invalid |-> "ValidationException", auth |-> "UnrecognizedClientException",
             denied |-> "AccessDeniedException", missing |-> "ResourceNotFoundException",
             rate |-> "ThrottlingException", failed |-> "InternalServerException",
             busy |-> "ServiceUnavailableException", late |-> "ModelTimeoutException"][cause]
      [] provider \notin Dialects -> cause

\* An error is an object, or the first of a list as Gemini has it, or "bare" of
\* a type, or a page of something that stands before the provider.
Refuse ==
    /\ pc = "sent"
    /\ \E cause \in Causes, shape \in {"object", "list", "bare", "page"} :
          /\ ~ Served => cause = "invalid"
          /\ shape = "list" => provider = "gemini"
          /\ answer' = [cause |-> cause, shape |-> shape,
                        called |-> IF shape \in {"object", "list"} THEN Called(cause) ELSE None]
    /\ pc' = "refused"
    /\ UNCHANGED <<provider, options, native, address, shown>>

-----------------------------------------------------------------------------
\* Answers. Four characters make a token.

OrZero(count) == IF count = None THEN 0 ELSE count

\* The input cannot be estimated; the output is, from the text, as one at least.
Estimated(a) ==
    [input  |-> OrZero(a.usage.input),
     output |-> IF a.usage.output = None THEN (IF a.length > 0 THEN a.length ELSE 1) ELSE a.usage.output]

AnthropicUsage(a) == Estimated(a)

GeminiUsage(a) == Estimated(a)

BedrockUsage(a) == [input |-> OrZero(a.usage.input), output |-> OrZero(a.usage.output)]

TranslateBack ==
    /\ pc = "answered"
    /\ shown' = [answer EXCEPT !.usage =
                    CASE provider = "anthropic" -> AnthropicUsage(answer)
                      [] provider = "gemini"    -> GeminiUsage(answer)
                      [] provider = "bedrock"   -> BedrockUsage(answer)
                      [] provider \notin Dialects -> answer.usage]
    /\ pc' = "over"
    /\ UNCHANGED <<provider, options, native, address, answer>>

-----------------------------------------------------------------------------
\* Errors: the type that a client is told.

OrApi(type) == IF type = None THEN "api_error" ELSE type

AnthropicType(called) == OrApi(called)

GeminiType(called) ==
    CASE called = "RESOURCE_EXHAUSTED" -> "rate_limit_exceeded"
      [] called \in {"INTERNAL", "UNAVAILABLE"} -> "server_error"
      [] called = "INVALID_ARGUMENT"   -> "invalid_request_error"
      [] called = "NOT_FOUND"          -> "not_found_error"
      [] called = "PERMISSION_DENIED"  -> "permission_denied"
      [] called = "UNAUTHENTICATED"    -> "authentication_error"
      [] OTHER                         -> "api_error"

\* The exception's name without its namespace and the word, in small letters.
BedrockType(called) ==
    CASE called = None -> "api_error"
      [] called = "ValidationException"         -> "validation"
      [] called = "UnrecognizedClientException" -> "unrecognized_client"
      [] called = "AccessDeniedException"       -> "access_denied"
      [] called = "ResourceNotFoundException"   -> "resource_not_found"
      [] called = "ThrottlingException"         -> "throttling"
      [] called = "InternalServerException"     -> "internal_server"
      [] called = "ServiceUnavailableException" -> "service_unavailable"
      [] called = "ModelTimeoutException"       -> "model_timeout"

Type(called) == CASE provider = "anthropic" -> AnthropicType(called)
                  [] provider = "gemini"    -> GeminiType(called)
                  [] provider = "bedrock"   -> BedrockType(called)

\* Errors in OpenAI's dialect and what is no JSON are passed on as they are.
TranslateError ==
    /\ pc = "refused"
    /\ shown' = IF provider \notin Dialects \/ answer.shape = "page" THEN answer ELSE [type |-> Type(answer.called)]
    /\ pc' = "told"
    /\ UNCHANGED <<provider, options, native, address, answer>>

Next == Translate \/ Answer \/ Refuse \/ TranslateBack \/ TranslateError

Spec == Init /\ [][Next]_vars

-----------------------------------------------------------------------------
\* Properties

\* What the client may read of an answer, by its own options.
ChoiceKept ==
    /\ options.choice = "none"     => shown.calls = {}
    /\ options.choice = "required" => shown.calls # {}
    /\ options.choice \in Tools    => shown.calls = {options.choice}

FormKept ==
    /\ options.format = "schema" /\ options.schema => shown.form = "schema"
    /\ options.format = "object" => shown.form # "words"

LimitKept ==
    /\ options.limit # None => shown.length <= options.limit
    /\ Stops(options) => ~ shown.past

\* request.rs, "map OpenAI": Anthropic and Gemini keep to a client's choice of
\* tools as OpenAI does, all to its limits, OpenAI and Gemini to its form, and an
\* answer that Anthropic or Gemini has not counted is not free.
OptionsKept ==
    pc = "over" =>
        /\ LimitKept
        /\ provider # "bedrock" => ChoiceKept
        /\ provider \notin {"anthropic", "bedrock"} => FormKept
        /\ provider \in {"anthropic", "gemini"} => shown.usage.output > 0

\* A client that is told a type knows the cause: no other cause that the
\* provider has a name for is told alike, but for faults of the server.
ErrorsTold ==
    pc = "told" /\ provider \in Dialects /\ answer.shape \in {"object", "list"} =>
        \A cause \in Causes \ {"failed", "busy", "late"} :
            Type(Called(cause)) = shown.type => cause = answer.cause

\* A client's chat, at a token whose URL is a bare host, reaches the endpoint
\* that its body is written for, in the mode that it wants.
Endpoint(to, stream) ==
    CASE to = "anthropic" -> <<"v1", "messages">>
      [] to = "gemini"    -> <<"v1beta", "models", "m",
                               IF stream THEN "streamGenerateContent" ELSE "generateContent">>
      [] to = "bedrock"   -> <<"model", "m", IF stream THEN "converse-stream" ELSE "converse">>
      [] to = "azure"     -> <<"openai", "deployments", "m", "chat", "completions">>
      [] OTHER            -> Chat

Reached == IsSuffix(Endpoint(provider, options.way.stream), address)

EndpointReached ==
    pc = "sent" /\ options.way.base = <<>> /\ options.way.path = Chat /\ options.way.route = None
        => Reached

\* tokens.rs:654 has "https://api.groq.com/openai/v1" for the URL of a token: a
\* chat reaches the endpoint there as well.
VersionedReached == pc = "sent" /\ options.way.base = <<"v1">> /\ options.way.path = Chat => Reached

\* url_rewrite.rs:92: "Already has model path -- just ensure correct action"
ActionCorrect ==
    pc = "sent" /\ provider = "bedrock" /\ Contains(options.way.base, "model") =>
        Last(address) = Verb(options.way, "converse", "converse-stream")

\* A target gets what is written for it.
WrittenForTarget ==
    pc = "sent" /\ options.way.route \in Dialects => options.way.route = provider

\* A full quota is told alike whatever provider it is of ("OpenAI-compatible
\* error types", error.rs:67).
QuotaToldAlike ==
    pc = "told" /\ provider \in Dialects /\ answer.cause = "rate"
        /\ answer.shape \in {"object", "list"} => shown.type = "rate_limit_exceeded"

\* Every provider keeps to the choice.
ChoiceKeptByAll == pc = "over" => ChoiceKept

\* Every provider keeps to the form.
FormKeptByAll == pc = "over" => FormKept

\* No answer is free.
AnswersCounted == pc = "over" /\ provider \in Dialects => shown.usage.input > 0 /\ shown.usage.output > 0

=============================================================================
