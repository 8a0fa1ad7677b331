------------------------------ MODULE ToolLoop ------------------------------
(***************************************************************************)
(* A conversation through the gateway: a client sends its messages again   *)
(* and again, with each answer and the results of its own tools added; the *)
(* gateway translates them (ModelRouter), offers the tools of MCP servers  *)
(* beside the client's, runs those the model calls and asks again, until   *)
(* the model calls none (proxy/handler/core.rs, middleware/mcp.rs), or     *)
(* passes a stream on event by event.                                      *)
(***************************************************************************)
EXTENDS ModelRouter

CONSTANTS
    McpTools,   \* [server |-> , name |-> ]
    OwnTools,   \* the client's
    Text,       \* stands for a text where a tool might be
    Answers,    \* what models answer: sequences of Text and tools
    Openings,   \* the messages of a first request
    Allowed,    \* values of a token's mcp_allowed_tools: patterns, or None
    Blocked,    \* values of mcp_blocked_tools
    Models, Hosts,
    MaxIterations, \* MAX_TOOL_LOOP_ITERATIONS (10)
    MaxRequests    \* bound

VARIABLES
    conv,     \* the client's messages
    setting,  \* of the conversation: model, host, allowed, blocked
    stage,
    request,  \* what was last sent to the provider
    offered,  \* the MCP tools in it
    body,     \* the messages as the loop extends them
    answer,   \* the provider's last answer, translated
    rounds,   \* iterations of the loop
    ran,      \* the MCP tools that were run
    refused,  \* the calls of offered tools that were refused
    events,   \* of a stream, still to come
    pieces,   \* the chunks that came
    acc,      \* the accumulator
    native,   \* the provider's last answer, as it gave it
    made      \* calls and texts made so far, for their ids

-----------------------------------------------------------------------------
\* What a conversation is: lists of parts and of calls, and results of calls
\* that a message before them made.

IsList(s) == s \in Seq(ToSet(s))

AreCalls(s) == IsList(s) /\ \A c \in ToSet(s) : c.kind = "call"

MessageTyped(m) ==
    /\ m.role \in {"system", "user", "assistant", "tool"}
    /\ IsList(m.parts) /\ ToSet(m.parts) \subseteq {"text", "data", "link"}
    /\ AreCalls(m.calls)

Makes(m, id) == m.role = "assistant" /\ \E c \in ToSet(m.calls) : c.id = id

Conversation(ms) ==
    /\ IsList(ms)
    /\ \A i \in 1..Len(ms) :
          /\ MessageTyped(ms[i])
          /\ ms[i].role = "tool" => \E j \in 1..i - 1 : Makes(ms[j], ms[i].answers)

AllAnswered(calls, ms) ==
    \A c \in calls : \E m \in ToSet(ms) : m.role = "tool" /\ m.answers = c.id

ASSUME ToolLoopAssumption ==
    /\ Answers \subseteq Seq(McpTools \cup OwnTools \cup {Text})
    /\ None \notin {"STOP", "RECITATION"}
    /\ \A ms \in Openings : Conversation(ms)

-----------------------------------------------------------------------------
vars == <<conv, setting, stage, request, offered, body, answer, rounds, ran,
          refused, events, pieces, acc, native, made>>

Message(role, form, parts, calls, answers, tool) ==
    [role |-> role, form |-> form, parts |-> parts, calls |-> calls,
     answers |-> answers, tool |-> tool]

NoRequest == Request(None, 0, <<>>)

NoAnswer == Answer(<<>>, <<>>, None)

NoNative == [blocks |-> <<>>, stop |-> None]

Init ==
    /\ conv \in Openings
    /\ setting \in [model : Models, host : Hosts, allowed : Allowed, blocked : Blocked,
                    mcp : BOOLEAN, streaming : BOOLEAN]
    /\ stage = "client"
    /\ request = NoRequest
    /\ offered = {}
    /\ body = <<>>
    /\ answer = NoAnswer
    /\ rounds = 0
    /\ ran = {}
    /\ refused = {}
    /\ events = <<>>
    /\ pieces = 0
    /\ acc = Empty
    /\ native = NoNative
    /\ made = 0

Provider == DetectProvider(setting.model, setting.host)

-----------------------------------------------------------------------------
\* Which tools a token may use

\* A pattern is a tool's name, all names of a server (mcp__server__*), or all
\* that begin with the server's (mcp__server*). Names are written with two
\* underscores before the tool, but a called one is looked up with one, too.
Matches(pattern, spelling, tool) ==
    CASE pattern.kind = "tool"   -> spelling = "double" /\ tool = pattern.tool
      [] pattern.kind = "server" -> spelling = "double" /\ tool.server = pattern.tool.server
      [] pattern.kind = "prefix" -> tool.server = pattern.tool.server

IsToolPermitted(spelling, tool) ==
    /\ setting.blocked # None => \A p \in setting.blocked : ~Matches(p, spelling, tool)
    /\ setting.allowed # None => \E p \in setting.allowed : Matches(p, spelling, tool)

\* Mutant: only the other spelling is looked up.
Permitted_Single(tool) == IsToolPermitted("single", tool)

\* filter_mcp_tool_calls
Permitted(tool) == IsToolPermitted("double", tool) /\ IsToolPermitted("single", tool)

IsMcp(c) == c.tool \in McpTools

-----------------------------------------------------------------------------
\* The request

\* The client names the servers whose tools it wants.
Offered == IF setting.mcp THEN {t \in McpTools : IsToolPermitted("double", t)} ELSE {}

\* The tools are put into the translated body as it is; the messages that the
\* loop extends are the untranslated ones.
Ask ==
    /\ stage = "client"
    /\ \/ conv[Len(conv)].role = "user"
       \/ conv[Len(conv)].role = "tool"
    /\ request' = TranslateRequest(Provider, conv)
    /\ offered' = Offered
    /\ body' = conv
    /\ rounds' = 0
    /\ answer' = NoAnswer
    /\ stage' = "asked"
    /\ UNCHANGED <<conv, setting, ran, refused, events, pieces, acc, native, made>>

\* The model answers with texts and calls, each with an id of its own; Gemini
\* gives no ids, and one reason for ending by itself.
Native(kinds) ==
    [i \in DOMAIN kinds |->
        IF kinds[i] = Text THEN Block("text", <<"made", made + i>>, None)
        ELSE Block("call", <<"made", made + i>>, kinds[i])]

Reasons(kinds) ==
    LET called == \E i \in DOMAIN kinds : kinds[i] # Text
    IN  CASE Provider = "gemini" -> {"STOP", "RECITATION"}
          [] Provider \in {"anthropic", "bedrock"} ->
                 IF called THEN {"tool_use"} ELSE {"end_turn", "max_tokens"}
          [] OTHER -> IF called THEN {"tool_calls"} ELSE {"stop", "length"}

AnswersWith(kinds, stop) ==
    /\ native' = [blocks |-> Native(kinds), stop |-> stop]
    /\ made' = made + Len(kinds)

\* The upstream answers a first request, or one of the loop.
Respond ==
    /\ stage \in {"asked", "asked again"}
    /\ ~setting.streaming
    /\ \E kinds \in Answers : \E stop \in Reasons(kinds) :
          /\ AnswersWith(kinds, stop)
          /\ answer' = TranslateResponse(Provider, [blocks |-> Native(kinds), stop |-> stop])
    /\ rounds' = IF stage = "asked" THEN 0 ELSE rounds + 1
    /\ stage' = "looping"
    /\ UNCHANGED <<conv, setting, request, offered, body, ran, refused, events, pieces, acc>>

\* It answers with an error, which ends the request; in the loop, where no
\* answer at all may come, either the error or the answer before is passed on.
Fail ==
    /\ stage \in {"asked", "asked again"}
    /\ answer' \in IF stage = "asked" THEN {NoAnswer} ELSE {NoAnswer, answer}
    /\ stage' = "replied"
    /\ UNCHANGED <<conv, setting, request, offered, body, rounds, ran, refused,
                   events, pieces, acc, native, made>>

-----------------------------------------------------------------------------
\* The loop

\* has_mcp_tool_calls: the reason must say so.
WantsMcp ==
    /\ setting.mcp
    /\ answer.finish = "tool_calls"
    /\ \E i \in DOMAIN answer.calls : IsMcp(answer.calls[i])

McpCalls == {c \in ToSet(answer.calls) : IsMcp(c)}

CallsPermitted == Only(answer.calls, {c \in McpCalls : Permitted(c.tool)})

CallsDenied == Only(answer.calls, {c \in McpCalls : ~Permitted(c.tool)})

\* The calls are not looked at again after the last iteration; when all of
\* them are denied, the answer goes to the client as it is.
Leave ==
    /\ stage = "looping"
    /\ ~WantsMcp \/ rounds = MaxIterations \/ CallsPermitted = <<>>
    /\ refused' = IF WantsMcp /\ rounds < MaxIterations
                  THEN refused \cup {c.tool : c \in ToSet(CallsDenied)} ELSE refused
    /\ stage' = "replied"
    /\ UNCHANGED <<conv, setting, request, offered, body, answer, rounds, ran,
                   events, pieces, acc, native, made>>

Result(c) == Message("tool", "string", <<"text">>, <<>>, c.id, c.tool)

Texts == [i \in DOMAIN answer.texts |-> "text"]

AssistantMessage == Message("assistant", "string", Texts, answer.calls, None, None)

\* execute_mcp_tool_calls and build_continuation_body. What the tools did is
\* not told apart: a result, an error or a refusal by the guardrail is text.
Continue ==
    /\ stage = "looping"
    /\ WantsMcp
    /\ rounds < MaxIterations
    /\ CallsPermitted # <<>>
    /\ ran' = ran \cup {c.tool : c \in ToSet(CallsPermitted)}
    /\ refused' = refused \cup {c.tool : c \in ToSet(CallsDenied)}
    /\ body' = body \o <<AssistantMessage>>
                    \o [i \in DOMAIN CallsPermitted |-> Result(CallsPermitted[i])]
                    \o [i \in DOMAIN CallsDenied |-> Result(CallsDenied[i])]
    /\ request' = Request("openai", Len(SelectSeq(body', System)), OpenAITurns(body'))
    /\ offered' = {}
    /\ stage' = "asked again"
    /\ UNCHANGED <<conv, setting, answer, rounds, events, pieces, acc, native, made>>

-----------------------------------------------------------------------------
\* Streams

Stream ==
    /\ stage = "asked"
    /\ setting.streaming
    /\ \E kinds \in Answers : \E stop \in Reasons(kinds) :
          /\ AnswersWith(kinds, stop)
          /\ events' = Events(Provider, [blocks |-> Native(kinds), stop |-> stop])
    /\ pieces' = 0
    /\ acc' = Empty
    /\ stage' = "streaming"
    /\ UNCHANGED <<conv, setting, request, offered, body, answer, rounds, ran, refused>>

\* A chunk brings some events; the client reads their translation up to [DONE].
Chunk ==
    /\ stage = "streaming"
    /\ events # <<>>
    /\ \E n \in 1..Len(events) :
          /\ acc' = PushAll(acc, TranslateChunk(Provider, SubSeq(events, 1, n)))
          /\ events' = SubSeq(events, n + 1, Len(events))
    /\ pieces' = pieces + 1
    /\ UNCHANGED <<conv, setting, stage, request, offered, body, answer, rounds,
                   ran, refused, native, made>>

StreamEnds ==
    /\ stage = "streaming"
    /\ events = <<>>
    /\ answer' = Finish(acc)
    /\ stage' = "replied"
    /\ UNCHANGED <<conv, setting, request, offered, body, rounds, ran, refused,
                   events, pieces, acc, native, made>>

-----------------------------------------------------------------------------
\* The client

Called(c) == IF setting.streaming THEN Block("call", c.id, c.names[1]) ELSE c

Requests == Len(SelectSeq(conv, LAMBDA m : m.role = "assistant")) + 1

\* It adds the answer, and a result for every call in it or else what its user
\* says next; what was of this request is gone.
Reply ==
    /\ stage = "replied"
    /\ IF answer = NoAnswer \/ Requests = MaxRequests
       THEN stage' = "over" /\ UNCHANGED conv
       ELSE LET calls == [i \in DOMAIN answer.calls |-> Called(answer.calls[i])]
                form  == IF answer.texts = <<>> THEN "absent" ELSE "string"
            IN  /\ stage' = "client"
                /\ conv' = conv \o <<Message("assistant", form, Texts, calls, None, None)>>
                       \o (IF calls = <<>> THEN <<Message("user", "string", <<"text">>, <<>>, None, None)>>
                           ELSE [i \in DOMAIN calls |-> Result(calls[i])])
    /\ request' = NoRequest
    /\ offered' = {}
    /\ body' = <<>>
    /\ answer' = NoAnswer
    /\ rounds' = 0
    /\ ran' = {}
    /\ refused' = {}
    /\ pieces' = 0
    /\ acc' = Empty
    /\ native' = NoNative
    /\ UNCHANGED <<setting, events, made>>

Next ==
    \/ Ask \/ Respond \/ Fail
    \/ Leave \/ Continue
    \/ Stream \/ Chunk \/ StreamEnds
    \/ Reply

Spec == Init /\ [][Next]_vars

-----------------------------------------------------------------------------
\* Properties

CallsBefore(turns, i) ==
    UNION {{b \in ToSet(turns[j].blocks) : b.kind = "call"} : j \in 1..i - 1}

Answered(turns) ==
    \A i \in DOMAIN turns : \A b \in ToSet(turns[i].blocks) :
        b.kind = "result" => \E c \in CallsBefore(turns, i) : c.id = b.id

\* In what goes to a provider that speaks of calls by id, first request or
\* continuation, every result is that of a call before it, and every call of
\* an MCP tool that the gateway took up has its result (translate_request,
\* build_continuation_body). Anthropic's calls are lost (see the README).
ResultsAnswerCalls ==
    request.format \in {"openai", "bedrock"} =>
        /\ Answered(request.turns)
        /\ stage = "asked again" => AllAnswered(McpCalls, body)

\* A tool that the token's list blocks is not run, whoever offered it or made
\* the model call it, and so is none outside the list of the allowed ones
\* (filter_mcp_tool_calls).
Blocks(tool) ==
    \/ setting.blocked # None /\ \E p \in setting.blocked : Matches(p, "double", tool)
    \/ setting.allowed # None /\ \A p \in setting.allowed : ~Matches(p, "double", tool)

BlockedNeverRuns == \A t \in ran : ~Blocks(t)

\* A streamed answer, put together by the client from however many chunks,
\* has the texts, calls and reason of the provider's answer; of a Gemini
\* stream this holds only when it comes in one chunk, as the client reads no
\* further than the [DONE] that every chunk ends with (translate_*_sse,
\* StreamAccumulator).
StreamAgrees ==
    (stage = "replied" /\ setting.streaming /\ answer # NoAnswer
       /\ (Provider = "gemini" => pieces = 1)) =>
        /\ answer.texts = OfKind(native.blocks, "text")
        /\ LET calls == OfKind(native.blocks, "call")
           IN  /\ Len(answer.calls) = Len(calls)
               /\ \A i \in DOMAIN calls :
                     answer.calls[i] = [id |-> calls[i].id, names |-> <<calls[i].tool>>,
                                        arguments |-> <<calls[i].id>>]
        /\ answer.finish = TranslateResponse(Provider, native).finish
              \/ native.stop = "RECITATION"

\* A tool that was offered to the model is run when the model calls it.
OfferedNeverRefused == \A t \in refused : Blocks(t)

\* A result goes to Gemini under the name of the function that was called.
GeminiNamesRight ==
    request.format = "gemini" =>
        LET results == FlattenSeq([i \in DOMAIN request.turns |->
                                      OfKind(request.turns[i].blocks, "result")])
            told    == SelectSeq(conv, LAMBDA m : m.role = "tool")
        IN  stage = "asked" => \A i \in DOMAIN results : results[i].tool = told[i].tool

\* Anthropic is sent the call that a result answers.
AnthropicCallsKept == request.format = "anthropic" => Answered(request.turns)

=============================================================================
