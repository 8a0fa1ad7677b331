---------------------------- MODULE ModelRouter ----------------------------
(***************************************************************************)
(* The translations between the OpenAI dialect that clients speak and the  *)
(* dialects of Anthropic, Gemini and Bedrock (proxy/model_router): of a    *)
(* conversation, of an answer, and of the events of a streamed answer,     *)
(* which are translated as they come; and the accumulator that puts the    *)
(* translated events together again (proxy/stream.rs), as an OpenAI client *)
(* does. Texts, arguments and the parameters that are only renamed are     *)
(* left out. "openai" stands for every provider that needs no translation. *)
(***************************************************************************)
EXTENDS Naturals, Sequences, SequencesExt, FiniteSets

CONSTANTS
    Family,  \* the providers whose names for their models are known: [names -> providers]
    Hosted,  \* the providers whose hosts are known: [hosts -> providers]
    None

\* The name of the model decides, and the host only when that is unknown.
DetectProvider(model, host) ==
    IF model \in DOMAIN Family THEN Family[model]
    ELSE IF host \in DOMAIN Hosted THEN Hosted[host]
    ELSE "unknown"

Translated == {"anthropic", "gemini", "bedrock"}

\* What a message or an answer is made of: texts, images, calls of tools, and
\* the results of calls. A text has an id to tell it from others; a call has
\* the id by which its result names it.
Block(kind, id, tool) == [kind |-> kind, id |-> id, tool |-> tool]

\* Those of the elements of s that are in the set, in their order. (The provers
\* know FlattenSeq, but not SelectSeq.)
Only(s, set) == FlattenSeq([i \in DOMAIN s |-> IF s[i] \in set THEN <<s[i]>> ELSE <<>>])

OfKind(blocks, kind) == Only(blocks, {b \in ToSet(blocks) : b.kind = kind})

Turn(role, blocks) == [role |-> role, blocks |-> blocks]

\* A turn is left out when nothing is in it.
UnlessEmpty(role, blocks) == IF blocks = <<>> THEN <<>> ELSE <<Turn(role, blocks)>>

-----------------------------------------------------------------------------
\* Conversations. A message of the client has parts, of the kinds text, data
\* (an image in the message) and link (one elsewhere), which it writes as one
\* string, as an array, or not at all; a message of the assistant has calls
\* besides; one of a tool has a result, and the id of the call it answers.

Parts(m, as) == [i \in DOMAIN m.parts |-> Block(as[m.parts[i]], None, None)]

System(m) == m.role = "system"

\* System messages written as arrays are lost: only strings are taken.
Instructions(messages) ==
    SelectSeq(messages, LAMBDA m : System(m) /\ m.form = "string")

AnthropicParts == [text |-> "text", data |-> "image", link |-> "image"]

\* The calls of the assistant's messages are not translated.
AnthropicTurns(messages) ==
    FlattenSeq([i \in DOMAIN messages |->
        LET m == messages[i]
        IN  CASE System(m) -> <<>>
              [] m.role \in {"user", "assistant"} ->
                     <<Turn(m.role, Parts(m, AnthropicParts))>>
              [] m.role = "tool" -> <<Turn("user", <<Block("result", m.answers, None)>>)>>])

GeminiParts == [text |-> "text", data |-> "inlineData", link |-> "fileData"]

\* A message without content has an empty text.
GeminiContent(m) ==
    IF m.form = "absent" THEN <<Block("text", None, None)>> ELSE Parts(m, GeminiParts)

\* Gemini has no ids: a result goes under the name of its function, which is
\* that of the first call with the id, in any message.
FunctionName(messages, id) ==
    LET calls == FlattenSeq([i \in DOMAIN messages |-> messages[i].calls])
        first == SelectInSeq(calls, LAMBDA c : c.id = id)
    IN  IF first = 0 THEN None ELSE calls[first].tool

GeminiTurns(messages) ==
    FlattenSeq([i \in DOMAIN messages |->
        LET m == messages[i]
        IN  CASE System(m) -> <<>>
              [] m.role = "user"      -> UnlessEmpty("user", GeminiContent(m))
              [] m.role = "assistant" -> UnlessEmpty("model", GeminiContent(m))
              [] m.role = "tool" ->
                     <<Turn("user", <<Block("result", None, FunctionName(messages, m.answers))>>)>>])

BedrockParts == [text |-> "text", data |-> "image", link |-> "text"]

\* Mutant: nor are they for Bedrock.
BedrockTurns_NoCalls(messages) ==
    FlattenSeq([i \in DOMAIN messages |->
        LET m == messages[i]
        IN  CASE System(m) -> <<>>
              [] m.role \in {"user", "assistant"} -> UnlessEmpty(m.role, Parts(m, BedrockParts))
              [] m.role = "tool" -> <<Turn("user", <<Block("result", m.answers, None)>>)>>])

BedrockTurns(messages) ==
    FlattenSeq([i \in DOMAIN messages |->
        LET m == messages[i]
        IN  CASE System(m) -> <<>>
              [] m.role \in {"user", "assistant"} ->
                     UnlessEmpty(m.role, Parts(m, BedrockParts) \o m.calls)
              [] m.role = "tool" -> <<Turn("user", <<Block("result", m.answers, None)>>)>>])

\* A conversation in the client's own dialect.
OpenAITurns(messages) ==
    [i \in DOMAIN messages |->
        LET m == messages[i]
        IN  Turn(m.role, IF m.role = "tool" THEN <<Block("result", m.answers, None)>>
                         ELSE [j \in DOMAIN m.parts |-> Block(m.parts[j], None, None)] \o m.calls)]

Request(format, system, turns) == [format |-> format, system |-> system, turns |-> turns]

TranslateRequest(provider, messages) ==
    CASE provider = "anthropic" ->
             Request(provider, Len(Instructions(messages)), AnthropicTurns(messages))
      [] provider = "gemini" ->
             Request(provider, Len(Instructions(messages)), GeminiTurns(messages))
      [] provider = "bedrock" ->
             Request(provider, Len(Instructions(messages)), BedrockTurns(messages))
      [] OTHER ->
             Request("openai", Len(SelectSeq(messages, System)), OpenAITurns(messages))

-----------------------------------------------------------------------------
\* Answers: the blocks of the model's message, and why it stopped

Stops(provider) ==
    CASE provider = "anthropic" ->
             [end_turn |-> "stop", tool_use |-> "tool_calls", max_tokens |-> "length"]
      [] provider = "gemini" ->
             [STOP |-> "stop", MAX_TOKENS |-> "length", SAFETY |-> "content_filter",
              RECITATION |-> "content_filter"]
      [] provider = "bedrock" ->
             [end_turn |-> "stop", tool_use |-> "tool_calls", max_tokens |-> "length",
              content_filtered |-> "content_filter", guardrail_intervened |-> "content_filter"]
      [] OTHER ->
             [stop |-> "stop", tool_calls |-> "tool_calls", length |-> "length"]

\* Gemini's calls are numbered anew in every answer.
Numbered(calls) == [i \in DOMAIN calls |-> [calls[i] EXCEPT !.id = <<"call", i - 1>>]]

\* Anthropic and Gemini: only the first text.
FirstOf(texts) == IF texts = <<>> THEN <<>> ELSE <<texts[1]>>

Answer(texts, calls, finish) == [texts |-> texts, calls |-> calls, finish |-> finish]

AnthropicResponse(a) ==
    Answer(FirstOf(OfKind(a.blocks, "text")), OfKind(a.blocks, "call"), Stops("anthropic")[a.stop])

GeminiResponse(a) ==
    Answer(FirstOf(OfKind(a.blocks, "text")), Numbered(OfKind(a.blocks, "call")),
           Stops("gemini")[a.stop])

BedrockResponse(a) ==
    Answer(OfKind(a.blocks, "text"), OfKind(a.blocks, "call"), Stops("bedrock")[a.stop])

TranslateResponse(provider, a) ==
    CASE provider = "anthropic" -> AnthropicResponse(a)
      [] provider = "gemini"    -> GeminiResponse(a)
      [] provider = "bedrock"   -> BedrockResponse(a)
      [] OTHER -> Answer(OfKind(a.blocks, "text"), OfKind(a.blocks, "call"),
                         Stops("openai")[a.stop])

-----------------------------------------------------------------------------
\* Streamed answers. An event has a kind, the index of its block, the block,
\* and why the model stopped; a delta, the translation, likewise.

Event(kind, index, block, stop) ==
    [kind |-> kind, index |-> index, block |-> block, stop |-> stop]

Signal(kind) == Event(kind, 0, None, None)

\* A call has a start and a delta with its arguments; a text has deltas.
BlockEvents(blocks) ==
    FlattenSeq([i \in DOMAIN blocks |->
        IF blocks[i].kind = "call"
        THEN <<Event("start", i - 1, blocks[i], None), Event("delta", i - 1, blocks[i], None)>>
        ELSE <<Event("delta", i - 1, blocks[i], None)>>])

\* What each provider sends: Gemini sends a part per event, and the reason
\* with the last one; the others begin and end the message.
Events(provider, a) ==
    LET last == Len(a.blocks)
    IN  IF provider = "gemini"
        THEN [i \in DOMAIN a.blocks |->
                 Event("part", 0, a.blocks[i], IF i = last THEN a.stop ELSE None)]
        ELSE <<Signal("message")>> \o BlockEvents(a.blocks)
                 \o <<Event("stopping", 0, None, a.stop), Signal("end")>>

\* Mutant: the arguments of a call go to the first one.
Delta_First(index, e) ==
    IF e.block.kind = "text" THEN <<Event("text", 0, e.block, None)>>
    ELSE <<Event("arguments", 0, e.block, None)>>

Delta(index, e) ==
    IF e.block.kind = "text" THEN <<Event("text", 0, e.block, None)>>
    ELSE <<Event("arguments", index, e.block, None)>>

Done == Signal("done")

\* Anthropic's, Bedrock's and OpenAI's events, each for itself; an index is
\* that of the block in the message, texts counted. Bedrock's end comes with
\* the reason.
MessageDeltas(provider, e) ==
    CASE e.kind = "message"  -> <<Signal("role")>>
      [] e.kind = "start"    -> <<Event("call", e.index, e.block, None)>>
      [] e.kind = "delta"    -> Delta(e.index, e)
      [] e.kind = "stopping" -> <<Event("finish", 0, None,
                                        IF e.stop = "guardrail_intervened" THEN "stop"
                                        ELSE Stops(provider)[e.stop])>>
                                \o (IF provider = "bedrock" THEN <<Done>> ELSE <<>>)
      [] e.kind = "end"      -> IF provider = "bedrock" THEN <<>> ELSE <<Done>>

\* Gemini's: the calls are numbered, and [DONE] is put at the end, in every
\* chunk anew.
GeminiDeltas(events) ==
    LET Index(i) == Cardinality({j \in 1..i - 1 : events[j].block.kind = "call"})
        Part(i)  == IF events[i].block.kind = "text" THEN Delta(0, events[i])
                    ELSE <<Event("call", Index(i), events[i].block, None)>> \o Delta(Index(i), events[i])
        Reason(i) == IF events[i].stop = None THEN <<>>
                     ELSE <<Event("finish", 0, None,
                                  IF events[i].stop = "RECITATION" THEN "stop"
                                  ELSE Stops("gemini")[events[i].stop])>>
    IN  <<Signal("role")>> \o FlattenSeq([i \in DOMAIN events |-> Part(i) \o Reason(i)]) \o <<Done>>

\* A chunk of whole events.
TranslateChunk(provider, events) ==
    IF provider = "gemini" THEN GeminiDeltas(events)
    ELSE FlattenSeq([i \in DOMAIN events |-> MessageDeltas(provider, events[i])])

-----------------------------------------------------------------------------
\* The accumulator: the texts in order, the names, ids and arguments of the
\* calls by index, and the reason, up to [DONE].

Empty == [texts |-> <<>>, calls |-> <<>>, finish |-> None, done |-> FALSE]

\* A call nothing is known of: a gap below a higher index.
Unnamed == [id |-> None, names |-> <<>>, arguments |-> <<>>]

Padded(calls, index) == [i \in 1..(IF Len(calls) > index THEN Len(calls) ELSE index + 1) |->
                            IF i \in DOMAIN calls THEN calls[i] ELSE Unnamed]

Push(acc, d) ==
    LET at == Padded(acc.calls, d.index)
        i  == d.index + 1
    IN  IF acc.done THEN acc
        ELSE CASE d.kind = "text"      -> [acc EXCEPT !.texts = Append(@, d.block)]
               [] d.kind = "call"      -> [acc EXCEPT !.calls =
                      [at EXCEPT ![i].id = d.block.id, ![i].names = Append(@, d.block.tool)]]
               [] d.kind = "arguments" -> [acc EXCEPT !.calls =
                      [at EXCEPT ![i].arguments = Append(@, d.block.id)]]
               [] d.kind = "finish"    -> [acc EXCEPT !.finish = d.stop]
               [] d.kind = "done"      -> [acc EXCEPT !.done = TRUE]
               [] d.kind = "role"      -> acc

PushAll(acc, deltas) ==
    LET pushed[n \in 0..Len(deltas)] == IF n = 0 THEN acc ELSE Push(pushed[n - 1], deltas[n])
    IN  pushed[Len(deltas)]

\* Calls without a name are left out.
Finish(acc) ==
    Answer(acc.texts, Only(acc.calls, {c \in ToSet(acc.calls) : c.names # <<>>}), acc.finish)

=============================================================================
