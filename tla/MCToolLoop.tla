----------------------------- MODULE MCToolLoop -----------------------------
\* Small instances of ToolLoop: two servers with a tool each, and one tool of
\* the client's.
EXTENDS ToolLoop, TLC

CONSTANTS claude, gpt, converse, custom, google, post, find, own

Post == [server |-> "slack", name |-> post]
Find == [server |-> "brave", name |-> find]
Own  == [server |-> None, name |-> own]

MCMcpTools == {Post, Find}
MCOwnTools == {Own}

MCFamily == (claude :> "anthropic") @@ (gpt :> "openai") @@ (converse :> "bedrock")
MCHosted == (google :> "gemini")
MCModels == {claude, gpt, converse, custom}

MCAnswers == {<<Text, Text>>, <<Post>>, <<Text, Own>>, <<Post, Find>>, <<Own, Post>>}

MCOpenings ==
    {<<Message("system", "string", <<"text">>, <<>>, None, None),
       Message("user", "parts", <<"text", "data", "link">>, <<>>, None, None)>>}

Pattern(kind, tool) == [kind |-> kind, tool |-> tool]

MCAllowed == {None, {Pattern("tool", Post)}, {Pattern("prefix", Post)}}
MCBlocked == {None, {Pattern("tool", Find)}}

=============================================================================
