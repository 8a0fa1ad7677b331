----------------------------- MODULE ContentPath -----------------------------
(***************************************************************************)
(* What becomes of the content of one request and its answer in the        *)
(* handler: actions that redact, filter or change it on the way out        *)
(* (middleware/redact.rs, guardrail, pii, external_guardrail.rs), the      *)
(* results of tools that are added to it, the sanitization of the answer   *)
(* (sanitize.rs), the actions on the answer, and the copies that the       *)
(* client, the response cache and the audit log get. A text is a set of    *)
(* pieces: what a pattern can tell apart, and where it stands.             *)
(***************************************************************************)
EXTENDS Integers, Sequences, FiniteSets, FiniteSetsExt

CONSTANTS
    Bodies,    \* requests: whether they are JSON with messages, and their text
    Outgoing,  \* lists of actions on requests
    Incoming,  \* lists of actions on answers
    Answers,   \* answers: their form, their text, and the value a schema sees
    ToolTexts, \* texts of results of tools
    MaxLoops   \* bound: rounds of the tool loop

\* A body is JSON or not, and an answer has one of three forms.
IsBody(b) ==
    /\ b = [json |-> b.json, messages |-> b.messages, text |-> b.text]
    /\ b.json \in BOOLEAN

ASSUME ContentAssumption ==
    /\ \A b \in Bodies : IsBody(b)
    /\ \A a \in Answers : a.form \in {"json", "text", "binary"}

VARIABLES
    pc, todo, loops,
    body,      \* parsed_body, or the body as it came
    banned,    \* history: pieces that an action has promised to keep out
    sent,      \* what the provider got last
    answer,
    split,     \* pieces of a streamed answer that no chunk has whole
    forwarded, \* resp_body_vec
    shown,     \* what the client got
    cached,    \* what went into the response cache
    level,     \* log_level of the token, where it is read
    stored     \* what went into the audit row

vars == <<pc, todo, loops, body, banned, sent, answer, split, forwarded, shown, cached,
          level, stored>>

Piece(place, kind) == [place |-> place, kind |-> kind]

\* The names of JSON fields are places too, and no action looks at them.
Strings(text) == {p \in text : p.place # "name"}

Without(text, kinds) == text \ {p \in Strings(text) : p.kind \in kinds}

Nothing == [request |-> {}, answer |-> {}, calls |-> {}]

Init ==
    /\ pc = "acting"
    /\ body \in Bodies
    /\ todo \in Outgoing
    /\ level = 0
    /\ loops = 0
    /\ banned = {}
    /\ answer = [form |-> "none", text |-> {}, value |-> "none"]
    /\ sent = {} /\ split = {} /\ forwarded = {} /\ shown = {} /\ cached = {}
    /\ stored = Nothing

-----------------------------------------------------------------------------
\* Patterns and redaction.

\* What the patterns of a Redact action find: cards only with a valid
\* checksum (a "number" has none), social security numbers only with dashes
\* ("nine" has none). A pattern that does not compile finds nothing.
Covers == [email |-> {"email"}, credit_card |-> {"card"}, ssn |-> {"ssn"},
           phone |-> {"phone"}, invalid |-> {}]

\* The same for the audit log, where the checksum is not looked at.
Logged == {"email", "card", "number", "ssn", "phone"}

\* Answers are cleaned with four patterns of their own.
Sanitized == {"email", "card", "number", "ssn", "nine"}

Covered(a) == UNION {Covers[p] : p \in a.patterns}

Runs(a, phase) == a.direction \in {phase, "both"}

\* Mutant: only the strings of messages are walked.
Redacted_Messages(a, phase, text) ==
    IF Runs(a, phase)
    THEN text \ {p \in Strings(text) : \/ p.kind \in Covered(a) /\ p.place = "content"
                                       \/ p.place \in a.fields}
    ELSE text

\* apply_redact: strings lose what a pattern finds, and fields their value.
Redacted(a, phase, text) ==
    IF Runs(a, phase)
    THEN text \ {p \in Strings(text) : p.kind \in Covered(a) \/ p.place \in a.fields}
    ELSE text

\* A detector knows some of the names of persons.
Detectable(text) == {p \in Strings(text) : p.kind = "person"}

\* Its answer, and {} when it fails: then the patterns have to do.
Detections(a, text) == IF a.nlp THEN SUBSET Detectable(text) ELSE {{}}

-----------------------------------------------------------------------------
\* Content filters.

\* extract_text_content takes what an OpenAI request has to say.
Scanned(text) == {p \in text : p.place \in {"content", "arguments", "tools", "prompt"}}

\* Points of a match, in tenths: for each pattern, or once for a category.
PerPattern == [jailbreak |-> 5, code_injection |-> 5]
PerCategory == [profanity |-> 7, bias |-> 7, sensitive_topics |-> 6, gibberish |-> 5,
                contact_info |-> 5, ip_leakage |-> 6]

\* The category that a pattern for a kind of text belongs to.
Category == [bomb |-> "harmful", dan |-> "jailbreak", aim |-> "jailbreak",
             shell |-> "code_injection", slur |-> "profanity", secret |-> "ip_leakage"]

Matched(f, seen) == {k \in seen \cap DOMAIN Category : Category[k] \in f.categories}

\* Denied topics, names of competitors and custom patterns count alike.
Score(f, seen, length) ==
    LET found == {Category[k] : k \in Matched(f, seen)}
    IN  Min({10,
        MapThenSumSet(LAMBDA k : IF Category[k] \in DOMAIN PerPattern
                                 THEN PerPattern[Category[k]] ELSE 0, Matched(f, seen))
        + MapThenSumSet(LAMBDA c : PerCategory[c], found \cap DOMAIN PerCategory)
        + 6 * Cardinality(seen \cap f.denied)
        + (IF f.allowed # {} /\ seen \cap f.allowed = {} THEN 6 ELSE 0)
        + (IF f.max > 0 /\ length > f.max THEN 3 ELSE 0)})

\* check_content: harmful content at once, everything else by its score.
Blocked(f, text) ==
    LET seen  == {p.kind : p \in Scanned(text)}
        score == Score(f, seen, Cardinality(Scanned(text)))
    IN  \/ "harmful" \in {Category[k] : k \in Matched(f, seen)}
        \/ seen # {} /\ score > 0 /\ score >= f.threshold

-----------------------------------------------------------------------------
\* External guardrails. A reply has scores, in tenths, one for each label, and
\* a verdict of the vendor's own, which may be missing, as the scores may.

Worst(reply) == Max(reply.scores \cup {0})

\* Azure and AWS: the highest severity, or score of the first segment.
Severe(threshold, reply) == Worst(reply) >= threshold

\* LlamaGuard says "safe" or "unsafe": there is no score.
Unsafe(reply) == reply.says = "bad"

\* Palo Alto: its own decision, or a risk that is high enough.
Risky(threshold, reply) == reply.says = "bad" \/ Worst(reply) >= threshold

\* Prompt Security: its own decision, if it is sure enough.
SurelyUnsafe(threshold, reply) == reply.says = "bad" /\ Worst(reply) >= threshold

Verdict(vendor, threshold, reply) ==
    \/ vendor \in {"azure", "aws"}  /\ Severe(threshold, reply)
    \/ vendor = "llama"             /\ Unsafe(reply)
    \/ vendor = "palo_alto"         /\ Risky(threshold, reply)
    \/ vendor = "prompt_security"   /\ SurelyUnsafe(threshold, reply)

\* check_with_timeout, for requests only, takes thresholds to lie in 0..1.
Clamped(threshold) == IF threshold > 10 THEN 10 ELSE threshold

Replies == [scores : {{}, {4}, {4, 20}, {60}}, says : {"fine", "bad", "nothing"}]

-----------------------------------------------------------------------------
\* Actions on the request.

Act(kind) == pc = "acting" /\ todo # <<>> /\ Head(todo).kind = kind /\ todo' = Tail(todo)

Rest == UNCHANGED <<loops, sent, answer, split, forwarded, shown, cached, level, stored>>

Refuse == pc' = "refused" /\ UNCHANGED <<body, banned>>

\* What the action promises of a body that it can read.
Promise(a) ==
    {Piece(p, k) : p \in {"content", "arguments", "tools", "prompt", "system", "user"},
                   k \in Covered(a)}

\* Tokenize, the third way to deal with a match, is dealt with as Redact. What
\* only the detector finds is replaced, but does not block.
Redact ==
    /\ Act("redact")
    /\ LET a    == Head(todo)
           text == Redacted(a, "request", body.text)
       IN  IF ~ body.json THEN UNCHANGED <<pc, body, banned>>
           ELSE IF a.block /\ text # body.text THEN Refuse
           ELSE \E found \in Detections(a, text) :
                   /\ body' = [body EXCEPT !.text = text \ found]
                   /\ banned' = banned \cup (IF Runs(a, "request") THEN Promise(a) ELSE {})
                   /\ UNCHANGED pc
    /\ Rest

Filter ==
    /\ Act("filter")
    /\ IF body.json /\ Blocked(Head(todo), body.text) THEN Refuse
       ELSE /\ banned' = banned \cup
                  (IF body.json /\ "harmful" \in Head(todo).categories
                   THEN {Piece(p, "bomb") : p \in {"content", "arguments", "tools", "prompt"}}
                   ELSE {})
            /\ UNCHANGED <<pc, body>>
    /\ Rest

\* A prompt is added to the messages, or else to the field "system", and a
\* message only to messages. Fields are set and removed, and texts replaced.
Transformed(op, b) ==
    CASE op.what = "prompt"  ->
             b.text \cup {Piece(IF b.messages THEN "content" ELSE "system", op.text)}
      [] op.what = "message" -> b.text \cup {Piece("content", op.text) : x \in {y \in {1} : b.messages}}
      [] op.what = "set"     -> {p \in b.text : p.place # op.place} \cup {Piece(op.place, op.text)}
      [] op.what = "remove"  -> {p \in b.text : p.place # op.place}
      [] op.what = "replace" ->
             {p \in b.text : p \notin Strings(b.text) \/ p.kind # op.from}
             \cup {Piece(p.place, op.text) : p \in {q \in Strings(b.text) : q.kind = op.from}}

\* Transform, one operation at a time, and Override, which sets a field.
Transform ==
    /\ Act("transform")
    /\ IF body.json
       THEN /\ body' = [body EXCEPT !.text = Transformed(Head(todo), body)]
            /\ banned' = banned \ (body'.text \ body.text)
       ELSE UNCHANGED <<body, banned>>
    /\ UNCHANGED pc
    /\ Rest

\* The vendor gets the whole body, or nothing when that is not JSON. It may
\* fail: no answer in time, a status of failure, a reply that is not JSON.
ExternalGuardrail ==
    /\ Act("guardrail")
    /\ LET a == Head(todo)
       IN  \/ \E reply \in Replies :
                 IF Verdict(a.vendor, Clamped(a.threshold), reply) /\ a.onFail # "log"
                 THEN Refuse ELSE UNCHANGED <<pc, body, banned>>
           \/ IF a.onError = "deny" THEN Refuse ELSE UNCHANGED <<pc, body, banned>>
    /\ Rest

Send ==
    /\ pc = "acting"
    /\ todo = <<>>
    /\ sent' = body.text
    /\ pc' = "sent"
    /\ UNCHANGED <<todo, loops, body, banned, answer, split, forwarded, shown, cached, level, stored>>

-----------------------------------------------------------------------------
\* The answer.

Receive ==
    /\ pc = "sent"
    /\ answer' \in Answers
    /\ forwarded' = answer'.text
    /\ pc' = "received"
    /\ UNCHANGED <<todo, loops, body, banned, sent, split, shown, cached, level, stored>>

\* The provider asks for a tool: the answer and the result go back to it with
\* all the messages, and no action sees them.
Continue ==
    /\ pc = "received"
    /\ answer.form = "json"
    /\ body.json /\ body.messages
    /\ loops < MaxLoops
    /\ loops' = loops + 1
    /\ \E result \in ToolTexts :
          LET said  == {Piece(IF p.place = "calls" THEN "arguments" ELSE "content", p.kind) :
                            p \in Strings(answer.text)}
              added == said \cup {Piece("content", k) : k \in result}
          IN  /\ body' = [body EXCEPT !.text = @ \cup added]
              /\ banned' = banned \ added
              /\ sent' = body'.text
    /\ pc' = "sent"
    /\ UNCHANGED <<todo, answer, split, forwarded, shown, cached, level, stored>>

\* Mutant: the body that the actions have changed.
Clean_Forwarded(a) == forwarded

\* sanitize_response: every string of a JSON body, all of another text.
Clean(a) ==
    CASE a.form = "json"   -> Without(a.text, Sanitized)
      [] a.form = "text"   -> {p \in a.text : p.kind \notin Sanitized}
      [] a.form = "binary" -> a.text

\* A stream is cleaned chunk by chunk; nothing of it is kept but its calls.
Stream ==
    /\ pc = "received"
    /\ answer.form = "json"
    /\ split' \in SUBSET Strings(answer.text)
    /\ shown' = Without(answer.text, Sanitized) \cup split'
    /\ stored' = [Nothing EXCEPT !.calls = {p \in answer.text : p.place = "calls"}]
    /\ pc' = "over"
    /\ UNCHANGED <<todo, loops, body, banned, sent, answer, forwarded, cached, level>>

\* The sanitized body is put aside, and the actions go on with the answer.
Sanitize ==
    /\ pc = "received"
    /\ todo' \in Incoming
    /\ pc' = "screening"
    /\ UNCHANGED <<loops, body, banned, sent, answer, split, forwarded, shown, cached, level, stored>>

Screen(kind) == pc = "screening" /\ todo # <<>> /\ Head(todo).kind = kind /\ todo' = Tail(todo)

Kept == UNCHANGED <<loops, body, banned, sent, answer, split, shown, cached, level, stored>>

Parsed == answer.form = "json"

\* Each redaction and each transformation begins with the answer as it came,
\* and only the body that is not sent is changed.
RedactAnswer ==
    /\ Screen("redact")
    /\ LET a    == Head(todo)
           text == Redacted(a, "response", answer.text)
       IN  \E found \in IF Parsed THEN Detections(a, text) ELSE {{}} :
              forwarded' = IF Parsed /\ text \ found # answer.text THEN text \ found ELSE forwarded
    /\ UNCHANGED pc
    /\ Kept

TransformAnswer ==
    /\ Screen("transform")
    /\ forwarded' = IF Parsed THEN Transformed(Head(todo), [text |-> answer.text, messages |-> FALSE])
                    ELSE forwarded
    /\ UNCHANGED pc
    /\ Kept

Suppress(when) == pc' = (IF when THEN "suppressed" ELSE pc) /\ UNCHANGED forwarded /\ Kept

FilterAnswer ==
    /\ Screen("filter")
    /\ Suppress(Parsed /\ Blocked(Head(todo), answer.text))

\* A schema that does not compile holds of nothing.
ValidateSchema ==
    /\ Screen("schema")
    /\ Suppress(Parsed /\ (answer.value \in Head(todo).accepts) = Head(todo).not)

\* The vendor gets the answer; the threshold is taken as it is.
GuardAnswer ==
    /\ Screen("guardrail")
    /\ LET a == Head(todo)
       IN  \/ \E reply \in Replies : Suppress(Verdict(a.vendor, a.threshold, reply) /\ a.onFail # "log")
           \/ Suppress(a.onError = "deny")

\* redact_for_logging
ForLogging(l, json, text) ==
    CASE l = 0 \/ ~ json -> {}
      [] l = 1 /\ json -> Without(text, Logged)
      [] l = 2 /\ json -> text

Respond ==
    /\ pc = "screening"
    /\ todo = <<>>
    /\ shown' = Clean(answer)
    /\ cached' = Clean(answer)
    /\ level' \in 0..2
    /\ stored' = [request |-> ForLogging(level', body.json, body.text),
                  answer  |-> ForLogging(level', Parsed, answer.text),
                  calls   |-> {p \in answer.text : p.place = "calls"}]
    /\ pc' = "over"
    /\ UNCHANGED <<todo, loops, body, banned, sent, answer, split, forwarded>>

Next ==
    \/ Redact \/ Filter \/ Transform \/ ExternalGuardrail \/ Send
    \/ Receive \/ Continue \/ Stream \/ Sanitize
    \/ RedactAnswer \/ TransformAnswer \/ FilterAnswer \/ ValidateSchema \/ GuardAnswer \/ Respond

Spec == Init /\ [][Next]_vars

-----------------------------------------------------------------------------
\* Properties

\* README.md: patterns "are stripped before the request reaches the model".
\* Of a JSON body, what a Redact action covers or a filter calls harmful does
\* not reach the provider, in the first request or in one of the tool loop,
\* unless a later action, the provider or a tool has added it.
SentIsClean == sent \cap banned = {}

\* What the patterns for answers find reaches neither the client nor the
\* cache, whatever the actions on the answer have done; in a stream, only what
\* is split between chunks does.
ShownIsClean ==
    answer.form # "binary" =>
        {p \in Strings(shown \cup cached) : p.kind \in Sanitized} \subseteq split

\* core.rs: "Level 1: Run PII scrubbers on bodies". Below level 2 an audit row
\* has no body with a piece that a pattern finds.
LoggedIsClean ==
    level < 2 => \A p \in Strings(stored.request \cup stored.answer) : p.kind \notin Logged

\* Every copy that is made of an answer or of a request is clean: the one the
\* client gets, the one that is cached and the one that is kept.
CopiesClean == ShownIsClean /\ LoggedIsClean

\* core.rs: "Scan the LLM response for jailbreak/harmful content".
HarmfulSuppressed ==
    pc = "screening" /\ todo # <<>> /\ Head(todo).kind = "filter"
    /\ "harmful" \in Head(todo).categories /\ "bomb" \in {p.kind : p \in answer.text}
    => Blocked(Head(todo), answer.text)

\* What the client may not see is not kept below level 2.
StoredOnlyIfShown == pc = "over" /\ level < 2 => stored.answer \cup stored.calls \subseteq shown

=============================================================================
