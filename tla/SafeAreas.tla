------------------------------ MODULE SafeAreas ------------------------------
(***************************************************************************)
(* Parts of the gateway that tasks share a store, a cache or rows in, side *)
(* by side: sessions, prompts, API keys, logins, tokens and tools of MCP   *)
(* servers, secrets, config as code, policies, prices, organizations,      *)
(* experiments, realtime sessions and binary streams, and the text of      *)
(* requests and answers (ContentPath), which has its own names here; the   *)
(* others' are renamed where they would meet.                              *)
(* Then what each of them keeps, and the proofs of it, for any callers,    *)
(* rows and bounds.                                                        *)
(***************************************************************************)
EXTENDS ContentPath, FiniteSetTheorems, FunctionTheorems, SequenceTheorems,
        WellFoundedInduction, TLAPS

CONSTANTS Jwt, NoCap, None

-----------------------------------------------------------------------------
\* The content of requests and answers, for any of them, any results of tools
\* and lists of actions, and any number of rounds: the body keeps every
\* promise made so far, not only what was last sent, and until the end there is
\* no copy of anything.
ContentInv ==
    /\ IsBody(body)
    /\ body.text \cap banned = {}
    /\ sent \cap banned = {}
    /\ pc = "acting" => sent = {}
    /\ pc \in {"received", "screening"} => answer \in Answers
    /\ pc # "over" => shown = {} /\ cached = {} /\ stored = Nothing
    /\ CopiesClean

\* Removing what a pattern finds removes what was promised of it.
LEMMA RedactedKeeps ==
  ASSUME NEW a, NEW text, Runs(a, "request")
  PROVE  Redacted(a, "request", text) \cap Promise(a) = {}
<1>. SUFFICES ASSUME NEW q \in Redacted(a, "request", text), q \in Promise(a)
              PROVE  FALSE
  OBVIOUS
<1>1. PICK p \in {"content", "arguments", "tools", "prompt", "system", "user"}, k \in Covered(a) :
         q = Piece(p, k)
  BY DEF Promise
<1>2. q.place # "name" /\ q.kind \in Covered(a)
  BY <1>1 DEF Piece
<1>. QED
  BY <1>2 DEF Redacted, Strings

\* A filter that looks for harm and lets a text pass has found none.
LEMMA PassedIsHarmless ==
  ASSUME NEW f, "harmful" \in f.categories, NEW text, ~Blocked(f, text),
         NEW place \in {"content", "arguments", "tools", "prompt"}
  PROVE  Piece(place, "bomb") \notin text
<1>. SUFFICES ASSUME Piece(place, "bomb") \in text
              PROVE  FALSE
  OBVIOUS
<1>. DEFINE met == {p.kind : p \in Scanned(text)}
<1>1. "bomb" \in met
  BY DEF Scanned, Piece
<1>2. "bomb" \in Matched(f, met) /\ Category["bomb"] = "harmful"
  BY <1>1 DEF Matched, Category
<1>3. "harmful" \in {Category[k] : k \in Matched(f, met)}
  BY <1>2
<1>. QED
  BY <1>3, Zenon DEF Blocked

\* A text without what a pattern finds has no string that it finds.
LEMMA WithoutNone ==
  ASSUME NEW text, NEW kinds, NEW p \in Strings(Without(text, kinds))
  PROVE  p.kind \notin kinds
BY DEF Without, Strings

\* The actions on the request: what one promises the body keeps from then on.
LEMMA ActionsKeepInv ==
  ASSUME ContentInv, Redact \/ Filter \/ Transform \/ ExternalGuardrail
  PROVE  ContentInv'
<1>1. /\ pc = "acting" /\ pc' \in {"acting", "refused"}
      /\ UNCHANGED <<sent, answer, split, shown, cached, level, stored>>
  BY DEF Redact, Filter, Transform, ExternalGuardrail, Act, Rest, Refuse
<1>2. sent' = {} /\ shown' = {} /\ cached' = {} /\ stored' = Nothing /\ CopiesClean'
  BY <1>1 DEF ContentInv, CopiesClean, ShownIsClean, LoggedIsClean, Strings, Nothing
<1>. SUFFICES IsBody(body)' /\ body'.text \cap banned' = {}
  BY <1>1, <1>2 DEF ContentInv
<1>3. ASSUME body' = body, banned' = banned
      PROVE  IsBody(body)' /\ body'.text \cap banned' = {}
  BY <1>3 DEF ContentInv, IsBody
<1>4. ASSUME NEW text, body' = [body EXCEPT !.text = text]
      PROVE  IsBody(body)' /\ body'.text = text
  BY <1>4 DEF ContentInv, IsBody
<1>5. CASE Redact
  <2>. DEFINE a == Head(todo)
              text == Redacted(a, "request", body.text)
  <2>1. ASSUME NEW gone, body' = [body EXCEPT !.text = text \ gone],
               banned' = banned \cup (IF Runs(a, "request") THEN Promise(a) ELSE {})
        PROVE  IsBody(body)' /\ body'.text \cap banned' = {}
    <3>1. IsBody(body)' /\ body'.text = text \ gone
      BY <1>4, <2>1
    <3>2. text \subseteq body.text
      BY DEF Redacted
    <3>3. Runs(a, "request") => text \cap Promise(a) = {}
      BY RedactedKeeps
    <3>. HIDE DEF text, a
    <3>. QED
      BY <2>1, <3>1, <3>2, <3>3 DEF ContentInv
  <2>. HIDE DEF text
  <2>. QED
    BY <1>3, <1>5, <2>1 DEF Redact, Refuse, text
<1>6. CASE Filter
  <2>. DEFINE f == Head(todo)
              harm == {Piece(p, "bomb") : p \in {"content", "arguments", "tools", "prompt"}}
  <2>1. ASSUME ~(body.json /\ Blocked(f, body.text)), body' = body,
               banned' = banned \cup (IF body.json /\ "harmful" \in f.categories THEN harm ELSE {})
        PROVE  IsBody(body)' /\ body'.text \cap banned' = {}
    <3>1. body.json /\ "harmful" \in f.categories => body.text \cap harm = {}
      BY <2>1, PassedIsHarmless
    <3>. HIDE DEF harm, f
    <3>. QED
      BY <2>1, <3>1 DEF ContentInv, IsBody
  <2>. QED
    BY <1>3, <1>6, <2>1 DEF Filter, Refuse
<1>7. CASE Transform
  <2>. DEFINE text == Transformed(Head(todo), body)
  <2>. HIDE DEF text
  <2>1. ASSUME body' = [body EXCEPT !.text = text], banned' = banned \ (body'.text \ body.text)
        PROVE  IsBody(body)' /\ body'.text \cap banned' = {}
    BY <1>4, <2>1 DEF ContentInv
  <2>. QED
    BY <1>3, <1>7, <2>1 DEF Transform, text
<1>8. CASE ExternalGuardrail
  <2>1. body' = body /\ banned' = banned
    BY <1>8 DEF ExternalGuardrail, Refuse
  <2>. QED
    BY <1>3, <2>1
<1>. QED
  BY <1>5, <1>6, <1>7, <1>8

\* What is sent is the body, in the tool loop with what was added to it.
LEMMA SendsKeepInv ==
  ASSUME ContentInv, Send \/ Receive \/ Continue
  PROVE  ContentInv'
<1>1. /\ pc' \in {"sent", "received"} /\ pc # "over"
      /\ UNCHANGED <<shown, cached, level, stored>>
  BY DEF Send, Receive, Continue
<1>2. shown' = {} /\ cached' = {} /\ stored' = Nothing /\ CopiesClean'
  BY <1>1 DEF ContentInv, CopiesClean, ShownIsClean, LoggedIsClean, Strings, Nothing
<1>. SUFFICES /\ IsBody(body)' /\ body'.text \cap banned' = {} /\ sent' \cap banned' = {}
              /\ pc' = "received" => answer' \in Answers
  BY <1>1, <1>2 DEF ContentInv
<1>3. CASE Send
  BY <1>3 DEF Send, ContentInv, IsBody
<1>4. CASE Receive
  BY <1>4 DEF Receive, ContentInv, IsBody
<1>5. CASE Continue
  <2>1. PICK added : /\ body' = [body EXCEPT !.text = @ \cup added]
                     /\ banned' = banned \ added /\ sent' = body'.text
    BY <1>5 DEF Continue
  <2>2. IsBody(body)' /\ body'.text = body.text \cup added
    BY <2>1 DEF ContentInv, IsBody
  <2>3. pc' = "sent"
    BY <1>5 DEF Continue
  <2>. QED
    BY <2>1, <2>2, <2>3 DEF ContentInv
<1>. QED
  BY <1>3, <1>4, <1>5

\* The actions on the answer change what is neither sent nor kept.
LEMMA ScreeningKeepsInv ==
  ASSUME ContentInv,
         Sanitize \/ RedactAnswer \/ TransformAnswer \/ FilterAnswer \/ ValidateSchema \/ GuardAnswer
  PROVE  ContentInv'
<1>1. /\ pc \in {"received", "screening"} /\ pc' \in {"screening", "suppressed"}
      /\ UNCHANGED <<body, banned, sent, answer, split, shown, cached, level, stored>>
  BY DEF Sanitize, RedactAnswer, TransformAnswer, FilterAnswer, ValidateSchema, GuardAnswer,
     Screen, Suppress, Kept
<1>2. CopiesClean'
  BY <1>1 DEF ContentInv, CopiesClean, ShownIsClean, LoggedIsClean
<1>. QED
  BY <1>1, <1>2 DEF ContentInv, IsBody

\* The copies that are made at the end.
LEMMA CopiesKeepInv ==
  ASSUME ContentInv, Stream \/ Respond
  PROVE  ContentInv'
<1>1. /\ pc' = "over" /\ UNCHANGED <<body, banned, sent, answer>>
      /\ pc \in {"received", "screening"}
  BY DEF Stream, Respond
<1>2. ASSUME CopiesClean' PROVE ContentInv'
  BY <1>1, <1>2 DEF ContentInv, IsBody
<1>3. CASE Stream
  <2>1. /\ shown' = Without(answer.text, Sanitized) \cup split' /\ cached' = {}
        /\ stored'.request = {} /\ stored'.answer = {}
    BY <1>1, <1>3 DEF Stream, ContentInv, Nothing
  <2>2. ASSUME NEW p \in Strings(shown' \cup cached'), p.kind \in Sanitized
        PROVE  p \in split'
    <3>1. p \notin Strings(Without(answer.text, Sanitized))
      BY <2>2, WithoutNone
    <3>. QED
      BY <2>1, <2>2, <3>1 DEF Strings
  <2>3. ShownIsClean'
    BY <2>2 DEF ShownIsClean
  <2>4. LoggedIsClean'
    BY <2>1 DEF LoggedIsClean, Strings
  <2>. QED
    BY <1>2, <2>3, <2>4 DEF CopiesClean
<1>4. CASE Respond
  <2>1. /\ shown' = Clean(answer) /\ cached' = Clean(answer) /\ level' \in 0..2
        /\ stored'.request = ForLogging(level', body.json, body.text)
        /\ stored'.answer = ForLogging(level', Parsed, answer.text)
    BY <1>4 DEF Respond
  <2>2. answer.form \in {"json", "text", "binary"}
    BY <1>4, ContentAssumption DEF Respond, ContentInv
  <2>3. ASSUME answer.form # "binary", NEW p \in Strings(Clean(answer))
        PROVE  p.kind \notin Sanitized
    <3>1. CASE answer.form = "json"
      <4>1. Clean(answer) = Without(answer.text, Sanitized)
        BY <3>1 DEF Clean
      <4>. QED
        BY <2>3, <4>1, WithoutNone
    <3>2. CASE answer.form = "text"
      <4>1. Clean(answer) = {q \in answer.text : q.kind \notin Sanitized}
        BY <3>2 DEF Clean
      <4>. QED
        BY <2>3, <4>1 DEF Strings
    <3>. QED
      BY <2>2, <2>3, <3>1, <3>2
  <2>4. ShownIsClean'
    <3>1. answer' = answer
      BY <1>1
    <3>2. shown' \cup cached' = Clean(answer)
      BY <2>1
    <3>. QED
      BY <2>3, <3>1, <3>2 DEF ShownIsClean
  <2>5. ASSUME level' < 2, NEW json \in BOOLEAN, NEW text, NEW p \in Strings(ForLogging(level', json, text))
        PROVE  p.kind \notin Logged
    <3>1. CASE level' = 0 \/ ~json
      BY <2>5, <3>1 DEF ForLogging, Strings
    <3>2. CASE level' = 1 /\ json
      <4>1. ForLogging(level', json, text) = Without(text, Logged)
        BY <3>2 DEF ForLogging
      <4>. QED
        BY <2>5, <4>1, WithoutNone
    <3>. QED
      BY <2>1, <2>5, <3>1, <3>2
  <2>6. LoggedIsClean'
    <3>1. body.json \in BOOLEAN /\ Parsed \in BOOLEAN
      BY DEF ContentInv, IsBody, Parsed
    <3>2. ASSUME level' < 2, NEW p \in Strings(stored'.request \cup stored'.answer)
          PROVE  p.kind \notin Logged
      <4>1. \/ p \in Strings(ForLogging(level', body.json, body.text))
            \/ p \in Strings(ForLogging(level', Parsed, answer.text))
        BY <2>1, <3>2 DEF Strings
      <4>. QED
        BY <2>5, <3>1, <3>2, <4>1
    <3>. QED
      BY <3>2 DEF LoggedIsClean
  <2>. QED
    BY <1>2, <2>4, <2>6 DEF CopiesClean
<1>. QED
  BY <1>3, <1>4

\* The invariant holds throughout.
LEMMA ContentInvariant == Spec => []ContentInv
<1>1. Init => ContentInv
  BY ContentAssumption DEF Init, ContentInv, CopiesClean, ShownIsClean, LoggedIsClean, Strings, Nothing
<1>2. ContentInv /\ [Next]_vars => ContentInv'
  <2>1. ASSUME ContentInv, UNCHANGED vars PROVE ContentInv'
    BY <2>1 DEF vars, ContentInv, IsBody, CopiesClean, ShownIsClean, LoggedIsClean
  <2>. QED
    BY <2>1, ActionsKeepInv, SendsKeepInv, ScreeningKeepsInv, CopiesKeepInv DEF Next
<1>. QED
  BY <1>1, <1>2, PTL DEF Spec

\* No sequence of actions, tools and rounds brings back what was promised to
\* stay out.
THEOREM PromisesKept == Spec => []SentIsClean
<1>1. ContentInv => SentIsClean
  BY DEF ContentInv, SentIsClean
<1>. QED
  BY <1>1, ContentInvariant, PTL

\* Whatever actions run on the answer, and in whatever order, no copy has what
\* it is to be cleaned of.
THEOREM CopiesAreClean == Spec => []CopiesClean
<1>1. ContentInv => CopiesClean
  BY DEF ContentInv
<1>. QED
  BY <1>1, ContentInvariant, PTL

-----------------------------------------------------------------------------
\* Binary streams (EventStream)

CONSTANTS Transmissions, StrayLengths, EventLimit

VARIABLES stream, stray, arrived, consumed, out, over

Events == INSTANCE EventStream WITH
    Streams <- Transmissions, Lengths <- StrayLengths, MaxEvents <- EventLimit

\* Binary streams: what has been decoded is a list of the events of intact
\* messages, in their order, and where the lengths are true it has all of them
\* up to the boundary where the buffer begins.

IsStream ==
    /\ stream \in Seq(Events!Messages) /\ stray \in Nat /\ EventLimit \in Nat \ {0}
    /\ \A i \in DOMAIN stream :
          stream[i].size >= 2 /\ (stream[i].prelude => stream[i].says = stream[i].size)

EventRecords == [of : DOMAIN stream, typed : BOOLEAN]

\* The events of intact messages between the units a and b.
EventList(d, a, b) ==
    /\ d \in Seq(EventRecords)
    /\ \A k \in 1..Len(d) :
          /\ Events!Intact(d[k].of) /\ Events!EventOf(d[k].of) = <<d[k]>>
          /\ a <= Events!Start(d[k].of) /\ Events!Start(d[k].of + 1) <= b
    /\ \A j, k \in 1..Len(d) : j < k => d[j].of < d[k].of

\* All of them.
Complete(d, a, b) ==
    \A i \in DOMAIN stream :
        Events!Intact(i) /\ a <= Events!Start(i) /\ Events!Start(i + 1) <= b =>
            \E k \in 1..Len(d) : d[k].of = i

Boundary(p) == \E i \in 1..(Len(stream) + 1) : Events!Start(i) = p

\* No message that begins at p ends by the unit b.
Partial(p, b) == \A i \in DOMAIN stream : Events!Start(i) = p => Events!Start(i + 1) > b

FrameInv ==
    /\ stream \in Transmissions /\ stray \in StrayLengths
    /\ arrived \in Nat /\ arrived <= Events!Total
    /\ consumed \in Nat /\ consumed <= arrived
    /\ EventList(out, 0, consumed)
    /\ Events!LengthsTrue => Boundary(consumed) /\ Complete(out, 0, consumed) /\ Partial(consumed, arrived)
    /\ over = "eof" => arrived = Events!Total

\* Induction, for a set of numbers.
LEMMA NumbersBySteps ==
  ASSUME NEW S, 0 \in S, \A n \in Nat : n \in S => n + 1 \in S
  PROVE  Nat \subseteq S
<1>. DEFINE T == Nat \ S
<1>. SUFFICES ASSUME T # {} PROVE FALSE
  OBVIOUS
<1>1. PICK n \in T : \A m \in T : <<m, n>> \notin OpToRel(<, Nat)
  BY NatLessThanWellFounded, WFMin, T \subseteq Nat
<1>2. n - 1 \in Nat /\ (n - 1) + 1 = n
  OBVIOUS
<1>3. n - 1 \in T
  BY <1>2
<1>4. <<n - 1, n>> \in OpToRel(<, Nat)
  BY <1>2 DEF OpToRel
<1>. QED  BY <1>1, <1>3, <1>4

\* Where messages begin: f is the function of Start.
Begins(f, s, n) == f = [i \in 1..n |-> IF i = 1 THEN 0 ELSE f[i - 1] + s[i - 1].size]

LEMMA BeginningsDefined ==
  ASSUME NEW s, NEW n \in Nat
  PROVE  \E f : Begins(f, s, n)
<1>. DEFINE S == {k \in Nat : \E f : Begins(f, s, k)}
<1>1. 0 \in S
  <2>1. Begins([i \in 1..0 |-> 0], s, 0)
    BY DEF Begins
  <2>. QED  BY <2>1
<1>2. ASSUME NEW k \in Nat, k \in S  PROVE k + 1 \in S
  <2>1. PICK f : Begins(f, s, k)
    BY <1>2
  <2>. DEFINE g == [i \in 1..(k + 1) |-> IF i = 1 THEN 0 ELSE f[i - 1] + s[i - 1].size]
  <2>2. \A i \in 1..k : g[i] = f[i]
    BY <2>1 DEF Begins
  <2>3. \A i \in 1..(k + 1) : i # 1 => g[i - 1] = f[i - 1]
    <3>1. \A i \in 1..(k + 1) : i # 1 => i - 1 \in 1..k
      OBVIOUS
    <3>. HIDE DEF g
    <3>. QED  BY <2>2, <3>1
  <2>4. Begins(g, s, k + 1)
    BY <2>3 DEF Begins
  <2>. QED  BY <2>4
<1>3. Nat \subseteq S
  <2>. HIDE DEF S
  <2>. QED  BY <1>1, <1>2, NumbersBySteps
<1>. QED  BY <1>3

LEMMA StartIs ==
  ASSUME IsStream
  PROVE  /\ Events!Start(1) = 0
         /\ \A i \in 1..Len(stream) : Events!Start(i + 1) = Events!Start(i) + stream[i].size
<1>. DEFINE n == Len(stream) + 1
            f == CHOOSE f : Begins(f, stream, n)
<1>0. Len(stream) \in Nat /\ n \in Nat
  BY DEF IsStream
<1>1. Begins(f, stream, n)
  BY <1>0, BeginningsDefined
<1>2. \A i : Events!Start(i) = f[i]
  BY Zenon DEF Events!Start, Begins
<1>3. f[1] = 0 /\ \A i \in 1..Len(stream) : f[i + 1] = f[i] + stream[i].size
  <2>1. \A i \in 1..n : f[i] = IF i = 1 THEN 0 ELSE f[i - 1] + stream[i - 1].size
    <3>. HIDE DEF f
    <3>. QED  BY <1>1 DEF Begins
  <2>. HIDE DEF f
  <2>2. 1 \in 1..n /\ \A i \in 1..Len(stream) : i + 1 \in 1..n /\ i + 1 # 1 /\ (i + 1) - 1 = i
    BY <1>0
  <2>. QED  BY <2>1, <2>2
<1>. QED  BY <1>2, <1>3

\* Messages lie one behind the other, and have two units at least.
LEMMA StartsGrow ==
  ASSUME IsStream
  PROVE  /\ \A i \in 1..(Len(stream) + 1) : Events!Start(i) \in Nat
         /\ \A i \in 1..Len(stream) : Events!Start(i) + 2 <= Events!Start(i + 1)
         /\ \A i, j \in 1..(Len(stream) + 1) : i < j => Events!Start(i) < Events!Start(j)
<1>0. /\ Len(stream) \in Nat /\ DOMAIN stream = 1..Len(stream)
      /\ \A i \in 1..Len(stream) : stream[i].size \in Nat /\ stream[i].size >= 2
  <2>1. \A i \in DOMAIN stream : stream[i] \in Events!Messages
    BY DEF IsStream
  <2>2. DOMAIN stream = 1..Len(stream) /\ Len(stream) \in Nat
    BY DEF IsStream
  <2>3. \A m \in Events!Messages : m.size \in Nat
    BY DEF Events!Messages
  <2>. QED  BY <2>1, <2>2, <2>3 DEF IsStream
<1>1. \A i \in 1..(Len(stream) + 1) : Events!Start(i) \in Nat
  <2>. DEFINE S == {n \in Nat : n + 1 <= Len(stream) + 1 => Events!Start(n + 1) \in Nat}
  <2>1. 0 \in S
    BY StartIs
  <2>2. ASSUME NEW n \in Nat, n \in S  PROVE n + 1 \in S
    <3>1. CASE n + 2 <= Len(stream) + 1
      <4>1. n + 1 \in 1..Len(stream) /\ (n + 1) + 1 = n + 2 /\ Events!Start(n + 1) \in Nat
        BY <1>0, <2>2, <3>1
      <4>2. Events!Start(n + 2) = Events!Start(n + 1) + stream[n + 1].size
        BY <4>1, StartIs
      <4>. QED  BY <1>0, <4>1, <4>2
    <3>. QED  BY <3>1
  <2>3. Nat \subseteq S
    <3>. HIDE DEF S
    <3>. QED  BY <2>1, <2>2, NumbersBySteps
  <2>. SUFFICES ASSUME NEW i \in 1..(Len(stream) + 1) PROVE Events!Start(i) \in Nat
    OBVIOUS
  <2>4. i - 1 \in Nat /\ (i - 1) + 1 = i /\ i <= Len(stream) + 1
    BY <1>0
  <2>5. i - 1 \in S
    BY <2>3, <2>4
  <2>. QED  BY <2>4, <2>5
<1>2. \A i \in 1..Len(stream) : Events!Start(i) + 2 <= Events!Start(i + 1)
  <2>. SUFFICES ASSUME NEW i \in 1..Len(stream) PROVE Events!Start(i) + 2 <= Events!Start(i + 1)
    OBVIOUS
  <2>1. Events!Start(i + 1) = Events!Start(i) + stream[i].size /\ Events!Start(i) \in Nat
    BY <1>0, <1>1, StartIs
  <2>. QED  BY <1>0, <2>1
<1>3. ASSUME NEW i \in 1..(Len(stream) + 1), NEW j \in 1..(Len(stream) + 1), i < j
      PROVE  Events!Start(i) < Events!Start(j)
  <2>. DEFINE S == {n \in Nat : i + 1 + n <= Len(stream) + 1 => Events!Start(i) < Events!Start(i + 1 + n)}
  <2>0. i \in Nat /\ i <= Len(stream) /\ i >= 1
    BY <1>0, <1>3
  <2>1. 0 \in S
    <3>1. i \in 1..Len(stream) /\ i + 1 + 0 = i + 1 /\ i + 1 \in 1..(Len(stream) + 1)
      BY <1>0, <2>0
    <3>2. Events!Start(i) + 2 <= Events!Start(i + 1) /\ Events!Start(i) \in Nat /\ Events!Start(i + 1) \in Nat
      BY <1>1, <1>2, <3>1
    <3>3. Events!Start(i) < Events!Start(i + 1)
      BY <3>2
    <3>. QED  BY <3>1, <3>3
  <2>2. ASSUME NEW n \in Nat, n \in S  PROVE n + 1 \in S
    <3>. SUFFICES ASSUME i + 1 + (n + 1) <= Len(stream) + 1
                  PROVE  Events!Start(i) < Events!Start(i + 1 + (n + 1))
      OBVIOUS
    <3>. DEFINE m == i + 1 + n
    <3>1. m \in 1..Len(stream) /\ m + 1 = i + 1 + (n + 1) /\ m + 1 \in 1..(Len(stream) + 1)
          /\ m \in 1..(Len(stream) + 1)
      BY <1>0, <2>0
    <3>2. Events!Start(i) < Events!Start(m)
      BY <2>2, <3>1
    <3>3. Events!Start(m) + 2 <= Events!Start(m + 1) /\ Events!Start(m) \in Nat /\ Events!Start(m + 1) \in Nat
          /\ Events!Start(i) \in Nat
      BY <1>1, <1>2, <3>1
    <3>. HIDE DEF m
    <3>4. Events!Start(i) < Events!Start(m + 1)
      BY <3>2, <3>3
    <3>. QED  BY <3>1, <3>4
  <2>3. Nat \subseteq S
    <3>. HIDE DEF S
    <3>. QED  BY <2>1, <2>2, NumbersBySteps
  <2>4. j - i - 1 \in Nat /\ i + 1 + (j - i - 1) = j /\ j <= Len(stream) + 1
    BY <1>0, <1>3
  <2>5. j - i - 1 \in S
    BY <2>3, <2>4
  <2>. QED  BY <2>4, <2>5
<1>. QED  BY <1>1, <1>2, <1>3

\* What a message gives: at most one event, of it.
LEMMA EventIs ==
  ASSUME IsStream, NEW i \in DOMAIN stream
  PROVE  /\ stream[i].json = FALSE => Events!EventOf(i) = <<>>
         /\ stream[i].json # FALSE =>
               \E e \in EventRecords : e.of = i /\ Events!EventOf(i) = <<e>>
<1>. DEFINE typed == \E h \in Events!Readable(stream[i].headers) : stream[i].headers[h] = "type"
            e == [of |-> i, typed |-> typed]
<1>1. Events!EventOf(i) = IF ~stream[i].json THEN <<>> ELSE <<e>>
  BY DEF Events!EventOf
<1>2. e \in EventRecords /\ e.of = i
  <2>1. typed \in BOOLEAN
    OBVIOUS
  <2>. HIDE DEF typed
  <2>. QED  BY <2>1 DEF EventRecords
<1>3. stream[i].json \in BOOLEAN
  <2>1. stream[i] \in Events!Messages
    BY DEF IsStream
  <2>. QED  BY <2>1 DEF Events!Messages
<1>. HIDE DEF e
<1>. QED  BY <1>1, <1>2, <1>3

\* One message begins at a boundary.
LEMMA OneBegins ==
  ASSUME IsStream, NEW i \in DOMAIN stream
  PROVE  /\ Events!BeginsAt(Events!Start(i)) = {i}
         /\ (CHOOSE j \in Events!BeginsAt(Events!Start(i)) : TRUE) = i
<1>1. DOMAIN stream = 1..Len(stream) /\ Len(stream) \in Nat
  BY DEF IsStream
<1>2. \A j \in DOMAIN stream : Events!Start(j) = Events!Start(i) => j = i
  <2>1. ASSUME NEW j \in DOMAIN stream, Events!Start(j) = Events!Start(i), j # i  PROVE FALSE
    <3>1. i \in 1..(Len(stream) + 1) /\ j \in 1..(Len(stream) + 1) /\ (i < j \/ j < i)
      BY <1>1, <2>1
    <3>2. Events!Start(i) \in Nat /\ (Events!Start(i) < Events!Start(j) \/ Events!Start(j) < Events!Start(i))
      BY <3>1, StartsGrow
    <3>. QED  BY <2>1, <3>2
  <2>. QED  BY <2>1
<1>3. Events!BeginsAt(Events!Start(i)) = {i}
  BY <1>2 DEF Events!BeginsAt
<1>. QED  BY <1>3

-----------------------------------------------------------------------------
\* The decoder, from one unit on: f is its function.
DecodeAt(f, o, b) ==
    LET here == Events!BeginsAt(o)
    IN  IF \/ o + 1 > b
           \/ \A i \in here : o + stream[i].says > b \/ ~stream[i].prelude
        THEN <<>>
        ELSE LET i == CHOOSE j \in here : TRUE
             IN  (IF stream[i].rest THEN Events!EventOf(i) ELSE <<>>) \o f[o + stream[i].says]

Decodes(f, a, b) == f = [o \in a..b |-> DecodeAt(f, o, b)]

\* Either no whole message with an intact prelude begins there, or one does
\* and the decoder goes on behind it.
LEMMA DecodeSteps ==
  ASSUME IsStream, NEW f, NEW o \in Nat, NEW b \in Nat
  PROVE  \/ /\ DecodeAt(f, o, b) = <<>>
            /\ \A i \in DOMAIN stream :
                  Events!Start(i) = o /\ stream[i].prelude => Events!Start(i + 1) > b
         \/ \E i \in DOMAIN stream :
               /\ Events!Start(i) = o /\ stream[i].prelude
               /\ Events!Start(i + 1) \in (o + 1)..b
               /\ DecodeAt(f, o, b) =
                     (IF stream[i].rest THEN Events!EventOf(i) ELSE <<>>) \o f[Events!Start(i + 1)]
<1>0. \A i \in DOMAIN stream :
        stream[i].prelude => /\ stream[i].says = stream[i].size
                             /\ Events!Start(i + 1) = Events!Start(i) + stream[i].says
                             /\ Events!Start(i) + 2 <= Events!Start(i + 1)
                             /\ Events!Start(i) \in Nat /\ Events!Start(i + 1) \in Nat
  <2>1. DOMAIN stream = 1..Len(stream) /\ Len(stream) \in Nat
    BY DEF IsStream
  <2>2. \A i \in 1..Len(stream) : i \in 1..(Len(stream) + 1) /\ i + 1 \in 1..(Len(stream) + 1)
    BY <2>1
  <2>. QED  BY <2>1, <2>2, StartIs, StartsGrow DEF IsStream
<1>1. CASE \E i \in DOMAIN stream : Events!Start(i) = o /\ stream[i].prelude /\ Events!Start(i + 1) <= b
  <2>1. PICK i \in DOMAIN stream : Events!Start(i) = o /\ stream[i].prelude /\ Events!Start(i + 1) <= b
    BY <1>1
  <2>2. Events!BeginsAt(o) = {i} /\ (CHOOSE j \in Events!BeginsAt(o) : TRUE) = i
    BY <2>1, OneBegins
  <2>3. o + stream[i].says = Events!Start(i + 1) /\ Events!Start(i + 1) \in (o + 1)..b
    BY <1>0, <2>1
  <2>4. ~(o + 1 > b) /\ ~(o + stream[i].says > b)
    BY <2>3
  <2>5. DecodeAt(f, o, b) = (IF stream[i].rest THEN Events!EventOf(i) ELSE <<>>) \o f[o + stream[i].says]
    BY <2>1, <2>2, <2>4, Zenon DEF DecodeAt
  <2>. QED  BY <2>1, <2>3, <2>5
<1>2. CASE ~\E i \in DOMAIN stream : Events!Start(i) = o /\ stream[i].prelude /\ Events!Start(i + 1) <= b
  <2>1. \A i \in Events!BeginsAt(o) : o + stream[i].says > b \/ ~stream[i].prelude
    BY <1>0, <1>2 DEF Events!BeginsAt
  <2>2. DecodeAt(f, o, b) = <<>>
    BY <2>1, Zenon DEF DecodeAt
  <2>3. \A i \in DOMAIN stream : Events!Start(i) = o /\ stream[i].prelude => Events!Start(i + 1) > b
    BY <1>0, <1>2
  <2>. QED  BY <2>2, <2>3
<1>. QED  BY <1>1, <1>2

\* It depends on what is decoded further on, only.
LEMMA DecodeLater ==
  ASSUME IsStream, NEW f, NEW g, NEW o \in Nat, NEW b \in Nat,
         \A p \in (o + 1)..b : f[p] = g[p]
  PROVE  DecodeAt(f, o, b) = DecodeAt(g, o, b)
<1>1. CASE \A i \in Events!BeginsAt(o) : o + stream[i].says > b \/ ~stream[i].prelude
  BY <1>1, Zenon DEF DecodeAt
<1>2. CASE \E i \in Events!BeginsAt(o) : ~(o + stream[i].says > b) /\ stream[i].prelude
  <2>1. PICK i \in Events!BeginsAt(o) : ~(o + stream[i].says > b) /\ stream[i].prelude
    BY <1>2
  <2>2. i \in DOMAIN stream /\ Events!Start(i) = o
    BY <2>1 DEF Events!BeginsAt
  <2>3. (CHOOSE j \in Events!BeginsAt(o) : TRUE) = i
    BY <2>2, OneBegins
  <2>4. o + stream[i].says \in (o + 1)..b
    <3>1. stream[i] \in Events!Messages /\ stream[i].says = stream[i].size /\ stream[i].size >= 2
      BY <2>1, <2>2 DEF IsStream
    <3>2. stream[i].says \in Nat /\ stream[i].says >= 2
      BY <3>1 DEF Events!Messages
    <3>. QED  BY <2>1, <3>2
  <2>5. f[o + stream[i].says] = g[o + stream[i].says]
    BY <2>4
  <2>. QED  BY <2>3, <2>5, Zenon DEF DecodeAt
<1>. QED  BY <1>1, <1>2

LEMMA DecoderDefined ==
  ASSUME IsStream, NEW a \in Nat, NEW b \in Nat, a <= b
  PROVE  \E f : Decodes(f, a, b)
<1>. DEFINE S == {n \in Nat : n <= b => \E f : Decodes(f, b - n, b)}
<1>1. 0 \in S
  <2>. DEFINE f == [o \in b..b |-> DecodeAt(<<>>, o, b)]
  <2>1. \A o \in b..b : DecodeAt(f, o, b) = DecodeAt(<<>>, o, b)
    <3>1. \A o \in b..b : o \in Nat /\ \A p \in (o + 1)..b : f[p] = <<>>[p]
      OBVIOUS
    <3>. HIDE DEF f
    <3>. QED  BY <3>1, DecodeLater
  <2>2. f = [o \in b..b |-> DecodeAt(f, o, b)]
    BY <2>1
  <2>3. Decodes(f, b - 0, b)
    BY <2>2 DEF Decodes
  <2>. QED  BY <2>3
<1>2. ASSUME NEW n \in Nat, n \in S  PROVE n + 1 \in S
  <2>. SUFFICES ASSUME n + 1 <= b  PROVE \E f : Decodes(f, b - (n + 1), b)
    OBVIOUS
  <2>1. PICK f : Decodes(f, b - n, b)
    BY <1>2
  <2>. DEFINE c == b - (n + 1)
              g == [o \in c..b |-> IF o = c THEN DecodeAt(f, o, b) ELSE f[o]]
  <2>2. c \in Nat /\ b - n = c + 1
    OBVIOUS
  <2>3. \A p \in (c + 1)..b : g[p] = f[p] /\ f[p] = DecodeAt(f, p, b)
    <3>1. \A p \in (c + 1)..b : p \in c..b /\ p # c
      BY <2>2
    <3>2. f = [o \in (c + 1)..b |-> DecodeAt(f, o, b)]
      BY <2>1, <2>2 DEF Decodes
    <3>3. \A p \in (c + 1)..b : f[p] = DecodeAt(f, p, b)
      BY <3>2, Zenon
    <3>. HIDE DEF c
    <3>. QED  BY <3>1, <3>3
  <2>4. \A o \in c..b : DecodeAt(g, o, b) = DecodeAt(f, o, b)
    <3>. SUFFICES ASSUME NEW o \in c..b PROVE DecodeAt(g, o, b) = DecodeAt(f, o, b)
      OBVIOUS
    <3>1. o \in Nat /\ \A p \in (o + 1)..b : p \in (c + 1)..b
      BY <2>2
    <3>2. \A p \in (o + 1)..b : g[p] = f[p]
      BY <2>3, <3>1
    <3>. HIDE DEF g, c
    <3>3. o \in Nat
      BY <3>1
    <3>. QED  BY <3>2, <3>3, DecodeLater
  <2>5. \A o \in c..b : g[o] = DecodeAt(g, o, b)
    <3>1. c \in c..b /\ g[c] = DecodeAt(f, c, b)
      BY <2>2
    <3>2. \A o \in c..b : o = c \/ o \in (c + 1)..b
      BY <2>2
    <3>. HIDE DEF g, c
    <3>. QED  BY <2>3, <2>4, <3>1, <3>2
  <2>6. Decodes(g, c, b)
    <3>1. g = [o \in c..b |-> g[o]]
      OBVIOUS
    <3>2. g = [o \in c..b |-> DecodeAt(g, o, b)]
      <4>. HIDE DEF g, c
      <4>. QED  BY <2>5, <3>1
    <3>. QED  BY <3>2, Zenon DEF Decodes
  <2>. QED  BY <2>6
<1>3. b - a \in S
  <2>1. Nat \subseteq S
    <3>. HIDE DEF S
    <3>. QED  BY <1>1, <1>2, NumbersBySteps
  <2>. QED  BY <2>1
<1>. QED  BY <1>3

LEMMA DecoderIs ==
  ASSUME IsStream, NEW a \in Nat, NEW b \in Nat, a <= b
  PROVE  \E f : /\ \A o \in a..b : f[o] = DecodeAt(f, o, b)
                /\ Events!Decode(a, b) = SubSeq(f[a], 1, Events!Min({EventLimit, Len(f[a])}))
<1>. DEFINE f == CHOOSE f : Decodes(f, a, b)
<1>1. Decodes(f, a, b)
  BY DecoderDefined
<1>2. Events!Decode(a, b) = SubSeq(f[a], 1, Events!Min({EventLimit, Len(f[a])}))
  BY Zenon DEF Events!Decode, Decodes, DecodeAt
<1>3. \A o \in a..b : f[o] = DecodeAt(f, o, b)
  <2>. HIDE DEF f
  <2>1. f = [o \in a..b |-> DecodeAt(f, o, b)]
    BY <1>1 DEF Decodes
  <2>. QED  BY <2>1, Zenon
<1>. QED  BY <1>2, <1>3

-----------------------------------------------------------------------------
\* Lists of events.
LEMMA StreamIs ==
  ASSUME IsStream
  PROVE  /\ DOMAIN stream = 1..Len(stream) /\ Len(stream) \in Nat
         /\ \A i \in DOMAIN stream :
               /\ i \in 1..(Len(stream) + 1) /\ i + 1 \in 1..(Len(stream) + 1)
               /\ Events!Start(i) \in Nat /\ Events!Start(i + 1) \in Nat
               /\ Events!Start(i) < Events!Start(i + 1)
         /\ \A i, j \in DOMAIN stream : Events!Start(i + 1) <= Events!Start(j) => i < j
<1>1. DOMAIN stream = 1..Len(stream) /\ Len(stream) \in Nat
  BY DEF IsStream
<1>2. ASSUME NEW i \in DOMAIN stream
      PROVE  /\ i \in 1..(Len(stream) + 1) /\ i + 1 \in 1..(Len(stream) + 1)
             /\ Events!Start(i) \in Nat /\ Events!Start(i + 1) \in Nat
             /\ Events!Start(i) < Events!Start(i + 1)
  <2>1. i \in 1..(Len(stream) + 1) /\ i + 1 \in 1..(Len(stream) + 1) /\ i < i + 1
    BY <1>1
  <2>. QED  BY <2>1, StartsGrow
<1>3. ASSUME NEW i \in DOMAIN stream, NEW j \in DOMAIN stream, Events!Start(i + 1) <= Events!Start(j)
      PROVE  i < j
  <2>. SUFFICES ASSUME ~(i < j) PROVE FALSE
    OBVIOUS
  <2>1. i \in Int /\ j \in Int /\ j < i + 1
    BY <1>1
  <2>2. Events!Start(j) < Events!Start(i + 1)
    BY <1>2, <2>1, StartsGrow
  <2>3. Events!Start(j) \in Nat /\ Events!Start(i + 1) \in Nat
    BY <1>2
  <2>. QED  BY <1>3, <2>2, <2>3
<1>. QED  BY <1>1, <1>2, <1>3

\* A message lies before a boundary or behind it.
LEMMA Apart ==
  ASSUME IsStream, NEW b \in Nat, Boundary(b), NEW i \in DOMAIN stream
  PROVE  Events!Start(i + 1) <= b \/ b <= Events!Start(i)
<1>0. PICK m \in 1..(Len(stream) + 1) : Events!Start(m) = b
  BY DEF Boundary
<1>1. m \in Int /\ i \in Int /\ i \in 1..(Len(stream) + 1) /\ i + 1 \in 1..(Len(stream) + 1)
  BY StreamIs
<1>2. i + 1 = m \/ i + 1 < m \/ m = i \/ m < i
  BY <1>1
<1>3. Events!Start(i) \in Nat /\ Events!Start(i + 1) \in Nat
  BY StreamIs
<1>4. i + 1 < m => Events!Start(i + 1) < b
  BY <1>0, <1>1, StartsGrow
<1>5. m < i => b < Events!Start(i)
  BY <1>0, <1>1, StartsGrow
<1>. QED  BY <1>0, <1>2, <1>3, <1>4, <1>5

\* Two lists, one behind the other, are a list.
LEMMA ListsJoin ==
  ASSUME IsStream, NEW a \in Nat, NEW b \in Nat, NEW c \in Nat, a <= b, b <= c,
         NEW d, NEW e, EventList(d, a, b), EventList(e, b, c)
  PROVE  /\ EventList(d \o e, a, c)
         /\ Boundary(b) /\ Complete(d, a, b) /\ Complete(e, b, c) => Complete(d \o e, a, c)
<1>. DEFINE s == d \o e
<1>1. d \in Seq(EventRecords) /\ e \in Seq(EventRecords) /\ Len(d) \in Nat /\ Len(e) \in Nat
  BY DEF EventList
<1>2. /\ s \in Seq(EventRecords) /\ Len(s) = Len(d) + Len(e)
      /\ \A k \in 1..Len(d) : s[k] = d[k]
      /\ \A k \in 1..Len(e) : s[Len(d) + k] = e[k]
      /\ \A k \in (Len(d) + 1)..(Len(d) + Len(e)) : s[k] = e[k - Len(d)]
  BY <1>1
<1>3. /\ \A k \in 1..Len(d) : d[k].of \in DOMAIN stream
      /\ \A k \in 1..Len(e) : e[k].of \in DOMAIN stream
  <2>1. \A r \in EventRecords : r.of \in DOMAIN stream
    BY DEF EventRecords
  <2>. QED  BY <1>1, <2>1
<1>4. \A k \in 1..Len(s) : k \in 1..Len(d) \/ (k \in (Len(d) + 1)..(Len(d) + Len(e)) /\ k - Len(d) \in 1..Len(e))
  BY <1>1, <1>2
<1>5. ASSUME NEW k \in 1..Len(s)
      PROVE  /\ Events!Intact(s[k].of) /\ Events!EventOf(s[k].of) = <<s[k]>>
             /\ a <= Events!Start(s[k].of) /\ Events!Start(s[k].of + 1) <= c
  <2>1. CASE k \in 1..Len(d)
    <3>1. /\ Events!Intact(d[k].of) /\ Events!EventOf(d[k].of) = <<d[k]>>
          /\ a <= Events!Start(d[k].of) /\ Events!Start(d[k].of + 1) <= b
      BY <2>1 DEF EventList
    <3>2. Events!Start(d[k].of + 1) \in Nat
      BY <1>3, <2>1, StreamIs
    <3>3. Events!Start(d[k].of + 1) <= c
      BY <3>1, <3>2
    <3>4. s[k] = d[k]
      BY <1>2, <2>1
    <3>. HIDE DEF s
    <3>. QED  BY <3>1, <3>3, <3>4
  <2>2. CASE k \in (Len(d) + 1)..(Len(d) + Len(e)) /\ k - Len(d) \in 1..Len(e)
    <3>. DEFINE m == k - Len(d)
    <3>1. /\ Events!Intact(e[m].of) /\ Events!EventOf(e[m].of) = <<e[m]>>
          /\ b <= Events!Start(e[m].of) /\ Events!Start(e[m].of + 1) <= c
      BY <2>2 DEF EventList
    <3>2. Events!Start(e[m].of) \in Nat
      BY <1>3, <2>2, StreamIs
    <3>3. a <= Events!Start(e[m].of)
      BY <3>1, <3>2
    <3>4. s[k] = e[m]
      BY <1>2, <2>2
    <3>. HIDE DEF s, m
    <3>. QED  BY <3>1, <3>3, <3>4
  <2>. QED  BY <1>4, <2>1, <2>2
<1>6. ASSUME NEW j \in 1..Len(s), NEW k \in 1..Len(s), j < k
      PROVE  s[j].of < s[k].of
  <2>0. j \in Int /\ k \in Int
    OBVIOUS
  <2>1. CASE k \in 1..Len(d)
    <3>1. j \in 1..Len(d)
      BY <1>6, <1>1, <2>1
    <3>2. d[j].of < d[k].of
      BY <1>6, <2>1, <3>1 DEF EventList
    <3>3. s[j] = d[j] /\ s[k] = d[k]
      BY <1>2, <2>1, <3>1
    <3>. HIDE DEF s
    <3>. QED  BY <3>2, <3>3
  <2>2. CASE /\ k \in (Len(d) + 1)..(Len(d) + Len(e)) /\ k - Len(d) \in 1..Len(e)
             /\ j \in (Len(d) + 1)..(Len(d) + Len(e)) /\ j - Len(d) \in 1..Len(e)
    <3>1. j - Len(d) < k - Len(d)
      BY <1>1, <1>6, <2>0
    <3>2. e[j - Len(d)].of < e[k - Len(d)].of
      BY <2>2, <3>1 DEF EventList
    <3>3. s[j] = e[j - Len(d)] /\ s[k] = e[k - Len(d)]
      BY <1>2, <2>2
    <3>. HIDE DEF s
    <3>. QED  BY <3>2, <3>3
  <2>3. CASE /\ k \in (Len(d) + 1)..(Len(d) + Len(e)) /\ k - Len(d) \in 1..Len(e)
             /\ j \in 1..Len(d)
    <3>. DEFINE p == d[j].of
                q == e[k - Len(d)].of
    <3>1. p \in DOMAIN stream /\ q \in DOMAIN stream
      BY <1>3, <2>3
    <3>2. Events!Start(p + 1) <= b /\ b <= Events!Start(q)
      BY <2>3 DEF EventList
    <3>3. s[j] = d[j] /\ s[k] = e[k - Len(d)]
      BY <1>2, <2>3
    <3>4. p < q
      <4>. HIDE DEF p, q
      <4>1. Events!Start(p + 1) \in Nat /\ Events!Start(q) \in Nat
        BY <3>1, StreamIs
      <4>2. Events!Start(p + 1) <= Events!Start(q)
        BY <3>2, <4>1
      <4>. QED  BY <3>1, <4>2, StreamIs
    <3>. HIDE DEF s
    <3>. QED  BY <3>3, <3>4
  <2>. QED  BY <1>4, <2>1, <2>2, <2>3
<1>7. EventList(s, a, c)
  <2>. HIDE DEF s
  <2>. QED  BY <1>2, <1>5, <1>6, Zenon DEF EventList
<1>8. ASSUME Boundary(b), Complete(d, a, b), Complete(e, b, c)  PROVE Complete(s, a, c)
  <2>. SUFFICES ASSUME NEW i \in DOMAIN stream, Events!Intact(i), a <= Events!Start(i), Events!Start(i + 1) <= c
                PROVE  \E k \in 1..Len(s) : s[k].of = i
    BY Zenon DEF Complete
  <2>2. Events!Start(i + 1) <= b \/ b <= Events!Start(i)
    BY <1>8, Apart
  <2>3. CASE Events!Start(i + 1) <= b
    <3>1. PICK k \in 1..Len(d) : d[k].of = i
      BY <1>8, <2>3 DEF Complete
    <3>2. s[k] = d[k] /\ k \in 1..Len(s)
      BY <1>1, <1>2
    <3>. HIDE DEF s
    <3>. QED  BY <3>1, <3>2
  <2>4. CASE b <= Events!Start(i)
    <3>1. PICK k \in 1..Len(e) : e[k].of = i
      BY <1>8, <2>4 DEF Complete
    <3>2. s[Len(d) + k] = e[k] /\ Len(d) + k \in 1..Len(s)
      BY <1>1, <1>2
    <3>. HIDE DEF s
    <3>. QED  BY <3>1, <3>2
  <2>. QED  BY <2>2, <2>3, <2>4
<1>. QED  BY <1>7, <1>8

\* The first part of a list is one, and a list within less is one within more.
LEMMA ListCut ==
  ASSUME NEW d, NEW a \in Nat, NEW b \in Nat, EventList(d, a, b), NEW n \in 0..Len(d)
  PROVE  EventList(SubSeq(d, 1, n), a, b)
<1>. DEFINE s == SubSeq(d, 1, n)
<1>1. d \in Seq(EventRecords) /\ Len(d) \in Nat
  BY DEF EventList
<1>2. s \in Seq(EventRecords) /\ Len(s) = n /\ \A k \in 1..n : s[k] = d[k] /\ k \in 1..Len(d)
  BY <1>1
<1>3. \A k \in 1..Len(s) :
        /\ Events!Intact(s[k].of) /\ Events!EventOf(s[k].of) = <<s[k]>>
        /\ a <= Events!Start(s[k].of) /\ Events!Start(s[k].of + 1) <= b
  <2>. HIDE DEF s
  <2>. QED  BY <1>2, Zenon DEF EventList
<1>4. \A j, k \in 1..Len(s) : j < k => s[j].of < s[k].of
  <2>. HIDE DEF s
  <2>. QED  BY <1>2, Zenon DEF EventList
<1>5. EventList(s, a, b)
  <2>. HIDE DEF s
  <2>. QED  BY <1>2, <1>3, <1>4, Zenon DEF EventList
<1>. QED  BY <1>5

\* Nothing is a list of nothing.
LEMMA EmptyList ==
  ASSUME NEW d, d = <<>>, NEW a, NEW b
  PROVE  EventList(d, a, b)
<1>1. d \in Seq(EventRecords)
  OBVIOUS
<1>2. 1..Len(d) = {}
  <2>1. Len(d) = 0
    OBVIOUS
  <2>2. \A n : n = 0 => 1..n = {}
    OBVIOUS
  <2>. QED  BY <2>1, <2>2
<1>. QED  BY <1>1, <1>2, Zenon DEF EventList

\* No other message lies within one.
LEMMA AloneThere ==
  ASSUME IsStream, NEW i \in DOMAIN stream
  PROVE  \A j \in DOMAIN stream :
            Events!Start(i) <= Events!Start(j) /\ Events!Start(j + 1) <= Events!Start(i + 1) => j = i
<1>. SUFFICES ASSUME NEW j \in DOMAIN stream, Events!Start(i) <= Events!Start(j),
                     Events!Start(j + 1) <= Events!Start(i + 1)
              PROVE  j = i
  OBVIOUS
<1>1. /\ i \in Int /\ j \in Int /\ i \in 1..(Len(stream) + 1) /\ j \in 1..(Len(stream) + 1)
      /\ i + 1 \in 1..(Len(stream) + 1) /\ j + 1 \in 1..(Len(stream) + 1)
      /\ Events!Start(i) \in Nat /\ Events!Start(j) \in Nat
      /\ Events!Start(i + 1) \in Nat /\ Events!Start(j + 1) \in Nat
  BY StreamIs
<1>2. j < i => Events!Start(j) < Events!Start(i)
  BY <1>1, StartsGrow
<1>3. i < j => Events!Start(i + 1) < Events!Start(j + 1)
  BY <1>1, StartsGrow
<1>. QED  BY <1>1, <1>2, <1>3

\* A message's own part of the list.
LEMMA OwnPart ==
  ASSUME IsStream, NEW i \in DOMAIN stream, stream[i].prelude,
         NEW d, d = IF stream[i].rest THEN Events!EventOf(i) ELSE <<>>
  PROVE  /\ EventList(d, Events!Start(i), Events!Start(i + 1))
         /\ Complete(d, Events!Start(i), Events!Start(i + 1))
<1>0. \A j \in DOMAIN stream :
        Events!Start(i) <= Events!Start(j) /\ Events!Start(j + 1) <= Events!Start(i + 1) => j = i
  BY AloneThere, Zenon
<1>1. CASE stream[i].rest /\ stream[i].json # FALSE
  <2>1. PICK e \in EventRecords : e.of = i /\ Events!EventOf(i) = <<e>>
    BY <1>1, EventIs
  <2>2. d = <<e>> /\ d \in Seq(EventRecords) /\ Len(d) = 1 /\ d[1] = e
    BY <1>1, <2>1
  <2>3. Events!Intact(i)
    <3>1. stream[i] \in Events!Messages
      BY DEF IsStream
    <3>2. stream[i].json \in BOOLEAN
      BY <3>1 DEF Events!Messages
    <3>. QED  BY <1>1, <3>2 DEF Events!Intact
  <2>4. Events!Start(i) <= Events!Start(i) /\ Events!Start(i + 1) <= Events!Start(i + 1)
    <3>1. Events!Start(i) \in Nat /\ Events!Start(i + 1) \in Nat
      BY StreamIs
    <3>. QED  BY <3>1
  <2>5. \A k \in 1..Len(d) : d[k] = e
    <3>1. \A n : n = 1 => \A k \in 1..n : k = 1
      OBVIOUS
    <3>. QED  BY <2>2, <3>1, Zenon
  <2>6. EventList(d, Events!Start(i), Events!Start(i + 1))
    <3>1. \A j, k \in 1..Len(d) : j < k => d[j].of < d[k].of
      BY <2>2
    <3>2. /\ Events!Intact(e.of) /\ Events!EventOf(e.of) = <<e>>
          /\ Events!Start(i) <= Events!Start(e.of) /\ Events!Start(e.of + 1) <= Events!Start(i + 1)
      BY <2>1, <2>3, <2>4
    <3>3. \A k \in 1..Len(d) :
            /\ Events!Intact(d[k].of) /\ Events!EventOf(d[k].of) = <<d[k]>>
            /\ Events!Start(i) <= Events!Start(d[k].of) /\ Events!Start(d[k].of + 1) <= Events!Start(i + 1)
      BY <2>5, <3>2
    <3>. QED  BY <2>2, <3>1, <3>3, Zenon DEF EventList
  <2>7. Complete(d, Events!Start(i), Events!Start(i + 1))
    <3>1. 1 \in 1..Len(d)
      BY <2>2
    <3>. QED  BY <1>0, <2>1, <2>2, <3>1, Zenon DEF Complete
  <2>. QED  BY <2>6, <2>7
<1>2. CASE ~stream[i].rest \/ stream[i].json = FALSE
  <2>1. d = <<>>
    BY <1>2, EventIs
  <2>3. EventList(d, Events!Start(i), Events!Start(i + 1))
    BY <2>1, EmptyList
  <2>4. ~Events!Intact(i)
    BY <1>2 DEF Events!Intact
  <2>5. Complete(d, Events!Start(i), Events!Start(i + 1))
    BY <1>0, <2>4, Zenon DEF Complete
  <2>. QED  BY <2>3, <2>5
<1>. QED  BY <1>1, <1>2

-----------------------------------------------------------------------------
\* No prelude of a message between the units a and b is damaged.
Undamaged(a, b) ==
    \A i \in DOMAIN stream :
        a <= Events!Start(i) /\ Events!Start(i + 1) <= b => stream[i].prelude

\* What the decoder makes of the units from o on.
DecodesWell(d, o, b) ==
    /\ EventList(d, o, b)
    /\ Undamaged(o, b) /\ Boundary(o) => Complete(d, o, b)

\* A message that lies behind a boundary lies behind the one that begins there.
LEMMA FirstThere ==
  ASSUME IsStream, NEW o \in Nat, Boundary(o), NEW b \in Nat,
         NEW i \in DOMAIN stream, o <= Events!Start(i), Events!Start(i + 1) <= b
  PROVE  \E m \in DOMAIN stream : Events!Start(m) = o /\ Events!Start(m + 1) <= b
<1>1. PICK m \in 1..(Len(stream) + 1) : Events!Start(m) = o
  BY DEF Boundary
<1>2. /\ i \in Int /\ m \in Int /\ i \in 1..(Len(stream) + 1) /\ i + 1 \in 1..(Len(stream) + 1)
      /\ Events!Start(i) \in Nat /\ Events!Start(i + 1) \in Nat
      /\ DOMAIN stream = 1..Len(stream) /\ Len(stream) \in Nat
  BY StreamIs
<1>3. i < m => Events!Start(i) < Events!Start(m)
  BY <1>2, StartsGrow
<1>4. m <= i
  BY <1>1, <1>2, <1>3
<1>5. m \in DOMAIN stream /\ m + 1 \in 1..(Len(stream) + 1) /\ (m = i \/ m + 1 < i + 1)
  BY <1>2, <1>4
<1>6. m + 1 < i + 1 => Events!Start(m + 1) < Events!Start(i + 1)
  BY <1>2, <1>5, StartsGrow
<1>7. Events!Start(m + 1) \in Nat
  BY <1>5, StreamIs
<1>8. Events!Start(m + 1) <= b
  <2>1. CASE m = i
    BY <2>1
  <2>2. CASE m + 1 < i + 1
    BY <1>2, <1>6, <1>7, <2>2
  <2>. QED  BY <1>5, <2>1, <2>2
<1>. QED  BY <1>1, <1>5, <1>8

LEMMA DecodeKeeps ==
  ASSUME IsStream, NEW f, NEW o \in Nat, NEW b \in Nat, o <= b, f[o] = DecodeAt(f, o, b),
         \A p \in (o + 1)..b : DecodesWell(f[p], p, b)
  PROVE  DecodesWell(f[o], o, b)
<1>1. CASE /\ DecodeAt(f, o, b) = <<>>
           /\ \A i \in DOMAIN stream :
                 Events!Start(i) = o /\ stream[i].prelude => Events!Start(i + 1) > b
  <2>1. EventList(f[o], o, b)
    BY <1>1, EmptyList
  <2>2. ASSUME Undamaged(o, b), Boundary(o)  PROVE Complete(f[o], o, b)
    <3>1. ASSUME NEW i \in DOMAIN stream, o <= Events!Start(i), Events!Start(i + 1) <= b  PROVE FALSE
      <4>1. PICK m \in DOMAIN stream : Events!Start(m) = o /\ Events!Start(m + 1) <= b
        BY <2>2, <3>1, FirstThere
      <4>2. stream[m].prelude
        BY <2>2, <4>1 DEF Undamaged
      <4>3. Events!Start(m + 1) > b /\ Events!Start(m + 1) \in Nat
        BY <1>1, <4>1, <4>2, StreamIs
      <4>. QED  BY <4>1, <4>3
    <3>. QED  BY <3>1, Zenon DEF Complete
  <2>. QED  BY <2>1, <2>2 DEF DecodesWell
<1>2. ASSUME NEW i \in DOMAIN stream, Events!Start(i) = o, stream[i].prelude,
             Events!Start(i + 1) \in (o + 1)..b,
             DecodeAt(f, o, b) = (IF stream[i].rest THEN Events!EventOf(i) ELSE <<>>) \o f[Events!Start(i + 1)]
      PROVE  DecodesWell(f[o], o, b)
  <2>1. PICK p \in (o + 1)..b : p = Events!Start(i + 1)
    BY <1>2
  <2>2. PICK d : d = IF stream[i].rest THEN Events!EventOf(i) ELSE <<>>
    OBVIOUS
  <2>3. f[o] = d \o f[p]
    BY <1>2, <2>1, <2>2
  <2>4. EventList(d, o, p) /\ Complete(d, o, p)
    BY <1>2, <2>1, <2>2, OwnPart
  <2>5. p \in Nat /\ o <= p /\ p <= b
    BY <2>1
  <2>6. EventList(f[p], p, b) /\ (Undamaged(p, b) /\ Boundary(p) => Complete(f[p], p, b))
    BY <2>1 DEF DecodesWell
  <2>7. Boundary(p)
    BY <2>1, StreamIs DEF Boundary
  <2>8. /\ EventList(d \o f[p], o, b)
        /\ Complete(f[p], p, b) => Complete(d \o f[p], o, b)
    BY <2>4, <2>5, <2>6, <2>7, ListsJoin
  <2>9. Undamaged(o, b) => Undamaged(p, b)
    <3>. SUFFICES ASSUME Undamaged(o, b), NEW j \in DOMAIN stream, p <= Events!Start(j), Events!Start(j + 1) <= b
                  PROVE  stream[j].prelude
      BY DEF Undamaged
    <3>1. o <= Events!Start(j)
      BY <2>5, StreamIs
    <3>. QED  BY <3>1 DEF Undamaged
  <2>. QED  BY <2>3, <2>6, <2>7, <2>8, <2>9 DEF DecodesWell
<1>3. /\ DecodeAt(f, o, b) = <<>>
      /\ \A i \in DOMAIN stream :
            Events!Start(i) = o /\ stream[i].prelude => Events!Start(i + 1) > b
      \/ \E i \in DOMAIN stream :
            /\ Events!Start(i) = o /\ stream[i].prelude
            /\ Events!Start(i + 1) \in (o + 1)..b
            /\ DecodeAt(f, o, b) =
                  (IF stream[i].rest THEN Events!EventOf(i) ELSE <<>>) \o f[Events!Start(i + 1)]
  BY DecodeSteps, Zenon
<1>. QED  BY <1>1, <1>2, <1>3

LEMMA DecoderLists ==
  ASSUME IsStream, NEW a \in Nat, NEW b \in Nat, a <= b, NEW f,
         \A o \in a..b : f[o] = DecodeAt(f, o, b)
  PROVE  DecodesWell(f[a], a, b)
<1>. DEFINE S == {n \in Nat : \A o \in a..b : b - o <= n => DecodesWell(f[o], o, b)}
<1>1. 0 \in S
  <2>. SUFFICES ASSUME NEW o \in a..b, b - o <= 0 PROVE DecodesWell(f[o], o, b)
    OBVIOUS
  <2>1. o \in Nat /\ o <= b /\ \A p \in (o + 1)..b : FALSE
    OBVIOUS
  <2>. QED  BY <2>1, DecodeKeeps
<1>2. ASSUME NEW n \in Nat, n \in S  PROVE n + 1 \in S
  <2>. SUFFICES ASSUME NEW o \in a..b, b - o <= n + 1 PROVE DecodesWell(f[o], o, b)
    OBVIOUS
  <2>1. o \in Nat /\ o <= b /\ \A p \in (o + 1)..b : p \in a..b /\ b - p <= n
    OBVIOUS
  <2>2. \A p \in (o + 1)..b : DecodesWell(f[p], p, b)
    BY <1>2, <2>1
  <2>. QED  BY <2>1, <2>2, DecodeKeeps
<1>3. b - a \in S
  <2>1. Nat \subseteq S
    <3>. HIDE DEF S
    <3>. QED  BY <1>1, <1>2, NumbersBySteps
  <2>. QED  BY <2>1
<1>4. a \in a..b /\ b - a <= b - a
  OBVIOUS
<1>. QED  BY <1>3, <1>4

\* A list has no more events than there are messages, and one within a message
\* at most one.
LEMMA ListShort ==
  ASSUME IsStream, NEW d, NEW a \in Nat, NEW b \in Nat, EventList(d, a, b)
  PROVE  Len(d) <= Len(stream)
<1>1. Len(d) \in Nat /\ DOMAIN stream = 1..Len(stream) /\ Len(stream) \in Nat
      /\ \A k \in 1..Len(d) : d[k].of \in DOMAIN stream
  <2>1. \A r \in EventRecords : r.of \in DOMAIN stream
    BY DEF EventRecords
  <2>2. d \in Seq(EventRecords)
    BY DEF EventList
  <2>3. Len(d) \in Nat /\ \A k \in 1..Len(d) : d[k] \in EventRecords
    BY <2>2
  <2>. QED  BY <2>1, <2>3, StreamIs
<1>2. \A j, k \in 1..Len(d) : j < k => d[j].of < d[k].of
  BY Zenon DEF EventList
<1>. DEFINE S == {n \in Nat : n + 1 <= Len(d) => n + 1 <= d[n + 1].of}
<1>3. 0 \in S
  <2>1. 1 <= Len(d) => 1 \in 1..Len(d)
    BY <1>1
  <2>. QED  BY <1>1, <2>1
<1>4. ASSUME NEW n \in Nat, n \in S  PROVE n + 1 \in S
  <2>. SUFFICES ASSUME (n + 1) + 1 <= Len(d)  PROVE (n + 1) + 1 <= d[(n + 1) + 1].of
    OBVIOUS
  <2>1. n + 1 \in 1..Len(d) /\ (n + 1) + 1 \in 1..Len(d) /\ n + 1 < (n + 1) + 1 /\ n + 1 <= Len(d)
    BY <1>1
  <2>2. d[n + 1].of < d[(n + 1) + 1].of /\ n + 1 <= d[n + 1].of
    BY <1>2, <1>4, <2>1
  <2>3. PICK x \in Nat : x = d[n + 1].of
    BY <1>1, <2>1
  <2>4. PICK y \in Nat : y = d[(n + 1) + 1].of
    BY <1>1, <2>1
  <2>5. x < y /\ n + 1 <= x
    BY <2>2, <2>3, <2>4
  <2>6. (n + 1) + 1 <= y
    BY <2>5
  <2>. QED  BY <2>4, <2>6
<1>5. Nat \subseteq S
  <2>. HIDE DEF S
  <2>. QED  BY <1>3, <1>4, NumbersBySteps
<1>6. CASE Len(d) = 0
  BY <1>1, <1>6
<1>7. CASE Len(d) # 0
  <2>1. Len(d) - 1 \in Nat /\ (Len(d) - 1) + 1 = Len(d) /\ Len(d) \in 1..Len(d)
    BY <1>1, <1>7
  <2>2. Len(d) <= d[Len(d)].of
    BY <1>5, <2>1
  <2>3. d[Len(d)].of \in 1..Len(stream)
    BY <1>1, <2>1
  <2>. QED  BY <1>1, <2>2, <2>3
<1>. QED  BY <1>6, <1>7

LEMMA OneWithin ==
  ASSUME IsStream, NEW i \in DOMAIN stream, NEW d, EventList(d, Events!Start(i), Events!Start(i + 1))
  PROVE  Len(d) <= 1
<1>. SUFFICES ASSUME ~(Len(d) <= 1) PROVE FALSE
  OBVIOUS
<1>1. Len(d) \in Nat /\ \A k \in 1..Len(d) : d[k].of \in DOMAIN stream
  <2>1. \A r \in EventRecords : r.of \in DOMAIN stream
    BY DEF EventRecords
  <2>2. d \in Seq(EventRecords)
    BY DEF EventList
  <2>3. Len(d) \in Nat /\ \A k \in 1..Len(d) : d[k] \in EventRecords
    BY <2>2
  <2>. QED  BY <2>1, <2>3
<1>2. 1 \in 1..Len(d) /\ 2 \in 1..Len(d) /\ 1 < 2
  BY <1>1
<1>3. \A k \in 1..Len(d) : Events!Start(i) <= Events!Start(d[k].of) /\ Events!Start(d[k].of + 1) <= Events!Start(i + 1)
  BY Zenon DEF EventList
<1>4. d[1].of = i /\ d[2].of = i
  BY <1>1, <1>2, <1>3, AloneThere
<1>5. d[1].of < d[2].of
  BY <1>2, Zenon DEF EventList
<1>6. i \in Nat
  BY StreamIs
<1>. QED  BY <1>4, <1>5, <1>6

-----------------------------------------------------------------------------
\* What is decoded of the units between a and b.
LEMMA MinOfTwo ==
  ASSUME NEW m \in Nat, NEW n \in Nat
  PROVE  /\ Events!Min({m, n}) \in {m, n}
         /\ Events!Min({m, n}) <= m /\ Events!Min({m, n}) <= n
<1>1. \E x \in {m, n} : \A y \in {m, n} : x <= y
  OBVIOUS
<1>. QED  BY <1>1 DEF Events!Min

\* No more than the decoder takes at once.
LEMMA Capped ==
  ASSUME NEW d, NEW a \in Nat, NEW b \in Nat, EventList(d, a, b), EventLimit \in Nat
  PROVE  /\ EventList(SubSeq(d, 1, Events!Min({EventLimit, Len(d)})), a, b)
         /\ Len(d) <= EventLimit => SubSeq(d, 1, Events!Min({EventLimit, Len(d)})) = d
<1>1. d \in Seq(EventRecords) /\ Len(d) \in Nat
  BY DEF EventList
<1>2. PICK n \in Nat : n = Events!Min({EventLimit, Len(d)})
  BY <1>1, MinOfTwo
<1>3. n \in {EventLimit, Len(d)} /\ n <= EventLimit /\ n <= Len(d)
  BY <1>1, <1>2, MinOfTwo
<1>4. EventList(SubSeq(d, 1, n), a, b)
  BY <1>1, <1>3, ListCut
<1>5. Len(d) <= EventLimit => n = Len(d)
  BY <1>1, <1>3
<1>6. SubSeq(d, 1, Len(d)) = d
  BY <1>1
<1>. QED  BY <1>2, <1>4, <1>5, <1>6

LEMMA DecodedList ==
  ASSUME IsStream, NEW a \in Nat, NEW b \in Nat, a <= b
  PROVE  /\ EventList(Events!Decode(a, b), a, b)
         /\ Len(stream) <= EventLimit /\ Undamaged(a, b) /\ Boundary(a) => Complete(Events!Decode(a, b), a, b)
<1>1. PICK f : /\ \A o \in a..b : f[o] = DecodeAt(f, o, b)
               /\ Events!Decode(a, b) = SubSeq(f[a], 1, Events!Min({EventLimit, Len(f[a])}))
  BY DecoderIs
<1>2. DecodesWell(f[a], a, b)
  BY <1>1, DecoderLists
<1>3. PICK d : d = f[a]
  OBVIOUS
<1>4. EventList(d, a, b) /\ (Undamaged(a, b) /\ Boundary(a) => Complete(d, a, b))
  BY <1>2, <1>3 DEF DecodesWell
<1>5. EventLimit \in Nat
  BY DEF IsStream
<1>6. /\ EventList(Events!Decode(a, b), a, b)
      /\ Len(d) <= EventLimit => Events!Decode(a, b) = d
  <2>1. Events!Decode(a, b) = SubSeq(d, 1, Events!Min({EventLimit, Len(d)}))
    BY <1>1, <1>3, Zenon
  <2>2. /\ EventList(SubSeq(d, 1, Events!Min({EventLimit, Len(d)})), a, b)
        /\ Len(d) <= EventLimit => SubSeq(d, 1, Events!Min({EventLimit, Len(d)})) = d
    BY <1>4, <1>5, Capped
  <2>. QED  BY <2>1, <2>2, Zenon
<1>7. Len(stream) <= EventLimit => Len(d) <= EventLimit
  <2>1. d \in Seq(EventRecords) /\ Len(d) <= Len(stream)
    BY <1>4, ListShort DEF EventList
  <2>2. Len(d) \in Nat /\ Len(stream) \in Nat
    BY <2>1, StreamIs
  <2>. QED  BY <1>5, <2>1, <2>2
<1>. QED  BY <1>4, <1>6, <1>7

LEMMA DecodedOne ==
  ASSUME IsStream, NEW i \in DOMAIN stream, NEW a \in Nat, NEW b \in Nat,
         a = Events!Start(i), b = Events!Start(i + 1)
  PROVE  EventList(Events!Decode(a, b), a, b) /\ Complete(Events!Decode(a, b), a, b)
<1>0. a <= b
  BY StreamIs
<1>1. PICK f : /\ \A o \in a..b : f[o] = DecodeAt(f, o, b)
               /\ Events!Decode(a, b) = SubSeq(f[a], 1, Events!Min({EventLimit, Len(f[a])}))
  BY <1>0, DecoderIs
<1>2. DecodesWell(f[a], a, b)
  BY <1>0, <1>1, DecoderLists
<1>3. PICK d : d = f[a]
  OBVIOUS
<1>4. EventList(d, a, b) /\ (Undamaged(a, b) /\ Boundary(a) => Complete(d, a, b))
  BY <1>2, <1>3 DEF DecodesWell
<1>5. EventLimit \in Nat /\ EventLimit >= 1
  BY DEF IsStream
<1>6. /\ EventList(Events!Decode(a, b), a, b)
      /\ Len(d) <= EventLimit => Events!Decode(a, b) = d
  <2>1. Events!Decode(a, b) = SubSeq(d, 1, Events!Min({EventLimit, Len(d)}))
    BY <1>1, <1>3, Zenon
  <2>2. /\ EventList(SubSeq(d, 1, Events!Min({EventLimit, Len(d)})), a, b)
        /\ Len(d) <= EventLimit => SubSeq(d, 1, Events!Min({EventLimit, Len(d)})) = d
    BY <1>4, <1>5, Capped
  <2>. QED  BY <2>1, <2>2, Zenon
<1>7. Len(d) <= EventLimit
  <2>1. d \in Seq(EventRecords) /\ Len(d) <= 1
    BY <1>4, OneWithin DEF EventList
  <2>2. Len(d) \in Nat
    BY <2>1
  <2>. QED  BY <1>5, <2>1, <2>2
<1>8. Boundary(a)
  BY StreamIs DEF Boundary
<1>9. \A j \in DOMAIN stream : a <= Events!Start(j) /\ Events!Start(j + 1) <= b => j = i
  BY AloneThere, Zenon
<1>10. CASE stream[i].prelude
  <2>1. Undamaged(a, b)
    BY <1>9, <1>10, Zenon DEF Undamaged
  <2>. QED  BY <1>4, <1>6, <1>7, <1>8, <2>1
<1>11. CASE ~stream[i].prelude
  <2>1. Complete(Events!Decode(a, b), a, b)
    BY <1>9, <1>11, Zenon DEF Complete, Events!Intact
  <2>. QED  BY <1>6, <2>1
<1>. QED  BY <1>10, <1>11

-----------------------------------------------------------------------------
\* The bridge's cuts, from one unit on: f is their function.
Behind(e, r) == [r EXCEPT !.events = e \o @]

CutAt(f, o, b) ==
    LET length == Events!LengthAt(o)
    IN  IF o + 1 > b \/ length < 2 \/ o + length > b
        THEN [consumed |-> o, events |-> <<>>]
        ELSE Behind(Events!Decode(o, o + length), f[o + length])

Cuts(f, a, b) == f = [o \in a..b |-> CutAt(f, o, b)]

LEMMA LengthIs ==
  ASSUME IsStream, NEW o \in Nat
  PROVE  /\ Events!LengthAt(o) \in Nat
         /\ \A i \in DOMAIN stream : Events!Start(i) = o => Events!LengthAt(o) = stream[i].says
         /\ (\A i \in DOMAIN stream : Events!Start(i) # o) => Events!LengthAt(o) = stray
<1>1. ASSUME NEW i \in DOMAIN stream, Events!Start(i) = o
      PROVE  Events!LengthAt(o) = stream[i].says /\ Events!LengthAt(o) \in Nat
  <2>1. Events!BeginsAt(o) = {i} /\ (CHOOSE j \in Events!BeginsAt(o) : TRUE) = i
    BY <1>1, OneBegins
  <2>2. stream[i].says \in Nat
    <3>1. stream[i] \in Events!Messages
      BY DEF IsStream
    <3>. QED  BY <3>1 DEF Events!Messages
  <2>3. Events!BeginsAt(o) # {}
    BY <2>1
  <2>4. Events!LengthAt(o) = stream[i].says
    BY <2>1, <2>3, Zenon DEF Events!LengthAt
  <2>. QED  BY <2>2, <2>4
<1>2. ASSUME \A i \in DOMAIN stream : Events!Start(i) # o
      PROVE  Events!LengthAt(o) = stray /\ Events!LengthAt(o) \in Nat
  <2>1. Events!BeginsAt(o) = {}
    BY <1>2 DEF Events!BeginsAt
  <2>2. Events!LengthAt(o) = stray
    BY <2>1, Zenon DEF Events!LengthAt
  <2>3. stray \in Nat
    BY DEF IsStream
  <2>. QED  BY <2>2, <2>3
<1>. QED  BY <1>1, <1>2

\* Either the bridge waits for more, or it cuts a part off and goes on behind it.
LEMMA CutStops ==
  ASSUME NEW f, NEW o \in Nat, NEW b \in Nat, NEW n \in Nat, n = Events!LengthAt(o),
         o + 1 > b \/ n < 2 \/ o + n > b
  PROVE  CutAt(f, o, b) = [consumed |-> o, events |-> <<>>]
BY Zenon DEF CutAt

LEMMA CutGoes ==
  ASSUME NEW f, NEW o \in Nat, NEW b \in Nat, NEW n \in Nat, n = Events!LengthAt(o),
         ~(o + 1 > b \/ n < 2 \/ o + n > b)
  PROVE  CutAt(f, o, b) = Behind(Events!Decode(o, o + n), f[o + n])
BY Zenon DEF CutAt

\* It depends on what is cut further on, only.
LEMMA CutLater ==
  ASSUME IsStream, NEW f, NEW g, NEW o \in Nat, NEW b \in Nat,
         \A p \in (o + 1)..b : f[p] = g[p]
  PROVE  CutAt(f, o, b) = CutAt(g, o, b)
<1>1. PICK n \in Nat : n = Events!LengthAt(o)
  BY LengthIs
<1>2. CASE o + 1 > b \/ n < 2 \/ o + n > b
  <2>1. CutAt(f, o, b) = [consumed |-> o, events |-> <<>>]
    BY <1>1, <1>2, CutStops
  <2>2. CutAt(g, o, b) = [consumed |-> o, events |-> <<>>]
    BY <1>1, <1>2, CutStops
  <2>. QED  BY <2>1, <2>2
<1>3. CASE ~(o + 1 > b \/ n < 2 \/ o + n > b)
  <2>1. CutAt(f, o, b) = Behind(Events!Decode(o, o + n), f[o + n])
    BY <1>1, <1>3, CutGoes
  <2>2. CutAt(g, o, b) = Behind(Events!Decode(o, o + n), g[o + n])
    BY <1>1, <1>3, CutGoes
  <2>3. o + n \in (o + 1)..b
    BY <1>3
  <2>4. f[o + n] = g[o + n]
    BY <2>3
  <2>. QED  BY <2>1, <2>2, <2>4, Zenon
<1>. QED  BY <1>2, <1>3

LEMMA CutsDefined ==
  ASSUME IsStream, NEW a \in Nat, NEW b \in Nat, a <= b
  PROVE  \E f : Cuts(f, a, b)
<1>. DEFINE S == {n \in Nat : n <= b => \E f : Cuts(f, b - n, b)}
<1>1. 0 \in S
  <2>. DEFINE f == [o \in b..b |-> CutAt(<<>>, o, b)]
  <2>1. \A o \in b..b : CutAt(f, o, b) = CutAt(<<>>, o, b)
    <3>1. \A o \in b..b : o \in Nat /\ \A p \in (o + 1)..b : f[p] = <<>>[p]
      OBVIOUS
    <3>. HIDE DEF f
    <3>. QED  BY <3>1, CutLater
  <2>2. f = [o \in b..b |-> CutAt(f, o, b)]
    BY <2>1
  <2>3. Cuts(f, b - 0, b)
    BY <2>2 DEF Cuts
  <2>. QED  BY <2>3
<1>2. ASSUME NEW n \in Nat, n \in S  PROVE n + 1 \in S
  <2>. SUFFICES ASSUME n + 1 <= b  PROVE \E f : Cuts(f, b - (n + 1), b)
    OBVIOUS
  <2>1. PICK f : Cuts(f, b - n, b)
    BY <1>2
  <2>. DEFINE c == b - (n + 1)
              g == [o \in c..b |-> IF o = c THEN CutAt(f, o, b) ELSE f[o]]
  <2>2. c \in Nat /\ b - n = c + 1
    OBVIOUS
  <2>3. \A p \in (c + 1)..b : g[p] = f[p] /\ f[p] = CutAt(f, p, b)
    <3>1. \A p \in (c + 1)..b : p \in c..b /\ p # c
      BY <2>2
    <3>2. f = [o \in (c + 1)..b |-> CutAt(f, o, b)]
      BY <2>1, <2>2 DEF Cuts
    <3>3. \A p \in (c + 1)..b : f[p] = CutAt(f, p, b)
      BY <3>2, Zenon
    <3>. HIDE DEF c
    <3>. QED  BY <3>1, <3>3
  <2>4. \A o \in c..b : CutAt(g, o, b) = CutAt(f, o, b)
    <3>. SUFFICES ASSUME NEW o \in c..b PROVE CutAt(g, o, b) = CutAt(f, o, b)
      OBVIOUS
    <3>1. o \in Nat /\ \A p \in (o + 1)..b : p \in (c + 1)..b
      BY <2>2
    <3>2. \A p \in (o + 1)..b : g[p] = f[p]
      BY <2>3, <3>1
    <3>. HIDE DEF g, c
    <3>3. o \in Nat
      BY <3>1
    <3>. QED  BY <3>2, <3>3, CutLater
  <2>5. \A o \in c..b : g[o] = CutAt(g, o, b)
    <3>1. c \in c..b /\ g[c] = CutAt(f, c, b)
      BY <2>2
    <3>2. \A o \in c..b : o = c \/ o \in (c + 1)..b
      BY <2>2
    <3>. HIDE DEF g, c
    <3>. QED  BY <2>3, <2>4, <3>1, <3>2
  <2>6. Cuts(g, c, b)
    <3>1. g = [o \in c..b |-> g[o]]
      OBVIOUS
    <3>2. g = [o \in c..b |-> CutAt(g, o, b)]
      <4>. HIDE DEF g, c
      <4>. QED  BY <2>5, <3>1
    <3>. QED  BY <3>2, Zenon DEF Cuts
  <2>. QED  BY <2>6
<1>3. b - a \in S
  <2>1. Nat \subseteq S
    <3>. HIDE DEF S
    <3>. QED  BY <1>1, <1>2, NumbersBySteps
  <2>. QED  BY <2>1
<1>. QED  BY <1>3

LEMMA CutIs ==
  ASSUME IsStream, NEW a \in Nat, NEW b \in Nat, a <= b
  PROVE  \E f : (\A o \in a..b : f[o] = CutAt(f, o, b)) /\ Events!Cut(a, b) = f[a]
<1>. DEFINE f == CHOOSE f : Cuts(f, a, b)
<1>1. Cuts(f, a, b)
  BY CutsDefined
<1>2. Events!Cut(a, b) = f[a]
  BY Zenon DEF Events!Cut, Cuts, CutAt, Behind
<1>3. \A o \in a..b : f[o] = CutAt(f, o, b)
  <2>. HIDE DEF f
  <2>1. f = [o \in a..b |-> CutAt(f, o, b)]
    BY <1>1 DEF Cuts
  <2>. QED  BY <2>1, Zenon
<1>. QED  BY <1>2, <1>3

\* What has been cut off from o on, and where the buffer begins then.
CutsWell(r, o, b) ==
    \E c \in o..b : \E d :
        /\ r = [consumed |-> c, events |-> d]
        /\ EventList(d, o, c)
        /\ Events!LengthsTrue /\ Boundary(o) => Boundary(c) /\ Complete(d, o, c) /\ Partial(c, b)

LEMMA CutKeeps ==
  ASSUME IsStream, NEW f, NEW o \in Nat, NEW b \in Nat, o <= b, b <= Events!Total, f[o] = CutAt(f, o, b),
         \A p \in (o + 1)..b : CutsWell(f[p], p, b)
  PROVE  CutsWell(f[o], o, b)
<1>1. PICK n \in Nat : n = Events!LengthAt(o)
  BY LengthIs
<1>2. CASE o + 1 > b \/ n < 2 \/ o + n > b
  <2>1. PICK d : d = <<>>
    OBVIOUS
  <2>2. f[o] = [consumed |-> o, events |-> d]
    BY <1>1, <1>2, <2>1, CutStops
  <2>3. EventList(d, o, o)
    BY <2>1, EmptyList
  <2>4. Complete(d, o, o)
    <3>1. \A i \in DOMAIN stream : ~(o <= Events!Start(i) /\ Events!Start(i + 1) <= o)
      BY StreamIs
    <3>. QED  BY <3>1, Zenon DEF Complete
  <2>5. ASSUME Events!LengthsTrue  PROVE Partial(o, b)
    <3>. SUFFICES ASSUME NEW i \in DOMAIN stream, Events!Start(i) = o  PROVE Events!Start(i + 1) > b
      BY DEF Partial
    <3>1. n = stream[i].size
      BY <1>1, <2>5, LengthIs DEF Events!LengthsTrue
    <3>2. Events!Start(i + 1) = o + n /\ n >= 2
      BY <3>1, StartIs, StreamIs DEF IsStream
    <3>. QED  BY <1>2, <3>2
  <2>6. o \in o..b
    OBVIOUS
  <2>. QED  BY <2>2, <2>3, <2>4, <2>5, <2>6, Zenon DEF CutsWell
<1>3. CASE ~(o + 1 > b \/ n < 2 \/ o + n > b)
  <2>1. PICK p \in (o + 1)..b : p = o + n
    BY <1>3
  <2>2. PICK c \in p..b : \E d :
          /\ f[p] = [consumed |-> c, events |-> d]
          /\ EventList(d, p, c)
          /\ Events!LengthsTrue /\ Boundary(p) => Boundary(c) /\ Complete(d, p, c) /\ Partial(c, b)
    BY <2>1, Zenon DEF CutsWell
  <2>3. PICK d :
          /\ f[p] = [consumed |-> c, events |-> d]
          /\ EventList(d, p, c)
          /\ Events!LengthsTrue /\ Boundary(p) => Boundary(c) /\ Complete(d, p, c) /\ Partial(c, b)
    BY <2>2, Zenon
  <2>4. PICK e : e = Events!Decode(o, p)
    OBVIOUS
  <2>5. p \in Nat /\ c \in Nat /\ o <= p /\ p <= c /\ c \in o..b
    <3>1. p \in Nat /\ o <= p
      BY <2>1
    <3>. QED  BY <3>1
  <2>6. f[o] = [consumed |-> c, events |-> e \o d]
    <3>1. CutAt(f, o, b) = Behind(Events!Decode(o, o + n), f[o + n])
      BY <1>1, <1>3, CutGoes
    <3>2. PICK r : r = f[p]
      OBVIOUS
    <3>3. r = [consumed |-> c, events |-> d]
      BY <2>3, <3>2
    <3>4. Behind(e, r) = [consumed |-> c, events |-> e \o d]
      <4>1. r.events = d
        BY <3>3
      <4>2. Behind(e, r) = [r EXCEPT !.events = e \o d]
        BY <4>1, Zenon DEF Behind
      <4>3. PICK x : x = e \o d
        OBVIOUS
      <4>4. [r EXCEPT !.events = x] = [consumed |-> c, events |-> x]
        BY <3>3
      <4>. QED  BY <4>2, <4>3, <4>4, Zenon
    <3>. QED  BY <2>1, <2>4, <3>1, <3>2, <3>4, Zenon
  <2>7. EventList(e, o, p)
    BY <2>4, <2>5, DecodedList
  <2>8. /\ EventList(e \o d, o, c)
        /\ Boundary(p) /\ Complete(e, o, p) /\ Complete(d, p, c) => Complete(e \o d, o, c)
    BY <2>3, <2>5, <2>7, ListsJoin
  <2>9. ASSUME Events!LengthsTrue, Boundary(o)  PROVE Boundary(p) /\ Complete(e, o, p)
    <3>1. PICK i \in 1..(Len(stream) + 1) : Events!Start(i) = o
      BY <2>9 DEF Boundary
    <3>2. i \in DOMAIN stream
      <4>. SUFFICES ASSUME i \notin DOMAIN stream PROVE FALSE
        OBVIOUS
      <4>1. i = Len(stream) + 1
        BY StreamIs
      <4>2. o = Events!Total
        BY <3>1, <4>1 DEF Events!Total
      <4>. QED  BY <2>5, <4>2
    <3>3. n = stream[i].size
      BY <1>1, <2>9, <3>1, <3>2, LengthIs DEF Events!LengthsTrue
    <3>4. Events!Start(i + 1) = p
      BY <2>1, <3>1, <3>2, <3>3, StartIs, StreamIs
    <3>5. Boundary(p)
      BY <3>2, <3>4, StreamIs DEF Boundary
    <3>6. Complete(e, o, p)
      BY <2>4, <2>5, <3>1, <3>2, <3>4, DecodedOne
    <3>. QED  BY <3>5, <3>6
  <2>10. Events!LengthsTrue /\ Boundary(o) => Boundary(c) /\ Complete(e \o d, o, c) /\ Partial(c, b)
    BY <2>3, <2>8, <2>9
  <2>. QED  BY <2>5, <2>6, <2>8, <2>10, Zenon DEF CutsWell
<1>. QED  BY <1>2, <1>3

LEMMA CutLists ==
  ASSUME IsStream, NEW a \in Nat, NEW b \in Nat, a <= b, b <= Events!Total
  PROVE  CutsWell(Events!Cut(a, b), a, b)
<1>0. PICK f : (\A o \in a..b : f[o] = CutAt(f, o, b)) /\ Events!Cut(a, b) = f[a]
  BY CutIs
<1>. DEFINE S == {n \in Nat : \A o \in a..b : b - o <= n => CutsWell(f[o], o, b)}
<1>1. 0 \in S
  <2>. SUFFICES ASSUME NEW o \in a..b, b - o <= 0 PROVE CutsWell(f[o], o, b)
    OBVIOUS
  <2>1. o \in Nat /\ o <= b /\ \A p \in (o + 1)..b : FALSE
    OBVIOUS
  <2>. QED  BY <1>0, <2>1, CutKeeps
<1>2. ASSUME NEW n \in Nat, n \in S  PROVE n + 1 \in S
  <2>. SUFFICES ASSUME NEW o \in a..b, b - o <= n + 1 PROVE CutsWell(f[o], o, b)
    OBVIOUS
  <2>1. o \in Nat /\ o <= b /\ \A p \in (o + 1)..b : p \in a..b /\ b - p <= n
    OBVIOUS
  <2>2. \A p \in (o + 1)..b : CutsWell(f[p], p, b)
    BY <1>2, <2>1
  <2>. QED  BY <1>0, <2>1, <2>2, CutKeeps
<1>3. b - a \in S
  <2>1. Nat \subseteq S
    <3>. HIDE DEF S
    <3>. QED  BY <1>1, <1>2, NumbersBySteps
  <2>. QED  BY <2>1
<1>4. a \in a..b /\ b - a <= b - a
  OBVIOUS
<1>. QED  BY <1>0, <1>3, <1>4

-----------------------------------------------------------------------------
\* What a step that leaves the stream alone leaves alone.
LEMMA StreamKept ==
  ASSUME stream' = stream, stray' = stray, NEW d, NEW a, NEW b
  PROVE  /\ IsStream' = IsStream
         /\ \A i : Events!Start(i)' = Events!Start(i)
         /\ \A i : Events!Intact(i)' = Events!Intact(i)
         /\ Events!Total' = Events!Total
         /\ Events!LengthsTrue' = Events!LengthsTrue
         /\ EventList(d, a, b)' = EventList(d, a, b)
         /\ Complete(d, a, b)' = Complete(d, a, b)
         /\ Boundary(a)' = Boundary(a)
         /\ Partial(a, b)' = Partial(a, b)
<1>1. \A i : Events!Start(i)' = Events!Start(i)
  BY Zenon DEF Events!Start
<1>2. \A i : Events!Intact(i)' = Events!Intact(i)
  BY Zenon DEF Events!Intact
<1>3. Events!Total' = Events!Total
  BY Zenon DEF Events!Total, Events!Start
<1>4. \A i : Events!EventOf(i)' = Events!EventOf(i)
  BY Zenon DEF Events!EventOf, Events!Readable
<1>5. EventRecords' = EventRecords
  BY Zenon DEF EventRecords
<1>6. IsStream' = IsStream
  BY Zenon DEF IsStream, Events!Messages, Events!HeaderKinds
<1>7. Events!LengthsTrue' = Events!LengthsTrue
  BY Zenon DEF Events!LengthsTrue
<1>8. EventList(d, a, b)' = EventList(d, a, b)
  BY <1>1, <1>2, <1>4, <1>5, Zenon DEF EventList
<1>9. Complete(d, a, b)' = Complete(d, a, b)
  BY <1>1, <1>2, Zenon DEF Complete
<1>10. Boundary(a)' = Boundary(a)
  BY <1>1, Zenon DEF Boundary
<1>11. Partial(a, b)' = Partial(a, b)
  BY <1>1, Zenon DEF Partial
<1>. QED  BY <1>1, <1>2, <1>3, <1>6, <1>7, <1>8, <1>9, <1>10, <1>11

LEMMA StreamFits ==
  ASSUME Events!StreamsAssumption, FrameInv
  PROVE  /\ IsStream /\ Events!Total \in Nat
         /\ arrived \in Nat /\ consumed \in Nat /\ consumed <= arrived /\ arrived <= Events!Total
<1>1. IsStream
  BY DEF FrameInv, Events!StreamsAssumption, IsStream
<1>2. Events!Total \in Nat
  <2>1. Len(stream) + 1 \in 1..(Len(stream) + 1)
    BY <1>1, StreamIs
  <2>. QED  BY <1>1, <2>1, StartsGrow DEF Events!Total
<1>. QED  BY <1>1, <1>2 DEF FrameInv

LEMMA FramesStart ==
  ASSUME Events!StreamsAssumption, Events!Init
  PROVE  FrameInv
<1>0. /\ stream \in Transmissions /\ stray \in StrayLengths /\ arrived = 0 /\ consumed = 0 /\ over # "eof"
  BY DEF Events!Init
<1>1. IsStream
  BY <1>0 DEF Events!StreamsAssumption, IsStream
<1>2. Events!Total \in Nat
  <2>1. Len(stream) + 1 \in 1..(Len(stream) + 1)
    BY <1>1, StreamIs
  <2>. QED  BY <1>1, <2>1, StartsGrow DEF Events!Total
<1>3. PICK d : d = out
  OBVIOUS
<1>4. d = <<>>
  BY <1>3 DEF Events!Init
<1>5. EventList(d, 0, 0)
  BY <1>4, EmptyList
<1>6. \A i \in DOMAIN stream : /\ ~(0 <= Events!Start(i) /\ Events!Start(i + 1) <= 0)
                               /\ Events!Start(i + 1) > 0
  BY <1>1, StreamIs
<1>7. Complete(d, 0, 0)
  BY <1>6, Zenon DEF Complete
<1>8. Partial(0, 0)
  BY <1>6, Zenon DEF Partial
<1>9. Boundary(0)
  <2>1. 1 \in 1..(Len(stream) + 1) /\ Events!Start(1) = 0
    BY <1>1, StreamIs, StartIs
  <2>. QED  BY <2>1 DEF Boundary
<1>10. /\ EventList(out, 0, consumed)
       /\ Boundary(consumed) /\ Complete(out, 0, consumed) /\ Partial(consumed, arrived)
  BY <1>0, <1>3, <1>5, <1>7, <1>8, <1>9, Zenon
<1>11. arrived \in Nat /\ arrived <= Events!Total /\ consumed \in Nat /\ consumed <= arrived
  BY <1>0, <1>2
<1>. QED  BY <1>0, <1>10, <1>11, Zenon DEF FrameInv

LEMMA ArriveKeeps ==
  ASSUME Events!StreamsAssumption, FrameInv, Events!Arrive
  PROVE  FrameInv'
<1>0. stream' = stream /\ stray' = stray /\ over' = over /\ over = "no"
  BY DEF Events!Arrive
<1>1. IsStream /\ Events!Total \in Nat /\ arrived \in Nat /\ consumed \in Nat /\ consumed <= arrived
  BY StreamFits
<1>2. PICK a \in (arrived + 1)..Events!Total : a = arrived'
  BY DEF Events!Arrive
<1>3. PICK k \in Nat : k = consumed
  BY <1>1
<1>4. PICK o : o = out
  OBVIOUS
<1>5. a \in Nat /\ k <= a /\ a <= Events!Total
  BY <1>1, <1>2, <1>3
<1>6. CutsWell(Events!Cut(k, a), k, a)
  BY <1>1, <1>5, CutLists
<1>7. PICK c \in k..a : \E d :
        /\ Events!Cut(k, a) = [consumed |-> c, events |-> d]
        /\ EventList(d, k, c)
        /\ Events!LengthsTrue /\ Boundary(k) => Boundary(c) /\ Complete(d, k, c) /\ Partial(c, a)
  BY <1>6, Zenon DEF CutsWell
<1>8. PICK d :
        /\ Events!Cut(k, a) = [consumed |-> c, events |-> d]
        /\ EventList(d, k, c)
        /\ Events!LengthsTrue /\ Boundary(k) => Boundary(c) /\ Complete(d, k, c) /\ Partial(c, a)
  BY <1>7, Zenon
<1>9. PICK e : e = o \o d
  OBVIOUS
<1>10. consumed' = c /\ out' = e
  <2>1. consumed' = Events!Cut(consumed, arrived').consumed /\ out' = out \o Events!Cut(consumed, arrived').events
    BY Zenon DEF Events!Arrive
  <2>2. consumed' = Events!Cut(k, a).consumed /\ out' = o \o Events!Cut(k, a).events
    BY <1>2, <1>3, <1>4, <2>1, Zenon
  <2>3. Events!Cut(k, a).consumed = c /\ Events!Cut(k, a).events = d
    BY <1>8
  <2>. QED  BY <1>9, <2>2, <2>3, Zenon
<1>11. EventList(o, 0, k) /\ (Events!LengthsTrue => Boundary(k) /\ Complete(o, 0, k))
  BY <1>3, <1>4, Zenon DEF FrameInv
<1>12. c \in Nat /\ k <= c /\ c <= a /\ 0 <= k
  BY <1>5
<1>13. EventList(e, 0, c) /\ (Events!LengthsTrue => Boundary(c) /\ Complete(e, 0, c) /\ Partial(c, a))
  <2>1. /\ EventList(o \o d, 0, c)
        /\ Boundary(k) /\ Complete(o, 0, k) /\ Complete(d, k, c) => Complete(o \o d, 0, c)
    BY <1>1, <1>8, <1>11, <1>12, ListsJoin
  <2>. QED  BY <1>8, <1>9, <1>11, <2>1, Zenon
<1>14. /\ EventList(e, 0, c)'
       /\ Events!LengthsTrue' => Boundary(c)' /\ Complete(e, 0, c)' /\ Partial(c, a)'
       /\ Events!Total' = Events!Total
  BY <1>0, <1>13, StreamKept, Zenon
<1>15. EventList(out, 0, consumed)'
  BY <1>10, <1>14, Zenon DEF EventList
<1>16. ASSUME Events!LengthsTrue'
       PROVE  Boundary(consumed)' /\ Complete(out, 0, consumed)' /\ Partial(consumed, arrived)'
  <2>1. Boundary(consumed)'
    BY <1>10, <1>14, <1>16, Zenon DEF Boundary
  <2>2. Complete(out, 0, consumed)'
    BY <1>10, <1>14, <1>16, Zenon DEF Complete
  <2>3. Partial(consumed, arrived)'
    BY <1>2, <1>10, <1>14, <1>16, Zenon DEF Partial
  <2>. QED  BY <2>1, <2>2, <2>3
<1>17. /\ stream' \in Transmissions /\ stray' \in StrayLengths /\ over' # "eof"
  BY <1>0 DEF FrameInv
<1>18. arrived' \in Nat /\ arrived' <= Events!Total' /\ consumed' \in Nat /\ consumed' <= arrived'
  BY <1>2, <1>5, <1>10, <1>12, <1>14
<1>. QED  BY <1>15, <1>16, <1>17, <1>18, Zenon DEF FrameInv

LEMMA FramesLast ==
  ASSUME Events!StreamsAssumption, FrameInv, Events!End \/ UNCHANGED Events!vars
  PROVE  FrameInv'
<1>0. /\ stream' = stream /\ stray' = stray /\ arrived' = arrived /\ consumed' = consumed /\ out' = out
      /\ over' = "eof" => over = "eof" \/ arrived = Events!Total
  BY DEF Events!End, Events!vars
<1>1. PICK a \in Nat : a = arrived
  BY StreamFits
<1>2. PICK c \in Nat : c = consumed
  BY StreamFits
<1>3. PICK e : e = out
  OBVIOUS
<1>4. EventList(e, 0, c) /\ (Events!LengthsTrue => Boundary(c) /\ Complete(e, 0, c) /\ Partial(c, a))
  BY <1>1, <1>2, <1>3, Zenon DEF FrameInv
<1>5. /\ EventList(e, 0, c)'
      /\ Events!LengthsTrue' => Boundary(c)' /\ Complete(e, 0, c)' /\ Partial(c, a)'
      /\ Events!Total' = Events!Total
  BY <1>0, <1>4, StreamKept, Zenon
<1>6. arrived' = a /\ consumed' = c /\ out' = e
  BY <1>0, <1>1, <1>2, <1>3
<1>7. EventList(out, 0, consumed)'
  BY <1>5, <1>6, Zenon DEF EventList
<1>8. ASSUME Events!LengthsTrue'
       PROVE  Boundary(consumed)' /\ Complete(out, 0, consumed)' /\ Partial(consumed, arrived)'
  <2>1. Boundary(consumed)'
    BY <1>5, <1>6, <1>8, Zenon DEF Boundary
  <2>2. Complete(out, 0, consumed)'
    BY <1>5, <1>6, <1>8, Zenon DEF Complete
  <2>3. Partial(consumed, arrived)'
    BY <1>5, <1>6, <1>8, Zenon DEF Partial
  <2>. QED  BY <2>1, <2>2, <2>3
<1>9. /\ stream' \in Transmissions /\ stray' \in StrayLengths
      /\ over' = "eof" => arrived' = Events!Total'
  BY <1>0, <1>5 DEF FrameInv
<1>10. arrived' \in Nat /\ arrived' <= Events!Total' /\ consumed' \in Nat /\ consumed' <= arrived'
  BY <1>0, <1>5, StreamFits
<1>. QED  BY <1>7, <1>8, <1>9, <1>10, Zenon DEF FrameInv

-----------------------------------------------------------------------------
\* Two lists of all events are the same.
LEMMA NextAlike ==
  ASSUME IsStream, NEW d, NEW e, NEW a \in Nat, NEW b \in Nat,
         EventList(d, a, b), EventList(e, a, b), Complete(e, a, b),
         NEW n \in Nat, n + 1 <= Len(d), n <= Len(e), \A k \in 1..n : d[k] = e[k]
  PROVE  n + 1 <= Len(e) /\ e[n + 1].of <= d[n + 1].of
<1>1. /\ Len(d) \in Nat /\ \A k \in 1..Len(d) : d[k].of \in DOMAIN stream
      /\ Len(e) \in Nat /\ \A k \in 1..Len(e) : e[k].of \in DOMAIN stream
  <2>1. \A r \in EventRecords : r.of \in DOMAIN stream
    BY DEF EventRecords
  <2>2. d \in Seq(EventRecords) /\ e \in Seq(EventRecords)
    BY DEF EventList
  <2>3. /\ Len(d) \in Nat /\ \A k \in 1..Len(d) : d[k] \in EventRecords
        /\ Len(e) \in Nat /\ \A k \in 1..Len(e) : e[k] \in EventRecords
    BY <2>2
  <2>. QED  BY <2>1, <2>3
<1>2. n + 1 \in 1..Len(d) /\ \A k \in 1..n : k \in 1..Len(d) /\ k < n + 1
  BY <1>1
<1>3. PICK i \in DOMAIN stream : i = d[n + 1].of
  BY <1>1, <1>2
<1>4. Events!Intact(i) /\ a <= Events!Start(i) /\ Events!Start(i + 1) <= b
  BY <1>2, <1>3 DEF EventList
<1>5. PICK k \in 1..Len(e) : e[k].of = i
  BY <1>4, Zenon DEF Complete
<1>6. i \in Nat
  BY StreamIs
<1>7. ~(k <= n)
  <2>. SUFFICES ASSUME k <= n PROVE FALSE
    OBVIOUS
  <2>1. k \in 1..n
    BY <1>1
  <2>2. d[k].of < d[n + 1].of
    BY <1>2, <2>1, Zenon DEF EventList
  <2>3. d[k].of = i
    BY <1>5, <2>1
  <2>. QED  BY <1>3, <1>6, <2>2, <2>3
<1>8. n + 1 <= k /\ k <= Len(e) /\ n + 1 \in 1..Len(e)
  BY <1>1, <1>7
<1>9. CASE n + 1 = k
  BY <1>3, <1>5, <1>6, <1>8, <1>9
<1>10. CASE n + 1 < k
  <2>1. e[n + 1].of < e[k].of
    BY <1>8, <1>10, Zenon DEF EventList
  <2>2. e[n + 1].of \in Nat
    <3>1. e[n + 1].of \in DOMAIN stream
      BY <1>1, <1>8
    <3>. QED  BY <3>1, StreamIs
  <2>3. PICK x \in Nat : x = e[n + 1].of
    BY <2>2
  <2>4. x < i
    BY <1>5, <2>1, <2>3
  <2>5. x <= i
    BY <1>6, <2>4
  <2>. QED  BY <1>3, <1>8, <2>3, <2>5
<1>11. n + 1 = k \/ n + 1 < k
  BY <1>8
<1>. QED  BY <1>9, <1>10, <1>11

LEMMA ListsAlike ==
  ASSUME IsStream, NEW d, NEW e, NEW a \in Nat, NEW b \in Nat,
         EventList(d, a, b), EventList(e, a, b), Complete(d, a, b), Complete(e, a, b)
  PROVE  d = e
<1>1. /\ d \in Seq(EventRecords) /\ Len(d) \in Nat
      /\ e \in Seq(EventRecords) /\ Len(e) \in Nat
  <2>1. d \in Seq(EventRecords) /\ e \in Seq(EventRecords)
    BY DEF EventList
  <2>. QED  BY <2>1
<1>2. \A k \in 1..Len(d) : Events!EventOf(d[k].of) = <<d[k]>> /\ d[k].of \in Nat
  <2>1. \A k \in 1..Len(d) : d[k] \in EventRecords
    BY <1>1
  <2>2. \A r \in EventRecords : r.of \in Nat
    BY StreamIs DEF EventRecords
  <2>3. \A k \in 1..Len(d) : Events!EventOf(d[k].of) = <<d[k]>>
    BY Zenon DEF EventList
  <2>. QED  BY <2>1, <2>2, <2>3
<1>3. \A k \in 1..Len(e) : Events!EventOf(e[k].of) = <<e[k]>> /\ e[k].of \in Nat
  <2>1. \A k \in 1..Len(e) : e[k] \in EventRecords
    BY <1>1
  <2>2. \A r \in EventRecords : r.of \in Nat
    BY StreamIs DEF EventRecords
  <2>3. \A k \in 1..Len(e) : Events!EventOf(e[k].of) = <<e[k]>>
    BY Zenon DEF EventList
  <2>. QED  BY <2>1, <2>2, <2>3
<1>. DEFINE S == {n \in Nat : n <= Len(d) \/ n <= Len(e) =>
                                 n <= Len(d) /\ n <= Len(e) /\ \A k \in 1..n : d[k] = e[k]}
<1>4. 0 \in S
  BY <1>1
<1>5. ASSUME NEW n \in Nat, n \in S  PROVE n + 1 \in S
  <2>. SUFFICES ASSUME n + 1 <= Len(d) \/ n + 1 <= Len(e)
                PROVE  n + 1 <= Len(d) /\ n + 1 <= Len(e) /\ \A k \in 1..(n + 1) : d[k] = e[k]
    OBVIOUS
  <2>1. n <= Len(d) /\ n <= Len(e) /\ \A k \in 1..n : d[k] = e[k] /\ e[k] = d[k]
    BY <1>1, <1>5
  <2>2. n + 1 <= Len(d) /\ n + 1 <= Len(e)
    BY <2>1, NextAlike
  <2>3. e[n + 1].of <= d[n + 1].of /\ d[n + 1].of <= e[n + 1].of
    BY <2>1, <2>2, NextAlike
  <2>4. n + 1 \in 1..Len(d) /\ n + 1 \in 1..Len(e)
    BY <1>1, <2>2
  <2>5. e[n + 1].of = d[n + 1].of
    <3>1. PICK x \in Nat : x = e[n + 1].of
      BY <1>3, <2>4
    <3>2. PICK y \in Nat : y = d[n + 1].of
      BY <1>2, <2>4
    <3>. QED  BY <2>3, <3>1, <3>2
  <2>6. <<d[n + 1]>> = <<e[n + 1]>>
    BY <1>2, <1>3, <2>4, <2>5
  <2>7. d[n + 1] = e[n + 1]
    BY <2>6
  <2>8. \A k \in 1..(n + 1) : k \in 1..n \/ k = n + 1
    OBVIOUS
  <2>. QED  BY <2>1, <2>2, <2>7, <2>8
<1>6. Nat \subseteq S
  <2>. HIDE DEF S
  <2>. QED  BY <1>4, <1>5, NumbersBySteps
<1>7. Len(d) <= Len(e) /\ (\A k \in 1..Len(d) : d[k] = e[k]) /\ Len(e) <= Len(d)
  BY <1>1, <1>6
<1>8. Len(d) = Len(e)
  BY <1>1, <1>7
<1>. QED  BY <1>1, <1>7, <1>8

\* What has wholly arrived has been cut off.
LEMMA NoneWaits ==
  ASSUME IsStream, NEW c \in Nat, NEW a \in Nat, Boundary(c), Partial(c, a),
         NEW i \in DOMAIN stream, Events!Start(i + 1) <= a
  PROVE  Events!Start(i + 1) <= c
<1>. SUFFICES ASSUME ~(Events!Start(i + 1) <= c) PROVE FALSE
  OBVIOUS
<1>1. c <= Events!Start(i)
  BY Apart
<1>2. PICK m \in DOMAIN stream : Events!Start(m) = c /\ Events!Start(m + 1) <= a
  BY <1>1, FirstThere
<1>3. Events!Start(m + 1) > a /\ Events!Start(m + 1) \in Nat
  BY <1>2, StreamIs DEF Partial
<1>. QED  BY <1>2, <1>3

LEMMA FrameKeepsDecoded ==
  ASSUME Events!StreamsAssumption, FrameInv
  PROVE  Events!FramesDecoded
<1>0. /\ IsStream /\ arrived \in Nat /\ consumed \in Nat /\ consumed <= arrived
      /\ EventList(out, 0, consumed)
  BY StreamFits DEF FrameInv
<1>1. PICK d : d = out
  OBVIOUS
<1>2. PICK c \in Nat : c = consumed
  BY <1>0
<1>3. PICK a \in Nat : a = arrived
  BY <1>0
<1>4. EventList(d, 0, c) /\ (Events!LengthsTrue => Boundary(c) /\ Complete(d, 0, c) /\ Partial(c, a))
  BY <1>1, <1>2, <1>3, Zenon DEF FrameInv
<1>5. /\ Len(d) \in Nat /\ DOMAIN d = 1..Len(d)
      /\ \A k \in 1..Len(d) : d[k].of \in DOMAIN stream
  <2>1. \A r \in EventRecords : r.of \in DOMAIN stream
    BY DEF EventRecords
  <2>2. d \in Seq(EventRecords)
    BY <1>4 DEF EventList
  <2>3. Len(d) \in Nat /\ DOMAIN d = 1..Len(d) /\ \A k \in 1..Len(d) : d[k] \in EventRecords
    BY <2>2
  <2>. QED  BY <2>1, <2>3
<1>6. \A k \in DOMAIN d : Events!Intact(d[k].of)
  BY <1>4, <1>5 DEF EventList
<1>7. \A k \in 2..Len(d) : d[k - 1].of < d[k].of
  <2>. SUFFICES ASSUME NEW k \in 2..Len(d) PROVE d[k - 1].of < d[k].of
    OBVIOUS
  <2>1. k - 1 \in 1..Len(d) /\ k \in 1..Len(d) /\ k - 1 < k
    BY <1>5
  <2>. QED  BY <1>4, <2>1, Zenon DEF EventList
<1>8. ASSUME Events!LengthsTrue
      PROVE  {d[k].of : k \in DOMAIN d} = Events!IntactIn(a) /\ Events!NothingWaits
  <2>1. ASSUME NEW i \in DOMAIN stream, Events!Start(i + 1) <= a
        PROVE  Events!Start(i + 1) <= c
    BY <1>0, <1>4, <1>8, <2>1, NoneWaits
  <2>2. ASSUME NEW k \in DOMAIN d  PROVE d[k].of \in Events!IntactIn(a)
    <3>1. PICK i \in DOMAIN stream : i = d[k].of
      BY <1>5, <2>2
    <3>2. Events!Intact(i) /\ Events!Start(i + 1) <= c
      BY <1>4, <1>5, <2>2, <3>1 DEF EventList
    <3>3. Events!Start(i + 1) <= a
      <4>1. Events!Start(i + 1) \in Nat /\ c <= a
        BY <1>0, <1>2, <1>3, StreamIs
      <4>. QED  BY <3>2, <4>1
    <3>. QED  BY <3>1, <3>2, <3>3 DEF Events!IntactIn
  <2>3. ASSUME NEW i \in Events!IntactIn(a)  PROVE \E k \in DOMAIN d : d[k].of = i
    <3>1. i \in DOMAIN stream /\ Events!Intact(i) /\ Events!Start(i + 1) <= a
      BY <2>3 DEF Events!IntactIn
    <3>2. Events!Start(i + 1) <= c /\ 0 <= Events!Start(i)
      BY <1>0, <2>1, <3>1, StreamIs
    <3>. QED  BY <1>4, <1>5, <1>8, <3>1, <3>2 DEF Complete
  <2>4. \A i \in DOMAIN stream : Events!Start(i + 1) \notin (c + 1)..a
    <3>. SUFFICES ASSUME NEW i \in DOMAIN stream, Events!Start(i + 1) \in (c + 1)..a PROVE FALSE
      OBVIOUS
    <3>1. Events!Start(i + 1) <= a /\ Events!Start(i + 1) > c /\ Events!Start(i + 1) \in Nat
      BY <1>0, StreamIs
    <3>2. Events!Start(i + 1) <= c
      BY <2>1, <3>1
    <3>. QED  BY <3>1, <3>2
  <2>5. Events!NothingWaits
    BY <1>2, <1>3, <2>4 DEF Events!NothingWaits
  <2>6. {d[k].of : k \in DOMAIN d} = Events!IntactIn(a)
    BY <2>2, <2>3
  <2>. QED  BY <2>5, <2>6
<1>. QED  BY <1>1, <1>3, <1>6, <1>7, <1>8, Zenon DEF Events!FramesDecoded, Events!Decoded

LEMMA FrameKeepsWhole ==
  ASSUME Events!StreamsAssumption, FrameInv
  PROVE  Events!WholeAsInParts
<1>. SUFFICES ASSUME over = "eof", \A i \in DOMAIN stream : stream[i].prelude, Len(stream) <= EventLimit
              PROVE  out = Events!Decode(0, Events!Total)
  BY Zenon DEF Events!WholeAsInParts
<1>0. IsStream /\ Events!Total \in Nat /\ consumed \in Nat /\ consumed <= Events!Total /\ arrived = Events!Total
  BY StreamFits DEF FrameInv
<1>1. Events!LengthsTrue
  BY <1>0 DEF IsStream, Events!LengthsTrue
<1>2. PICK b \in Nat : b = Events!Total
  BY <1>0
<1>3. PICK c \in Nat : c = consumed
  BY <1>0
<1>4. PICK d : d = out
  OBVIOUS
<1>5. EventList(d, 0, c) /\ Boundary(c) /\ Complete(d, 0, c) /\ Partial(c, b)
  BY <1>0, <1>1, <1>2, <1>3, <1>4, Zenon DEF FrameInv
<1>6. c = b
  <2>1. PICK m \in 1..(Len(stream) + 1) : Events!Start(m) = c
    BY <1>5 DEF Boundary
  <2>2. CASE m = Len(stream) + 1
    BY <1>2, <2>1, <2>2 DEF Events!Total
  <2>3. CASE m # Len(stream) + 1
    <3>1. m \in DOMAIN stream /\ m + 1 \in 1..(Len(stream) + 1) /\ Len(stream) + 1 \in 1..(Len(stream) + 1)
          /\ (m + 1 = Len(stream) + 1 \/ m + 1 < Len(stream) + 1)
      BY <1>0, <2>3, StreamIs
    <3>2. Events!Start(m + 1) > b /\ Events!Start(m + 1) \in Nat
      BY <1>0, <1>5, <2>1, <3>1, StreamIs DEF Partial
    <3>3. m + 1 < Len(stream) + 1 => Events!Start(m + 1) < Events!Start(Len(stream) + 1)
      BY <1>0, <3>1, StartsGrow
    <3>4. Events!Start(Len(stream) + 1) = b
      BY <1>2 DEF Events!Total
    <3>. QED  BY <3>1, <3>2, <3>3, <3>4
  <2>. QED  BY <2>2, <2>3
<1>7. Undamaged(0, b) /\ Boundary(0)
  <2>1. 1 \in 1..(Len(stream) + 1) /\ Events!Start(1) = 0
    BY <1>0, StreamIs, StartIs
  <2>. QED  BY <2>1 DEF Boundary, Undamaged
<1>8. PICK e : e = Events!Decode(0, b)
  OBVIOUS
<1>9. EventList(e, 0, b) /\ Complete(e, 0, b)
  BY <1>0, <1>7, <1>8, DecodedList
<1>10. d = e
  BY <1>0, <1>5, <1>6, <1>9, ListsAlike
<1>. QED  BY <1>2, <1>4, <1>8, <1>10

\* Events are those of intact messages, each once and in order; with true lengths
\* every one that has arrived is there, and the whole gives what its parts gave.
THEOREM FramesStayWhole ==
  ASSUME Events!StreamsAssumption
  PROVE  Events!Spec => [](Events!FramesDecoded /\ Events!WholeAsInParts)
<1>1. Events!Init => FrameInv
  BY FramesStart
<1>2. FrameInv /\ [Events!Next]_(Events!vars) => FrameInv'
  BY ArriveKeeps, FramesLast DEF Events!Next
<1>3. FrameInv => Events!FramesDecoded /\ Events!WholeAsInParts
  BY FrameKeepsDecoded, FrameKeepsWhole
<1>. QED  BY <1>1, <1>2, <1>3, PTL DEF Events!Spec

-----------------------------------------------------------------------------
\* Realtime sessions (Realtime)

CONSTANTS VoiceSessions, SideWords, ReachableSessions, SessionLimit, MaxVoiceWindows

VARIABLES granted, windows, opened, admitted, wpc, said, side, queue, held, heard,
          ended

Voice == INSTANCE Realtime WITH
    Sessions <- VoiceSessions, MaxWords <- SideWords, Reachable <- ReachableSessions,
    Limit <- SessionLimit, MaxWindows <- MaxVoiceWindows,
    active <- granted, count <- opened, pc <- wpc, got <- heard

\* Realtime sessions: of what a side has said, the first words have reached the
\* other, if it is there; at most one is with the pump, and the rest are in the
\* queue, with the frame that ends them behind.

Frames == [kind : {"word", "close", "error"}, n : Nat]

VoiceTypes ==
    /\ DOMAIN wpc = VoiceSessions /\ DOMAIN ended = VoiceSessions
    /\ said \in [VoiceSessions -> [Voice!Sides -> Nat]]
    /\ side \in [VoiceSessions -> [Voice!Sides -> {"open", "closed", "gone"}]]
    /\ queue \in [VoiceSessions -> [Voice!Sides -> Seq(Frames)]]
    /\ held \in [VoiceSessions -> [Voice!Sides -> Frames \cup {None}]]
    /\ heard \in [VoiceSessions -> [Voice!Sides -> Seq(Frames)]]

\* The queue has the words after the first t, and the end if there is one and
\* the pump has not taken it.
Waiting(s, x, t) ==
    LET q == queue[s][x]
        owed == said[s][x] - t
    IN  /\ Len(q) = owed \/ (Len(q) = owed + 1 /\ side[s][x] # "open")
        /\ \A n \in 1..owed : q[n] = Voice!Word(t + n)
        /\ Len(q) = owed + 1 => q[Len(q)] \in {Voice!Final("close"), Voice!Final("error")}
        /\ Len(q) = owed /\ side[s][x] # "open" => owed = 0

\* The pump has the last of the first t words, or the end, or nothing.
InHand(s, x, t) ==
    \/ held[s][x] = None
    \/ t > 0 /\ held[s][x] = Voice!Word(t)
    \/ /\ held[s][x] = Voice!Final("close") /\ x = "upstream"
       /\ t = said[s][x] /\ side[s][x] # "open"

\* The first g words have arrived, and after them at most the end.
HasHeard(s, x, g) ==
    LET h == heard[s][Voice!Other(x)]
    IN  /\ Len(h) = g \/ (Len(h) = g + 1 /\ h[g + 1] = Voice!Final("close") /\ wpc[s] = "over")
        /\ \A n \in 1..g : h[n] = Voice!Word(n)
        /\ ended[s] = <<x, "close">> => g = said[s][x] /\ side[s][x] # "open"

\* What has arrived, where the other side is there: all that was taken and is
\* no longer in hand.
Delivered(s, x, t) ==
    side[s][Voice!Other(x)] = "open" =>
        HasHeard(s, x, IF held[s][x] # None /\ held[s][x].kind = "word" THEN t - 1 ELSE t)

Relayed(s, x) ==
    \E t \in 0..said[s][x] : Waiting(s, x, t) /\ InHand(s, x, t) /\ Delivered(s, x, t)

VoiceInv ==
    /\ VoiceTypes
    /\ \A s \in VoiceSessions, x \in Voice!Sides : Relayed(s, x)

WindowInv ==
    /\ opened \in Nat /\ IsFiniteSet(admitted)
    /\ Cardinality(admitted) <= opened /\ Voice!WindowHolds

\* One place of a session changes.
LEMMA PlaceChanged ==
  ASSUME NEW S, NEW T, NEW V, NEW f \in [S -> [T -> V]], NEW s \in S, NEW x \in T, NEW v \in V,
         NEW g, g = [f EXCEPT ![s] = [f[s] EXCEPT ![x] = v]]
  PROVE  /\ g \in [S -> [T -> V]] /\ g[s][x] = v
         /\ \A r \in S, z \in T : r # s \/ z # x => g[r][z] = f[r][z]
<1>1. [f[s] EXCEPT ![x] = v] \in [T -> V]
  OBVIOUS
<1>2. g \in [S -> [T -> V]]
  BY <1>1
<1>3. g[s] = [f[s] EXCEPT ![x] = v] /\ \A r \in S : r # s => g[r] = f[r]
  OBVIOUS
<1>. QED  BY <1>2, <1>3

\* Nothing moves from x to its other side.
LEMMA DirectionKept ==
  ASSUME NEW s, NEW x, Relayed(s, x),
         said'[s][x] = said[s][x], side'[s][x] = side[s][x],
         queue'[s][x] = queue[s][x], held'[s][x] = held[s][x],
         side'[s][Voice!Other(x)] = "open" =>
             /\ side[s][Voice!Other(x)] = "open"
             /\ heard'[s][Voice!Other(x)] = heard[s][Voice!Other(x)]
             /\ wpc[s] = "over" => wpc'[s] = "over"
             /\ ended'[s] = <<x, "close">> => ended[s] = <<x, "close">>
  PROVE  Relayed(s, x)'
<1>1. PICK t \in 0..said[s][x] : Waiting(s, x, t) /\ InHand(s, x, t) /\ Delivered(s, x, t)
  BY DEF Relayed
<1>2. Waiting(s, x, t)' /\ InHand(s, x, t)'
  BY <1>1 DEF Waiting, InHand, Voice!Word, Voice!Final
<1>3. Delivered(s, x, t)'
  <2>. DEFINE g == IF held[s][x] # None /\ held[s][x].kind = "word" THEN t - 1 ELSE t
  <2>. SUFFICES ASSUME side'[s][Voice!Other(x)] = "open" PROVE HasHeard(s, x, g)'
    BY DEF Delivered, HasHeard, Voice!Other, Voice!Word, Voice!Final
  <2>1. HasHeard(s, x, g)
    BY <1>1 DEF Delivered
  <2>. QED  BY <2>1 DEF HasHeard, Voice!Word, Voice!Final, Voice!Other
<1>4. t \in 0..said'[s][x]
  OBVIOUS
<1>. QED  BY <1>2, <1>3, <1>4, Zenon DEF Relayed

LEMMA VoiceStarts ==
  ASSUME Voice!LimitsAssumption, Voice!Init
  PROVE  VoiceInv /\ WindowInv
<1>. USE DEF Voice!Init
<1>1. VoiceTypes
  BY DEF VoiceTypes, Frames, Voice!Sides
<1>2. ASSUME NEW s \in VoiceSessions, NEW x \in Voice!Sides PROVE Relayed(s, x)
  <2>1. said[s][x] = 0 /\ side[s][x] = "open" /\ queue[s][x] = <<>> /\ held[s][x] = None
        /\ heard[s][Voice!Other(x)] = <<>> /\ ended[s] = None
    BY <1>2 DEF Voice!Other, Voice!Sides
  <2>0. None # <<x, "close">>
    <3>2. <<x, "close">> \in Voice!Sides \X {"close", "error", "lost"}
      BY <1>2
    <3>. QED  BY <3>2 DEF Voice!LimitsAssumption
  <2>2. Waiting(s, x, 0) /\ InHand(s, x, 0) /\ HasHeard(s, x, 0)
    BY <2>0, <2>1 DEF Waiting, InHand, HasHeard
  <2>3. Delivered(s, x, 0)
    BY <2>1, <2>2, Zenon DEF Delivered
  <2>4. 0 \in 0..said[s][x]
    BY <2>1
  <2>. QED  BY <2>2, <2>3, <2>4, Zenon DEF Relayed
<1>3. WindowInv
  <2>1. IsFiniteSet({}) /\ Cardinality({}) = 0 /\ Voice!Cardinality({}) = Cardinality({})
    BY FS_EmptySet DEF Voice!Cardinality, Cardinality
  <2>. QED  BY <2>1 DEF WindowInv, Voice!WindowHolds, Voice!LimitsAssumption
<1>. QED  BY <1>1, <1>2, <1>3 DEF VoiceInv

\* A request on its way to the relay, and what happens elsewhere.
LEMMA VoiceElsewhere ==
  ASSUME VoiceInv, UNCHANGED <<said, side, queue, held, heard, ended>>,
         DOMAIN wpc' = VoiceSessions,
         \A s \in VoiceSessions : wpc[s] = "over" => wpc'[s] = "over"
  PROVE  VoiceInv'
<1>1. VoiceTypes'
  BY DEF VoiceInv, VoiceTypes
<1>2. ASSUME NEW s \in VoiceSessions, NEW x \in Voice!Sides PROVE Relayed(s, x)'
  BY <1>2, DirectionKept DEF VoiceInv
<1>3. Voice!Sides' = Voice!Sides
  BY DEF Voice!Sides
<1>. QED  BY <1>1, <1>2, <1>3 DEF VoiceInv

\* The pump that reads x takes the next of its queue.
LEMMA TakeKeeps ==
  ASSUME Voice!LimitsAssumption, VoiceInv,
         NEW s \in VoiceSessions, NEW x \in Voice!Sides, Voice!Take(s, x)
  PROVE  VoiceInv'
<1>. DEFINE q == queue[s][x]
<1>0. VoiceTypes /\ Relayed(s, x)
  BY DEF VoiceInv
<1>1. /\ held[s][x] = None /\ q # <<>> /\ q \in Seq(Frames)
      /\ queue' = [queue EXCEPT ![s] = [queue[s] EXCEPT ![x] = Tail(q)]]
      /\ UNCHANGED <<said, side, heard>>
  BY <1>0 DEF Voice!Take, VoiceTypes
<1>2. /\ Len(q) \in Nat \ {0} /\ Head(q) = q[1] /\ Len(Tail(q)) = Len(q) - 1
      /\ \A n \in 1..(Len(q) - 1) : Tail(q)[n] = q[n + 1]
      /\ Tail(q) \in Seq(Frames) /\ q[1] \in Frames /\ q[1] # None
  <2>. HIDE DEF q
  <2>. SUFFICES ASSUME q \in Seq(Frames), q # <<>>, None \notin Frames
                PROVE  /\ Len(q) \in Nat \ {0} /\ Head(q) = q[1] /\ Len(Tail(q)) = Len(q) - 1
                       /\ \A n \in 1..(Len(q) - 1) : Tail(q)[n] = q[n + 1]
                       /\ Tail(q) \in Seq(Frames) /\ q[1] \in Frames /\ q[1] # None
    BY <1>1 DEF Frames, Voice!LimitsAssumption
  <2>1. Len(q) \in Nat \ {0}
    OBVIOUS
  <2>2. q[1] \in Frames
    BY <2>1
  <2>. QED  BY <2>1, <2>2
<1>3. \/ /\ q[1].kind = "word" \/ (q[1].kind = "close" /\ x = "upstream")
         /\ held' = [held EXCEPT ![s] = [held[s] EXCEPT ![x] = q[1]]]
         /\ UNCHANGED <<wpc, ended>>
      \/ /\ q[1].kind = "error" \/ (q[1].kind = "close" /\ x = "client")
         /\ wpc' = [wpc EXCEPT ![s] = IF x = "client" THEN "closing" ELSE "over"]
         /\ ended' = ended \/ (ended[s] = None /\ ended' = [ended EXCEPT ![s] = <<x, q[1].kind>>])
         /\ UNCHANGED held
  BY <1>2 DEF Voice!Take, Voice!EndPump, Voice!Go
<1>4. VoiceTypes'
  <2>1. /\ DOMAIN wpc' = VoiceSessions /\ DOMAIN ended' = VoiceSessions
        /\ held' \in [VoiceSessions -> [Voice!Sides -> Frames \cup {None}]]
    <3>. HIDE DEF q
    <3>1. q[1] \in Frames
      BY <1>2
    <3>2. held' \in [VoiceSessions -> [Voice!Sides -> Frames \cup {None}]]
      <4>1. CASE held' = held
        BY <1>0, <4>1 DEF VoiceTypes
      <4>2. CASE held' = [held EXCEPT ![s] = [held[s] EXCEPT ![x] = q[1]]]
        <5>1. held \in [VoiceSessions -> [Voice!Sides -> Frames \cup {None}]]
          BY <1>0 DEF VoiceTypes
        <5>2. q[1] \in Frames \cup {None}
          BY <3>1
        <5>. QED  BY <4>2, <5>1, <5>2, PlaceChanged
      <4>. QED  BY <1>3, <4>1, <4>2
    <3>3. DOMAIN wpc' = DOMAIN wpc
      BY <1>3
    <3>4. DOMAIN ended' = DOMAIN ended
      BY <1>3
    <3>. QED  BY <1>0, <3>2, <3>3, <3>4 DEF VoiceTypes
  <2>2. queue' \in [VoiceSessions -> [Voice!Sides -> Seq(Frames)]]
    BY <1>0, <1>1, <1>2 DEF VoiceTypes
  <2>. QED  BY <1>0, <1>1, <2>1, <2>2 DEF VoiceTypes, Voice!Sides, Frames
<1>5. ASSUME NEW r \in VoiceSessions, NEW y \in Voice!Sides, r # s \/ y # x  PROVE Relayed(r, y)'
  <2>1. Relayed(r, y) /\ DOMAIN wpc = VoiceSessions /\ DOMAIN ended = VoiceSessions
    BY <1>0 DEF VoiceInv, VoiceTypes
  <2>2. queue'[r][y] = queue[r][y] /\ held'[r][y] = held[r][y]
    BY <1>0, <1>1, <1>3, <1>5 DEF VoiceTypes
  <2>3. ended'[r] = <<y, "close">> => ended[r] = <<y, "close">>
    BY <1>3, <1>5, <2>1
  <2>4. wpc[r] = "over" => wpc'[r] = "over"
    BY <1>3, <2>1 DEF Voice!Take, Voice!Running
  <2>. QED  BY <1>1, <2>1, <2>2, <2>3, <2>4, DirectionKept
<1>6. Relayed(s, x)'
  <2>0. PICK t \in 0..said[s][x] : Waiting(s, x, t) /\ Delivered(s, x, t)
    BY <1>0 DEF Relayed
  <2>1. Waiting(s, x, t) /\ (side[s][Voice!Other(x)] = "open" => HasHeard(s, x, t))
    BY <1>1, <2>0 DEF Delivered
  <2>2. said[s][x] \in Nat /\ t \in Nat /\ t <= said[s][x]
    BY <1>0 DEF VoiceTypes
  <2>l. PICK m \in Nat : m = said[s][x] - t
    BY <2>2
  <2>w. /\ Len(q) = m \/ (Len(q) = m + 1 /\ side[s][x] # "open")
        /\ \A n \in 1..m : q[n] = Voice!Word(t + n)
        /\ Len(q) = m + 1 => q[Len(q)] \in {Voice!Final("close"), Voice!Final("error")}
        /\ Len(q) = m /\ side[s][x] # "open" => m = 0
    BY <2>1, <2>l DEF Waiting
  <2>m. said[s][x] - (t + 1) = m - 1
    BY <2>2, <2>l
  <2>3. queue'[s][x] = Tail(q)
    BY <1>0, <1>1 DEF VoiceTypes
  <2>4. CASE m > 0
    <3>1. q[1] = Voice!Word(t + 1) /\ q[1].kind = "word"
      <4>. HIDE DEF q
      <4>1. 1 \in 1..m
        BY <2>4
      <4>2. q[1] = Voice!Word(t + 1)
        BY <2>w, <4>1, Zenon
      <4>3. Voice!Word(t + 1).kind = "word"
        BY DEF Voice!Word
      <4>. QED  BY <4>2, <4>3
    <3>2. held'[s][x] = Voice!Word(t + 1) /\ wpc' = wpc /\ ended' = ended
      BY <1>0, <1>3, <3>1 DEF VoiceTypes
    <3>3. Waiting(s, x, t + 1)'
      <4>1. ASSUME NEW n \in 1..(m - 1)  PROVE Tail(q)[n] = Voice!Word((t + 1) + n)
        <5>1. n + 1 \in 1..m /\ n \in 1..(Len(q) - 1)
          BY <2>w, <1>2
        <5>2. Tail(q)[n] = q[n + 1] /\ q[n + 1] = Voice!Word(t + (n + 1))
          BY <5>1, <2>w, <1>2, Zenon
        <5>3. t + (n + 1) = (t + 1) + n
          BY <2>2
        <5>. QED  BY <5>2, <5>3
      <4>2. /\ Len(Tail(q)) = m - 1 \/ (Len(Tail(q)) = (m - 1) + 1 /\ side[s][x] # "open")
            /\ Len(Tail(q)) = m - 1 /\ side[s][x] # "open" => m - 1 = 0
        <5>. HIDE DEF q
        <5>1. PICK k \in Nat : k = Len(q)
          BY <1>2
        <5>2. Len(Tail(q)) = k - 1
          BY <1>2, <5>1
        <5>3. /\ k = m \/ (k = m + 1 /\ side[s][x] # "open")
              /\ k = m /\ side[s][x] # "open" => m = 0
          BY <2>w, <5>1, Zenon
        <5>. QED  BY <5>2, <5>3
      <4>3. Len(Tail(q)) = (m - 1) + 1 => Tail(q)[Len(Tail(q))] \in {Voice!Final("close"), Voice!Final("error")}
        <5>. HIDE DEF q
        <5>1. ASSUME Len(Tail(q)) = (m - 1) + 1  PROVE Len(q) = m + 1 /\ Tail(q)[m] = q[m + 1] /\ Len(Tail(q)) = m
          <6>1. Len(q) \in Nat /\ Len(Tail(q)) = Len(q) - 1
            BY <1>2
          <6>2. Len(q) = m + 1 /\ Len(Tail(q)) = m
            BY <2>4, <5>1, <6>1
          <6>3. m \in 1..(Len(q) - 1)
            BY <2>4, <6>2
          <6>. QED  BY <1>2, <6>2, <6>3
        <5>. QED  BY <2>w, <5>1
      <4>. QED  BY <1>1, <2>3, <2>m, <4>1, <4>2, <4>3 DEF Waiting, Voice!Word, Voice!Final
    <3>4. InHand(s, x, t + 1)'
      BY <3>2, <2>2 DEF InHand, Voice!Word
    <3>5. ASSUME side'[s][Voice!Other(x)] = "open" PROVE HasHeard(s, x, t)'
      <4>1. HasHeard(s, x, t)
        BY <2>1, <1>1, <3>5
      <4>. QED  BY <4>1, <1>1, <3>2 DEF HasHeard, Voice!Word, Voice!Final, Voice!Other
    <3>6. held'[s][x] # None /\ held'[s][x].kind = "word" /\ (t + 1) - 1 = t
      BY <1>2, <2>2, <3>1, <3>2
    <3>7. t + 1 \in 0..said'[s][x]
      BY <1>1, <2>2, <2>4, <2>l
    <3>8. Delivered(s, x, t + 1)'
      BY <3>5, <3>6 DEF Delivered, HasHeard, Voice!Word, Voice!Final, Voice!Other
    <3>. QED  BY <3>3, <3>4, <3>7, <3>8, Zenon DEF Relayed
  <2>5. CASE m = 0
    <3>1. Len(q) = 1 /\ q[1] \in {Voice!Final("close"), Voice!Final("error")} /\ side[s][x] # "open"
          /\ t = said[s][x]
      <4>. HIDE DEF q
      <4>1. Len(q) = 1 /\ side[s][x] # "open"
        BY <1>2, <2>w, <2>5
      <4>2. q[1] \in {Voice!Final("close"), Voice!Final("error")}
        BY <2>w, <2>5, <4>1
      <4>. QED  BY <2>l, <2>2, <2>5, <4>1, <4>2
    <3>2. q[1].kind \in {"close", "error"} /\ (q[1].kind = "close" => q[1] = Voice!Final("close"))
      BY <3>1 DEF Voice!Final
    <3>3. Waiting(s, x, t)'
      <4>1. Len(Tail(q)) = 0 /\ queue'[s][x] = Tail(q) /\ said[s][x] - t = 0
        BY <1>2, <2>3, <2>5, <2>l, <3>1
      <4>2. said'[s][x] - t = 0 /\ Len(queue'[s][x]) = 0
        BY <1>1, <4>1
      <4>. QED  BY <4>2 DEF Waiting
    <3>4. held'[s][x] = None \/ (held'[s][x] = Voice!Final("close") /\ x = "upstream")
      BY <1>0, <1>1, <1>3, <3>2 DEF VoiceTypes
    <3>5. InHand(s, x, t)'
      BY <1>1, <3>1, <3>4 DEF InHand, Voice!Final
    <3>6. ~(held'[s][x] # None /\ held'[s][x].kind = "word")
      BY <3>4 DEF Voice!Final
    <3>7. ASSUME side'[s][Voice!Other(x)] = "open" PROVE HasHeard(s, x, t)'
      <4>1. HasHeard(s, x, t)
        BY <2>1, <1>1, <3>7
      <4>2. wpc[s] = "over" => FALSE
        BY DEF Voice!Take, Voice!Running
      <4>. QED  BY <4>1, <4>2, <1>1, <3>1 DEF HasHeard, Voice!Word, Voice!Final, Voice!Other
    <3>8. Delivered(s, x, t)'
      BY <3>6, <3>7 DEF Delivered, HasHeard, Voice!Word, Voice!Final, Voice!Other
    <3>9. t \in 0..said'[s][x]
      BY <1>1
    <3>. QED  BY <3>3, <3>5, <3>8, <3>9, Zenon DEF Relayed
  <2>. QED  BY <2>4, <2>5
<1>7. \A r \in VoiceSessions, y \in Voice!Sides : Relayed(r, y)'
  BY <1>5, <1>6
<1>. QED  BY <1>4, <1>7 DEF VoiceInv, Voice!Sides

\* What arrives last is the next word, or the end.
LEMMA HeardMore ==
  ASSUME NEW h \in Seq(Frames), NEW g \in Nat, NEW m \in Frames, Len(h) = g,
         \A n \in 1..g : h[n] = Voice!Word(n)
  PROVE  /\ Append(h, m) \in Seq(Frames) /\ Len(Append(h, m)) = g + 1
         /\ Append(h, m)[g + 1] = m
         /\ \A n \in 1..g : Append(h, m)[n] = Voice!Word(n)
  OBVIOUS

\* The pump that reads x sends what it has in hand to the other side.
LEMMA SendKeeps ==
  ASSUME Voice!LimitsAssumption, VoiceInv,
         NEW s \in VoiceSessions, NEW x \in Voice!Sides, Voice!Send(s, x)
  PROVE  VoiceInv'
<1>. DEFINE y == Voice!Other(x)
            m == held[s][x]
<1>0. VoiceTypes /\ Relayed(s, x) /\ y \in Voice!Sides /\ y # x
  BY DEF VoiceInv, Voice!Other, Voice!Sides
<1>1. /\ m # None /\ m \in Frames /\ wpc[s] # "over"
      /\ held' = [held EXCEPT ![s] = [held[s] EXCEPT ![x] = None]]
      /\ UNCHANGED <<said, side, queue>>
  BY <1>0 DEF Voice!Send, Voice!Running, VoiceTypes
<1>2. /\ side[s][y] # "open" => heard' = heard
      /\ side[s][y] = "open" => heard' = [heard EXCEPT ![s] = [heard[s] EXCEPT ![y] = Append(heard[s][y], m)]]
  BY DEF Voice!Send, Voice!Reached
<1>3. \/ m.kind # "close" /\ UNCHANGED <<wpc, ended>>
      \/ /\ wpc' = [wpc EXCEPT ![s] = IF x = "client" THEN "closing" ELSE "over"]
         /\ \/ ended' = ended
            \/ ended[s] = None /\ ended' = [ended EXCEPT ![s] = <<x, "close">>]
            \/ ended[s] = None /\ ended' = [ended EXCEPT ![s] = <<x, "lost">>]
         /\ side[s][y] = "open" => m.kind = "close"
  BY DEF Voice!Send, Voice!Reached, Voice!EndPump, Voice!Go
<1>4. VoiceTypes'
  <2>1. /\ held' \in [VoiceSessions -> [Voice!Sides -> Frames \cup {None}]]
        /\ Append(heard[s][y], m) \in Seq(Frames)
    BY <1>0, <1>1 DEF VoiceTypes
  <2>2. heard' \in [VoiceSessions -> [Voice!Sides -> Seq(Frames)]]
    <3>. HIDE DEF y, m
    <3>1. heard \in [VoiceSessions -> [Voice!Sides -> Seq(Frames)]]
      BY <1>0 DEF VoiceTypes
    <3>2. CASE side[s][y] = "open"
      <4>1. y \in Voice!Sides /\ Append(heard[s][y], m) \in Seq(Frames)
        BY <1>0, <2>1
      <4>2. heard' = [heard EXCEPT ![s] = [heard[s] EXCEPT ![y] = Append(heard[s][y], m)]]
        BY <1>2, <3>2
      <4>. QED  BY <3>1, <4>1, <4>2, PlaceChanged
    <3>. QED  BY <1>2, <3>1, <3>2
  <2>3. DOMAIN wpc' = DOMAIN wpc
    BY <1>3
  <2>4. DOMAIN ended' = DOMAIN ended
    BY <1>3
  <2>. QED  BY <1>0, <1>1, <2>1, <2>2, <2>3, <2>4 DEF VoiceTypes, Voice!Sides, Frames
<1>5. ASSUME NEW r \in VoiceSessions, NEW z \in Voice!Sides, r # s \/ z # x  PROVE Relayed(r, z)'
  <2>1. Relayed(r, z) /\ DOMAIN wpc = VoiceSessions /\ DOMAIN ended = VoiceSessions
    BY <1>0 DEF VoiceInv, VoiceTypes
  <2>2. held'[r][z] = held[r][z]
    BY <1>0, <1>1, <1>5 DEF VoiceTypes
  <2>3. heard'[r][Voice!Other(z)] = heard[r][Voice!Other(z)]
    <3>1. r # s \/ Voice!Other(z) # y
      BY <1>5 DEF Voice!Other, Voice!Sides
    <3>2. Voice!Other(z) \in Voice!Sides
      BY DEF Voice!Other, Voice!Sides
    <3>. HIDE DEF y, m
    <3>3. heard \in [VoiceSessions -> [Voice!Sides -> Seq(Frames)]] /\ Append(heard[s][y], m) \in Seq(Frames)
      BY <1>0, <1>1 DEF VoiceTypes
    <3>4. CASE side[s][y] = "open"
      BY <1>0, <1>2, <3>1, <3>2, <3>3, <3>4, PlaceChanged
    <3>. QED  BY <1>2, <3>4
  <2>4. ended'[r] = <<z, "close">> => ended[r] = <<z, "close">>
    BY <1>3, <1>5, <2>1
  <2>5. wpc[r] = "over" => wpc'[r] = "over"
    BY <1>1, <1>3, <2>1
  <2>. QED  BY <1>1, <2>1, <2>2, <2>3, <2>4, <2>5, DirectionKept
<1>6. Relayed(s, x)'
  <2>1. PICK t \in 0..said[s][x] : Waiting(s, x, t) /\ InHand(s, x, t) /\ Delivered(s, x, t)
    BY <1>0 DEF Relayed
  <2>2. said[s][x] \in Nat /\ t \in Nat /\ held'[s][x] = None
    BY <1>0, <1>1 DEF VoiceTypes
  <2>3. Waiting(s, x, t)' /\ InHand(s, x, t)'
    BY <1>1, <2>1, <2>2 DEF Waiting, InHand, Voice!Word, Voice!Final
  <2>4. ASSUME side[s][y] = "open"  PROVE HasHeard(s, x, t)'
    <3>. DEFINE h == heard[s][y]
    <3>1. heard'[s][y] = Append(h, m) /\ h \in Seq(Frames)
      BY <1>0, <1>2, <2>4 DEF VoiceTypes
    <3>2. ended'[s] = <<x, "close">> => ended[s] = <<x, "close">> \/ m.kind = "close"
      BY <1>0, <1>3, <2>4 DEF VoiceTypes
    <3>3. CASE t > 0 /\ m = Voice!Word(t)
      <4>1. HasHeard(s, x, t - 1) /\ t - 1 \in Nat /\ m.kind = "word"
        BY <1>1, <2>1, <2>2, <2>4, <3>3 DEF Delivered, Voice!Word
      <4>2. Len(h) = t - 1 /\ \A n \in 1..(t - 1) : h[n] = Voice!Word(n)
        BY <1>1, <4>1 DEF HasHeard
      <4>3. /\ Len(Append(h, m)) = t /\ Append(h, m)[t] = Voice!Word(t)
            /\ \A n \in 1..(t - 1) : Append(h, m)[n] = Voice!Word(n)
        <5>. HIDE DEF h, m
        <5>. QED  BY <1>1, <2>2, <3>1, <3>3, <4>1, <4>2, HeardMore
      <4>4. \A n \in 1..t : Append(h, m)[n] = Voice!Word(n)
        <5>. HIDE DEF h, m
        <5>1. \A n \in 1..t : n = t \/ n \in 1..(t - 1)
          BY <2>2
        <5>. QED  BY <4>3, <5>1, Zenon
      <4>5. ended'[s] = <<x, "close">> => FALSE
        BY <3>2, <4>1, <2>2 DEF HasHeard
      <4>. QED  BY <3>1, <4>3, <4>4, <4>5 DEF HasHeard, Voice!Word, Voice!Final, Voice!Other
    <3>4. CASE /\ m = Voice!Final("close") /\ x = "upstream" /\ t = said[s][x] /\ side[s][x] # "open"
      <4>1. HasHeard(s, x, t) /\ m.kind = "close"
        BY <2>1, <2>4, <3>4 DEF Delivered, Voice!Final
      <4>2. Len(h) = t /\ \A n \in 1..t : h[n] = Voice!Word(n)
        BY <1>1, <4>1 DEF HasHeard
      <4>3. /\ Len(Append(h, m)) = t + 1 /\ Append(h, m)[t + 1] = m
            /\ \A n \in 1..t : Append(h, m)[n] = Voice!Word(n)
        <5>. HIDE DEF h, m
        <5>. QED  BY <1>1, <2>2, <3>1, <4>2, HeardMore
      <4>4. wpc'[s] = "over"
        BY <1>0, <1>3, <3>4, <4>1 DEF VoiceTypes
      <4>. QED  BY <1>1, <3>1, <3>4, <4>3, <4>4 DEF HasHeard, Voice!Word, Voice!Final, Voice!Other
    <3>. QED  BY <1>1, <2>1, <3>3, <3>4 DEF InHand
  <2>5. Delivered(s, x, t)'
    BY <1>1, <2>2, <2>4 DEF Delivered, HasHeard, Voice!Word, Voice!Final, Voice!Other
  <2>6. t \in 0..said'[s][x]
    BY <1>1
  <2>. QED  BY <2>3, <2>5, <2>6, Zenon DEF Relayed
<1>7. \A r \in VoiceSessions, z \in Voice!Sides : Relayed(r, z)'
  BY <1>5, <1>6
<1>. QED  BY <1>4, <1>7 DEF VoiceInv, Voice!Sides

\* The provider's sink is closed, and the session is over.
LEMMA CloseSinkKeeps ==
  ASSUME Voice!LimitsAssumption, VoiceInv, NEW s \in VoiceSessions, Voice!CloseSink(s)
  PROVE  VoiceInv'
<1>. DEFINE u == "upstream"
            close == Voice!Final("close")
<1>0. VoiceTypes /\ close \in Frames /\ u \in Voice!Sides /\ Append(heard[s][u], close) \in Seq(Frames)
  BY DEF VoiceInv, VoiceTypes, Voice!Sides, Frames, Voice!Final
<1>1. /\ wpc[s] = "closing" /\ wpc' = [wpc EXCEPT ![s] = "over"]
      /\ UNCHANGED <<said, side, queue, held, ended>>
      /\ side[s][u] # "open" => heard' = heard
      /\ side[s][u] = "open" =>
            heard' = [heard EXCEPT ![s] = [heard[s] EXCEPT ![u] = Append(heard[s][u], close)]]
  BY DEF Voice!CloseSink, Voice!Go
<1>2. /\ heard' \in [VoiceSessions -> [Voice!Sides -> Seq(Frames)]]
      /\ side[s][u] = "open" => heard'[s][u] = Append(heard[s][u], close)
      /\ \A r \in VoiceSessions, z \in Voice!Sides : r # s \/ z # u => heard'[r][z] = heard[r][z]
  <2>1. heard \in [VoiceSessions -> [Voice!Sides -> Seq(Frames)]] /\ Append(heard[s][u], close) \in Seq(Frames)
        /\ u \in Voice!Sides
    BY <1>0 DEF VoiceTypes
  <2>2. CASE side[s][u] = "open"
    <3>1. heard' = [heard EXCEPT ![s] = [heard[s] EXCEPT ![u] = Append(heard[s][u], close)]]
      BY <1>1, <2>2
    <3>. QED  BY <2>1, <3>1, PlaceChanged
  <2>3. CASE side[s][u] # "open"
    BY <1>1, <2>1, <2>3
  <2>. QED  BY <2>2, <2>3
<1>3. VoiceTypes'
  BY <1>0, <1>1, <1>2 DEF VoiceTypes, Voice!Sides, Frames
<1>4. ASSUME NEW r \in VoiceSessions, NEW z \in Voice!Sides, r # s \/ z # "client" \/ side[s][u] # "open"
      PROVE  Relayed(r, z)'
  <2>1. Relayed(r, z) /\ DOMAIN wpc = VoiceSessions
    BY <1>0 DEF VoiceInv, VoiceTypes
  <2>2. Voice!Other(z) \in Voice!Sides /\ (r # s \/ Voice!Other(z) # u \/ side[s][u] # "open")
    BY <1>4 DEF Voice!Other, Voice!Sides
  <2>3. heard'[r][Voice!Other(z)] = heard[r][Voice!Other(z)]
    BY <1>1, <1>2, <2>2
  <2>4. wpc[r] = "over" => wpc'[r] = "over"
    BY <1>1, <2>1
  <2>. QED  BY <1>1, <2>1, <2>3, <2>4, DirectionKept
<1>5. ASSUME side[s][u] = "open"  PROVE Relayed(s, "client")'
  <2>. DEFINE x == "client"
              h == heard[s][u]
  <2>0. Relayed(s, x) /\ Voice!Other(x) = u
    BY DEF VoiceInv, Voice!Sides, Voice!Other
  <2>1. PICK t \in 0..said[s][x] : Waiting(s, x, t) /\ InHand(s, x, t) /\ Delivered(s, x, t)
    BY <2>0 DEF Relayed
  <2>2. Waiting(s, x, t)' /\ InHand(s, x, t)' /\ t \in 0..said'[s][x]
    BY <1>1, <2>1 DEF Waiting, InHand, Voice!Word, Voice!Final
  <2>3. PICK g : /\ g = IF held[s][x] # None /\ held[s][x].kind = "word" THEN t - 1 ELSE t
                 /\ HasHeard(s, x, g)
    BY <1>5, <2>0, <2>1 DEF Delivered
  <2>4. Len(h) = g /\ \A n \in 1..g : h[n] = Voice!Word(n)
    BY <1>1, <2>0, <2>3 DEF HasHeard
  <2>5. h \in Seq(Frames) /\ g \in Nat
    <3>1. h \in Seq(Frames)
      BY <1>0 DEF VoiceTypes
    <3>. QED  BY <2>4, <3>1
  <2>6. /\ Len(Append(h, close)) = g + 1 /\ Append(h, close)[g + 1] = close
        /\ \A n \in 1..g : Append(h, close)[n] = Voice!Word(n)
    <3>. HIDE DEF h, close
    <3>. QED  BY <1>0, <2>4, <2>5, HeardMore
  <2>7. heard'[s][u] = Append(h, close) /\ wpc'[s] = "over"
    BY <1>0, <1>1, <1>2, <1>5 DEF VoiceTypes
  <2>8. ended[s] = <<x, "close">> => g = said[s][x] /\ side[s][x] # "open"
    BY <2>3 DEF HasHeard
  <2>9. HasHeard(s, x, g)'
    BY <1>1, <2>6, <2>7, <2>8 DEF HasHeard, Voice!Word, Voice!Final, Voice!Other
  <2>10. Delivered(s, x, t)'
    BY <1>1, <2>3, <2>9 DEF Delivered, HasHeard, Voice!Word, Voice!Final, Voice!Other
  <2>. QED  BY <2>2, <2>10, Zenon DEF Relayed
<1>6. \A r \in VoiceSessions, z \in Voice!Sides : Relayed(r, z)'
  BY <1>4, <1>5
<1>. QED  BY <1>3, <1>6 DEF VoiceInv, Voice!Sides

\* A frame joins the queue.
LEMMA QueueMore ==
  ASSUME NEW q \in Seq(Frames), NEW f \in Frames
  PROVE  /\ Append(q, f) \in Seq(Frames) /\ Len(q) \in Nat /\ Len(Append(q, f)) = Len(q) + 1
         /\ \A n \in 1..Len(q) : Append(q, f)[n] = q[n]
         /\ Append(q, f)[Len(q) + 1] = f
  OBVIOUS

\* x says one more word.
LEMMA SayKeeps ==
  ASSUME Voice!LimitsAssumption, VoiceInv,
         NEW s \in VoiceSessions, NEW x \in Voice!Sides, Voice!Say(s, x)
  PROVE  VoiceInv'
<1>. DEFINE q == queue[s][x]
            k == said[s][x]
            w == Voice!Word(k + 1)
<1>0. VoiceTypes /\ Relayed(s, x) /\ k \in Nat /\ q \in Seq(Frames)
  BY DEF VoiceInv, VoiceTypes
<1>1. w \in Frames /\ k + 1 \in Nat
  BY <1>0 DEF Frames, Voice!Word
<1>2. /\ side[s][x] = "open"
      /\ said' = [said EXCEPT ![s] = [said[s] EXCEPT ![x] = k + 1]]
      /\ UNCHANGED <<wpc, side, held, heard, ended>>
  BY DEF Voice!Say
<1>3. /\ said' \in [VoiceSessions -> [Voice!Sides -> Nat]] /\ said'[s][x] = k + 1
      /\ \A r \in VoiceSessions, z \in Voice!Sides : r # s \/ z # x => said'[r][z] = said[r][z]
  <2>1. said \in [VoiceSessions -> [Voice!Sides -> Nat]]
    BY <1>0 DEF VoiceTypes
  <2>. HIDE DEF k
  <2>. QED  BY <1>1, <1>2, <2>1, PlaceChanged
<1>4. queue' = [queue EXCEPT ![s] = [queue[s] EXCEPT ![x] = Append(q, w)]]
  BY <1>3 DEF Voice!Say
<1>5. /\ queue' \in [VoiceSessions -> [Voice!Sides -> Seq(Frames)]] /\ queue'[s][x] = Append(q, w)
      /\ \A r \in VoiceSessions, z \in Voice!Sides : r # s \/ z # x => queue'[r][z] = queue[r][z]
  <2>1. queue \in [VoiceSessions -> [Voice!Sides -> Seq(Frames)]] /\ Append(q, w) \in Seq(Frames)
    BY <1>0, <1>1 DEF VoiceTypes
  <2>. HIDE DEF w
  <2>. QED  BY <1>4, <2>1, PlaceChanged
<1>6. VoiceTypes'
  BY <1>0, <1>2, <1>3, <1>5 DEF VoiceTypes, Voice!Sides, Frames
<1>7. ASSUME NEW r \in VoiceSessions, NEW z \in Voice!Sides, r # s \/ z # x  PROVE Relayed(r, z)'
  <2>1. Relayed(r, z)
    BY DEF VoiceInv
  <2>2. said'[r][z] = said[r][z] /\ queue'[r][z] = queue[r][z]
    BY <1>3, <1>5, <1>7
  <2>. QED  BY <1>2, <2>1, <2>2, DirectionKept
<1>8. Relayed(s, x)'
  <2>1. PICK t \in 0..k : Waiting(s, x, t) /\ InHand(s, x, t) /\ Delivered(s, x, t)
    BY <1>0 DEF Relayed
  <2>2. PICK m \in Nat : m = k - t
    BY <1>0
  <2>3. Len(q) = m /\ \A n \in 1..m : q[n] = Voice!Word(t + n)
    BY <1>2, <2>1, <2>2 DEF Waiting
  <2>4. (k + 1) - t = m + 1 /\ t + (m + 1) = k + 1
    BY <1>0, <2>2
  <2>5. /\ Len(Append(q, w)) = m + 1
        /\ \A n \in 1..m : Append(q, w)[n] = Voice!Word(t + n)
        /\ Append(q, w)[m + 1] = Voice!Word(t + (m + 1))
    <3>1. w = Voice!Word(t + (m + 1))
      BY <2>4
    <3>. HIDE DEF q, w
    <3>2. /\ Len(Append(q, w)) = Len(q) + 1
          /\ \A n \in 1..Len(q) : Append(q, w)[n] = q[n]
          /\ Append(q, w)[Len(q) + 1] = w
      BY <1>0, <1>1, QueueMore
    <3>. QED  BY <2>3, <3>1, <3>2
  <2>6. \A n \in 1..(m + 1) : Append(q, w)[n] = Voice!Word(t + n)
    <3>1. \A n \in 1..(m + 1) : n = m + 1 \/ n \in 1..m
      BY <2>2
    <3>. HIDE DEF q, w
    <3>. QED  BY <2>5, <3>1, Zenon
  <2>7. Waiting(s, x, t)'
    <3>1. said'[s][x] - t = m + 1 /\ Len(queue'[s][x]) = m + 1
      BY <1>3, <1>5, <2>4, <2>5
    <3>2. \A n \in 1..(m + 1) : queue'[s][x][n] = Voice!Word(t + n)
      BY <1>5, <2>6
    <3>. QED  BY <1>2, <3>1, <3>2 DEF Waiting, Voice!Word, Voice!Final
  <2>8. InHand(s, x, t)'
    BY <1>2, <2>1 DEF InHand, Voice!Word, Voice!Final
  <2>9. Delivered(s, x, t)'
    <3>. DEFINE g == IF held[s][x] # None /\ held[s][x].kind = "word" THEN t - 1 ELSE t
    <3>. SUFFICES ASSUME side'[s][Voice!Other(x)] = "open" PROVE HasHeard(s, x, g)'
      BY <1>2 DEF Delivered, HasHeard, Voice!Other, Voice!Word, Voice!Final
    <3>1. HasHeard(s, x, g)
      BY <1>2, <2>1 DEF Delivered
    <3>. QED  BY <1>2, <3>1 DEF HasHeard, Voice!Word, Voice!Final, Voice!Other
  <2>10. t \in 0..said'[s][x]
    BY <1>0, <1>3
  <2>. QED  BY <2>7, <2>8, <2>9, <2>10, Zenon DEF Relayed
<1>9. \A r \in VoiceSessions, z \in Voice!Sides : Relayed(r, z)'
  BY <1>7, <1>8
<1>. QED  BY <1>6, <1>9 DEF VoiceInv, Voice!Sides

\* x closes, or its connection breaks.
LEMMA LeaveKeeps ==
  ASSUME Voice!LimitsAssumption, VoiceInv,
         NEW s \in VoiceSessions, NEW x \in Voice!Sides, Voice!Leave(s, x)
  PROVE  VoiceInv'
<1>. DEFINE q == queue[s][x]
            k == said[s][x]
<1>0. VoiceTypes /\ Relayed(s, x) /\ k \in Nat /\ q \in Seq(Frames)
  BY DEF VoiceInv, VoiceTypes
<1>1. PICK how \in {"closed", "gone"}, f \in {Voice!Final("close"), Voice!Final("error")} :
        /\ side[s][x] = "open"
        /\ side' = [side EXCEPT ![s] = [side[s] EXCEPT ![x] = how]]
        /\ queue' = [queue EXCEPT ![s] = [queue[s] EXCEPT ![x] = Append(q, f)]]
        /\ UNCHANGED <<wpc, said, held, heard, ended>>
  BY DEF Voice!Leave, Voice!Final
<1>2. f \in Frames
  BY DEF Frames, Voice!Final
<1>3. /\ side' \in [VoiceSessions -> [Voice!Sides -> {"open", "closed", "gone"}]] /\ side'[s][x] = how
      /\ \A r \in VoiceSessions, z \in Voice!Sides : r # s \/ z # x => side'[r][z] = side[r][z]
  <2>1. side \in [VoiceSessions -> [Voice!Sides -> {"open", "closed", "gone"}]] /\ how \in {"open", "closed", "gone"}
    BY <1>0 DEF VoiceTypes
  <2>. QED  BY <1>1, <2>1, PlaceChanged
<1>5. /\ queue' \in [VoiceSessions -> [Voice!Sides -> Seq(Frames)]] /\ queue'[s][x] = Append(q, f)
      /\ \A r \in VoiceSessions, z \in Voice!Sides : r # s \/ z # x => queue'[r][z] = queue[r][z]
  <2>1. queue \in [VoiceSessions -> [Voice!Sides -> Seq(Frames)]] /\ Append(q, f) \in Seq(Frames)
    BY <1>0, <1>2 DEF VoiceTypes
  <2>. QED  BY <1>1, <2>1, PlaceChanged
<1>6. VoiceTypes'
  BY <1>0, <1>1, <1>3, <1>5 DEF VoiceTypes, Voice!Sides, Frames
<1>7. ASSUME NEW r \in VoiceSessions, NEW z \in Voice!Sides, r # s \/ z # x  PROVE Relayed(r, z)'
  <2>1. Relayed(r, z) /\ Voice!Other(z) \in Voice!Sides
    BY DEF VoiceInv, Voice!Other, Voice!Sides
  <2>2. side'[r][z] = side[r][z] /\ queue'[r][z] = queue[r][z]
    BY <1>3, <1>5, <1>7
  <2>3. side'[r][Voice!Other(z)] = "open" => side[r][Voice!Other(z)] = "open"
    BY <1>1, <1>3, <2>1
  <2>. QED  BY <1>1, <2>1, <2>2, <2>3, DirectionKept
<1>8. Relayed(s, x)'
  <2>1. PICK t \in 0..k : Waiting(s, x, t) /\ InHand(s, x, t) /\ Delivered(s, x, t)
    BY <1>0 DEF Relayed
  <2>2. PICK m \in Nat : m = k - t
    BY <1>0
  <2>3. Len(q) = m /\ \A n \in 1..m : q[n] = Voice!Word(t + n)
    BY <1>1, <2>1, <2>2 DEF Waiting
  <2>5. /\ Len(Append(q, f)) = m + 1
        /\ \A n \in 1..m : Append(q, f)[n] = Voice!Word(t + n)
        /\ Append(q, f)[m + 1] = f
    <3>. HIDE DEF q
    <3>2. /\ Len(Append(q, f)) = Len(q) + 1
          /\ \A n \in 1..Len(q) : Append(q, f)[n] = q[n]
          /\ Append(q, f)[Len(q) + 1] = f
      BY <1>0, <1>2, QueueMore
    <3>. QED  BY <2>3, <3>2
  <2>7. Waiting(s, x, t)'
    <3>1. said'[s][x] - t = m /\ Len(queue'[s][x]) = m + 1 /\ side'[s][x] # "open"
      BY <1>1, <1>3, <1>5, <2>2, <2>5
    <3>2. \A n \in 1..m : queue'[s][x][n] = Voice!Word(t + n)
      BY <1>5, <2>5
    <3>3. queue'[s][x][m + 1] \in {Voice!Final("close"), Voice!Final("error")}
      BY <1>5, <2>5
    <3>. QED  BY <3>1, <3>2, <3>3 DEF Waiting, Voice!Word, Voice!Final
  <2>8. InHand(s, x, t)'
    BY <1>1, <2>1 DEF InHand, Voice!Word, Voice!Final
  <2>9. Delivered(s, x, t)'
    <3>. DEFINE g == IF held[s][x] # None /\ held[s][x].kind = "word" THEN t - 1 ELSE t
    <3>. SUFFICES ASSUME side'[s][Voice!Other(x)] = "open" PROVE HasHeard(s, x, g)'
      BY <1>1 DEF Delivered, HasHeard, Voice!Other, Voice!Word, Voice!Final
    <3>0. side[s][Voice!Other(x)] = "open"
      BY <1>3 DEF Voice!Other, Voice!Sides
    <3>1. HasHeard(s, x, g)
      BY <3>0, <2>1 DEF Delivered
    <3>. QED  BY <1>1, <3>1 DEF HasHeard, Voice!Word, Voice!Final, Voice!Other
  <2>10. t \in 0..said'[s][x]
    BY <1>1
  <2>. QED  BY <2>7, <2>8, <2>9, <2>10, Zenon DEF Relayed
<1>9. \A r \in VoiceSessions, z \in Voice!Sides : Relayed(r, z)'
  BY <1>7, <1>8
<1>. QED  BY <1>6, <1>9 DEF VoiceInv, Voice!Sides

\* A request on its way to the relay moves no words.
LEMMA VoiceKeepsInv ==
  ASSUME Voice!LimitsAssumption, VoiceInv, [Voice!Next]_(Voice!vars)
  PROVE  VoiceInv'
<1>0. DOMAIN wpc = VoiceSessions
  BY DEF VoiceInv, VoiceTypes
<1>1. ASSUME NEW s \in VoiceSessions,
             Voice!Authenticate(s) \/ Voice!Resolve(s) \/ Voice!Count(s) \/ Voice!CheckSpend(s)
                \/ Voice!Connect(s)
      PROVE  VoiceInv'
  <2>1. UNCHANGED <<said, side, queue, held, heard, ended>>
    BY <1>1, Zenon DEF Voice!Authenticate, Voice!Resolve, Voice!Count, Voice!CheckSpend, Voice!Connect, Voice!relay
  <2>2. wpc[s] # "over" /\ \E stage : wpc' = [wpc EXCEPT ![s] = stage]
    <3>1. CASE Voice!Authenticate(s) \/ Voice!Resolve(s)
      BY <3>1 DEF Voice!Authenticate, Voice!Resolve, Voice!Go
    <3>2. CASE Voice!Count(s)
      BY <3>2 DEF Voice!Count, Voice!Go
    <3>3. CASE Voice!CheckSpend(s) \/ Voice!Connect(s)
      BY <3>3 DEF Voice!CheckSpend, Voice!Connect, Voice!Go
    <3>. QED  BY <1>1, <3>1, <3>2, <3>3
  <2>3. DOMAIN wpc' = VoiceSessions /\ \A r \in VoiceSessions : wpc[r] = "over" => wpc'[r] = "over"
    BY <1>0, <2>2
  <2>. QED  BY <2>1, <2>3, VoiceElsewhere
<1>2. CASE Voice!Revoke \/ Voice!WindowEnds \/ UNCHANGED Voice!vars
  <2>1. UNCHANGED <<wpc, said, side, queue, held, heard, ended>>
    BY <1>2 DEF Voice!Revoke, Voice!WindowEnds, Voice!vars, Voice!relay
  <2>. QED  BY <1>0, <2>1, VoiceElsewhere
<1>3. ASSUME NEW s \in VoiceSessions, Voice!CloseSink(s) PROVE VoiceInv'
  BY <1>3, CloseSinkKeeps
<1>4. ASSUME NEW s \in VoiceSessions, NEW x \in Voice!Sides,
             Voice!Take(s, x) \/ Voice!Send(s, x) \/ Voice!Say(s, x) \/ Voice!Leave(s, x)
      PROVE  VoiceInv'
  BY <1>4, TakeKeeps, SendKeeps, SayKeeps, LeaveKeeps
<1>. QED  BY <1>1, <1>2, <1>3, <1>4, Zenon DEF Voice!Next

\* The window: each session that was let in was counted.
LEMMA WindowKeepsInv ==
  ASSUME Voice!LimitsAssumption, WindowInv, [Voice!Next]_(Voice!vars)
  PROVE  WindowInv'
<1>. USE DEF WindowInv, Voice!WindowHolds
<1>0. SessionLimit \in Nat
  BY DEF Voice!LimitsAssumption
<1>1. \A S : Voice!Cardinality(S) = Cardinality(S)
  BY DEF Voice!Cardinality, Cardinality
<1>2. ASSUME NEW s \in VoiceSessions, Voice!Count(s) PROVE WindowInv'
  <2>1. opened' = opened + 1
    BY <1>2 DEF Voice!Count
  <2>2. CASE admitted' = admitted
    <3>1. Cardinality(admitted) \in Nat
      BY FS_CardinalityType
    <3>. QED  BY <1>1, <2>1, <2>2, <3>1
  <2>3. CASE admitted' = admitted \cup {s} /\ opened' <= SessionLimit
    <3>1. /\ IsFiniteSet(admitted \cup {s}) /\ Cardinality(admitted) \in Nat
          /\ Cardinality(admitted \cup {s}) \in {Cardinality(admitted), Cardinality(admitted) + 1}
      BY FS_AddElement, FS_CardinalityType
    <3>2. Cardinality(admitted') <= opened + 1
      BY <2>3, <3>1
    <3>. QED  BY <1>0, <1>1, <2>1, <2>3, <3>1, <3>2
  <2>. QED  BY <1>0, <1>2, <2>1, <2>2, <2>3 DEF Voice!Count, Voice!Exceeded
<1>3. CASE Voice!WindowEnds
  <2>1. IsFiniteSet({}) /\ Cardinality({}) = 0
    BY FS_EmptySet
  <2>. QED  BY <1>0, <1>1, <1>3, <2>1 DEF Voice!WindowEnds
<1>4. ASSUME UNCHANGED <<opened, admitted>> PROVE WindowInv'
  BY <1>4, <1>1
<1>5. ASSUME NEW s \in VoiceSessions, ~Voice!Count(s),
             \/ Voice!Authenticate(s) \/ Voice!Resolve(s) \/ Voice!CheckSpend(s) \/ Voice!Connect(s)
             \/ Voice!CloseSink(s)
             \/ \E x \in Voice!Sides :
                   Voice!Take(s, x) \/ Voice!Send(s, x) \/ Voice!Say(s, x) \/ Voice!Leave(s, x)
      PROVE  UNCHANGED <<opened, admitted>>
  BY <1>5, Zenon DEF Voice!Authenticate, Voice!Resolve, Voice!CheckSpend, Voice!Connect, Voice!CloseSink,
                     Voice!Take, Voice!Send, Voice!Say, Voice!Leave
<1>6. CASE Voice!Revoke \/ UNCHANGED Voice!vars
  BY <1>4, <1>6 DEF Voice!Revoke, Voice!vars
<1>. QED  BY <1>2, <1>3, <1>4, <1>5, <1>6, Zenon DEF Voice!Next

\* What has been heard is what was said, as far as it goes.
LEMMA WordsFollow ==
  ASSUME VoiceInv
  PROVE  Voice!WordsCarried
<1>. SUFFICES ASSUME NEW s \in VoiceSessions, NEW y \in Voice!Sides, side[s][y] = "open"
              PROVE  /\ Voice!IsPrefix(Voice!Spoken(s, y), Voice!Everything(s, Voice!Other(y)))
                     /\ ended[s] = <<Voice!Other(y), "close">> =>
                           Voice!Spoken(s, y) = Voice!Everything(s, Voice!Other(y))
  BY Zenon DEF Voice!WordsCarried
<1>. DEFINE x == Voice!Other(y)
            h == heard[s][y]
            k == said[s][x]
<1>1. x \in Voice!Sides /\ Voice!Other(x) = y /\ Relayed(s, x) /\ k \in Nat /\ h \in Seq(Frames)
  BY DEF VoiceInv, VoiceTypes, Voice!Other, Voice!Sides
<1>2. PICK t \in 0..k : InHand(s, x, t) /\ Delivered(s, x, t)
  BY <1>1 DEF Relayed
<1>3. PICK g \in Nat : HasHeard(s, x, g) /\ g <= k
  <2>1. t \in Nat /\ t <= k
    BY <1>1
  <2>2. held[s][x] # None /\ held[s][x].kind = "word" => t > 0
    BY <1>2 DEF InHand, Voice!Final
  <2>. QED  BY <1>1, <1>2, <2>1, <2>2 DEF Delivered
<1>4. /\ Len(h) = g \/ (Len(h) = g + 1 /\ h[g + 1] = Voice!Final("close"))
      /\ \A n \in 1..g : h[n] = Voice!Word(n)
      /\ ended[s] = <<x, "close">> => g = k
  BY <1>1, <1>3 DEF HasHeard
<1>5. Voice!Everything(s, x) = [n \in 1..k |-> Voice!Word(n)]
  BY DEF Voice!Everything
<1>6. Voice!Spoken(s, y) = [n \in 1..g |-> Voice!Word(n)] /\ g \in Nat
  <2>. HIDE DEF h, k
  <2>1. Voice!Spoken(s, y) = IF h # <<>> /\ h[Len(h)].kind # "word" THEN SubSeq(h, 1, Len(h) - 1) ELSE h
    BY DEF Voice!Spoken, Voice!Last, Voice!Front, h
  <2>2. CASE Len(h) = g
    <3>1. h = [n \in 1..g |-> h[n]] /\ g \in Nat
      BY <1>1, <2>2
    <3>2. h = [n \in 1..g |-> Voice!Word(n)]
      BY <1>4, <3>1
    <3>3. h # <<>> => h[Len(h)].kind = "word"
      <4>1. h # <<>> => g \in 1..g
        BY <1>1, <2>2, <3>1
      <4>. QED  BY <1>4, <2>2, <4>1 DEF Voice!Word
    <3>. QED  BY <2>1, <3>1, <3>2, <3>3
  <2>3. CASE Len(h) = g + 1 /\ h[g + 1] = Voice!Final("close")
    <3>1. h # <<>>
      BY <1>1, <2>3
    <3>2. h[Len(h)].kind # "word"
      BY <2>3 DEF Voice!Final
    <3>3. SubSeq(h, 1, Len(h) - 1) = [n \in 1..g |-> h[n]]
      BY <1>1, <2>3, <3>1
    <3>4. [n \in 1..g |-> h[n]] = [n \in 1..g |-> Voice!Word(n)]
      BY <1>4
    <3>. QED  BY <2>1, <3>1, <3>2, <3>3, <3>4
  <2>. QED  BY <1>4, <2>2, <2>3
<1>7. Voice!IsPrefix(Voice!Spoken(s, y), Voice!Everything(s, x))
  <2>. DEFINE a == [n \in 1..g |-> Voice!Word(n)]
              b == [n \in 1..k |-> Voice!Word(n)]
  <2>1. /\ Len(a) = g /\ Len(b) = k /\ a \in Seq(Frames) /\ b \in Seq(Frames)
    <3>1. \A n \in Nat : Voice!Word(n) \in Frames
      BY DEF Voice!Word, Frames
    <3>. QED  BY <1>1, <1>6, <3>1
  <2>2. SubSeq(a, 1, g) = SubSeq(b, 1, g)
    <3>1. SubSeq(a, 1, g) = [n \in 1..g |-> a[n]] /\ SubSeq(b, 1, g) = [n \in 1..g |-> b[n]]
      BY <1>1, <1>3, <1>6, <2>1
    <3>2. \A n \in 1..g : a[n] = b[n]
      BY <1>1, <1>3, <1>6
    <3>. QED  BY <3>1, <3>2
  <2>3. Len(a) <= Len(b)
    BY <1>3, <2>1
  <2>4. SubSeq(a, 1, Len(a)) = SubSeq(b, 1, Len(a))
    BY <2>1, <2>2
  <2>. QED  BY <1>5, <1>6, <2>3, <2>4, Zenon DEF Voice!IsPrefix
<1>8. ended[s] = <<x, "close">> => Voice!Spoken(s, y) = Voice!Everything(s, x)
  BY <1>4, <1>5, <1>6
<1>. QED  BY <1>7, <1>8

\* What a side of a realtime session hears is what the other has said, from the
\* beginning, and a window lets in no more sessions than its limit
\* (realtime.rs), for any number of sessions and messages.
THEOREM WordsStayWhole ==
  ASSUME Voice!LimitsAssumption
  PROVE  Voice!Spec => [](Voice!WordsCarried /\ Voice!WindowHolds)
<1>1. Voice!Init => VoiceInv /\ WindowInv
  BY VoiceStarts
<1>2. VoiceInv /\ WindowInv /\ [Voice!Next]_(Voice!vars) => VoiceInv' /\ WindowInv'
  BY VoiceKeepsInv, WindowKeepsInv
<1>3. VoiceInv /\ WindowInv => Voice!WordsCarried /\ Voice!WindowHolds
  BY WordsFollow DEF WindowInv
<1>. QED  BY <1>1, <1>2, <1>3, PTL DEF Voice!Spec

-----------------------------------------------------------------------------
\* Policies (PolicyAdmin)

CONSTANTS PolicyRequests, PolicyJobs, PolicyTables, PhaseChecks

VARIABLES table, ids, versions, phases, request, gpc, target, ident, edit, doomed,
          begun, alone, written

Admin == INSTANCE PolicyAdmin WITH
    Requests <- PolicyRequests, Projects <- PolicyTables, Jobs <- PolicyJobs,
    Checks <- PhaseChecks,
    rows <- table, job <- request, pc <- gpc

\* Policies: how far a change has come that nobody else has met, beside the
\* rows and the list that it found when it began.

AdminTypes ==
    /\ (\E S : table \in Seq(S)) /\ \A i \in DOMAIN table : Admin!IsRow(table[i])
    /\ ids \subseteq DOMAIN table
    /\ request \in [PolicyRequests -> PolicyJobs]
    /\ alone \in [PolicyRequests -> BOOLEAN]
    /\ DOMAIN gpc = PolicyRequests /\ DOMAIN edit = PolicyRequests /\ DOMAIN begun = PolicyRequests
    /\ DOMAIN target = PolicyRequests /\ DOMAIN ident = PolicyRequests /\ DOMAIN doomed = PolicyRequests

\* Stages of each kind of request, and the rows that it names.
Staged(r) ==
    /\ request[r].do \in {"update", "delete"} => request[r].id \in DOMAIN table
    /\ request[r].do = "delete" => gpc[r] \in {"begin", "delete", "ok", "failed"}
    /\ request[r].do = "update" => gpc[r] \in {"begin", "update", "snapshot", "write", "ok", "failed"}
    /\ request[r].do = "disable" =>
          gpc[r] \in {"begin", "list", "token", "attach", "remove", "ok", "failed"}
    /\ request[r].do = "enable" =>
          gpc[r] \in {"begin", "list", "in", "out", "snapshot", "write", "token", "attach", "ok", "failed"}
    /\ gpc[r] \in {"snapshot", "write"} =>
          /\ edit[r].id \in DOMAIN table
          /\ edit[r] = [id |-> edit[r].id, name |-> edit[r].name, mode |-> edit[r].mode,
                        phase |-> edit[r].phase, rules |-> edit[r].rules, then |-> edit[r].then]
          /\ edit[r].then \in IF request[r].do = "enable" THEN {"out", "token"} ELSE {"ok"}
    /\ ident[r] \subseteq DOMAIN table /\ doomed[r] \subseteq DOMAIN table
    /\ target[r] \in [{"in", "out"} -> DOMAIN table \cup {None}]

UpdateWork(r) ==
    LET i == request[r].id
    IN  /\ gpc[r] \in {"update", "snapshot", "write"} => table = begun[r].rows /\ ids = begun[r].ids
        /\ gpc[r] \in {"snapshot", "write"} =>
              edit[r] = [id |-> i, name |-> None, mode |-> request[r].mode,
                         phase |-> request[r].phase, rules |-> request[r].rules, then |-> "ok"]
        /\ gpc[r] = "write" /\ table[i].active => Admin!Content(i, table) \in versions
        /\ gpc[r] = "ok" => Admin!UpdateHolds(r)

\* The policies of guardrails among those it found.
Guardrails(r) == {i \in DOMAIN begun[r].rows : begun[r].rows[i].name[1] \in {"in", "out"}}

DisableWork(r) ==
    /\ gpc[r] \in {"list", "token", "attach"} => table = begun[r].rows /\ ids = begun[r].ids
    /\ gpc[r] \in {"token", "attach", "remove"} => doomed[r] = Guardrails(r)
    /\ gpc[r] = "attach" => ident[r] = begun[r].ids
    /\ gpc[r] = "remove" =>
          /\ ids = begun[r].ids \ doomed[r] /\ begun[r].ids \subseteq DOMAIN table
          /\ DOMAIN table = DOMAIN begun[r].rows
          /\ \A i \in DOMAIN table : /\ table[i].name = begun[r].rows[i].name
                                     /\ i \in doomed[r] \/ table[i] = begun[r].rows[i]
    /\ gpc[r] = "ok" => Admin!DisableHolds(r)

\* The kinds of guardrails that an enabling request has written.
Done(r) ==
    IF gpc[r] \in {"list", "in"} \/ (gpc[r] \in {"snapshot", "write"} /\ edit[r].then = "out") THEN {}
    ELSE IF gpc[r] = "out" \/ gpc[r] \in {"snapshot", "write"} THEN {"in"} \cap request[r].kinds
    ELSE request[r].kinds

HasKind(r, k) ==
    /\ target[r][k] \in DOMAIN table /\ table[target[r][k]].active
    /\ Admin!When(table[target[r][k]]) = "pre" \/ (k = "out" /\ target[r][k] \in DOMAIN begun[r].rows)
    /\ table[target[r][k]].name = <<k, request[r].source>>
    /\ table[target[r][k]].rules = request[r].rules

\* What it has found of a kind is as it was.
FoundKind(r, k) ==
    target[r][k] # None =>
        /\ target[r][k] \in DOMAIN begun[r].rows /\ target[r][k] \in DOMAIN table
        /\ begun[r].rows[target[r][k]].name[1] = k
        /\ k = "out" \/ table[target[r][k]].phase = "request"
        /\ table[target[r][k]] = begun[r].rows[target[r][k]]

\* The statement that it is in is for that kind.
Writing(r, k) ==
    /\ edit[r].id = target[r][k] /\ target[r][k] # None
    /\ edit[r].name = <<k, request[r].source>> /\ edit[r].rules = request[r].rules
    /\ edit[r].phase = None
    /\ k = IF edit[r].then = "out" THEN "in" ELSE "out"

EnableWork(r) ==
    CASE gpc[r] = "ok"     -> Admin!EnableHolds(r)
      [] gpc[r] = "failed" -> Admin!EnableFailed(r)
      [] OTHER ->
        /\ ids = begun[r].ids
        /\ DOMAIN begun[r].rows \subseteq DOMAIN table
        /\ \A i \in DOMAIN begun[r].rows : table[i] = begun[r].rows[i] \/ table[i].name[1] \in Done(r)
        /\ \A k \in Done(r) : HasKind(r, k)
        /\ gpc[r] = "list" => table = begun[r].rows
        /\ gpc[r] # "list" => \A k \in request[r].kinds \ Done(r) : FoundKind(r, k)
        /\ gpc[r] \in {"snapshot", "write"} =>
              \E k \in request[r].kinds : Writing(r, k)
        /\ gpc[r] = "attach" => ident[r] = begun[r].ids

Work(r) ==
    /\ request[r].do = "update" => UpdateWork(r)
    /\ request[r].do = "disable" => DisableWork(r)
    /\ request[r].do = "enable" => Admin!Revived(r) \/ EnableWork(r)
    /\ request[r].do = "delete" /\ gpc[r] = "ok" => ~table[request[r].id].active

AdminInv ==
    /\ AdminTypes
    /\ \A r \in PolicyRequests : Staged(r)
    /\ \A r, q \in PolicyRequests : r # q /\ Admin!Running(r) /\ Admin!Running(q) => ~alone[r]
    /\ \A r \in PolicyRequests : Admin!Running(r) /\ alone[r] => Work(r)

\* The greatest of some rows.
LEMMA MaxOfRows ==
  ASSUME NEW n \in Nat, NEW T, T \subseteq 1..n, T # {}
  PROVE  Admin!Max(T) \in T
<1>. DEFINE U == {n - i : i \in T}
<1>1. U \subseteq Nat /\ U # {}
  OBVIOUS
<1>2. PICK u \in U : \A v \in U : <<v, u>> \notin OpToRel(<, Nat)
  BY <1>1, NatLessThanWellFounded, WFMin
<1>3. PICK i \in T : u = n - i
  OBVIOUS
<1>4. \A j \in T : j <= i
  <2>1. SUFFICES ASSUME NEW j \in T, j > i PROVE FALSE
    OBVIOUS
  <2>2. n - j \in U /\ n - j \in Nat /\ u \in Nat /\ n - j < u
    BY <1>3, <2>1
  <2>. QED  BY <1>2, <2>2 DEF OpToRel
<1>5. \E x \in T : \A y \in T : x >= y
  BY <1>4
<1>. QED  BY <1>5 DEF Admin!Max

\* The stages of a request, with its own rows changed only.
LEMMA GoesOn ==
  ASSUME AdminTypes, NEW r \in PolicyRequests, NEW stage, Admin!Go(r, stage)
  PROVE  /\ DOMAIN gpc' = PolicyRequests /\ gpc'[r] = stage
         /\ \A q \in PolicyRequests \ {r} : gpc'[q] = gpc[q]
  BY DEF AdminTypes, Admin!Go

LEMMA RowEdited ==
  ASSUME AdminTypes, NEW i \in DOMAIN table, NEW x, Admin!IsRow(x), table' = [table EXCEPT ![i] = x]
  PROVE  /\ \E S : table' \in Seq(S)
         /\ DOMAIN table' = DOMAIN table /\ table'[i] = x
         /\ \A j \in DOMAIN table \ {i} : table'[j] = table[j]
         /\ \A j \in DOMAIN table' : Admin!IsRow(table'[j])
<1>1. PICK S : table \in Seq(S)
  BY DEF AdminTypes
<1>2. table' \in Seq(S \cup {x}) /\ DOMAIN table' = DOMAIN table
  BY <1>1
<1>3. table'[i] = x /\ \A j \in DOMAIN table \ {i} : table'[j] = table[j]
  BY <1>1
<1>4. \A j \in DOMAIN table' : Admin!IsRow(table'[j])
  BY <1>2, <1>3 DEF AdminTypes
<1>. QED  BY <1>2, <1>3, <1>4

LEMMA RowAdded ==
  ASSUME AdminTypes, NEW x, Admin!IsRow(x), table' = Append(table, x), NEW n, n = Len(table')
  PROVE  /\ \E S : table' \in Seq(S)
         /\ n \notin DOMAIN table /\ DOMAIN table' = DOMAIN table \cup {n} /\ table'[n] = x
         /\ \A j \in DOMAIN table : table'[j] = table[j]
         /\ \A j \in DOMAIN table' : Admin!IsRow(table'[j])
<1>1. PICK S : table \in Seq(S)
  BY DEF AdminTypes
<1>2. /\ table' \in Seq(S \cup {x}) /\ Len(table') = Len(table) + 1 /\ Len(table) \in Nat
      /\ DOMAIN table = 1..Len(table) /\ DOMAIN table' = 1..Len(table')
      /\ table'[Len(table')] = x /\ \A j \in DOMAIN table : table'[j] = table[j]
  BY <1>1
<1>3. DOMAIN table' = DOMAIN table \cup {n} /\ n \notin DOMAIN table
  BY <1>2
<1>4. \A j \in DOMAIN table' : Admin!IsRow(table'[j])
  BY <1>2, <1>3 DEF AdminTypes
<1>. QED  BY <1>2, <1>3, <1>4

\* A policy that is deleted keeps all but that it is active.
LEMMA RowOff ==
  ASSUME NEW x, Admin!IsRow(x), NEW y, y = [x EXCEPT !.active = FALSE]
  PROVE  /\ Admin!IsRow(y) /\ y.active = FALSE
         /\ y.name = x.name /\ y.mode = x.mode /\ y.rules = x.rules
<1>1. PICK a, b, c, d, e, f : x = [name |-> a, active |-> b, version |-> c, mode |-> d,
                                   phase |-> e, rules |-> f]
  BY DEF Admin!IsRow
<1>2. y = [name |-> a, active |-> FALSE, version |-> c, mode |-> d, phase |-> e, rules |-> f]
  BY <1>1
<1>. QED  BY <1>1, <1>2 DEF Admin!IsRow

\* An edited one stays active.
LEMMA RowWritten ==
  ASSUME NEW x, Admin!IsRow(x), NEW e, NEW y, y = Admin!Edited(x, e)
  PROVE  /\ Admin!IsRow(y) /\ y.active = x.active
         /\ y.name = Admin!Coalesce(e.name, x.name) /\ y.mode = Admin!Coalesce(e.mode, x.mode)
         /\ y.phase = Admin!Coalesce(e.phase, x.phase) /\ y.rules = Admin!Coalesce(e.rules, x.rules)
<1>1. PICK a, b, c, d, f, g : x = [name |-> a, active |-> b, version |-> c, mode |-> d,
                                   phase |-> f, rules |-> g]
  BY DEF Admin!IsRow
<1>2. y = [name |-> Admin!Coalesce(e.name, a), active |-> b, version |-> c + 1,
           mode |-> Admin!Coalesce(e.mode, d), phase |-> Admin!Coalesce(e.phase, f),
           rules |-> Admin!Coalesce(e.rules, g)]
  BY <1>1 DEF Admin!Edited
<1>. QED  BY <1>1, <1>2 DEF Admin!IsRow

\* What a request may be.
LEMMA JobFacts ==
  ASSUME AdminTypes, Admin!JobsAssumption, NEW r \in PolicyRequests
  PROVE  /\ request[r].do \in {"enable", "disable", "update", "delete"}
         /\ request[r].do = "enable" =>
               /\ request[r].kinds \subseteq {"in", "out"} /\ request[r].rules # None
               /\ \A k \in {"in", "out"} : <<k, request[r].source>> # None
         /\ None \notin DOMAIN table
<1>1. request[r] \in PolicyJobs /\ \E S : table \in Seq(S)
  BY DEF AdminTypes
<1>2. DOMAIN table \subseteq Nat
  BY <1>1
<1>. QED  BY <1>1, <1>2 DEF Admin!JobsAssumption, Admin!Kinds

\* A step of one request: those under way beside it have been met by it.
LEMMA OneRequest ==
  ASSUME AdminInv, NEW r \in PolicyRequests, Admin!Running(r), AdminTypes', Staged(r)',
         DOMAIN table \subseteq DOMAIN table', UNCHANGED <<request, begun, alone>>,
         \A q \in PolicyRequests \ {r} :
             /\ gpc'[q] = gpc[q] /\ edit'[q] = edit[q] /\ target'[q] = target[q]
             /\ ident'[q] = ident[q] /\ doomed'[q] = doomed[q],
         alone[r] => Work(r)'
  PROVE  AdminInv'
<1>1. \A q \in PolicyRequests \ {r} : Admin!Running(q)' <=> Admin!Running(q)
  BY DEF Admin!Running
<1>2. ASSUME NEW q \in PolicyRequests \ {r}  PROVE Staged(q)'
  <2>1. Staged(q)
    BY DEF AdminInv
  <2>2. target'[q] \in [{"in", "out"} -> DOMAIN table' \cup {None}]
    BY <2>1 DEF Staged
  <2>. QED  BY <2>1, <2>2 DEF Staged
<1>3. \A p, q \in PolicyRequests : p # q /\ Admin!Running(p)' /\ Admin!Running(q)' => ~alone'[p]
  BY <1>1 DEF AdminInv
<1>4. \A q \in PolicyRequests \ {r} : Admin!Running(q)' => ~alone'[q]
  BY <1>1 DEF AdminInv
<1>. QED  BY <1>2, <1>3, <1>4 DEF AdminInv

\* Beginning: what is found is what there is, and who runs is met.
LEMMA BeginKeepsInv ==
  ASSUME AdminInv, Admin!JobsAssumption, NEW r \in PolicyRequests, Admin!Begin(r)
  PROVE  AdminInv'
<1>0. AdminTypes
  BY DEF AdminInv
<1>1. /\ gpc[r] = "begin" /\ UNCHANGED <<table, ids, versions, request, target, ident, edit, doomed>>
      /\ begun' = [begun EXCEPT ![r] = [rows |-> table, ids |-> ids]]
      /\ alone' = [q \in PolicyRequests |-> IF q = r THEN \A p \in PolicyRequests : ~ Admin!Running(p)
                                            ELSE alone[q] /\ ~ Admin!Running(q)]
      /\ Admin!Go(r, IF request[r].do \in {"enable", "disable"} THEN "list" ELSE request[r].do)
  BY DEF Admin!Begin, Admin!table, Admin!given
<1>2. /\ DOMAIN gpc' = PolicyRequests
      /\ gpc'[r] = IF request[r].do \in {"enable", "disable"} THEN "list" ELSE request[r].do
      /\ \A q \in PolicyRequests \ {r} : gpc'[q] = gpc[q]
  BY <1>0, <1>1, GoesOn
<1>3. /\ begun'[r] = [rows |-> table, ids |-> ids] /\ DOMAIN begun' = PolicyRequests
      /\ \A q \in PolicyRequests \ {r} : begun'[q] = begun[q]
  BY <1>0, <1>1 DEF AdminTypes
<1>4. /\ alone' \in [PolicyRequests -> BOOLEAN]
      /\ alone'[r] => \A p \in PolicyRequests : ~ Admin!Running(p)
      /\ \A q \in PolicyRequests \ {r} : alone'[q] => alone[q] /\ ~ Admin!Running(q)
  <2>1. \A q \in PolicyRequests : alone[q] \in BOOLEAN /\ Admin!Running(q) \in BOOLEAN
    BY <1>0 DEF AdminTypes, Admin!Running
  <2>. QED  BY <1>1, <2>1
<1>5. AdminTypes'
  BY <1>0, <1>1, <1>2, <1>3, <1>4 DEF AdminTypes
<1>6. \A q \in PolicyRequests \ {r} : Admin!Running(q)' <=> Admin!Running(q)
  BY <1>2 DEF Admin!Running
<1>7. ASSUME NEW q \in PolicyRequests  PROVE Staged(q)'
  <2>1. Staged(q) /\ request[r].do \in {"enable", "disable", "update", "delete"}
    BY <1>0, JobFacts DEF AdminInv
  <2>2. CASE q = r
    <3>1. gpc'[r] \in {"list", "update", "delete"}
      BY <1>2, <2>1
    <3>. QED  BY <1>1, <1>2, <2>1, <2>2, <3>1 DEF Staged
  <2>3. CASE q # r
    BY <1>1, <1>2, <2>1, <2>3 DEF Staged
  <2>. QED  BY <2>2, <2>3
<1>8. Work(r)'
  <2>1. request[r].do = "update" => UpdateWork(r)'
    BY <1>1, <1>2, <1>3 DEF UpdateWork
  <2>2. request[r].do = "disable" => DisableWork(r)'
    BY <1>1, <1>2, <1>3 DEF DisableWork
  <2>3. request[r].do = "enable" => EnableWork(r)'
    <3>1. SUFFICES ASSUME request[r].do = "enable"  PROVE EnableWork(r)'
      OBVIOUS
    <3>2. gpc'[r] = "list" /\ Done(r)' = {}
      BY <1>2, <3>1 DEF Done
    <3>. QED  BY <1>1, <1>3, <3>2 DEF EnableWork
  <2>4. request[r].do = "delete" => gpc'[r] # "ok"
    BY <1>2
  <2>. QED  BY <1>1, <2>1, <2>2, <2>3, <2>4 DEF Work
<1>9. \A p, q \in PolicyRequests : p # q /\ Admin!Running(p)' /\ Admin!Running(q)' => ~alone'[p]
  BY <1>4, <1>6
<1>10. \A q \in PolicyRequests : Admin!Running(q)' /\ alone'[q] => Work(q)'
  BY <1>4, <1>6, <1>8
<1>. QED  BY <1>5, <1>7, <1>9, <1>10 DEF AdminInv

\* update_policy, delete_policy
LEMMA UpdatePolicyKeepsInv ==
  ASSUME AdminInv, Admin!JobsAssumption, NEW r \in PolicyRequests, Admin!UpdatePolicy(r)
  PROVE  AdminInv' /\ (alone[r] => Work(r)')
<1>0. AdminTypes /\ Staged(r)
  BY DEF AdminInv
<1>1. /\ gpc[r] = "update" /\ UNCHANGED <<table, ids, versions, request, target, ident, doomed, begun, alone>>
      /\ Admin!Running(r)
  BY DEF Admin!UpdatePolicy, Admin!table, Admin!given, Admin!Running
<1>2. request[r].do = "update"
  BY <1>0, <1>1, JobFacts DEF Staged
<1>3. CASE Admin!Go(r, "failed") /\ UNCHANGED edit
  <2>1. /\ DOMAIN gpc' = PolicyRequests /\ gpc'[r] = "failed"
        /\ \A q \in PolicyRequests \ {r} : gpc'[q] = gpc[q]
    BY <1>0, <1>3, GoesOn
  <2>2. Staged(r)' /\ AdminTypes'
    BY <1>0, <1>1, <1>2, <1>3, <2>1 DEF Staged, AdminTypes
  <2>3. Work(r)'
    BY <1>1, <1>2, <2>1 DEF Work, UpdateWork
  <2>. QED  BY <1>1, <1>3, <2>1, <2>2, <2>3, OneRequest
<1>4. CASE ~(Admin!Go(r, "failed") /\ UNCHANGED edit)
  <2>1. /\ Admin!Go(r, "snapshot")
        /\ edit' = [edit EXCEPT ![r] = [id |-> request[r].id, name |-> None, mode |-> request[r].mode,
                                        phase |-> request[r].phase, rules |-> request[r].rules,
                                        then |-> "ok"]]
    BY <1>4 DEF Admin!UpdatePolicy
  <2>2. /\ DOMAIN gpc' = PolicyRequests /\ gpc'[r] = "snapshot"
        /\ \A q \in PolicyRequests \ {r} : gpc'[q] = gpc[q]
    BY <1>0, <2>1, GoesOn
  <2>3. /\ edit'[r] = [id |-> request[r].id, name |-> None, mode |-> request[r].mode,
                       phase |-> request[r].phase, rules |-> request[r].rules, then |-> "ok"]
        /\ DOMAIN edit' = PolicyRequests /\ \A q \in PolicyRequests \ {r} : edit'[q] = edit[q]
    BY <1>0, <2>1 DEF AdminTypes
  <2>4. Staged(r)' /\ AdminTypes'
    BY <1>0, <1>1, <1>2, <2>2, <2>3 DEF Staged, AdminTypes
  <2>5. alone[r] => Work(r)'
    <3>1. alone[r] => UpdateWork(r)
      BY <1>1, <1>2 DEF AdminInv, Work
    <3>2. alone[r] => UpdateWork(r)'
      BY <1>1, <2>2, <2>3, <3>1 DEF UpdateWork
    <3>. QED  BY <1>1, <1>2, <3>2 DEF Work
  <2>. QED  BY <1>1, <2>2, <2>3, <2>4, <2>5, OneRequest
<1>. QED  BY <1>3, <1>4

LEMMA SnapshotKeepsInv ==
  ASSUME AdminInv, Admin!JobsAssumption, NEW r \in PolicyRequests, Admin!Snapshot(r)
  PROVE  AdminInv' /\ (alone[r] => Work(r)')
<1>0. AdminTypes /\ Staged(r)
  BY DEF AdminInv
<1>1. /\ gpc[r] = "snapshot" /\ Admin!Go(r, "write")
      /\ UNCHANGED <<table, ids, request, target, ident, edit, doomed, begun, alone>>
      /\ Admin!Running(r) /\ versions \subseteq versions'
      /\ table[edit[r].id].active => Admin!Content(edit[r].id, table) \in versions'
  <2>1. versions' = versions \cup {Admin!Content(i, table) : i \in {j \in {edit[r].id} : table[j].active}}
    BY DEF Admin!Snapshot
  <2>. QED  BY <2>1 DEF Admin!Snapshot, Admin!given, Admin!Running
<1>2. /\ DOMAIN gpc' = PolicyRequests /\ gpc'[r] = "write"
      /\ \A q \in PolicyRequests \ {r} : gpc'[q] = gpc[q]
  BY <1>0, <1>1, GoesOn
<1>3. Staged(r)' /\ AdminTypes'
  BY <1>0, <1>1, <1>2, JobFacts DEF Staged, AdminTypes
<1>4. ASSUME alone[r]  PROVE Work(r)'
  <2>1. Work(r)
    BY <1>1, <1>4 DEF AdminInv
  <2>2. CASE request[r].do = "update"
    <3>1. UpdateWork(r) /\ edit[r].id = request[r].id
      BY <1>1, <2>1, <2>2 DEF Work, UpdateWork
    <3>2. UpdateWork(r)'
      <4>1. Admin!Content(request[r].id, table)' = Admin!Content(request[r].id, table)
        BY <1>1 DEF Admin!Content
      <4>. QED  BY <1>1, <1>2, <3>1, <4>1 DEF UpdateWork
    <3>. QED  BY <1>1, <2>2, <3>2 DEF Work
  <2>3. CASE request[r].do = "enable"
    <3>1. Admin!Revived(r)' <=> Admin!Revived(r)
      BY <1>1 DEF Admin!Revived, Admin!Was
    <3>2. EnableWork(r) => EnableWork(r)'
      <4>1. Done(r)' = Done(r)
        BY <1>1, <1>2 DEF Done
      <4>2. \A k : (HasKind(r, k)' <=> HasKind(r, k)) /\ (FoundKind(r, k)' <=> FoundKind(r, k))
        BY <1>1 DEF HasKind, FoundKind, Admin!When
      <4>3. \A k : Writing(r, k)' <=> Writing(r, k)
        BY <1>1 DEF Writing
      <4>. QED  BY <1>1, <1>2, <4>1, <4>2, <4>3 DEF EnableWork
    <3>. QED  BY <1>1, <2>1, <2>3, <3>1, <3>2 DEF Work
  <2>. QED  BY <1>0, <1>1, <2>2, <2>3, JobFacts DEF Staged
<1>. QED  BY <1>1, <1>2, <1>3, <1>4, OneRequest

LEMMA DeletePolicyRequestKeepsInv ==
  ASSUME AdminInv, Admin!JobsAssumption, NEW r \in PolicyRequests, Admin!DeletePolicy(r)
  PROVE  AdminInv' /\ (alone[r] => Work(r)')
<1>0. AdminTypes /\ Staged(r)
  BY DEF AdminInv
<1>1. /\ gpc[r] = "delete" /\ Admin!Go(r, "ok") /\ Admin!Running(r)
      /\ UNCHANGED <<ids, versions, request, target, ident, edit, doomed, begun, alone>>
      /\ table' = [table EXCEPT ![request[r].id].active = FALSE]
  BY DEF Admin!DeletePolicy, Admin!given, Admin!Running
<1>2. /\ DOMAIN gpc' = PolicyRequests /\ gpc'[r] = "ok"
      /\ \A q \in PolicyRequests \ {r} : gpc'[q] = gpc[q]
  BY <1>0, <1>1, GoesOn
<1>3. request[r].do = "delete" /\ request[r].id \in DOMAIN table
  BY <1>0, <1>1, JobFacts DEF Staged
<1>4. PICK x : x = [table[request[r].id] EXCEPT !.active = FALSE]
  OBVIOUS
<1>5. Admin!IsRow(x) /\ x.active = FALSE
  BY <1>0, <1>3, <1>4, RowOff DEF AdminTypes
<1>6. table' = [table EXCEPT ![request[r].id] = x]
  BY <1>1, <1>4
<1>7. /\ (\E S : table' \in Seq(S)) /\ DOMAIN table' = DOMAIN table /\ table'[request[r].id] = x
      /\ \A j \in DOMAIN table' : Admin!IsRow(table'[j])
  BY <1>0, <1>3, <1>5, <1>6, RowEdited
<1>8. Staged(r)' /\ AdminTypes'
  BY <1>0, <1>1, <1>2, <1>3, <1>7 DEF Staged, AdminTypes
<1>9. Work(r)'
  BY <1>1, <1>3, <1>5, <1>7 DEF Work
<1>. QED  BY <1>1, <1>2, <1>7, <1>8, <1>9, OneRequest

\* The statement itself: the rules that were asked for, unless the policy has
\* been deleted; then what is enabled had been disabled before.
LEMMA UpdateWritesWork ==
  ASSUME AdminInv, Admin!JobsAssumption, NEW r \in PolicyRequests, gpc[r] = "write", alone[r],
         NEW x, x = Admin!Edited(table[edit[r].id], edit[r]), table[edit[r].id].active,
         DOMAIN table' = DOMAIN table, table'[edit[r].id] = x,
         \A j \in DOMAIN table \ {edit[r].id} : table'[j] = table[j],
         gpc'[r] = edit[r].then,
         UNCHANGED <<ids, versions, request, target, ident, edit, doomed, begun, alone>>
  PROVE  Work(r)'
<1>0. AdminTypes /\ Staged(r) /\ Work(r)
  BY DEF AdminInv, Admin!Running
<1>1. /\ edit[r].id \in DOMAIN table /\ Admin!IsRow(table[edit[r].id])
      /\ edit[r].then \in IF request[r].do = "enable" THEN {"out", "token"} ELSE {"ok"}
      /\ request[r].do \in {"enable", "update"}
  BY <1>0, JobFacts DEF Staged, AdminTypes
<1>2. /\ x.active = TRUE /\ x.name = Admin!Coalesce(edit[r].name, table[edit[r].id].name)
      /\ x.mode = Admin!Coalesce(edit[r].mode, table[edit[r].id].mode)
      /\ x.phase = Admin!Coalesce(edit[r].phase, table[edit[r].id].phase)
      /\ x.rules = Admin!Coalesce(edit[r].rules, table[edit[r].id].rules)
  BY <1>1, RowWritten
<1>3. CASE request[r].do = "update"
  <2>1. UpdateWork(r) /\ gpc'[r] = "ok"
    BY <1>0, <1>1, <1>3 DEF Work
  <2>2. /\ table = begun[r].rows /\ ids = begun[r].ids /\ edit[r].id = request[r].id
        /\ edit[r].mode = request[r].mode /\ edit[r].phase = request[r].phase
        /\ edit[r].rules = request[r].rules
        /\ Admin!Content(request[r].id, table) \in versions
    BY <2>1 DEF UpdateWork
  <2>3. Admin!Content(request[r].id, begun[r].rows)' \in versions'
    <3>1. Admin!Content(request[r].id, begun[r].rows)' = Admin!Content(request[r].id, table)
      BY <2>2 DEF Admin!Content
    <3>. QED  BY <2>2, <3>1
  <2>4. Admin!UpdateHolds(r)'
    <3>1. /\ table'[request[r].id].mode = Admin!Coalesce(request[r].mode, begun[r].rows[request[r].id].mode)
          /\ table'[request[r].id].phase = Admin!Coalesce(request[r].phase, begun[r].rows[request[r].id].phase)
          /\ table'[request[r].id].rules = Admin!Coalesce(request[r].rules, begun[r].rows[request[r].id].rules)
      BY <1>2, <2>2
    <3>2. \A i \in DOMAIN begun[r].rows \ {request[r].id} : table'[i] = begun[r].rows[i]
      BY <2>2
    <3>. QED  BY <2>2, <2>3, <3>1, <3>2 DEF Admin!UpdateHolds, Admin!Unchanged, Admin!Was
  <2>5. UpdateWork(r)'
    BY <2>1, <2>4 DEF UpdateWork
  <2>. QED  BY <1>3, <2>5 DEF Work
<1>4. CASE request[r].do = "enable" /\ Admin!Revived(r)
  BY <1>4 DEF Work, Admin!Revived, Admin!Was
<1>5. CASE request[r].do = "enable" /\ ~Admin!Revived(r)
  <2>1. EnableWork(r) /\ edit[r].then \in {"out", "token"}
    BY <1>0, <1>1, <1>5 DEF Work
  <2>2. PICK k \in request[r].kinds : Writing(r, k)
    BY <2>1 DEF EnableWork
  <2>3. /\ request[r].kinds \subseteq {"in", "out"} /\ request[r].rules # None
        /\ <<k, request[r].source>> # None
    BY <1>0, <1>5, <2>2, JobFacts
  <2>4. /\ Done(r) = IF k = "in" THEN {} ELSE {"in"} \cap request[r].kinds
        /\ Done(r)' = IF k = "in" THEN {"in"} \cap request[r].kinds ELSE request[r].kinds
    BY <2>1, <2>2 DEF Done, Writing
  <2>5. k \in {"in", "out"} /\ k \notin Done(r) /\ Done(r)' = Done(r) \cup {k}
    BY <2>2, <2>3, <2>4 DEF Writing
  <2>6. /\ ids = begun[r].ids /\ DOMAIN begun[r].rows \subseteq DOMAIN table
        /\ \A i \in DOMAIN begun[r].rows : table[i] = begun[r].rows[i] \/ table[i].name[1] \in Done(r)
        /\ \A h \in Done(r) : HasKind(r, h)
        /\ \A h \in request[r].kinds \ Done(r) : FoundKind(r, h)
    BY <2>1 DEF EnableWork
  <2>7. /\ x.name = <<k, request[r].source>> /\ x.name[1] = k /\ x.rules = request[r].rules
        /\ edit[r].id = target[r][k] /\ target[r][k] # None
    <3>1. /\ edit[r].name = <<k, request[r].source>> /\ edit[r].rules = request[r].rules
          /\ edit[r].id = target[r][k] /\ target[r][k] # None
      BY <2>2 DEF Writing
    <3>2. x.name = edit[r].name /\ x.rules = edit[r].rules
      BY <1>2, <2>3, <3>1 DEF Admin!Coalesce
    <3>. QED  BY <3>1, <3>2
  <2>8. /\ table[edit[r].id] = begun[r].rows[edit[r].id] /\ table[edit[r].id].name[1] = k
        /\ Admin!When(x) = "pre" \/ (k = "out" /\ edit[r].id \in DOMAIN begun[r].rows)
    <3>1. FoundKind(r, k)
      BY <2>5, <2>6
    <3>2. x.phase = table[edit[r].id].phase
      BY <1>2, <2>2 DEF Writing, Admin!Coalesce
    <3>3. k = "out" \/ x.phase = "request"
      BY <2>7, <3>1, <3>2 DEF FoundKind
    <3>. QED  BY <2>7, <3>1, <3>3 DEF FoundKind, Admin!When
  <2>9. ASSUME NEW h \in Done(r)'  PROVE HasKind(r, h)'
    <3>1. CASE h = k
      BY <1>1, <1>2, <2>7, <2>8, <3>1 DEF HasKind
    <3>2. CASE h # k
      <4>1. HasKind(r, h) /\ table[target[r][h]].name[1] = h
        BY <2>5, <2>6, <3>2 DEF HasKind
      <4>2. target[r][h] # edit[r].id
        BY <2>8, <3>2, <4>1
      <4>. QED  BY <4>1, <4>2 DEF HasKind, Admin!When
    <3>. QED  BY <3>1, <3>2
  <2>10. ASSUME NEW h \in request[r].kinds \ Done(r)'  PROVE FoundKind(r, h)'
    <3>1. h # k /\ FoundKind(r, h)
      BY <2>5, <2>6
    <3>2. target[r][h] # edit[r].id \/ target[r][h] = None
      BY <2>8, <3>1 DEF FoundKind
    <3>. QED  BY <3>1, <3>2 DEF FoundKind
  <2>11. \A i \in DOMAIN begun[r].rows : table'[i] = begun[r].rows[i] \/ table'[i].name[1] \in Done(r)'
    BY <2>5, <2>6, <2>7
  <2>12. EnableWork(r)'
    BY <2>1, <2>6, <2>9, <2>10, <2>11 DEF EnableWork
  <2>. QED  BY <1>5, <2>12 DEF Work
<1>. QED  BY <1>1, <1>3, <1>4, <1>5

\* What enabling that fails has left.
LEMMA EnableFails ==
  ASSUME NEW r \in PolicyRequests, gpc[r] \notin {"ok", "failed"}, EnableWork(r),
         UNCHANGED <<table, ids, request, begun>>
  PROVE  Admin!EnableFailed(r)'
<1>1. /\ ids = begun[r].ids
      /\ \A i \in DOMAIN begun[r].rows : table[i] = begun[r].rows[i] \/ table[i].name[1] \in Done(r)
  BY DEF EnableWork
<1>2. Done(r) \subseteq request[r].kinds
  BY DEF Done
<1>. QED  BY <1>1, <1>2 DEF Admin!EnableFailed, Admin!Unchanged, Admin!Was

LEMMA PolicyUpdateKeepsInv ==
  ASSUME AdminInv, Admin!JobsAssumption, NEW r \in PolicyRequests, Admin!Update(r)
  PROVE  AdminInv' /\ (alone[r] => Work(r)')
<1>0. AdminTypes /\ Staged(r)
  BY DEF AdminInv
<1>1. /\ gpc[r] = "write" /\ Admin!Running(r)
      /\ UNCHANGED <<ids, versions, request, target, ident, edit, doomed, begun, alone>>
  BY DEF Admin!Update, Admin!given, Admin!Running
<1>2. /\ edit[r].id \in DOMAIN table /\ Admin!IsRow(table[edit[r].id])
      /\ edit[r].then \in IF request[r].do = "enable" THEN {"out", "token"} ELSE {"ok"}
      /\ request[r].do \in {"enable", "update"}
  BY <1>0, <1>1, JobFacts DEF Staged, AdminTypes
<1>3. CASE table[edit[r].id].active /\ ~Admin!NameTaken(edit[r].id, edit[r].name)
  <2>1. PICK x : x = Admin!Edited(table[edit[r].id], edit[r])
    OBVIOUS
  <2>2. table' = [table EXCEPT ![edit[r].id] = x] /\ Admin!Go(r, edit[r].then)
    BY <1>3, <2>1 DEF Admin!Update
  <2>3. Admin!IsRow(x)
    BY <1>2, <2>1, RowWritten
  <2>4. /\ (\E S : table' \in Seq(S)) /\ DOMAIN table' = DOMAIN table /\ table'[edit[r].id] = x
        /\ \A j \in DOMAIN table \ {edit[r].id} : table'[j] = table[j]
        /\ \A j \in DOMAIN table' : Admin!IsRow(table'[j])
    BY <1>0, <1>2, <2>2, <2>3, RowEdited
  <2>5. /\ DOMAIN gpc' = PolicyRequests /\ gpc'[r] = edit[r].then
        /\ \A q \in PolicyRequests \ {r} : gpc'[q] = gpc[q]
    BY <1>0, <2>2, GoesOn
  <2>6. AdminTypes'
    BY <1>0, <1>1, <2>4, <2>5 DEF AdminTypes
  <2>7. Staged(r)'
    BY <1>0, <1>1, <1>2, <2>4, <2>5 DEF Staged
  <2>8. alone[r] => Work(r)'
    BY <1>1, <1>3, <2>1, <2>4, <2>5, UpdateWritesWork
  <2>. QED  BY <1>1, <2>4, <2>5, <2>6, <2>7, <2>8, OneRequest
<1>4. CASE ~(table[edit[r].id].active /\ ~Admin!NameTaken(edit[r].id, edit[r].name))
  <2>1. PICK stage : /\ stage = IF table[edit[r].id].active \/ request[r].do = "update" THEN "failed"
                                ELSE edit[r].then
                     /\ Admin!Go(r, stage)
    BY <1>4 DEF Admin!Update
  <2>2. table' = table
    BY <1>4 DEF Admin!Update
  <2>3. /\ DOMAIN gpc' = PolicyRequests /\ gpc'[r] = stage
        /\ \A q \in PolicyRequests \ {r} : gpc'[q] = gpc[q]
    BY <1>0, <2>1, GoesOn
  <2>4. AdminTypes'
    BY <1>0, <1>1, <2>2, <2>3 DEF AdminTypes
  <2>5. Staged(r)'
    BY <1>0, <1>1, <1>2, <2>1, <2>2, <2>3 DEF Staged
  <2>6. ASSUME alone[r]  PROVE Work(r)'
    <3>1. Work(r)
      BY <1>1, <2>6 DEF AdminInv
    <3>2. CASE stage = "failed"
      <4>1. CASE request[r].do = "update"
        BY <1>1, <2>3, <3>2, <4>1 DEF Work, UpdateWork
      <4>2. CASE request[r].do = "enable" /\ Admin!Revived(r)
        BY <1>1, <4>2 DEF Work, Admin!Revived, Admin!Was
      <4>3. CASE request[r].do = "enable" /\ ~Admin!Revived(r)
        <5>1. Admin!EnableFailed(r)'
          BY <1>1, <2>2, <3>1, <4>3, EnableFails DEF Work
        <5>. QED  BY <1>1, <2>3, <3>2, <4>3, <5>1 DEF Work, EnableWork
      <4>. QED  BY <1>2, <4>1, <4>2, <4>3
    <3>3. CASE stage # "failed"
      <4>1. request[r].do = "enable" /\ ~table[edit[r].id].active
        BY <1>2, <2>1, <3>3
      <4>2. Admin!Revived(r)
        <5>1. SUFFICES ASSUME ~Admin!Revived(r)  PROVE FALSE
          OBVIOUS
        <5>2. EnableWork(r)
          BY <3>1, <4>1, <5>1 DEF Work
        <5>3. PICK k \in request[r].kinds : Writing(r, k)
          BY <1>1, <5>2 DEF EnableWork
        <5>4. k \notin Done(r)
          BY <1>1, <1>2, <4>1, <5>3 DEF Done, Writing
        <5>5. FoundKind(r, k)
          BY <1>1, <5>2, <5>4 DEF EnableWork
        <5>6. edit[r].id = target[r][k] /\ target[r][k] # None
          BY <5>3 DEF Writing
        <5>7. /\ edit[r].id \in DOMAIN begun[r].rows /\ begun[r].rows[edit[r].id].name[1] = k
              /\ ~begun[r].rows[edit[r].id].active
          BY <4>1, <5>5, <5>6 DEF FoundKind
        <5>. QED  BY <5>1, <5>7 DEF Admin!Revived, Admin!Was
      <4>. QED  BY <1>1, <4>1, <4>2 DEF Work, Admin!Revived, Admin!Was
    <3>. QED  BY <3>2, <3>3
  <2>. QED  BY <1>1, <2>2, <2>3, <2>4, <2>5, <2>6, OneRequest
<1>. QED  BY <1>3, <1>4

\* What there is of a kind of guardrail.
LEMMA ExistingFound ==
  ASSUME AdminTypes, NEW k
  PROVE  /\ Admin!Existing(k) \in DOMAIN table \cup {None}
         /\ Admin!Existing(k) # None =>
               /\ table[Admin!Existing(k)].name[1] = k
               /\ k = "in" => table[Admin!Existing(k)].phase = "request"
<1>1. PICK S : table \in Seq(S)
  BY DEF AdminTypes
<1>2. DOMAIN table = 1..Len(table) /\ Len(table) \in Nat
  BY <1>1
<1>3. CASE Admin!Candidates(k) = {}
  BY <1>3 DEF Admin!Existing
<1>4. CASE Admin!Candidates(k) # {}
  <2>1. Admin!Candidates(k) \subseteq 1..Len(table)
    BY <1>2 DEF Admin!Candidates, Admin!OfKind
  <2>2. Admin!Existing(k) \in Admin!Candidates(k)
    BY <1>4, <2>1, <1>2, MaxOfRows DEF Admin!Existing
  <2>. QED  BY <2>1, <2>2, <1>2 DEF Admin!Candidates, Admin!OfKind, Admin!PhaseOf
<1>. QED  BY <1>3, <1>4

\* The guardrails that there are.
LEMMA ListKeepsInv ==
  ASSUME AdminInv, Admin!JobsAssumption, NEW r \in PolicyRequests, Admin!List(r)
  PROVE  AdminInv' /\ (alone[r] => Work(r)')
<1>0. AdminTypes /\ Staged(r)
  BY DEF AdminInv
<1>1. /\ gpc[r] = "list" /\ Admin!Running(r)
      /\ UNCHANGED <<table, ids, versions, request, ident, edit, begun, alone>>
  BY DEF Admin!List, Admin!Running, Admin!table, Admin!given
<1>2. request[r].do \in {"enable", "disable"}
  BY <1>0, <1>1, JobFacts DEF Staged
<1>3. CASE request[r].do = "enable"
  <2>1. /\ target' = [target EXCEPT ![r] = [in |-> Admin!Existing("in"), out |-> Admin!Existing("out")]]
        /\ Admin!Go(r, "in") /\ doomed' = doomed
    BY <1>3 DEF Admin!List
  <2>2. /\ DOMAIN gpc' = PolicyRequests /\ gpc'[r] = "in"
        /\ \A q \in PolicyRequests \ {r} : gpc'[q] = gpc[q]
    BY <1>0, <2>1, GoesOn
  <2>3. /\ target'[r] = [in |-> Admin!Existing("in"), out |-> Admin!Existing("out")]
        /\ DOMAIN target' = PolicyRequests /\ \A q \in PolicyRequests \ {r} : target'[q] = target[q]
    BY <1>0, <2>1 DEF AdminTypes
  <2>4. \A k \in {"in", "out"} :
           /\ target'[r][k] \in DOMAIN table \cup {None}
           /\ target'[r][k] # None =>
                 /\ table[target'[r][k]].name[1] = k
                 /\ k = "in" => table[target'[r][k]].phase = "request"
    <3>1. target'[r]["in"] = Admin!Existing("in") /\ target'[r]["out"] = Admin!Existing("out")
      BY <2>3
    <3>. QED  BY <1>0, <3>1, ExistingFound
  <2>5. target'[r] \in [{"in", "out"} -> DOMAIN table' \cup {None}]
    <3>1. Admin!Existing("in") \in DOMAIN table' \cup {None} /\ Admin!Existing("out") \in DOMAIN table' \cup {None}
      BY <1>0, <1>1, ExistingFound
    <3>. QED  BY <2>3, <3>1
  <2>6. AdminTypes'
    BY <1>0, <1>1, <2>1, <2>2, <2>3 DEF AdminTypes
  <2>7. Staged(r)'
    BY <1>0, <1>1, <1>3, <2>1, <2>2, <2>5 DEF Staged
  <2>8. ASSUME alone[r]  PROVE Work(r)'
    <3>1. Work(r) /\ request[r].kinds \subseteq {"in", "out"}
      BY <1>0, <1>1, <1>3, <2>8, JobFacts DEF AdminInv
    <3>2. CASE Admin!Revived(r)
      BY <1>1, <1>3, <3>2 DEF Work, Admin!Revived, Admin!Was
    <3>3. CASE ~Admin!Revived(r)
      <4>1. ids = begun[r].ids /\ table = begun[r].rows
        BY <1>1, <1>3, <3>1, <3>3 DEF Work, EnableWork
      <4>2. Done(r)' = {}
        BY <2>2 DEF Done
      <4>3. \A k \in request[r].kinds : FoundKind(r, k)'
        BY <1>1, <2>4, <3>1, <4>1 DEF FoundKind
      <4>4. EnableWork(r)'
        BY <1>1, <2>2, <4>1, <4>2, <4>3 DEF EnableWork
      <4>. QED  BY <1>1, <1>3, <4>4 DEF Work
    <3>. QED  BY <3>2, <3>3
  <2>. QED  BY <1>1, <2>1, <2>2, <2>3, <2>6, <2>7, <2>8, OneRequest
<1>4. CASE request[r].do = "disable"
  <2>1. PICK stage : /\ stage = IF Admin!OfKind(Admin!Kinds) = {} THEN "ok" ELSE "token"
                     /\ Admin!Go(r, stage)
    BY <1>4 DEF Admin!List
  <2>2. doomed' = [doomed EXCEPT ![r] = Admin!OfKind(Admin!Kinds)] /\ target' = target
    BY <1>4 DEF Admin!List
  <2>3. /\ DOMAIN gpc' = PolicyRequests /\ gpc'[r] = stage
        /\ \A q \in PolicyRequests \ {r} : gpc'[q] = gpc[q]
    BY <1>0, <2>1, GoesOn
  <2>4. /\ doomed'[r] = {i \in DOMAIN table : table[i].name[1] \in {"in", "out"}}
        /\ DOMAIN doomed' = PolicyRequests /\ \A q \in PolicyRequests \ {r} : doomed'[q] = doomed[q]
    BY <1>0, <2>2 DEF AdminTypes, Admin!OfKind, Admin!Kinds
  <2>5. AdminTypes'
    BY <1>0, <1>1, <2>2, <2>3, <2>4 DEF AdminTypes
  <2>6. Staged(r)'
    BY <1>0, <1>1, <1>4, <2>1, <2>2, <2>3, <2>4 DEF Staged
  <2>7. ASSUME alone[r]  PROVE Work(r)'
    <3>1. ids = begun[r].ids /\ table = begun[r].rows
      BY <1>1, <1>4, <2>7 DEF AdminInv, Work, DisableWork
    <3>2. doomed'[r] = Guardrails(r)'
      BY <1>1, <2>4, <3>1 DEF Guardrails
    <3>3. CASE stage = "token"
      <4>1. DisableWork(r)'
        BY <1>1, <2>3, <3>1, <3>2, <3>3 DEF DisableWork
      <4>. QED  BY <1>1, <1>4, <4>1 DEF Work
    <3>4. CASE stage = "ok"
      <4>1. Admin!OfKind(Admin!Kinds) = {}
        BY <2>1, <3>4
      <4>2. \A i \in DOMAIN table : table[i].name[1] \notin Admin!Kinds
        BY <4>1 DEF Admin!OfKind
      <4>3. ids \subseteq DOMAIN table
        BY <1>0 DEF AdminTypes
      <4>4. Admin!DisableHolds(r)'
        BY <1>1, <3>1, <4>2, <4>3
           DEF Admin!DisableHolds, Admin!Unchanged, Admin!Was, Admin!OfKind
      <4>5. DisableWork(r)'
        BY <2>3, <3>4, <4>4 DEF DisableWork
      <4>. QED  BY <1>1, <1>4, <4>5 DEF Work
    <3>. QED  BY <2>1, <3>3, <3>4
  <2>. QED  BY <1>1, <2>2, <2>3, <2>4, <2>5, <2>6, <2>7, OneRequest
<1>. QED  BY <1>2, <1>3, <1>4

\* The token's list is read.
LEMMA GetTokenKeepsInv ==
  ASSUME AdminInv, Admin!JobsAssumption, NEW r \in PolicyRequests, Admin!GetToken(r)
  PROVE  AdminInv' /\ (alone[r] => Work(r)')
<1>0. AdminTypes /\ Staged(r)
  BY DEF AdminInv
<1>1. /\ gpc[r] = "token" /\ Admin!Go(r, "attach") /\ Admin!Running(r)
      /\ ident' = [ident EXCEPT ![r] = ids]
      /\ UNCHANGED <<table, ids, versions, request, target, edit, doomed, begun, alone>>
  BY DEF Admin!GetToken, Admin!Running, Admin!table, Admin!given
<1>2. /\ DOMAIN gpc' = PolicyRequests /\ gpc'[r] = "attach"
      /\ \A q \in PolicyRequests \ {r} : gpc'[q] = gpc[q]
  BY <1>0, <1>1, GoesOn
<1>3. /\ ident'[r] = ids /\ DOMAIN ident' = PolicyRequests
      /\ \A q \in PolicyRequests \ {r} : ident'[q] = ident[q]
  BY <1>0, <1>1 DEF AdminTypes
<1>4. AdminTypes'
  BY <1>0, <1>1, <1>2, <1>3 DEF AdminTypes
<1>5. request[r].do \in {"enable", "disable"}
  BY <1>0, <1>1, JobFacts DEF Staged
<1>6. Staged(r)'
  BY <1>0, <1>1, <1>2, <1>3, <1>5 DEF Staged, AdminTypes
<1>7. ASSUME alone[r]  PROVE Work(r)'
  <2>1. Work(r)
    BY <1>1, <1>7 DEF AdminInv
  <2>2. CASE request[r].do = "disable"
    <3>1. ids = begun[r].ids /\ table = begun[r].rows /\ doomed[r] = Guardrails(r)
      BY <1>1, <2>1, <2>2 DEF Work, DisableWork
    <3>2. DisableWork(r)'
      BY <1>1, <1>2, <1>3, <3>1 DEF DisableWork, Guardrails
    <3>. QED  BY <1>1, <2>2, <3>2 DEF Work
  <2>3. CASE request[r].do = "enable" /\ Admin!Revived(r)
    BY <1>1, <2>3 DEF Work, Admin!Revived, Admin!Was
  <2>4. CASE request[r].do = "enable" /\ ~Admin!Revived(r)
    <3>1. EnableWork(r)
      BY <2>1, <2>4 DEF Work
    <3>2. Done(r)' = Done(r)
      BY <1>1, <1>2 DEF Done
    <3>3. \A k : (HasKind(r, k)' <=> HasKind(r, k)) /\ (FoundKind(r, k)' <=> FoundKind(r, k))
      BY <1>1 DEF HasKind, FoundKind, Admin!When
    <3>4. EnableWork(r)'
      BY <1>1, <1>2, <1>3, <3>1, <3>2, <3>3 DEF EnableWork
    <3>. QED  BY <1>1, <2>4, <3>4 DEF Work
  <2>. QED  BY <1>5, <2>2, <2>3, <2>4
<1>. QED  BY <1>1, <1>2, <1>3, <1>4, <1>6, <1>7, OneRequest

\* A new policy for guardrails of one kind, which nobody else has.
LEMMA MadeWork ==
  ASSUME AdminInv, Admin!JobsAssumption, NEW r \in PolicyRequests, NEW kind, NEW then,
         (kind = "in" /\ then = "out") \/ (kind = "out" /\ then = "token"),
         gpc[r] = kind, alone[r], request[r].do = "enable", kind \in request[r].kinds,
         NEW n, n \in DOMAIN table', n \notin DOMAIN table, DOMAIN table \subseteq DOMAIN table',
         table'[n].active, table'[n].name = <<kind, request[r].source>>,
         table'[n].rules = request[r].rules, Admin!When(table'[n]) = "pre",
         \A j \in DOMAIN table : table'[j] = table[j],
         gpc'[r] = then, target'[r][kind] = n,
         \A h \in {"in", "out"} \ {kind} : target'[r][h] = target[r][h],
         UNCHANGED <<ids, versions, request, ident, edit, doomed, begun, alone>>
  PROVE  Work(r)'
<1>0. AdminTypes /\ Staged(r) /\ Work(r)
  BY DEF AdminInv, Admin!Running
<1>1. CASE Admin!Revived(r)
  BY <1>1 DEF Work, Admin!Revived, Admin!Was
<1>2. CASE ~Admin!Revived(r)
  <2>1. EnableWork(r) /\ request[r].kinds \subseteq {"in", "out"}
    BY <1>0, <1>2, JobFacts DEF Work
  <2>2. /\ kind \notin Done(r) /\ Done(r)' = Done(r) \cup {kind}
        /\ Done(r) = IF kind = "in" THEN {} ELSE {"in"} \cap request[r].kinds
    BY <2>1 DEF Done
  <2>3. /\ ids = begun[r].ids /\ DOMAIN begun[r].rows \subseteq DOMAIN table
        /\ \A i \in DOMAIN begun[r].rows : table[i] = begun[r].rows[i] \/ table[i].name[1] \in Done(r)
        /\ \A h \in Done(r) : HasKind(r, h)
        /\ \A h \in request[r].kinds \ Done(r) : FoundKind(r, h)
    BY <2>1 DEF EnableWork
  <2>4. ASSUME NEW h \in Done(r)'  PROVE HasKind(r, h)'
    <3>1. CASE h = kind
      BY <3>1 DEF HasKind
    <3>2. CASE h # kind
      <4>1. HasKind(r, h) /\ h \in {"in", "out"}
        BY <2>1, <2>2, <2>3, <3>2
      <4>. QED  BY <3>2, <4>1 DEF HasKind, Admin!When
    <3>. QED  BY <3>1, <3>2
  <2>5. ASSUME NEW h \in request[r].kinds \ Done(r)'  PROVE FoundKind(r, h)'
    <3>1. h # kind /\ FoundKind(r, h) /\ h \in {"in", "out"}
      BY <2>1, <2>2, <2>3
    <3>. QED  BY <3>1 DEF FoundKind
  <2>6. \A i \in DOMAIN begun[r].rows : table'[i] = begun[r].rows[i] \/ table'[i].name[1] \in Done(r)'
    BY <2>2, <2>3
  <2>7. EnableWork(r)'
    BY <2>3, <2>4, <2>5, <2>6 DEF EnableWork
  <2>. QED  BY <2>7 DEF Work
<1>. QED  BY <1>1, <1>2

\* The policy of one kind is made, or found, or there is no preset for it.
LEMMA UpsertKeepsInv ==
  ASSUME AdminInv, Admin!JobsAssumption, NEW r \in PolicyRequests, NEW kind, NEW then,
         (kind = "in" /\ then = "out") \/ (kind = "out" /\ then = "token"),
         Admin!Upsert(r, kind, then)
  PROVE  AdminInv' /\ (alone[r] => Work(r)')
<1>0. AdminTypes /\ Staged(r)
  BY DEF AdminInv
<1>1. /\ gpc[r] = kind /\ Admin!Running(r)
      /\ UNCHANGED <<request, ident, doomed, begun, alone>>
  BY DEF Admin!Upsert, Admin!given, Admin!Running
<1>2. /\ request[r].do = "enable" /\ request[r].kinds \subseteq {"in", "out"}
      /\ <<kind, request[r].source>> # None
  BY <1>0, <1>1, JobFacts DEF Staged
<1>3. PICK name : name = <<kind, request[r].source>>
  OBVIOUS
<1>4. alone[r] => Work(r)
  BY <1>1 DEF AdminInv
\* Nothing is written before the next stage.
<1>5. ASSUME NEW stage, Admin!Go(r, stage), UNCHANGED <<table, ids, versions, target>>,
             DOMAIN edit' = PolicyRequests, \A q \in PolicyRequests \ {r} : edit'[q] = edit[q],
             \/ stage = "failed" /\ edit' = edit
             \/ stage = then /\ edit' = edit /\ kind \notin request[r].kinds
             \/ /\ stage = "snapshot" /\ kind \in request[r].kinds /\ target[r][kind] # None
                /\ edit'[r] = [id |-> target[r][kind], name |-> name, mode |-> None,
                               phase |-> None, rules |-> request[r].rules, then |-> then]
      PROVE  AdminInv' /\ (alone[r] => Work(r)')
  <2>1. /\ DOMAIN gpc' = PolicyRequests /\ gpc'[r] = stage
        /\ \A q \in PolicyRequests \ {r} : gpc'[q] = gpc[q]
    BY <1>0, <1>5, GoesOn
  <2>2. AdminTypes'
    BY <1>0, <1>1, <1>5, <2>1 DEF AdminTypes
  <2>3. Staged(r)'
    <3>1. target[r][kind] \in DOMAIN table \cup {None}
      BY <1>0 DEF Staged
    <3>. QED  BY <1>0, <1>1, <1>2, <1>5, <2>1, <3>1 DEF Staged
  <2>4. ASSUME alone[r]  PROVE Work(r)'
    <3>1. CASE Admin!Revived(r)
      BY <1>1, <1>2, <1>5, <3>1 DEF Work, Admin!Revived, Admin!Was
    <3>2. CASE ~Admin!Revived(r) /\ stage = "failed"
      <4>1. EnableWork(r) /\ gpc[r] \notin {"ok", "failed"}
        BY <1>1, <1>2, <1>4, <2>4, <3>2 DEF Work
      <4>2. Admin!EnableFailed(r)'
        BY <1>1, <1>5, <4>1, EnableFails
      <4>. QED  BY <1>1, <1>2, <2>1, <3>2, <4>2 DEF Work, EnableWork
    <3>3. CASE ~Admin!Revived(r) /\ stage # "failed"
      <4>1. EnableWork(r)
        BY <1>2, <1>4, <2>4, <3>3 DEF Work
      <4>2. Done(r)' = Done(r) /\ gpc[r] \notin {"list", "ok", "failed", "snapshot", "write", "attach"}
        BY <1>1, <1>2, <1>5, <2>1, <3>3 DEF Done
      <4>3. \A k : (HasKind(r, k)' <=> HasKind(r, k)) /\ (FoundKind(r, k)' <=> FoundKind(r, k))
        BY <1>1, <1>5 DEF HasKind, FoundKind, Admin!When
      <4>4. gpc'[r] \notin {"list", "ok", "failed", "write", "attach"}
        BY <1>5, <2>1, <3>3
      <4>5. gpc'[r] = "snapshot" =>
              \E k \in request[r].kinds : Writing(r, k)'
        <5>1. SUFFICES ASSUME gpc'[r] = "snapshot"
                       PROVE  kind \in request[r].kinds /\ Writing(r, kind)'
          BY Zenon
        <5>2. /\ kind \in request[r].kinds /\ target[r][kind] # None
              /\ edit'[r] = [id |-> target[r][kind], name |-> name, mode |-> None,
                             phase |-> None, rules |-> request[r].rules, then |-> then]
          BY <1>5, <2>1, <5>1
        <5>3. /\ edit'[r].id = target[r][kind] /\ edit'[r].name = name /\ edit'[r].phase = None
              /\ edit'[r].rules = request[r].rules /\ edit'[r].then = then
          BY <5>2
        <5>. QED  BY <1>1, <1>3, <1>5, <5>2, <5>3 DEF Writing
      <4>6. /\ ids = begun[r].ids /\ DOMAIN begun[r].rows \subseteq DOMAIN table
            /\ \A i \in DOMAIN begun[r].rows : table[i] = begun[r].rows[i] \/ table[i].name[1] \in Done(r)
            /\ \A h \in Done(r) : HasKind(r, h)
            /\ \A h \in request[r].kinds \ Done(r) : FoundKind(r, h)
        BY <4>1, <4>2 DEF EnableWork
      <4>7. EnableWork(r)'
        BY <1>1, <1>5, <4>2, <4>3, <4>4, <4>5, <4>6 DEF EnableWork
      <4>. QED  BY <1>1, <1>2, <4>7 DEF Work
    <3>. QED  BY <3>1, <3>2, <3>3
  <2>. QED  BY <1>1, <1>5, <2>1, <2>2, <2>3, <2>4, OneRequest
<1>6. CASE kind \notin request[r].kinds
  <2>1. Admin!Go(r, then) /\ UNCHANGED <<table, ids, versions, edit, target>>
    BY <1>6 DEF Admin!Upsert, Admin!table
  <2>2. DOMAIN edit' = PolicyRequests /\ \A q \in PolicyRequests \ {r} : edit'[q] = edit[q]
    BY <1>0, <2>1 DEF AdminTypes
  <2>. QED  BY <1>5, <1>6, <2>1, <2>2
<1>7. CASE kind \in request[r].kinds /\ target[r][kind] # None
  <2>1. /\ edit' = [edit EXCEPT ![r] = [id |-> target[r][kind], name |-> name, mode |-> None,
                                        phase |-> None, rules |-> request[r].rules,
                                        then |-> then]]
        /\ Admin!Go(r, "snapshot") /\ UNCHANGED <<table, ids, versions, target>>
    BY <1>3, <1>7 DEF Admin!Upsert, Admin!table
  <2>2. /\ edit'[r] = [id |-> target[r][kind], name |-> name, mode |-> None,
                       phase |-> None, rules |-> request[r].rules, then |-> then]
        /\ DOMAIN edit' = PolicyRequests /\ \A q \in PolicyRequests \ {r} : edit'[q] = edit[q]
    BY <1>0, <2>1 DEF AdminTypes
  <2>. QED  BY <1>5, <1>7, <2>1, <2>2
<1>8. CASE /\ kind \in request[r].kinds /\ target[r][kind] = None
           /\ Admin!NameTaken(0, name) \/ Admin!PhaseOf(kind) \notin phases
  <2>1. Admin!Go(r, "failed") /\ UNCHANGED <<table, ids, versions, edit, target>>
    BY <1>3, <1>8 DEF Admin!Upsert, Admin!table
  <2>2. DOMAIN edit' = PolicyRequests /\ \A q \in PolicyRequests \ {r} : edit'[q] = edit[q]
    BY <1>0, <2>1 DEF AdminTypes
  <2>. QED  BY <1>5, <2>1, <2>2
<1>9. CASE /\ kind \in request[r].kinds /\ target[r][kind] = None
           /\ ~(Admin!NameTaken(0, name) \/ Admin!PhaseOf(kind) \notin phases)
  <2>1. PICK x : x = [name |-> name, active |-> TRUE, version |-> 1, mode |-> "enforce",
                      phase |-> Admin!PhaseOf(kind), rules |-> request[r].rules]
    OBVIOUS
  <2>2. PICK n : n = Len(table')
    OBVIOUS
  <2>3. /\ table' = Append(table, x) /\ Admin!Go(r, then) /\ UNCHANGED <<ids, versions, edit>>
        /\ target' = [target EXCEPT ![r] = [target[r] EXCEPT ![kind] = n]]
    BY <1>3, <1>9, <2>1, <2>2 DEF Admin!Upsert
  <2>4. /\ \E S : table' \in Seq(S)
        /\ n \notin DOMAIN table /\ DOMAIN table' = DOMAIN table \cup {n} /\ table'[n] = x
        /\ \A j \in DOMAIN table : table'[j] = table[j]
        /\ \A j \in DOMAIN table' : Admin!IsRow(table'[j])
    <3>1. Admin!IsRow(x)
      BY <2>1 DEF Admin!IsRow
    <3>. QED  BY <1>0, <2>2, <2>3, <3>1, RowAdded
  <2>5. /\ DOMAIN gpc' = PolicyRequests /\ gpc'[r] = then
        /\ \A q \in PolicyRequests \ {r} : gpc'[q] = gpc[q]
    BY <1>0, <2>3, GoesOn
  <2>6. /\ target'[r] = [target[r] EXCEPT ![kind] = n]
        /\ DOMAIN target' = PolicyRequests /\ \A q \in PolicyRequests \ {r} : target'[q] = target[q]
    BY <1>0, <2>3 DEF AdminTypes
  <2>7. AdminTypes'
    BY <1>0, <1>1, <2>3, <2>4, <2>5, <2>6 DEF AdminTypes
  <2>8. target'[r] \in [{"in", "out"} -> DOMAIN table' \cup {None}]
    <3>1. target[r] \in [{"in", "out"} -> DOMAIN table \cup {None}]
      BY <1>0 DEF Staged
    <3>. QED  BY <2>4, <2>6, <3>1
  <2>9. Staged(r)'
    BY <1>0, <1>1, <1>2, <2>3, <2>4, <2>5, <2>8 DEF Staged
  <2>10. alone[r] => Work(r)'
    <3>1. n \in DOMAIN table' /\ DOMAIN table \subseteq DOMAIN table'
      BY <2>4
    <3>2. /\ x.active /\ x.name = <<kind, request[r].source>> /\ x.rules = request[r].rules
          /\ Admin!When(x) = "pre"
      BY <1>3, <2>1 DEF Admin!When, Admin!PhaseOf
    <3>3. target[r] \in [{"in", "out"} -> DOMAIN table \cup {None}]
      BY <1>0 DEF Staged
    <3>4. target'[r][kind] = n /\ \A h \in {"in", "out"} \ {kind} : target'[r][h] = target[r][h]
      BY <2>6, <3>3
    <3>5. UNCHANGED <<ids, versions, request, ident, edit, doomed, begun, alone>>
      BY <1>1, <2>3
    <3>. QED  BY <1>1, <1>2, <1>9, <2>4, <2>5, <3>1, <3>2, <3>4, <3>5, MadeWork
  <2>. QED  BY <1>1, <2>3, <2>4, <2>5, <2>6, <2>7, <2>9, <2>10, OneRequest
<1>. QED  BY <1>6, <1>7, <1>8, <1>9

\* The token gets its new list.
LEMMA PolicyAttachKeepsInv ==
  ASSUME AdminInv, Admin!JobsAssumption, NEW r \in PolicyRequests, Admin!SetTokenPolicyIds(r)
  PROVE  AdminInv' /\ (alone[r] => Work(r)')
<1>0. AdminTypes /\ Staged(r)
  BY DEF AdminInv
<1>1. /\ gpc[r] = "attach" /\ Admin!Running(r) /\ ids' = Admin!Attached(r)
      /\ UNCHANGED <<table, versions, request, target, ident, edit, doomed, begun, alone>>
  BY DEF Admin!SetTokenPolicyIds, Admin!given, Admin!Running
<1>2. request[r].do \in {"enable", "disable"}
  BY <1>0, <1>1, JobFacts DEF Staged
<1>3. PICK stage : stage = (IF request[r].do = "enable" THEN "ok" ELSE "remove") /\ Admin!Go(r, stage)
  BY DEF Admin!SetTokenPolicyIds
<1>4. /\ DOMAIN gpc' = PolicyRequests /\ gpc'[r] = stage
      /\ \A q \in PolicyRequests \ {r} : gpc'[q] = gpc[q]
  BY <1>0, <1>3, GoesOn
<1>5. CASE request[r].do = "enable"
  <2>1. ids' = ident[r] \cup Admin!Enabled(r)
    BY <1>1, <1>5 DEF Admin!Attached
  <2>2. Admin!Enabled(r) \subseteq DOMAIN table
    <3>1. \A k \in {"in"} \cup request[r].kinds : target[r][k] \in DOMAIN table \cup {None}
      BY <1>0, <1>5, JobFacts DEF Staged
    <3>. QED  BY <3>1 DEF Admin!Enabled
  <2>3. AdminTypes'
    BY <1>0, <1>1, <1>4, <2>1, <2>2 DEF AdminTypes, Staged
  <2>4. Staged(r)'
    BY <1>0, <1>1, <1>3, <1>4, <1>5 DEF Staged
  <2>5. ASSUME alone[r]  PROVE Work(r)'
    <3>1. Work(r)
      BY <1>1, <2>5 DEF AdminInv
    <3>2. CASE Admin!Revived(r)
      BY <1>1, <1>5, <3>2 DEF Work, Admin!Revived, Admin!Was
    <3>3. CASE ~Admin!Revived(r)
      <4>1. EnableWork(r) /\ Done(r) = request[r].kinds
        BY <1>1, <1>5, <3>1, <3>3 DEF Work, Done
      <4>2. /\ ident[r] = begun[r].ids
            /\ \A i \in DOMAIN begun[r].rows :
                  table[i] = begun[r].rows[i] \/ table[i].name[1] \in request[r].kinds
            /\ \A k \in request[r].kinds : HasKind(r, k)
        BY <1>1, <4>1 DEF EnableWork
      <4>3. ASSUME NEW k \in request[r].kinds
            PROVE  \E i \in (Admin!Enforced("pre") \cup Admin!Enforced("post"))' :
                      /\ table'[i].name = <<k, request'[r].source>> /\ table'[i].rules = request'[r].rules
                      /\ i \in Admin!Enforced("pre")' \/ (k = "out" /\ i \in Admin!Was(r)')
        <5>1. /\ target[r][k] \in DOMAIN table /\ target[r][k] # None /\ table[target[r][k]].active
              /\ table[target[r][k]].name = <<k, request[r].source>>
              /\ table[target[r][k]].rules = request[r].rules
              /\ Admin!When(table[target[r][k]]) = "pre"
                 \/ (k = "out" /\ target[r][k] \in DOMAIN begun[r].rows)
          BY <1>0, <4>2, JobFacts DEF HasKind
        <5>2. target[r][k] \in ids'
          BY <2>1, <5>1 DEF Admin!Enabled
        <5>3. PICK i : i = target[r][k]
          OBVIOUS
        <5>4. \A when : i \in Admin!Enforced(when)' <=> Admin!When(table[i]) = when
          BY <1>1, <5>1, <5>2, <5>3 DEF Admin!Enforced, Admin!When
        <5>5. i \in Admin!Enforced("pre")' \/ i \in Admin!Enforced("post")'
          BY <5>4 DEF Admin!When
        <5>6. i \in Admin!Enforced("pre")' \/ (k = "out" /\ i \in Admin!Was(r)')
          BY <1>1, <5>1, <5>3, <5>4 DEF Admin!Was
        <5>. QED  BY <1>1, <5>1, <5>3, <5>5, <5>6
      <4>4. begun'[r].ids \subseteq ids'
        BY <1>1, <2>1, <4>2
      <4>5. Admin!EnableHolds(r)'
        BY <1>1, <4>2, <4>3, <4>4 DEF Admin!EnableHolds, Admin!Unchanged, Admin!Was
      <4>6. EnableWork(r)'
        BY <1>3, <1>4, <1>5, <4>5 DEF EnableWork
      <4>. QED  BY <1>1, <1>5, <4>6 DEF Work
    <3>. QED  BY <3>2, <3>3
  <2>. QED  BY <1>1, <1>4, <2>3, <2>4, <2>5, OneRequest
<1>6. CASE request[r].do = "disable"
  <2>1. ids' = ident[r] \ doomed[r]
    BY <1>1, <1>6 DEF Admin!Attached
  <2>2. AdminTypes'
    BY <1>0, <1>1, <1>4, <2>1 DEF AdminTypes, Staged
  <2>3. Staged(r)'
    BY <1>0, <1>1, <1>3, <1>4, <1>6 DEF Staged
  <2>4. ASSUME alone[r]  PROVE Work(r)'
    <3>1. /\ table = begun[r].rows /\ ids = begun[r].ids /\ ident[r] = begun[r].ids
          /\ doomed[r] = Guardrails(r) /\ ids \subseteq DOMAIN table
      BY <1>0, <1>1, <1>6, <2>4 DEF AdminInv, Work, DisableWork, AdminTypes
    <3>2. Guardrails(r)' = Guardrails(r)
      BY <1>1 DEF Guardrails
    <3>3. DisableWork(r)'
      BY <1>1, <1>3, <1>4, <1>6, <2>1, <3>1, <3>2 DEF DisableWork
    <3>. QED  BY <1>1, <1>6, <3>3 DEF Work
  <2>. QED  BY <1>1, <1>4, <2>2, <2>3, <2>4, OneRequest
<1>. QED  BY <1>2, <1>5, <1>6

\* The policies that are disabled, one after the other.
LEMMA DeactivateKeepsInv ==
  ASSUME AdminInv, Admin!JobsAssumption, NEW r \in PolicyRequests, Admin!Deactivate(r)
  PROVE  AdminInv' /\ (alone[r] => Work(r)')
<1>0. AdminTypes /\ Staged(r)
  BY DEF AdminInv
<1>1. /\ gpc[r] = "remove" /\ Admin!Running(r)
      /\ UNCHANGED <<ids, versions, request, target, ident, edit, doomed, begun, alone>>
  BY DEF Admin!Deactivate, Admin!given, Admin!Running
<1>2. request[r].do = "disable"
  BY <1>0, <1>1, JobFacts DEF Staged
<1>3. PICK rest : rest = {i \in doomed[r] : table[i].active}
  OBVIOUS
<1>4. ASSUME alone[r]
      PROVE  /\ doomed[r] = Guardrails(r)
             /\ ids = begun[r].ids \ doomed[r] /\ begun[r].ids \subseteq DOMAIN table
             /\ DOMAIN table = DOMAIN begun[r].rows
             /\ \A i \in DOMAIN table : /\ table[i].name = begun[r].rows[i].name
                                        /\ i \in doomed[r] \/ table[i] = begun[r].rows[i]
  <2>1. DisableWork(r)
    BY <1>1, <1>2, <1>4 DEF AdminInv, Work
  <2>. QED  BY <1>1, <2>1 DEF DisableWork
<1>5. CASE rest = {}
  <2>1. Admin!Go(r, "ok") /\ table' = table
    BY <1>3, <1>5 DEF Admin!Deactivate
  <2>2. /\ DOMAIN gpc' = PolicyRequests /\ gpc'[r] = "ok"
        /\ \A q \in PolicyRequests \ {r} : gpc'[q] = gpc[q]
    BY <1>0, <2>1, GoesOn
  <2>3. AdminTypes'
    BY <1>0, <1>1, <2>1, <2>2 DEF AdminTypes
  <2>4. Staged(r)'
    BY <1>0, <1>1, <1>2, <2>1, <2>2 DEF Staged
  <2>5. ASSUME alone[r]  PROVE Work(r)'
    <3>1. \A i \in DOMAIN table : i \in doomed[r] <=> table[i].name[1] \in {"in", "out"}
      BY <1>4, <2>5 DEF Guardrails
    <3>2. ids = {i \in begun[r].ids : table[i].name[1] \notin {"in", "out"}}
      BY <1>4, <2>5, <3>1
    <3>3. \A i \in DOMAIN begun[r].rows : table[i].name[1] \notin {"in", "out"} => table[i] = begun[r].rows[i]
      BY <1>4, <2>5, <3>1
    <3>4. \A i \in DOMAIN table : table[i].name[1] \in {"in", "out"} => ~table[i].active
      BY <1>3, <1>5, <3>1
    <3>5. Admin!DisableHolds(r)'
      BY <1>1, <2>1, <3>2, <3>3, <3>4
         DEF Admin!DisableHolds, Admin!Unchanged, Admin!Was, Admin!OfKind, Admin!Kinds
    <3>6. DisableWork(r)'
      BY <2>2, <3>5 DEF DisableWork
    <3>. QED  BY <1>1, <1>2, <3>6 DEF Work
  <2>. QED  BY <1>1, <2>1, <2>2, <2>3, <2>4, <2>5, OneRequest
<1>6. CASE rest # {}
  <2>1. PICK m : m = Admin!Max(rest)
    OBVIOUS
  <2>2. m \in doomed[r] /\ m \in DOMAIN table
    <3>1. PICK S : table \in Seq(S)
      BY <1>0 DEF AdminTypes
    <3>2. DOMAIN table = 1..Len(table) /\ Len(table) \in Nat
      BY <3>1
    <3>3. rest \subseteq 1..Len(table)
      BY <1>0, <1>3, <3>2 DEF Staged
    <3>4. m \in rest
      BY <1>6, <2>1, <3>2, <3>3, MaxOfRows
    <3>. QED  BY <1>3, <3>2, <3>3, <3>4
  <2>3. table' = [table EXCEPT ![m].active = FALSE] /\ gpc' = gpc
    BY <1>3, <1>6, <2>1 DEF Admin!Deactivate
  <2>4. PICK x : x = [table[m] EXCEPT !.active = FALSE]
    OBVIOUS
  <2>5. Admin!IsRow(x) /\ x.name = table[m].name
    BY <1>0, <2>2, <2>4, RowOff DEF AdminTypes
  <2>6. table' = [table EXCEPT ![m] = x]
    BY <2>3, <2>4
  <2>7. /\ (\E S : table' \in Seq(S)) /\ DOMAIN table' = DOMAIN table /\ table'[m] = x
        /\ \A j \in DOMAIN table \ {m} : table'[j] = table[j]
        /\ \A j \in DOMAIN table' : Admin!IsRow(table'[j])
    <3>1. AdminTypes /\ m \in DOMAIN table /\ Admin!IsRow(x)
      BY <1>0, <2>2, <2>5
    <3>. QED  BY <2>6, <3>1, RowEdited, Zenon
  <2>8. AdminTypes'
    BY <1>0, <1>1, <2>3, <2>7 DEF AdminTypes
  <2>9. Staged(r)'
    BY <1>0, <1>1, <1>2, <2>3, <2>7 DEF Staged
  <2>10. ASSUME alone[r]  PROVE Work(r)'
    <3>1. \A i \in DOMAIN table' : /\ table'[i].name = begun[r].rows[i].name
                                   /\ i \in doomed[r] \/ table'[i] = begun[r].rows[i]
      BY <1>4, <2>2, <2>5, <2>7, <2>10
    <3>2. Guardrails(r)' = Guardrails(r)
      BY <1>1 DEF Guardrails
    <3>3. DisableWork(r)'
      BY <1>1, <1>4, <2>3, <2>7, <2>10, <3>1, <3>2 DEF DisableWork
    <3>. QED  BY <1>1, <1>2, <3>3 DEF Work
  <2>. QED  BY <1>1, <2>3, <2>7, <2>8, <2>9, <2>10, OneRequest
<1>. QED  BY <1>5, <1>6

LEMMA AdminIdle ==
  ASSUME AdminInv, UNCHANGED Admin!vars
  PROVE  AdminInv'
<1>1. UNCHANGED <<table, ids, versions, request, gpc, target, ident, edit, doomed, begun, alone>>
  BY DEF Admin!vars, Admin!given, Admin!request
<1>2. AdminTypes /\ AdminTypes'
  BY <1>1 DEF AdminInv, AdminTypes
<1>3. ASSUME NEW r \in PolicyRequests  PROVE Staged(r)'
  <2>1. Staged(r)
    BY DEF AdminInv
  <2>. QED  BY <1>1, <2>1 DEF Staged
<1>4. ASSUME NEW r \in PolicyRequests
      PROVE  /\ Admin!Running(r)' <=> Admin!Running(r)
             /\ Work(r) => Work(r)'
  <2>1. Admin!Running(r)' <=> Admin!Running(r)
    BY <1>1 DEF Admin!Running
  <2>2. Admin!UpdateHolds(r) => Admin!UpdateHolds(r)'
    BY <1>1 DEF Admin!UpdateHolds, Admin!Unchanged, Admin!Was, Admin!Content
  <2>3. UpdateWork(r) => UpdateWork(r)'
    <3>1. Admin!Content(request[r].id, table)' = Admin!Content(request[r].id, table)
      BY <1>1 DEF Admin!Content
    <3>. QED  BY <1>1, <2>2, <3>1 DEF UpdateWork
  <2>4. Admin!DisableHolds(r) => Admin!DisableHolds(r)'
    BY <1>1 DEF Admin!DisableHolds, Admin!Unchanged, Admin!Was, Admin!OfKind, Admin!Kinds
  <2>5. DisableWork(r) => DisableWork(r)'
    BY <1>1, <2>4 DEF DisableWork, Guardrails
  <2>6. Admin!EnableHolds(r) => Admin!EnableHolds(r)'
    <3>1. Admin!Enforced("pre")' = Admin!Enforced("pre") /\ Admin!Enforced("post")' = Admin!Enforced("post")
      BY <1>1 DEF Admin!Enforced, Admin!When
    <3>. QED  BY <1>1, <3>1 DEF Admin!EnableHolds, Admin!Unchanged, Admin!Was
  <2>7. EnableWork(r) => EnableWork(r)'
    <3>1. Done(r)' = Done(r)
      BY <1>1 DEF Done
    <3>2. \A k : (HasKind(r, k)' <=> HasKind(r, k)) /\ (FoundKind(r, k)' <=> FoundKind(r, k))
      BY <1>1 DEF HasKind, FoundKind, Admin!When
    <3>3. \A k : Writing(r, k)' <=> Writing(r, k)
      BY <1>1 DEF Writing
    <3>4. Admin!EnableFailed(r) => Admin!EnableFailed(r)'
      BY <1>1 DEF Admin!EnableFailed, Admin!Unchanged, Admin!Was
    <3>. QED  BY <1>1, <2>6, <3>1, <3>2, <3>3, <3>4 DEF EnableWork
  <2>8. Admin!Revived(r)' <=> Admin!Revived(r)
    BY <1>1 DEF Admin!Revived, Admin!Was
  <2>. QED  BY <1>1, <2>1, <2>3, <2>5, <2>7, <2>8 DEF Work
<1>5. alone' = alone
  BY <1>1
<1>. QED  BY <1>2, <1>3, <1>4, <1>5 DEF AdminInv

LEMMA AdminStarts ==
  ASSUME Admin!Init, Admin!JobsAssumption
  PROVE  AdminInv
<1>1. /\ table \in PolicyTables /\ ids = DOMAIN table /\ request \in [PolicyRequests -> PolicyJobs]
      /\ gpc = [r \in PolicyRequests |-> "begin"]
      /\ target = [r \in PolicyRequests |-> [in |-> None, out |-> None]]
      /\ ident = [r \in PolicyRequests |-> {}] /\ edit = [r \in PolicyRequests |-> None]
      /\ doomed = [r \in PolicyRequests |-> {}] /\ begun = [r \in PolicyRequests |-> None]
      /\ alone = [r \in PolicyRequests |-> TRUE]
  BY DEF Admin!Init
<1>2. (\E S : table \in Seq(S)) /\ \A i \in DOMAIN table : Admin!IsRow(table[i])
  BY <1>1 DEF Admin!JobsAssumption
<1>3. AdminTypes
  BY <1>1, <1>2 DEF AdminTypes
<1>4. ASSUME NEW r \in PolicyRequests  PROVE Staged(r)
  <2>1. request[r].do \in {"update", "delete"} => request[r].id \in DOMAIN table
    BY <1>1 DEF Admin!JobsAssumption
  <2>2. target[r] \in [{"in", "out"} -> DOMAIN table \cup {None}]
    BY <1>1
  <2>3. gpc[r] = "begin" /\ ident[r] = {} /\ doomed[r] = {}
    BY <1>1
  <2>. QED  BY <2>1, <2>2, <2>3 DEF Staged
<1>5. \A r \in PolicyRequests : ~Admin!Running(r)
  BY <1>1 DEF Admin!Running
<1>. QED  BY <1>3, <1>4, <1>5 DEF AdminInv

LEMMA AdminSteps ==
  ASSUME AdminInv, Admin!JobsAssumption, NEW r \in PolicyRequests,
         \/ Admin!Begin(r) \/ Admin!UpdatePolicy(r) \/ Admin!DeletePolicy(r) \/ Admin!List(r)
         \/ Admin!Upsert(r, "in", "out") \/ Admin!Upsert(r, "out", "token")
         \/ Admin!Snapshot(r) \/ Admin!Update(r) \/ Admin!GetToken(r)
         \/ Admin!SetTokenPolicyIds(r) \/ Admin!Deactivate(r)
  PROVE  /\ AdminInv'
         /\ \A q \in PolicyRequests \ {r} : gpc'[q] = gpc[q]
         /\ Admin!Running(r) /\ alone[r] => Work(r)'
         /\ UNCHANGED <<request, alone, begun>> \/ ~Admin!Running(r)
<1>1. AdminInv' /\ (Admin!Running(r) /\ alone[r] => Work(r)')
  <2>1. CASE Admin!Begin(r)
    BY <2>1, BeginKeepsInv DEF Admin!Begin, Admin!Running
  <2>2. CASE Admin!UpdatePolicy(r)
    BY <2>2, UpdatePolicyKeepsInv
  <2>3. CASE Admin!DeletePolicy(r)
    BY <2>3, DeletePolicyRequestKeepsInv
  <2>4. CASE Admin!List(r)
    BY <2>4, ListKeepsInv
  <2>5. CASE Admin!Upsert(r, "in", "out")
    BY <2>5, UpsertKeepsInv
  <2>6. CASE Admin!Upsert(r, "out", "token")
    BY <2>6, UpsertKeepsInv
  <2>7. CASE Admin!Snapshot(r)
    BY <2>7, SnapshotKeepsInv
  <2>8. CASE Admin!Update(r)
    BY <2>8, PolicyUpdateKeepsInv
  <2>9. CASE Admin!GetToken(r)
    BY <2>9, GetTokenKeepsInv
  <2>10. CASE Admin!SetTokenPolicyIds(r)
    BY <2>10, PolicyAttachKeepsInv
  <2>11. CASE Admin!Deactivate(r)
    BY <2>11, DeactivateKeepsInv
  <2>. QED  BY <2>1, <2>2, <2>3, <2>4, <2>5, <2>6, <2>7, <2>8, <2>9, <2>10, <2>11
<1>2. (\E stage : Admin!Go(r, stage)) \/ gpc' = gpc
  BY Zenon DEF Admin!Begin, Admin!UpdatePolicy, Admin!DeletePolicy, Admin!List, Admin!Upsert,
               Admin!Snapshot, Admin!Update, Admin!GetToken, Admin!SetTokenPolicyIds, Admin!Deactivate
<1>3. \A q \in PolicyRequests \ {r} : gpc'[q] = gpc[q]
  BY <1>2 DEF AdminInv, AdminTypes, Admin!Go
<1>4. UNCHANGED <<request, alone, begun>> \/ ~Admin!Running(r)
  BY DEF Admin!Begin, Admin!UpdatePolicy, Admin!DeletePolicy, Admin!List, Admin!Upsert,
         Admin!Snapshot, Admin!Update, Admin!GetToken, Admin!SetTokenPolicyIds, Admin!Deactivate,
         Admin!Running, Admin!given
<1>. QED  BY <1>1, <1>3, <1>4

\* A request that nobody else has met did what it answers (PolicyAdmin).
THEOREM ChangesAnswered ==
  ASSUME Admin!JobsAssumption
  PROVE  Admin!Spec => Admin!AnswersHold
<1>1. Admin!Init => AdminInv
  BY AdminStarts
<1>2. AdminInv /\ [Admin!Next]_Admin!vars => AdminInv'
  <2>1. SUFFICES ASSUME AdminInv, [Admin!Next]_Admin!vars  PROVE AdminInv'
    OBVIOUS
  <2>2. CASE Admin!Next
    <3>1. PICK r \in PolicyRequests :
            \/ Admin!Begin(r) \/ Admin!UpdatePolicy(r) \/ Admin!DeletePolicy(r) \/ Admin!List(r)
            \/ Admin!Upsert(r, "in", "out") \/ Admin!Upsert(r, "out", "token")
            \/ Admin!Snapshot(r) \/ Admin!Update(r) \/ Admin!GetToken(r)
            \/ Admin!SetTokenPolicyIds(r) \/ Admin!Deactivate(r)
      BY <2>2 DEF Admin!Next
    <3>. QED  BY <2>1, <3>1, AdminSteps
  <2>3. CASE UNCHANGED Admin!vars
    BY <2>1, <2>3, AdminIdle
  <2>. QED  BY <2>1, <2>2, <2>3
<1>3. AdminInv /\ [Admin!Next]_Admin!vars
      => [\A r \in PolicyRequests : Admin!Running(r) /\ alone[r] =>
             /\ gpc'[r] = "ok" =>
                   CASE request[r].do = "enable"  -> Admin!Revived(r) \/ Admin!EnableHolds(r)'
                     [] request[r].do = "disable" -> Admin!DisableHolds(r)'
                     [] request[r].do = "update"  -> Admin!UpdateHolds(r)'
                     [] OTHER                     -> ~ table'[request[r].id].active
             /\ gpc'[r] = "failed" /\ request[r].do = "enable" =>
                   Admin!Revived(r) \/ Admin!EnableFailed(r)']_Admin!vars
  <2>1. SUFFICES ASSUME AdminInv, Admin!Next, NEW r \in PolicyRequests,
                        Admin!Running(r), alone[r], gpc'[r] \in {"ok", "failed"}
                 PROVE  /\ gpc'[r] = "ok" =>
                             CASE request[r].do = "enable"  -> Admin!Revived(r) \/ Admin!EnableHolds(r)'
                               [] request[r].do = "disable" -> Admin!DisableHolds(r)'
                               [] request[r].do = "update"  -> Admin!UpdateHolds(r)'
                               [] OTHER                     -> ~ table'[request[r].id].active
                        /\ gpc'[r] = "failed" /\ request[r].do = "enable" =>
                             Admin!Revived(r) \/ Admin!EnableFailed(r)'
    BY Zenon
  <2>2. PICK q \in PolicyRequests :
          \/ Admin!Begin(q) \/ Admin!UpdatePolicy(q) \/ Admin!DeletePolicy(q) \/ Admin!List(q)
          \/ Admin!Upsert(q, "in", "out") \/ Admin!Upsert(q, "out", "token")
          \/ Admin!Snapshot(q) \/ Admin!Update(q) \/ Admin!GetToken(q)
          \/ Admin!SetTokenPolicyIds(q) \/ Admin!Deactivate(q)
    BY <2>1 DEF Admin!Next
  <2>3. /\ \A p \in PolicyRequests \ {q} : gpc'[p] = gpc[p]
        /\ Admin!Running(q) /\ alone[q] => Work(q)'
        /\ UNCHANGED <<request, alone, begun>> \/ ~Admin!Running(q)
    BY <2>1, <2>2, AdminSteps
  <2>4. q = r
    BY <2>1, <2>3 DEF Admin!Running
  <2>5. Work(r)' /\ UNCHANGED <<request, begun>>
    BY <2>1, <2>3, <2>4
  <2>6. request[r].do \in {"enable", "disable", "update", "delete"}
    BY <2>1, JobFacts DEF AdminInv
  <2>7. CASE request[r].do = "enable"
    <3>1. Admin!Revived(r)' => Admin!Revived(r)
      BY <2>5 DEF Admin!Revived, Admin!Was
    <3>2. gpc'[r] = "ok" => Admin!Revived(r)' \/ Admin!EnableHolds(r)'
      BY <2>5, <2>7 DEF Work, EnableWork
    <3>3. gpc'[r] = "failed" => Admin!Revived(r)' \/ Admin!EnableFailed(r)'
      BY <2>5, <2>7 DEF Work, EnableWork
    <3>. QED  BY <2>7, <3>1, <3>2, <3>3
  <2>8. CASE request[r].do = "disable"
    <3>1. gpc'[r] = "ok" => Admin!DisableHolds(r)'
      BY <2>5, <2>8 DEF Work, DisableWork
    <3>. QED  BY <2>8, <3>1
  <2>9. CASE request[r].do = "update"
    <3>1. gpc'[r] = "ok" => Admin!UpdateHolds(r)'
      BY <2>5, <2>9 DEF Work, UpdateWork
    <3>. QED  BY <2>9, <3>1
  <2>10. CASE request[r].do = "delete"
    <3>1. gpc'[r] = "ok" => ~ table'[request[r].id].active
      BY <2>5, <2>10 DEF Work
    <3>. QED  BY <2>10, <3>1
  <2>. QED  BY <2>6, <2>7, <2>8, <2>9, <2>10
<1>. QED  BY <1>1, <1>2, <1>3, PTL DEF Admin!Spec, Admin!AnswersHold

-----------------------------------------------------------------------------
\* Organizations, their projects and users (Tenants)

CONSTANTS TenantTasks, TenantWorkloads, People, Org, ProjectOf, Founder,
          MaxBreaks

VARIABLES orgs, projects, users, duty, upc, found, told, overlapping, breaks

Tenant == INSTANCE Tenants WITH
    Tasks <- TenantTasks, Workloads <- TenantWorkloads, MaxFailures <- MaxBreaks,
    job <- duty, pc <- upc, answered <- told, crossed <- overlapping, failures <- breaks

\* Organizations: a project that is not yet inserted has no row, a user's last
\* project is its organization's, a login ends with the one user of its person,
\* and a deletion that no other has crossed leaves a project.

\* A project that is still to be inserted.
Fresh(p) ==
    \E t \in TenantTasks :
        upc[t] \in {"login", "byMail", "org", "project", "create"} /\ ProjectOf[t] = p

TwoOwn == \E p, q \in Tenant!Own : p # q

IsUser(u) ==
    u = [person |-> u.person, org |-> u.org, linked |-> u.linked, role |-> u.role, last |-> u.last]

TenantTypes ==
    /\ DOMAIN upc = TenantTasks /\ DOMAIN found = TenantTasks /\ DOMAIN told = TenantTasks
    /\ duty \in [TenantTasks -> Tenant!Jobs]
    /\ Founder \in DOMAIN users /\ users[Founder].org = Org
    /\ \A u \in DOMAIN users : IsUser(users[u])

\* A statement that sets one column leaves the others.
LEMMA UserEdited ==
  ASSUME NEW x, IsUser(x), NEW value,
         NEW y, \/ y = [x EXCEPT !.linked = value] \/ y = [x EXCEPT !.role = value]
                \/ y = [x EXCEPT !.last = value]
  PROVE  /\ IsUser(y) /\ y.person = x.person /\ y.org = x.org
         /\ y.last \in {x.last, value}
<1>1. PICK a, b, c, d, e : x = [person |-> a, org |-> b, linked |-> c, role |-> d, last |-> e]
  BY DEF IsUser
<1>2. CASE y = [x EXCEPT !.linked = value]
  <2>1. y = [person |-> a, org |-> b, linked |-> value, role |-> d, last |-> e]
    BY <1>1, <1>2
  <2>. QED  BY <1>1, <2>1 DEF IsUser
<1>3. CASE y = [x EXCEPT !.role = value]
  <2>1. y = [person |-> a, org |-> b, linked |-> c, role |-> value, last |-> e]
    BY <1>1, <1>3
  <2>. QED  BY <1>1, <2>1 DEF IsUser
<1>4. CASE y = [x EXCEPT !.last = value]
  <2>1. y = [person |-> a, org |-> b, linked |-> c, role |-> d, last |-> value]
    BY <1>1, <1>4
  <2>. QED  BY <1>1, <2>1 DEF IsUser
<1>. QED  BY <1>2, <1>3, <1>4

UsersApart ==
    /\ \A u, v \in DOMAIN users : users[u].person = users[v].person => u = v
    /\ \A u \in DOMAIN users : u = Founder \/ (u \in TenantTasks /\ upc[u] \in {"last", "over"})

ProjectsInserted == \A p \in DOMAIN projects : ~Fresh(p)

\* Whom a login has found, or told, is its person.
LoginKeeps(t) ==
    /\ told[t] # None => told[t] \in DOMAIN users /\ users[told[t]].person = duty[t].person
    /\ upc[t] = "update" => found[t] \in DOMAIN users /\ users[found[t]].person = duty[t].person
    /\ upc[t] = "last" => t \in DOMAIN users /\ users[t].person = duty[t].person /\ users[t].org = t

\* A project that a task goes on with is of the task's organization.
ProjectKeeps(t) ==
    /\ upc[t] \in {"user", "last"} /\ ProjectOf[t] \in DOMAIN projects => projects[ProjectOf[t]] = t
    /\ upc[t] \in {"select", "who"} => duty[t].do = "select"
    /\ upc[t] \in {"who", "write"} =>
          /\ ~Fresh(duty[t].project)
          /\ duty[t].project \in DOMAIN projects => projects[duty[t].project] = Org
    /\ upc[t] = "write" => found[t] \in DOMAIN users /\ users[found[t]].org = Org
    /\ upc[t] = "remove" /\ t \notin overlapping => TwoOwn

TaskKeeps(t) == LoginKeeps(t) /\ ProjectKeeps(t)

TenantInv ==
    /\ TenantTypes
    /\ UsersApart
    /\ ProjectsInserted
    /\ Tenant!LastIsOwn
    /\ \A t \in TenantTasks : TaskKeeps(t)

\* What is common to the steps of t: users stay, projects are removed or t's is
\* inserted, and a removal is told to those who have counted.
TenantStep(t) ==
    /\ duty' = duty
    /\ DOMAIN upc' = TenantTasks /\ DOMAIN found' = TenantTasks /\ DOMAIN told' = TenantTasks
    /\ \A u \in TenantTasks \ {t} : upc'[u] = upc[u] /\ found'[u] = found[u] /\ told'[u] = told[u]
    /\ \A p : Fresh(p)' => Fresh(p)
    /\ \A u \in DOMAIN users : /\ u \in DOMAIN users' /\ users'[u].person = users[u].person
                               /\ users'[u].org = users[u].org
    /\ \A p \in DOMAIN projects' : \/ p \in DOMAIN projects /\ projects'[p] = projects[p]
                                   \/ p = ProjectOf[t] /\ Fresh(p)
    /\ \A u \in TenantTasks \ {t} :
          upc[u] = "remove" /\ u \notin overlapping' => u \notin overlapping /\ (TwoOwn => TwoOwn')

LEMMA TenantNames ==
  ASSUME Tenant!NamesAssumption
  PROVE  /\ \A t, u \in TenantTasks : ProjectOf[t] = ProjectOf[u] => t = u
         /\ \A t \in TenantTasks : ProjectOf[t] # Org
         /\ Founder \notin TenantTasks
         /\ TenantWorkloads \subseteq [TenantTasks -> Tenant!Jobs]
<1>1. \A t \in TenantTasks : ProjectOf[t] \in Tenant!Range(ProjectOf)
  BY DEF Tenant!NamesAssumption, Tenant!Range
<1>. QED  BY <1>1 DEF Tenant!NamesAssumption, Tenant!IsInjective

LEMMA OthersKept ==
  ASSUME TenantInv, Tenant!NamesAssumption, NEW t \in TenantTasks, TenantStep(t),
         NEW u \in TenantTasks \ {t}
  PROVE  TaskKeeps(u)'
<1>1. TaskKeeps(u)
  BY DEF TenantInv
<1>2. upc'[u] = upc[u] /\ found'[u] = found[u] /\ told'[u] = told[u] /\ duty' = duty
  BY DEF TenantStep
<1>3. \A v \in DOMAIN users : /\ v \in DOMAIN users' /\ users'[v].person = users[v].person
                              /\ users'[v].org = users[v].org
  BY DEF TenantStep
<1>4. LoginKeeps(u)'
  BY <1>1, <1>2, <1>3 DEF TaskKeeps, LoginKeeps
<1>5. ProjectOf[u] # ProjectOf[t]
  BY TenantNames
<1>6. ProjectOf[u] \in DOMAIN projects' => /\ ProjectOf[u] \in DOMAIN projects
                                           /\ projects'[ProjectOf[u]] = projects[ProjectOf[u]]
  BY <1>5 DEF TenantStep
<1>7. ASSUME upc[u] \in {"who", "write"}
      PROVE  /\ ~Fresh(duty[u].project)'
             /\ duty[u].project \in DOMAIN projects' => projects'[duty[u].project] = Org
  <2>1. /\ ~Fresh(duty[u].project)
        /\ duty[u].project \in DOMAIN projects => projects[duty[u].project] = Org
    BY <1>1, <1>7 DEF TaskKeeps, ProjectKeeps
  <2>. QED  BY <1>2, <2>1 DEF TenantStep
<1>8. upc[u] = "remove" /\ u \notin overlapping' => TwoOwn'
  BY <1>1 DEF TenantStep, TaskKeeps, ProjectKeeps
<1>9. ProjectKeeps(u)'
  BY <1>1, <1>2, <1>3, <1>6, <1>7, <1>8 DEF TaskKeeps, ProjectKeeps
<1>. QED  BY <1>4, <1>9 DEF TaskKeeps

LEMMA TenantWhole ==
  ASSUME TenantInv, Tenant!NamesAssumption, NEW t \in TenantTasks, TenantStep(t),
         TenantTypes', UsersApart', ProjectsInserted', Tenant!LastIsOwn', TaskKeeps(t)'
  PROVE  TenantInv'
<1>1. \A u \in TenantTasks : TaskKeeps(u)'
  BY OthersKept
<1>. QED  BY <1>1 DEF TenantInv

\* What a user was told last stays, as long as no project is removed.
LEMMA LastKept ==
  ASSUME TenantInv, NEW t \in TenantTasks, TenantStep(t), DOMAIN projects \subseteq DOMAIN projects',
         \A u \in DOMAIN users' :
            \/ u \in DOMAIN users /\ users'[u].last = users[u].last
            \/ users'[u].last = None
            \/ users'[u].last \in DOMAIN projects' /\ projects'[users'[u].last] = users'[u].org
  PROVE  Tenant!LastIsOwn'
<1>1. \A p \in DOMAIN projects : projects'[p] = projects[p]
  BY DEF TenantInv, ProjectsInserted, TenantStep
<1>2. ASSUME NEW u \in DOMAIN users, users[u].last # None
      PROVE  /\ users[u].last \in DOMAIN projects'
             /\ projects'[users[u].last] = users[u].org /\ users'[u].org = users[u].org
  BY <1>1, <1>2 DEF TenantInv, Tenant!LastIsOwn, TenantStep
<1>. QED  BY <1>2 DEF Tenant!LastIsOwn

\* A step that changes no row that another would miss.
LEMMA QuietStep ==
  ASSUME TenantInv, Tenant!NamesAssumption, NEW t \in TenantTasks,
         UNCHANGED <<users, projects, overlapping, duty>>,
         DOMAIN upc' = TenantTasks, DOMAIN found' = TenantTasks, DOMAIN told' = TenantTasks,
         \A u \in TenantTasks \ {t} : upc'[u] = upc[u] /\ found'[u] = found[u] /\ told'[u] = told[u],
         upc'[t] \in {"login", "byMail", "org", "project", "create"}
            => upc[t] \in {"login", "byMail", "org", "project", "create"},
         upc'[t] \in {"last", "over"} \/ upc[t] \notin {"last", "over"},
         TaskKeeps(t)'
  PROVE  TenantInv'
<1>1. \A p : Fresh(p)' => Fresh(p)
  BY DEF Fresh
<1>2. TwoOwn' = TwoOwn
  BY DEF TwoOwn, Tenant!Own
<1>3. TenantStep(t)
  BY <1>1, <1>2 DEF TenantStep
<1>4. TenantTypes'
  BY DEF TenantInv, TenantTypes
<1>5. UsersApart'
  BY TenantNames DEF TenantInv, UsersApart
<1>6. ProjectsInserted'
  BY <1>1 DEF TenantInv, ProjectsInserted
<1>7. Tenant!LastIsOwn'
  BY DEF TenantInv, Tenant!LastIsOwn
<1>. QED  BY <1>3, <1>4, <1>5, <1>6, <1>7, TenantWhole

\* A step that changes columns of users other than those that say whose they are.
LEMMA UsersEdited ==
  ASSUME TenantInv, Tenant!NamesAssumption, NEW t \in TenantTasks,
         upc[t] \in {"update", "last", "write", "change"}, upc'[t] = "over",
         UNCHANGED <<projects, overlapping, duty, found>>,
         DOMAIN upc' = TenantTasks, DOMAIN told' = TenantTasks, DOMAIN users' = DOMAIN users,
         \A u \in TenantTasks \ {t} : upc'[u] = upc[u] /\ told'[u] = told[u],
         told'[t] # None => told'[t] \in DOMAIN users /\ users[told'[t]].person = duty[t].person,
         \A u \in DOMAIN users : /\ IsUser(users'[u]) /\ users'[u].person = users[u].person
                                 /\ users'[u].org = users[u].org,
         \A u \in DOMAIN users :
            \/ users'[u].last = users[u].last
            \/ users'[u].last \in DOMAIN projects /\ projects[users'[u].last] = users[u].org
  PROVE  TenantInv'
<1>1. \A p : Fresh(p)' => Fresh(p)
  BY DEF Fresh
<1>2. TwoOwn' = TwoOwn
  BY DEF TwoOwn, Tenant!Own
<1>3. TenantStep(t)
  BY <1>1, <1>2 DEF TenantStep, TenantInv, TenantTypes
<1>4. TenantTypes'
  BY DEF TenantInv, TenantTypes
<1>5. UsersApart'
  BY DEF TenantInv, UsersApart
<1>6. ProjectsInserted'
  BY <1>1 DEF TenantInv, ProjectsInserted
<1>7. Tenant!LastIsOwn'
  BY <1>3, LastKept
<1>8. TaskKeeps(t)'
  BY DEF TaskKeeps, LoginKeeps, ProjectKeeps
<1>. QED  BY <1>3, <1>4, <1>5, <1>6, <1>7, <1>8, TenantWhole

\* A project is inserted by the task that it is kept for.
LEMMA ProjectInserted ==
  ASSUME TenantInv, Tenant!NamesAssumption, NEW t \in TenantTasks, NEW org, NEW stage \in {"user", "over"},
         upc[t] \in {"project", "create"}, stage = "user" => org = t,
         projects' = Tenant!Inserted(projects, ProjectOf[t], org),
         upc' = [upc EXCEPT ![t] = stage], UNCHANGED <<users, overlapping, duty, found, told>>
  PROVE  TenantInv' /\ Tenant!Own \subseteq Tenant!Own'
<1>0. DOMAIN upc = TenantTasks
  BY DEF TenantInv, TenantTypes
<1>1. Fresh(ProjectOf[t])
  BY DEF Fresh
<1>2. ~Fresh(ProjectOf[t])'
  BY <1>0, TenantNames DEF Fresh
<1>3. \A p : Fresh(p)' => Fresh(p)
  BY <1>0 DEF Fresh
<1>4. /\ DOMAIN projects' = DOMAIN projects \cup {ProjectOf[t]} /\ projects'[ProjectOf[t]] = org
      /\ \A p \in DOMAIN projects : projects'[p] = projects[p]
  <2>1. ProjectOf[t] \notin DOMAIN projects
    BY <1>1 DEF TenantInv, ProjectsInserted
  <2>. QED  BY <2>1 DEF Tenant!Inserted
<1>5. Tenant!Own \subseteq Tenant!Own'
  BY <1>4 DEF Tenant!Own
<1>6. TwoOwn => TwoOwn'
  BY <1>5 DEF TwoOwn
<1>7. TenantStep(t)
  BY <1>0, <1>1, <1>3, <1>4, <1>6 DEF TenantStep, TenantInv, TenantTypes
<1>8. TenantTypes'
  BY <1>0 DEF TenantInv, TenantTypes
<1>9. UsersApart'
  BY <1>0, TenantNames DEF TenantInv, UsersApart
<1>10. ProjectsInserted'
  BY <1>2, <1>3, <1>4 DEF TenantInv, ProjectsInserted
<1>11. Tenant!LastIsOwn'
  BY <1>4, <1>7, LastKept
<1>12. TaskKeeps(t)'
  <2>1. TaskKeeps(t) /\ upc'[t] = stage
    BY <1>0 DEF TenantInv
  <2>. QED  BY <1>4, <2>1 DEF TaskKeeps, LoginKeeps, ProjectKeeps
<1>. QED  BY <1>5, <1>7, <1>8, <1>9, <1>10, <1>11, <1>12, TenantWhole

LEMMA LoginsKeepInv ==
  ASSUME TenantInv, Tenant!NamesAssumption, NEW t \in TenantTasks,
         \/ Tenant!FindByIdentity(t) \/ Tenant!FindByMail(t) \/ Tenant!UpdateLogin(t)
         \/ Tenant!CreateOrg(t) \/ Tenant!CreateFirst(t) \/ Tenant!CreateUser(t) \/ Tenant!SetFirst(t)
  PROVE  TenantInv' /\ Tenant!Own \subseteq Tenant!Own'
<1>0. TenantTypes /\ TaskKeeps(t)
  BY DEF TenantInv
<1>1. ASSUME UNCHANGED projects
      PROVE  Tenant!Own \subseteq Tenant!Own'
  BY <1>1 DEF Tenant!Own
<1>2. CASE Tenant!FindByIdentity(t) \/ Tenant!FindByMail(t)
  <2>1. CASE upc'[t] = "update"
    <3>1. PICK persons : /\ persons \subseteq {u \in DOMAIN users : users[u].person = duty[t].person}
                       /\ persons # {} /\ found' = [found EXCEPT ![t] = CHOOSE u \in persons : TRUE]
      <4>1. CASE Tenant!FindByIdentity(t)
        <5>1. /\ Tenant!Identified(duty[t].person) # {}
              /\ found' = [found EXCEPT ![t] = CHOOSE u \in Tenant!Identified(duty[t].person) : TRUE]
          BY <1>0, <2>1, <4>1 DEF Tenant!FindByIdentity, Tenant!Go, TenantTypes
        <5>2. Tenant!Identified(duty[t].person) \subseteq {u \in DOMAIN users : users[u].person = duty[t].person}
          BY DEF Tenant!Identified
        <5>. QED  BY <5>1, <5>2
      <4>2. CASE Tenant!FindByMail(t)
        <5>1. /\ Tenant!Addressed(duty[t].person) # {}
              /\ found' = [found EXCEPT ![t] = CHOOSE u \in Tenant!Addressed(duty[t].person) : TRUE]
          BY <1>0, <2>1, <4>2 DEF Tenant!FindByMail, Tenant!Go, TenantTypes
        <5>. QED  BY <5>1 DEF Tenant!Addressed
      <4>. QED  BY <1>2, <4>1, <4>2
    <3>2. found'[t] \in DOMAIN users /\ users[found'[t]].person = duty[t].person
      <4>1. found'[t] \in persons
        BY <1>0, <3>1 DEF TenantTypes
      <4>. QED  BY <3>1, <4>1
    <3>3. /\ UNCHANGED <<users, projects, overlapping, duty, told>> /\ upc[t] \notin {"last", "over"}
          /\ upc' = [upc EXCEPT ![t] = "update"]
          /\ DOMAIN found' = TenantTasks /\ \A u \in TenantTasks \ {t} : found'[u] = found[u]
      BY <1>0, <1>2, <2>1, <3>1
         DEF Tenant!FindByIdentity, Tenant!FindByMail, Tenant!Under, Tenant!Go, TenantTypes
    <3>4. TaskKeeps(t)'
      BY <1>0, <2>1, <3>2, <3>3 DEF TaskKeeps, LoginKeeps, ProjectKeeps
    <3>5. TenantInv'
      BY <1>0, <3>3, <3>4, QuietStep DEF TenantTypes
    <3>. QED  BY <1>1, <3>3, <3>5
  <2>2. CASE upc'[t] # "update"
    <3>1. /\ UNCHANGED <<users, projects, overlapping, duty, found, told>>
          /\ upc[t] \in {"login", "byMail"} /\ upc'[t] \in {"byMail", "org"}
          /\ DOMAIN upc' = TenantTasks /\ \A u \in TenantTasks \ {t} : upc'[u] = upc[u]
      BY <1>0, <1>2, <2>2
         DEF Tenant!FindByIdentity, Tenant!FindByMail, Tenant!Under, Tenant!Go, TenantTypes
    <3>2. TaskKeeps(t)'
      BY <1>0, <3>1 DEF TaskKeeps, LoginKeeps, ProjectKeeps
    <3>3. TenantInv'
      BY <1>0, <3>1, <3>2, QuietStep DEF TenantTypes
    <3>. QED  BY <1>1, <3>1, <3>3
  <2>. QED  BY <2>1, <2>2
<1>3. CASE Tenant!UpdateLogin(t)
  <2>1. /\ upc[t] = "update" /\ UNCHANGED <<projects, duty, found, overlapping>>
        /\ users' = [users EXCEPT ![found[t]].linked = TRUE]
        /\ told' = [told EXCEPT ![t] = found[t]] /\ upc' = [upc EXCEPT ![t] = "over"]
    BY <1>3 DEF Tenant!UpdateLogin, Tenant!Under, Tenant!Answer, Tenant!Go
  <2>2. found[t] \in DOMAIN users /\ users[found[t]].person = duty[t].person
    BY <1>0, <2>1 DEF TaskKeeps, LoginKeeps
  <2>3. DOMAIN users' = DOMAIN users
        /\ \A u \in DOMAIN users : users'[u] = users[u] \/ users'[u] = [users[u] EXCEPT !.linked = TRUE]
    BY <2>1
  <2>4. \A u \in DOMAIN users : /\ IsUser(users'[u]) /\ users'[u].person = users[u].person
                                /\ users'[u].org = users[u].org /\ users'[u].last = users[u].last
    BY <1>0, <2>3 DEF TenantTypes, IsUser
  <2>5. /\ DOMAIN upc' = TenantTasks /\ DOMAIN told' = TenantTasks /\ upc'[t] = "over" /\ told'[t] = found[t]
        /\ \A u \in TenantTasks \ {t} : upc'[u] = upc[u] /\ told'[u] = told[u]
    BY <1>0, <2>1 DEF TenantTypes
  <2>6. TenantInv'
    BY <2>1, <2>2, <2>3, <2>4, <2>5, UsersEdited
  <2>. QED  BY <1>1, <2>1, <2>6
<1>4. CASE Tenant!CreateOrg(t)
  <2>1. /\ UNCHANGED <<users, projects, overlapping, duty, found, told>>
        /\ upc[t] = "org" /\ upc'[t] = "project"
        /\ DOMAIN upc' = TenantTasks /\ \A u \in TenantTasks \ {t} : upc'[u] = upc[u]
    BY <1>0, <1>4 DEF Tenant!CreateOrg, Tenant!Under, Tenant!Go, TenantTypes
  <2>2. TaskKeeps(t)'
    BY <1>0, <2>1 DEF TaskKeeps, LoginKeeps, ProjectKeeps
  <2>3. TenantInv'
    BY <1>0, <2>1, <2>2, QuietStep DEF TenantTypes
  <2>. QED  BY <1>1, <2>1, <2>3
<1>5. CASE Tenant!CreateFirst(t)
  BY <1>5, ProjectInserted DEF Tenant!CreateFirst, Tenant!Under, Tenant!Go
<1>6. CASE Tenant!CreateUser(t)
  <2>1. /\ UNCHANGED <<projects, overlapping, duty, found, told>> /\ upc[t] = "user"
        /\ upc'[t] \in {"last", "over"}
        /\ DOMAIN upc' = TenantTasks /\ \A u \in TenantTasks \ {t} : upc'[u] = upc[u]
    BY <1>0, <1>6 DEF Tenant!CreateUser, Tenant!Under, Tenant!Go, TenantTypes
  <2>2. CASE upc'[t] = "over"
    <3>1. UNCHANGED users
      BY <1>0, <1>6, <2>2 DEF Tenant!CreateUser, Tenant!Go, TenantTypes
    <3>2. TaskKeeps(t)'
      BY <1>0, <2>1, <2>2, <3>1 DEF TaskKeeps, LoginKeeps, ProjectKeeps
    <3>3. TenantInv'
      BY <1>0, <2>1, <2>2, <3>1, <3>2, QuietStep DEF TenantTypes
    <3>. QED  BY <1>1, <2>1, <3>3
  <2>3. CASE upc'[t] = "last"
    <3>1. /\ Tenant!Addressed(duty[t].person) = {}
          /\ users' = Tenant!Inserted(users, t, Tenant!User(duty[t].person, t, "admin", TRUE))
      BY <1>0, <1>6, <2>3 DEF Tenant!CreateUser, Tenant!Go, TenantTypes
    <3>2. t \notin DOMAIN users
      BY <2>1, TenantNames DEF TenantInv, UsersApart
    <3>3. /\ DOMAIN users' = DOMAIN users \cup {t}
          /\ users'[t] = [person |-> duty[t].person, org |-> t, linked |-> TRUE, role |-> "admin", last |-> None]
          /\ \A u \in DOMAIN users : users'[u] = users[u]
      BY <3>1, <3>2 DEF Tenant!Inserted, Tenant!User
    <3>4. \A p : Fresh(p)' => Fresh(p)
      BY <2>1, <2>3 DEF Fresh
    <3>5. TwoOwn' = TwoOwn
      BY <2>1 DEF TwoOwn, Tenant!Own
    <3>6. TenantStep(t)
      BY <1>0, <2>1, <3>3, <3>4, <3>5 DEF TenantStep, TenantTypes
    <3>7. TenantTypes'
      BY <1>0, <2>1, <3>3 DEF TenantTypes, IsUser
    <3>8. UsersApart'
      <4>1. \A u \in DOMAIN users : users[u].person # duty[t].person
        BY <3>1 DEF Tenant!Addressed
      <4>2. \A u, v \in DOMAIN users' : users'[u].person = users'[v].person => u = v
        BY <3>3, <4>1 DEF TenantInv, UsersApart
      <4>3. \A u \in DOMAIN users' : u = Founder \/ (u \in TenantTasks /\ upc'[u] \in {"last", "over"})
        BY <2>1, <3>3 DEF TenantInv, UsersApart
      <4>. QED  BY <4>2, <4>3 DEF UsersApart
    <3>9. ProjectsInserted'
      BY <2>1, <3>4 DEF TenantInv, ProjectsInserted
    <3>10. Tenant!LastIsOwn'
      BY <2>1, <3>3, <3>6, LastKept
    <3>11. TaskKeeps(t)'
      BY <1>0, <2>1, <2>3, <3>3 DEF TaskKeeps, LoginKeeps, ProjectKeeps
    <3>12. TenantInv'
      BY <3>6, <3>7, <3>8, <3>9, <3>10, <3>11, TenantWhole
    <3>. QED  BY <1>1, <2>1, <3>12
  <2>. QED  BY <2>1, <2>2, <2>3
<1>7. CASE Tenant!SetFirst(t)
  <2>1. /\ upc[t] = "last" /\ UNCHANGED <<projects, duty, found, overlapping>>
        /\ upc' = [upc EXCEPT ![t] = "over"]
        /\ \/ /\ ProjectOf[t] \in DOMAIN projects
              /\ users' = [users EXCEPT ![t].last = ProjectOf[t]] /\ told' = [told EXCEPT ![t] = t]
           \/ users' = users /\ told' = told
    BY <1>7 DEF Tenant!SetFirst, Tenant!Under, Tenant!Answer, Tenant!Go
  <2>2. t \in DOMAIN users /\ users[t].person = duty[t].person /\ users[t].org = t
    BY <1>0, <2>1 DEF TaskKeeps, LoginKeeps
  <2>3. told[t] # None => told[t] \in DOMAIN users /\ users[told[t]].person = duty[t].person
    BY <1>0 DEF TaskKeeps, LoginKeeps
  <2>4. ProjectOf[t] \in DOMAIN projects => projects[ProjectOf[t]] = t
    BY <1>0, <2>1 DEF TaskKeeps, ProjectKeeps
  <2>5. DOMAIN users' = DOMAIN users
    BY <2>1
  <2>6. \A u \in DOMAIN users :
            \/ users'[u] = users[u]
            \/ u = t /\ ProjectOf[t] \in DOMAIN projects /\ users'[u] = [users[u] EXCEPT !.last = ProjectOf[t]]
    BY <2>1
  <2>7. ASSUME NEW u \in DOMAIN users
        PROVE  /\ IsUser(users'[u]) /\ users'[u].person = users[u].person
               /\ users'[u].org = users[u].org
               /\ \/ users'[u].last = users[u].last
                  \/ users'[u].last \in DOMAIN projects /\ projects[users'[u].last] = users[u].org
    <3>1. IsUser(users[u])
      BY <1>0 DEF TenantTypes
    <3>2. CASE users'[u] = users[u]
      BY <3>1, <3>2
    <3>3. CASE /\ u = t /\ ProjectOf[t] \in DOMAIN projects
               /\ users'[u] = [users[u] EXCEPT !.last = ProjectOf[t]]
      <4>1. /\ IsUser(users'[u]) /\ users'[u].person = users[u].person /\ users'[u].org = users[u].org
            /\ users'[u].last \in {users[u].last, ProjectOf[t]}
        BY <3>1, <3>3, UserEdited
      <4>2. projects[ProjectOf[t]] = t /\ users[t].org = t
        BY <2>2, <2>4, <3>3
      <4>. QED  BY <3>3, <4>1, <4>2
    <3>. QED  BY <2>6, <3>2, <3>3
  <2>8. /\ DOMAIN upc' = TenantTasks /\ DOMAIN told' = TenantTasks /\ upc'[t] = "over"
        /\ (told'[t] = t \/ told'[t] = told[t])
        /\ \A u \in TenantTasks \ {t} : upc'[u] = upc[u] /\ told'[u] = told[u]
    BY <1>0, <2>1 DEF TenantTypes
  <2>9. told'[t] # None => told'[t] \in DOMAIN users /\ users[told'[t]].person = duty[t].person
    BY <2>2, <2>3, <2>8
  <2>10. TenantInv'
    BY <2>1, <2>5, <2>7, <2>8, <2>9, UsersEdited
  <2>. QED  BY <1>1, <2>1, <2>10
<1>. QED  BY <1>2, <1>3, <1>4, <1>5, <1>6, <1>7

\* Of the handlers, a deletion alone takes a project away.
LEMMA HandlersKeepInv ==
  ASSUME TenantInv, Tenant!NamesAssumption, NEW t \in TenantTasks,
         \/ Tenant!CreateProject(t) \/ Tenant!CountProjects(t) \/ Tenant!Belongs(t) \/ Tenant!Who(t)
         \/ Tenant!WriteLast(t) \/ Tenant!ReadUser(t) \/ Tenant!ChangeRole(t) \/ Tenant!Fail(t)
  PROVE  TenantInv' /\ Tenant!Own \subseteq Tenant!Own'
<1>0. TenantTypes /\ TaskKeeps(t)
  BY DEF TenantInv
<1>1. ASSUME UNCHANGED projects
      PROVE  Tenant!Own \subseteq Tenant!Own'
  BY <1>1 DEF Tenant!Own
<1>2. CASE Tenant!CreateProject(t)
  BY <1>2, ProjectInserted DEF Tenant!CreateProject, Tenant!Under, Tenant!Go
<1>3. CASE Tenant!CountProjects(t)
  <2>1. /\ UNCHANGED <<users, projects, overlapping, duty, found, told>>
        /\ upc[t] = "delete" /\ DOMAIN upc' = TenantTasks /\ \A u \in TenantTasks \ {t} : upc'[u] = upc[u]
        /\ upc'[t] = IF Tenant!Cardinality(Tenant!Own) <= 1 THEN "over" ELSE "remove"
    BY <1>0, <1>3 DEF Tenant!CountProjects, Tenant!Under, Tenant!Go, TenantTypes
  <2>2. ASSUME ~TwoOwn
        PROVE  Tenant!Cardinality(Tenant!Own) <= 1
    <3>1. Tenant!Own = {} \/ \E p : Tenant!Own = {p}
      BY <2>2 DEF TwoOwn
    <3>2. Tenant!Cardinality(Tenant!Own) = Cardinality(Tenant!Own)
      BY DEF Tenant!Cardinality, Cardinality
    <3>3. Tenant!Own = {} => Cardinality(Tenant!Own) = 0
      BY FS_EmptySet
    <3>4. (\E p : Tenant!Own = {p}) => Cardinality(Tenant!Own) = 1
      BY FS_Singleton
    <3>. HIDE DEF Tenant!Own
    <3>. QED  BY <3>1, <3>2, <3>3, <3>4
  <2>3. TwoOwn' = TwoOwn
    BY <2>1 DEF TwoOwn, Tenant!Own
  <2>4. TaskKeeps(t)'
    BY <1>0, <2>1, <2>2, <2>3 DEF TaskKeeps, LoginKeeps, ProjectKeeps
  <2>5. TenantInv'
    BY <1>0, <2>1, <2>4, QuietStep DEF TenantTypes
  <2>. QED  BY <1>1, <2>1, <2>5
<1>4. CASE Tenant!Belongs(t)
  <2>1. /\ UNCHANGED <<users, projects, overlapping, duty, found, told>>
        /\ upc[t] = "select" /\ DOMAIN upc' = TenantTasks /\ \A u \in TenantTasks \ {t} : upc'[u] = upc[u]
        /\ upc'[t] = IF duty[t].project \in Tenant!Own THEN "who" ELSE "over"
    BY <1>0, <1>4 DEF Tenant!Belongs, Tenant!Under, Tenant!Go, TenantTypes
  <2>2. \A p : Fresh(p)' => Fresh(p)
    BY <2>1 DEF Fresh
  <2>3. duty[t].project \in Tenant!Own => ~Fresh(duty[t].project) /\ projects[duty[t].project] = Org
    BY DEF TenantInv, ProjectsInserted, Tenant!Own
  <2>4. TaskKeeps(t)'
    BY <1>0, <2>1, <2>2, <2>3 DEF TaskKeeps, LoginKeeps, ProjectKeeps
  <2>5. TenantInv'
    BY <1>0, <2>1, <2>4, QuietStep DEF TenantTypes
  <2>. QED  BY <1>1, <2>1, <2>5
<1>5. CASE Tenant!Who(t)
  <2>1. /\ UNCHANGED <<users, projects, overlapping, duty, told>>
        /\ upc[t] = "who" /\ upc'[t] = "write" /\ DOMAIN upc' = TenantTasks /\ DOMAIN found' = TenantTasks
        /\ \A u \in TenantTasks \ {t} : upc'[u] = upc[u] /\ found'[u] = found[u]
        /\ found'[t] = IF duty[t].user # None THEN duty[t].user
                       ELSE CHOOSE u \in DOMAIN users : users[u].org = Org
    BY <1>0, <1>5 DEF Tenant!Who, Tenant!Under, Tenant!Go, TenantTypes
  <2>2. duty[t].user # None => duty[t].user = Founder
    <3>1. duty[t].do = "select" /\ duty[t] \in Tenant!Jobs
      BY <1>0, <2>1 DEF TaskKeeps, ProjectKeeps, TenantTypes
    <3>2. duty[t] \in [do : {"select"}, project : Tenant!Projects, user : {Founder, None}]
      BY <3>1 DEF Tenant!Jobs
    <3>. QED  BY <3>2
  <2>3. (CHOOSE u \in DOMAIN users : users[u].org = Org) \in {u \in DOMAIN users : users[u].org = Org}
    BY <1>0 DEF TenantTypes
  <2>4. found'[t] \in DOMAIN users /\ users[found'[t]].org = Org
    BY <1>0, <2>1, <2>2, <2>3 DEF TenantTypes
  <2>5. \A p : Fresh(p)' => Fresh(p)
    BY <2>1 DEF Fresh
  <2>6. TaskKeeps(t)'
    BY <1>0, <2>1, <2>4, <2>5 DEF TaskKeeps, LoginKeeps, ProjectKeeps
  <2>7. TenantInv'
    BY <1>0, <2>1, <2>6, QuietStep DEF TenantTypes
  <2>. QED  BY <1>1, <2>1, <2>7
<1>6. CASE Tenant!WriteLast(t) \/ Tenant!ChangeRole(t)
  <2>1. /\ upc[t] \in {"write", "change"} /\ UNCHANGED <<projects, duty, found, told, overlapping>>
        /\ DOMAIN upc' = TenantTasks /\ upc'[t] = "over" /\ \A u \in TenantTasks \ {t} : upc'[u] = upc[u]
        /\ DOMAIN users' = DOMAIN users
    BY <1>0, <1>6 DEF Tenant!WriteLast, Tenant!ChangeRole, Tenant!Under, Tenant!Go, TenantTypes
  <2>2. \A u \in DOMAIN users :
            \/ users'[u] = users[u]
            \/ users'[u] = [users[u] EXCEPT !.role = duty[t].role]
            \/ /\ u = found[t] /\ upc[t] = "write" /\ duty[t].project \in DOMAIN projects
               /\ users'[u] = [users[u] EXCEPT !.last = duty[t].project]
    BY <1>6 DEF Tenant!WriteLast, Tenant!ChangeRole, Tenant!Under
  <2>3. upc[t] = "write" => users[found[t]].org = Org
                            /\ (duty[t].project \in DOMAIN projects => projects[duty[t].project] = Org)
    BY <1>0 DEF TaskKeeps, ProjectKeeps
  <2>4. \A u \in DOMAIN users : /\ IsUser(users'[u]) /\ users'[u].person = users[u].person
                                /\ users'[u].org = users[u].org
    <3>1. \A u \in DOMAIN users : IsUser(users[u])
      BY <1>0 DEF TenantTypes
    <3>2. SUFFICES ASSUME NEW u \in DOMAIN users
                   PROVE  /\ IsUser(users'[u]) /\ users'[u].person = users[u].person
                          /\ users'[u].org = users[u].org
      OBVIOUS
    <3>3. CASE users'[u] = users[u]
      BY <3>1, <3>3
    <3>4. CASE users'[u] # users[u]
      <4>1. PICK value : \/ users'[u] = [users[u] EXCEPT !.role = value]
                         \/ users'[u] = [users[u] EXCEPT !.last = value]
        BY <2>2, <3>4
      <4>2. IsUser(users[u])
        BY <3>1
      <4>. QED  BY <4>1, <4>2, UserEdited
    <3>. QED  BY <3>3, <3>4
  <2>5. ASSUME NEW u \in DOMAIN users
        PROVE  \/ users'[u].last = users[u].last
               \/ users'[u].last \in DOMAIN projects /\ projects[users'[u].last] = users[u].org
    <3>1. IsUser(users[u])
      BY <1>0 DEF TenantTypes
    <3>2. CASE users'[u] = users[u]
      BY <3>2
    <3>3. CASE users'[u] = [users[u] EXCEPT !.role = duty[t].role]
      <4>1. users'[u].last = users[u].last
        BY <3>1, <3>3 DEF IsUser
      <4>. QED  BY <4>1
    <3>4. CASE /\ u = found[t] /\ upc[t] = "write" /\ duty[t].project \in DOMAIN projects
               /\ users'[u] = [users[u] EXCEPT !.last = duty[t].project]
      <4>1. users'[u].last = duty[t].project
        BY <3>1, <3>4 DEF IsUser
      <4>2. users[u].org = Org /\ projects[duty[t].project] = Org
        BY <2>3, <3>4
      <4>. QED  BY <3>4, <4>1, <4>2
    <3>. QED  BY <2>2, <3>2, <3>3, <3>4
  <2>6. told'[t] # None => told'[t] \in DOMAIN users /\ users[told'[t]].person = duty[t].person
    BY <1>0, <2>1 DEF TaskKeeps, LoginKeeps
  <2>7. TenantInv'
    BY <1>0, <2>1, <2>4, <2>5, <2>6, UsersEdited DEF TenantTypes
  <2>. QED  BY <1>1, <2>1, <2>7
<1>7. CASE Tenant!ReadUser(t) \/ Tenant!Fail(t)
  <2>1. /\ UNCHANGED <<users, projects, overlapping, duty, found, told>>
        /\ DOMAIN upc' = TenantTasks /\ \A u \in TenantTasks \ {t} : upc'[u] = upc[u]
        /\ upc'[t] = "over" \/ (upc'[t] = "change" /\ upc[t] = "role")
    BY <1>0, <1>7 DEF Tenant!ReadUser, Tenant!Fail, Tenant!Under, Tenant!Go, TenantTypes
  <2>2. TaskKeeps(t)'
    BY <1>0, <2>1 DEF TaskKeeps, LoginKeeps, ProjectKeeps
  <2>3. TenantInv'
    BY <1>0, <2>1, <2>2, QuietStep DEF TenantTypes
  <2>. QED  BY <1>1, <2>1, <2>3
<1>. QED  BY <1>2, <1>3, <1>4, <1>5, <1>6, <1>7

\* A deletion tells those who have counted, and leaves a project unless it was told.
LEMMA DeletionKeepsInv ==
  ASSUME TenantInv, Tenant!NamesAssumption, NEW t \in TenantTasks, Tenant!DeleteProject(t)
  PROVE  TenantInv' /\ (Tenant!Own # {} /\ Tenant!Own' = {} => t \in overlapping)
<1>0. TenantTypes /\ TaskKeeps(t)
  BY DEF TenantInv
<1>1. /\ UNCHANGED <<duty, found, told>> /\ upc[t] = "remove" /\ upc'[t] = "over"
      /\ DOMAIN upc' = TenantTasks /\ \A u \in TenantTasks \ {t} : upc'[u] = upc[u]
  BY <1>0 DEF Tenant!DeleteProject, Tenant!Under, Tenant!Go, TenantTypes
<1>2. CASE UNCHANGED <<projects, users, overlapping>>
  <2>1. TaskKeeps(t)'
    BY <1>0, <1>1, <1>2 DEF TaskKeeps, LoginKeeps, ProjectKeeps
  <2>2. TenantInv'
    BY <1>0, <1>1, <1>2, <2>1, QuietStep DEF TenantTypes
  <2>3. Tenant!Own' = Tenant!Own
    BY <1>2 DEF Tenant!Own
  <2>. QED  BY <2>2, <2>3
<1>3. CASE Tenant!RemoveProject(t)
  <2>. DEFINE gone == duty[t].project
  <2>1. /\ DOMAIN projects' = DOMAIN projects \ {gone}
        /\ \A p \in DOMAIN projects' : projects'[p] = projects[p]
        /\ overlapping' = overlapping \cup {d \in TenantTasks \ {t} : upc[d] = "remove"}
    BY <1>3 DEF Tenant!RemoveProject
  <2>2. /\ DOMAIN users' = DOMAIN users
        /\ \A u \in DOMAIN users :
              \/ users[u].last = gone /\ users'[u] = [users[u] EXCEPT !.last = None]
              \/ users[u].last # gone /\ users'[u] = users[u]
    BY <1>3 DEF Tenant!RemoveProject
  <2>. HIDE DEF gone
  <2>3. \A u \in DOMAIN users : /\ IsUser(users'[u]) /\ users'[u].person = users[u].person
                                /\ users'[u].org = users[u].org
                                /\ users'[u].last = None \/ (users'[u].last = users[u].last /\ users[u].last # gone)
    BY <1>0, <2>2 DEF TenantTypes, IsUser
  <2>4. \A p : Fresh(p)' => Fresh(p)
    BY <1>1 DEF Fresh
  <2>5. TenantStep(t)
    BY <1>0, <1>1, <2>1, <2>2, <2>3, <2>4 DEF TenantStep, TenantTypes
  <2>6. TenantTypes'
    BY <1>0, <1>1, <2>2, <2>3 DEF TenantTypes
  <2>7. UsersApart'
    BY <1>1, <2>2, <2>3 DEF TenantInv, UsersApart
  <2>8. ProjectsInserted'
    BY <2>1, <2>4 DEF TenantInv, ProjectsInserted
  <2>9. Tenant!LastIsOwn'
    BY <2>1, <2>2, <2>3 DEF TenantInv, Tenant!LastIsOwn
  <2>10. TaskKeeps(t)'
    BY <1>0, <1>1, <2>2, <2>3 DEF TaskKeeps, LoginKeeps, ProjectKeeps
  <2>11. TenantInv'
    BY <2>5, <2>6, <2>7, <2>8, <2>9, <2>10, TenantWhole
  <2>12. ASSUME t \notin overlapping
         PROVE  Tenant!Own' # {}
    <3>1. PICK p, q \in Tenant!Own : p # q
      BY <1>0, <1>1, <2>12 DEF TaskKeeps, ProjectKeeps, TwoOwn
    <3>2. p \in Tenant!Own' \/ q \in Tenant!Own'
      BY <2>1, <3>1 DEF Tenant!Own
    <3>. QED  BY <3>2
  <2>. QED  BY <2>11, <2>12
<1>. QED  BY <1>2, <1>3 DEF Tenant!DeleteProject

LEMMA TenantsKeepInv ==
  ASSUME TenantInv, Tenant!NamesAssumption, [Tenant!Next]_(Tenant!vars)
  PROVE  /\ TenantInv'
         /\ Tenant!Own # {} /\ Tenant!Own' = {} =>
               \E t \in overlapping : Tenant!Under(t, "remove") /\ ~Tenant!Under(t, "remove")'
<1>1. ASSUME NEW t \in TenantTasks, Tenant!DeleteProject(t)
      PROVE  /\ TenantInv' /\ (Tenant!Own # {} /\ Tenant!Own' = {} => t \in overlapping)
             /\ Tenant!Under(t, "remove") /\ ~Tenant!Under(t, "remove")'
  <2>1. Tenant!Under(t, "remove") /\ ~Tenant!Under(t, "remove")'
    BY <1>1 DEF Tenant!DeleteProject, Tenant!Under, Tenant!Go, TenantInv, TenantTypes
  <2>. QED  BY <1>1, <2>1, DeletionKeepsInv
<1>2. ASSUME NEW t \in TenantTasks,
             \/ Tenant!FindByIdentity(t) \/ Tenant!FindByMail(t) \/ Tenant!UpdateLogin(t)
             \/ Tenant!CreateOrg(t) \/ Tenant!CreateFirst(t) \/ Tenant!CreateUser(t) \/ Tenant!SetFirst(t)
      PROVE  TenantInv' /\ Tenant!Own \subseteq Tenant!Own'
  BY <1>2, LoginsKeepInv
<1>3. ASSUME NEW t \in TenantTasks,
             \/ Tenant!CreateProject(t) \/ Tenant!CountProjects(t) \/ Tenant!Belongs(t) \/ Tenant!Who(t)
             \/ Tenant!WriteLast(t) \/ Tenant!ReadUser(t) \/ Tenant!ChangeRole(t) \/ Tenant!Fail(t)
      PROVE  TenantInv' /\ Tenant!Own \subseteq Tenant!Own'
  BY <1>3, HandlersKeepInv
<1>4. CASE UNCHANGED Tenant!vars
  <2>1. UNCHANGED <<projects, users, duty, upc, found, told, overlapping>>
    BY <1>4 DEF Tenant!vars
  <2>2. Tenant!Own' = Tenant!Own /\ Tenant!LastIsOwn' = Tenant!LastIsOwn
    BY <2>1 DEF Tenant!Own, Tenant!LastIsOwn
  <2>3. \A p : Fresh(p)' <=> Fresh(p)
    BY <2>1 DEF Fresh
  <2>4. \A t \in TenantTasks : TaskKeeps(t)'
    BY <2>1, <2>2, <2>3 DEF TenantInv, TaskKeeps, LoginKeeps, ProjectKeeps, TwoOwn
  <2>5. TenantTypes' /\ UsersApart' /\ ProjectsInserted'
    BY <2>1, <2>3 DEF TenantInv, TenantTypes, UsersApart, ProjectsInserted
  <2>. QED  BY <2>2, <2>4, <2>5 DEF TenantInv
<1>. QED  BY <1>1, <1>2, <1>3, <1>4 DEF Tenant!Next

LEMMA TenantsBegin ==
  ASSUME Tenant!NamesAssumption, Tenant!Init
  PROVE  TenantInv
<1>1. /\ duty \in [TenantTasks -> Tenant!Jobs] /\ upc = [t \in TenantTasks |-> duty[t].do]
      /\ DOMAIN found = TenantTasks /\ told = [t \in TenantTasks |-> None] /\ DOMAIN projects = {Org}
      /\ DOMAIN users = {Founder}
  BY TenantNames DEF Tenant!Init
<1>2. users[Founder].org = Org /\ IsUser(users[Founder]) /\ users[Founder].last = None
  BY DEF Tenant!Init, Tenant!User, IsUser
<1>3. \A t \in TenantTasks : upc[t] \in {"login", "create", "delete", "select", "role"}
  BY <1>1 DEF Tenant!Jobs
<1>4. \A t \in TenantTasks : TaskKeeps(t)
  BY <1>1, <1>3 DEF TaskKeeps, LoginKeeps, ProjectKeeps
<1>5. ProjectsInserted
  BY <1>1, TenantNames DEF ProjectsInserted, Fresh
<1>6. TenantTypes /\ UsersApart /\ Tenant!LastIsOwn
  BY <1>1, <1>2 DEF TenantTypes, UsersApart, Tenant!LastIsOwn
<1>. QED  BY <1>4, <1>5, <1>6 DEF TenantInv

\* Logins of one person are told one account, the last project of a user is its
\* organization's.
THEOREM AccountsHold ==
  ASSUME Tenant!NamesAssumption
  PROVE  Tenant!Spec => [](Tenant!OneAccount /\ Tenant!LastIsOwn)
<1>1. Tenant!Init => TenantInv
  BY TenantsBegin
<1>2. TenantInv /\ [Tenant!Next]_(Tenant!vars) => TenantInv'
  BY TenantsKeepInv
<1>3. TenantInv => Tenant!OneAccount /\ Tenant!LastIsOwn
  BY DEF TenantInv, UsersApart, TaskKeeps, LoginKeeps, Tenant!OneAccount
<1>. QED  BY <1>1, <1>2, <1>3, PTL DEF Tenant!Spec

\* An organization loses its last project only by deletions that overlap.
THEOREM ProjectsLostOnlyByRace ==
  ASSUME Tenant!NamesAssumption
  PROVE  Tenant!Spec => Tenant!LastProjectOnlyByRace
<1>1. Tenant!Init => TenantInv
  BY TenantsBegin
<1>2. TenantInv /\ [Tenant!Next]_(Tenant!vars) => TenantInv'
  BY TenantsKeepInv
<1>3. TenantInv /\ [Tenant!Next]_(Tenant!vars) =>
        [Tenant!Own # {} /\ Tenant!Own' = {} =>
            \E t \in overlapping : Tenant!Under(t, "remove") /\ ~Tenant!Under(t, "remove")']_(Tenant!vars)
  BY TenantsKeepInv
<1>. QED  BY <1>1, <1>2, <1>3, PTL DEF Tenant!Spec, Tenant!LastProjectOnlyByRace

-----------------------------------------------------------------------------
\* Config as code (ConfigAsCode)

CONSTANTS TokenNames, PolicyNames, Periods, Upstreams, Levels, Amounts, Rules,
          Retries, Files, ConfigProjects, BlockedUrls, MaxRuns, MaxEdits,
          MaxConfigFailures

VARIABLES tokens, policies, caller, file, cpc, export, known, planned, clean,
          runs, edits, failures

Config == INSTANCE ConfigAsCode WITH
    Projects <- ConfigProjects, MaxChanges <- MaxEdits, MaxFailures <- MaxConfigFailures,
    pc <- cpc, live <- export, todo <- planned, changes <- edits

\* Config as code: what a run that nobody has disturbed has imported is in the
\* database, statement by statement.

ConfigTypes ==
    /\ tokens \in [TokenNames -> Config!TokenRows \cup {None}]
    /\ policies \in [PolicyNames -> Config!PolicyRows \cup {None}]
    /\ file \in Files

TokenSet(t) ==
    file.tokens[t].upstream \notin BlockedUrls =>
        /\ t \in Config!Active(tokens)
        /\ tokens[t].upstream = file.tokens[t].upstream
        /\ tokens[t].level = Config!Level(t)

CapSet(t, p) ==
    file.tokens[t].upstream \in BlockedUrls \/ file.tokens[t].caps[p] \in {None, tokens[t].caps[p]}

WhoRuns ==
    /\ cpc \in {"export", "confirm", "unchanged", "refresh", "caps", "applied"} => caller = "cli"
    /\ cpc = "imported" => caller # "cli"

PlanTypes ==
    /\ cpc = "tokens" => planned \subseteq DOMAIN file.tokens
    /\ cpc = "policies" => planned \subseteq DOMAIN file.policies
    /\ cpc = "caps" => planned \subseteq (DOMAIN file.tokens) \X Periods

TokensImported ==
    /\ cpc = "tokens" => /\ known = Config!Active(tokens)
                         /\ \A t \in DOMAIN file.tokens \ planned : TokenSet(t)
    /\ cpc \in {"policies", "refresh", "caps", "imported", "applied", "unchanged"} =>
          \A t \in DOMAIN file.tokens : TokenSet(t)

PoliciesImported ==
    /\ cpc = "policies" => \A p \in DOMAIN file.policies \ planned : Config!PolicyApplied(p)
    /\ cpc = "imported" => \A p \in DOMAIN file.policies : Config!PolicyApplied(p)

CapsImported ==
    /\ cpc = "caps" =>
          \A t \in DOMAIN file.tokens, p \in Periods : <<t, p>> \in planned \/ CapSet(t, p)
    /\ cpc \in {"applied", "unchanged"} =>
          \A t \in DOMAIN file.tokens, p \in Periods : CapSet(t, p)

ConfigInv ==
    /\ ConfigTypes
    /\ WhoRuns
    /\ PlanTypes
    /\ cpc = "policies" => known = Config!Present(policies)
    /\ clean => TokensImported /\ PoliciesImported /\ CapsImported

LEMMA FileTypes ==
  ASSUME ConfigTypes, Config!ConstantsAssumption
  PROVE  /\ \A t \in DOMAIN file.tokens :
              /\ t \in TokenNames /\ file.tokens[t].upstream \in Upstreams
              /\ Config!Level(t) \in Levels /\ file.tokens[t].level \in Levels \cup {None}
              /\ file.tokens[t].caps \in [Periods -> Amounts \cup {None}]
         /\ \A p \in DOMAIN file.policies :
              /\ p \in PolicyNames /\ file.policies[p].token \in TokenNames
              /\ file.policies[p].rules \in Rules /\ file.policies[p].retry \in Retries \cup {None}
         /\ None \notin Config!TokenRows /\ None \notin Config!PolicyRows /\ None \notin Levels
<1>1. /\ \A t \in DOMAIN file.tokens : t \in TokenNames /\ file.tokens[t] \in
            [upstream : Upstreams, level : Levels \cup {None}, policies : SUBSET PolicyNames,
             caps : [Periods -> Amounts \cup {None}]]
      /\ \A p \in DOMAIN file.policies : p \in PolicyNames /\ file.policies[p] \in
            [token : TokenNames, rules : Rules, retry : Retries \cup {None}]
      /\ "redacted" \in Levels
  BY DEF ConfigTypes, Config!ConstantsAssumption
<1>. QED  BY <1>1 DEF Config!Level, Config!ConstantsAssumption

\* A row of a token is written.
LEMMA TokenWritten ==
  ASSUME ConfigTypes, Config!ConstantsAssumption, NEW t \in DOMAIN file.tokens,
         NEW caps \in [Periods -> Amounts \cup {None}],
         tokens' = [tokens EXCEPT ![t] = Config!Imported(t, caps)], file' = file
  PROVE  /\ tokens' \in [TokenNames -> Config!TokenRows \cup {None}]
         /\ Config!Active(tokens)' = Config!Active(tokens) \cup {t}
         /\ TokenSet(t)'
         /\ \A u \in TokenNames \ {t} : tokens'[u] = tokens[u]
<1>1. t \in TokenNames /\ Config!Imported(t, caps) \in Config!TokenRows /\ None \notin Config!TokenRows
  BY FileTypes DEF Config!Imported, Config!TokenRows
<1>2. /\ tokens' \in [TokenNames -> Config!TokenRows \cup {None}]
      /\ tokens'[t] = Config!Imported(t, caps)
      /\ \A u \in TokenNames \ {t} : tokens'[u] = tokens[u]
  BY <1>1 DEF ConfigTypes
<1>3. Config!Imported(t, caps).active
  BY DEF Config!Imported
<1>4. Config!Active(tokens)' = Config!Active(tokens) \cup {t}
  <2>1. DOMAIN tokens = TokenNames /\ DOMAIN tokens' = TokenNames
    BY <1>2 DEF ConfigTypes
  <2>. QED  BY <1>1, <1>2, <1>3, <2>1 DEF Config!Active, Config!Present
<1>5. TokenSet(t)'
  <2>1. /\ Config!Imported(t, caps).upstream = file.tokens[t].upstream
        /\ Config!Imported(t, caps).level = Config!Level(t)
    BY DEF Config!Imported
  <2>2. file'.tokens[t] = file.tokens[t] /\ Config!Level(t)' = Config!Level(t)
    BY DEF Config!Level
  <2>3. t \in Config!Active(tokens)'
    BY <1>4
  <2>4. tokens'[t].upstream = file'.tokens[t].upstream /\ tokens'[t].level = Config!Level(t)'
    BY <1>2, <2>1, <2>2
  <2>. QED  BY <2>3, <2>4 DEF TokenSet
<1>. QED  BY <1>2, <1>4, <1>5

LEMMA ImportTokenKeepsInv ==
  ASSUME ConfigInv, Config!ConstantsAssumption, NEW t \in TokenNames, Config!ImportToken(t)
  PROVE  ConfigInv'
<1>0. ConfigTypes
  BY DEF ConfigInv
<1>1. /\ cpc = "tokens" /\ cpc' \in {"tokens", "failed"} /\ t \in planned /\ planned' = planned \ {t}
      /\ UNCHANGED <<policies, caller, file, clean>> /\ t \in DOMAIN file.tokens
  BY DEF Config!ImportToken, Config!Take, Config!Fails, ConfigInv, PlanTypes
<1>2. ASSUME tokens' \in [TokenNames -> Config!TokenRows \cup {None}],
             cpc' = "tokens" /\ clean => TokensImported'
      PROVE  ConfigInv'
  <2>1. clean' => TokensImported' /\ PoliciesImported' /\ CapsImported'
    BY <1>1, <1>2 DEF TokensImported, PoliciesImported, CapsImported
  <2>2. ConfigTypes' /\ WhoRuns' /\ PlanTypes'
    BY <1>0, <1>1, <1>2 DEF ConfigInv, ConfigTypes, WhoRuns, PlanTypes
  <2>. QED  BY <1>1, <2>1, <2>2 DEF ConfigInv
<1>3. CASE tokens' = tokens /\ (cpc' = "tokens" => known' = known /\ (clean => TokenSet(t)))
  <2>1. \A u : TokenSet(u)' <=> TokenSet(u)
    BY <1>1, <1>3 DEF TokenSet, Config!Level
  <2>2. cpc' = "tokens" /\ clean => TokensImported'
    BY <1>1, <1>3, <2>1 DEF ConfigInv, TokensImported
  <2>. QED  BY <1>0, <1>2, <1>3, <2>2 DEF ConfigTypes
<1>4. CASE \E caps \in [Periods -> Amounts \cup {None}] :
               /\ tokens' = [tokens EXCEPT ![t] = Config!Imported(t, caps)]
               /\ known' = known \cup {t}
  <2>1. PICK caps \in [Periods -> Amounts \cup {None}] :
            tokens' = [tokens EXCEPT ![t] = Config!Imported(t, caps)]
    BY <1>4
  <2>2. /\ tokens' \in [TokenNames -> Config!TokenRows \cup {None}]
        /\ Config!Active(tokens)' = Config!Active(tokens) \cup {t}
        /\ TokenSet(t)'
        /\ \A u \in TokenNames \ {t} : tokens'[u] = tokens[u]
    BY <1>0, <1>1, <2>1, TokenWritten
  <2>3. \A u \in DOMAIN file.tokens \ {t} : TokenSet(u) => TokenSet(u)'
    BY <1>0, <1>1, <2>2, FileTypes DEF TokenSet, Config!Level
  <2>4. cpc' = "tokens" /\ clean => TokensImported'
    BY <1>1, <1>4, <2>2, <2>3 DEF ConfigInv, TokensImported
  <2>. QED  BY <1>2, <2>2, <2>4
<1>5. CASE file.tokens[t].upstream \in BlockedUrls
  BY <1>3, <1>5 DEF Config!ImportToken, TokenSet
<1>6. CASE file.tokens[t].upstream \notin BlockedUrls /\ t \in known
  <2>1. CASE t \in Config!Active(tokens)
    <3>1. tokens[t].caps \in [Periods -> Amounts \cup {None}]
      BY <1>0, <2>1 DEF ConfigTypes, Config!Active, Config!Present, Config!TokenRows
    <3>2. tokens' = [tokens EXCEPT ![t] = Config!Imported(t, tokens[t].caps)] /\ known' = known \cup {t}
      BY <1>6, <2>1 DEF Config!ImportToken
    <3>. QED  BY <1>4, <3>1, <3>2
  <2>2. CASE t \notin Config!Active(tokens)
    <3>1. tokens' = tokens /\ ~clean
      BY <1>1, <1>6, <2>2 DEF Config!ImportToken, ConfigInv, TokensImported
    <3>. QED  BY <1>2, <1>0, <3>1 DEF ConfigTypes
  <2>. QED  BY <2>1, <2>2
<1>7. CASE file.tokens[t].upstream \notin BlockedUrls /\ t \notin known
  <2>1. Config!NoCaps \in [Periods -> Amounts \cup {None}]
    BY DEF Config!NoCaps
  <2>2. CASE tokens[t] = None
    <3>1. /\ tokens' = [tokens EXCEPT ![t] = Config!Imported(t, Config!NoCaps)]
          /\ known' = known \cup {t}
      BY <1>7, <2>2 DEF Config!ImportToken
    <3>. QED  BY <1>4, <2>1, <3>1
  <2>3. CASE tokens[t] # None
    BY <1>3, <1>7, <2>3 DEF Config!ImportToken, Config!Fails
  <2>. QED  BY <2>2, <2>3
<1>. QED  BY <1>5, <1>6, <1>7

LEMMA ImportPolicyKeepsInv ==
  ASSUME ConfigInv, Config!ConstantsAssumption, NEW p \in PolicyNames, Config!ImportPolicy(p)
  PROVE  ConfigInv'
<1>0. ConfigTypes
  BY DEF ConfigInv
<1>1. /\ cpc = "policies" /\ cpc' \in {"policies", "failed"} /\ p \in planned /\ planned' = planned \ {p}
      /\ UNCHANGED <<tokens, caller, file, clean>> /\ p \in DOMAIN file.policies
      /\ known = Config!Present(policies)
  BY DEF Config!ImportPolicy, Config!Take, Config!Fails, ConfigInv, PlanTypes
<1>2. /\ file.policies[p].token \in TokenNames /\ file.policies[p].rules \in Rules
      /\ file.policies[p].retry \in Retries \cup {None} /\ None \notin Config!PolicyRows
  BY <1>0, <1>1, FileTypes
<1>3. ASSUME policies' \in [PolicyNames -> Config!PolicyRows \cup {None}],
             \A q \in PolicyNames \ {p} : policies'[q] = policies[q],
             cpc' = "policies" => known' = Config!Present(policies)' /\ Config!PolicyApplied(p)'
      PROVE  ConfigInv'
  <2>1. \A q \in DOMAIN file.policies \ {p} : Config!PolicyApplied(q) => Config!PolicyApplied(q)'
    BY <1>0, <1>1, <1>3, FileTypes DEF Config!PolicyApplied, Config!Active
  <2>2. \A t : TokenSet(t)' <=> TokenSet(t)
    BY <1>1 DEF TokenSet, Config!Level
  <2>3. cpc' = "policies" /\ clean => TokensImported' /\ PoliciesImported'
    BY <1>1, <1>3, <2>1, <2>2 DEF ConfigInv, TokensImported, PoliciesImported
  <2>4. clean' => TokensImported' /\ PoliciesImported' /\ CapsImported'
    BY <1>1, <2>3 DEF TokensImported, PoliciesImported, CapsImported
  <2>5. ConfigTypes' /\ WhoRuns' /\ PlanTypes'
    BY <1>0, <1>1, <1>3 DEF ConfigInv, ConfigTypes, WhoRuns, PlanTypes
  <2>. QED  BY <1>1, <1>3, <2>4, <2>5 DEF ConfigInv
<1>4. CASE p \in known
  <2>1. CASE p \in Config!Active(policies)
    <3>1. policies[p] \in Config!PolicyRows /\ known' = known
      BY <1>0, <1>4, <2>1 DEF ConfigTypes, Config!Active, Config!Present, Config!ImportPolicy
    <3>2. PICK r : /\ r = [policies[p] EXCEPT !.rules = file.policies[p].rules,
                              !.retry = IF file.policies[p].retry = None THEN @
                                        ELSE file.policies[p].retry]
                   /\ policies' = [policies EXCEPT ![p] = r]
      <4>1. policies' = [policies EXCEPT ![p] = [policies[p] EXCEPT !.rules = file.policies[p].rules,
                              !.retry = IF file.policies[p].retry = None THEN @
                                        ELSE file.policies[p].retry]]
        BY <1>4, <2>1 DEF Config!ImportPolicy
      <4>. QED  BY <4>1
    <3>3. /\ r \in Config!PolicyRows /\ r.rules = file.policies[p].rules
          /\ file.policies[p].retry \in {None, r.retry}
      BY <1>2, <3>1, <3>2 DEF Config!PolicyRows
    <3>4. /\ policies' \in [PolicyNames -> Config!PolicyRows \cup {None}] /\ policies'[p] = r
          /\ \A q \in PolicyNames \ {p} : policies'[q] = policies[q]
      BY <1>0, <3>2, <3>3 DEF ConfigTypes
    <3>5. Config!Present(policies)' = Config!Present(policies)
      BY <1>0, <1>2, <3>1, <3>3, <3>4 DEF Config!Present, ConfigTypes
    <3>6. Config!PolicyApplied(p)'
      BY <1>1, <1>2, <3>3, <3>4 DEF Config!PolicyApplied
    <3>. QED  BY <1>1, <1>3, <3>1, <3>4, <3>5, <3>6
  <2>2. CASE p \notin Config!Active(policies)
    <3>1. policies' = policies /\ known' = known
      BY <1>4, <2>2 DEF Config!ImportPolicy
    <3>2. policies[p] # None /\ ~policies[p].active
      BY <1>1, <1>4, <2>2 DEF Config!Active, Config!Present
    <3>3. Config!PolicyApplied(p)'
      BY <3>1, <3>2 DEF Config!PolicyApplied
    <3>4. Config!Present(policies)' = Config!Present(policies)
      BY <3>1 DEF Config!Present
    <3>. QED  BY <1>0, <1>1, <1>3, <3>1, <3>3, <3>4 DEF ConfigTypes
  <2>. QED  BY <2>1, <2>2
<1>5. CASE p \notin known /\ policies[p] = None
  <2>1. PICK r : /\ r = [active |-> TRUE, token |-> file.policies[p].token,
                         rules |-> file.policies[p].rules, retry |-> file.policies[p].retry]
                 /\ policies' = [policies EXCEPT ![p] = r] /\ known' = known \cup {p}
    BY <1>5 DEF Config!ImportPolicy
  <2>2. r \in Config!PolicyRows
    BY <1>2, <2>1 DEF Config!PolicyRows
  <2>3. /\ policies' \in [PolicyNames -> Config!PolicyRows \cup {None}] /\ policies'[p] = r
        /\ \A q \in PolicyNames \ {p} : policies'[q] = policies[q]
    BY <1>0, <2>1, <2>2 DEF ConfigTypes
  <2>4. Config!Present(policies)' = Config!Present(policies) \cup {p}
    BY <1>0, <1>2, <2>2, <2>3 DEF Config!Present, ConfigTypes
  <2>5. Config!PolicyApplied(p)'
    BY <1>1, <1>2, <2>1, <2>2, <2>3 DEF Config!PolicyApplied
  <2>. QED  BY <1>1, <1>3, <2>1, <2>3, <2>4, <2>5
<1>6. CASE p \notin known /\ policies[p] # None
  <2>1. policies' = policies /\ cpc' = "failed"
    BY <1>6 DEF Config!ImportPolicy, Config!Fails
  <2>. QED  BY <1>0, <1>3, <2>1 DEF ConfigTypes
<1>. QED  BY <1>4, <1>5, <1>6

\* What an import compares, an export has.
LEMMA ExportTypes ==
  ASSUME ConfigTypes
  PROVE  /\ DOMAIN Config!Exported.tokens = Config!Active(tokens)
         /\ \A t \in Config!Active(tokens) : Config!Exported.tokens[t] = tokens[t]
         /\ Config!Active(tokens) \subseteq TokenNames
         /\ \A t \in Config!Active(tokens) : tokens[t] \in Config!TokenRows
<1>1. /\ Config!Active(tokens) \subseteq TokenNames
      /\ \A t \in Config!Active(tokens) : tokens[t] \in Config!TokenRows
  BY DEF ConfigTypes, Config!Active, Config!Present
<1>2. Config!Exported.tokens = [t \in Config!Active(tokens) |-> tokens[t]]
  BY DEF Config!Exported
<1>. QED  BY <1>1, <1>2

LEMMA CapsTold ==
  ASSUME ConfigTypes, Config!ConstantsAssumption, NEW t \in DOMAIN file.tokens, NEW p \in Periods,
         <<t, p>> \notin Config!Caps(Config!Exported), TokenSet(t)
  PROVE  CapSet(t, p)
<1>1. ~Config!CapDiffers(t, p, Config!Exported)
  BY DEF Config!Caps
<1>2. CASE file.tokens[t].caps[p] = None \/ file.tokens[t].upstream \in BlockedUrls
  BY <1>2 DEF CapSet
<1>3. CASE file.tokens[t].caps[p] # None /\ file.tokens[t].upstream \notin BlockedUrls
  <2>1. t \in Config!Active(tokens)
    BY <1>3 DEF TokenSet
  <2>2. t \in DOMAIN Config!Exported.tokens /\ Config!Exported.tokens[t] = tokens[t]
    BY <2>1, ExportTypes
  <2>3. tokens[t].caps[p] = file.tokens[t].caps[p]
    BY <1>1, <1>3, <2>2 DEF Config!CapDiffers
  <2>. QED  BY <2>3 DEF CapSet
<1>. QED  BY <1>2, <1>3

\* An export without differences says that the file is in the database.
LEMMA NothingPlanned ==
  ASSUME ConfigTypes, Config!ConstantsAssumption, Config!Plan(Config!Exported) = {}
  PROVE  /\ \A t \in DOMAIN file.tokens : TokenSet(t)
         /\ \A t \in DOMAIN file.tokens, p \in Periods : CapSet(t, p)
<1>1. /\ Config!Caps(Config!Exported) = {}
      /\ \A t \in DOMAIN file.tokens : ~Config!TokenDiffers(t, Config!Exported)
  BY DEF Config!Plan
<1>2. ASSUME NEW t \in DOMAIN file.tokens  PROVE TokenSet(t)
  <2>1. ~Config!TokenDiffers(t, Config!Exported)
    BY <1>1
  <2>2. t \in Config!Active(tokens)
    BY <2>1, ExportTypes DEF Config!TokenDiffers
  <2>3. Config!Exported.tokens[t] = tokens[t] /\ tokens[t] \in Config!TokenRows
    BY <2>2, ExportTypes
  <2>4. file.tokens[t].upstream = tokens[t].upstream /\ file.tokens[t].level = tokens[t].level
    BY <2>1, <2>3 DEF Config!TokenDiffers
  <2>5. file.tokens[t].level # None
    BY <2>3, <2>4, FileTypes DEF Config!TokenRows
  <2>. QED  BY <2>2, <2>4, <2>5 DEF TokenSet, Config!Level
<1>. QED  BY <1>1, <1>2, CapsTold

LEMMA UpsertCapKeepsInv ==
  ASSUME ConfigInv, Config!ConstantsAssumption, NEW t \in TokenNames, NEW p \in Periods,
         Config!UpsertCap(t, p)
  PROVE  ConfigInv'
<1>0. ConfigTypes
  BY DEF ConfigInv
<1>1. /\ cpc = "caps" /\ cpc' \in {"caps", "failed"} /\ <<t, p>> \in planned
      /\ planned' = planned \ {<<t, p>>}
      /\ UNCHANGED <<policies, caller, file, known, clean>> /\ t \in DOMAIN file.tokens
  BY DEF Config!UpsertCap, Config!Take, Config!Fails, ConfigInv, PlanTypes
<1>2. CASE t \notin Config!Active(tokens)
  <2>1. tokens' = tokens /\ cpc' = "failed"
    BY <1>2 DEF Config!UpsertCap, Config!Fails
  <2>. QED  BY <1>0, <1>1, <2>1 DEF ConfigInv, ConfigTypes, WhoRuns, PlanTypes, TokensImported,
              PoliciesImported, CapsImported
<1>3. CASE t \in Config!Active(tokens)
  <2>1. cpc' = "caps" /\ tokens' = [tokens EXCEPT ![t].caps[p] = file.tokens[t].caps[p]]
    BY <1>1, <1>3 DEF Config!UpsertCap
  <2>2. tokens[t] \in Config!TokenRows /\ None \notin Config!TokenRows
    BY <1>0, <1>3, ExportTypes, FileTypes
  <2>3. PICK r : r = [tokens[t] EXCEPT !.caps[p] = file.tokens[t].caps[p]]
    OBVIOUS
  <2>4. file.tokens[t].caps[p] \in Amounts \cup {None}
    BY <1>0, <1>1, FileTypes
  <2>5. /\ r \in Config!TokenRows /\ r.upstream = tokens[t].upstream /\ r.level = tokens[t].level
        /\ r.active = tokens[t].active /\ r.caps[p] = file.tokens[t].caps[p]
        /\ \A q \in Periods \ {p} : r.caps[q] = tokens[t].caps[q]
    BY <2>2, <2>3, <2>4 DEF Config!TokenRows
  <2>6. /\ tokens' \in [TokenNames -> Config!TokenRows \cup {None}] /\ tokens'[t] = r
        /\ \A u \in TokenNames \ {t} : tokens'[u] = tokens[u]
    BY <1>0, <2>1, <2>3, <2>5 DEF ConfigTypes
  <2>7. Config!Active(tokens)' = Config!Active(tokens)
    <3>1. DOMAIN tokens = TokenNames /\ DOMAIN tokens' = TokenNames
      BY <1>0, <2>6 DEF ConfigTypes
    <3>2. tokens[t] # None /\ r # None /\ r.active = tokens[t].active
      BY <2>2, <2>5
    <3>. QED  BY <2>6, <3>1, <3>2 DEF Config!Active, Config!Present
  <2>8. \A u \in DOMAIN file.tokens : TokenSet(u) => TokenSet(u)'
    <3>1. \A u \in DOMAIN file.tokens :
            u \in TokenNames /\ tokens'[u].upstream = tokens[u].upstream /\ tokens'[u].level = tokens[u].level
      BY <1>0, <2>5, <2>6, FileTypes
    <3>2. \A u : Config!Level(u)' = Config!Level(u)
      BY <1>1 DEF Config!Level
    <3>. QED  BY <1>1, <2>7, <3>1, <3>2 DEF TokenSet
  <2>9. \A u \in DOMAIN file.tokens, q \in Periods : CapSet(u, q) => CapSet(u, q)'
    <3>1. ASSUME NEW u \in DOMAIN file.tokens, NEW q \in Periods, CapSet(u, q)  PROVE CapSet(u, q)'
      <4>1. u \in TokenNames
        BY <1>0, FileTypes
      <4>2. CASE u = t /\ q = p
        <5>1. tokens'[u].caps[q] = file'.tokens[u].caps[q]
          BY <1>1, <2>5, <2>6, <4>2
        <5>. QED  BY <5>1 DEF CapSet
      <4>3. CASE ~(u = t /\ q = p)
        <5>1. tokens'[u].caps[q] = tokens[u].caps[q]
          BY <2>5, <2>6, <4>1, <4>3
        <5>. QED  BY <1>1, <3>1, <5>1 DEF CapSet
      <4>. QED  BY <4>2, <4>3
    <3>. QED  BY <3>1
  <2>10. CapSet(t, p)'
    <3>1. tokens'[t].caps[p] = file'.tokens[t].caps[p]
      BY <1>1, <2>5, <2>6
    <3>. QED  BY <3>1 DEF CapSet
  <2>11. clean => TokensImported'
    BY <1>1, <2>1, <2>8 DEF ConfigInv, TokensImported
  <2>12. clean => CapsImported'
    <3>1. ASSUME clean, NEW u \in DOMAIN file.tokens, NEW q \in Periods, <<u, q>> \notin planned'
          PROVE  CapSet(u, q)'
      <4>1. CASE <<u, q>> = <<t, p>>
        BY <2>10, <4>1
      <4>2. CASE <<u, q>> # <<t, p>>
        <5>1. CapSet(u, q)
          BY <1>1, <3>1, <4>2 DEF ConfigInv, CapsImported
        <5>. QED  BY <2>9, <5>1
      <4>. QED  BY <4>1, <4>2
    <3>. QED  BY <1>1, <2>1, <3>1 DEF CapsImported
  <2>13. clean' => TokensImported' /\ PoliciesImported' /\ CapsImported'
    BY <1>1, <2>1, <2>11, <2>12 DEF PoliciesImported
  <2>14. ConfigTypes' /\ WhoRuns' /\ PlanTypes'
    BY <1>0, <1>1, <2>1, <2>6 DEF ConfigInv, ConfigTypes, WhoRuns, PlanTypes
  <2>. QED  BY <2>1, <2>13, <2>14 DEF ConfigInv
<1>. QED  BY <1>2, <1>3

\* Others change rows, and the run is no longer undisturbed.
LEMMA DisturbedKeepsInv ==
  ASSUME ConfigInv, Config!ConstantsAssumption, clean' = FALSE,
         UNCHANGED <<file, cpc, caller, known, planned>>,
         tokens' \in [TokenNames -> Config!TokenRows \cup {None}],
         policies' \in [PolicyNames -> Config!PolicyRows \cup {None}],
         Config!Present(policies)' = Config!Present(policies)
  PROVE  ConfigInv'
  BY DEF ConfigInv, ConfigTypes, WhoRuns, PlanTypes

LEMMA RevokeKeepsInv ==
  ASSUME ConfigInv, Config!ConstantsAssumption, NEW t \in TokenNames, Config!Revoke(t)
  PROVE  ConfigInv'
<1>0. ConfigTypes
  BY DEF ConfigInv
<1>1. /\ t \in Config!Active(tokens) /\ policies' = policies /\ clean' = FALSE
      /\ tokens' = [tokens EXCEPT ![t].active = FALSE]
      /\ UNCHANGED <<file, cpc, caller, known, planned>>
  BY DEF Config!Revoke, Config!Interfere
<1>2. tokens[t] \in Config!TokenRows
  BY <1>0, <1>1, ExportTypes
<1>3. [tokens[t] EXCEPT !.active = FALSE] \in Config!TokenRows
  BY <1>2 DEF Config!TokenRows
<1>4. tokens' \in [TokenNames -> Config!TokenRows \cup {None}]
  BY <1>0, <1>1, <1>3 DEF ConfigTypes
<1>5. Config!Present(policies)' = Config!Present(policies)
  BY <1>1 DEF Config!Present
<1>. QED  BY <1>0, <1>1, <1>4, <1>5, DisturbedKeepsInv DEF ConfigTypes

LEMMA AttachKeepsInv ==
  ASSUME ConfigInv, Config!ConstantsAssumption, NEW t \in TokenNames, NEW p \in PolicyNames,
         Config!Attach(t, p)
  PROVE  ConfigInv'
<1>0. ConfigTypes
  BY DEF ConfigInv
<1>1. /\ t \in Config!Active(tokens) /\ policies' = policies /\ clean' = FALSE
      /\ tokens' = [tokens EXCEPT ![t].policies = @ \cup {p}]
      /\ UNCHANGED <<file, cpc, caller, known, planned>>
  BY DEF Config!Attach, Config!Interfere
<1>2. tokens[t] \in Config!TokenRows
  BY <1>0, <1>1, ExportTypes
<1>3. [tokens[t] EXCEPT !.policies = @ \cup {p}] \in Config!TokenRows
  BY <1>2 DEF Config!TokenRows
<1>4. tokens' \in [TokenNames -> Config!TokenRows \cup {None}]
  BY <1>0, <1>1, <1>3 DEF ConfigTypes
<1>5. Config!Present(policies)' = Config!Present(policies)
  BY <1>1 DEF Config!Present
<1>. QED  BY <1>0, <1>1, <1>4, <1>5, DisturbedKeepsInv DEF ConfigTypes

LEMMA DeletePolicyKeepsInv ==
  ASSUME ConfigInv, Config!ConstantsAssumption, NEW p \in PolicyNames, Config!DeletePolicy(p)
  PROVE  ConfigInv'
<1>0. ConfigTypes
  BY DEF ConfigInv
<1>1. /\ p \in Config!Active(policies) /\ tokens' = tokens /\ clean' = FALSE
      /\ policies' = [policies EXCEPT ![p].active = FALSE]
      /\ UNCHANGED <<file, cpc, caller, known, planned>>
  BY DEF Config!DeletePolicy, Config!Interfere
<1>2. policies[p] \in Config!PolicyRows /\ None \notin Config!PolicyRows /\ p \in Config!Present(policies)
  BY <1>0, <1>1, FileTypes DEF ConfigTypes, Config!Active, Config!Present
<1>3. PICK r : r = [policies[p] EXCEPT !.active = FALSE]
  OBVIOUS
<1>4. r \in Config!PolicyRows
  BY <1>2, <1>3 DEF Config!PolicyRows
<1>5. /\ policies' \in [PolicyNames -> Config!PolicyRows \cup {None}] /\ policies'[p] = r
      /\ \A q \in PolicyNames \ {p} : policies'[q] = policies[q]
  BY <1>0, <1>1, <1>3, <1>4 DEF ConfigTypes
<1>6. Config!Present(policies)' = Config!Present(policies)
  BY <1>0, <1>2, <1>4, <1>5 DEF Config!Present, ConfigTypes
<1>. QED  BY <1>0, <1>1, <1>5, <1>6, DisturbedKeepsInv DEF ConfigTypes

\* The steps that leave the rows as they are.
LEMMA ReadingKeepsInv ==
  ASSUME ConfigInv, Config!ConstantsAssumption,
         \/ Config!Start \/ Config!Export \/ Config!Confirm \/ Config!ListTokens
         \/ Config!ListPolicies \/ Config!EndImport \/ Config!Fail \/ Config!Refresh
         \/ Config!Complete
  PROVE  ConfigInv'
<1>0. ConfigTypes
  BY DEF ConfigInv
<1>1. UNCHANGED <<tokens, policies, file, caller>>
  BY DEF Config!Start, Config!Export, Config!Confirm, Config!ListTokens, Config!ListPolicies,
         Config!EndImport, Config!Fail, Config!Refresh, Config!Complete, Config!db
<1>2. /\ ConfigTypes'
      /\ \A t : TokenSet(t)' <=> TokenSet(t)
      /\ \A t, p : CapSet(t, p)' <=> CapSet(t, p)
      /\ \A p : Config!PolicyApplied(p)' <=> Config!PolicyApplied(p)
      /\ Config!Active(tokens)' = Config!Active(tokens)
      /\ Config!Present(policies)' = Config!Present(policies)
  <2>1. /\ ConfigTypes'
        /\ Config!Active(tokens)' = Config!Active(tokens)
        /\ Config!Present(policies)' = Config!Present(policies)
    BY <1>0, <1>1 DEF ConfigTypes, Config!Active, Config!Present
  <2>2. \A t : Config!Level(t)' = Config!Level(t)
    BY <1>1 DEF Config!Level
  <2>3. \A t : TokenSet(t)' <=> TokenSet(t)
    BY <1>1, <2>1, <2>2 DEF TokenSet
  <2>4. \A t, p : CapSet(t, p)' <=> CapSet(t, p)
    BY <1>1 DEF CapSet
  <2>5. \A p : Config!PolicyApplied(p)' <=> Config!PolicyApplied(p)
    BY <1>1, <2>1 DEF Config!PolicyApplied
  <2>. QED  BY <2>1, <2>3, <2>4, <2>5
<1>3. CASE Config!Start \/ Config!Fail
  <2>1. cpc' \in {"export", "import", "failed"} /\ (cpc' = "export" => caller = "cli")
    BY <1>3 DEF Config!Start, Config!Fail, Config!Fails
  <2>. QED  BY <1>1, <1>2, <2>1 DEF ConfigInv, WhoRuns, PlanTypes, TokensImported, PoliciesImported,
              CapsImported
<1>4. CASE Config!Export
  <2>1. /\ cpc = "export" /\ clean' = clean /\ known' = known
        /\ cpc' = IF Config!Plan(Config!Exported) = {} THEN "unchanged" ELSE "confirm"
    <3>1. export' = Config!Exported
      BY <1>4 DEF Config!Export
    <3>2. cpc' = IF Config!Plan(export') = {} THEN "unchanged" ELSE "confirm"
      BY <1>4 DEF Config!Export
    <3>3. cpc = "export" /\ clean' = clean /\ known' = known
      BY <1>4 DEF Config!Export
    <3>. QED  BY <3>1, <3>2, <3>3
  <2>2. cpc' = "unchanged" => /\ \A t \in DOMAIN file.tokens : TokenSet(t)
                              /\ \A t \in DOMAIN file.tokens, p \in Periods : CapSet(t, p)
    BY <1>0, <2>1, NothingPlanned
  <2>3. TokensImported' /\ PoliciesImported' /\ CapsImported'
    BY <1>1, <1>2, <2>1, <2>2 DEF TokensImported, PoliciesImported, CapsImported
  <2>4. WhoRuns' /\ PlanTypes' /\ cpc' # "policies"
    BY <1>1, <2>1 DEF ConfigInv, WhoRuns, PlanTypes
  <2>. QED  BY <1>2, <2>3, <2>4 DEF ConfigInv
<1>5. CASE Config!Confirm \/ (Config!ListTokens /\ ~Config!Readable)
  <2>1. cpc' \in {"import", "cancelled", "unprocessable"}
    BY <1>5 DEF Config!Confirm, Config!ListTokens
  <2>. QED  BY <1>2, <2>1 DEF ConfigInv, WhoRuns, PlanTypes, TokensImported, PoliciesImported, CapsImported
<1>6. CASE Config!ListTokens /\ Config!Readable
  <2>1. known' = Config!Active(tokens) /\ planned' = DOMAIN file.tokens /\ cpc' = "tokens"
    BY <1>6 DEF Config!ListTokens
  <2>. QED  BY <1>1, <1>2, <2>1 DEF ConfigInv, WhoRuns, PlanTypes, TokensImported, PoliciesImported,
              CapsImported
<1>7. CASE Config!ListPolicies
  <2>1. /\ cpc = "tokens" /\ planned = {} /\ clean' = clean /\ cpc' = "policies"
        /\ planned' = {p \in DOMAIN file.policies : file.policies[p].token \in known}
        /\ known' = Config!Present(policies)
    BY <1>7 DEF Config!ListPolicies
  <2>2. clean => /\ known = Config!Active(tokens)
                 /\ \A t \in DOMAIN file.tokens : TokenSet(t)
    BY <2>1 DEF ConfigInv, TokensImported
  <2>3. clean => \A p \in DOMAIN file.policies \ planned' : Config!PolicyApplied(p)
    <3>1. clean => \A p \in DOMAIN file.policies \ planned' : file.policies[p].token \notin Config!Active(tokens)
      BY <2>1, <2>2
    <3>. QED  BY <3>1 DEF Config!PolicyApplied
  <2>4. clean => TokensImported' /\ PoliciesImported' /\ CapsImported'
    BY <1>1, <1>2, <2>1, <2>2, <2>3 DEF TokensImported, PoliciesImported, CapsImported
  <2>5. WhoRuns' /\ PlanTypes'
    BY <1>1, <2>1 DEF WhoRuns, PlanTypes
  <2>. QED  BY <1>2, <2>1, <2>4, <2>5 DEF ConfigInv
<1>8. CASE Config!EndImport
  <2>1. /\ cpc = "policies" /\ planned = {} /\ clean' = clean
        /\ cpc' = IF caller = "cli" THEN "refresh" ELSE "imported"
    BY <1>8 DEF Config!EndImport
  <2>2. clean => TokensImported' /\ PoliciesImported' /\ CapsImported'
    <3>1. clean => /\ \A t \in DOMAIN file.tokens : TokenSet(t)
                   /\ \A p \in DOMAIN file.policies : Config!PolicyApplied(p)
      BY <2>1 DEF ConfigInv, TokensImported, PoliciesImported
    <3>. QED  BY <1>1, <1>2, <2>1, <3>1 DEF TokensImported, PoliciesImported, CapsImported
  <2>3. WhoRuns' /\ PlanTypes' /\ cpc' # "policies"
    BY <1>1, <2>1 DEF WhoRuns, PlanTypes
  <2>. QED  BY <1>2, <2>1, <2>2, <2>3 DEF ConfigInv
<1>9. CASE Config!Refresh
  <2>1. /\ cpc = "refresh" /\ planned' = Config!Caps(Config!Exported) /\ cpc' = "caps" /\ clean' = clean
    BY <1>9 DEF Config!Refresh
  <2>2. clean => \A t \in DOMAIN file.tokens : TokenSet(t)
    BY <2>1 DEF ConfigInv, TokensImported
  <2>3. clean => \A t \in DOMAIN file.tokens, p \in Periods : <<t, p>> \in planned' \/ CapSet(t, p)
    BY <1>0, <2>1, <2>2, CapsTold
  <2>4. clean => TokensImported' /\ PoliciesImported' /\ CapsImported'
    BY <1>1, <1>2, <2>1, <2>2, <2>3 DEF TokensImported, PoliciesImported, CapsImported
  <2>5. WhoRuns' /\ cpc' # "policies"
    BY <1>1, <2>1 DEF ConfigInv, WhoRuns
  <2>6. PlanTypes'
    BY <1>1, <2>1 DEF PlanTypes, Config!Caps
  <2>. QED  BY <1>2, <2>1, <2>4, <2>5, <2>6 DEF ConfigInv
<1>10. CASE Config!Complete
  <2>1. /\ cpc = "caps" /\ planned = {} /\ clean' = clean /\ cpc' = "applied"
    BY <1>10 DEF Config!Complete
  <2>2. clean => /\ \A t \in DOMAIN file.tokens : TokenSet(t)
                 /\ \A t \in DOMAIN file.tokens, p \in Periods : CapSet(t, p)
    BY <2>1 DEF ConfigInv, TokensImported, CapsImported
  <2>3. clean => TokensImported' /\ PoliciesImported' /\ CapsImported'
    BY <1>1, <1>2, <2>1, <2>2 DEF TokensImported, PoliciesImported, CapsImported
  <2>4. WhoRuns' /\ PlanTypes' /\ cpc' # "policies"
    BY <1>1, <2>1 DEF ConfigInv, WhoRuns, PlanTypes
  <2>. QED  BY <1>2, <2>1, <2>3, <2>4 DEF ConfigInv
<1>. QED  BY <1>3, <1>4, <1>5, <1>6, <1>7, <1>8, <1>9, <1>10

LEMMA ConfigKeepsInv ==
  ASSUME Config!ConstantsAssumption
  PROVE  ConfigInv /\ [Config!Next]_(Config!vars) => ConfigInv'
<1>1. ASSUME ConfigInv, Config!Next  PROVE ConfigInv'
  <2>1. CASE \/ Config!Start \/ Config!Export \/ Config!Confirm \/ Config!ListTokens
             \/ Config!ListPolicies \/ Config!EndImport \/ Config!Fail \/ Config!Refresh
             \/ Config!Complete
    BY <1>1, <2>1, ReadingKeepsInv
  <2>2. CASE \E t \in TokenNames : Config!ImportToken(t)
    BY <1>1, <2>2, ImportTokenKeepsInv
  <2>3. CASE \E t \in TokenNames, p \in Periods : Config!UpsertCap(t, p)
    BY <1>1, <2>3, UpsertCapKeepsInv
  <2>4. CASE \E p \in PolicyNames : Config!ImportPolicy(p)
    BY <1>1, <2>4, ImportPolicyKeepsInv
  <2>5. CASE \E t \in TokenNames : Config!Revoke(t)
    BY <1>1, <2>5, RevokeKeepsInv
  <2>6. CASE \E t \in TokenNames, p \in PolicyNames : Config!Attach(t, p)
    BY <1>1, <2>6, AttachKeepsInv
  <2>7. CASE \E p \in PolicyNames : Config!DeletePolicy(p)
    BY <1>1, <2>7, DeletePolicyKeepsInv
  <2>. QED  BY <1>1, <2>1, <2>2, <2>3, <2>4, <2>5, <2>6, <2>7 DEF Config!Next
<1>2. ASSUME ConfigInv, UNCHANGED Config!vars  PROVE ConfigInv'
  BY <1>2 DEF Config!vars, Config!db, Config!bounds, ConfigInv, ConfigTypes, WhoRuns, PlanTypes,
       TokensImported, PoliciesImported, CapsImported, TokenSet, CapSet, Config!Active,
       Config!Present, Config!Level, Config!PolicyApplied
<1>. QED  BY <1>1, <1>2

\* The import and the command line say that they have applied the file only
\* when its tokens and policies are in the database, unless somebody else has
\* changed them meanwhile (import_document, apply).
THEOREM FilesAreLive ==
  ASSUME Config!ConstantsAssumption
  PROVE  Config!Spec => []Config!AppliedIsLive
<1>1. Config!Init => ConfigInv
  <2>1. SUFFICES ASSUME Config!Init  PROVE ConfigInv
    OBVIOUS
  <2>2. /\ \E start \in ConfigProjects : tokens = start.tokens /\ policies = start.policies
        /\ file \in Files /\ cpc = "idle"
    BY <2>1 DEF Config!Init
  <2>3. \A start \in ConfigProjects :
            /\ start.tokens \in [TokenNames -> Config!TokenRows \cup {None}]
            /\ start.policies \in [PolicyNames -> Config!PolicyRows \cup {None}]
    BY DEF Config!ConstantsAssumption
  <2>4. ConfigTypes
    BY <2>2, <2>3 DEF ConfigTypes
  <2>. QED  BY <2>2, <2>4 DEF ConfigInv, WhoRuns, PlanTypes, TokensImported, PoliciesImported, CapsImported
<1>2. ConfigInv => Config!AppliedIsLive
  <2>1. SUFFICES ASSUME ConfigInv, cpc \in {"unchanged", "applied", "imported"}, clean
                 PROVE  /\ \A t \in DOMAIN file.tokens : Config!TokenApplied(t)
                        /\ caller = "api" => \A p \in DOMAIN file.policies : Config!PolicyApplied(p)
    BY DEF Config!AppliedIsLive
  <2>2. \A t \in DOMAIN file.tokens : TokenSet(t)
    BY <2>1 DEF ConfigInv, TokensImported
  <2>3. cpc # "imported" => \A t \in DOMAIN file.tokens, p \in Periods : CapSet(t, p)
    BY <2>1 DEF ConfigInv, CapsImported
  <2>4. cpc = "imported" => \A p \in DOMAIN file.policies : Config!PolicyApplied(p)
    BY <2>1 DEF ConfigInv, PoliciesImported
  <2>5. cpc = "imported" <=> caller # "cli"
    BY <2>1 DEF ConfigInv, WhoRuns
  <2>6. \A t \in DOMAIN file.tokens : Config!TokenApplied(t)
    BY <2>2, <2>3, <2>5 DEF TokenSet, CapSet, Config!TokenApplied
  <2>. QED  BY <2>4, <2>5, <2>6
<1>3. ConfigInv /\ [Config!Next]_(Config!vars) => ConfigInv'
  BY ConfigKeepsInv
<1>. QED  BY <1>1, <1>2, <1>3, PTL DEF Config!Spec

-----------------------------------------------------------------------------
\* Tools of MCP servers (McpTools)

CONSTANTS ToolTasks, ToolWorkloads, Offers, MaxSwitches, MaxReboots

VARIABLES demands, offered, switches, memory, grant, server, stock, toolTask,
          tpc, taken, left, listing, disturbed, reboots

Tool == INSTANCE McpTools WITH
    Tasks <- ToolTasks, Workloads <- ToolWorkloads, MaxChanges <- MaxSwitches,
    MaxRestarts <- MaxReboots,
    changes <- switches, row <- server, table <- stock, job <- toolTask, pc <- tpc,
    answer <- listing, hindered <- disturbed, restarts <- reboots

\* Tools of a server: as long as no writing was disturbed there is one writer
\* at most, it writes what the registry has, and what it has written of that
\* is what the table has.

IsTools(f) == f = [n \in DOMAIN f |-> f[n]]

LEMMA EmptyTools ==
  ASSUME NEW f, IsTools(f), DOMAIN f = {}
  PROVE  f = <<>>
<1>1. f = [n \in {} |-> f[n]]
  BY DEF IsTools
<1>. QED  BY <1>1

ToolTypes ==
    /\ DOMAIN tpc = ToolTasks /\ DOMAIN taken = ToolTasks /\ DOMAIN left = ToolTasks
    /\ IsTools(offered) /\ \A t \in ToolTasks : IsTools(taken[t])
    /\ memory # None =>
          memory = [tools |-> memory.tools, status |-> memory.status, auth |-> memory.auth]

OneWriter == \A t, u \in ToolTasks : Tool!Writing(t) /\ Tool!Writing(u) => t = u

WritesMemory(t) == Tool!Writing(t) /\ memory # None => taken[t] = memory.tools

Half(t) == [n \in DOMAIN taken[t] \ left[t] |-> taken[t][n]]

HalfWritten(t) ==
    tpc[t] = "write" => left[t] \subseteq DOMAIN taken[t] /\ (server # None => stock = Half(t))

ToolInv ==
    /\ ToolTypes
    /\ disturbed \in BOOLEAN
    /\ disturbed \/ (/\ OneWriter
                     /\ \A t \in ToolTasks : WritesMemory(t) /\ HalfWritten(t)
                     /\ (\A t \in ToolTasks : ~Tool!Writing(t)) /\ memory # None /\ server # None
                            => stock = memory.tools)

\* A step of a task that writes nothing, or of none: the registry keeps its
\* tools or loses the server, and the table is kept or loses its row.
LEMMA ToolsRest ==
  ASSUME ToolInv, UNCHANGED <<taken, left, disturbed>>, IsTools(offered'),
         DOMAIN tpc' = ToolTasks,
         \A t \in ToolTasks : tpc'[t] = tpc[t] \/ (~Tool!Writing(t) /\ ~Tool!Writing(t)'),
         memory' # None =>
            /\ memory # None /\ memory'.tools = memory.tools
            /\ memory' = [tools |-> memory'.tools, status |-> memory'.status, auth |-> memory'.auth],
         server' # None => server # None /\ stock' = stock
  PROVE  ToolInv'
<1>1. ToolTypes'
  BY DEF ToolInv, ToolTypes
<1>2. \A t \in ToolTasks : Tool!Writing(t)' <=> Tool!Writing(t)
  BY DEF Tool!Writing
<1>3. \A t \in ToolTasks : tpc'[t] = "write" => tpc[t] = "write"
  BY DEF Tool!Writing
<1>4. ASSUME ~disturbed
      PROVE  /\ OneWriter'
             /\ \A t \in ToolTasks : WritesMemory(t)' /\ HalfWritten(t)'
             /\ (\A t \in ToolTasks : ~Tool!Writing(t)') /\ memory' # None /\ server' # None
                     => stock' = memory'.tools
  <2>1. OneWriter'
    BY <1>2, <1>4 DEF ToolInv, OneWriter
  <2>2. ASSUME NEW t \in ToolTasks
        PROVE  WritesMemory(t)' /\ HalfWritten(t)'
    <3>1. WritesMemory(t) /\ HalfWritten(t)
      BY <1>4, <2>2 DEF ToolInv
    <3>2. WritesMemory(t)'
      <4>1. Tool!Writing(t)' <=> Tool!Writing(t)
        BY <1>2, <2>2
      <4>. QED  BY <3>1, <4>1 DEF WritesMemory
    <3>3. Half(t)' = Half(t)
      BY DEF Half
    <3>4. tpc'[t] = "write" => tpc[t] = "write"
      BY <1>3, <2>2
    <3>5. HalfWritten(t)'
      BY <3>1, <3>3, <3>4 DEF HalfWritten
    <3>. QED  BY <3>2, <3>5
  <2>3. ASSUME \A t \in ToolTasks : ~Tool!Writing(t)', memory' # None, server' # None
        PROVE  stock' = memory'.tools
    BY <1>2, <1>4, <2>3 DEF ToolInv
  <2>. QED  BY <2>1, <2>2, <2>3
<1>5. disturbed' \in BOOLEAN /\ disturbed' = disturbed
  BY DEF ToolInv
<1>. QED  BY <1>1, <1>4, <1>5 DEF ToolInv

\* A task takes the tools of the provider: it is the one writer, or disturbed.
LEMMA ToolsTaken ==
  ASSUME ToolInv, NEW t \in ToolTasks, NEW auth, NEW stage \in {"row", "clear"},
         Tool!Take(t, auth), Tool!Go(t, stage), UNCHANGED <<offered, server, stock, left>>
  PROVE  ToolInv'
<1>1. /\ memory' = [tools |-> offered, status |-> "Connected", auth |-> auth]
      /\ taken' = [taken EXCEPT ![t] = offered] /\ tpc' = [tpc EXCEPT ![t] = stage]
      /\ disturbed' = (disturbed \/ \E u \in ToolTasks \ {t} : Tool!Writing(u))
  BY DEF Tool!Take, Tool!Go
<1>2. ToolTypes'
  <2>1. \A u \in ToolTasks : taken'[u] = offered \/ taken'[u] = taken[u]
    BY <1>1 DEF ToolInv, ToolTypes
  <2>2. memory' = [tools |-> memory'.tools, status |-> memory'.status, auth |-> memory'.auth]
    BY <1>1
  <2>3. DOMAIN tpc' = ToolTasks /\ DOMAIN taken' = ToolTasks /\ DOMAIN left' = ToolTasks
    BY <1>1 DEF ToolInv, ToolTypes
  <2>4. IsTools(offered') /\ \A u \in ToolTasks : IsTools(taken'[u])
    BY <2>1 DEF ToolInv, ToolTypes, IsTools
  <2>. QED  BY <2>2, <2>3, <2>4 DEF ToolTypes
<1>3. disturbed' \in BOOLEAN
  BY <1>1
<1>4. ASSUME ~disturbed'
      PROVE  /\ OneWriter'
             /\ \A u \in ToolTasks : WritesMemory(u)' /\ HalfWritten(u)'
             /\ ~(\A u \in ToolTasks : ~Tool!Writing(u)')
  <2>1. \A u \in ToolTasks \ {t} : ~Tool!Writing(u) /\ tpc'[u] = tpc[u]
    BY <1>1, <1>4 DEF ToolInv, ToolTypes
  <2>2. tpc'[t] = stage /\ taken'[t] = offered
    BY <1>1 DEF ToolInv, ToolTypes
  <2>3. \A u \in ToolTasks \ {t} : tpc'[u] \notin {"row", "clear", "write"}
    BY <2>1 DEF Tool!Writing
  <2>. QED
    BY <1>1, <2>2, <2>3 DEF OneWriter, WritesMemory, HalfWritten, Tool!Writing
<1>. QED  BY <1>2, <1>3, <1>4 DEF ToolInv

\* The steps of a writer.
LEMMA ToolsWritten ==
  ASSUME ToolInv, NEW t \in ToolTasks, disturbed' = disturbed,
         Tool!InsertRow(t) \/ Tool!ClearTools(t) \/ Tool!WriteTool(t)
  PROVE  ToolInv'
<1>0. ToolTypes
  BY DEF ToolInv
<1>1. /\ UNCHANGED <<offered, memory, taken>> /\ Tool!Writing(t)
      /\ DOMAIN tpc' = ToolTasks /\ DOMAIN left' = ToolTasks
      /\ \A u \in ToolTasks \ {t} : tpc'[u] = tpc[u] /\ left'[u] = left[u]
  BY <1>0 DEF Tool!InsertRow, Tool!ClearTools, Tool!WriteTool, Tool!Go, Tool!At, Tool!Writing, ToolTypes
<1>2. ToolTypes'
  BY <1>0, <1>1 DEF ToolTypes
<1>3. ASSUME ~disturbed
      PROVE  /\ OneWriter'
             /\ \A u \in ToolTasks : WritesMemory(u)' /\ HalfWritten(u)'
             /\ (\A u \in ToolTasks : ~Tool!Writing(u)') /\ memory' # None /\ server' # None
                     => stock' = memory'.tools
  <2>1. \A u \in ToolTasks \ {t} : ~Tool!Writing(u)
    BY <1>1, <1>3 DEF ToolInv, OneWriter
  <2>2. \A u \in ToolTasks \ {t} : tpc'[u] \notin {"row", "clear", "write"}
    BY <1>1, <2>1 DEF Tool!Writing
  <2>3. memory # None => taken[t] = memory.tools
    BY <1>1, <1>3 DEF ToolInv, WritesMemory
  <2>4. OneWriter' /\ \A u \in ToolTasks : WritesMemory(u)'
    BY <1>1, <2>2, <2>3 DEF OneWriter, WritesMemory, Tool!Writing
  <2>5. \A u \in ToolTasks \ {t} : HalfWritten(u)'
    BY <2>2 DEF HalfWritten
  <2>6. HalfWritten(t)' /\ (~Tool!Writing(t)' /\ memory' # None /\ server' # None
                                => stock' = memory'.tools)
    <3>1. CASE Tool!InsertRow(t)
      <4>1. tpc'[t] = "clear"
        BY <1>0, <3>1 DEF Tool!InsertRow, Tool!Go, ToolTypes
      <4>. QED  BY <4>1 DEF HalfWritten, Tool!Writing
    <3>2. CASE Tool!ClearTools(t)
      <4>1. /\ stock' = <<>> /\ left'[t] = DOMAIN taken[t]
            /\ tpc'[t] = IF DOMAIN taken[t] = {} THEN Tool!After(t) ELSE "write"
        BY <1>0, <3>2 DEF Tool!ClearTools, Tool!NoTools, Tool!Go, ToolTypes
      <4>2. Tool!After(t) \notin {"row", "clear", "write"}
        BY DEF Tool!After
      <4>3. HalfWritten(t)'
        BY <1>1, <4>1, <4>2 DEF HalfWritten, Half
      <4>4. ASSUME DOMAIN taken[t] = {}
            PROVE  taken[t] = <<>>
        BY <1>0, <4>4, EmptyTools DEF ToolTypes
      <4>. QED  BY <1>1, <2>3, <4>1, <4>2, <4>3, <4>4 DEF Tool!Writing
    <3>3. CASE Tool!WriteTool(t)
      <4>1. tpc[t] = "write" /\ server # None /\ server' = server
        BY <3>3 DEF Tool!WriteTool, Tool!At
      <4>2. left[t] \subseteq DOMAIN taken[t] /\ stock = Half(t)
        BY <1>3, <4>1 DEF ToolInv, HalfWritten
      <4>3. PICK n \in left[t] : /\ stock' = Tool!With(stock, n, taken[t][n])
                                 /\ left' = [left EXCEPT ![t] = @ \ {n}]
        BY <3>3 DEF Tool!WriteTool
      <4>4. left'[t] = left[t] \ {n}
        BY <1>0, <4>3 DEF ToolTypes
      <4>5. stock' = [m \in DOMAIN taken[t] \ left'[t] |-> taken[t][m]]
        <5>1. DOMAIN stock = DOMAIN taken[t] \ left[t]
          BY <4>2 DEF Half
        <5>2. DOMAIN stock \cup {n} = DOMAIN taken[t] \ left'[t]
          BY <4>2, <4>4, <5>1
        <5>3. \A m \in DOMAIN stock : stock[m] = taken[t][m]
          BY <4>2, <5>1 DEF Half
        <5>. QED  BY <4>3, <5>2, <5>3 DEF Tool!With
      <4>6. tpc'[t] = IF left'[t] = {} THEN Tool!After(t) ELSE "write"
        BY <1>0, <3>3 DEF Tool!WriteTool, Tool!Go, ToolTypes
      <4>7. Tool!After(t) \notin {"row", "clear", "write"}
        BY DEF Tool!After
      <4>8. HalfWritten(t)'
        BY <1>1, <4>2, <4>4, <4>5 DEF HalfWritten, Half
      <4>9. left'[t] = {} => stock' = taken[t]
        BY <1>0, <4>5 DEF ToolTypes, IsTools
      <4>. QED  BY <1>1, <2>3, <4>6, <4>7, <4>8, <4>9 DEF Tool!Writing
    <3>. QED  BY <3>1, <3>2, <3>3
  <2>. QED  BY <2>4, <2>5, <2>6
<1>. QED  BY <1>2, <1>3 DEF ToolInv

\* What drops a writer says so.
LEMMA ToolsDropped ==
  ASSUME ToolInv, disturbed' \in BOOLEAN, disturbed', UNCHANGED <<offered, taken>>,
         DOMAIN tpc' = ToolTasks, DOMAIN left' = ToolTasks,
         memory' # None =>
            memory' = [tools |-> memory'.tools, status |-> memory'.status, auth |-> memory'.auth]
  PROVE  ToolInv'
BY DEF ToolInv, ToolTypes

LEMMA ToolsKeepInv ==
  ASSUME ToolInv, Tool!OffersAssumption, [Tool!Next]_(Tool!vars)
  PROVE  ToolInv'
<1>0. ToolTypes
  BY DEF ToolInv
<1>. DEFINE Stays(t) == /\ UNCHANGED <<offered, taken, left, disturbed>>
                        /\ DOMAIN tpc' = ToolTasks
                        /\ \A u \in ToolTasks \ {t} : tpc'[u] = tpc[u]
                        /\ ~Tool!Writing(t) /\ ~Tool!Writing(t)'
<1>1. ASSUME NEW t \in ToolTasks, Stays(t), memory' = memory, server' # None => server # None /\ stock' = stock
      PROVE  ToolInv'
  <2>1. \A u \in ToolTasks : tpc'[u] = tpc[u] \/ (~Tool!Writing(u) /\ ~Tool!Writing(u)')
    BY <1>1
  <2>2. /\ UNCHANGED <<taken, left, disturbed>> /\ IsTools(offered') /\ DOMAIN tpc' = ToolTasks
        /\ memory' # None => memory # None /\ memory'.tools = memory.tools
        /\ memory' # None => memory' = [tools |-> memory'.tools, status |-> memory'.status, auth |-> memory'.auth]
    BY <1>0, <1>1 DEF ToolTypes
  <2>. HIDE DEF Stays
  <2>. QED  BY <1>1, <2>1, <2>2, ToolsRest
<1>2. ASSUME NEW t \in ToolTasks, Tool!Register(t)
      PROVE  ToolInv'
  <2>1. CASE \E auth : Tool!Take(t, auth) /\ Tool!Go(t, "row")
    BY <1>2, <2>1, ToolsTaken DEF Tool!Register
  <2>2. CASE Tool!Go(t, "over") /\ UNCHANGED <<memory, taken, disturbed>>
    BY <1>0, <1>1, <1>2, <2>2
       DEF Tool!Register, Tool!At, Tool!Go, Tool!Writing, ToolTypes
  <2>. QED  BY <1>2, <2>1, <2>2 DEF Tool!Register
<1>3. ASSUME NEW t \in ToolTasks, Tool!Connect(t)
      PROVE  ToolInv'
  <2>1. CASE \E auth : Tool!Take(t, auth) /\ Tool!Go(t, "row")
    BY <1>3, <2>1, ToolsTaken DEF Tool!Connect
  <2>2. CASE Tool!Go(t, "over") /\ UNCHANGED <<memory, taken, disturbed>>
    BY <1>0, <1>1, <1>3, <2>2 DEF Tool!Connect, Tool!Go, Tool!Writing, ToolTypes
  <2>. QED  BY <1>3, <2>1, <2>2 DEF Tool!Connect
<1>4. ASSUME NEW t \in ToolTasks,
             Tool!Discover(t) \/ Tool!Check(t) \/ Tool!List(t) \/ Tool!ListMemory(t)
      PROVE  ToolInv'
  <2>1. /\ UNCHANGED <<offered, taken, left, disturbed, memory, server, stock>>
        /\ ~Tool!Writing(t)
        /\ \E stage : Tool!Go(t, stage) /\ stage \notin {"row", "clear", "write"}
    BY <1>4 DEF Tool!Discover, Tool!Check, Tool!List, Tool!ListMemory, Tool!At, Tool!Writing
  <2>2. Stays(t)
    BY <1>0, <2>1 DEF Tool!Go, Tool!Writing, ToolTypes
  <2>. QED  BY <1>1, <2>1, <2>2
<1>5. ASSUME NEW t \in ToolTasks, Tool!UpdateStatus(t) \/ Tool!DeleteRow(t)
      PROVE  ToolInv'
  <2>1. /\ UNCHANGED <<offered, taken, left, disturbed, memory>> /\ ~Tool!Writing(t)
        /\ Tool!Go(t, "over") /\ (server' # None => server # None /\ stock' = stock)
    BY <1>5 DEF Tool!UpdateStatus, Tool!DeleteRow, Tool!At, Tool!Writing
  <2>2. Stays(t)
    BY <1>0, <2>1 DEF Tool!Go, Tool!Writing, ToolTypes
  <2>. QED  BY <1>1, <2>1, <2>2
<1>6. ASSUME NEW t \in ToolTasks, Tool!InsertRow(t) \/ Tool!ClearTools(t) \/ Tool!WriteTool(t)
      PROVE  ToolInv'
  BY <1>6, ToolsWritten DEF Tool!InsertRow, Tool!ClearTools, Tool!WriteTool
<1>7. ASSUME NEW t \in ToolTasks, Tool!WritingFails(t)
      PROVE  ToolInv'
  BY <1>0, <1>7, ToolsDropped DEF Tool!WritingFails, Tool!Go, ToolTypes
<1>8. ASSUME NEW t \in ToolTasks, Tool!Refresh(t) \/ Tool!Unregister(t)
      PROVE  ToolInv'
  <2>0. ~Tool!Writing(t)
    BY <1>8 DEF Tool!Refresh, Tool!Unregister, Tool!At, Tool!Writing
  <2>1. CASE \E auth : Tool!Take(t, auth) /\ Tool!Go(t, "clear")
    BY <1>8, <2>0, <2>1, ToolsTaken DEF Tool!Refresh, Tool!Unregister
  <2>2. CASE /\ memory' = IF memory = None THEN None ELSE [memory EXCEPT !.status = "Error"]
             /\ Tool!Go(t, "over") /\ UNCHANGED <<taken, disturbed>> /\ Tool!Refresh(t)
    <3>1. /\ UNCHANGED <<offered, server, stock, left, taken, disturbed>>
          /\ tpc' = [tpc EXCEPT ![t] = "over"]
      BY <2>2 DEF Tool!Refresh, Tool!Go
    <3>2. memory' # None =>
            /\ memory # None /\ memory'.tools = memory.tools
            /\ memory' = [tools |-> memory'.tools, status |-> memory'.status, auth |-> memory'.auth]
      BY <1>0, <2>2 DEF ToolTypes
    <3>3. \A u \in ToolTasks : tpc'[u] = tpc[u] \/ (~Tool!Writing(u) /\ ~Tool!Writing(u)')
      BY <1>0, <2>0, <3>1 DEF Tool!Writing, ToolTypes
    <3>4. DOMAIN tpc' = ToolTasks /\ IsTools(offered')
      BY <1>0, <3>1 DEF ToolTypes
    <3>. QED  BY <3>1, <3>2, <3>3, <3>4, ToolsRest
  <2>3. CASE memory' = None /\ Tool!Unregister(t)
    <3>1. /\ UNCHANGED <<offered, server, stock, left, taken, disturbed>>
          /\ tpc' = [tpc EXCEPT ![t] = "deleting"]
      BY <2>3 DEF Tool!Unregister, Tool!Go
    <3>2. \A u \in ToolTasks : tpc'[u] = tpc[u] \/ (~Tool!Writing(u) /\ ~Tool!Writing(u)')
      BY <1>0, <2>0, <3>1 DEF Tool!Writing, ToolTypes
    <3>3. DOMAIN tpc' = ToolTasks /\ IsTools(offered')
      BY <1>0, <3>1 DEF ToolTypes
    <3>. QED  BY <2>3, <3>1, <3>2, <3>3, ToolsRest
  <2>. QED  BY <1>8, <2>1, <2>2, <2>3 DEF Tool!Refresh, Tool!Unregister
<1>9. ASSUME NEW t \in ToolTasks, Tool!Drop(t)
      PROVE  ToolInv'
  <2>1. /\ UNCHANGED <<offered, taken, left, memory, server, stock>>
        /\ tpc' = [tpc EXCEPT ![t] = "over"] /\ disturbed' = (disturbed \/ Tool!Writing(t))
    BY <1>9 DEF Tool!Drop, Tool!Go
  <2>2. CASE Tool!Writing(t)
    <3>1. disturbed' \in BOOLEAN /\ disturbed'
      BY <2>1, <2>2
    <3>2. /\ DOMAIN tpc' = ToolTasks /\ DOMAIN left' = ToolTasks
          /\ memory' # None =>
                memory' = [tools |-> memory'.tools, status |-> memory'.status, auth |-> memory'.auth]
      BY <1>0, <2>1 DEF ToolTypes
    <3>. QED  BY <2>1, <3>1, <3>2, ToolsDropped
  <2>3. CASE ~Tool!Writing(t)
    <3>1. disturbed' = disturbed
      BY <2>1, <2>3 DEF ToolInv
    <3>2. Stays(t)
      BY <1>0, <2>1, <2>3, <3>1 DEF Tool!Writing, ToolTypes
    <3>. QED  BY <1>1, <2>1, <3>2
  <2>. QED  BY <2>2, <2>3
<1>10. ASSUME Tool!Change
       PROVE  ToolInv'
  <2>1. /\ UNCHANGED <<memory, server, stock, tpc, taken, left, disturbed>> /\ offered' \in Offers
    BY <1>10 DEF Tool!Change
  <2>2. IsTools(offered')
    BY <2>1 DEF Tool!OffersAssumption, IsTools
  <2>. QED  BY <1>0, <2>1, <2>2, ToolsRest DEF ToolTypes
<1>11. ASSUME Tool!Restart
       PROVE  ToolInv'
  <2>1. /\ UNCHANGED <<offered, server, stock, taken, left>>
        /\ tpc' = [t \in ToolTasks |-> IF tpc[t] = "start" THEN "start" ELSE "over"]
        /\ disturbed' = \/ disturbed
                        \/ \E t \in ToolTasks : Tool!Writing(t)
                        \/ memory' # None /\ memory'.tools # stock
    BY <1>11 DEF Tool!Restart, Tool!At
  <2>2. memory' # None =>
            memory' = [tools |-> memory'.tools, status |-> memory'.status, auth |-> memory'.auth]
    BY <1>11 DEF Tool!Restart, Tool!Persisted
  <2>3. \A t \in ToolTasks : tpc'[t] \notin {"row", "clear", "write"}
    BY <2>1
  <2>4. ToolTypes' /\ disturbed' \in BOOLEAN
    BY <1>0, <2>1, <2>2 DEF ToolTypes
  <2>5. disturbed' \/ memory' = None \/ memory'.tools = stock'
    BY <2>1
  <2>. QED
    BY <2>3, <2>4, <2>5 DEF ToolInv, OneWriter, WritesMemory, HalfWritten, Tool!Writing
<1>12. CASE UNCHANGED Tool!vars
  <2>1. UNCHANGED <<offered, memory, server, stock, tpc, taken, left, disturbed>>
    BY <1>12 DEF Tool!vars
  <2>. QED  BY <1>0, <2>1, ToolsRest DEF ToolTypes
<1>. QED
  BY <1>2, <1>3, <1>4, <1>5, <1>6, <1>7, <1>8, <1>9, <1>10, <1>11, <1>12 DEF Tool!Next

\* When no writing is under way and none was disturbed, the table has the tools
\* that the registry has.
THEOREM ToolsOfMemoryKept ==
  ASSUME Tool!OffersAssumption
  PROVE  Tool!Spec => []Tool!ToolsKept
<1>1. Tool!Init => ToolInv
  <2>. SUFFICES ASSUME Tool!Init PROVE ToolInv
    OBVIOUS
  <2>1. ToolTypes
    BY DEF Tool!Init, ToolTypes, IsTools, Tool!NoTools, Tool!OffersAssumption
  <2>2. \A t \in ToolTasks : tpc[t] = "start"
    BY DEF Tool!Init
  <2>3. memory # None => stock = memory.tools
    BY DEF Tool!Init
  <2>4. disturbed = FALSE
    BY DEF Tool!Init
  <2>. QED
    BY <2>1, <2>2, <2>3, <2>4 DEF ToolInv, OneWriter, WritesMemory, HalfWritten, Tool!Writing
<1>2. ToolInv /\ [Tool!Next]_(Tool!vars) => ToolInv'
  BY ToolsKeepInv
<1>3. ToolInv => Tool!ToolsKept
  BY DEF ToolInv, Tool!ToolsKept
<1>. QED  BY <1>1, <1>2, <1>3, PTL DEF Tool!Spec

-----------------------------------------------------------------------------
\* Logins (JwksCache)

CONSTANTS Logins, SigningKeys, Ttl, ReplyDelay, LoginClock

VARIABLES clock, published, withdrawn, jwksCache, key, good, ipc, jwks,
          attempt, due, hindered

Login == INSTANCE JwksCache WITH
    Keys <- SigningKeys, Delay <- ReplyDelay, MaxClock <- LoginClock,
    cache <- jwksCache, pc <- ipc

\* Logins: one that nothing has hindered has its key published, and in hand
\* when it was fetched for it; keys in hand, on their way or in the cache come
\* from a time when they were published.

LoginTypes ==
    /\ clock \in Nat /\ published \subseteq SigningKeys /\ good \subseteq Logins
    /\ DOMAIN withdrawn = SigningKeys /\ key \in [Logins -> SigningKeys]
    /\ \A k \in SigningKeys : withdrawn[k] # None => withdrawn[k] \in Nat /\ k \notin published
    /\ DOMAIN ipc = Logins /\ DOMAIN jwks = Logins /\ DOMAIN attempt = Logins /\ DOMAIN due = Logins
    /\ \A i \in Logins : ipc[i] = "arriving" => due[i] \in Nat
    /\ jwksCache # None => jwksCache.fetched \in Nat

\* What a login has done so far that its key must have been there for.
KeySeen(i) ==
    i \notin hindered =>
        /\ ipc[i] # "new" => key[i] \in published
        /\ ipc[i] = "arriving" \/ (ipc[i] = "verify" /\ attempt[i] # 1) => key[i] \in jwks[i]
        /\ i \in good => ipc[i] # "rejected"

KeysInTime(i) ==
    /\ ipc[i] = "arriving" => clock <= due[i] /\ due[i] <= clock + ReplyDelay
    /\ \A k \in SigningKeys : withdrawn[k] # None /\ k \in jwks[i] =>
          /\ ipc[i] = "arriving" => due[i] <= withdrawn[k] + ReplyDelay
          /\ ipc[i] = "verify" => clock < withdrawn[k] + ReplyDelay + Ttl

CacheInTime ==
    jwksCache # None =>
        /\ jwksCache.fetched <= clock
        /\ \A k \in SigningKeys : withdrawn[k] # None /\ k \in jwksCache.jwks =>
              jwksCache.fetched <= withdrawn[k] + ReplyDelay

LoginInv ==
    /\ LoginTypes
    /\ \A i \in Logins : KeySeen(i) /\ KeysInTime(i)
    /\ CacheInTime

\* A login goes to its next stage.
LEMMA Gone ==
  ASSUME LoginTypes, NEW i \in Logins, NEW stage, NEW n, NEW ks, NEW t, Login!Go(i, stage, n, ks, t)
  PROVE  /\ DOMAIN ipc' = Logins /\ DOMAIN jwks' = Logins /\ DOMAIN attempt' = Logins /\ DOMAIN due' = Logins
         /\ ipc'[i] = stage /\ attempt'[i] = n /\ jwks'[i] = ks /\ due'[i] = t
         /\ \A j \in Logins \ {i} : /\ ipc'[j] = ipc[j] /\ attempt'[j] = attempt[j]
                                    /\ jwks'[j] = jwks[j] /\ due'[j] = due[j]
  BY DEF LoginTypes, Login!Go

\* A step of one login: the others are as before.
LEMMA OneLogin ==
  ASSUME LoginInv, Login!ConstantsAssumption, NEW i \in Logins,
         NEW stage, NEW n, NEW ks, NEW t, Login!Go(i, stage, n, ks, t),
         UNCHANGED <<clock, published, withdrawn, key, good>>,
         hindered \subseteq hindered',
         stage = "arriving" => t \in Nat,
         jwksCache' # None => jwksCache'.fetched \in Nat,
         KeySeen(i)', KeysInTime(i)', CacheInTime'
  PROVE  LoginInv'
<1>0. LoginTypes
  BY DEF LoginInv
<1>1. /\ DOMAIN ipc' = Logins /\ DOMAIN jwks' = Logins /\ DOMAIN attempt' = Logins /\ DOMAIN due' = Logins
      /\ ipc'[i] = stage /\ attempt'[i] = n /\ jwks'[i] = ks /\ due'[i] = t
      /\ \A j \in Logins \ {i} : /\ ipc'[j] = ipc[j] /\ attempt'[j] = attempt[j]
                                 /\ jwks'[j] = jwks[j] /\ due'[j] = due[j]
  BY <1>0, Gone
<1>2. LoginTypes'
  BY <1>0, <1>1 DEF LoginTypes
<1>3. \A j \in Logins \ {i} : KeySeen(j)' /\ KeysInTime(j)'
  <2>1. ASSUME NEW j \in Logins \ {i}  PROVE KeySeen(j)'
    <3>1. KeySeen(j)
      BY DEF LoginInv
    <3>. QED  BY <1>1, <2>1, <3>1 DEF KeySeen
  <2>2. ASSUME NEW j \in Logins \ {i}  PROVE KeysInTime(j)'
    <3>1. KeysInTime(j)
      BY DEF LoginInv
    <3>. QED  BY <1>1, <2>2, <3>1 DEF KeysInTime
  <2>. QED  BY <2>1, <2>2
<1>. QED  BY <1>2, <1>3 DEF LoginInv

\* A login that has no keys, whatever becomes of it, is in order if it was not
\* rejected without reason.
LEMMA EmptyHanded ==
  ASSUME NEW i, NEW stage, ipc'[i] = stage, jwks'[i] = {}, stage \notin {"arriving", "verify"},
         i \notin hindered' => key'[i] \in published' /\ (i \in good' => stage # "rejected")
  PROVE  KeySeen(i)' /\ KeysInTime(i)'
  BY DEF KeySeen, KeysInTime

LEMMA CacheKept ==
  ASSUME LoginInv, UNCHANGED <<clock, withdrawn, jwksCache>>
  PROVE  CacheInTime' /\ (jwksCache' # None => jwksCache'.fetched \in Nat)
  BY DEF LoginInv, LoginTypes, CacheInTime

LEMMA LoginStepKeepsInv ==
  ASSUME LoginInv, Login!ConstantsAssumption, NEW i \in Logins,
         \/ Login!Present(i) \/ Login!LookUp(i) \/ Login!Serve(i) \/ Login!Arrive(i)
         \/ Login!Fail(i) \/ Login!Verify(i)
  PROVE  LoginInv'
<1>0. LoginTypes /\ KeySeen(i) /\ KeysInTime(i) /\ CacheInTime /\ ReplyDelay \in Nat /\ Ttl \in Nat /\ Ttl > 0
  BY DEF LoginInv, Login!ConstantsAssumption
<1>1. UNCHANGED <<clock, published, withdrawn, key, good>> /\ hindered \subseteq hindered'
  BY DEF Login!Present, Login!LookUp, Login!Serve, Login!Arrive, Login!Fail, Login!Verify,
         Login!idp, Login!jwt
<1>2. CASE Login!Present(i)
  <2>1. /\ ipc[i] = "new" /\ Login!Go(i, "lookup", 1, {}, 0) /\ UNCHANGED jwksCache
        /\ key[i] \notin published => i \in hindered'
    BY <1>2 DEF Login!Present
  <2>2. ipc'[i] = "lookup" /\ jwks'[i] = {}
    BY <1>0, <2>1, Gone
  <2>3. KeySeen(i)' /\ KeysInTime(i)'
    BY <1>1, <2>1, <2>2, EmptyHanded
  <2>. QED  BY <1>1, <2>1, <2>3, CacheKept, OneLogin
<1>3. CASE Login!LookUp(i) /\ ~Login!Fresh
  <2>1. /\ ipc[i] = "lookup" /\ Login!Go(i, "fetch", 1, {}, 0) /\ UNCHANGED <<jwksCache, hindered>>
    BY <1>3 DEF Login!LookUp
  <2>2. ipc'[i] = "fetch" /\ jwks'[i] = {}
    BY <1>0, <2>1, Gone
  <2>3. KeySeen(i)' /\ KeysInTime(i)'
    BY <1>0, <1>1, <2>1, <2>2, EmptyHanded DEF KeySeen
  <2>. QED  BY <1>1, <2>1, <2>3, CacheKept, OneLogin
<1>4. CASE Login!LookUp(i) /\ Login!Fresh
  <2>1. /\ ipc[i] = "lookup" /\ Login!Go(i, "verify", 1, jwksCache.jwks, 0) /\ UNCHANGED <<jwksCache, hindered>>
        /\ jwksCache # None /\ clock - jwksCache.fetched < Ttl
    BY <1>4 DEF Login!LookUp, Login!Fresh
  <2>2. ipc'[i] = "verify" /\ jwks'[i] = jwksCache.jwks /\ attempt'[i] = 1
    BY <1>0, <2>1, Gone
  <2>3. KeySeen(i)'
    BY <1>0, <1>1, <2>1, <2>2 DEF KeySeen
  <2>4. KeysInTime(i)'
    <3>1. ASSUME NEW k \in SigningKeys, withdrawn[k] # None, k \in jwksCache.jwks
          PROVE  clock < withdrawn[k] + ReplyDelay + Ttl
      <4>1. /\ jwksCache.fetched <= withdrawn[k] + ReplyDelay /\ jwksCache.fetched \in Nat
            /\ withdrawn[k] \in Nat /\ clock \in Nat
        BY <1>0, <2>1, <3>1 DEF CacheInTime, LoginTypes
      <4>. QED  BY <1>0, <2>1, <4>1
    <3>. QED  BY <1>1, <2>2, <3>1 DEF KeysInTime
  <2>. QED  BY <1>1, <2>1, <2>3, <2>4, CacheKept, OneLogin
<1>5. CASE Login!Serve(i)
  <2>1. /\ ipc[i] = "fetch" /\ Login!Go(i, "arriving", attempt[i], published, clock + ReplyDelay)
        /\ UNCHANGED <<jwksCache, hindered>>
    BY <1>5 DEF Login!Serve
  <2>2. ipc'[i] = "arriving" /\ jwks'[i] = published /\ due'[i] = clock + ReplyDelay
    BY <1>0, <2>1, Gone
  <2>3. KeySeen(i)'
    BY <1>0, <1>1, <2>1, <2>2 DEF KeySeen
  <2>4. KeysInTime(i)'
    BY <1>0, <1>1, <2>2 DEF KeysInTime, LoginTypes
  <2>5. clock + ReplyDelay \in Nat
    BY <1>0 DEF LoginTypes
  <2>. QED  BY <1>1, <2>1, <2>3, <2>4, <2>5, CacheKept, OneLogin
<1>6. CASE Login!Arrive(i)
  <2>1. /\ ipc[i] = "arriving" /\ Login!Go(i, "verify", attempt[i], jwks[i], 0)
        /\ jwksCache' = [jwks |-> jwks[i], fetched |-> clock] /\ UNCHANGED hindered
    BY <1>6 DEF Login!Arrive
  <2>2. ipc'[i] = "verify" /\ jwks'[i] = jwks[i] /\ attempt'[i] = attempt[i]
    BY <1>0, <2>1, Gone
  <2>3. KeySeen(i)'
    BY <1>0, <1>1, <2>1, <2>2 DEF KeySeen
  <2>4. \A k \in SigningKeys : withdrawn[k] # None /\ k \in jwks[i] => clock <= withdrawn[k] + ReplyDelay
    <3>1. ASSUME NEW k \in SigningKeys, withdrawn[k] # None, k \in jwks[i]
          PROVE  clock <= withdrawn[k] + ReplyDelay
      <4>1. clock <= due[i] /\ due[i] <= withdrawn[k] + ReplyDelay
        BY <1>0, <2>1, <3>1 DEF KeysInTime
      <4>2. clock \in Nat /\ due[i] \in Nat /\ withdrawn[k] \in Nat
        BY <1>0, <2>1, <3>1 DEF LoginTypes
      <4>. QED  BY <1>0, <4>1, <4>2
    <3>. QED  BY <3>1
  <2>5. KeysInTime(i)'
    BY <1>0, <1>1, <2>2, <2>4 DEF KeysInTime, LoginTypes
  <2>6. CacheInTime' /\ (jwksCache' # None => jwksCache'.fetched \in Nat)
    BY <1>0, <1>1, <2>1, <2>4 DEF CacheInTime, LoginTypes
  <2>. QED  BY <1>1, <2>1, <2>3, <2>5, <2>6, OneLogin
<1>7. CASE Login!Fail(i)
  <2>1. Login!Go(i, "rejected", 1, {}, 0) /\ UNCHANGED jwksCache /\ i \in hindered'
    BY <1>7 DEF Login!Fail, Login!End
  <2>2. ipc'[i] = "rejected" /\ jwks'[i] = {}
    BY <1>0, <2>1, Gone
  <2>3. KeySeen(i)' /\ KeysInTime(i)'
    BY <2>1, <2>2, EmptyHanded
  <2>. QED  BY <1>1, <2>1, <2>3, CacheKept, OneLogin
<1>8. CASE Login!Verify(i)
  <2>1. PICK stage, n : stage \in {"accepted", "fetch", "rejected"} /\ Login!Go(i, stage, n, {}, 0)
    BY <1>8 DEF Login!Verify, Login!End
  <2>2. ipc'[i] = stage /\ jwks'[i] = {} /\ ipc[i] = "verify" /\ UNCHANGED hindered
    BY <1>0, <1>8, <2>1, Gone DEF Login!Verify
  <2>3. stage = "rejected" => ~Login!Verifies(i) /\ attempt[i] # 1
    <3>1. \/ Login!Verifies(i) /\ ipc'[i] = "accepted"
          \/ Login!Retry(i) /\ ipc'[i] = "fetch"
          \/ ~Login!Verifies(i) /\ ~Login!Retry(i)
      <4>1. Login!Verifies(i) => Login!Go(i, "accepted", 1, {}, 0)
        BY <1>8 DEF Login!Verify, Login!End
      <4>2. ~Login!Verifies(i) /\ Login!Retry(i) => Login!Go(i, "fetch", 2, {}, 0)
        BY <1>8 DEF Login!Verify
      <4>. QED  BY <1>0, <4>1, <4>2, Gone
    <3>. QED  BY <2>2, <3>1 DEF Login!Retry
  <2>4. i \notin hindered => key[i] \in published /\ (i \in good => stage # "rejected")
    BY <1>0, <2>2, <2>3 DEF KeySeen, Login!Verifies
  <2>5. KeySeen(i)' /\ KeysInTime(i)'
    BY <1>1, <2>1, <2>2, <2>4, EmptyHanded
  <2>6. jwksCache' \in {jwksCache, None}
    BY <1>8 DEF Login!Verify
  <2>7. CacheInTime' /\ (jwksCache' # None => jwksCache'.fetched \in Nat)
    <3>1. CASE jwksCache' = None
      BY <3>1 DEF CacheInTime
    <3>2. CASE jwksCache' = jwksCache
      BY <1>1, <3>2, CacheKept
    <3>. QED  BY <2>6, <3>1, <3>2
  <2>8. stage # "arriving"
    BY <2>1
  <2>. QED  BY <1>1, <2>1, <2>5, <2>7, <2>8, OneLogin
<1>. QED  BY <1>2, <1>3, <1>4, <1>5, <1>6, <1>7, <1>8

\* The provider rotates its keys, and time passes.
LEMMA RotationKeepsInv ==
  ASSUME LoginInv, Login!ConstantsAssumption,
         Login!Tick \/ (\E k \in SigningKeys : Login!Publish(k) \/ Login!Withdraw(k))
  PROVE  LoginInv'
<1>0. LoginTypes /\ CacheInTime /\ ReplyDelay \in Nat /\ Ttl \in Nat /\ Ttl > 0
  BY DEF LoginInv, Login!ConstantsAssumption
<1>1. UNCHANGED <<jwksCache, key, good, ipc, jwks, attempt, due>> /\ hindered \subseteq hindered'
  BY DEF Login!Tick, Login!Publish, Login!Withdraw, Login!idp, Login!jwt
<1>2. CASE Login!Tick
  <2>1. /\ clock' = clock + 1 /\ UNCHANGED <<published, withdrawn, hindered>>
        /\ \A i \in Logins : ipc[i] # "verify" /\ (ipc[i] = "arriving" => clock < due[i])
    BY <1>2 DEF Login!Tick, Login!idp
  <2>2. LoginTypes'
    BY <1>0, <1>1, <2>1 DEF LoginTypes
  <2>3. \A i \in Logins : KeySeen(i)'
    BY <1>1, <2>1 DEF LoginInv, KeySeen
  <2>4. ASSUME NEW i \in Logins  PROVE KeysInTime(i)'
    <3>1. KeysInTime(i) /\ clock \in Nat /\ (ipc[i] = "arriving" => due[i] \in Nat)
      BY <1>0 DEF LoginInv, LoginTypes
    <3>. QED  BY <1>0, <1>1, <2>1, <3>1 DEF KeysInTime
  <2>5. CacheInTime'
    BY <1>0, <1>1, <2>1 DEF CacheInTime, LoginTypes
  <2>. QED  BY <2>2, <2>3, <2>4, <2>5 DEF LoginInv
<1>3. ASSUME NEW k \in SigningKeys, Login!Publish(k)  PROVE LoginInv'
  <2>1. /\ withdrawn[k] = None /\ published' = published \cup {k} /\ UNCHANGED <<clock, withdrawn, hindered>>
    BY <1>3 DEF Login!Publish
  <2>2. LoginTypes'
    BY <1>0, <1>1, <2>1 DEF LoginTypes
  <2>3. \A i \in Logins : KeySeen(i)'
    BY <1>1, <2>1 DEF LoginInv, KeySeen
  <2>4. (\A i \in Logins : KeysInTime(i)') /\ CacheInTime'
    BY <1>1, <2>1 DEF LoginInv, KeysInTime, CacheInTime
  <2>. QED  BY <2>2, <2>3, <2>4 DEF LoginInv
<1>4. ASSUME NEW k \in SigningKeys, Login!Withdraw(k)  PROVE LoginInv'
  <2>1. /\ published' = published \ {k} /\ withdrawn' = [withdrawn EXCEPT ![k] = clock]
        /\ hindered' = hindered \cup {i \in Logins : key[i] = k /\ ipc[i] # "new"} /\ UNCHANGED clock
    BY <1>4 DEF Login!Withdraw
  <2>2. LoginTypes'
    BY <1>0, <1>1, <2>1 DEF LoginTypes
  <2>3. ASSUME NEW i \in Logins  PROVE KeySeen(i)'
    <3>1. KeySeen(i)
      BY DEF LoginInv
    <3>. QED  BY <1>1, <2>1, <3>1 DEF KeySeen
  <2>4. ASSUME NEW i \in Logins  PROVE KeysInTime(i)'
    <3>1. KeysInTime(i) /\ clock \in Nat /\ (ipc[i] = "arriving" => due[i] \in Nat)
      BY <1>0 DEF LoginInv, LoginTypes
    <3>2. ipc'[i] = "arriving" => clock' <= due'[i] /\ due'[i] <= clock' + ReplyDelay
      BY <1>1, <2>1, <3>1 DEF KeysInTime
    <3>3. ASSUME NEW q \in SigningKeys, withdrawn'[q] # None, q \in jwks'[i]
          PROVE  /\ ipc'[i] = "arriving" => due'[i] <= withdrawn'[q] + ReplyDelay
                 /\ ipc'[i] = "verify" => clock' < withdrawn'[q] + ReplyDelay + Ttl
      <4>1. CASE q = k
        <5>1. withdrawn'[q] = clock
          BY <1>0, <2>1, <4>1 DEF LoginTypes
        <5>. QED  BY <1>0, <1>1, <2>1, <3>1, <3>2, <5>1
      <4>2. CASE q # k
        <5>1. withdrawn'[q] = withdrawn[q]
          BY <1>0, <2>1, <4>2 DEF LoginTypes
        <5>. QED  BY <1>1, <2>1, <3>1, <3>3, <5>1 DEF KeysInTime
      <4>. QED  BY <4>1, <4>2
    <3>. QED  BY <3>2, <3>3 DEF KeysInTime
  <2>5. CacheInTime'
    <3>1. SUFFICES ASSUME jwksCache # None
                   PROVE  /\ jwksCache.fetched <= clock
                          /\ \A q \in SigningKeys : withdrawn'[q] # None /\ q \in jwksCache.jwks =>
                                jwksCache.fetched <= withdrawn'[q] + ReplyDelay
      BY <1>1, <2>1 DEF CacheInTime
    <3>2. jwksCache.fetched <= clock /\ jwksCache.fetched \in Nat /\ clock \in Nat
      BY <1>0, <3>1 DEF CacheInTime, LoginTypes
    <3>3. \A q \in SigningKeys : withdrawn'[q] = IF q = k THEN clock ELSE withdrawn[q]
      BY <1>0, <2>1 DEF LoginTypes
    <3>. QED  BY <1>0, <3>1, <3>2, <3>3 DEF CacheInTime
  <2>. QED  BY <2>2, <2>3, <2>4, <2>5 DEF LoginInv
<1>. QED  BY <1>2, <1>3, <1>4

\* A JWT whose key is published throughout is not rejected unless a request
\* fails, and a key is accepted for a bounded time after it was withdrawn
\* (oidc.rs), for any number of logins and keys.
THEOREM KeysFollowed ==
  ASSUME Login!ConstantsAssumption
  PROVE  Login!Spec => Login!LoginsFollowKeys
<1>1. Login!Init => LoginInv
  BY DEF Login!Init, Login!ConstantsAssumption, LoginInv, LoginTypes, KeySeen, KeysInTime, CacheInTime
<1>2. LoginInv /\ [Login!Next]_(Login!vars) => LoginInv'
  <2>1. ASSUME LoginInv, Login!Next  PROVE LoginInv'
    BY <2>1, LoginStepKeepsInv, RotationKeepsInv DEF Login!Next
  <2>2. ASSUME LoginInv, UNCHANGED Login!vars  PROVE LoginInv'
    BY <2>2 DEF Login!vars, Login!idp, Login!jwt, LoginInv, LoginTypes, KeySeen, KeysInTime, CacheInTime
  <2>. QED  BY <2>1, <2>2
<1>3. LoginInv => Login!RotationAccepted
  BY DEF LoginInv, LoginTypes, KeySeen, Login!RotationAccepted
<1>4. LoginInv /\ [Login!Next]_(Login!vars) =>
        [\A i \in Logins :
          ipc[i] # "accepted" /\ ipc'[i] = "accepted" /\ withdrawn[key[i]] # None
              => clock < withdrawn[key[i]] + ReplyDelay + Ttl]_(Login!vars)
  <2>1. SUFFICES ASSUME LoginInv, Login!Next, NEW i \in Logins,
                        ipc[i] # "accepted", ipc'[i] = "accepted", withdrawn[key[i]] # None
                 PROVE  clock < withdrawn[key[i]] + ReplyDelay + Ttl
    OBVIOUS
  <2>0. LoginTypes
    BY <2>1 DEF LoginInv
  <2>2. Login!Verify(i)
    <3>1. PICK j \in Logins : \/ Login!Present(j) \/ Login!LookUp(j) \/ Login!Serve(j) \/ Login!Arrive(j)
                              \/ Login!Fail(j) \/ Login!Verify(j)
      BY <2>1 DEF Login!Next, Login!Publish, Login!Withdraw, Login!Tick
    <3>2. PICK stage, n, ks, t : Login!Go(j, stage, n, ks, t) /\ (stage = "accepted" => Login!Verify(j))
      <4>1. CASE Login!Verify(j)
        BY <4>1 DEF Login!Verify, Login!End
      <4>2. CASE \/ Login!Present(j) \/ Login!LookUp(j) \/ Login!Serve(j) \/ Login!Arrive(j)
                 \/ Login!Fail(j)
        BY <4>2 DEF Login!Present, Login!LookUp, Login!Serve, Login!Arrive, Login!Fail, Login!End
      <4>. QED  BY <3>1, <4>1, <4>2
    <3>3. ipc'[j] = stage /\ \A u \in Logins \ {j} : ipc'[u] = ipc[u]
      BY <2>0, <3>2, Gone
    <3>. QED  BY <2>1, <3>2, <3>3
  <2>3. ipc[i] = "verify" /\ Login!Verifies(i)
    <3>1. ipc[i] = "verify"
      BY <2>2 DEF Login!Verify
    <3>2. ~Login!Verifies(i) => \E stage, n : stage \in {"fetch", "rejected"} /\ Login!Go(i, stage, n, {}, 0)
      BY <2>2 DEF Login!Verify, Login!End
    <3>. QED  BY <2>0, <2>1, <3>1, <3>2, Gone
  <2>4. key[i] \in jwks[i] /\ key[i] \in SigningKeys /\ KeysInTime(i)
    BY <2>0, <2>1, <2>3 DEF Login!Verifies, LoginTypes, LoginInv
  <2>. QED  BY <2>1, <2>3, <2>4 DEF KeysInTime
<1>5. Login!Spec => []LoginInv
  BY <1>1, <1>2, PTL DEF Login!Spec
<1>6. Login!Spec => [][Login!RotationAccepted']_(Login!vars)
  <2>1. LoginInv /\ LoginInv' /\ [Login!Next]_(Login!vars) => [Login!RotationAccepted']_(Login!vars)
    BY <1>3 DEF LoginInv, LoginTypes, KeySeen, Login!RotationAccepted
  <2>. QED  BY <1>5, <2>1, PTL DEF Login!Spec
<1>7. Login!Spec => Login!WithdrawnKeysExpire
  BY <1>4, <1>5, PTL DEF Login!Spec, Login!WithdrawnKeysExpire
<1>. QED  BY <1>6, <1>7 DEF Login!LoginsFollowKeys

-----------------------------------------------------------------------------
\* Experiments (Experiments)

CONSTANTS TrialTasks, TrialWorkloads, Wrap, ListLimit

VARIABLES trials, audits, trial, xpc, looked, verdicts, meddled, overtaken

Trial == INSTANCE Experiments WITH
    Tasks <- TrialTasks, Workloads <- TrialWorkloads,
    rows <- trials, job <- trial, pc <- xpc, read <- looked, answer <- verdicts,
    crossed <- overtaken

\* Experiments: an update that no change has overtaken has read the condition
\* that its experiment has.

IsTrial(r) ==
    /\ r = [name |-> r.name, active |-> r.active, rule |-> r.rule]
    /\ r.rule = [when |-> r.rule.when, experiment |-> r.rule.experiment, weights |-> r.rule.weights]

TrialTypes ==
    /\ DOMAIN xpc = TrialTasks /\ DOMAIN looked = TrialTasks
    /\ \E S : trials \in Seq(S)
    /\ \A i \in DOMAIN trials : IsTrial(trials[i])

Renews(t) ==
    xpc[t] = "write" =>
        /\ trial[t].id \in DOMAIN trials
        /\ t \notin overtaken => looked[t].rule.when = trials[trial[t].id].rule.when

TrialInv == TrialTypes /\ \A t \in TrialTasks : Renews(t)

\* The condition of experiment i is what it was.
ConditionStays(i) == trials'[i].rule.when = trials[i].rule.when

Stopped(i) == ~trials[i].active => ~trials'[i].active

\* A step of t that leaves the experiments, or adds one.
LEMMA TrialsKept ==
  ASSUME TrialInv, NEW t \in TrialTasks, trial' = trial, overtaken' = overtaken,
         DOMAIN xpc' = TrialTasks, DOMAIN looked' = TrialTasks,
         \A u \in TrialTasks \ {t} : xpc'[u] = xpc[u] /\ looked'[u] = looked[u],
         \E S : trials' \in Seq(S), DOMAIN trials \subseteq DOMAIN trials',
         \A i \in DOMAIN trials' : IsTrial(trials'[i]),
         \A i \in DOMAIN trials : ConditionStays(i) /\ Stopped(i),
         Renews(t)'
  PROVE  TrialInv' /\ \A i \in DOMAIN trials : ConditionStays(i) /\ Stopped(i)
<1>1. TrialTypes'
  BY DEF TrialTypes
<1>2. ASSUME NEW u \in TrialTasks \ {t}
      PROVE  Renews(u)'
  <2>1. Renews(u)
    BY DEF TrialInv
  <2>. QED  BY <2>1 DEF Renews, ConditionStays
<1>. QED  BY <1>1, <1>2 DEF TrialInv

LEMMA TrialsKeepInv ==
  ASSUME TrialInv, NEW t \in TrialTasks,
         \/ Trial!Assign(t) \/ Trial!Record(t) \/ Trial!Create(t) \/ Trial!Find(t) \/ Trial!Stop(t)
         \/ Trial!List(t) \/ Trial!Look(t) \/ Trial!Tally(t)
  PROVE  TrialInv' /\ \A i \in DOMAIN trials : ConditionStays(i) /\ Stopped(i)
<1>0. TrialTypes
  BY DEF TrialInv
<1>1. CASE Trial!Create(t)
  <2>1. /\ trial' = trial /\ overtaken' = overtaken /\ looked' = looked
        /\ DOMAIN xpc' = TrialTasks /\ xpc'[t] = "over" /\ \A u \in TrialTasks \ {t} : xpc'[u] = xpc[u]
    BY <1>0, <1>1 DEF Trial!Create, Trial!Answer, Trial!Reply, Trial!Go, TrialTypes
  <2>2. \/ trials' = trials
        \/ trials' = Append(trials, [name |-> trial[t].name, active |-> TRUE,
                                     rule |-> Trial!Rule(trial[t].when, trial[t].name, trial[t].weights)])
    BY <1>1 DEF Trial!Create
  <2>3. IsTrial([name |-> trial[t].name, active |-> TRUE,
                 rule |-> Trial!Rule(trial[t].when, trial[t].name, trial[t].weights)])
    BY DEF IsTrial, Trial!Rule
  <2>4. PICK new : /\ trials' = trials \/ trials' = Append(trials, new)
                   /\ IsTrial(new)
    BY <2>2, <2>3
  <2>5. PICK S : trials \in Seq(S)
    BY <1>0 DEF TrialTypes
  <2>6. trials \in Seq(S \cup {new}) /\ new \in S \cup {new}
    BY <2>5
  <2>7. /\ trials' \in Seq(S \cup {new}) /\ DOMAIN trials \subseteq DOMAIN trials'
        /\ \A i \in DOMAIN trials : trials'[i] = trials[i]
        /\ \A i \in DOMAIN trials' : i \in DOMAIN trials \/ trials'[i] = new
    BY <2>4, <2>6
  <2>8. \A i \in DOMAIN trials' : IsTrial(trials'[i])
    BY <1>0, <2>4, <2>7 DEF TrialTypes
  <2>9. \A i \in DOMAIN trials : ConditionStays(i) /\ Stopped(i)
    BY <2>7 DEF ConditionStays, Stopped
  <2>10. Renews(t)'
    BY <2>1 DEF Renews
  <2>. QED  BY <1>0, <2>1, <2>7, <2>8, <2>9, <2>10, TrialsKept DEF TrialTypes
<1>2. CASE Trial!Stop(t)
  <2>1. /\ trial' = trial /\ overtaken' = overtaken /\ looked' = looked
        /\ DOMAIN xpc' = TrialTasks /\ xpc'[t] = "over" /\ \A u \in TrialTasks \ {t} : xpc'[u] = xpc[u]
    BY <1>0, <1>2 DEF Trial!Stop, Trial!Answer, Trial!Reply, Trial!Go, TrialTypes
  <2>2. PICK S : trials \in Seq(S)
    BY <1>0 DEF TrialTypes
  <2>3. /\ DOMAIN trials' = DOMAIN trials
        /\ \A i \in DOMAIN trials : trials'[i] = trials[i] \/ trials'[i] = [trials[i] EXCEPT !.active = FALSE]
    BY <1>2 DEF Trial!Stop
  <2>4. \A i \in DOMAIN trials : /\ IsTrial(trials'[i]) /\ trials'[i].rule = trials[i].rule
                                 /\ ~trials[i].active => ~trials'[i].active
    BY <1>0, <2>3 DEF TrialTypes, IsTrial
  <2>5. \E T : trials' \in Seq(T)
    <3>. DEFINE T == S \cup {trials'[trial[t].id]}
    <3>1. trials' = trials \/ trials' = [trials EXCEPT ![trial[t].id] = [@ EXCEPT !.active = FALSE]]
      BY <1>2 DEF Trial!Stop
    <3>2. trials \in Seq(T)
      BY <2>2
    <3>3. trials' \in Seq(T)
      BY <2>3, <3>1, <3>2
    <3>. QED  BY <3>3
  <2>6. \A i \in DOMAIN trials : ConditionStays(i) /\ Stopped(i)
    BY <2>4 DEF ConditionStays, Stopped
  <2>7. Renews(t)'
    BY <2>1 DEF Renews
  <2>. QED  BY <1>0, <2>1, <2>3, <2>4, <2>5, <2>6, <2>7, TrialsKept DEF TrialTypes
<1>3. CASE \/ Trial!Assign(t) \/ Trial!Record(t) \/ Trial!Find(t) \/ Trial!List(t) \/ Trial!Look(t)
           \/ Trial!Tally(t)
  <2>1. UNCHANGED <<trials, trial, overtaken>>
    BY <1>3 DEF Trial!Assign, Trial!Record, Trial!Find, Trial!List, Trial!Look, Trial!Tally
  <2>2. \E stage : xpc' = [xpc EXCEPT ![t] = stage]
    BY <1>3 DEF Trial!Assign, Trial!Record, Trial!Find, Trial!List, Trial!Look, Trial!Tally,
                Trial!Answer, Trial!Reply, Trial!Go
  <2>3. looked' = looked \/ \E r : looked' = [looked EXCEPT ![t] = r]
    BY <1>3 DEF Trial!Assign, Trial!Record, Trial!Find, Trial!List, Trial!Look, Trial!Tally
  <2>4. /\ DOMAIN xpc' = TrialTasks /\ DOMAIN looked' = TrialTasks
        /\ \A u \in TrialTasks \ {t} : xpc'[u] = xpc[u] /\ looked'[u] = looked[u]
    BY <1>0, <2>2, <2>3 DEF TrialTypes
  <2>5. \A i \in DOMAIN trials : ConditionStays(i) /\ Stopped(i)
    BY <2>1 DEF ConditionStays, Stopped
  <2>6. Renews(t)'
    <3>1. CASE Trial!Find(t)
      <4>1. xpc'[t] = "write" => /\ trial[t].id \in DOMAIN trials /\ looked'[t] = trials[trial[t].id]
        BY <1>0, <3>1
           DEF Trial!Find, Trial!Listed, Trial!Answer, Trial!Reply, Trial!Go, TrialTypes
      <4>. QED  BY <2>1, <4>1 DEF Renews
    <3>2. CASE ~Trial!Find(t)
      <4>1. xpc'[t] # "write"
        BY <1>0, <1>3, <3>2
           DEF Trial!Assign, Trial!Record, Trial!List, Trial!Look, Trial!Tally,
               Trial!Answer, Trial!Reply, Trial!Go, TrialTypes
      <4>. QED  BY <4>1 DEF Renews
    <3>. QED  BY <3>1, <3>2
  <2>. QED  BY <1>0, <2>1, <2>4, <2>5, <2>6, TrialsKept DEF TrialTypes
<1>. QED  BY <1>1, <1>2, <1>3

\* An update and a policy's own handler change a condition: the one only if it
\* was overtaken, and then it is told to those that have read what was there.
LEMMA TrialChanged ==
  ASSUME TrialInv, NEW t \in TrialTasks, NEW i, i = trial[t].id, NEW rule,
         trial' = trial, looked' = looked, overtaken \subseteq overtaken',
         DOMAIN xpc' = TrialTasks, xpc'[t] = "over",
         \A u \in TrialTasks \ {t} : xpc'[u] = xpc[u],
         DOMAIN trials' = DOMAIN trials, \E S : trials' \in Seq(S),
         \A j \in DOMAIN trials : j # i => trials'[j] = trials[j],
         i \in DOMAIN trials => IsTrial(trials'[i]) /\ trials'[i].active = trials[i].active,
         (i \in DOMAIN trials => ConditionStays(i)) \/ Trial!Overtaken(i) \subseteq overtaken'
  PROVE  TrialInv' /\ \A j \in DOMAIN trials : Stopped(j) /\ (j # i => ConditionStays(j))
<1>0. TrialTypes
  BY DEF TrialInv
<1>1. TrialTypes'
  BY <1>0 DEF TrialTypes
<1>2. \A j \in DOMAIN trials : Stopped(j) /\ (j # i => ConditionStays(j))
  BY DEF Stopped, ConditionStays
<1>3. ASSUME NEW u \in TrialTasks \ {t}
      PROVE  Renews(u)'
  <2>1. Renews(u)
    BY DEF TrialInv
  <2>2. CASE trial[u].id = i /\ xpc[u] = "write" /\ Trial!Overtaken(i) \subseteq overtaken'
    BY <2>1, <2>2 DEF Renews, Trial!Overtaken, Trial!Under
  <2>3. CASE trial[u].id # i \/ xpc[u] # "write" \/ (i \in DOMAIN trials => ConditionStays(i))
    BY <1>2, <2>1, <2>3 DEF Renews, ConditionStays
  <2>. QED  BY <2>2, <2>3
<1>4. Renews(t)'
  BY DEF Renews
<1>. QED  BY <1>1, <1>2, <1>3, <1>4 DEF TrialInv

LEMMA UpdateKeepsInv ==
  ASSUME TrialInv, NEW t \in TrialTasks, Trial!Write(t)
  PROVE  /\ TrialInv'
         /\ Trial!Under(t, "write") /\ ~Trial!Under(t, "write")'
         /\ \A i \in DOMAIN trials : Stopped(i) /\ (ConditionStays(i) \/ t \in overtaken)
<1>. DEFINE i == trial[t].id
<1>0. TrialTypes /\ Renews(t)
  BY DEF TrialInv
<1>1. /\ trial' = trial /\ looked' = looked /\ xpc[t] = "write"
      /\ DOMAIN xpc' = TrialTasks /\ xpc'[t] = "over" /\ \A u \in TrialTasks \ {t} : xpc'[u] = xpc[u]
  BY <1>0 DEF Trial!Write, Trial!Under, Trial!Answer, Trial!Reply, Trial!Go, TrialTypes
<1>2. /\ i \in DOMAIN trials
      /\ t \notin overtaken => looked[t].rule.when = trials[i].rule.when
  BY <1>0, <1>1 DEF Renews
<1>3. CASE trials[i].active
  <2>1. /\ trials' = [trials EXCEPT ![i].rule = Trial!Renewed(t)]
        /\ overtaken' = overtaken \cup IF t \in overtaken THEN Trial!Overtaken(i) ELSE {}
    BY <1>3 DEF Trial!Write
  <2>2. /\ DOMAIN trials' = DOMAIN trials /\ \A j \in DOMAIN trials : j # i => trials'[j] = trials[j]
        /\ trials'[i] = [trials[i] EXCEPT !.rule = Trial!Renewed(t)]
    BY <1>2, <2>1
  <2>3. IsTrial(trials[i])
    BY <1>0, <1>2 DEF TrialTypes
  <2>4. /\ IsTrial(trials'[i]) /\ trials'[i].active = trials[i].active
        /\ trials'[i].rule.when = looked[t].rule.when
    BY <2>2, <2>3 DEF IsTrial, Trial!Renewed, Trial!Rule
  <2>5. \E S : trials' \in Seq(S)
    <3>1. PICK S : trials \in Seq(S)
      BY <1>0 DEF TrialTypes
    <3>. DEFINE T == S \cup {trials'[i]}
    <3>2. trials \in Seq(T)
      BY <3>1
    <3>3. trials' \in Seq(T)
      BY <1>2, <2>1, <2>2, <3>2
    <3>. QED  BY <3>3
  <2>6. ConditionStays(i) \/ t \in overtaken
    BY <1>2, <2>4 DEF ConditionStays
  <2>. HIDE DEF i
  <2>7. TrialInv' /\ \A j \in DOMAIN trials : Stopped(j) /\ (j # i => ConditionStays(j))
    BY <1>1, <2>1, <2>2, <2>4, <2>5, <2>6, TrialChanged DEF i
  <2>. QED  BY <1>1, <2>6, <2>7 DEF Trial!Under
<1>4. CASE ~trials[i].active
  <2>1. trials' = trials /\ overtaken' = overtaken
    BY <1>4 DEF Trial!Write
  <2>2. \A j \in DOMAIN trials : ConditionStays(j) /\ Stopped(j)
    BY <2>1 DEF ConditionStays, Stopped
  <2>3. Renews(t)'
    BY <1>1 DEF Renews
  <2>4. TrialInv'
    BY <1>0, <1>1, <2>1, <2>2, <2>3, TrialsKept DEF TrialTypes
  <2>. QED  BY <1>1, <2>2, <2>4 DEF Trial!Under
<1>. QED  BY <1>3, <1>4

LEMMA EditKeepsInv ==
  ASSUME TrialInv, NEW t \in TrialTasks, Trial!Meddle(t)
  PROVE  /\ TrialInv' /\ \A i \in DOMAIN trials : Stopped(i)
         /\ Trial!Under(t, "edit") /\ ~Trial!Under(t, "edit")'
<1>. DEFINE i == trial[t].id
<1>0. TrialTypes
  BY DEF TrialInv
<1>1. /\ trial' = trial /\ looked' = looked /\ xpc[t] = "edit"
      /\ DOMAIN xpc' = TrialTasks /\ xpc'[t] = "over" /\ \A u \in TrialTasks \ {t} : xpc'[u] = xpc[u]
  BY <1>0 DEF Trial!Meddle, Trial!Under, Trial!Answer, Trial!Reply, Trial!Go, TrialTypes
<1>2. CASE trials' = trials /\ overtaken' = overtaken
  <2>1. \A j \in DOMAIN trials : ConditionStays(j) /\ Stopped(j)
    BY <1>2 DEF ConditionStays, Stopped
  <2>2. Renews(t)'
    BY <1>1 DEF Renews
  <2>3. TrialInv'
    BY <1>0, <1>1, <1>2, <2>1, <2>2, TrialsKept DEF TrialTypes
  <2>. QED  BY <1>1, <2>1, <2>3 DEF Trial!Under
<1>3. CASE /\ i \in DOMAIN trials
           /\ trials' = [trials EXCEPT ![i].name = trial[t].name, ![i].rule.when = trial[t].when]
           /\ overtaken' = overtaken \cup Trial!Overtaken(i)
  <2>1. /\ DOMAIN trials' = DOMAIN trials /\ \A j \in DOMAIN trials : j # i => trials'[j] = trials[j]
        /\ trials'[i] = [[trials[i] EXCEPT !.name = trial[t].name] EXCEPT !.rule =
                            [trials[i].rule EXCEPT !.when = trial[t].when]]
    BY <1>3
  <2>2. IsTrial(trials[i])
    BY <1>0, <1>3 DEF TrialTypes
  <2>3. IsTrial(trials'[i]) /\ trials'[i].active = trials[i].active
    BY <2>1, <2>2 DEF IsTrial
  <2>4. \E S : trials' \in Seq(S)
    <3>1. PICK S : trials \in Seq(S)
      BY <1>0 DEF TrialTypes
    <3>. DEFINE T == S \cup {trials'[i]}
    <3>2. trials \in Seq(T) /\ trials'[i] \in T
      BY <3>1
    <3>3. trials' = [trials EXCEPT ![i] = trials'[i]]
      BY <1>3
    <3>4. trials' \in Seq(T)
      BY <1>3, <3>2, <3>3
    <3>. QED  BY <3>4
  <2>. HIDE DEF i
  <2>5. TrialInv' /\ \A j \in DOMAIN trials : Stopped(j) /\ (j # i => ConditionStays(j))
    BY <1>1, <1>3, <2>1, <2>3, <2>4, TrialChanged DEF i
  <2>. QED  BY <1>1, <2>5 DEF Trial!Under
<1>. QED  BY <1>2, <1>3 DEF Trial!Meddle

LEMMA TrialsPreserved ==
  ASSUME TrialInv, [Trial!Next]_(Trial!vars)
  PROVE  /\ TrialInv'
         /\ \A i \in DOMAIN trials :
              /\ ~trials[i].active => ~trials'[i].active
              /\ trials'[i].rule.when # trials[i].rule.when =>
                    \E t \in TrialTasks :
                        \/ Trial!Under(t, "edit") /\ ~Trial!Under(t, "edit")'
                        \/ t \in overtaken /\ Trial!Under(t, "write") /\ ~Trial!Under(t, "write")'
<1>1. ASSUME NEW t \in TrialTasks,
             \/ Trial!Assign(t) \/ Trial!Record(t) \/ Trial!Create(t) \/ Trial!Find(t) \/ Trial!Stop(t)
             \/ Trial!List(t) \/ Trial!Look(t) \/ Trial!Tally(t)
      PROVE  TrialInv' /\ \A i \in DOMAIN trials : ConditionStays(i) /\ Stopped(i)
  BY <1>1, TrialsKeepInv
<1>2. CASE UNCHANGED Trial!vars
  <2>1. UNCHANGED <<trials, trial, xpc, looked, overtaken>>
    BY <1>2 DEF Trial!vars
  <2>2. TrialInv'
    BY <2>1 DEF TrialInv, TrialTypes, Renews
  <2>. QED  BY <2>1, <2>2
<1>3. \/ UNCHANGED Trial!vars
      \/ \E t \in TrialTasks :
            \/ \/ Trial!Assign(t) \/ Trial!Record(t) \/ Trial!Create(t) \/ Trial!Find(t) \/ Trial!Stop(t)
               \/ Trial!List(t) \/ Trial!Look(t) \/ Trial!Tally(t)
            \/ Trial!Write(t) \/ Trial!Meddle(t)
  BY DEF Trial!Next
<1>4. CASE \E t \in TrialTasks :
            \/ Trial!Assign(t) \/ Trial!Record(t) \/ Trial!Create(t) \/ Trial!Find(t) \/ Trial!Stop(t)
            \/ Trial!List(t) \/ Trial!Look(t) \/ Trial!Tally(t)
  BY <1>1, <1>4 DEF ConditionStays, Stopped
<1>5. CASE \E t \in TrialTasks : Trial!Write(t)
  BY <1>5, UpdateKeepsInv DEF ConditionStays, Stopped
<1>6. CASE \E t \in TrialTasks : Trial!Meddle(t)
  BY <1>6, EditKeepsInv DEF Stopped
<1>. QED  BY <1>2, <1>3, <1>4, <1>5, <1>6

\* An experiment that was stopped stays so, and its condition is what it was,
\* but for a change by a policy's handler and an update that was overtaken.
THEOREM ExperimentsPreserved ==
  ASSUME Trial!WorkloadsAssumption
  PROVE  Trial!Spec => Trial!Preserved
<1>1. Trial!Init => TrialInv
  <2>. SUFFICES ASSUME Trial!Init PROVE TrialInv
    OBVIOUS
  <2>1. trials = <<>> /\ xpc = [t \in TrialTasks |-> trial[t].do] /\ DOMAIN looked = TrialTasks
    BY DEF Trial!Init
  <2>2. \A t \in TrialTasks : xpc[t] # "write"
    BY <2>1 DEF Trial!Init, Trial!WorkloadsAssumption
  <2>3. trials \in Seq({})
    BY <2>1
  <2>. QED  BY <2>1, <2>2, <2>3 DEF TrialInv, TrialTypes, Renews
<1>2. TrialInv /\ [Trial!Next]_(Trial!vars) => TrialInv'
  BY TrialsPreserved
<1>3. TrialInv /\ [Trial!Next]_(Trial!vars) =>
        [\A i \in DOMAIN trials :
              /\ ~trials[i].active => ~trials'[i].active
              /\ trials'[i].rule.when # trials[i].rule.when =>
                    \E t \in TrialTasks :
                        \/ Trial!Under(t, "edit") /\ ~Trial!Under(t, "edit")'
                        \/ t \in overtaken /\ Trial!Under(t, "write") /\ ~Trial!Under(t, "write")']_(Trial!vars)
  BY TrialsPreserved
<1>. QED  BY <1>1, <1>2, <1>3, PTL DEF Trial!Spec, Trial!Preserved

-----------------------------------------------------------------------------
\* Prompts (PromptRegistry)

CONSTANTS Publishers, Deployers, Labels

VARIABLES active, count, labels, ppc, number, dpc, ask, seen, current, passed,
          crossed

Prompt == INSTANCE PromptRegistry

\* Prompts: a label is on the one version where the last deploy put it, and a
\* deploy that was not overtaken sees every version that has its label.

\* The versions that have a label.
Having(l) == {v \in Prompt!Numbers : l \in labels[v]}

Published == {p \in Publishers : ppc[p] = "published"}

PromptTypes ==
    /\ count \in Nat /\ DOMAIN ppc = Publishers /\ DOMAIN number = Publishers
    /\ DOMAIN dpc = Deployers /\ seen \in [Deployers -> Nat]
    /\ ask \in [Deployers -> [label : Labels, version : Prompt!Numbers]]
    /\ DOMAIN labels = Prompt!Numbers /\ DOMAIN current = Labels

Publication ==
    /\ count = Cardinality(Published)
    /\ \A p, q \in Publishers :
          ppc[p] \in {"locked", "inserted"} /\ ppc[q] \in {"locked", "inserted"} => p = q
    /\ \A p \in Publishers : ppc[p] = "inserted" => number[p] = count + 1

SeesLabel(d) ==
    dpc[d] \in {"waiting", "cleared"} /\ d \notin passed =>
        \A v \in Having(ask[d].label) : v <= seen[d]

Labelling ==
    /\ \A l \in Labels : \A v \in Having(l) : v <= count
    /\ \A d \in Deployers : SeesLabel(d)
    /\ \A l \in Labels \ crossed : Having(l) = IF current[l] = None THEN {} ELSE {current[l]}

PromptInv == PromptTypes /\ Publication /\ Labelling

\* PromptRegistry has its own instance of the module FiniteSets.
LEMMA PublishersCounted ==
  ASSUME Prompt!ConstantsAssumption, NEW S, S \subseteq Publishers
  PROVE  /\ IsFiniteSet(S) /\ Cardinality(S) \in Nat
         /\ Prompt!Numbers = 1..Cardinality(Publishers) /\ Cardinality(Publishers) \in Nat
         /\ Cardinality(S) <= Cardinality(Publishers)
<1>1. IsFiniteSet(Publishers)
  BY DEF Prompt!ConstantsAssumption, Prompt!IsFiniteSet, IsFiniteSet
<1>2. Prompt!Numbers = 1..Cardinality(Publishers)
  BY DEF Prompt!Numbers, Prompt!Cardinality, Cardinality
<1>3. IsFiniteSet(S) /\ Cardinality(S) <= Cardinality(Publishers)
  BY <1>1, FS_Subset
<1>. QED  BY <1>1, <1>2, <1>3, FS_CardinalityType

\* The labels stay, and no deploy begins.
LEMMA LabellingKept ==
  ASSUME PromptTypes, Labelling, UNCHANGED <<labels, ask, seen, current, passed, crossed>>,
         count' \in Nat, count <= count',
         \A d \in Deployers : dpc'[d] \in {"waiting", "cleared"} => dpc[d] \in {"waiting", "cleared"}
  PROVE  Labelling'
<1>1. \A l : Having(l)' = Having(l)
  BY DEF Having
<1>2. ASSUME NEW l \in Labels, NEW v \in Having(l)'
      PROVE  v <= count'
  <2>1. v <= count /\ v \in Prompt!Numbers
    BY <1>1, <1>2 DEF Labelling, Having
  <2>. QED  BY <2>1 DEF PromptTypes, Prompt!Numbers
<1>3. \A d \in Deployers : SeesLabel(d)'
  BY <1>1 DEF Labelling, SeesLabel
<1>. QED  BY <1>1, <1>2, <1>3 DEF Labelling

LEMMA PublishingKeepsInv ==
  ASSUME PromptInv, Prompt!ConstantsAssumption, NEW p \in Publishers,
         \/ Prompt!CheckPublish(p) \/ Prompt!LockPrompt(p) \/ Prompt!InsertVersion(p)
         \/ Prompt!CommitVersion(p) \/ Prompt!AbortPublish(p)
  PROVE  PromptInv'
<1>0. PromptTypes /\ Publication /\ Labelling
  BY DEF PromptInv
<1>1. /\ UNCHANGED <<labels, ask, seen, current, passed, crossed, dpc>>
      /\ DOMAIN ppc' = Publishers /\ DOMAIN number' = Publishers
      /\ \A q \in Publishers \ {p} : ppc'[q] = ppc[q] /\ number'[q] = number[q]
  BY <1>0 DEF Prompt!CheckPublish, Prompt!LockPrompt, Prompt!InsertVersion, Prompt!CommitVersion,
              Prompt!AbortPublish, Prompt!row, Prompt!publish, Prompt!history, PromptTypes
<1>2. CASE Prompt!CommitVersion(p)
  <2>1. ppc[p] = "inserted" /\ ppc'[p] = "published" /\ count' = count + 1
    BY <1>0, <1>2 DEF Prompt!CommitVersion, Publication, PromptTypes
  <2>2. Published' = Published \cup {p} /\ p \notin Published
    BY <1>1, <2>1 DEF Published
  <2>3. count' = Cardinality(Published')
    <3>1. IsFiniteSet(Published)
      BY PublishersCounted DEF Published
    <3>2. Cardinality(Published \cup {p}) = Cardinality(Published) + 1
      BY <2>2, <3>1, FS_AddElement
    <3>. QED  BY <1>0, <2>1, <2>2, <3>2 DEF Publication
  <2>4. \A q \in Publishers : ppc'[q] \notin {"locked", "inserted"}
    BY <1>0, <1>1, <2>1 DEF Publication
  <2>5. Publication'
    BY <2>3, <2>4 DEF Publication
  <2>6. count' \in Nat /\ count <= count'
    BY <1>0, <2>1 DEF PromptTypes
  <2>7. Labelling'
    BY <1>0, <1>1, <2>6, LabellingKept
  <2>8. PromptTypes'
    BY <1>0, <1>1, <2>6 DEF PromptTypes
  <2>. QED  BY <2>5, <2>7, <2>8 DEF PromptInv
<1>3. CASE \/ Prompt!CheckPublish(p) \/ Prompt!LockPrompt(p) \/ Prompt!InsertVersion(p)
           \/ Prompt!AbortPublish(p)
  <2>1. /\ count' = count /\ ppc[p] # "published" /\ ppc'[p] # "published"
        /\ ppc'[p] = "inserted" => ppc[p] = "locked" /\ number'[p] = count + 1
        /\ ppc'[p] = "locked" => ~Prompt!Locked
    BY <1>0, <1>3 DEF Prompt!CheckPublish, Prompt!LockPrompt, Prompt!InsertVersion,
                      Prompt!AbortPublish, Prompt!row, PromptTypes
  <2>2. Published' = Published
    BY <1>1, <2>1 DEF Published
  <2>3. Publication'
    BY <1>0, <1>1, <2>1, <2>2 DEF Publication, Prompt!Locked
  <2>4. Labelling'
    BY <1>0, <1>1, <2>1, LabellingKept DEF PromptTypes
  <2>5. PromptTypes'
    BY <1>0, <1>1, <2>1 DEF PromptTypes
  <2>. QED  BY <2>3, <2>4, <2>5 DEF PromptInv
<1>. QED  BY <1>2, <1>3

\* A deploy takes its label from the versions that it sees and gives it to its
\* target, if that is there.
LEMMA DeployKeepsInv ==
  ASSUME PromptInv, Prompt!ConstantsAssumption, NEW d \in Deployers, Prompt!CommitDeploy(d)
  PROVE  PromptInv'
<1>p. PICK name, goal : name = ask[d].label /\ goal = IF Prompt!Exists(d) THEN ask[d].version ELSE None
  OBVIOUS
<1>0. PromptTypes /\ Publication /\ Labelling
  BY DEF PromptInv
<1>1. /\ UNCHANGED <<count, ppc, number, ask, seen>>
      /\ labels' = [v \in Prompt!Numbers |->
                       CASE v = goal -> labels[v] \cup {name}
                         [] v # goal /\ v \in Prompt!Cleared(d) -> labels[v] \ {name}
                         [] OTHER -> labels[v]]
      /\ dpc[d] = "cleared" /\ dpc' = [dpc EXCEPT ![d] = IF Prompt!Exists(d) THEN "deployed" ELSE "missing"]
      /\ current' = [current EXCEPT ![name] = goal]
      /\ passed' = passed \cup
             {e \in Deployers \ {d} : /\ dpc[e] \in {"waiting", "cleared"}
                                      /\ ask[e].label = name
                                      /\ goal # None
                                      /\ goal > seen[e]}
      /\ crossed' = IF d \in passed THEN crossed \cup {name} ELSE crossed \ {name}
  BY <1>p DEF Prompt!CommitDeploy, Prompt!publish
<1>2. /\ name = ask[d].label /\ name \in Labels /\ ask[d].version \in Prompt!Numbers /\ Prompt!Numbers \subseteq Nat
      /\ Prompt!Cleared(d) = 1..seen[d] /\ seen[d] \in Nat /\ None \notin Prompt!Numbers
  BY <1>0, <1>p DEF PromptTypes, Prompt!Cleared, Prompt!Numbers, Prompt!ConstantsAssumption
<1>3. goal # None => goal \in Prompt!Numbers /\ goal <= count
  BY <1>2, <1>p DEF Prompt!Exists
<1>4. \A l \in Labels \ {name} : Having(l)' = Having(l)
  <2>1. \A l \in Labels \ {name} : \A v \in Prompt!Numbers : l \in labels'[v] <=> l \in labels[v]
    BY <1>1
  <2>. QED  BY <2>1 DEF Having
<1>5. Having(name)' = {v \in Having(name) : ~(v <= seen[d])} \cup IF goal = None THEN {} ELSE {goal}
  <2>1. ASSUME NEW v \in Prompt!Numbers
        PROVE  name \in labels'[v] <=> v = goal \/ (name \in labels[v] /\ ~(v <= seen[d]))
    <3>1. v \in Nat /\ v >= 1
      BY DEF Prompt!Numbers
    <3>2. v \in Prompt!Cleared(d) <=> v <= seen[d]
      BY <1>2, <3>1
    <3>3. CASE v = goal
      BY <1>1, <3>3
    <3>4. CASE v # goal /\ v \in Prompt!Cleared(d)
      BY <1>1, <3>2, <3>4
    <3>5. CASE v # goal /\ v \notin Prompt!Cleared(d)
      BY <1>1, <3>2, <3>5
    <3>. QED  BY <3>3, <3>4, <3>5
  <2>. QED  BY <1>2, <1>3, <2>1 DEF Having
<1>6. \A l \in Labels : \A v \in Having(l)' : v <= count'
  BY <1>0, <1>1, <1>3, <1>4, <1>5 DEF Labelling
<1>7. ASSUME NEW e \in Deployers
      PROVE  SeesLabel(e)'
  <2>p. PICK other \in Labels : other = ask[e].label
    BY <1>0 DEF PromptTypes
  <2>. SUFFICES ASSUME dpc'[e] \in {"waiting", "cleared"}, e \notin passed', NEW v \in Having(other)'
                PROVE  v <= seen[e]
    BY <1>1, <2>p DEF SeesLabel
  <2>1. e # d /\ dpc[e] \in {"waiting", "cleared"} /\ e \notin passed
    BY <1>0, <1>1 DEF PromptTypes
  <2>2. \A w \in Having(other) : w <= seen[e]
    BY <1>0, <2>1, <2>p DEF Labelling, SeesLabel
  <2>3. CASE other # name
    BY <1>4, <2>2, <2>3
  <2>4. CASE other = name
    <3>1. goal = None \/ ~(goal > seen[e])
      BY <1>1, <2>1, <2>4, <2>p
    <3>2. goal # None => goal <= seen[e]
      <4>1. seen[e] \in Nat
        BY <1>0 DEF PromptTypes
      <4>2. goal # None => goal \in Nat
        BY <1>2, <1>3
      <4>. QED  BY <3>1, <4>1, <4>2
    <3>3. v \in Having(name) \/ (goal # None /\ v = goal)
      BY <1>5, <2>4
    <3>. QED  BY <2>2, <2>4, <3>2, <3>3
  <2>. QED  BY <2>3, <2>4
<1>8. ASSUME NEW l \in Labels \ crossed'
      PROVE  Having(l)' = IF current'[l] = None THEN {} ELSE {current'[l]}
  <2>1. CASE l # name
    <3>1. l \notin crossed /\ current'[l] = current[l]
      BY <1>0, <1>1, <2>1 DEF PromptTypes
    <3>. QED  BY <1>0, <1>4, <2>1, <3>1 DEF Labelling
  <2>2. CASE l = name
    <3>1. d \notin passed /\ current'[l] = goal
      BY <1>0, <1>1, <1>2, <2>2 DEF PromptTypes
    <3>2. \A v \in Having(name) : v <= seen[d]
      BY <1>0, <1>1, <1>2, <3>1 DEF Labelling, SeesLabel
    <3>3. Having(name)' = IF goal = None THEN {} ELSE {goal}
      BY <1>5, <3>2
    <3>. QED  BY <2>2, <3>1, <3>3
  <2>. QED  BY <2>1, <2>2
<1>9. PromptTypes'
  BY <1>0, <1>1 DEF PromptTypes
<1>10. Publication'
  <2>1. Published' = Published
    BY <1>1 DEF Published
  <2>. QED  BY <1>0, <1>1, <2>1 DEF Publication
<1>. QED  BY <1>6, <1>7, <1>8, <1>9, <1>10 DEF PromptInv, Labelling

LEMMA PromptsKeepInv ==
  ASSUME PromptInv, Prompt!ConstantsAssumption, [Prompt!Next]_(Prompt!vars)
  PROVE  PromptInv'
<1>0. PromptTypes /\ Publication /\ Labelling
  BY DEF PromptInv
<1>1. ASSUME UNCHANGED <<count, ppc, number>>
      PROVE  Publication'
  <2>1. Published' = Published
    BY <1>1 DEF Published
  <2>. QED  BY <1>0, <1>1, <2>1 DEF Publication
<1>2. ASSUME NEW p \in Publishers,
             \/ Prompt!CheckPublish(p) \/ Prompt!LockPrompt(p) \/ Prompt!InsertVersion(p)
             \/ Prompt!CommitVersion(p) \/ Prompt!AbortPublish(p)
      PROVE  PromptInv'
  BY <1>2, PublishingKeepsInv
<1>3. ASSUME NEW d \in Deployers,
             Prompt!CheckDeploy(d) \/ Prompt!ClearLabel(d) \/ Prompt!AbortDeploy(d)
      PROVE  PromptInv'
  <2>1. /\ UNCHANGED <<count, labels, ppc, number, ask, seen, current, passed, crossed>>
        /\ DOMAIN dpc' = Deployers
        /\ \A e \in Deployers : dpc'[e] \in {"waiting", "cleared"} => dpc[e] \in {"waiting", "cleared"}
    BY <1>0, <1>3 DEF Prompt!CheckDeploy, Prompt!ClearLabel, Prompt!AbortDeploy, Prompt!row,
                      Prompt!publish, Prompt!history, PromptTypes
  <2>2. Labelling'
    BY <1>0, <2>1, LabellingKept DEF PromptTypes
  <2>. QED  BY <1>0, <1>1, <2>1, <2>2 DEF PromptInv, PromptTypes
<1>4. ASSUME NEW d \in Deployers, Prompt!BeginDeploy(d)
      PROVE  PromptInv'
  <2>1. /\ UNCHANGED <<count, labels, ppc, number, ask, current, passed, crossed>>
        /\ seen' = [seen EXCEPT ![d] = count] /\ dpc' = [dpc EXCEPT ![d] = "waiting"]
    BY <1>4 DEF Prompt!BeginDeploy, Prompt!row, Prompt!publish, Prompt!history
  <2>2. \A l : Having(l)' = Having(l)
    BY <2>1 DEF Having
  <2>3. ASSUME NEW e \in Deployers
        PROVE  SeesLabel(e)'
    <3>1. CASE e = d
      BY <1>0, <2>1, <2>2, <3>1 DEF Labelling, SeesLabel, PromptTypes
    <3>2. CASE e # d
      BY <1>0, <2>1, <2>2, <3>2 DEF Labelling, SeesLabel, PromptTypes
    <3>. QED  BY <3>1, <3>2
  <2>4. PromptTypes'
    BY <1>0, <2>1 DEF PromptTypes
  <2>. QED  BY <1>0, <1>1, <2>1, <2>2, <2>3, <2>4 DEF PromptInv, Labelling
<1>5. ASSUME NEW d \in Deployers, Prompt!CommitDeploy(d)
      PROVE  PromptInv'
  BY <1>5, DeployKeepsInv
<1>6. CASE Prompt!DeletePrompt \/ UNCHANGED Prompt!vars
  <2>1. UNCHANGED <<count, labels, ppc, number, dpc, ask, seen, current, passed, crossed>>
    BY <1>6 DEF Prompt!DeletePrompt, Prompt!vars, Prompt!row, Prompt!publish, Prompt!history
  <2>2. Labelling'
    BY <1>0, <2>1, LabellingKept DEF PromptTypes
  <2>. QED  BY <1>0, <1>1, <2>1, <2>2 DEF PromptInv, PromptTypes
<1>. QED  BY <1>2, <1>3, <1>4, <1>5, <1>6 DEF Prompt!Next

\* A label renders where the last deploy put it, unless that was overtaken.
THEOREM LabelsRendered ==
  ASSUME Prompt!ConstantsAssumption
  PROVE  Prompt!Spec => []Prompt!DeployedIsRendered
<1>1. Prompt!Init => PromptInv
  <2>. SUFFICES ASSUME Prompt!Init PROVE PromptInv
    OBVIOUS
  <2>1. PromptTypes
    BY DEF Prompt!Init, PromptTypes
  <2>2. Published = {}
    BY DEF Prompt!Init, Published
  <2>3. \A l : Having(l) = {}
    BY DEF Prompt!Init, Having
  <2>4. Publication
    BY <2>2, FS_EmptySet DEF Prompt!Init, Publication
  <2>5. Labelling
    BY <2>3 DEF Prompt!Init, Labelling, SeesLabel
  <2>. QED  BY <2>1, <2>4, <2>5 DEF PromptInv
<1>2. PromptInv /\ [Prompt!Next]_(Prompt!vars) => PromptInv'
  BY PromptsKeepInv
<1>3. PromptInv => Prompt!DeployedIsRendered
  <2>. SUFFICES ASSUME PromptInv, active, NEW l \in Labels \ crossed
                PROVE  Prompt!Rendered(l) = current[l]
    BY DEF Prompt!DeployedIsRendered
  <2>1. Prompt!Labelled(l) = Having(l)
    <3>1. 1..count \subseteq Prompt!Numbers
      BY PublishersCounted DEF PromptInv, Publication, Published, PromptTypes
    <3>2. \A v \in Having(l) : v \in 1..count
      BY DEF PromptInv, Labelling, Having, Prompt!Numbers, PromptTypes
    <3>. QED  BY <3>1, <3>2 DEF Prompt!Labelled, Having
  <2>2. Having(l) = IF current[l] = None THEN {} ELSE {current[l]}
    BY DEF PromptInv, Labelling
  <2>3. current[l] # None => current[l] \in Nat
    BY <2>2 DEF Having, Prompt!Numbers
  <2>4. current[l] # None => Prompt!Max({current[l]}) = current[l]
    BY <2>3 DEF Prompt!Max
  <2>. QED  BY <2>1, <2>2, <2>4 DEF Prompt!Rendered
<1>. QED  BY <1>1, <1>2, <1>3, PTL DEF Prompt!Spec

-----------------------------------------------------------------------------
\* API keys (ApiKeys)

CONSTANTS ApiKeyNames, KeyRequests, kindOf

VARIABLES row, role, kjob, kpc, counted

ApiKey == INSTANCE ApiKeys WITH
    Keys <- ApiKeyNames, Requests <- KeyRequests, kind <- kindOf, pc <- kpc, job <- kjob

\* API keys: a revocation that is about to write has counted two admin keys if
\* its own is one, and they are fewer now only if another has written since.

KeyTypes ==
    /\ row \in [ApiKeyNames -> {"none", "active", "revoked"}]
    /\ role \in [ApiKeyNames -> ApiKey!Roles]
    /\ kjob \in [KeyRequests -> ApiKey!Jobs]
    /\ DOMAIN kpc = KeyRequests
    /\ counted \in [KeyRequests -> Nat]

AnotherDone(q) == \E p \in KeyRequests : p # q /\ kpc[p] = "done" /\ kindOf[p] = "revoke"

KeyInv ==
    /\ KeyTypes
    /\ \A q \in KeyRequests : kpc[q] \in {"revoke", "writing"} => kindOf[q] = "revoke"
    /\ \A q \in KeyRequests : kpc[q] = "writing" =>
          /\ row[kjob[q].key] # "none"
          /\ kjob[q].key \in ApiKey!AdminKeys => counted[q] >= 2
          /\ counted[q] <= ApiKey!Cardinality(ApiKey!AdminKeys) \/ AnotherDone(q)

\* ApiKeys has its own instance of the module FiniteSets.
LEMMA KeySets ==
  ASSUME ApiKey!ConstantsAssumption, NEW S, S \subseteq ApiKeyNames
  PROVE  /\ IsFiniteSet(S) /\ ApiKey!Cardinality(S) = Cardinality(S)
         /\ ApiKey!Cardinality(S) \in Nat
<1>1. IsFiniteSet(ApiKeyNames)
  BY DEF ApiKey!ConstantsAssumption, ApiKey!IsFiniteSet, IsFiniteSet
<1>2. ApiKey!Cardinality(S) = Cardinality(S)
  BY DEF ApiKey!Cardinality, Cardinality
<1>3. IsFiniteSet(S)
  BY <1>1, FS_Subset
<1>. QED  BY <1>2, <1>3, FS_CardinalityType

\* What does not revoke takes no admin key away.
LEMMA CreatingKeeps ==
  ASSUME KeyTypes, ApiKey!ConstantsAssumption, NEW q \in KeyRequests, ApiKey!CreateKey(q)
  PROVE  /\ ApiKey!AdminKeys \subseteq ApiKey!AdminKeys'
         /\ ApiKey!Cardinality(ApiKey!AdminKeys) <= ApiKey!Cardinality(ApiKey!AdminKeys')
         /\ \A k \in ApiKeyNames : row[k] # "none" =>
                row'[k] = row[k] /\ (k \in ApiKey!AdminKeys' => k \in ApiKey!AdminKeys)
<1>. USE DEF KeyTypes, ApiKey!CreateKey, ApiKey!Jobs, ApiKey!Roles
<1>0. kjob[q].key \in ApiKeyNames /\ kjob' = kjob
  OBVIOUS
<1>1. \A k \in ApiKeyNames : k # kjob[q].key => row'[k] = row[k] /\ role'[k] = role[k]
  BY <1>0
<1>2. row[kjob[q].key] = "none"
  OBVIOUS
<1>3. ApiKey!AdminKeys \subseteq ApiKey!AdminKeys'
  BY <1>1, <1>2 DEF ApiKey!AdminKeys
<1>4. ApiKey!AdminKeys' \subseteq ApiKeyNames
  BY DEF ApiKey!AdminKeys
<1>5. ApiKey!Cardinality(ApiKey!AdminKeys) <= ApiKey!Cardinality(ApiKey!AdminKeys')
  <2>. DEFINE S == ApiKey!AdminKeys
              T == ApiKey!AdminKeys'
  <2>1. S \subseteq T /\ T \subseteq ApiKeyNames
    BY <1>3, <1>4
  <2>. HIDE DEF S, T
  <2>2. /\ ApiKey!Cardinality(S) = Cardinality(S)
        /\ ApiKey!Cardinality(T) = Cardinality(T) /\ IsFiniteSet(T)
    BY <2>1, KeySets
  <2>3. Cardinality(S) <= Cardinality(T)
    BY <2>1, <2>2, FS_Subset
  <2>4. ApiKey!Cardinality(S) <= ApiKey!Cardinality(T)
    BY <2>2, <2>3
  <2>. QED  BY <2>4 DEF S, T
<1>6. \A k \in ApiKeyNames : row[k] # "none" =>
                row'[k] = row[k] /\ (k \in ApiKey!AdminKeys' => k \in ApiKey!AdminKeys)
  BY <1>1, <1>2 DEF ApiKey!AdminKeys
<1>. QED  BY <1>3, <1>5, <1>6

LEMMA KeysKeepInv ==
  ASSUME KeyInv, ApiKey!ConstantsAssumption, [ApiKey!Next]_(ApiKey!vars)
  PROVE  KeyInv'
<1>0. KeyTypes
  BY DEF KeyInv
<1>1. ASSUME NEW q \in KeyRequests, ApiKey!Authorize(q) \/ ApiKey!Fail(q)
      PROVE  KeyInv'
  <2>1. UNCHANGED <<row, role, kjob, counted>> /\ ApiKey!AdminKeys' = ApiKey!AdminKeys
    BY <1>1 DEF ApiKey!Authorize, ApiKey!Fail, ApiKey!AdminKeys
  <2>2. kpc[q] # "done" /\ (\A p \in KeyRequests \ {q} : kpc'[p] = kpc[p]) /\ DOMAIN kpc' = KeyRequests
    BY <1>0, <1>1 DEF ApiKey!Authorize, ApiKey!Fail, ApiKey!Go, KeyTypes
  <2>3. kpc'[q] # "writing" /\ (kpc'[q] = "revoke" => kindOf[q] = "revoke")
    BY <1>0, <1>1
       DEF ApiKey!Authorize, ApiKey!Fail, ApiKey!Go, KeyTypes, ApiKey!ConstantsAssumption
  <2>. QED  BY <2>1, <2>2, <2>3 DEF KeyInv, KeyTypes, AnotherDone
<1>2. ASSUME NEW q \in KeyRequests, ApiKey!CreateKey(q)
      PROVE  KeyInv'
  <2>1. KeyTypes'
    BY <1>0, <1>2 DEF ApiKey!CreateKey, KeyTypes, ApiKey!Go, ApiKey!Roles
  <2>2. /\ kjob' = kjob /\ counted' = counted /\ kpc[q] = "create" /\ kpc'[q] = "done"
        /\ \A p \in KeyRequests \ {q} : kpc'[p] = kpc[p]
    BY <1>0, <1>2 DEF ApiKey!CreateKey, ApiKey!Go, KeyTypes
  <2>3. /\ ApiKey!Cardinality(ApiKey!AdminKeys) \in Nat
        /\ ApiKey!Cardinality(ApiKey!AdminKeys') \in Nat
    BY KeySets DEF ApiKey!AdminKeys
  <2>4. ASSUME NEW p \in KeyRequests, kpc'[p] = "writing"
        PROVE  /\ row'[kjob'[p].key] # "none"
               /\ kjob'[p].key \in ApiKey!AdminKeys' => counted'[p] >= 2
               /\ counted'[p] <= ApiKey!Cardinality(ApiKey!AdminKeys') \/ AnotherDone(p)'
    <3>1. kpc[p] = "writing" /\ p # q /\ kjob[p].key \in ApiKeyNames /\ counted[p] \in Nat
      BY <1>0, <2>2, <2>4 DEF KeyTypes, ApiKey!Jobs
    <3>2. AnotherDone(p) => AnotherDone(p)'
      BY <2>2 DEF AnotherDone
    <3>. QED
      BY <3>1, <3>2, <2>2, <2>3, CreatingKeeps, <1>0, <1>2 DEF KeyInv
  <2>. QED  BY <2>1, <2>2, <2>4 DEF KeyInv
<1>3. ASSUME NEW q \in KeyRequests, ApiKey!CountAdmins(q)
      PROVE  KeyInv'
  <2>0. ApiKey!Cardinality(ApiKey!AdminKeys) \in Nat
    BY KeySets DEF ApiKey!AdminKeys
  <2>1. UNCHANGED <<row, role, kjob>> /\ ApiKey!AdminKeys' = ApiKey!AdminKeys
    BY <1>3 DEF ApiKey!CountAdmins, ApiKey!AdminKeys
  <2>2. /\ kpc[q] = "revoke" /\ kpc' = [kpc EXCEPT ![q] = kpc'[q]]
        /\ counted' = [counted EXCEPT ![q] = ApiKey!Cardinality(ApiKey!AdminKeys)]
        /\ kpc'[q] \in {"refused", "writing"}
        /\ kpc'[q] = "writing" => row[kjob[q].key] # "none" /\ ~ApiKey!Last(kjob[q].key)
    BY <1>0, <1>3 DEF ApiKey!CountAdmins, ApiKey!Go, KeyTypes
  <2>3. KeyTypes'
    BY <1>0, <2>0, <2>1, <2>2 DEF KeyTypes
  <2>4. \A p \in KeyRequests : AnotherDone(p) => AnotherDone(p)'
    BY <1>0, <2>2 DEF AnotherDone, KeyTypes
  <2>5. ASSUME NEW p \in KeyRequests, kpc'[p] = "writing"
        PROVE  /\ row'[kjob'[p].key] # "none"
               /\ kjob'[p].key \in ApiKey!AdminKeys' => counted'[p] >= 2
               /\ counted'[p] <= ApiKey!Cardinality(ApiKey!AdminKeys') \/ AnotherDone(p)'
    <3>1. CASE p = q
      BY <3>1, <1>0, <2>0, <2>1, <2>2, <2>5 DEF ApiKey!Last, KeyTypes
    <3>2. CASE p # q
      BY <3>2, <1>0, <2>1, <2>2, <2>4, <2>5 DEF KeyInv, KeyTypes
    <3>. QED  BY <3>1, <3>2
  <2>. QED  BY <1>0, <2>2, <2>3, <2>5 DEF KeyInv, KeyTypes
<1>4. ASSUME NEW q \in KeyRequests, ApiKey!RevokeKey(q)
      PROVE  KeyInv'
  <2>1. /\ kpc[q] = "writing" /\ kpc' = [kpc EXCEPT ![q] = "done"]
        /\ UNCHANGED <<role, kjob, counted>>
        /\ row' = [row EXCEPT ![kjob[q].key] = "revoked"]
    BY <1>4 DEF ApiKey!RevokeKey, ApiKey!Go
  <2>2. KeyTypes'
    BY <1>0, <2>1 DEF KeyTypes
  <2>3. ApiKey!AdminKeys' \subseteq ApiKey!AdminKeys
    BY <1>0, <2>1 DEF ApiKey!AdminKeys, KeyTypes
  <2>4. \A p \in KeyRequests \ {q} : AnotherDone(p)'
    BY <1>0, <2>1 DEF AnotherDone, KeyTypes, KeyInv
  <2>5. \A k \in ApiKeyNames : row[k] # "none" => row'[k] # "none"
    BY <1>0, <2>1 DEF KeyTypes
  <2>6. \A p \in KeyRequests : kpc'[p] = "writing" => p # q /\ kpc[p] = "writing" /\ kjob[p].key \in ApiKeyNames
    BY <1>0, <2>1 DEF KeyTypes, ApiKey!Jobs
  <2>7. \A p \in KeyRequests : kpc'[p] \in {"revoke", "writing"} => kpc[p] \in {"revoke", "writing"}
    BY <1>0, <2>1 DEF KeyTypes
  <2>. QED  BY <2>1, <2>2, <2>3, <2>4, <2>5, <2>6, <2>7 DEF KeyInv
<1>5. CASE UNCHANGED ApiKey!vars
  BY <1>5 DEF KeyInv, KeyTypes, AnotherDone, ApiKey!AdminKeys, ApiKey!vars
<1>. QED  BY <1>1, <1>2, <1>3, <1>4, <1>5 DEF ApiKey!Next

\* The last admin key falls only to a revocation that counted others, and of
\* them another one has been revoked since.
THEOREM AdminBrokenOnlyByRace ==
  ASSUME ApiKey!ConstantsAssumption
  PROVE  ApiKey!Spec => ApiKey!LastAdminOnlyByRace
<1>1. ApiKey!Init => KeyInv
  BY DEF ApiKey!Init, KeyInv, KeyTypes
<1>2. KeyInv /\ [ApiKey!Next]_(ApiKey!vars) => KeyInv'
  BY KeysKeepInv
<1>3. ASSUME KeyInv, ApiKey!Next, ApiKey!AdminKeys # {}, ApiKey!AdminKeys' = {}
      PROVE  \E q, p \in KeyRequests :
                 /\ kpc[q] = "writing" /\ kpc'[q] = "done"
                 /\ counted[q] > ApiKey!Cardinality(ApiKey!AdminKeys)
                 /\ p # q /\ kpc[p] = "done" /\ kindOf[p] = "revoke"
  <2>0. KeyTypes
    BY <1>3 DEF KeyInv
  <2>1. PICK q \in KeyRequests : ApiKey!Authorize(q) \/ ApiKey!CreateKey(q) \/ ApiKey!CountAdmins(q)
                                   \/ ApiKey!RevokeKey(q) \/ ApiKey!Fail(q)
    BY <1>3 DEF ApiKey!Next
  <2>2. ~ApiKey!CreateKey(q)
    BY <1>3, <2>0, CreatingKeeps
  <2>3. ~(ApiKey!Authorize(q) \/ ApiKey!CountAdmins(q) \/ ApiKey!Fail(q))
    BY <1>3 DEF ApiKey!Authorize, ApiKey!CountAdmins, ApiKey!Fail, ApiKey!AdminKeys
  <2>4. ApiKey!RevokeKey(q)
    BY <2>1, <2>2, <2>3
  <2>5. /\ kpc[q] = "writing" /\ kpc'[q] = "done" /\ kjob[q].key \in ApiKeyNames
        /\ row' = [row EXCEPT ![kjob[q].key] = "revoked"] /\ role' = role
    BY <2>0, <2>4 DEF ApiKey!RevokeKey, ApiKey!Go, KeyTypes, ApiKey!Jobs
  <2>6. ApiKey!AdminKeys = {kjob[q].key}
    BY <1>3, <2>0, <2>5 DEF ApiKey!AdminKeys, KeyTypes
  <2>7. ApiKey!Cardinality(ApiKey!AdminKeys) = 1
    <3>1. Cardinality({kjob[q].key}) = 1
      BY FS_Singleton
    <3>2. ApiKey!Cardinality({kjob[q].key}) = 1
      BY <2>5, <3>1, KeySets
    <3>. QED  BY <2>6, <3>2
  <2>8. counted[q] \in Nat /\ counted[q] >= 2 /\ AnotherDone(q)
    BY <1>3, <2>0, <2>5, <2>6, <2>7 DEF KeyInv, KeyTypes
  <2>. QED  BY <2>5, <2>7, <2>8 DEF AnotherDone
<1>4. KeyInv /\ [ApiKey!Next]_(ApiKey!vars) =>
        [ApiKey!AdminKeys # {} /\ ApiKey!AdminKeys' = {} =>
            \E q, p \in KeyRequests :
                /\ kpc[q] = "writing" /\ kpc'[q] = "done"
                /\ counted[q] > ApiKey!Cardinality(ApiKey!AdminKeys)
                /\ p # q /\ kpc[p] = "done" /\ kindOf[p] = "revoke"]_(ApiKey!vars)
  BY <1>3
<1>. QED  BY <1>1, <1>2, <1>4, PTL DEF ApiKey!Spec, ApiKey!LastAdminOnlyByRace

-----------------------------------------------------------------------------
\* Tokens of MCP servers (McpOAuth)

CONSTANTS TokenCalls, Reauths, Lifetime, TokenMargin, TokenDelay, Lag,
          MaxRetries, TokenClock

VARIABLES time, present, tokenCache, live, epoch, opc, round, token, tries,
          until

Oauth == INSTANCE McpOAuth WITH
    Calls <- TokenCalls, Margin <- TokenMargin, Delay <- TokenDelay, MaxClock <- TokenClock,
    clock <- time, cache <- tokenCache, pc <- opc, due <- until

\* Tokens of MCP servers: the end that the cache believes in is at most the
\* way of a reply after the real one, and so is the time of a reply that is
\* on its way; a call is under way for less than its token has left.

CacheBounded ==
    tokenCache # None =>
        /\ tokenCache.token.dies \in Nat /\ tokenCache.expires \in Nat
        /\ tokenCache.expires <= tokenCache.token.dies + TokenDelay

TaskBounded(t) ==
    /\ until[t] \in Nat
    /\ opc[t] = "issued" =>
          /\ token[t].dies \in Nat
          /\ time + Lifetime <= token[t].dies + TokenDelay
          /\ until[t] + Lifetime <= token[t].dies + TokenDelay
    /\ opc[t] = "send" => token[t].dies \in Nat /\ time < token[t].dies /\ until[t] < token[t].dies

TokenInv ==
    /\ time \in Nat
    /\ DOMAIN opc = Oauth!Tasks /\ DOMAIN token = Oauth!Tasks /\ DOMAIN until = Oauth!Tasks
    /\ CacheBounded
    /\ \A t \in Oauth!Tasks : TaskBounded(t)

\* A task that goes on with k for at most d.
LEMMA TokenGoes ==
  ASSUME TokenInv, Oauth!ConstantsAssumption, NEW t \in Oauth!Tasks,
         NEW stage, NEW n, NEW k, NEW d \in Nat, Oauth!Go(t, stage, n, k, d),
         stage = "issued" => k.dies = time + Lifetime /\ d = TokenDelay,
         stage = "send" => k.dies \in Nat /\ time + d < k.dies,
         time' = time, CacheBounded'
  PROVE  TokenInv'
<1>1. /\ opc' = [opc EXCEPT ![t] = stage] /\ token' = [token EXCEPT ![t] = k]
      /\ until' = [until EXCEPT ![t] = IF d = 0 THEN 0 ELSE time + d]
  BY DEF Oauth!Go
<1>2. TaskBounded(t)'
  BY <1>1 DEF TokenInv, TaskBounded, Oauth!ConstantsAssumption
<1>3. \A u \in Oauth!Tasks \ {t} : TaskBounded(u)'
  BY <1>1 DEF TokenInv, TaskBounded
<1>. QED  BY <1>1, <1>2, <1>3 DEF TokenInv

\* A task that has got a token which will do.
LEMMA TokenObtained ==
  ASSUME TokenInv, Oauth!ConstantsAssumption, NEW t \in Oauth!Tasks, NEW k, Oauth!Obtain(t, k),
         k.dies \in Nat, time + Lag < k.dies, time' = time, CacheBounded'
  PROVE  TokenInv'
<1>1. CASE t \in Reauths
  <2>1. Oauth!Go(t, "over", 1, Oauth!NoToken, 0)
    BY <1>1 DEF Oauth!Obtain, Oauth!End, Oauth!ConstantsAssumption
  <2>. QED  BY <2>1, TokenGoes
<1>2. CASE t \in TokenCalls /\ round[t] = 2
  <2>1. Oauth!Go(t, "check", 3, Oauth!NoToken, 0)
    BY <1>2 DEF Oauth!Obtain, Oauth!ConstantsAssumption
  <2>. QED  BY <2>1, TokenGoes
<1>3. CASE t \notin Reauths /\ round[t] # 2
  <2>1. Oauth!Go(t, "send", round[t], k, Lag)
    BY <1>3 DEF Oauth!Obtain
  <2>2. Lag \in Nat
    BY DEF Oauth!ConstantsAssumption
  <2>. QED  BY <2>1, <2>2, TokenGoes
<1>. QED  BY <1>1, <1>2, <1>3 DEF Oauth!Tasks

LEMMA TokenGivenUp ==
  ASSUME TokenInv, Oauth!ConstantsAssumption, NEW t \in Oauth!Tasks,
         Oauth!GiveUp(t) \/ (\E stage \in {"over", "refused"} : Oauth!End(t, stage)),
         time' = time, CacheBounded'
  PROVE  TokenInv'
<1>1. \E stage \in {"over", "refused", "check"}, n \in Nat : Oauth!Go(t, stage, n, Oauth!NoToken, 0)
  BY DEF Oauth!GiveUp, Oauth!End
<1>. QED  BY <1>1, TokenGoes

LEMMA TokenIssued ==
  ASSUME TokenInv, Oauth!ConstantsAssumption, NEW t \in Oauth!Tasks, NEW refresh,
         Oauth!Issue(t, refresh), UNCHANGED <<time, tokenCache>>
  PROVE  TokenInv'
<1>. DEFINE k == [dies |-> time + Lifetime, epoch |-> epoch,
                  refresh |-> IF refresh = None THEN token[t].refresh ELSE refresh]
<1>1. Oauth!Go(t, "issued", round[t], k, TokenDelay)
  BY DEF Oauth!Issue
<1>2. k.dies = time + Lifetime
  OBVIOUS
<1>3. TokenDelay \in Nat /\ CacheBounded'
  BY DEF Oauth!ConstantsAssumption, TokenInv, CacheBounded
<1>. HIDE DEF k
<1>. QED  BY <1>1, <1>2, <1>3, TokenGoes

LEMMA TokensKeepInv ==
  ASSUME TokenInv, Oauth!ConstantsAssumption, [Oauth!Next]_(Oauth!vars)
  PROVE  TokenInv'
<1>0. UNCHANGED tokenCache => CacheBounded'
  BY DEF TokenInv, CacheBounded
<1>1. ASSUME NEW t \in Oauth!Tasks, Oauth!Start(t)
      PROVE  TokenInv'
  <2>1. Oauth!Go(t, "check", 1, Oauth!NoToken, 0) /\ UNCHANGED <<time, tokenCache>>
    BY <1>1 DEF Oauth!Start
  <2>. QED  BY <1>0, <2>1, TokenGoes
<1>2. ASSUME NEW t \in Oauth!Tasks, Oauth!CheckToken(t)
      PROVE  TokenInv'
  <2>1. UNCHANGED <<time, tokenCache>>
    BY <1>2 DEF Oauth!CheckToken
  <2>2. CASE tokenCache # None /\ Oauth!Fresh
    <3>1. Oauth!Obtain(t, tokenCache.token)
      BY <1>2, <2>2 DEF Oauth!CheckToken
    <3>2. tokenCache.token.dies \in Nat /\ time + Lag < tokenCache.token.dies
      BY <2>2 DEF Oauth!Fresh, TokenInv, CacheBounded, Oauth!ConstantsAssumption
    <3>. QED  BY <1>0, <2>1, <3>1, <3>2, TokenObtained
  <2>3. CASE ~(tokenCache # None /\ Oauth!Fresh)
    <3>1. Oauth!Go(t, "capture", round[t], Oauth!NoToken, 0)
      BY <1>2, <2>3 DEF Oauth!CheckToken
    <3>. QED  BY <1>0, <2>1, <3>1, TokenGoes
  <2>. QED  BY <2>2, <2>3
<1>3. ASSUME NEW t \in Oauth!Tasks, Oauth!CaptureToken(t)
      PROVE  TokenInv'
  <2>1. UNCHANGED <<time, tokenCache>>
    BY <1>3 DEF Oauth!CaptureToken
  <2>2. CASE tokenCache = None
    <3>1. Oauth!GiveUp(t)
      BY <1>3, <2>2 DEF Oauth!CaptureToken
    <3>. QED  BY <1>0, <2>1, <3>1, TokenGivenUp
  <2>3. CASE tokenCache # None
    <3>1. \E stage \in {"refresh", "acquire"} : Oauth!Go(t, stage, round[t], tokenCache.token, 0)
      BY <1>3, <2>3 DEF Oauth!CaptureToken
    <3>. QED  BY <1>0, <2>1, <3>1, TokenGoes
  <2>. QED  BY <2>2, <2>3
<1>4. ASSUME NEW t \in Oauth!Tasks, Oauth!Refresh(t) \/ Oauth!Acquire(t)
      PROVE  TokenInv'
  <2>1. UNCHANGED <<time, tokenCache>> /\ \E refresh : Oauth!Issue(t, refresh)
    BY <1>4 DEF Oauth!Refresh, Oauth!Acquire
  <2>. QED  BY <2>1, TokenIssued
<1>5. ASSUME NEW t \in Oauth!Tasks, Oauth!RefreshFails(t)
      PROVE  TokenInv'
  <2>1. UNCHANGED <<time, tokenCache>>
    BY <1>5 DEF Oauth!RefreshFails
  <2>2. CASE UNCHANGED <<opc, token, until>>
    BY <2>1, <2>2 DEF TokenInv, TaskBounded, CacheBounded
  <2>3. CASE Oauth!Go(t, "acquire", round[t], token[t], 0)
    BY <1>0, <2>1, <2>3, TokenGoes
  <2>. QED  BY <1>5, <2>2, <2>3 DEF Oauth!RefreshFails
<1>6. ASSUME NEW t \in Oauth!Tasks, Oauth!AcquireFails(t) \/ Oauth!Drop(t)
      PROVE  TokenInv'
  <2>1. UNCHANGED <<time, tokenCache>> /\ (Oauth!GiveUp(t) \/ Oauth!End(t, "over"))
    BY <1>6 DEF Oauth!AcquireFails, Oauth!Drop
  <2>. QED  BY <1>0, <2>1, TokenGivenUp
<1>7. ASSUME NEW t \in Oauth!Tasks, Oauth!Receive(t)
      PROVE  TokenInv'
  <2>1. /\ opc[t] = "issued" /\ time' = time
        /\ tokenCache' = [token |-> token[t], expires |-> time + Lifetime]
        /\ Oauth!Obtain(t, token[t])
    BY <1>7 DEF Oauth!Receive
  <2>2. token[t].dies \in Nat /\ time + Lifetime <= token[t].dies + TokenDelay
    BY <2>1 DEF TokenInv, TaskBounded
  <2>3. CacheBounded' /\ time + Lag < token[t].dies
    BY <2>1, <2>2 DEF CacheBounded, TokenInv, Oauth!ConstantsAssumption
  <2>. QED  BY <2>1, <2>2, <2>3, TokenObtained
<1>8. ASSUME NEW t \in Oauth!Tasks, Oauth!Send(t)
      PROVE  TokenInv'
  <2>1. UNCHANGED <<time, tokenCache>>
    BY <1>8 DEF Oauth!Send
  <2>2. \/ \E stage \in {"over", "refused"} : Oauth!End(t, stage)
        \/ Oauth!Go(t, "check", 2, Oauth!NoToken, 0)
    BY <1>8 DEF Oauth!Send
  <2>. QED  BY <1>0, <2>1, <2>2, TokenGivenUp, TokenGoes
<1>9. ASSUME Oauth!RemoveToken \/ Oauth!Revoke
      PROVE  TokenInv'
  BY <1>9 DEF Oauth!RemoveToken, Oauth!Revoke, Oauth!task, TokenInv, TaskBounded, CacheBounded
<1>10. ASSUME Oauth!Tick
       PROVE  TokenInv'
  <2>1. /\ time' = time + 1 /\ UNCHANGED <<tokenCache, opc, token, until>>
        /\ \A t \in Oauth!Tasks : opc[t] \in {"issued", "send"} => time < until[t]
    BY <1>10 DEF Oauth!Tick, Oauth!task
  <2>2. ASSUME NEW t \in Oauth!Tasks
        PROVE  TaskBounded(t)'
    BY <2>1, <2>2 DEF TokenInv, TaskBounded, Oauth!ConstantsAssumption
  <2>. QED  BY <2>1, <2>2 DEF TokenInv, CacheBounded
<1>11. CASE UNCHANGED Oauth!vars
  BY <1>11 DEF Oauth!vars, Oauth!task, TokenInv, TaskBounded, CacheBounded
<1>. QED
  BY <1>1, <1>2, <1>3, <1>4, <1>5, <1>6, <1>7, <1>8, <1>9, <1>10, <1>11 DEF Oauth!Next

\* The token of a tool call that is on its way has not expired.
THEOREM TokensSentUnexpired ==
  ASSUME Oauth!ConstantsAssumption
  PROVE  Oauth!Spec => []Oauth!SentUnexpired
<1>1. Oauth!Init => TokenInv
  BY DEF Oauth!Init, TokenInv, TaskBounded, CacheBounded, Oauth!ConstantsAssumption
<1>2. TokenInv /\ [Oauth!Next]_(Oauth!vars) => TokenInv'
  BY TokensKeepInv
<1>3. TokenInv => Oauth!SentUnexpired
  BY DEF TokenInv, TaskBounded, Oauth!SentUnexpired, Oauth!Tasks
<1>. QED  BY <1>1, <1>2, <1>3, PTL DEF Oauth!Spec

-----------------------------------------------------------------------------
\* Secrets of customers (SecretStores)

CONSTANTS SecretCalls, Credentials, Contents, Lease, LeaseMargin, StoreDelay,
          SecretClock

VARIABLES now, credential, usable, content, storeCache, task, vpc, store,
          lease, deadline, got

Secret == INSTANCE SecretStores WITH
    Calls <- SecretCalls, Rows <- Credentials, Margin <- LeaseMargin, Delay <- StoreDelay,
    MaxClock <- SecretClock, clock <- now, row <- credential, active <- usable, cache <- storeCache, job <- task,
    pc <- vpc, token <- lease, due <- deadline

\* Tokens of stores: likewise, and a call that logs in has begun to at most
\* one timeout before the end of its step.

StoreBounded ==
    storeCache # None =>
        /\ storeCache.ends \in Nat /\ storeCache.believed \in Nat
        /\ storeCache.believed <= storeCache.ends + StoreDelay

CallBounded(c) ==
    /\ deadline[c] \in Nat
    /\ vpc[c] = "login" => deadline[c] <= now + StoreDelay
    /\ vpc[c] = "issued" =>
          /\ lease[c] \in Nat
          /\ now + Lease <= lease[c] + StoreDelay
          /\ deadline[c] + Lease <= lease[c] + StoreDelay
    /\ vpc[c] = "sent" => lease[c] \in Nat /\ now < lease[c] /\ deadline[c] < lease[c]
    /\ vpc[c] # "refused"

SecretInv ==
    /\ now \in Nat
    /\ DOMAIN vpc = SecretCalls /\ DOMAIN lease = SecretCalls /\ DOMAIN deadline = SecretCalls
    /\ StoreBounded
    /\ \A c \in SecretCalls : CallBounded(c)

\* A step of one call after which what it has, or has sent, is bounded.
LEMMA CallGoes ==
  ASSUME SecretInv, Secret!ConstantsAssumption, NEW c \in SecretCalls, NEW stage, NEW d \in Nat,
         Secret!Go(c, stage, d), stage \notin {"refused", "issued"},
         DOMAIN lease' = SecretCalls, \A b \in SecretCalls \ {c} : lease'[b] = lease[b],
         stage = "login" => d = StoreDelay,
         stage = "sent" => lease'[c] \in Nat /\ now + d < lease'[c],
         now' = now, StoreBounded'
  PROVE  SecretInv'
<1>1. /\ vpc' = [vpc EXCEPT ![c] = stage]
      /\ deadline' = [deadline EXCEPT ![c] = IF d = 0 THEN 0 ELSE now + d]
  BY DEF Secret!Go
<1>2. CallBounded(c)'
  BY <1>1 DEF SecretInv, CallBounded, Secret!ConstantsAssumption
<1>3. \A b \in SecretCalls \ {c} : CallBounded(b)'
  BY <1>1 DEF SecretInv, CallBounded
<1>. QED  BY <1>1, <1>2, <1>3 DEF SecretInv

LEMMA CallMoves ==
  ASSUME SecretInv, Secret!ConstantsAssumption, NEW c \in SecretCalls,
         NEW stage \in {"lookup", "token", "health", "failed", "done"}, Secret!Go(c, stage, 0),
         UNCHANGED <<now, storeCache, lease>>
  PROVE  SecretInv'
<1>1. StoreBounded' /\ DOMAIN lease' = SecretCalls
  BY DEF SecretInv, StoreBounded
<1>. QED  BY <1>1, CallGoes

LEMMA CallSends ==
  ASSUME SecretInv, Secret!ConstantsAssumption, NEW c \in SecretCalls, NEW ends \in Nat,
         Secret!Send(c, ends), now + StoreDelay < ends, now' = now, StoreBounded'
  PROVE  SecretInv'
<1>1. /\ DOMAIN lease' = SecretCalls /\ lease'[c] = ends
      /\ \A b \in SecretCalls \ {c} : lease'[b] = lease[b]
  BY DEF Secret!Send, SecretInv
<1>2. CASE Secret!Go(c, "done", 0)
  BY <1>1, <1>2, CallGoes
<1>3. CASE Secret!Go(c, "sent", StoreDelay)
  <2>1. StoreDelay \in Nat
    BY DEF Secret!ConstantsAssumption
  <2>2. lease'[c] \in Nat /\ now + StoreDelay < lease'[c]
    BY <1>1
  <2>. QED  BY <1>1, <1>3, <2>1, <2>2, CallGoes
<1>. QED  BY <1>2, <1>3 DEF Secret!Send

LEMMA SecretsKeepInv ==
  ASSUME SecretInv, Secret!ConstantsAssumption, 2 * StoreDelay < Lease,
         [Secret!Next]_(Secret!vars)
  PROVE  SecretInv'
<1>0. StoreDelay \in Nat /\ Lease \in Nat /\ LeaseMargin \in Nat /\ 2 * StoreDelay <= LeaseMargin
  BY DEF Secret!ConstantsAssumption
<1>1. ASSUME NEW c \in SecretCalls,
             Secret!Retrieve(c) \/ Secret!RetrieveCredential(c) \/ Secret!ListBackends(c)
      PROVE  SecretInv'
  <2>1. /\ UNCHANGED <<now, storeCache, lease>>
        /\ \E stage \in {"lookup", "health", "failed"} : Secret!Go(c, stage, 0)
    BY <1>1 DEF Secret!Retrieve, Secret!RetrieveCredential, Secret!ListBackends, Secret!Fail,
                Secret!World
  <2>. QED  BY <2>1, CallMoves
<1>2. ASSUME NEW c \in SecretCalls,
             Secret!BuiltinRetrieve(c) \/ Secret!ExternalRetrieve(c)
      PROVE  SecretInv'
  <2>1. /\ UNCHANGED <<now, storeCache, lease>>
        /\ \E stage \in {"done", "failed", "token"} : Secret!Go(c, stage, 0)
    BY <1>2 DEF Secret!BuiltinRetrieve, Secret!ExternalRetrieve, Secret!Fail, Secret!World
  <2>. QED  BY <2>1, CallMoves
<1>3. ASSUME NEW c \in SecretCalls, Secret!HealthCheck(c)
      PROVE  SecretInv'
  <2>1. /\ UNCHANGED <<now, storeCache, lease>>
        /\ \E stage \in {"done", "failed", "token"} : Secret!Go(c, stage, 0)
    BY <1>3 DEF Secret!HealthCheck, Secret!Fail, Secret!World
  <2>. QED  BY <2>1, CallMoves
<1>4. ASSUME NEW c \in SecretCalls, Secret!LoginFails(c) \/ Secret!CallFails(c)
      PROVE  SecretInv'
  <2>1. UNCHANGED <<now, storeCache, lease>> /\ Secret!Go(c, "failed", 0)
    BY <1>4 DEF Secret!LoginFails, Secret!CallFails, Secret!Fail, Secret!World
  <2>. QED  BY <2>1, CallMoves
<1>5. ASSUME NEW c \in SecretCalls, Secret!GetToken(c)
      PROVE  SecretInv'
  <2>1. UNCHANGED <<now, storeCache>> /\ StoreBounded'
    BY <1>5 DEF Secret!GetToken, Secret!World, SecretInv, StoreBounded
  <2>2. CASE storeCache # None /\ ~Secret!NeedsRefresh(storeCache)
    <3>1. Secret!Send(c, storeCache.ends)
      BY <1>5, <2>2 DEF Secret!GetToken
    <3>2. storeCache.ends \in Nat /\ now + StoreDelay < storeCache.ends
      BY <1>0, <2>2 DEF Secret!NeedsRefresh, SecretInv, StoreBounded
    <3>. QED  BY <2>1, <3>1, <3>2, CallSends
  <2>3. CASE ~(storeCache # None /\ ~Secret!NeedsRefresh(storeCache))
    <3>1. Secret!Go(c, "login", StoreDelay) /\ lease' = lease
      BY <1>5, <2>3 DEF Secret!GetToken
    <3>2. DOMAIN lease' = SecretCalls
      BY <3>1 DEF SecretInv
    <3>. QED  BY <1>0, <2>1, <3>1, <3>2, CallGoes
  <2>. QED  BY <2>2, <2>3
<1>6. ASSUME NEW c \in SecretCalls, Secret!Login(c)
      PROVE  SecretInv'
  <2>1. /\ UNCHANGED <<now, storeCache, deadline>> /\ vpc[c] = "login"
        /\ vpc' = [vpc EXCEPT ![c] = "issued"] /\ lease' = [lease EXCEPT ![c] = now + Lease]
    BY <1>6 DEF Secret!Login, Secret!World
  <2>2. CallBounded(c)'
    BY <1>0, <2>1 DEF SecretInv, CallBounded
  <2>3. \A b \in SecretCalls \ {c} : CallBounded(b)'
    BY <2>1 DEF SecretInv, CallBounded
  <2>. QED  BY <2>1, <2>2, <2>3 DEF SecretInv, StoreBounded
<1>7. ASSUME NEW c \in SecretCalls, Secret!Authenticate(c)
      PROVE  SecretInv'
  <2>1. /\ vpc[c] = "issued" /\ now' = now /\ Secret!Send(c, lease[c])
        /\ storeCache' = [ends |-> lease[c], believed |-> now + Lease]
    BY <1>7 DEF Secret!Authenticate
  <2>2. lease[c] \in Nat /\ now + Lease <= lease[c] + StoreDelay /\ now \in Nat
    BY <2>1 DEF SecretInv, CallBounded
  <2>3. StoreBounded' /\ now + StoreDelay < lease[c]
    BY <1>0, <2>1, <2>2 DEF StoreBounded
  <2>. QED  BY <2>1, <2>2, <2>3, CallSends
<1>8. ASSUME NEW c \in SecretCalls,
             Secret!Decrypt(c) \/ Secret!ReadSecret(c) \/ Secret!FetchSecret(c)
      PROVE  SecretInv'
  <2>1. /\ UNCHANGED <<now, storeCache>> /\ vpc[c] = "sent"
        /\ \E plain : Secret!Answer(c, plain)
    BY <1>8 DEF Secret!Decrypt, Secret!ReadSecret, Secret!FetchSecret, Secret!Arrive, Secret!World
  <2>2. now < lease[c] /\ lease[c] \in Nat /\ now \in Nat
    BY <2>1 DEF SecretInv, CallBounded
  <2>3. lease' = lease /\ \E stage \in {"done", "failed"} : Secret!Go(c, stage, 0)
    BY <2>1, <2>2 DEF Secret!Answer, Secret!Fail
  <2>. QED  BY <2>1, <2>3, CallMoves
<1>9. ASSUME Secret!Delete
      PROVE  SecretInv'
  BY <1>9 DEF Secret!Delete, Secret!call, SecretInv, CallBounded, StoreBounded
<1>10. ASSUME Secret!Tick
       PROVE  SecretInv'
  <2>1. /\ now' = now + 1 /\ UNCHANGED <<storeCache, vpc, lease, deadline>>
        /\ \A c \in SecretCalls : vpc[c] \in {"login", "issued", "sent"} => now < deadline[c]
    BY <1>10 DEF Secret!Tick, Secret!call
  <2>2. ASSUME NEW c \in SecretCalls
        PROVE  CallBounded(c)'
    BY <1>0, <2>1, <2>2 DEF SecretInv, CallBounded
  <2>. QED  BY <2>1, <2>2 DEF SecretInv, StoreBounded
<1>11. CASE UNCHANGED Secret!vars
  BY <1>11 DEF Secret!vars, Secret!call, SecretInv, CallBounded, StoreBounded
<1>. QED
  BY <1>1, <1>2, <1>3, <1>4, <1>5, <1>6, <1>7, <1>8, <1>9, <1>10, <1>11 DEF Secret!Next

\* No call reaches a customer's store with a token that has ended.
THEOREM StoreTokensOutliveCalls ==
  ASSUME Secret!ConstantsAssumption
  PROVE  Secret!Spec => []Secret!TokenOutlivesCall
<1>. DEFINE Inv == 2 * StoreDelay < Lease => SecretInv
<1>1. Secret!Init => Inv
  BY DEF Secret!Init, SecretInv, CallBounded, StoreBounded, Secret!ConstantsAssumption
<1>2. Inv /\ [Secret!Next]_(Secret!vars) => Inv'
  BY SecretsKeepInv
<1>3. Inv => Secret!TokenOutlivesCall
  BY DEF SecretInv, CallBounded, Secret!TokenOutlivesCall
<1>. QED  BY <1>1, <1>2, <1>3, PTL DEF Secret!Spec

-----------------------------------------------------------------------------
\* Prices (PriceTable)

CONSTANTS Instances, PriceTasks, PriceWorkloads, Order, Within, MaxOutages

VARIABLES prices, copy, pricing, mpc, rows, single, behind, outages

Price == INSTANCE PriceTable WITH
    Tasks <- PriceTasks, Workloads <- PriceWorkloads, MaxRestarts <- MaxOutages,
    table <- prices, cache <- copy, job <- pricing, pc <- mpc, read <- rows, alone <- single,
    restarts <- outages

\* Prices: a task that no other change has met and that has read the table has
\* the table still, so that its process's copy becomes that.

Reloads(i) == \E t \in PriceTasks : pricing[t].at = i /\ Price!Reloading(t)

PriceInv ==
    /\ DOMAIN copy = Instances /\ DOMAIN mpc = PriceTasks /\ DOMAIN rows = PriceTasks
    /\ \A i \in Instances \ behind : ~Reloads(i) => copy[i] = prices
    /\ \A t \in single \cap PriceTasks : mpc[t] = "replace" => rows[t] = prices

\* A task changes the table: what the others have read is old, and so are the
\* copies of the other processes.
LEMMA PricesChanged ==
  ASSUME PriceInv, NEW t \in PriceTasks, Price!Meets(t), Price!Go(t, "read"),
         UNCHANGED <<copy, pricing, rows>>
  PROVE  PriceInv'
<1>1. mpc' = [mpc EXCEPT ![t] = "read"] /\ DOMAIN mpc' = PriceTasks
  BY DEF PriceInv, Price!Go
<1>2. ASSUME NEW i \in Instances \ behind'
      PROVE  Reloads(i)'
  <2>1. i = pricing[t].at
    BY <1>2 DEF Price!Meets
  <2>2. mpc'[t] = "read"
    BY <1>1 DEF PriceInv
  <2>. QED  BY <2>1, <2>2 DEF Reloads, Price!Reloading
<1>3. ASSUME NEW u \in single' \cap PriceTasks, mpc'[u] = "replace"
      PROVE  FALSE
  <2>1. u # t /\ mpc[u] = "replace"
    BY <1>1, <1>3 DEF PriceInv
  <2>2. u \in {v \in PriceTasks \ {t} : Price!Reloading(v)}
    BY <1>3, <2>1 DEF Price!Reloading
  <2>3. u \notin single'
    BY <2>2 DEF Price!Meets
  <2>. QED  BY <1>3, <2>3
<1>4. DOMAIN copy' = Instances /\ DOMAIN rows' = PriceTasks
  BY DEF PriceInv
<1>. QED  BY <1>1, <1>2, <1>3, <1>4 DEF PriceInv

LEMMA PricesKeepInv ==
  ASSUME PriceInv, [Price!Next]_(Price!vars)
  PROVE  PriceInv'
<1>0. DOMAIN copy = Instances /\ DOMAIN mpc = PriceTasks /\ DOMAIN rows = PriceTasks
  BY DEF PriceInv
<1>1. ASSUME NEW t \in PriceTasks, Price!Upsert(t) \/ Price!Delete(t)
      PROVE  PriceInv'
  <2>1. CASE Price!Meets(t) /\ Price!Go(t, "read")
    BY <1>1, <2>1, PricesChanged DEF Price!Upsert, Price!Delete
  <2>2. CASE /\ mpc[t] = "start" /\ Price!Go(t, "over")
             /\ UNCHANGED <<prices, copy, pricing, rows, single, behind>>
    <3>1. \A i \in Instances : Reloads(i)' <=> Reloads(i)
      BY <1>0, <2>2 DEF Reloads, Price!Reloading, Price!Go
    <3>2. \A u \in PriceTasks : mpc'[u] = "replace" => mpc[u] = "replace"
      BY <1>0, <2>2 DEF Price!Go
    <3>3. DOMAIN mpc' = PriceTasks
      BY <1>0, <2>2 DEF Price!Go
    <3>. QED  BY <2>2, <3>1, <3>2, <3>3 DEF PriceInv
  <2>. QED  BY <1>1, <2>1, <2>2 DEF Price!Upsert, Price!Delete
<1>2. ASSUME NEW t \in PriceTasks, Price!Refuse(t)
      PROVE  PriceInv'
  <2>1. \A i \in Instances : Reloads(i)' <=> Reloads(i)
    BY <1>0, <1>2 DEF Price!Refuse, Reloads, Price!Reloading, Price!Go
  <2>2. \A u \in PriceTasks : mpc'[u] = "replace" => mpc[u] = "replace"
    BY <1>0, <1>2 DEF Price!Refuse, Price!Go
  <2>3. DOMAIN mpc' = PriceTasks /\ UNCHANGED <<prices, copy, rows, single, behind>>
    BY <1>0, <1>2 DEF Price!Refuse, Price!Go
  <2>. QED  BY <2>1, <2>2, <2>3 DEF PriceInv
<1>3. ASSUME NEW t \in PriceTasks, Price!ReadRows(t)
      PROVE  PriceInv'
  <2>1. \A i \in Instances : Reloads(i)' <=> Reloads(i)
    BY <1>0, <1>3 DEF Price!ReadRows, Reloads, Price!Reloading, Price!Go
  <2>2. \A u \in PriceTasks : rows'[u] = rows[u] \/ rows'[u] = prices
    BY <1>0, <1>3 DEF Price!ReadRows
  <2>3. \A u \in PriceTasks : mpc'[u] = "replace" => mpc[u] = "replace" \/ rows'[u] = prices
    BY <1>0, <1>3 DEF Price!ReadRows, Price!Go
  <2>4. /\ DOMAIN mpc' = PriceTasks /\ DOMAIN rows' = PriceTasks
        /\ UNCHANGED <<prices, copy, single, behind>>
    BY <1>0, <1>3 DEF Price!ReadRows, Price!Go
  <2>. QED  BY <2>1, <2>2, <2>3, <2>4 DEF PriceInv
<1>4. ASSUME NEW t \in PriceTasks, Price!Leave(t) \/ Price!Reload(t)
      PROVE  PriceInv'
  <2>1. mpc' = [mpc EXCEPT ![t] = "over"] /\ UNCHANGED <<prices, pricing, rows, single>>
    BY <1>4 DEF Price!Leave, Price!Reload, Price!Go
  <2>2. /\ DOMAIN mpc' = PriceTasks /\ DOMAIN rows' = PriceTasks /\ DOMAIN copy' = Instances
        /\ \A u \in PriceTasks : mpc'[u] = "replace" => mpc[u] = "replace" /\ u # t
    BY <1>0, <1>4, <2>1 DEF Price!Leave, Price!Reload
  <2>3. ASSUME NEW i \in Instances \ behind', i # pricing[t].at, ~Reloads(i)'
        PROVE  copy'[i] = prices'
    <3>1. i \notin behind /\ copy'[i] = copy[i]
      BY <1>0, <1>4, <2>3 DEF Price!Leave, Price!Reload
    <3>2. ~Reloads(i)
      BY <1>0, <2>1, <2>3 DEF Reloads, Price!Reloading
    <3>. QED  BY <2>1, <3>1, <3>2 DEF PriceInv
  <2>4. ASSUME NEW i \in Instances \ behind', i = pricing[t].at
        PROVE  copy'[i] = prices'
    <3>1. Price!Reload(t) /\ t \in single
      BY <1>4, <2>4 DEF Price!Leave, Price!Reload
    <3>2. rows[t] = prices
      BY <3>1 DEF PriceInv, Price!Reload
    <3>. QED  BY <1>0, <2>1, <2>4, <3>1, <3>2 DEF Price!Reload
  <2>5. \A u \in single' \cap PriceTasks : mpc'[u] = "replace" => rows'[u] = prices'
    BY <2>1, <2>2 DEF PriceInv
  <2>. QED  BY <2>2, <2>3, <2>4, <2>5 DEF PriceInv
<1>5. ASSUME NEW i \in Instances, Price!Restart(i)
      PROVE  PriceInv'
  <2>1. /\ DOMAIN mpc' = PriceTasks /\ DOMAIN copy' = Instances
        /\ UNCHANGED <<prices, pricing, rows, single>>
    BY <1>0, <1>5 DEF Price!Restart
  <2>2. \A t \in PriceTasks : mpc'[t] = "replace" => mpc[t] = "replace"
    BY <1>5 DEF Price!Restart
  <2>3. ASSUME NEW j \in Instances \ behind', j # i, ~Reloads(j)'
        PROVE  copy'[j] = prices'
    <3>1. j \notin behind /\ copy'[j] = copy[j]
      BY <1>0, <1>5, <2>3 DEF Price!Restart
    <3>2. \A t \in PriceTasks : pricing[t].at = j => mpc'[t] = mpc[t]
      BY <1>5, <2>3 DEF Price!Restart
    <3>3. ~Reloads(j)
      BY <2>1, <2>3, <3>2 DEF Reloads, Price!Reloading
    <3>. QED  BY <2>1, <3>1, <3>3 DEF PriceInv
  <2>4. i \in behind' \/ copy'[i] = prices'
    BY <1>0, <1>5, <2>1 DEF Price!Restart
  <2>5. \A u \in single' \cap PriceTasks : mpc'[u] = "replace" => rows'[u] = prices'
    BY <2>1, <2>2 DEF PriceInv
  <2>. QED  BY <1>0, <2>1, <2>3, <2>4, <2>5 DEF PriceInv
<1>6. CASE UNCHANGED Price!vars
  BY <1>6 DEF Price!vars, PriceInv, Reloads, Price!Reloading
<1>. QED
  BY <1>1, <1>2, <1>3, <1>4, <1>5, <1>6 DEF Price!Next

\* When none of its tasks is reloading, a process's copy of the prices is the
\* table, unless a failure or another change has come between.
THEOREM PricesOfProcessLive == Price!Spec => []Price!PricesLive
<1>1. Price!Init => PriceInv
  BY DEF Price!Init, PriceInv
<1>2. PriceInv /\ [Price!Next]_(Price!vars) => PriceInv'
  BY PricesKeepInv
<1>3. PriceInv => Price!PricesLive
  BY DEF PriceInv, Price!PricesLive, Reloads
<1>. QED  BY <1>1, <1>2, <1>3, PTL DEF Price!Spec

-----------------------------------------------------------------------------
\* Sessions (SessionLifecycle)

CONSTANTS SessionRequests, sessionCost, Admins, SpendCaps, MaxStatusChanges

VARIABLES status, completed, cap, total, idle, spc, apc, wasStatus, wanted,
          changes

Session == INSTANCE SessionLifecycle WITH
    Requests <- SessionRequests, cost <- sessionCost, Caps <- SpendCaps,
    MaxChanges <- MaxStatusChanges, pc <- spc, seen <- wasStatus

\* Sessions: a change that is being written was allowed when its status was read.

SessionInv ==
    /\ apc \in [Admins -> {"idle", "writing"}]
    /\ DOMAIN wasStatus = Admins /\ DOMAIN wanted = Admins
    /\ \A a \in Admins : apc[a] = "writing" => Session!Valid(wasStatus[a], wanted[a])

LEMMA SessionKeepsInv ==
  ASSUME SessionInv, [Session!Next]_(Session!vars)
  PROVE  SessionInv'
<1>1. ASSUME NEW r \in SessionRequests,
             \/ Session!Upsert(r) \/ Session!UpsertFails(r) \/ Session!Respond(r)
             \/ Session!End(r) \/ Session!Increment(r) \/ Session!IncrementFails(r)
      PROVE  SessionInv'
  BY <1>1 DEF SessionInv, Session!Upsert, Session!UpsertFails, Session!Respond, Session!End,
              Session!Increment, Session!IncrementFails, Session!Valid
<1>2. ASSUME NEW a \in Admins, NEW new \in Session!Asked, Session!ReadStatus(a, new)
      PROVE  SessionInv'
  BY <1>2 DEF SessionInv, Session!ReadStatus, Session!Valid
<1>3. ASSUME NEW a \in Admins, Session!WriteStatus(a) \/ Session!WriteFails(a)
      PROVE  SessionInv'
  BY <1>3 DEF SessionInv, Session!WriteStatus, Session!WriteFails, Session!Valid
<1>4. ASSUME (\E c \in SpendCaps : Session!SetSpendCap(c)) \/ Session!GoIdle
                \/ Session!ExpireOrphaned
      PROVE  SessionInv'
  BY <1>4 DEF SessionInv, Session!SetSpendCap, Session!GoIdle, Session!ExpireOrphaned,
              Session!Valid
<1>5. CASE UNCHANGED Session!vars
  BY <1>5 DEF SessionInv, Session!vars, Session!Valid
<1>. QED  BY <1>1, <1>2, <1>3, <1>4, <1>5 DEF Session!Next

\* A transition that sessions.rs does not know is made by a write whose read
\* is out of date: the other steps change the status as they may.
THEOREM StatusBrokenOnlyByRace == Session!Spec => Session!InvalidOnlyByRace
<1>1. Session!Init => SessionInv
  BY DEF Session!Init, SessionInv
<1>2. SessionInv /\ [Session!Next]_(Session!vars) => SessionInv'
  BY SessionKeepsInv
<1>3. ASSUME SessionInv, Session!Next, status \in Session!Status, status # status',
             <<status, status'>> \notin
                 ({"active"} \X {"paused", "completed", "expired"})
                     \cup ({"paused"} \X {"active", "expired"})
      PROVE  \E a \in Admins : Session!WriteStatus(a) /\ wasStatus[a] # status
  <2>1. ASSUME NEW r \in SessionRequests, Session!Upsert(r)
        PROVE  status' = status
    BY <1>3, <2>1 DEF Session!Upsert, Session!Status, Session!Live
  <2>2. ASSUME NEW a \in Admins, Session!WriteStatus(a)
        PROVE  wasStatus[a] # status
    BY <1>3, <2>2 DEF SessionInv, Session!WriteStatus, Session!Valid
  <2>3. ~Session!ExpireOrphaned
    BY <1>3 DEF Session!ExpireOrphaned, Session!Orphaned, Session!Live
  <2>4. \E a \in Admins : Session!WriteStatus(a)
    BY <1>3, <2>1, <2>3
       DEF Session!Next, Session!UpsertFails, Session!Respond, Session!End, Session!Increment,
           Session!IncrementFails, Session!ReadStatus, Session!WriteFails, Session!SetSpendCap,
           Session!GoIdle, Session!row
  <2>. QED  BY <2>2, <2>4
<1>4. SessionInv /\ [Session!Next]_(Session!vars) =>
        [(/\ status \in Session!Status
          /\ status # status'
          /\ <<status, status'>> \notin
                 ({"active"} \X {"paused", "completed", "expired"})
                     \cup ({"paused"} \X {"active", "expired"}))
         => \E a \in Admins : Session!WriteStatus(a) /\ wasStatus[a] # status]_(Session!vars)
  BY <1>3
<1>. QED  BY <1>1, <1>2, <1>4, PTL DEF Session!Spec, Session!InvalidOnlyByRace

-----------------------------------------------------------------------------
\* The properties of the parts, together.

\* What the modules assume of their constants.
ASSUME PartsAssumption ==
    /\ Session!ConstantsAssumption /\ Prompt!ConstantsAssumption /\ ApiKey!ConstantsAssumption
    /\ Login!ConstantsAssumption /\ Oauth!ConstantsAssumption /\ Secret!ConstantsAssumption
    /\ Config!ConstantsAssumption /\ Admin!JobsAssumption /\ Tool!OffersAssumption
    /\ Price!OrderAssumption /\ Tenant!NamesAssumption /\ Trial!WorkloadsAssumption
    /\ Events!StreamsAssumption /\ Voice!LimitsAssumption

\* Rules that are checked in one statement and kept by another are broken only
\* by changes that overlap: the transitions of a session's status, the last
\* admin key and the last project of an organization, the condition of an
\* experiment.
BrokenOnlyByRace ==
    /\ Session!InvalidOnlyByRace
    /\ ApiKey!LastAdminOnlyByRace
    /\ Tenant!LastProjectOnlyByRace
    /\ Trial!Preserved

\* A label renders where the last deploy put it, and a file that was applied
\* undisturbed is in the database.
ChangesLive == Prompt!DeployedIsRendered /\ Config!AppliedIsLive

\* Keys that are published are accepted, those withdrawn for a bounded time;
\* a person who logs in has one account, with a project of its organization.
LoginsHold == Login!LoginsFollowKeys /\ [](Tenant!OneAccount /\ Tenant!LastIsOwn)

\* A token that calls share, of an MCP server or of a customer's store, has not
\* expired when a call arrives with it.
TokensOutliveCalls == Oauth!SentUnexpired /\ Secret!TokenOutlivesCall

\* What an undisturbed change of policies answers is so.
AnswersHold == Admin!AnswersHold

\* A copy of what another store has is that, unless something has come between:
\* the rows of a server's tools, and the prices in a process.
CopiesKept == Tool!ToolsKept /\ Price!PricesLive

\* A stream is carried whole, however it is cut and whichever side ends it: the
\* events of a binary one, and the words of a realtime session that was let in.
StreamsCarried ==
    /\ Events!FramesDecoded /\ Events!WholeAsInParts
    /\ Voice!WordsCarried /\ Voice!WindowHolds

-----------------------------------------------------------------------------
\* Rules that one statement checks and another keeps are broken only by changes
\* that overlap, for any number of them: what a session's status may become,
\* the last admin key and the last project of an organization, the condition
\* of an experiment.
THEOREM RulesBrokenOnlyByRace ==
  Session!Spec /\ ApiKey!Spec /\ Tenant!Spec /\ Trial!Spec => BrokenOnlyByRace
<1>. SUFFICES ASSUME Session!Spec, ApiKey!Spec, Tenant!Spec, Trial!Spec  PROVE BrokenOnlyByRace
  OBVIOUS
<1>1. Session!InvalidOnlyByRace
  BY StatusBrokenOnlyByRace
<1>2. ApiKey!LastAdminOnlyByRace
  BY AdminBrokenOnlyByRace, PartsAssumption
<1>3. Tenant!LastProjectOnlyByRace
  BY ProjectsLostOnlyByRace, PartsAssumption
<1>4. Trial!Preserved
  BY ExperimentsPreserved, PartsAssumption
<1>. QED  BY <1>1, <1>2, <1>3, <1>4 DEF BrokenOnlyByRace

\* A label renders what the last deploy chose, and a file that was applied
\* undisturbed is in the database, however often it was tried before.
THEOREM ChangesAreLive == Prompt!Spec /\ Config!Spec => []ChangesLive
<1>1. Prompt!Spec => []Prompt!DeployedIsRendered
  BY LabelsRendered, PartsAssumption
<1>2. Config!Spec => []Config!AppliedIsLive
  BY FilesAreLive, PartsAssumption
<1>. QED  BY <1>1, <1>2, PTL DEF ChangesLive

\* A token of an MCP server or of a store is good when a call arrives with it,
\* whatever the lifetimes, the margins and the delays that they allow for.
THEOREM TokensGoodOnArrival == Oauth!Spec /\ Secret!Spec => []TokensOutliveCalls
<1>1. Oauth!Spec => []Oauth!SentUnexpired
  BY TokensSentUnexpired, PartsAssumption
<1>2. Secret!Spec => []Secret!TokenOutlivesCall
  BY StoreTokensOutliveCalls, PartsAssumption
<1>. QED  BY <1>1, <1>2, PTL DEF TokensOutliveCalls

\* The table has the tools of the registry, and a process the prices of the
\* table, unless another writer, a failure or a restart has come between.
THEOREM CopiesOfStoresKept == Tool!Spec /\ Price!Spec => []CopiesKept
<1>1. Tool!Spec => []Tool!ToolsKept
  BY ToolsOfMemoryKept, PartsAssumption
<1>2. Price!Spec => []Price!PricesLive
  BY PricesOfProcessLive
<1>. QED  BY <1>1, <1>2, PTL DEF CopiesKept

\* A key that is published is accepted when it is asked for, one withdrawn for
\* a bounded time only, and a person has one account, in its own organization.
THEOREM LoginsAndAccountsHold == Login!Spec /\ Tenant!Spec => LoginsHold
<1>1. Login!Spec => Login!LoginsFollowKeys
  BY KeysFollowed, PartsAssumption
<1>2. Tenant!Spec => [](Tenant!OneAccount /\ Tenant!LastIsOwn)
  BY AccountsHold, PartsAssumption
<1>. QED  BY <1>1, <1>2 DEF LoginsHold

\* What a change of policies answers is so, when no other has met it.
THEOREM PolicyAnswersHold == Admin!Spec => AnswersHold
  BY ChangesAnswered, PartsAssumption DEF AnswersHold

\* A binary stream gives the events of its intact messages, each once and in
\* their order, however it is cut, and a realtime session carries every word
\* that each side has said before it ends.
THEOREM StreamsStayWhole == Events!Spec /\ Voice!Spec => []StreamsCarried
<1>1. Events!Spec => [](Events!FramesDecoded /\ Events!WholeAsInParts)
  BY FramesStayWhole, PartsAssumption
<1>2. Voice!Spec => [](Voice!WordsCarried /\ Voice!WindowHolds)
  BY WordsStayWhole, PartsAssumption
<1>. QED  BY <1>1, <1>2, PTL DEF StreamsCarried

=============================================================================
