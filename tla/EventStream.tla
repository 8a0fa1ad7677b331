----------------------------- MODULE EventStream -----------------------------
(***************************************************************************)
(* Bedrock's binary event stream: messages of a prelude (the length of the *)
(* whole, the length of the headers, a checksum of these two), headers,    *)
(* a payload and a checksum of the whole. The bridge                       *)
(* (proxy/stream_bridge.rs, tee_bedrock_stream) cuts what has arrived into *)
(* messages by the length alone and gives each of them to the decoder      *)
(* (proxy/model_router/bedrock.rs), which cuts by itself and looks at the  *)
(* checksums. Bytes are counted in units: the first of a message is its    *)
(* prelude, the others are the rest. What becomes of the events is left to *)
(* StreamBridge.                                                           *)
(***************************************************************************)
EXTENDS Naturals, Sequences, SequencesExt

CONSTANTS
    Streams, \* what may be sent: sequences of messages
    Lengths, \* what bytes that are no prelude may say of a length
    MaxEvents

(***************************************************************************)
(* A message on its way: its size, the length it says it has, whether its  *)
(* two checksums fit, its headers and whether its payload is JSON. A       *)
(* header is the type of the event ("type") or another one, of a string,   *)
(* of a number or a Boolean, or of a kind the decoder does not know.       *)
(***************************************************************************)
HeaderKinds == {"type", "string", "number", "boolean", "unknown"}

Messages ==
    [size : Nat, says : Nat, prelude : BOOLEAN, rest : BOOLEAN, headers : Seq(HeaderKinds),
     json : BOOLEAN]

\* A length that was changed on the way does not fit its checksum.
StreamsAssumption ==
    /\ \A s \in Streams : s \in Seq(Messages) /\ \A i \in DOMAIN s :
          s[i].size >= 2 /\ (s[i].prelude => s[i].says = s[i].size)
    /\ Lengths \subseteq Nat
    /\ MaxEvents \in Nat \ {0}

VARIABLES
    stream,
    stray,    \* the length that bytes say where no message begins
    arrived,  \* units that the connection has delivered
    consumed, \* units that were cut off the buffer
    out,      \* the events that were decoded: [of, typed]
    over      \* how the connection ended, or "no"

vars == <<stream, stray, arrived, consumed, out, over>>

\* Message i begins after so many units.
Start(i) ==
    LET at[n \in 1..Len(stream) + 1] == IF n = 1 THEN 0 ELSE at[n - 1] + stream[n - 1].size
    IN  at[i]

Total == Start(Len(stream) + 1)

BeginsAt(position) == {i \in DOMAIN stream : Start(i) = position}

-----------------------------------------------------------------------------
\* parse_event_stream_header, called until it finds no header. A Boolean is
\* taken for one byte longer than it is, so that what follows it is misread.
Readable(headers) ==
    {h \in DOMAIN headers : \A g \in 1..h - 1 : headers[g] \notin {"boolean", "unknown"}}

\* What a message whose checksums fit gives: nothing without JSON.
EventOf(i) ==
    IF ~stream[i].json THEN <<>>
    ELSE <<[of |-> i,
            typed |-> \E h \in Readable(stream[i].headers) : stream[i].headers[h] = "type"]>>

\* Mutant: the checksum of the whole is not looked at.
Decode_Unchecked(from, to) ==
    LET events[o \in from..to] ==
            LET here == BeginsAt(o)
            IN  IF \/ o + 1 > to
                   \/ \A i \in here : o + stream[i].says > to \/ ~stream[i].prelude
                THEN <<>>
                ELSE LET i == CHOOSE j \in here : TRUE
                     IN  EventOf(i) \o events[o + stream[i].says]
    IN  events[from]

\* decode_bedrock_event_stream on the units from..to: it stops where a message
\* has not wholly arrived, is too short, or has a damaged prelude, and goes on
\* after one that is damaged elsewhere. Bytes that are no prelude do not fit
\* their checksum.
Decode(from, to) ==
    LET events[o \in from..to] ==
            LET here == BeginsAt(o)
            IN  IF \/ o + 1 > to
                   \/ \A i \in here : o + stream[i].says > to \/ ~stream[i].prelude
                THEN <<>>
                ELSE LET i == CHOOSE j \in here : TRUE
                     IN  (IF stream[i].rest THEN EventOf(i) ELSE <<>>)
                         \o events[o + stream[i].says]
    IN  SubSeq(events[from], 1, Min({MaxEvents, Len(events[from])}))

-----------------------------------------------------------------------------
\* The length at the beginning of what is left of the buffer.
LengthAt(position) ==
    IF BeginsAt(position) = {} THEN stray
    ELSE stream[CHOOSE i \in BeginsAt(position) : TRUE].says

\* The bridge's loop over the buffer: it trusts the length before any checksum
\* was looked at, and waits for more where that is too small or too large.
Cut(from, to) ==
    LET rest[o \in from..to] ==
            LET length == LengthAt(o)
            IN  IF o + 1 > to \/ length < 2 \/ o + length > to
                THEN [consumed |-> o, events |-> <<>>]
                ELSE LET after == rest[o + length]
                     IN  [after EXCEPT !.events = Decode(o, o + length) \o @]
    IN  rest[from]

Init ==
    /\ stream \in Streams
    /\ stray \in Lengths
    /\ arrived = 0 /\ consumed = 0
    /\ out = <<>>
    /\ over = "no"

\* A chunk arrives, cut anywhere.
Arrive ==
    /\ over = "no"
    /\ arrived' \in arrived + 1..Total
    /\ LET cut == Cut(consumed, arrived')
       IN  consumed' = cut.consumed /\ out' = out \o cut.events
    /\ UNCHANGED <<stream, stray, over>>

\* The connection ends well, or breaks. What is in the buffer is dropped.
End ==
    /\ over = "no"
    /\ \/ over' = "eof" /\ arrived = Total
       \/ over' = "error"
    /\ UNCHANGED <<stream, stray, arrived, consumed, out>>

Next == Arrive \/ End

Spec == Init /\ [][Next]_vars

-----------------------------------------------------------------------------
Intact(i) == stream[i].prelude /\ stream[i].rest /\ stream[i].json

Decoded == {out[k].of : k \in DOMAIN out}

\* The intact messages among the first n units.
IntactIn(n) == {i \in DOMAIN stream : Intact(i) /\ Start(i + 1) <= n}

\* No message that has wholly arrived is left in the buffer.
NothingWaits == \A i \in DOMAIN stream : Start(i + 1) \notin consumed + 1..arrived

LengthsTrue == \A i \in DOMAIN stream : stream[i].says = stream[i].size

\* Only intact messages are decoded, each once and in their order, whatever is
\* damaged; and as long as no length is, every one of them is decoded with the
\* chunk that completes it, however the stream is cut into chunks, and no more
\* than a part of one message waits in the buffer.
FramesDecoded ==
    /\ \A k \in DOMAIN out : Intact(out[k].of)
    /\ \A k \in 2..Len(out) : out[k - 1].of < out[k].of
    /\ LengthsTrue => Decoded = IntactIn(arrived) /\ NothingWaits

\* A stream that is decoded whole gives the events that its chunks give, if no
\* prelude is damaged and it has no more messages than the decoder takes at once.
WholeAsInParts ==
    over = "eof" /\ (\A i \in DOMAIN stream : stream[i].prelude) /\ Len(stream) <= MaxEvents
        => out = Decode(0, Total)

\* bedrock.rs:108: "Can't trust total_length if prelude is corrupt": damage to
\* a message loses that message. The bridge has trusted the length before.
DamageIsLocal == over = "eof" => Decoded = IntactIn(Total)

\* stream_bridge.rs:496: an "incomplete frame" waits for more data, and no
\* other. After a damaged length the rest of the stream waits until its end.
IncompleteWaits == NothingWaits

\* Each event is translated by its type.
TypesRead == \A k \in DOMAIN out : "type" \in Range(stream[out[k].of].headers) => out[k].typed

=============================================================================
