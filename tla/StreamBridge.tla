---------------------------- MODULE StreamBridge ----------------------------
(***************************************************************************)
(* The bridge of a streamed answer (proxy/stream_bridge.rs). A reader task *)
(* takes the upstream's chunks, feeds a StreamAccumulator and passes them  *)
(* to the client through a bounded channel; a waiter, the billing task of  *)
(* the handler, is to get what was accumulated through a slot and a        *)
(* Notify. The upstreams speak four dialects, three of which are           *)
(* translated chunk by chunk. The module has no Next: it is a part of      *)
(* SpendTrail.                                                             *)
(***************************************************************************)
EXTENDS Naturals, Sequences

CONSTANTS
    Requests,
    Capacity,    \* of the channel (1024)
    MaxChunks    \* bound: chunks that carry no event

VARIABLE stream  \* the bridge of each request

\* What an upstream reports in the course of an answer, in its order: the
\* tokens of the prompt (where they come apart from the rest), of the
\* completion, and that the answer is complete.
Events(dialect) ==
    CASE dialect = "openai"    -> <<"usage", "stop">>
      [] dialect = "anthropic" -> <<"prompt", "usage", "stop">>
      [] dialect = "gemini"    -> <<"usage">>
      [] dialect = "bedrock"   -> <<"stop", "usage">>

NewBridge(dialect) ==
    [dialect |-> dialect,
     left    |-> Events(dialect), \* what the upstream has still to report
     chunks  |-> 0,
     reader  |-> "reading",
     cut     |-> FALSE,           \* the usage came in two chunks
     tokens  |-> "none",          \* of the accumulator: none, completion or all
     slot    |-> "unset",         \* or the tokens of a StreamResult
     queue   |-> 0,               \* chunks in the channel
     client  |-> TRUE,            \* it holds the connection
     blocked |-> FALSE,           \* the reader has met a full channel
     waiter  |-> "checking",
     result  |-> "unset"]         \* what the waiter got

NoBridge == [NewBridge("gemini") EXCEPT !.left = <<>>, !.reader = "off", !.waiter = "off"]

\* tee_sse_stream and its variants, and the spawn of the waiter.
Open(r, dialect) == stream' = [stream EXCEPT ![r] = NewBridge(dialect)]

Reads(r, stage) == stream[r].reader = stage

-----------------------------------------------------------------------------
\* The reader

\* What the accumulator sees of a chunk. The translation of an Anthropic
\* chunk knows only that chunk, so the prompt's tokens reach the usage only
\* from the same one; that of a Gemini chunk always ends with [DONE].
TokensIn(dialect, events) ==
    IF "usage" \notin events THEN "none"
    ELSE IF dialect = "anthropic" /\ "prompt" \notin events THEN "completion"
    ELSE "all"

Done(dialect, events) == dialect = "gemini" \/ "stop" \in events

\* An empty slot takes the accumulator's result and leaves a new
\* accumulator; notify_waiters wakes a waiter that has begun to listen.
Fill(b, tokens) ==
    [b EXCEPT !.slot = IF @ = "unset" THEN tokens ELSE @,
              !.tokens = IF b.slot = "unset" THEN "none" ELSE tokens,
              !.waiter = IF @ = "listening" THEN "woken" ELSE @]

\* A chunk brings the next n events, and may end within the line of one more,
\* which then makes sense in neither chunk; only Bedrock's frames are kept
\* until they are complete. A chunk that translates to nothing is not passed
\* on.
Read(r) ==
    LET b == stream[r]
    IN  /\ Reads(r, "reading")
        /\ \E n \in 0..Len(b.left), split \in {0, 1} :
              LET events == {b.left[i] : i \in 1..n}
                  new    == TokensIn(b.dialect, events)
                  tokens == IF new = "none" THEN b.tokens ELSE new
                  read   == [b EXCEPT !.left = SubSeq(@, n + split + 1, Len(@)),
                                      !.chunks = IF n + split = 0 THEN @ + 1 ELSE @,
                                      !.cut = @ \/ (split = 1 /\ b.left[n + 1] = "usage"),
                                      !.tokens = tokens]
                  next   == IF Done(b.dialect, events) THEN Fill(read, tokens) ELSE read
              IN  /\ split = 1 => n < Len(b.left) /\ b.dialect # "bedrock"
                  /\ n + split = 0 => b.chunks < MaxChunks
                  /\ \E stage \in {"sending"} \cup
                                  (IF n = 0 /\ b.dialect = "bedrock" THEN {"reading"} ELSE {}) :
                        stream' = [stream EXCEPT ![r] = [next EXCEPT !.reader = stage]]

Room(r) == stream[r].queue < Capacity

Sending == {"sending", "breaking", "closing"}

AfterSend(r) ==
    CASE Reads(r, "sending")  -> "reading"
      [] Reads(r, "breaking") -> "broken"
      [] Reads(r, "closing")  -> "finishing"

Send(r) ==
    /\ stream[r].reader \in Sending
    /\ stream[r].client
    /\ Room(r)
    /\ stream' = [stream EXCEPT ![r].queue = @ + 1, ![r].reader = AfterSend(r)]

\* The channel is full: the reader waits, and does not read the upstream.
Block(r) ==
    /\ stream[r].reader \in Sending
    /\ stream[r].client
    /\ ~Room(r)
    /\ ~stream[r].blocked
    /\ stream' = [stream EXCEPT ![r].blocked = TRUE]

\* The client has gone: the reader goes on for the usage, and stops once the
\* slot is set.
SendToNobody(r) ==
    /\ stream[r].reader \in Sending
    /\ ~stream[r].client
    /\ stream' = [stream EXCEPT ![r].reader =
                     IF Reads(r, "sending") /\ stream[r].slot # "unset"
                     THEN "finishing" ELSE AfterSend(r)]

\* The upstream breaks off, or the 60 s of its client are over: an error
\* event for the client, what there is for the slot, and the error itself.
Break(r) ==
    /\ Reads(r, "reading")
    /\ stream' = [stream EXCEPT ![r].reader = "breaking"]

FillBroken(r) ==
    /\ Reads(r, "broken")
    /\ stream' = [stream EXCEPT ![r] =
                     [Fill(stream[r], stream[r].tokens) EXCEPT !.reader = "closing"]]

End(r) ==
    /\ Reads(r, "reading")
    /\ stream' = [stream EXCEPT ![r].reader = "finishing"]

FillEnded(r) ==
    /\ Reads(r, "finishing")
    /\ stream' = [stream EXCEPT ![r] =
                     [Fill(stream[r], stream[r].tokens) EXCEPT !.reader = "off"]]

-----------------------------------------------------------------------------
\* The client

Consume(r) ==
    /\ stream[r].client
    /\ stream[r].queue > 0
    /\ stream' = [stream EXCEPT ![r].queue = @ - 1]

Leave(r) ==
    /\ stream[r].reader # "off"
    /\ stream[r].client
    /\ stream' = [stream EXCEPT ![r].client = FALSE, ![r].queue = 0]

-----------------------------------------------------------------------------
\* The waiter: wait_for_stream_result

Waits(r, stage) == stream[r].waiter = stage

TakeSlot(r) ==
    stream' = [stream EXCEPT ![r].waiter = "ready",
                             ![r].result = stream[r].slot,
                             ![r].slot = "unset"]

\* The slot is looked at first; between that and notified() the reader may
\* fill it and wake nobody.
CheckSlot(r) ==
    /\ Waits(r, "checking")
    /\ IF stream[r].slot # "unset" THEN TakeSlot(r)
       ELSE stream' = [stream EXCEPT ![r].waiter = "checked"]

Listen(r) ==
    /\ Waits(r, "checked")
    /\ stream' = [stream EXCEPT ![r].waiter = "listening"]

Wake(r) ==
    /\ Waits(r, "woken")
    /\ TakeSlot(r)

\* 300 s are over. The upstream's client gives up after 60 s, so by then the
\* reader has ended, or it has been blocked by the client.
DeadlinePassed(r) == stream[r].reader = "off" \/ stream[r].blocked

\* Mutant: a timeout is taken for the absence of a result.
GiveUp_AtOnce(r) ==
    /\ Waits(r, "listening")
    /\ DeadlinePassed(r)
    /\ stream' = [stream EXCEPT ![r].waiter = "ready"]

\* The slot is tried one last time.
GiveUp(r) ==
    /\ Waits(r, "listening")
    /\ DeadlinePassed(r)
    /\ TakeSlot(r)

ReaderStep(r) ==
    \/ Read(r) \/ Send(r) \/ Block(r) \/ SendToNobody(r)
    \/ Break(r) \/ FillBroken(r) \/ End(r) \/ FillEnded(r)

ClientStep(r) == Consume(r) \/ Leave(r)

WaiterStep(r) == CheckSlot(r) \/ Listen(r) \/ Wake(r) \/ GiveUp(r)

=============================================================================
