------------------------------- MODULE Realtime -------------------------------
(***************************************************************************)
(* Realtime sessions (proxy/realtime.rs): a request is admitted, its       *)
(* connection becomes a WebSocket, a second one is opened to the provider, *)
(* and two pumps, in one task, carry messages between them until the first *)
(* of the two ends. What the other has in hand is dropped then.            *)
(***************************************************************************)
EXTENDS Naturals, Sequences, FiniteSets, SequencesExt

CONSTANTS
    Sessions,
    MaxWords,   \* bound: how many messages a side sends
    Reachable,  \* sessions whose provider can be reached
    Limit,      \* sessions of the token in one window
    MaxWindows, \* bound
    None

Sides == {"client", "upstream"}

Other(side) == IF side = "client" THEN "upstream" ELSE "client"

LimitsAssumption ==
    /\ MaxWords \in [Sides -> Nat] /\ Reachable \subseteq Sessions /\ Limit \in Nat
    /\ None \notin [kind : {"word", "close", "error"}, n : Nat]
    /\ None \notin Sides \X {"close", "error", "lost"}

VARIABLES
    active,   \* the token's is_active
    windows,
    count,    \* the counter of the window
    admitted, \* history: the sessions that this window has let in
    pc,
    said,     \* messages that a side has sent: 1..said
    side,     \* "open", "closed" after a Close frame, or "gone"
    queue,    \* what a side has sent and no pump has taken
    held,     \* what the pump that reads a side has in hand, or None
    got,      \* what has reached a side
    ended     \* whose pump ended the session, and by what

relay == <<said, side, queue, held, got, ended>>
vars  == <<active, windows, count, admitted, pc, relay>>

Init ==
    /\ active = TRUE
    /\ windows = 0 /\ count = 0 /\ admitted = {}
    /\ pc = [s \in Sessions |-> "token"]
    /\ said = [s \in Sessions |-> [x \in Sides |-> 0]]
    /\ side = [s \in Sessions |-> [x \in Sides |-> "open"]]
    /\ queue = [s \in Sessions |-> [x \in Sides |-> <<>>]]
    /\ held = [s \in Sessions |-> [x \in Sides |-> None]]
    /\ got = [s \in Sessions |-> [x \in Sides |-> <<>>]]
    /\ ended = [s \in Sessions |-> None]

Word(n) == [kind |-> "word", n |-> n]

\* A Close frame, or the error with which a connection that broke ends.
Final(kind) == [kind |-> kind, n |-> 0]

Go(s, stage) == pc' = [pc EXCEPT ![s] = stage]

-----------------------------------------------------------------------------
\* realtime_handler, from one await to the next.

\* get_token
Authenticate(s) ==
    /\ pc[s] = "token"
    /\ Go(s, IF active THEN "credential" ELSE "refused")
    /\ UNCHANGED <<active, windows, count, admitted, relay>>

\* The vault gives the credential, or the client's header; or there is none.
Resolve(s) ==
    /\ pc[s] = "credential"
    /\ \/ Go(s, "count")
       \/ Go(s, "refused")
    /\ UNCHANGED <<active, windows, count, admitted, relay>>

Exceeded(n) == n > Limit

\* Those that are refused are counted as well.
Count(s) ==
    /\ pc[s] = "count"
    /\ count' = count + 1
    /\ IF Exceeded(count') THEN Go(s, "refused") /\ UNCHANGED admitted
       ELSE Go(s, "spend") /\ admitted' = admitted \cup {s}
    /\ UNCHANGED <<active, windows, relay>>

\* check_spend_cap: see SpendCap.
CheckSpend(s) ==
    /\ pc[s] = "spend"
    /\ \/ Go(s, "connect")
       \/ Go(s, "refused")
    /\ UNCHANGED <<active, windows, count, admitted, relay>>

\* The client's connection is upgraded; the provider's is opened, or is not.
Connect(s) ==
    /\ pc[s] = "connect"
    /\ \/ s \in Reachable /\ Go(s, "relay")
       \/ Go(s, "over")
    /\ UNCHANGED <<active, windows, count, admitted, relay>>

-----------------------------------------------------------------------------
\* The two pumps. "closing": the client's pump closes the provider's sink, and
\* the other goes on meanwhile.
Running(s, x) == pc[s] = "relay" \/ (pc[s] = "closing" /\ x = "upstream")

\* The pump that reads x ends: the client's closes the provider's sink, the
\* provider's ends the session.
EndPump(s, x, why) ==
    /\ Go(s, IF x = "client" THEN "closing" ELSE "over")
    /\ ended' = IF ended[s] = None THEN [ended EXCEPT ![s] = <<x, why>>] ELSE ended

\* The pump takes the next message. A Close frame of the client is not passed
\* on; one of the provider is, and is the last thing read of it.
Take(s, x) ==
    /\ Running(s, x)
    /\ held[s][x] = None
    /\ queue[s][x] # <<>>
    /\ queue' = [queue EXCEPT ![s][x] = Tail(@)]
    /\ LET m == Head(queue[s][x])
       IN  \/ /\ m.kind = "word" \/ (m.kind = "close" /\ x = "upstream")
              /\ held' = [held EXCEPT ![s][x] = m]
              /\ UNCHANGED <<pc, ended>>
           \/ /\ m.kind = "error" \/ (m.kind = "close" /\ x = "client")
              /\ EndPump(s, x, m.kind)
              /\ UNCHANGED held
    /\ UNCHANGED <<active, windows, count, admitted, said, side, got>>

\* The other side gets it, unless it has closed or is gone. What is sent to it
\* then fails, or seems to be sent.
Reached(s, x, m) ==
    \/ /\ side[s][Other(x)] = "open"
       /\ got' = [got EXCEPT ![s][Other(x)] = Append(@, m)]
       /\ IF m.kind = "close" THEN EndPump(s, x, "close") ELSE UNCHANGED <<pc, ended>>
    \/ side[s][Other(x)] # "open" /\ m.kind # "close" /\ UNCHANGED <<got, pc, ended>>
    \/ side[s][Other(x)] # "open" /\ EndPump(s, x, "lost") /\ UNCHANGED got

Send(s, x) ==
    /\ Running(s, x)
    /\ held[s][x] # None
    /\ held' = [held EXCEPT ![s][x] = None]
    /\ Reached(s, x, held[s][x])
    /\ UNCHANGED <<active, windows, count, admitted, said, side, queue>>

\* The provider's sink is closed, and with it the session.
CloseSink(s) ==
    /\ pc[s] = "closing"
    /\ Go(s, "over")
    /\ got' = IF side[s]["upstream"] = "open"
              THEN [got EXCEPT ![s]["upstream"] = Append(@, Final("close"))] ELSE got
    /\ UNCHANGED <<active, windows, count, admitted, said, side, queue, held, ended>>

-----------------------------------------------------------------------------
\* The two ends of a session, the owner of the token, and time.
Live(s) == pc[s] \in {"relay", "closing"}

Say(s, x) ==
    /\ Live(s)
    /\ side[s][x] = "open"
    /\ said[s][x] < MaxWords[x]
    /\ said' = [said EXCEPT ![s][x] = @ + 1]
    /\ queue' = [queue EXCEPT ![s][x] = Append(@, Word(said'[s][x]))]
    /\ UNCHANGED <<active, windows, count, admitted, pc, side, held, got, ended>>

\* A side closes in order, or its connection breaks.
Leave(s, x) ==
    /\ Live(s)
    /\ side[s][x] = "open"
    /\ \E how \in {"closed", "gone"} :
          /\ side' = [side EXCEPT ![s][x] = how]
          /\ queue' = [queue EXCEPT ![s][x] =
                 Append(@, Final(IF how = "closed" THEN "close" ELSE "error"))]
    /\ UNCHANGED <<active, windows, count, admitted, pc, said, held, got, ended>>

Revoke ==
    /\ active
    /\ active' = FALSE
    /\ UNCHANGED <<windows, count, admitted, pc, relay>>

\* The key of the counter expires.
WindowEnds ==
    /\ windows < MaxWindows
    /\ windows' = windows + 1
    /\ count' = 0 /\ admitted' = {}
    /\ UNCHANGED <<active, pc, relay>>

Next ==
    \/ \E s \in Sessions :
          \/ Authenticate(s) \/ Resolve(s) \/ Count(s) \/ CheckSpend(s) \/ Connect(s)
          \/ CloseSink(s)
          \/ \E x \in Sides : Take(s, x) \/ Send(s, x) \/ Say(s, x) \/ Leave(s, x)
    \/ Revoke \/ WindowEnds

Spec == Init /\ [][Next]_vars

-----------------------------------------------------------------------------
\* What a side has got but for a Close frame at the end.
Spoken(s, x) ==
    IF got[s][x] # <<>> /\ Last(got[s][x]).kind # "word" THEN Front(got[s][x]) ELSE got[s][x]

Everything(s, x) == [n \in 1..said[s][x] |-> Word(n)]

\* A side has heard what the other said, in its order, from the beginning and
\* without a gap, as long as it is there; and a session that the Close
\* frame of one side has ended has given the other all that was said before.
WordsCarried ==
    \A s \in Sessions, x \in Sides :
        side[s][x] = "open" =>
            /\ IsPrefix(Spoken(s, x), Everything(s, Other(x)))
            /\ ended[s] = <<Other(x), "close">> => Spoken(s, x) = Everything(s, Other(x))

\* A window lets in no more sessions than its limit, however they overlap.
WindowHolds == Cardinality(admitted) <= Limit

\* What the provider says before it closes reaches a client that is there.
LastWordsArrive ==
    \A s \in Sessions :
        pc[s] = "over" /\ ended[s] # None /\ side[s] = [client |-> "open", upstream |-> "closed"]
            => Spoken(s, "client") = Everything(s, "upstream")

\* A provider that is there is told of the end.
UpstreamTold ==
    \A s \in Sessions :
        pc[s] = "over" /\ ended[s] # None /\ side[s]["upstream"] = "open"
            => Contains(got[s]["upstream"], Final("close"))

\* A session ends when its token is revoked.
RevokedIsCut == [][\A s \in Sessions : ~active => UNCHANGED got]_vars

=============================================================================
