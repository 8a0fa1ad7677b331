------------------------------ MODULE McpOAuth ------------------------------
(***************************************************************************)
(* The access token of one MCP server (mcp/oauth.rs), as tool calls        *)
(* (mcp/client.rs) and an administrator's reauth use it: tasks share a     *)
(* cached token, each of them may find it too old and renew it, with no    *)
(* lock across the renewal. The authorization server may rotate its        *)
(* refresh tokens. A tool call holds the registry's map for reading, so    *)
(* the server is not removed under it; a reauth holds nothing.             *)
(***************************************************************************)
EXTENDS Naturals

CONSTANTS
    Calls, Reauths, \* tasks, each of them once
    Lifetime,       \* expires_in
    Margin,         \* PREEMPTIVE_REFRESH_SECS
    Delay,          \* timeout of the token endpoint
    Lag,            \* timeout of a call: from the token to its arrival
    MaxRetries,     \* MAX_REFRESH_RETRIES
    MaxClock,       \* bound
    None

\* What the constants must be.
ConstantsAssumption ==
    /\ {Lifetime, Margin, Delay, Lag, MaxRetries, MaxClock} \subseteq Nat
    /\ Delay + Lag <= Margin
    /\ Delay + Lag < Lifetime
    /\ Calls \cap Reauths = {}

Tasks == Calls \cup Reauths

VARIABLES
    clock,
    present, \* the server is registered
    cache,   \* its CachedToken
    live,    \* the refresh token that the authorization server accepts
    epoch,   \* grows when it revokes the access tokens it has issued
    pc,
    round,   \* 1: first attempt, 2: get_valid_token after a 401, 3: the retry
    token,   \* the token it renews, then the one on its way to it or sent
    tries,   \* failed refreshes
    due      \* when the network step that it waits for is over

task == <<round, token, tries, due>>
vars == <<clock, present, cache, live, epoch, pc, task>>

NoToken == [dies |-> 0, epoch |-> 0, refresh |-> None]

Init ==
    /\ clock = 0
    /\ present = TRUE
    /\ live \in {None, 0}
    /\ cache = [token |-> [dies |-> Lifetime, epoch |-> 0, refresh |-> live],
                expires |-> Lifetime]
    /\ epoch = 0
    /\ pc = [t \in Tasks |-> "start"]
    /\ round = [t \in Tasks |-> 1]
    /\ token = [t \in Tasks |-> NoToken]
    /\ tries = [t \in Tasks |-> 0]
    /\ due = [t \in Tasks |-> 0]

-----------------------------------------------------------------------------
\* Mutant: is_expired in place of expires_within.
Fresh_Late == cache.expires > clock

Fresh == cache.expires > clock + Margin

\* t is at stage, on its round n, with token k for at most d.
Go(t, stage, n, k, d) ==
    /\ pc' = [pc EXCEPT ![t] = stage]
    /\ round' = [round EXCEPT ![t] = n]
    /\ token' = [token EXCEPT ![t] = k]
    /\ due' = [due EXCEPT ![t] = IF d = 0 THEN 0 ELSE clock + d]
    /\ tries' = [tries EXCEPT ![t] = 0]

End(t, stage) == Go(t, stage, 1, NoToken, 0)

Start(t) ==
    /\ pc[t] = "start"
    /\ IF t \in Calls THEN present ELSE cache # None
    /\ Go(t, "check", 1, NoToken, 0)
    /\ UNCHANGED <<clock, present, cache, live, epoch>>

\* A call is sent with the token; a reauth is over, and a call that has only
\* renewed it after a 401 begins again.
Obtain(t, k) ==
    CASE t \in Reauths -> End(t, "over")
      [] t \in Calls /\ round[t] = 2 -> Go(t, "check", 3, NoToken, 0)
      [] OTHER -> Go(t, "send", round[t], k, Lag)

\* No token. What comes of the renewal after a 401 is not looked at.
GiveUp(t) ==
    IF round[t] = 2 THEN Go(t, "check", 3, NoToken, 0) ELSE End(t, "over")

\* get_valid_token looks into the cache, and then once more.
CheckToken(t) ==
    /\ pc[t] = "check"
    /\ IF cache # None /\ Fresh THEN Obtain(t, cache.token)
                               ELSE Go(t, "capture", round[t], NoToken, 0)
    /\ UNCHANGED <<clock, present, cache, live, epoch>>

CaptureToken(t) ==
    /\ pc[t] = "capture"
    /\ CASE cache = None -> GiveUp(t)
         [] cache # None ->
               Go(t, IF cache.token.refresh # None THEN "refresh" ELSE "acquire",
                  round[t], cache.token, 0)
    /\ UNCHANGED <<clock, present, cache, live, epoch>>

-----------------------------------------------------------------------------
\* The authorization server issues a token, with a new refresh token or none;
\* with none, token_response_to_cached keeps the one before.
Issue(t, refresh) ==
    Go(t, "issued", round[t],
       [dies |-> clock + Lifetime, epoch |-> epoch,
        refresh |-> IF refresh = None THEN token[t].refresh ELSE refresh], Delay)

Accepted(t) == token[t].refresh = live

\* A new refresh token replaces the old one.
Refresh(t) ==
    /\ pc[t] = "refresh"
    /\ Accepted(t)
    /\ \/ live' = live + 1 /\ Issue(t, live')
       \/ live' = live /\ Issue(t, None)
    /\ UNCHANGED <<clock, present, cache, epoch>>

\* Refused, or the reply is lost: then the next attempt may find the refresh
\* token replaced.
RefreshFails(t) ==
    /\ pc[t] = "refresh"
    /\ IF tries[t] + 1 < MaxRetries
       THEN /\ tries' = [tries EXCEPT ![t] = @ + 1]
            /\ UNCHANGED <<pc, round, token, due>>
       ELSE Go(t, "acquire", round[t], token[t], 0)
    /\ live' \in IF Accepted(t) THEN {live, live + 1} ELSE {live}
    /\ UNCHANGED <<clock, present, cache, epoch>>

\* The client credentials grant.
Acquire(t) ==
    /\ pc[t] = "acquire"
    /\ Issue(t, None)
    /\ UNCHANGED <<clock, present, cache, live, epoch>>

AcquireFails(t) ==
    /\ pc[t] = "acquire"
    /\ GiveUp(t)
    /\ UNCHANGED <<clock, present, cache, live, epoch>>

\* It is taken to expire Lifetime after it came, and goes into the cache
\* whatever is there.
Receive(t) ==
    /\ pc[t] = "issued"
    /\ cache' = [token |-> token[t], expires |-> clock + Lifetime]
    /\ Obtain(t, token[t])
    /\ UNCHANGED <<clock, present, live, epoch>>

-----------------------------------------------------------------------------
\* The call arrives. On a 401 the token is asked for and the call sent again.
Send(t) ==
    /\ pc[t] = "send"
    /\ CASE clock < token[t].dies /\ token[t].epoch = epoch -> End(t, "over")
         [] OTHER -> IF round[t] = 1 THEN Go(t, "check", 2, NoToken, 0)
                                     ELSE End(t, "refused")
    /\ UNCHANGED <<clock, present, cache, live, epoch>>

\* The network fails, or the client goes, wherever the task is.
Drop(t) ==
    /\ pc[t] \notin {"start", "over", "refused"}
    /\ End(t, "over")
    /\ UNCHANGED <<clock, present, cache, live, epoch>>

\* unregister, with the map to itself.
RemoveToken ==
    /\ present
    /\ \A t \in Calls : pc[t] \in {"start", "over", "refused"}
    /\ present' = FALSE
    /\ cache' = None
    /\ UNCHANGED <<clock, live, epoch, pc, task>>

Revoke ==
    /\ epoch = 0
    /\ epoch' = 1
    /\ UNCHANGED <<clock, present, cache, live, pc, task>>

\* No network step takes longer than its timeout.
Tick ==
    /\ clock < MaxClock
    /\ \A t \in Tasks : pc[t] \in {"issued", "send"} => clock < due[t]
    /\ clock' = clock + 1
    /\ UNCHANGED <<present, cache, live, epoch, pc, task>>

Next ==
    \/ \E t \in Tasks :
          \/ Start(t) \/ CheckToken(t) \/ CaptureToken(t)
          \/ Refresh(t) \/ RefreshFails(t) \/ Acquire(t) \/ AcquireFails(t)
          \/ Receive(t) \/ Send(t) \/ Drop(t)
    \/ RemoveToken \/ Revoke \/ Tick

Spec == Init /\ [][Next]_vars

-----------------------------------------------------------------------------
\* Properties

\* oauth.rs: "Pre-emptive refresh: refreshes 60s before actual expiry". The
\* token of a call that is on its way has not expired at the server, though
\* the cache counts its lifetime from the reply, renewals overtake each other
\* and the last to arrive is kept.
SentUnexpired == \A t \in Calls : pc[t] = "send" => clock < token[t].dies

\* client.rs: "Handle 401: refresh OAuth token and retry once".
RetryHelps == \A t \in Calls : pc[t] # "refused"

\* A removed server has no token.
RemovedForgotten == present \/ cache = None

=============================================================================
