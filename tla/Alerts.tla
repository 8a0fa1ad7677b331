------------------------------- MODULE Alerts -------------------------------
(***************************************************************************)
(* How the requests of one token become alerts, and how an alert reaches   *)
(* the URLs that want it. middleware/anomaly.rs keeps the seconds in which *)
(* there were requests in a sorted set that all requests share, and        *)
(* compares the count of the last window with that of earlier ones;        *)
(* notification/webhook.rs tries each URL up to four times, one after the  *)
(* other, in a task of the event. The earlier windows are given.           *)
(***************************************************************************)
EXTENDS Naturals, Sequences, FiniteSets, FiniteSetsExt

CONSTANTS
    Requests,
    Baselines,     \* counts of the earlier windows that had requests
    Urls,          \* webhook_urls, in their order
    MinDatapoints, \* min_datapoints
    Sigma,         \* sigma_threshold
    MaxAttempts,   \* entries of backoff_secs
    MaxClock       \* bound: seconds, within one window

\* What the constants must be.
ConstantsAssumption ==
    /\ \A b \in Baselines : \A i \in 1..Len(b) : b[i] \in Nat \ {0}
    /\ {MinDatapoints, Sigma, MaxClock} \subseteq Nat
    /\ MaxAttempts \in Nat \ {0}

VARIABLES
    clock,
    baseline,
    window,    \* seconds of the present window in the sorted set
    denied,    \* requests that a policy denies
    pc,        \* where each request, and then its event, is
    velocity,  \* what it has counted
    flagged,   \* requests that were anomalous
    target,    \* the URL that an event is at
    attempts,  \* how often each URL was tried
    delivered  \* URLs that have answered with success

task == <<target, attempts, delivered>>
vars == <<clock, baseline, window, denied, pc, velocity, flagged, task>>

Init ==
    /\ clock = 0
    /\ baseline \in Baselines
    /\ window = {}
    /\ denied \in SUBSET Requests
    /\ pc = [r \in Requests |-> "begin"]
    /\ velocity = [r \in Requests |-> 0]
    /\ flagged = {}
    /\ target = [r \in Requests |-> 1]
    /\ attempts = [r \in Requests |-> [i \in 1..Len(Urls) |-> 0]]
    /\ delivered = [r \in Requests |-> {}]

Go(r, stage) == pc' = [pc EXCEPT ![r] = stage]

\* dispatch spawns a task if there is a URL at all.
Dispatch(r) == Go(r, IF Urls = <<>> THEN "over" ELSE "send")

-----------------------------------------------------------------------------
\* A denied request tells the URLs and gets no further.
Deny(r) ==
    /\ pc[r] = "begin"
    /\ r \in denied
    /\ Dispatch(r)
    /\ UNCHANGED <<clock, baseline, window, denied, velocity, flagged, task>>

\* record_and_check, command by command. ZADD: the member is the second.
Record(r) ==
    /\ pc[r] = "begin"
    /\ r \notin denied
    /\ window' = window \cup {clock}
    /\ Go(r, "count")
    /\ UNCHANGED <<clock, baseline, denied, velocity, flagged, task>>

\* ZCOUNT
Count(r) ==
    /\ pc[r] = "count"
    /\ velocity' = [velocity EXCEPT ![r] = Cardinality(window)]
    /\ Go(r, "judge")
    /\ UNCHANGED <<clock, baseline, window, denied, flagged, task>>

Enough(counts) == Len(counts) >= MinDatapoints

Total(counts) == FoldSet(LAMBDA i, n : n + counts[i], 0, 1..Len(counts))

Squares(counts) == FoldSet(LAMBDA i, n : n + counts[i] * counts[i], 0, 1..Len(counts))

\* v > mean + Sigma * stddev, where the variance has the denominator n - 1:
\* with n * v - Total on one side, both sides are squared.
Exceeds(v, counts) ==
    LET n      == Len(counts)
        total  == Total(counts)
        spread == n * Squares(counts) - total * total
    IN  /\ n * v > total
        /\ (n * v - total) * (n * v - total) * (n - 1) > Sigma * Sigma * n * spread

\* ZRANGEBYSCORE: the buckets that are not empty, the present one among them.
Judge(r) ==
    /\ pc[r] = "judge"
    /\ LET counts == <<Cardinality(window)>> \o baseline
       IN  IF Enough(counts) /\ Exceeds(velocity[r], counts)
           THEN flagged' = flagged \cup {r} /\ Dispatch(r)
           ELSE UNCHANGED flagged /\ Go(r, "over")
    /\ UNCHANGED <<clock, baseline, window, denied, velocity, task>>

Tick ==
    /\ clock < MaxClock
    /\ clock' = clock + 1
    /\ UNCHANGED <<baseline, window, denied, pc, velocity, flagged, task>>

-----------------------------------------------------------------------------
\* The task of an event.

Advance(r) ==
    /\ target' = [target EXCEPT ![r] = @ + 1]
    /\ Go(r, IF target[r] = Len(Urls) THEN "over" ELSE "send")

\* Mutant: the error of send_signed ends the task.
GiveUp_Returns(r) == Go(r, "over") /\ UNCHANGED target

\* send_signed has returned an error.
GiveUp(r) == Advance(r)

Try(r) ==
    /\ pc[r] = "send"
    /\ attempts' = [attempts EXCEPT ![r][target[r]] = @ + 1]

Success(r) ==
    /\ Try(r)
    /\ delivered' = [delivered EXCEPT ![r] = @ \cup {target[r]}]
    /\ Advance(r)
    /\ UNCHANGED <<clock, baseline, window, denied, velocity, flagged>>

\* No answer in ten seconds, an error, or an answer without success, though
\* the event may have been heard: it is sent again with the same delivery id.
Failure(r) ==
    /\ Try(r)
    /\ IF attempts'[r][target[r]] < MaxAttempts THEN UNCHANGED <<target, pc>> ELSE GiveUp(r)
    /\ UNCHANGED <<clock, baseline, window, denied, velocity, flagged, delivered>>

Send(r) == Success(r) \/ Failure(r)

Next ==
    \/ \E r \in Requests : Deny(r) \/ Record(r) \/ Count(r) \/ Judge(r) \/ Send(r)
    \/ Tick

Spec == Init /\ [][Next]_vars

\* Tasks go on; each attempt and each pause has an end.
FairSpec == Spec /\ \A r \in Requests : WF_vars(Send(r))

-----------------------------------------------------------------------------
\* Properties

\* webhook.rs: "Each URL is attempted independently with retry; failures in
\* one do not block others". The task of an event comes to an end, and until
\* then every URL has accepted it or was tried as often as is allowed.
TargetsTried ==
    /\ []<>(\A r \in Requests : pc[r] # "send")
    /\ [](\A r \in denied \cup flagged : pc[r] = "over" =>
             \A i \in 1..Len(Urls) : i \in delivered[r] \/ attempts[r][i] = MaxAttempts)

\* anomaly.rs: "exceeds the rolling 24h baseline mean + 3 sigma". The present
\* window is part of its own baseline and raises the threshold; still, where
\* all the windows before were alike and there are enough of them, no number
\* of requests that come together hides a rise from all of them.
RiseFlagged ==
    LET counts == <<Cardinality(window)>> \o baseline
    IN  (/\ \A r \in Requests : pc[r] \notin {"begin", "count", "judge"}
         /\ Enough(counts)
         /\ \A i \in 1..Len(baseline) : baseline[i] = baseline[1] /\ baseline[1] < Cardinality(window))
        => flagged # {}

\* A rise in traffic is noticed, and whatever is noticed reaches every URL
\* that accepts it in time.
AlertsArrive == TargetsTried /\ []RiseFlagged

\* "Count requests in current window".
VelocityCountsRequests ==
    Cardinality(window) = Cardinality({r \in Requests \ denied : pc[r] # "begin"})

=============================================================================
