--------------------------- MODULE CircuitBreaker ---------------------------
(***************************************************************************)
(* The load balancer of one token in one gateway instance, with its        *)
(* circuit breaker (proxy/loadbalancer.rs), as the proxy handler uses it:  *)
(* choose an upstream, later report what became of the request under the   *)
(* URL it was finally sent to. The breaker is enabled (config.enabled).    *)
(*                                                                         *)
(* Health entries are keyed by URL and are created once per token, by the  *)
(* first call of ensure_health. finalUrl says which URL a target's         *)
(* requests are sent to: rewrite_url appends the request path to it.       *)
(*                                                                         *)
(* select holds a read guard on the token's entries, which excludes        *)
(* mark_failed and mark_healthy but not other selections; the undone       *)
(* increments of two of these on half_open_attempts can only deny a slot,  *)
(* and no slot is freed meanwhile, so a selection is one action.           *)
(***************************************************************************)
EXTENDS Naturals, Sequences, FiniteSets, FiniteSetsExt, SequencesExt, TLAPS

CONSTANTS
    Requests,    \* concurrent handlers; each serves one request after another
    Urls,
    Upstreams,   \* the token's targets: sequence of [url, weight, priority]
    finalUrl,    \* where requests of each target are sent
    ServiceUrls, \* where requests through the service registry are sent
    Supported,   \* per model in use: the indices of targets that support it
    FailureThreshold, HalfOpenMax,
    RateMode, RatePercent, MinSamples,  \* failure_rate_threshold, if set
    WindowCap,   \* max(min_sample_size, 10)
    CounterCap,  \* the round-robin counter is kept modulo this
    Memory       \* outcomes per URL that the model remembers

Index == DOMAIN Upstreams

ASSUME ConstantsAssumption ==
    /\ Upstreams \in Seq([url : Urls, weight : Nat, priority : Nat])
    /\ Upstreams # <<>>
    /\ \A i, j \in Index : Upstreams[i].url = Upstreams[j].url => i = j
    /\ finalUrl \in [Index -> Urls]
    /\ ServiceUrls \subseteq Urls
    /\ Supported \subseteq (SUBSET Index) \ {{}}
    /\ FailureThreshold \in Nat \ {0} /\ HalfOpenMax \in Nat
    /\ RateMode \in BOOLEAN /\ RatePercent \in 1..100 /\ MinSamples \in Nat \ {0}
    /\ WindowCap \in Nat /\ WindowCap >= MinSamples
    /\ CounterCap \in Nat \ {0}
    /\ Memory \in Nat /\ Memory >= FailureThreshold /\ Memory >= MinSamples

VARIABLES
    tracked,  \* URLs with a health entry; {} until the token's first request
    healthy,  \* is_healthy
    failures, \* failure_count, kept up to FailureThreshold
    last,     \* last_failure: none, recent, or older than the cooldown
    probes,   \* half_open_attempts
    window,   \* outcome_window (filled in rate mode only, where it is read)
    counter,  \* the token's round-robin counter
    pc,       \* where each handler is
    url,      \* final_upstream_url of its request
    outcomes  \* history: the latest answers of each URL, TRUE for success

entry == <<healthy, failures, last, probes, window>>
vars  == <<tracked, entry, counter, pc, url, outcomes>>

Stage == {"idle", "selected", "sent", "succeeding"}

Init ==
    /\ tracked  = {}
    /\ healthy  = [u \in Urls |-> TRUE]
    /\ failures = [u \in Urls |-> 0]
    /\ last     = [u \in Urls |-> "none"]
    /\ probes   = [u \in Urls |-> 0]
    /\ window   = [u \in Urls |-> <<>>]
    /\ counter  = 0
    /\ pc       = [r \in Requests |-> "idle"]
    /\ url      = [r \in Requests |-> Upstreams[1].url]
    /\ outcomes = [u \in Urls |-> <<>>]

-----------------------------------------------------------------------------
\* Selection

UrlOf(S) == {Upstreams[i].url : i \in S}

\* Entries are created only while the token has none.
EnsureHealth(us) == tracked' = IF tracked = {} THEN us ELSE tracked

Failing(u)  == u \in tracked /\ ~healthy[u]
HalfOpen(u) == Failing(u) /\ last[u] = "cooled"

Open(u) == Failing(u) /\ last[u] # "cooled"

\* A URL without an entry counts as healthy.
IsHealthyAt(i) ==
    LET u == Upstreams[i].url
    IN  ~Failing(u) \/ (HalfOpen(u) /\ probes[u] < HalfOpenMax)

\* The healthy targets among S of the best priority that has any.
Candidates(S) ==
    {i \in S : /\ IsHealthyAt(i)
               /\ \A j \in S : IsHealthyAt(j) =>
                      Upstreams[i].priority <= Upstreams[j].priority}

\* Every half-open candidate uses up a slot, chosen or not.
ClaimSlots(S) ==
    probes' = [u \in Urls |-> IF u \in UrlOf(Candidates(S)) /\ HalfOpen(u)
                              THEN probes[u] + 1 ELSE probes[u]]

Weight(S) == MapThenSumSet(LAMBDA i : Upstreams[i].weight, S)

\* The one whose turn it is; the first if none has a weight.
WeightedRoundRobin(C) ==
    {i \in C :
        IF Weight(C) = 0 THEN \A j \in C : i <= j
        ELSE LET before == Weight({j \in C : j < i})
                 turn   == counter % Weight(C)
             IN  before <= turn /\ turn < before + Upstreams[i].weight}

CheckRecovery(i) ==
    Upstreams[i].url \in tracked => last[Upstreams[i].url] # "recent"

RouteTo(r, u) ==
    /\ pc' = [pc EXCEPT ![r] = "selected"]
    /\ url' = [url EXCEPT ![r] = u]

\* A request without a model, for a token with one target.
SelectSole(r) ==
    /\ pc[r] = "idle"
    /\ Len(Upstreams) = 1
    /\ EnsureHealth(UrlOf(Index))
    /\ RouteTo(r, finalUrl[1])
    /\ UNCHANGED <<entry, counter, outcomes>>

\* Without a model all targets are considered; with one, those that support it.
Eligible == Supported \cup IF Len(Upstreams) > 1 THEN {Index} ELSE {}

\* Entries are created for the targets considered, or, when only one target
\* supports the model, for all of them.
Considered(S) == UrlOf(IF Cardinality(S) = 1 THEN Index ELSE S)

SelectCandidate(r, S) ==
    /\ pc[r] = "idle"
    /\ Candidates(S) # {}
    /\ EnsureHealth(Considered(S))
    /\ ClaimSlots(S)
    /\ counter' = IF Cardinality(S) = 1 THEN counter
                                        ELSE (counter + 1) % CounterCap
    /\ \E i \in WeightedRoundRobin(Candidates(S)) : RouteTo(r, finalUrl[i])
    /\ UNCHANGED <<healthy, failures, last, window, outcomes>>

\* Nothing is healthy: the first target that has cooled down.
SelectRecovering(r, S) ==
    /\ pc[r] = "idle"
    /\ Candidates(S) = {}
    /\ \E i \in S :
          /\ CheckRecovery(i)
          /\ \A j \in S : CheckRecovery(j) => i <= j
          /\ RouteTo(r, finalUrl[i])
    /\ UNCHANGED <<tracked, entry, counter, outcomes>>

\* Nor has any cooled down: AllUpstreamsExhausted.
Refuse(r, S) ==
    /\ pc[r] = "idle"
    /\ Candidates(S) = {}
    /\ \A i \in S : ~CheckRecovery(i)
    /\ UNCHANGED vars

\* The service registry bypasses the load balancer.
SelectService(r) ==
    /\ pc[r] = "idle"
    /\ \E u \in ServiceUrls : RouteTo(r, u)
    /\ UNCHANGED <<tracked, entry, counter, outcomes>>

-----------------------------------------------------------------------------
\* Sending the request

\* The request ends between the selection and the upstream call: it is
\* answered from the response cache, denied, or its client disconnects.
Abandon(r) ==
    /\ pc[r] = "selected"
    /\ pc' = [pc EXCEPT ![r] = "idle"]
    /\ UNCHANGED <<tracked, entry, counter, url, outcomes>>

\* ensure_health with the final URL, and the pre-check: 503 if it is open.
Dispatch(r) ==
    /\ pc[r] = "selected"
    /\ EnsureHealth({url[r]})
    /\ pc' = [pc EXCEPT ![r] = IF Open(url[r]) THEN "idle" ELSE "sent"]
    /\ UNCHANGED <<entry, counter, url, outcomes>>

\* The client disconnects while the upstream works: nothing is reported.
Drop(r) ==
    /\ pc[r] = "sent"
    /\ pc' = [pc EXCEPT ![r] = "idle"]
    /\ UNCHANGED <<tracked, entry, counter, url, outcomes>>

-----------------------------------------------------------------------------
\* Reporting the outcome

\* s with x appended, at most n long.
Latest(s, x, n) == LET t == Append(s, x)
                   IN  IF Len(t) <= n THEN t ELSE Tail(t)

Failures(s) == Cardinality({i \in DOMAIN s : ~s[i]})

FailureRateReached(s) == Failures(s) * 100 >= RatePercent * Len(s)

CountFailure(u) ==
    failures' = [failures EXCEPT ![u] = IF @ < FailureThreshold THEN @ + 1 ELSE @]

OpenCircuit(u) ==
    /\ healthy' = [healthy EXCEPT ![u] = FALSE]
    /\ probes'  = [probes EXCEPT ![u] = 0]

TripByRate(u) ==
    /\ window' = [window EXCEPT ![u] = Latest(@, FALSE, WindowCap)]
    /\ IF /\ Len(window'[u]) >= MinSamples
          /\ FailureRateReached(window'[u])
          /\ healthy[u]
       THEN OpenCircuit(u)
       ELSE UNCHANGED <<healthy, probes>>

TripByCount(u) ==
    /\ window' = window
    /\ IF failures[u] + 1 >= FailureThreshold
       THEN OpenCircuit(u)
       ELSE UNCHANGED <<healthy, probes>>

MarkFailed(u) ==
    IF u \in tracked
    THEN /\ CountFailure(u)
         /\ last' = [last EXCEPT ![u] = "recent"]
         /\ IF RateMode THEN TripByRate(u) ELSE TripByCount(u)
    ELSE UNCHANGED entry

\* 5xx, a connection error or a timeout.
Fail(r) ==
    /\ pc[r] = "sent"
    /\ MarkFailed(url[r])
    /\ outcomes' = [outcomes EXCEPT ![url[r]] = Latest(@, FALSE, Memory)]
    /\ pc' = [pc EXCEPT ![r] = "idle"]
    /\ UNCHANGED <<tracked, counter, url>>

\* Any other status: first record_success, then mark_healthy.
Succeed(r) ==
    /\ pc[r] = "sent"
    /\ window' = IF RateMode /\ url[r] \in tracked
                 THEN [window EXCEPT ![url[r]] = Latest(@, TRUE, WindowCap)]
                 ELSE window
    /\ pc' = [pc EXCEPT ![r] = "succeeding"]
    /\ UNCHANGED <<tracked, healthy, failures, last, probes, counter, url, outcomes>>

\* Mutant: the circuit closes and keeps the failures counted so far.
MarkHealthy_KeepsCount(u) ==
    IF u \in tracked
    THEN /\ healthy' = [healthy EXCEPT ![u] = TRUE]
         /\ last'    = [last EXCEPT ![u] = "none"]
         /\ probes'  = [probes EXCEPT ![u] = 0]
         /\ UNCHANGED <<failures, window>>
    ELSE UNCHANGED entry

\* Mutant: a success does not close the circuit.
MarkHealthy_StaysOpen(u) ==
    IF u \in tracked
    THEN /\ failures' = [failures EXCEPT ![u] = 0]
         /\ last'     = [last EXCEPT ![u] = "none"]
         /\ UNCHANGED <<healthy, probes, window>>
    ELSE UNCHANGED entry

MarkHealthy(u) ==
    IF u \in tracked
    THEN /\ healthy'  = [healthy EXCEPT ![u] = TRUE]
         /\ failures' = [failures EXCEPT ![u] = 0]
         /\ last'     = [last EXCEPT ![u] = "none"]
         /\ probes'   = [probes EXCEPT ![u] = 0]
         /\ window'   = [window EXCEPT ![u] = <<>>]
    ELSE UNCHANGED entry

Close(r) ==
    /\ pc[r] = "succeeding"
    /\ MarkHealthy(url[r])
    /\ outcomes' = [outcomes EXCEPT ![url[r]] = Latest(@, TRUE, Memory)]
    /\ pc' = [pc EXCEPT ![r] = "idle"]
    /\ UNCHANGED <<tracked, counter, url>>

\* recovery_cooldown_secs have passed since the last failure.
CoolDown(u) ==
    /\ last[u] = "recent"
    /\ last' = [last EXCEPT ![u] = "cooled"]
    /\ UNCHANGED <<tracked, healthy, failures, probes, window, counter, pc, url, outcomes>>

SelectTarget(r) ==
    \/ SelectSole(r)
    \/ \E S \in Eligible : SelectCandidate(r, S) \/ SelectRecovering(r, S)

Next ==
    \/ \E r \in Requests :
          \/ SelectTarget(r) \/ SelectService(r) \/ Abandon(r)
          \/ \E S \in Eligible : Refuse(r, S)
          \/ Dispatch(r) \/ Drop(r) \/ Fail(r) \/ Succeed(r) \/ Close(r)
    \/ \E u \in Urls : CoolDown(u)

Spec == Init /\ [][Next]_vars

\* Requests to the token's targets keep coming and time passes; requests to
\* each URL are not all abandoned, dropped by their clients or failed.
Fairness ==
    /\ \A r \in Requests :
          /\ SF_vars(SelectTarget(r))
          /\ WF_vars(Close(r))
          /\ \A u \in Urls : /\ SF_vars(url[r] = u /\ Dispatch(r))
                             /\ SF_vars(url[r] = u /\ Succeed(r))
    /\ \A u \in Urls : WF_vars(CoolDown(u))

FairSpec == Spec /\ Fairness

-----------------------------------------------------------------------------
\* Properties

Answers == UNION {[1..n -> BOOLEAN] : n \in 0..Memory}

\* Types of the variables.
TypeOK ==
    /\ tracked \subseteq Urls
    /\ healthy \in [Urls -> BOOLEAN]
    /\ failures \in [Urls -> 0..FailureThreshold]
    /\ last \in [Urls -> {"none", "recent", "cooled"}]
    /\ probes \in [Urls -> 0..HalfOpenMax]
    /\ \A u \in Urls : window[u] \in Seq(BOOLEAN) /\ Len(window[u]) <= WindowCap
    /\ counter \in 0..CounterCap-1
    /\ pc \in [Requests -> Stage]
    /\ url \in [Requests -> Urls]
    /\ outcomes \in [Urls -> Answers]

\* The latest FailureThreshold answers of u were all failures.
AllFailed(u) ==
    LET s == outcomes[u]
    IN  /\ Len(s) >= FailureThreshold
        /\ \A i \in Len(s) - FailureThreshold + 1 .. Len(s) : ~s[i]

\* core.rs: "fail fast with 503 when the circuit is OPEN. This prevents
\* flooding a known-broken upstream with requests": the circuit of a URL that
\* failed failure_threshold times in a row is not closed.
FailsFast == ~RateMode => \A u \in Urls : AllFailed(u) => Failing(u)

\* Of the URLs that have a health entry, whatever other requests of the token
\* report in between: the circuit is not closed exactly when the latest
\* failure_threshold answers were failures. One failure after a recovery, or
\* failures separated by a concurrent success, open nothing.
TracksFailures == ~RateMode => \A u \in tracked : Failing(u) <=> AllFailed(u)

\* Requests are never refused for ever: some request is sent again and again,
\* whatever failed and however many probe slots were used up.
AlwaysRescued == []<>(\E r \in Requests : pc[r] = "sent")

\* README: circuits "self-heal when the upstream recovers". If from some time
\* on no request fails, every circuit is eventually closed for good.
SelfHeals ==
    <>[][\A r \in Requests : ~Fail(r)]_vars
        => \A u \in Urls : <>[](u \in tracked => healthy[u])

\* Circuits neither shut everybody out nor outlast the failure.
Recovers == AlwaysRescued /\ SelfHeals

-----------------------------------------------------------------------------
\* Proof, for any targets, thresholds and number of requests, that the circuit
\* follows the answers.

\* The number of the latest of the answers s that were failures, up to the
\* threshold.
FailedLast(s, n) ==
    /\ n <= Len(s)
    /\ \A k \in 0..n - 1 : ~s[Len(s) - k]
    /\ n < FailureThreshold => n = Len(s) \/ s[Len(s) - n]

\* failures counts them, and the circuit is closed below the threshold.
Counted(u) ==
    /\ FailedLast(outcomes[u], failures[u])
    /\ healthy[u] <=> failures[u] < FailureThreshold

\* The inductive invariant. Before the token has entries nothing is sent, so
\* that no answer goes uncounted.
BreakerInv ==
    /\ tracked \subseteq Urls
    /\ healthy \in [Urls -> BOOLEAN]
    /\ failures \in [Urls -> 0..FailureThreshold]
    /\ url \in [Requests -> Urls]
    /\ pc \in [Requests -> Stage]
    /\ outcomes \in [Urls -> Seq(BOOLEAN)]
    /\ tracked = {} =>
          /\ \A u \in Urls : healthy[u] /\ failures[u] = 0 /\ outcomes[u] = <<>>
          /\ \A r \in Requests : pc[r] \notin {"sent", "succeeding"}
    /\ \A u \in tracked : Counted(u)

\* t is s with x after it, without the oldest once Memory is full.
Extends(t, s, x) ==
    /\ t \in Seq(BOOLEAN)
    /\ \/ Len(t) = Len(s) + 1
       \/ Len(t) = Len(s) /\ Len(s) >= FailureThreshold
    /\ t[Len(t)] = x
    /\ \A k \in 1..Len(t) - 1 : t[Len(t) - k] = s[Len(s) - (k - 1)]

\* An answer goes to the end of the outcomes that are remembered.
LEMMA LatestExtends ==
  ASSUME NEW s \in Seq(BOOLEAN), NEW x \in BOOLEAN
  PROVE  Extends(Latest(s, x, Memory), s, x)
<1>. SUFFICES ASSUME NEW t, t = Latest(s, x, Memory) PROVE Extends(t, s, x)
  OBVIOUS
<1>. DEFINE longer == Append(s, x)
<1>1. Memory \in Nat /\ FailureThreshold \in Nat \ {0} /\ Memory >= FailureThreshold
  BY ConstantsAssumption
<1>2. /\ longer \in Seq(BOOLEAN) /\ Len(longer) = Len(s) + 1 /\ longer[Len(s) + 1] = x
      /\ \A i \in 1..Len(s) : longer[i] = s[i]
  OBVIOUS
<1>3. CASE Len(longer) <= Memory
  <2>1. t = longer
    BY <1>3 DEF Latest
  <2>2. \A k \in 1..Len(s) : Len(longer) - k \in 1..Len(s) /\ Len(longer) - k = Len(s) - (k - 1)
    BY <1>2
  <2>. HIDE DEF longer
  <2>. QED  BY <1>2, <2>1, <2>2 DEF Extends
<1>4. CASE ~(Len(longer) <= Memory)
  <2>1. t = Tail(longer)
    BY <1>4 DEF Latest
  <2>2. Len(s) >= FailureThreshold /\ Len(s) \in Nat \ {0}
    BY <1>1, <1>2, <1>4
  <2>3. /\ t \in Seq(BOOLEAN) /\ Len(t) = Len(s)
        /\ \A i \in 1..Len(s) : t[i] = longer[i + 1]
    <3>. HIDE DEF longer
    <3>1. longer # <<>>
      BY <1>2
    <3>. QED  BY <1>2, <2>1, <3>1
  <2>4. t[Len(s)] = x
    BY <1>2, <2>2, <2>3
  <2>5. ASSUME NEW k \in 1..Len(s) - 1
        PROVE  t[Len(s) - k] = s[Len(s) - (k - 1)]
    <3>1. Len(s) - k \in 1..Len(s) /\ Len(s) - k + 1 \in 1..Len(s)
          /\ Len(s) - k + 1 = Len(s) - (k - 1)
      BY <2>2
    <3>. HIDE DEF longer
    <3>. QED  BY <1>2, <2>3, <3>1
  <2>. HIDE DEF longer
  <2>. QED  BY <2>2, <2>3, <2>4, <2>5 DEF Extends
<1>. QED  BY <1>3, <1>4

\* One more failure is one more to count, up to the threshold.
LEMMA CountGrows ==
  ASSUME NEW s \in Seq(BOOLEAN), NEW n \in 0..FailureThreshold, FailedLast(s, n),
         NEW t \in Seq(BOOLEAN), ~t[Len(t)],
         \/ Len(t) = Len(s) + 1
         \/ Len(t) = Len(s) /\ Len(s) >= FailureThreshold,
         \A k \in 1..Len(t) - 1 : t[Len(t) - k] = s[Len(s) - (k - 1)],
         NEW m, m = IF n < FailureThreshold THEN n + 1 ELSE n
  PROVE  FailedLast(t, m)
<1>1. FailureThreshold \in Nat \ {0} /\ Len(s) \in Nat /\ n \in Nat /\ n <= Len(s)
  BY ConstantsAssumption DEF FailedLast
<1>3. Len(t) \in Nat
  OBVIOUS
<1>5. m \in Nat /\ m <= FailureThreshold /\ m <= n + 1 /\ m <= Len(t)
  BY <1>1, <1>3
<1>8. ASSUME NEW k \in 0..m - 1
      PROVE  ~t[Len(t) - k]
  <2>1. CASE k = 0
    <3>1. Len(t) - k = Len(t)
      BY <1>3, <2>1
    <3>. QED  BY <3>1
  <2>2. CASE k # 0
    <3>1. k \in 1..Len(t) - 1 /\ k - 1 \in 0..n - 1
      BY <1>1, <1>3, <1>5, <2>2
    <3>2. ~s[Len(s) - (k - 1)]
      BY <3>1 DEF FailedLast
    <3>. QED  BY <3>1, <3>2
  <2>. QED  BY <2>1, <2>2
<1>9. ASSUME m < FailureThreshold, m # Len(t)
      PROVE  t[Len(t) - m]
  <2>1. m = n + 1 /\ n < FailureThreshold
    BY <1>1, <1>9
  <2>2. n # Len(s)
    BY <1>1, <1>3, <1>9, <2>1
  <2>3. s[Len(s) - n]
    BY <2>1, <2>2 DEF FailedLast
  <2>4. m \in 1..Len(t) - 1 /\ m - 1 = n
    BY <1>1, <1>3, <1>5, <1>9, <2>1
  <2>. QED  BY <2>3, <2>4
<1>. QED  BY <1>5, <1>8, <1>9 DEF FailedLast

\* So a failure is counted where the outcomes are.
LEMMA FailureCounted ==
  ASSUME NEW s \in Seq(BOOLEAN), NEW n \in 0..FailureThreshold, FailedLast(s, n)
  PROVE  FailedLast(Latest(s, FALSE, Memory), IF n < FailureThreshold THEN n + 1 ELSE n)
<1>. DEFINE t == Latest(s, FALSE, Memory)
<1>1. Extends(t, s, FALSE)
  BY LatestExtends
<1>2. /\ t \in Seq(BOOLEAN) /\ ~t[Len(t)]
      /\ \/ Len(t) = Len(s) + 1
         \/ Len(t) = Len(s) /\ Len(s) >= FailureThreshold
      /\ \A k \in 1..Len(t) - 1 : t[Len(t) - k] = s[Len(s) - (k - 1)]
  BY <1>1, Zenon DEF Extends
<1>. QED  BY <1>2, CountGrows, Zenon

\* After a success there is none.
LEMMA SuccessCounted ==
  ASSUME NEW s \in Seq(BOOLEAN)
  PROVE  FailedLast(Latest(s, TRUE, Memory), 0)
<1>. DEFINE t == Latest(s, TRUE, Memory)
<1>1. Extends(t, s, TRUE)
  BY LatestExtends
<1>2. t \in Seq(BOOLEAN) /\ t[Len(t)]
  BY <1>1, Zenon DEF Extends
<1>3. \A v \in Seq(BOOLEAN) : v[Len(v)] => FailedLast(v, 0)
  <2>. SUFFICES ASSUME NEW v \in Seq(BOOLEAN), v[Len(v)] PROVE FailedLast(v, 0)
    OBVIOUS
  <2>1. Len(v) \in Nat
    OBVIOUS
  <2>2. Len(v) - 0 = Len(v) /\ 0 <= Len(v) /\ 0..0 - 1 = {}
    BY <2>1
  <2>. QED  BY <2>2 DEF FailedLast
<1>. QED  BY <1>2, <1>3, Zenon

\* So a full count is what AllFailed says.
LEMMA CountIsAllFailed ==
  ASSUME NEW s \in Seq(BOOLEAN), NEW n \in 0..FailureThreshold, FailedLast(s, n)
  PROVE  n = FailureThreshold <=>
            /\ Len(s) >= FailureThreshold
            /\ \A i \in Len(s) - FailureThreshold + 1 .. Len(s) : ~s[i]
<1>1. FailureThreshold \in Nat \ {0} /\ Len(s) \in Nat /\ n \in Nat /\ n <= Len(s)
  BY ConstantsAssumption DEF FailedLast
<1>2. ASSUME n = FailureThreshold, NEW i \in Len(s) - FailureThreshold + 1 .. Len(s)
      PROVE  ~s[i]
  <2>1. Len(s) - i \in 0..n - 1 /\ Len(s) - (Len(s) - i) = i
    BY <1>1, <1>2
  <2>. QED  BY <2>1 DEF FailedLast
<1>3. ASSUME n # FailureThreshold, Len(s) >= FailureThreshold,
             \A i \in Len(s) - FailureThreshold + 1 .. Len(s) : ~s[i]
      PROVE  FALSE
  <2>1. n < FailureThreshold /\ n # Len(s)
    BY <1>1, <1>3
  <2>2. s[Len(s) - n]
    BY <2>1 DEF FailedLast
  <2>3. Len(s) - n \in Len(s) - FailureThreshold + 1 .. Len(s)
    BY <1>1, <2>1
  <2>. QED  BY <1>3, <2>2, <2>3
<1>. QED  BY <1>1, <1>2, <1>3

\* A URL without answers has nothing to count.
LEMMA NothingCounted ==
  FailedLast(<<>>, 0)
<1>1. Len(<<>>) = 0 /\ 0..0 - 1 = {} /\ 0 <= 0
  OBVIOUS
<1>. QED  BY <1>1 DEF FailedLast

\* Only targets of the token are selected, and their URLs are known ones.
LEMMA SelectedUrls ==
  /\ \A i \in Index : finalUrl[i] \in Urls
  /\ \A S \in Eligible : S \subseteq Index
  /\ \A S \in SUBSET Index : UrlOf(S) \subseteq Urls
  /\ Upstreams[1].url \in Urls /\ 1 \in Index
<1>1. Upstreams \in Seq([url : Urls, weight : Nat, priority : Nat]) /\ Upstreams # <<>>
  BY ConstantsAssumption
<1>2. /\ Index = 1..Len(Upstreams) /\ Len(Upstreams) \in Nat \ {0}
      /\ \A i \in Index : Upstreams[i].url \in Urls
  <2>. DEFINE T == [url : Urls, weight : Nat, priority : Nat]
  <2>1. \A t \in T : t.url \in Urls
    OBVIOUS
  <2>. HIDE DEF T
  <2>2. /\ DOMAIN Upstreams = 1..Len(Upstreams) /\ Len(Upstreams) \in Nat \ {0}
        /\ \A i \in 1..Len(Upstreams) : Upstreams[i] \in T
    <3>1. Upstreams \in Seq(T) /\ Upstreams # <<>>
      BY <1>1 DEF T
    <3>2. \A q \in Seq(T) : q # <<>> => /\ DOMAIN q = 1..Len(q) /\ Len(q) \in Nat \ {0}
                                        /\ \A i \in 1..Len(q) : q[i] \in T
      OBVIOUS
    <3>. QED  BY <3>1, <3>2
  <2>. QED  BY <2>1, <2>2 DEF Index
<1>3. \A i \in Index : finalUrl[i] \in Urls
  BY ConstantsAssumption
<1>4. \A S \in Eligible : S \subseteq Index
  BY ConstantsAssumption DEF Eligible
<1>5. \A S \in SUBSET Index : UrlOf(S) \subseteq Urls
  BY <1>2 DEF UrlOf
<1>. QED  BY <1>2, <1>3, <1>4, <1>5

\* A selection reports nothing: it moves a handler to a URL it knows, and may
\* create the token's entries.
Selected(r) ==
    /\ tracked' = tracked \/ (tracked = {} /\ tracked' \subseteq Urls)
    /\ \E u \in Urls : RouteTo(r, u)
    /\ UNCHANGED <<healthy, failures, outcomes>>

\* Whatever the strategy, a selection changes the request's target and no
\* circuit.
LEMMA SelectionOnlyRoutes ==
  ASSUME BreakerInv, NEW r \in Requests, SelectTarget(r) \/ SelectService(r)
  PROVE  Selected(r)
<1>1. CASE SelectSole(r)
  <2>1. UrlOf(Index) \subseteq Urls /\ finalUrl[1] \in Urls
    BY SelectedUrls
  <2>. QED  BY <1>1, <2>1 DEF SelectSole, EnsureHealth, Selected, entry
<1>2. ASSUME NEW S \in Eligible, SelectCandidate(r, S)
      PROVE  Selected(r)
  <2>1. S \subseteq Index /\ Considered(S) \subseteq Urls
    BY SelectedUrls DEF Considered
  <2>2. PICK i \in WeightedRoundRobin(Candidates(S)) : RouteTo(r, finalUrl[i])
    BY <1>2 DEF SelectCandidate
  <2>3. finalUrl[i] \in Urls
    BY <2>1, SelectedUrls DEF WeightedRoundRobin, Candidates
  <2>. QED  BY <1>2, <2>1, <2>2, <2>3 DEF SelectCandidate, EnsureHealth, Selected
<1>3. ASSUME NEW S \in Eligible, SelectRecovering(r, S)
      PROVE  Selected(r)
  <2>1. PICK i \in S : RouteTo(r, finalUrl[i])
    BY <1>3 DEF SelectRecovering
  <2>2. finalUrl[i] \in Urls
    BY SelectedUrls
  <2>. QED  BY <1>3, <2>1, <2>2 DEF SelectRecovering, Selected, entry
<1>4. CASE SelectService(r)
  <2>1. PICK u \in ServiceUrls : RouteTo(r, u)
    BY <1>4 DEF SelectService
  <2>2. u \in Urls
    BY ConstantsAssumption
  <2>. QED  BY <1>4, <2>1, <2>2 DEF SelectService, Selected, entry
<1>. QED  BY <1>1, <1>2, <1>3, <1>4 DEF SelectTarget

\* New entries start with nothing to count, and no step but a report changes
\* what the others count.
LEMMA CountsKept ==
  ASSUME BreakerInv, UNCHANGED <<healthy, failures, outcomes>>,
         tracked' = tracked \/ (tracked = {} /\ tracked' \subseteq Urls)
  PROVE  /\ tracked' \subseteq Urls
         /\ \A u \in tracked' : Counted(u)'
         /\ tracked' = {} =>
               \A u \in Urls : healthy'[u] /\ failures'[u] = 0 /\ outcomes'[u] = <<>>
<1>1. CASE tracked' = tracked
  BY <1>1 DEF BreakerInv, Counted
<1>2. CASE tracked = {} /\ tracked' \subseteq Urls
  <2>1. \A u \in Urls : healthy[u] = TRUE /\ failures[u] = 0 /\ outcomes[u] = <<>>
    BY <1>2 DEF BreakerInv
  <2>2. \A u \in Urls : FailedLast(outcomes[u], failures[u])
    BY <2>1, NothingCounted, Zenon
  <2>3. 0 < FailureThreshold
    BY ConstantsAssumption
  <2>. QED  BY <1>2, <2>1, <2>2, <2>3 DEF Counted
<1>. QED  BY <1>1, <1>2

\* At first every circuit is closed and nothing has been counted.
LEMMA BreakerInit ==
  Init => BreakerInv
<1>. SUFFICES ASSUME Init PROVE BreakerInv
  OBVIOUS
<1>1. Upstreams[1].url \in Urls
  BY SelectedUrls
<1>2. 0 \in 0..FailureThreshold /\ <<>> \in Seq(BOOLEAN)
  BY ConstantsAssumption
<1>. QED  BY <1>1, <1>2 DEF Init, BreakerInv, Stage

\* A step that reports nothing.
LEMMA QuietStep ==
  ASSUME BreakerInv, NEW r \in Requests,
         \/ Selected(r) \/ Abandon(r) \/ Dispatch(r) \/ Drop(r) \/ Succeed(r)
  PROVE  BreakerInv'
<1>1. /\ UNCHANGED <<healthy, failures, outcomes>>
      /\ tracked' = tracked \/ (tracked = {} /\ tracked' \subseteq Urls)
  <2>1. url[r] \in Urls
    BY DEF BreakerInv
  <2>. QED  BY <2>1 DEF Selected, Abandon, Dispatch, Drop, Succeed, EnsureHealth, entry
<1>2. /\ pc' \in [Requests -> Stage] /\ url' \in [Requests -> Urls]
  BY DEF BreakerInv, Selected, RouteTo, Abandon, Dispatch, Drop, Succeed, Stage
<1>3. tracked' = {} => \A q \in Requests : pc'[q] \notin {"sent", "succeeding"}
  <2>. SUFFICES ASSUME tracked' = {}
                PROVE  \A q \in Requests : pc'[q] \notin {"sent", "succeeding"}
    OBVIOUS
  <2>1. tracked = {} /\ \A q \in Requests : pc[q] \notin {"sent", "succeeding"}
    BY <1>1 DEF BreakerInv
  <2>2. ~Dispatch(r) /\ ~Drop(r) /\ ~Succeed(r)
    BY <2>1 DEF Dispatch, Drop, Succeed, EnsureHealth
  <2>. QED  BY <2>1, <2>2 DEF BreakerInv, Selected, RouteTo, Abandon
<1>. QED  BY <1>1, <1>2, <1>3, CountsKept DEF BreakerInv

\* A failure, once the threshold counts.
LEMMA FailStep ==
  ASSUME BreakerInv, ~RateMode, NEW r \in Requests, Fail(r)
  PROVE  BreakerInv'
<1>. DEFINE v == url[r]
<1>1. /\ v \in Urls /\ tracked # {} /\ tracked' = tracked /\ url' = url
      /\ FailureThreshold \in Nat \ {0}
  BY ConstantsAssumption DEF BreakerInv, Fail
<1>2. pc' \in [Requests -> Stage]
  BY DEF BreakerInv, Fail, Stage
<1>3. /\ outcomes[v] \in Seq(BOOLEAN)
      /\ outcomes' = [outcomes EXCEPT ![v] = Latest(outcomes[v], FALSE, Memory)]
  BY <1>1 DEF BreakerInv, Fail
<1>4. Latest(outcomes[v], FALSE, Memory) \in Seq(BOOLEAN)
  BY <1>3, LatestExtends, Zenon DEF Extends
<1>5. outcomes' \in [Urls -> Seq(BOOLEAN)]
  BY <1>1, <1>3, <1>4, Zenon DEF BreakerInv
<1>6. CASE v \notin tracked
  <2>1. UNCHANGED <<healthy, failures>>
    BY <1>6 DEF Fail, MarkFailed, entry
  <2>2. \A u \in tracked : outcomes'[u] = outcomes[u]
    BY <1>3, <1>6 DEF BreakerInv
  <2>. QED  BY <1>1, <1>2, <1>5, <2>1, <2>2 DEF BreakerInv, Counted
<1>7. CASE v \in tracked
  <2>. DEFINE n == failures[v]
              more == IF n < FailureThreshold THEN n + 1 ELSE n
  <2>1. /\ n \in 0..FailureThreshold /\ FailedLast(outcomes[v], n)
        /\ healthy[v] <=> n < FailureThreshold
    BY <1>1, <1>7 DEF BreakerInv, Counted
  <2>2. failures' = [failures EXCEPT ![v] = more]
    BY <1>1, <1>7 DEF Fail, MarkFailed, CountFailure
  <2>3. more \in 0..FailureThreshold /\ (more < FailureThreshold <=> n + 1 < FailureThreshold)
    BY <1>1, <2>1
  <2>4. healthy' = IF n + 1 >= FailureThreshold
                   THEN [healthy EXCEPT ![v] = FALSE] ELSE healthy
    BY <1>7 DEF Fail, MarkFailed, TripByCount, OpenCircuit
  <2>5. /\ failures' \in [Urls -> 0..FailureThreshold] /\ failures'[v] = more
        /\ \A u \in Urls \ {v} : failures'[u] = failures[u]
    BY <1>1, <2>2, <2>3, Zenon DEF BreakerInv
  <2>6. /\ healthy' \in [Urls -> BOOLEAN] /\ (healthy'[v] <=> more < FailureThreshold)
        /\ \A u \in Urls \ {v} : healthy'[u] = healthy[u]
    <3>. HIDE DEF n, more
    <3>1. CASE n + 1 >= FailureThreshold
      <4>1. ~(more < FailureThreshold)
        BY <1>1, <2>1, <2>3, <3>1
      <4>. QED  BY <1>1, <2>4, <3>1, <4>1 DEF BreakerInv
    <3>2. CASE ~(n + 1 >= FailureThreshold)
      <4>1. more < FailureThreshold /\ n < FailureThreshold
        BY <1>1, <2>1, <2>3, <3>2
      <4>. QED  BY <1>1, <2>1, <2>4, <3>2, <4>1 DEF BreakerInv
    <3>. QED  BY <3>1, <3>2
  <2>7. FailedLast(outcomes'[v], more)
    <3>1. FailedLast(Latest(outcomes[v], FALSE, Memory), more)
      BY <1>3, <2>1, FailureCounted, Zenon
    <3>2. outcomes'[v] = Latest(outcomes[v], FALSE, Memory)
      BY <1>1, <1>3, Zenon DEF BreakerInv
    <3>. QED  BY <3>1, <3>2, Zenon
  <2>8. Counted(v)'
    BY <1>1, <2>5, <2>6, <2>7, Zenon DEF Counted, Fail
  <2>9. ASSUME NEW u \in tracked', u # v
        PROVE  Counted(u)'
    <3>1. u \in Urls \ {v} /\ Counted(u)
      BY <1>1, <2>9 DEF BreakerInv
    <3>2. outcomes'[u] = outcomes[u]
      BY <1>1, <1>3, <3>1 DEF BreakerInv
    <3>. QED  BY <2>5, <2>6, <3>1, <3>2 DEF Counted
  <2>10. ASSUME NEW u \in tracked'
         PROVE  Counted(u)'
    <3>1. CASE u = v
      BY <1>1, <2>8, <3>1
    <3>. QED  BY <2>9, <3>1
  <2>11. tracked' # {} /\ tracked' \subseteq Urls /\ url' \in [Requests -> Urls]
    BY <1>1 DEF BreakerInv
  <2>. QED  BY <1>2, <1>5, <2>5, <2>6, <2>10, <2>11, Zenon DEF BreakerInv
<1>. QED  BY <1>6, <1>7

\* A success.
LEMMA CloseStep ==
  ASSUME BreakerInv, NEW r \in Requests, Close(r)
  PROVE  BreakerInv'
<1>. DEFINE v == url[r]
<1>1. /\ v \in Urls /\ tracked # {} /\ tracked' = tracked /\ url' = url
      /\ FailureThreshold \in Nat \ {0}
  BY ConstantsAssumption DEF BreakerInv, Close
<1>2. pc' \in [Requests -> Stage]
  BY DEF BreakerInv, Close, Stage
<1>3. /\ outcomes[v] \in Seq(BOOLEAN)
      /\ outcomes' = [outcomes EXCEPT ![v] = Latest(outcomes[v], TRUE, Memory)]
  BY <1>1 DEF BreakerInv, Close
<1>4. Latest(outcomes[v], TRUE, Memory) \in Seq(BOOLEAN)
  BY <1>3, LatestExtends, Zenon DEF Extends
<1>5. outcomes' \in [Urls -> Seq(BOOLEAN)]
  BY <1>1, <1>3, <1>4, Zenon DEF BreakerInv
<1>6. CASE v \notin tracked
  <2>1. UNCHANGED <<healthy, failures>>
    BY <1>6 DEF Close, MarkHealthy, entry
  <2>2. \A u \in tracked : outcomes'[u] = outcomes[u]
    BY <1>3, <1>6 DEF BreakerInv
  <2>. QED  BY <1>1, <1>2, <1>5, <2>1, <2>2 DEF BreakerInv, Counted
<1>7. CASE v \in tracked
  <2>1. /\ failures' = [failures EXCEPT ![v] = 0]
        /\ healthy' = [healthy EXCEPT ![v] = TRUE]
    BY <1>7 DEF Close, MarkHealthy
  <2>2. /\ failures' \in [Urls -> 0..FailureThreshold] /\ failures'[v] = 0
        /\ \A u \in Urls \ {v} : failures'[u] = failures[u]
    BY <1>1, <2>1 DEF BreakerInv
  <2>3. /\ healthy' \in [Urls -> BOOLEAN] /\ healthy'[v] = TRUE
        /\ \A u \in Urls \ {v} : healthy'[u] = healthy[u]
    BY <1>1, <2>1 DEF BreakerInv
  <2>4. FailedLast(outcomes'[v], failures'[v])
    <3>1. FailedLast(Latest(outcomes[v], TRUE, Memory), 0)
      BY <1>3, SuccessCounted, Zenon
    <3>2. outcomes'[v] = Latest(outcomes[v], TRUE, Memory)
      BY <1>1, <1>3, Zenon DEF BreakerInv
    <3>. QED  BY <2>2, <3>1, <3>2, Zenon
  <2>5. 0 < FailureThreshold
    BY <1>1
  <2>6. Counted(v)'
    BY <1>1, <2>2, <2>3, <2>4, <2>5, Zenon DEF Counted, Close
  <2>7. ASSUME NEW u \in tracked', u # v
        PROVE  Counted(u)'
    <3>1. u \in Urls \ {v} /\ Counted(u)
      BY <1>1, <2>7 DEF BreakerInv
    <3>2. outcomes'[u] = outcomes[u]
      BY <1>1, <1>3, <3>1 DEF BreakerInv
    <3>. QED  BY <2>2, <2>3, <3>1, <3>2 DEF Counted
  <2>10. ASSUME NEW u \in tracked'
         PROVE  Counted(u)'
    <3>1. CASE u = v
      BY <1>1, <2>6, <3>1
    <3>. QED  BY <2>7, <3>1
  <2>11. tracked' # {} /\ tracked' \subseteq Urls /\ url' \in [Requests -> Urls]
    BY <1>1 DEF BreakerInv
  <2>. QED  BY <1>2, <1>5, <2>2, <2>3, <2>10, <2>11, Zenon DEF BreakerInv
<1>. QED  BY <1>6, <1>7

\* When failures in a row are counted, every counter is what the outcomes say.
LEMMA BreakerInvariant ==
  ASSUME ~RateMode
  PROVE  Spec => []BreakerInv
<1>1. Init => BreakerInv
  BY BreakerInit
<1>2. BreakerInv /\ [Next]_vars => BreakerInv'
  <2>. SUFFICES ASSUME BreakerInv, [Next]_vars PROVE BreakerInv'
    OBVIOUS
  <2>1. ASSUME NEW r \in Requests, SelectTarget(r) \/ SelectService(r)
        PROVE  BreakerInv'
    BY <2>1, SelectionOnlyRoutes, QuietStep
  <2>2. ASSUME NEW r \in Requests, Abandon(r) \/ Dispatch(r) \/ Drop(r) \/ Succeed(r)
        PROVE  BreakerInv'
    BY <2>2, QuietStep
  <2>3. ASSUME NEW r \in Requests, Fail(r)
        PROVE  BreakerInv'
    BY <2>3, FailStep
  <2>4. ASSUME NEW r \in Requests, Close(r)
        PROVE  BreakerInv'
    BY <2>4, CloseStep
  <2>5. ASSUME NEW u \in Urls, CoolDown(u)
        PROVE  BreakerInv'
    BY <2>5 DEF CoolDown, BreakerInv, Counted
  <2>6. ASSUME UNCHANGED vars
        PROVE  BreakerInv'
    BY <2>6 DEF vars, entry, BreakerInv, Counted
  <2>7. ASSUME NEW r \in Requests, NEW S \in Eligible, Refuse(r, S)
        PROVE  BreakerInv'
    BY <2>6, <2>7 DEF Refuse
  <2>. QED  BY <2>1, <2>2, <2>3, <2>4, <2>5, <2>6, <2>7 DEF Next
<1>. QED  BY <1>1, <1>2, PTL DEF Spec

\* TracksFailures: for any targets, URLs, services and threshold, and any
\* number of requests that select, fail and succeed at once, the circuit of a
\* URL with a health entry is not closed exactly when its latest
\* failure_threshold answers were failures.
THEOREM CircuitsFollowAnswers == Spec => []TracksFailures
<1>1. CASE RateMode
  <2>1. TracksFailures
    BY <1>1 DEF TracksFailures
  <2>. QED  BY <2>1, PTL
<1>2. CASE ~RateMode
  <2>1. BreakerInv => TracksFailures
    <3>. SUFFICES ASSUME BreakerInv, NEW u \in tracked
                  PROVE  Failing(u) <=> AllFailed(u)
      BY DEF TracksFailures
    <3>1. /\ u \in Urls /\ outcomes[u] \in Seq(BOOLEAN)
          /\ failures[u] \in 0..FailureThreshold
          /\ FailedLast(outcomes[u], failures[u])
          /\ healthy[u] <=> failures[u] < FailureThreshold
      BY DEF BreakerInv, Counted
    <3>2. failures[u] = FailureThreshold <=> AllFailed(u)
      BY <3>1, CountIsAllFailed, Zenon DEF AllFailed
    <3>3. Failing(u) <=> failures[u] = FailureThreshold
      BY <3>1, ConstantsAssumption DEF Failing
    <3>. QED  BY <3>2, <3>3, Zenon
  <2>. QED  BY <1>2, <2>1, BreakerInvariant, PTL
<1>. QED  BY <1>1, <1>2

=============================================================================
