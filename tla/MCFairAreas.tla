----------------------------- MODULE MCFairAreas -----------------------------
\* Small instances of the parts of the gateway that have to make progress: the
\* cache of spend caps, the registry of MCP servers, the rotation of keys, the
\* exporters, and the alerts. A behaviour is of one of these areas; the others
\* stay as they begin. The registry (McpRegistry) has its own names here, the
\* others' are renamed where they would meet.
EXTENDS McpRegistry, TLC

CONSTANTS l1, l2, l3, w1, w2, s1, s2, c1, c2, r1, r2, r3, own, foreign, shared,
          t1, t2, t3, t4, Ticker

VARIABLES
    area,
    db, cached, holder, cpc, got, wpc, writes,
    version, active, overdue, kpc, due, log, failures,
    model, epc, seen, label, buffer, batch, received, lost, restarted,
    clock, baseline, window, denied, apc, velocity, flagged, target, attempts, delivered

capsVars   == <<db, cached, holder, cpc, got, wpc, writes>>
keyVars    == <<version, active, overdue, kpc, due, log, failures>>
exportVars == <<model, epc, seen, label, buffer, batch, received, lost, restarted>>
alertVars  == <<clock, baseline, window, denied, apc, velocity, flagged, target, attempts, delivered>>
areasVars  == <<area, capsVars, vars, keyVars, exportVars, alertVars>>

Caps == INSTANCE SpendCapsCache WITH
    Loaders <- {l1, l2, l3}, Gateways <- {"g1", "g2"},
    home <- (l1 :> "g1") @@ (l2 :> "g1") @@ (l3 :> "g2"),
    Writers <- {w1, w2}, Values <- {"v1", "v2"}, Absent <- None, Nobody <- None,
    RedisFails <- TRUE, MaxWrites <- 2, pc <- cpc

\* Two servers of one name, of two projects.
MCServers == {own, foreign}
MCNames   == {shared}
MCName    == [s \in MCServers |-> shared]
MCProject == [s \in MCServers |-> IF s = own THEN "p1" ELSE "p2"]

MCTasks == {t1, t2, t3, t4}

Job(kind, s) == [kind |-> kind, server |-> s]

Four(a, b, c, d) == (t1 :> a) @@ (t2 :> b) @@ (t3 :> c) @@ (t4 :> d)

MCWorkloads ==
    {Four(Job("execute", own), Job("inject", own), Job("refresh", own), d) :
        d \in {Job("delete", own), Job("register", foreign)}}
    \cup {Four(Job("execute", own), Job("delete", own), Job("register", foreign), d) :
        d \in {Job("delete", foreign), Job("inject", own)}}

Rotation == INSTANCE KeyRotation WITH
    Schedulers <- {s1, s2}, Credentials <- {c1, c2}, Broken <- {c2}, Limit <- 2,
    MaxVersion <- 1, MaxFailures <- 1, pc <- kpc, batch <- due

Exporter == INSTANCE Exporters WITH
    Requests <- {r1, r2, r3}, Models <- {"m1", "m2"}, MaxCardinality <- 1, MaxBatch <- 4,
    MaxRestarts <- 1, pc <- epc, restarts <- restarted

\* Nine quiet windows, eleven, and eleven that were not alike.
Baselines == {[i \in 1..n |-> 1] : n \in {9, 11}} \cup {<<1, 2, 1, 2, 1, 2, 1, 2, 1, 2, 1>>}

Alert == INSTANCE Alerts WITH
    Requests <- {r1, r2}, Urls <- <<"u1", "u2">>, MinDatapoints <- 12, Sigma <- 3,
    MaxAttempts <- 4, MaxClock <- 1, pc <- apc

ASSUME AreasAssumption ==
    /\ Caps!ConstantsAssumption /\ Rotation!ConstantsAssumption
    /\ Exporter!ConstantsAssumption /\ Alert!ConstantsAssumption

Areas == {"caps", "servers", "keys", "exports", "alerts"}

AreasInit ==
    /\ area \in Areas
    /\ IF area = "caps" THEN TRUE ELSE db = "v1"
    /\ IF area = "servers" THEN TRUE
       ELSE /\ servers = [s \in {own, foreign} |-> None]
            /\ rows = {}
            /\ index = [n \in {shared} |-> None]
            /\ job = Four(Job("execute", own), Job("delete", own), Job("register", foreign),
                          Job("delete", foreign))
    /\ IF area = "keys" THEN TRUE ELSE overdue = <<>>
    /\ model = (r1 :> "m1") @@ (r2 :> "m2") @@ (r3 :> "m1")
    /\ IF area = "alerts" THEN TRUE
       ELSE baseline = <<1, 2, 1, 2, 1, 2, 1, 2, 1, 2, 1>> /\ denied = {}
    /\ Caps!Init /\ Init /\ Rotation!Init /\ Exporter!Init /\ Alert!Init

OfCaps     == UNCHANGED <<area, vars, keyVars, exportVars, alertVars>>
OfServers  == UNCHANGED <<area, capsVars, keyVars, exportVars, alertVars>>
OfKeys     == UNCHANGED <<area, capsVars, vars, exportVars, alertVars>>
OfExports  == UNCHANGED <<area, capsVars, vars, keyVars, alertVars>>
OfAlerts   == UNCHANGED <<area, capsVars, vars, keyVars, exportVars>>

AreasNext ==
    \/ area = "caps"     /\ Caps!Next     /\ OfCaps
    \/ area = "servers"  /\ Next          /\ OfServers
    \/ area = "keys"     /\ Rotation!Next /\ OfKeys
    \/ area = "exports"  /\ Exporter!Next /\ OfExports
    \/ area = "alerts"   /\ Alert!Next    /\ OfAlerts

\* The fairness that the modules of the areas state.
AreasSpec ==
    /\ AreasInit /\ [][AreasNext]_areasVars
    /\ \A l \in {l1, l2, l3} :
          /\ WF_areasVars(area = "caps" /\ Caps!Step(l) /\ OfCaps)
          /\ SF_areasVars(area = "caps" /\ Caps!Lock(l) /\ OfCaps)
    /\ WF_areasVars(area = "caps" /\ Caps!Expire /\ OfCaps)
    /\ \A t \in Tasks : WF_areasVars(area = "servers" /\ Step(t) /\ OfServers)
    /\ \A s \in {s1, s2} :
          /\ WF_areasVars(area = "keys" /\ Rotation!Rotate(s) /\ OfKeys)
          /\ WF_areasVars(area = "keys" /\ Rotation!FindDue(s) /\ OfKeys)
    /\ \A r \in {r1, r2, r3} :
          /\ WF_areasVars(area = "exports" /\ Exporter!Push(r) /\ OfExports)
          /\ WF_areasVars(area = "exports" /\ Exporter!Drain(r) /\ OfExports)
    /\ \A t \in {r1, r2, r3, Ticker} :
          WF_areasVars(area = "exports" /\ Exporter!FlushBatch(t) /\ OfExports)
    /\ WF_areasVars(area = "exports" /\ Exporter!Tick /\ OfExports)
    /\ \A r \in {r1, r2} : WF_areasVars(area = "alerts" /\ Alert!Send(r) /\ OfAlerts)

-----------------------------------------------------------------------------
\* Properties of the areas, and what they rest on.

\* The cached caps are those that were set, but for changes under way.
CacheFollowsRows == Caps!CacheFollowsRows

\* Old keys are replaced, each version by one rotation.
OverdueRotatedOnce == Rotation!OverdueRotatedOnce

\* What was recorded is exported once.
EventsExported == Exporter!EventsExported

\* A rise is noticed and every URL told.
AlertsArrive == Alert!AlertsArrive

-----------------------------------------------------------------------------
\* What the code or its comments promise and the areas do not keep. No run
\* checks them: listed in FairAreas.cfg, each is violated.

\* A failure in the log is of a credential that was not rotated.
FailedIsUnchanged == Rotation!FailedIsUnchanged

\* Labels of models are bounded.
SeriesBounded == Exporter!SeriesBounded

\* The velocity counts requests.
VelocityCountsRequests == Alert!VelocityCountsRequests

=============================================================================
