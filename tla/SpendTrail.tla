----------------------------- MODULE SpendTrail -----------------------------
(***************************************************************************)
(* What becomes of the spend of a request after the answer: the bridge of  *)
(* a stream counts its tokens, the billing task charges them, the audit    *)
(* writer keeps the row, the budget job sums the rows up, and its cap is   *)
(* what later requests of the project are held against. The process may    *)
(* stop and start again at any moment; PostgreSQL and Redis stay.          *)
(***************************************************************************)
EXTENDS Naturals, Sequences, FiniteSets

CONSTANTS
    Requests, Capacity, MaxChunks,
    MaxAttempts,  \* MAX_RETRIES of the audit writer
    Partitions,   \* the months that audit_logs has a partition for
    NoRow,        \* a request without a row
    Alerts, WarnAt, CapAt, NoCap, NoVerdict, LastMonth,
    Past,       \* requests of the first month that were over before
    Arrivals,   \* kinds and sizes of the answers, alerts, first month
    PlainCost,  \* of an answer that is not streamed
    MaxFaults   \* bound: failures of the stores, and restarts

VARIABLES
    trail,   \* the handler, or the billing task, of each request
    faults,
    stream,
    writer,  \* the audit task of each request
    rows,    \* audit_logs, by request
    bodies,  \* requests with a row in audit_log_bodies
    active, month, spend, marks, sent, job, cached, check

Bridge == INSTANCE StreamBridge
Budget == INSTANCE BudgetCap

auditVars == <<writer, rows, bodies>>

budgetVars == <<active, month, spend, marks, sent, job, cached, check>>

vars == <<trail, faults, stream, auditVars, budgetVars>>

Dialects == {"openai", "anthropic", "gemini", "bedrock"}

\* The size is that of the bodies which the row will have.
Arrived(kind, size) == [pc |-> "arriving", kind |-> kind, size |-> size, cost |-> 0]

\* What one of them has left.
PastRow == [cost |-> PlainCost, month |-> 1, url |-> FALSE]

\* An entry's size: without bodies, or with ones below or above the
\* threshold of the payload store.
Sizes == {"none", "small", "large"}

ASSUME TrailAssumption ==
    /\ IsFiniteSet(Requests \cup Past)
    /\ PlainCost \in Nat
    /\ NoRow \notin [cost : Nat, month : Nat, url : BOOLEAN]
    /\ NoVerdict \notin BOOLEAN
    /\ CapAt \in [Alerts -> Nat \cup {NoCap}]
    /\ \A arrivals \in Arrivals :
          /\ arrivals.kinds \in [Requests -> Dialects \cup {"plain", "none"}]
          /\ arrivals.sizes \in [Requests -> Sizes]
          /\ arrivals.alerts \subseteq Alerts
          /\ arrivals.month \in Nat \ {0}

Entry(cost, of, size) == [cost |-> cost, month |-> of, size |-> size]

Begin(entry) ==
    [pc      |-> IF entry.size = "large" THEN "storing" ELSE "inserting",
     entry   |-> entry,
     attempt |-> 1,
     stored  |-> FALSE,                    \* payload_url is set
     inline  |-> entry.size = "small"]     \* should_inline

NoWriter(entry) == [Begin(entry) EXCEPT !.pc = "off"]

Writes(r, stage) == writer[r].pc = stage

Init ==
    /\ \E arrivals \in Arrivals :
          /\ trail = [r \in Requests |-> Arrived(arrivals.kinds[r], arrivals.sizes[r])]
          /\ active = arrivals.alerts
          /\ month = arrivals.month
    /\ faults = 0
    /\ stream = [r \in Requests |-> Bridge!NoBridge]
    /\ writer = [r \in Requests |-> NoWriter(Entry(0, 1, "none"))]
    /\ rows = [r \in Requests \cup Past |-> IF r \in Past THEN PastRow ELSE NoRow]
    /\ bodies = {}
    /\ Budget!BudgetInit

-----------------------------------------------------------------------------
\* The audit writer (middleware/audit.rs): a detached task per entry that
\* stores the bodies, inserts the row and then the bodies that were not stored
\* elsewhere, up to MaxAttempts times over; the last failure leaves a line in
\* the process log instead.

\* log_async.
Emit(r, entry) ==
    /\ writer' = [writer EXCEPT ![r] = Begin(entry)]
    /\ UNCHANGED <<rows, bodies>>

\* payload_store.put, which overwrites what an earlier attempt has put.
StorePayload(r) ==
    /\ Writes(r, "storing")
    /\ writer' = [writer EXCEPT ![r].pc = "inserting", ![r].stored = TRUE]
    /\ UNCHANGED <<rows, bodies>>

\* The bodies go to the database instead.
StorePayloadFails(r) ==
    /\ Writes(r, "storing")
    /\ writer' = [writer EXCEPT ![r].pc = "inserting", ![r].inline = TRUE]
    /\ UNCHANGED <<rows, bodies>>

Failed(r) ==
    writer' = [writer EXCEPT ![r].pc = IF writer[r].attempt < MaxAttempts THEN "waiting" ELSE "fallback"]

Row(r) ==
    [cost  |-> writer[r].entry.cost,
     month |-> writer[r].entry.month,
     url   |-> writer[r].stored]

\* Phase 1.
InsertRow(r) ==
    /\ Writes(r, "inserting")
    /\ rows[r] = NoRow
    /\ writer[r].entry.month \in Partitions
    /\ rows' = [rows EXCEPT ![r] = Row(r)]
    /\ writer' = [writer EXCEPT ![r].pc = IF writer[r].inline THEN "bodies" ELSE "details"]
    /\ UNCHANGED bodies

\* The connection fails before the row is committed, or after.
InsertRowFails(r) ==
    /\ Writes(r, "inserting")
    /\ rows[r] = NoRow
    /\ writer[r].entry.month \in Partitions
    /\ \/ rows' = [rows EXCEPT ![r] = Row(r)]
       \/ UNCHANGED rows
    /\ Failed(r)
    /\ UNCHANGED bodies

\* The migrations make partitions for three months, and nothing adds any: a
\* row of another month is refused at every attempt.
NoPartition(r) ==
    /\ Writes(r, "inserting")
    /\ writer[r].entry.month \notin Partitions
    /\ Failed(r)
    /\ UNCHANGED <<rows, bodies>>

\* Mutant: a row that is there already is taken for success.
Duplicate_Succeeds(r) ==
    /\ Writes(r, "inserting")
    /\ rows[r] # NoRow
    /\ writer' = [writer EXCEPT ![r].pc = "details"]
    /\ UNCHANGED <<rows, bodies>>

\* The primary key refuses a row that an earlier attempt has committed.
Duplicate(r) ==
    /\ Writes(r, "inserting")
    /\ rows[r] # NoRow
    /\ Failed(r)
    /\ UNCHANGED <<rows, bodies>>

\* Phase 2.
InsertBodies(r) ==
    /\ Writes(r, "bodies")
    /\ bodies' = bodies \cup {r}
    /\ writer' = [writer EXCEPT ![r].pc = "details"]
    /\ UNCHANGED rows

InsertBodiesFails(r) ==
    /\ Writes(r, "bodies")
    /\ bodies' \in {bodies, bodies \cup {r}}
    /\ Failed(r)
    /\ UNCHANGED rows

\* Phase 3: the rows of the tool calls, whose failures are ignored.
InsertDetails(r) ==
    /\ Writes(r, "details")
    /\ writer' = [writer EXCEPT ![r].pc = "done"]
    /\ UNCHANGED <<rows, bodies>>

\* After the back-off everything is done again.
Retry(r) ==
    /\ Writes(r, "waiting")
    /\ writer' = [writer EXCEPT ![r] = [Begin(@.entry) EXCEPT !.attempt = writer[r].attempt + 1]]
    /\ UNCHANGED <<rows, bodies>>

WriterStep(r) ==
    \/ StorePayload(r) \/ InsertRow(r) \/ NoPartition(r) \/ Duplicate(r)
    \/ InsertBodies(r) \/ InsertDetails(r) \/ Retry(r)

WriterFault(r) == StorePayloadFails(r) \/ InsertRowFails(r) \/ InsertBodiesFails(r)

-----------------------------------------------------------------------------
At(r, stage) == trail[r].pc = stage

Go(r, stage) == trail' = [trail EXCEPT ![r].pc = stage]

Arrive(r) ==
    /\ At(r, "arriving")
    /\ trail[r].kind # "none"
    /\ Go(r, "checking")
    /\ check' = [check EXCEPT ![r].pc = "cache"]
    /\ UNCHANGED <<faults, stream, auditVars, active, month, spend, marks, sent, job, cached>>

\* A request ends with a row of its own.
Record(r, cost, size) ==
    /\ Emit(r, Entry(cost, month, size))
    /\ Go(r, "over")

\* Section 3.5b: over the cap the request is refused, and audited.
Decide(r) ==
    /\ At(r, "checking")
    /\ check[r].pc = "decided"
    /\ IF check[r].over THEN Record(r, 0, "none")
       ELSE Go(r, "calling") /\ UNCHANGED auditVars
    /\ UNCHANGED <<faults, stream, budgetVars>>

\* The answer is a stream, and the client gets its head at once.
AnswerStream(r) ==
    /\ At(r, "calling")
    /\ trail[r].kind \in Dialects
    /\ Bridge!Open(r, trail[r].kind)
    /\ Go(r, "streaming")
    /\ UNCHANGED <<faults, auditVars, budgetVars>>

AnswerPlain(r) ==
    /\ At(r, "calling")
    /\ trail[r].kind = "plain"
    /\ trail' = [trail EXCEPT ![r].pc = "billing", ![r].cost = PlainCost]
    /\ UNCHANGED <<faults, stream, auditVars, budgetVars>>

CallFails(r) ==
    /\ At(r, "calling")
    /\ Record(r, 0, "none")
    /\ UNCHANGED <<faults, stream, budgetVars>>

\* The cost of what the accumulator has seen; none without the usage.
CostOf(result) ==
    CASE result = "all"        -> 2
      [] result = "completion" -> 1
      [] OTHER                 -> 0

TakeResult(r) ==
    /\ At(r, "streaming")
    /\ stream[r].waiter = "ready"
    /\ trail' = [trail EXCEPT ![r].pc = "billing", ![r].cost = CostOf(stream[r].result)]
    /\ UNCHANGED <<faults, stream, auditVars, budgetVars>>

\* The charge is against the token's caps (the module SpendCap). The row of
\* a stream has no bodies.
Bill(r) ==
    /\ At(r, "billing")
    /\ Record(r, trail[r].cost, IF trail[r].kind = "plain" THEN trail[r].size ELSE "none")
    /\ UNCHANGED <<faults, stream, budgetVars>>

-----------------------------------------------------------------------------
StreamOnly == UNCHANGED <<trail, faults, auditVars, budgetVars>>

Reader(r) == Bridge!ReaderStep(r) /\ StreamOnly

Client(r) == Bridge!ClientStep(r) /\ StreamOnly

Waiter(r) == Bridge!WaiterStep(r) /\ StreamOnly

Writer(r) ==
    /\ WriterStep(r)
    /\ UNCHANGED <<trail, faults, stream, budgetVars>>

BudgetSteps ==
    /\ \/ Budget!JobStep \/ Budget!ExpireVerdict \/ Budget!NextMonth
       \/ \E r \in Requests : Budget!CheckStep(r)
    /\ UNCHANGED <<trail, faults, stream, auditVars>>

Fault ==
    /\ faults < MaxFaults
    /\ faults' = faults + 1

StoreFault ==
    /\ Fault
    /\ \/ /\ \E r \in Requests : WriterFault(r)
          /\ UNCHANGED budgetVars
       \/ /\ Budget!JobFails \/ \E r \in Requests : Budget!CheckFault(r)
          /\ UNCHANGED auditVars
    /\ UNCHANGED <<trail, stream>>

\* There is no shutdown sequence: every task ends where it is.
Restart ==
    /\ Fault
    /\ trail' = [r \in Requests |->
                    IF trail[r].pc \in {"arriving", "over"} THEN trail[r]
                    ELSE [trail[r] EXCEPT !.pc = "lost"]]
    /\ stream' = [r \in Requests |-> Bridge!NoBridge]
    /\ writer' = [r \in Requests |->
                    IF writer[r].pc \in {"off", "done", "fallback"} THEN writer[r]
                    ELSE [writer[r] EXCEPT !.pc = "lost"]]
    /\ job' = Budget!IdleJob
    /\ check' = [r \in Requests |-> Budget!NoCheck]
    /\ UNCHANGED <<rows, bodies, active, month, spend, marks, sent, cached>>

\* What follows from a request's arrival, but for the reader: the handler,
\* the billing task it spawns, and the audit task that one spawns.
Follow(r) ==
    \/ Decide(r) \/ AnswerStream(r) \/ AnswerPlain(r) \/ CallFails(r)
    \/ Waiter(r) \/ TakeResult(r) \/ Bill(r)
    \/ Writer(r)

Next ==
    \/ \E r \in Requests : Arrive(r) \/ Follow(r) \/ Reader(r) \/ Client(r)
    \/ BudgetSteps
    \/ StoreFault
    \/ Restart

\* Tasks are scheduled and the upstream's client gives up after 60 s, so an
\* idle reader ends; nothing is assumed of the client or of the stores.
Fairness == \A r \in Requests : WF_vars(Follow(r)) /\ WF_vars(Reader(r))

Spec == Init /\ [][Next]_vars /\ Fairness

-----------------------------------------------------------------------------
\* What a stream's waiter is given when it is given anything: it is all of
\* the usage, unless the usage had not been read, had been cut in two, or
\* the client's full channel has kept the reader from reporting it. It is about
\* every order of the reader's, the client's and the waiter's steps, with
\* the wake-up that comes before the waiter listens.
Excused(b) ==
    \/ \E i \in 1..Len(b.left) : b.left[i] = "usage"
    \/ b.cut
    \/ b.blocked /\ b.slot = "unset"

GetsUsage(r) ==
    stream[r].waiter # "ready" /\ stream'[r].waiter = "ready"
        => stream'[r].result = "all" \/ Excused(stream[r])

\* An answer in the dialect of OpenAI is billed in full.
UsageBilled ==
    [][\A r \in Requests : stream[r].dialect = "openai" => GetsUsage(r)]_vars

\* stream_bridge.rs:7 says of every stream that its result is resolved
\* "when the stream completes (for audit/cost)".
EveryDialectBilled == [][\A r \in Requests : GetsUsage(r)]_vars

Ended == {"done", "fallback", "lost"}

\* A stream leaves a record: whatever the client does and whichever wake-up
\* is missed, its billing task ends and its writer comes to an end, unless
\* the process stops.
StreamRecorded ==
    \A r \in Requests : At(r, "streaming") ~> (writer[r].pc \in Ended \/ At(r, "lost"))

\* A stream in the dialect of OpenAI is billed for all the usage it reported,
\* but where GetsUsage excuses it, and a stream of any dialect leaves its
\* record. Nothing is said of what the other dialects are billed: theirs is
\* lost or partial (EveryDialectBilled).
OpenAIStreamsBilled == UsageBilled /\ StreamRecorded

\* An entry that is done is there in full: its row, with the bodies beside
\* it or in the payload store, whichever attempt wrote what.
RecordComplete ==
    \A r \in Requests : writer[r].pc = "done" =>
        /\ rows[r] # NoRow
        /\ writer[r].entry.size # "none" => r \in bodies \/ rows[r].url

\* README.md:86 of the repository: "Every request produces a structured log
\* entry". While no store fails and the process runs, a row is written.
EveryRequestLogged ==
    faults = 0 => \A r \in Requests : writer[r].pc # "fallback"

\* A project is taken for over its cap only if the database could not be
\* asked, or the costed rows of a month reach a cap: rows, aggregate,
\* verdict and cache are written at four different times.
VerdictBacked ==
    cached = TRUE =>
        \/ faults > 0
        \/ \E m \in 1..month, a \in Budget!Capped : Budget!Spent(m) >= CapAt[a]

\* A notice that is marked has been sent, and is sent again only if a run
\* of the job was cut off before the mark.
AlertsBounded ==
    \A n \in Budget!Notices :
        /\ n \in marks => sent[n] >= 1
        /\ sent[n] <= 1 + faults

=============================================================================
