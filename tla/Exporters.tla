------------------------------ MODULE Exporters ------------------------------
(***************************************************************************)
(* What the observers get of each request that is audited                  *)
(* (middleware/observer.rs): Prometheus and DogStatsD count it at once,    *)
(* and a task of its own puts a trace and a generation into the buffer     *)
(* that Langfuse is sent: by the task that fills it, or by a ticker.       *)
(***************************************************************************)
EXTENDS Naturals, Sequences, FiniteSets, SequencesExt

CONSTANTS
    Requests,
    Models,
    Ticker,         \* the background task
    MaxCardinality, \* labels of models
    MaxBatch,       \* events in a full buffer
    MaxRestarts     \* bound

\* What the constants must be.
ConstantsAssumption ==
    /\ Ticker \notin Requests
    /\ "other" \notin Models
    /\ {MaxCardinality, MaxBatch, MaxRestarts} \subseteq Nat

VARIABLES
    model,    \* of each request
    pc,       \* where the record of each request is
    seen,     \* SEEN_MODELS
    label,    \* under which Prometheus has counted each request, or ""
    buffer,   \* events that wait
    batch,    \* events that a task or the ticker is sending
    received, \* batches that Langfuse has taken
    lost,     \* batches that nobody has
    restarts

vars == <<model, pc, seen, label, buffer, batch, received, lost, restarts>>

metrics == <<seen, label>>
langfuse == <<buffer, batch, received, lost>>

Flushers == Requests \cup {Ticker}

Init ==
    /\ model \in [Requests -> Models]
    /\ pc = [r \in Requests |-> "record"]
    /\ seen = {}
    /\ label = [r \in Requests |-> ""]
    /\ buffer = <<>>
    /\ batch = [t \in Flushers |-> <<>>]
    /\ received = {}
    /\ lost = {}
    /\ restarts = 0

Go(r, stage) == pc' = [pc EXCEPT ![r] = stage]

-----------------------------------------------------------------------------
\* PrometheusRecorder::record. Three operations on a concurrent set.
Record(r) ==
    /\ pc[r] = "record"
    /\ IF model[r] \in seen
       THEN label' = [label EXCEPT ![r] = model[r]] /\ Go(r, "export")
       ELSE UNCHANGED label /\ Go(r, "unseen")
    /\ UNCHANGED <<model, seen, langfuse, restarts>>

Bucket(r) ==
    /\ pc[r] = "unseen"
    /\ IF Cardinality(seen) >= MaxCardinality
       THEN label' = [label EXCEPT ![r] = "other"] /\ Go(r, "export")
       ELSE UNCHANGED label /\ Go(r, "insert")
    /\ UNCHANGED <<model, seen, langfuse, restarts>>

Insert(r) ==
    /\ pc[r] = "insert"
    /\ seen' = seen \cup {model[r]}
    /\ label' = [label EXCEPT ![r] = model[r]]
    /\ Go(r, "export")
    /\ UNCHANGED <<model, langfuse, restarts>>

\* export_async spawns. What DogStatsD is sent after that is kept nowhere.
Export(r) ==
    /\ pc[r] = "export"
    /\ Go(r, "push")
    /\ UNCHANGED <<model, seen, label, langfuse, restarts>>

-----------------------------------------------------------------------------
\* The task of a request, the ticker, and what both send.
Event(r, kind) == [request |-> r, kind |-> kind]

\* Under the mutex.
Push(r) ==
    /\ pc[r] = "push"
    /\ buffer' = buffer \o <<Event(r, "trace"), Event(r, "generation")>>
    /\ Go(r, IF Len(buffer') >= MaxBatch THEN "drain" ELSE "done")
    /\ UNCHANGED <<model, metrics, batch, received, lost, restarts>>

\* Mutant: the buffer is copied.
Drained_Copied == buffer

\* What a drain leaves in the buffer.
Drained == <<>>

\* Under the mutex once more: somebody else may have drained it.
Drain(r) ==
    /\ pc[r] = "drain"
    /\ batch' = [batch EXCEPT ![r] = buffer]
    /\ buffer' = Drained
    /\ Go(r, IF buffer = <<>> THEN "done" ELSE "flush")
    /\ UNCHANGED <<model, metrics, received, lost, restarts>>

Tick ==
    /\ batch[Ticker] = <<>>
    /\ buffer # <<>>
    /\ batch' = [batch EXCEPT ![Ticker] = buffer]
    /\ buffer' = Drained
    /\ UNCHANGED <<model, pc, metrics, received, lost, restarts>>

\* flush_batch: one attempt, of ten seconds at most.
FlushBatch(t) ==
    /\ batch[t] # <<>>
    /\ \/ received' = received \cup {batch[t]} /\ UNCHANGED lost
       \/ lost' = lost \cup {batch[t]} /\ UNCHANGED received
    /\ batch' = [batch EXCEPT ![t] = <<>>]
    /\ pc' = [r \in Requests |-> IF r = t THEN "done" ELSE pc[r]]
    /\ UNCHANGED <<model, metrics, buffer, restarts>>

\* Nothing of this outlives the process.
Restart ==
    /\ restarts < MaxRestarts
    /\ restarts' = restarts + 1
    /\ seen' = {}
    /\ lost' = (lost \cup {buffer} \cup {batch[t] : t \in Flushers}) \ {<<>>}
    /\ buffer' = <<>>
    /\ batch' = [t \in Flushers |-> <<>>]
    /\ pc' = [r \in Requests |-> CASE pc[r] = "record" -> "record"
                                   [] pc[r] \in {"drain", "flush", "done"} -> "done"
                                   [] OTHER -> "gone"]
    /\ UNCHANGED <<model, label, received>>

Next ==
    \/ \E r \in Requests :
          Record(r) \/ Bucket(r) \/ Insert(r) \/ Export(r) \/ Push(r) \/ Drain(r)
    \/ \E t \in Flushers : FlushBatch(t)
    \/ Tick \/ Restart

Spec == Init /\ [][Next]_vars

\* A task that is spawned runs, and the ticker ticks.
FairSpec ==
    /\ Spec
    /\ \A r \in Requests : WF_vars(Push(r)) /\ WF_vars(Drain(r))
    /\ \A t \in Flushers : WF_vars(FlushBatch(t))
    /\ WF_vars(Tick)

-----------------------------------------------------------------------------
\* Properties

\* The places of an event: the buffer, who is sending it, or where it went.
Places(e) ==
    {<<"buffer", b>> : b \in {c \in {buffer} : Contains(c, e)}}
    \cup {<<t, batch[t]>> : t \in {u \in Flushers : Contains(batch[u], e)}}
    \cup {<<"received", b>> : b \in {c \in received : Contains(c, e)}}
    \cup {<<"lost", b>> : b \in {c \in lost : Contains(c, e)}}

\* Whoever drains the buffer, and at which point between the two locks of a
\* task, the trace and the generation of a request travel together, and in
\* one batch only.
ExportedOnce ==
    \A r \in Requests :
        /\ Places(Event(r, "trace")) = Places(Event(r, "generation"))
        /\ Cardinality(Places(Event(r, "trace"))) =
               IF pc[r] \in {"drain", "flush", "done"} THEN 1 ELSE 0

\* What is in the buffer leaves it, full or not.
BufferEmpties == buffer # <<>> ~> buffer = <<>>

\* What was recorded is exported, and exported once.
EventsExported == [][ExportedOnce']_vars /\ BufferEmpties

\* metrics.rs: "if we've seen too many unique models, bucket new ones".
SeriesBounded == Cardinality(seen) <= MaxCardinality

=============================================================================
