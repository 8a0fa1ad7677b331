-------------------------- MODULE SpendTrail_proofs --------------------------
(***************************************************************************)
(* Proofs about SpendTrail, for any requests, alerts, months, attempts,    *)
(* channel and number of faults. Records are complete because a writer     *)
(* shows at each stage what its attempts have left (WriterOK); alerts are  *)
(* sent once because the one job knows every mark of what is still ahead   *)
(* of it (JobKnows); verdicts are backed because an aggregate is covered   *)
(* by rows, which only grow (SpendCovered, RowsKept); and an OpenAI stream *)
(* is billed in full because its usage is in the slot or still in the      *)
(* accumulator of a reader that has not ended (BillsAll).                  *)
(***************************************************************************)
EXTENDS SpendTrail, FiniteSetTheorems, SequenceTheorems, TLAPS

\* Types.
Stages == {"arriving", "checking", "calling", "streaming", "billing", "over", "lost"}

Trails ==
    [pc : Stages, kind : Dialects \cup {"plain", "none"}, size : Sizes, cost : Nat]

Entries == [cost : Nat, month : Nat, size : Sizes]

Writers ==
    [pc      : {"off", "storing", "inserting", "bodies", "details", "waiting",
                "done", "fallback", "lost"},
     entry   : Entries,
     attempt : Nat,
     stored  : BOOLEAN,
     inline  : BOOLEAN]

Rows == [cost : Nat, month : Nat, url : BOOLEAN]

Ledgers == [Requests \cup Past -> Rows \cup {NoRow}]

\* The handlers, and the clock.
HandlerOK ==
    /\ trail \in [Requests -> Trails]
    /\ faults \in Nat
    /\ month \in Nat \ {0}

-----------------------------------------------------------------------------
\* The audit writer: a row stands once phase 1 is over, and the bodies have
\* gone to the database by the end of phase 2 unless the store has them.
RowStands(r) == writer[r].pc \in {"bodies", "details", "done"} => rows[r] # NoRow

BodiesStand(r) ==
    /\ writer[r].pc \in {"details", "done"} /\ writer[r].entry.size # "none"
          => r \in bodies \/ rows[r].url
    /\ writer[r].pc = "inserting" /\ writer[r].entry.size # "none"
          => writer[r].stored \/ writer[r].inline

WriterOK ==
    /\ writer \in [Requests -> Writers]
    /\ rows \in Ledgers
    /\ \A r \in Requests : RowStands(r) /\ BodiesStand(r)

RecordInv == HandlerOK /\ WriterOK

-----------------------------------------------------------------------------
\* The budget job.
Jobs ==
    [pc     : {"off", "fetching", "choosing", "looking", "marking"},
     left   : SUBSET Alerts,
     notice : Budget!Notices \cup {<<>>},
     spend  : Nat,
     marks  : SUBSET Budget!Notices]

JobTypes ==
    /\ active \subseteq Alerts
    /\ spend \in [month : Nat, amount : Nat]
    /\ marks \subseteq Budget!Notices
    /\ sent \in [Budget!Notices -> Nat]
    /\ job \in Jobs

\* A notice that the run of the job has still to look at.
Ahead(n) ==
    /\ job.pc \in {"choosing", "looking", "marking"}
    /\ \/ n[1] \in job.left
       \/ /\ job.pc = "looking"
          /\ n = job.notice
       \/ /\ job.pc \in {"looking", "marking"}
          /\ n[1] = job.notice[1] /\ n[2] = "cap" /\ job.notice[2] = "warn"

\* The alert at hand is not to come again, and of what is ahead the job
\* knows the marks, since no run but its own sets one.
JobKnows ==
    /\ job.pc \in {"looking", "marking"} =>
          job.notice \in Budget!Notices /\ job.notice[1] \notin job.left
    /\ \A n \in Budget!Notices : Ahead(n) /\ n \in marks => n \in job.marks

Marking(n) == job.pc = "marking" /\ job.notice = n

\* An unmarked notice is sent once more per fault at most, but for the one
\* whose mark is about to be set.
SentOften ==
    \A n \in Budget!Notices :
        /\ n \in marks => sent[n] >= 1
        /\ n \in marks \/ Marking(n) => sent[n] <= 1 + faults
        /\ n \notin marks /\ ~Marking(n) => sent[n] <= faults
        /\ Marking(n) => sent[n] >= 1

JobInv == JobTypes /\ JobKnows /\ SentOften

-----------------------------------------------------------------------------
\* The verdicts.
Backed ==
    \/ faults > 0
    \/ \E m \in 1..month, a \in Budget!Capped : Budget!Spent(m) >= CapAt[a]

\* The aggregate is at most what the rows of some month come to.
SpendCovered == \E m \in 1..month : spend.amount <= Budget!Spent(m)

VerdictInv ==
    /\ check \in [Requests -> [pc : {"off", "cache", "database", "storing", "decided"},
                               over : BOOLEAN]]
    /\ cached \in BOOLEAN \cup {NoVerdict}
    /\ SpendCovered
    /\ cached = TRUE => Backed
    /\ \A r \in Requests : check[r].over => Backed

TrailInv == RecordInv /\ JobInv /\ VerdictInv

-----------------------------------------------------------------------------
\* The writer and its record.

\* A step of one writer, which adds its row at most, keeps the others'.
LEMMA OneWriter ==
  ASSUME WriterOK, NEW r \in Requests,
         writer' \in [Requests -> Writers], rows' \in Ledgers, bodies \subseteq bodies',
         \A s \in Requests \ {r} : writer'[s] = writer[s],
         \A s \in Requests : rows[s] # NoRow => rows'[s] = rows[s],
         RowStands(r)', BodiesStand(r)'
  PROVE  WriterOK'
<1>1. ASSUME NEW s \in Requests, s # r
      PROVE  RowStands(s)' /\ BodiesStand(s)'
  <2>1. writer'[s] = writer[s] /\ (rows[s] # NoRow => rows'[s] = rows[s])
    BY <1>1
  <2>2. RowStands(s) /\ BodiesStand(s)
    BY DEF WriterOK
  <2>. QED  BY <2>1, <2>2 DEF RowStands, BodiesStand
<1>. QED  BY <1>1 DEF WriterOK

\* What a writer begins with is typed, and has nothing of its own to show.
LEMMA BeginTyped ==
  \A entry \in Entries :
      /\ Begin(entry) \in Writers
      /\ Begin(entry).pc \in {"storing", "inserting"}
      /\ Begin(entry).entry = entry
      /\ Begin(entry).pc = "inserting" /\ entry.size # "none" => Begin(entry).inline
BY DEF Begin, Writers, Entries, Sizes

\* A request that ends leaves an entry to a new writer.
LEMMA Emitted ==
  ASSUME RecordInv, NEW r \in Requests, NEW entry \in Entries, Emit(r, entry)
  PROVE  WriterOK'
<1>1. writer' = [writer EXCEPT ![r] = Begin(entry)] /\ UNCHANGED <<rows, bodies>>
  BY DEF Emit
<1>2. writer \in [Requests -> Writers] /\ rows \in Ledgers /\ WriterOK
  BY DEF RecordInv, WriterOK
<1>3. writer' \in [Requests -> Writers] /\ writer'[r] = Begin(entry)
  BY <1>1, <1>2, BeginTyped
<1>4. RowStands(r)' /\ BodiesStand(r)'
  BY <1>3, BeginTyped DEF RowStands, BodiesStand
<1>. QED  BY <1>1, <1>2, <1>3, <1>4, OneWriter

\* The row that a writer inserts is typed.
LEMMA RowTyped ==
  ASSUME RecordInv, NEW r \in Requests
  PROVE  Row(r) \in Rows /\ Row(r) # NoRow /\ Row(r).url = writer[r].stored
<1>1. writer[r] \in Writers
  BY DEF RecordInv, WriterOK
<1>2. writer[r].entry \in Entries /\ writer[r].stored \in BOOLEAN
  BY <1>1 DEF Writers
<1>3. Row(r) \in Rows /\ Row(r).url = writer[r].stored
  BY <1>2 DEF Row, Rows, Entries
<1>. QED  BY <1>3, TrailAssumption DEF Rows

\* Every step of the writer, failing or not.
LEMMA WriterRecords ==
  ASSUME RecordInv, NEW r \in Requests, WriterStep(r) \/ WriterFault(r)
  PROVE  WriterOK'
<1>1. writer \in [Requests -> Writers] /\ rows \in Ledgers /\ WriterOK
  BY DEF RecordInv, WriterOK
<1>2. writer[r] \in Writers /\ RowStands(r) /\ BodiesStand(r)
  BY <1>1 DEF WriterOK
<1>3. Row(r) \in Rows /\ Row(r) # NoRow /\ Row(r).url = writer[r].stored
  BY RowTyped
<1>4. \A row \in Rows : [rows EXCEPT ![r] = row] \in Ledgers
  BY <1>1 DEF Ledgers
<1>5. DOMAIN rows = Requests \cup Past
  BY <1>1 DEF Ledgers
<1>a. ASSUME Failed(r), \/ UNCHANGED rows
                        \/ rows[r] = NoRow /\ rows' = [rows EXCEPT ![r] = Row(r)],
             bodies \subseteq bodies'
      PROVE  WriterOK'
  <2>1. PICK stage \in {"waiting", "fallback"} : writer' = [writer EXCEPT ![r].pc = stage]
    BY <1>a DEF Failed
  <2>2. writer' \in [Requests -> Writers] /\ writer'[r].pc = stage
    BY <1>1, <1>2, <2>1 DEF Writers
  <2>3. rows' \in Ledgers /\ \A s \in Requests : rows[s] # NoRow => rows'[s] = rows[s]
    BY <1>1, <1>3, <1>4, <1>5, <1>a
  <2>4. RowStands(r)' /\ BodiesStand(r)'
    BY <2>2 DEF RowStands, BodiesStand
  <2>. QED  BY <1>1, <1>a, <2>1, <2>2, <2>3, <2>4, OneWriter
<1>6. CASE StorePayload(r)
  <2>1. writer' = [writer EXCEPT ![r].pc = "inserting", ![r].stored = TRUE]
        /\ UNCHANGED <<rows, bodies>>
    BY <1>6 DEF StorePayload
  <2>2. writer' \in [Requests -> Writers] /\ writer'[r].pc = "inserting" /\ writer'[r].stored
    BY <1>1, <1>2, <2>1 DEF Writers
  <2>3. RowStands(r)' /\ BodiesStand(r)'
    BY <2>2 DEF RowStands, BodiesStand
  <2>. QED  BY <1>1, <2>1, <2>2, <2>3, OneWriter
<1>7. CASE StorePayloadFails(r)
  <2>1. writer' = [writer EXCEPT ![r].pc = "inserting", ![r].inline = TRUE]
        /\ UNCHANGED <<rows, bodies>>
    BY <1>7 DEF StorePayloadFails
  <2>2. writer' \in [Requests -> Writers] /\ writer'[r].pc = "inserting" /\ writer'[r].inline
    BY <1>1, <1>2, <2>1 DEF Writers
  <2>3. RowStands(r)' /\ BodiesStand(r)'
    BY <2>2 DEF RowStands, BodiesStand
  <2>. QED  BY <1>1, <2>1, <2>2, <2>3, OneWriter
<1>8. CASE InsertRow(r)
  <2>1. /\ writer[r].pc = "inserting" /\ rows[r] = NoRow /\ UNCHANGED bodies
        /\ rows' = [rows EXCEPT ![r] = Row(r)]
    BY <1>8 DEF InsertRow, Writes
  <2>2. PICK stage \in {"bodies", "details"} :
            /\ writer' = [writer EXCEPT ![r].pc = stage]
            /\ stage = "details" => ~writer[r].inline
    BY <1>8 DEF InsertRow
  <2>3. /\ writer' \in [Requests -> Writers] /\ writer'[r].pc = stage
        /\ writer'[r].entry = writer[r].entry
    BY <1>1, <1>2, <2>2 DEF Writers
  <2>4. rows' \in Ledgers /\ rows'[r] = Row(r)
    BY <1>3, <1>4, <1>5, <2>1
  <2>5. \A s \in Requests : rows[s] # NoRow => rows'[s] = rows[s]
    BY <1>5, <2>1
  <2>6. RowStands(r)'
    BY <1>3, <2>4 DEF RowStands
  <2>7. BodiesStand(r)'
    BY <1>2, <1>3, <2>1, <2>2, <2>3, <2>4 DEF BodiesStand
  <2>. QED  BY <1>1, <2>1, <2>2, <2>3, <2>4, <2>5, <2>6, <2>7, OneWriter
<1>9. CASE InsertRowFails(r)
  BY <1>9, <1>a DEF InsertRowFails
<1>10. CASE NoPartition(r)
  BY <1>10, <1>a DEF NoPartition
<1>11. CASE Duplicate(r)
  BY <1>11, <1>a DEF Duplicate
<1>12. CASE InsertBodies(r)
  <2>1. /\ writer[r].pc = "bodies" /\ bodies' = bodies \cup {r} /\ UNCHANGED rows
        /\ writer' = [writer EXCEPT ![r].pc = "details"]
    BY <1>12 DEF InsertBodies, Writes
  <2>2. writer' \in [Requests -> Writers] /\ writer'[r].pc = "details"
    BY <1>1, <1>2, <2>1 DEF Writers
  <2>3. RowStands(r)' /\ BodiesStand(r)'
    BY <1>2, <2>1, <2>2 DEF RowStands, BodiesStand
  <2>. QED  BY <1>1, <2>1, <2>2, <2>3, OneWriter
<1>13. CASE InsertBodiesFails(r)
  BY <1>13, <1>a DEF InsertBodiesFails
<1>14. CASE InsertDetails(r)
  <2>1. /\ writer[r].pc = "details" /\ UNCHANGED <<rows, bodies>>
        /\ writer' = [writer EXCEPT ![r].pc = "done"]
    BY <1>14 DEF InsertDetails, Writes
  <2>2. /\ writer' \in [Requests -> Writers] /\ writer'[r].pc = "done"
        /\ writer'[r].entry = writer[r].entry
    BY <1>1, <1>2, <2>1 DEF Writers
  <2>3. RowStands(r)' /\ BodiesStand(r)'
    BY <1>2, <2>1, <2>2 DEF RowStands, BodiesStand
  <2>. QED  BY <1>1, <2>1, <2>2, <2>3, OneWriter
<1>15. CASE Retry(r)
  <2>. DEFINE again == [Begin(writer[r].entry) EXCEPT !.attempt = writer[r].attempt + 1]
  <2>1. writer' = [writer EXCEPT ![r] = again] /\ UNCHANGED <<rows, bodies>>
    BY <1>1, <1>15 DEF Retry
  <2>2. writer[r].entry \in Entries /\ writer[r].attempt \in Nat
    BY <1>2 DEF Writers
  <2>3. /\ Begin(writer[r].entry) \in Writers
        /\ Begin(writer[r].entry).pc \in {"storing", "inserting"}
        /\ Begin(writer[r].entry).entry = writer[r].entry
        /\ Begin(writer[r].entry).pc = "inserting" /\ writer[r].entry.size # "none"
              => Begin(writer[r].entry).inline
    BY <2>2, BeginTyped
  <2>4. /\ again \in Writers /\ again.pc = Begin(writer[r].entry).pc
        /\ again.inline = Begin(writer[r].entry).inline
        /\ again.entry = Begin(writer[r].entry).entry
    BY <2>2, <2>3 DEF Writers
  <2>. HIDE DEF again
  <2>5. writer' \in [Requests -> Writers] /\ writer'[r] = again
    BY <1>1, <2>1, <2>4
  <2>6. RowStands(r)' /\ BodiesStand(r)'
    BY <2>3, <2>4, <2>5 DEF RowStands, BodiesStand
  <2>. QED  BY <1>1, <2>1, <2>5, <2>6, OneWriter
<1>. QED
  BY <1>6, <1>7, <1>8, <1>9, <1>10, <1>11, <1>12, <1>13, <1>14, <1>15
     DEF WriterStep, WriterFault

\* A handler goes on, and what it has to write down stays typed.
LEMMA HandlerGoes ==
  ASSUME RecordInv, NEW r \in Requests, NEW stage \in Stages, Go(r, stage),
         UNCHANGED <<faults, month>>
  PROVE  HandlerOK'
<1>1. trail \in [Requests -> Trails] /\ trail[r] \in Trails
  BY DEF RecordInv, HandlerOK
<1>2. trail' = [trail EXCEPT ![r].pc = stage]
  BY DEF Go
<1>3. trail' \in [Requests -> Trails]
  BY <1>1, <1>2 DEF Trails
<1>. QED  BY <1>3 DEF RecordInv, HandlerOK

\* A request that ends keeps both.
LEMMA RequestRecorded ==
  ASSUME RecordInv, NEW r \in Requests, NEW cost \in Nat, NEW size \in Sizes,
         Record(r, cost, size), UNCHANGED <<faults, month>>
  PROVE  RecordInv'
<1>1. Entry(cost, month, size) \in Entries
  BY DEF Entry, Entries, RecordInv, HandlerOK
<1>2. WriterOK'
  BY <1>1, Emitted DEF Record
<1>3. "over" \in Stages
  BY DEF Stages
<1>4. HandlerOK'
  BY <1>3, HandlerGoes DEF Record
<1>. QED  BY <1>2, <1>4 DEF RecordInv

\* What leaves the audit alone keeps its invariant.
LEMMA WriterFrame ==
  ASSUME RecordInv, UNCHANGED auditVars
  PROVE  WriterOK'
BY DEF RecordInv, WriterOK, auditVars, RowStands, BodiesStand

\* The steps of a request, from its arrival on.
LEMMA FollowRecords ==
  ASSUME RecordInv, NEW r \in Requests, Arrive(r) \/ Follow(r) \/ Reader(r) \/ Client(r)
  PROVE  RecordInv'
<1>1. /\ {"checking", "calling", "streaming", "billing"} \subseteq Stages
      /\ "none" \in Sizes
  BY DEF Stages, Sizes
<1>2. trail \in [Requests -> Trails] /\ trail[r] \in Trails /\ HandlerOK
  BY DEF RecordInv, HandlerOK
<1>a. ASSUME UNCHANGED <<trail, faults, month>>
      PROVE  HandlerOK'
  BY <1>2, <1>a DEF HandlerOK
<1>b. ASSUME NEW cost \in Nat, trail' = [trail EXCEPT ![r].pc = "billing", ![r].cost = cost],
             UNCHANGED <<faults, month>>
      PROVE  HandlerOK'
  <2>1. trail' \in [Requests -> Trails]
    BY <1>1, <1>2, <1>b DEF Trails
  <2>. QED  BY <1>2, <1>b, <2>1 DEF HandlerOK
<1>3. CASE Arrive(r)
  <2>1. HandlerOK'
    BY <1>1, <1>3, HandlerGoes DEF Arrive
  <2>2. WriterOK'
    BY <1>3, WriterFrame DEF Arrive
  <2>. QED  BY <2>1, <2>2 DEF RecordInv
<1>4. CASE Decide(r)
  <2>1. CASE check[r].over
    <3>1. Record(r, 0, "none") /\ UNCHANGED <<faults, month>>
      BY <1>4, <2>1 DEF Decide, budgetVars
    <3>. QED  BY <1>1, <3>1, RequestRecorded
  <2>2. CASE ~check[r].over
    <3>1. Go(r, "calling") /\ UNCHANGED <<auditVars, faults, month>>
      BY <1>4, <2>2 DEF Decide, budgetVars
    <3>. QED  BY <1>1, <3>1, HandlerGoes, WriterFrame DEF RecordInv
  <2>. QED  BY <2>1, <2>2
<1>5. CASE AnswerStream(r)
  <2>1. Go(r, "streaming") /\ UNCHANGED <<auditVars, faults, month>>
    BY <1>5 DEF AnswerStream, budgetVars
  <2>. QED  BY <1>1, <2>1, HandlerGoes, WriterFrame DEF RecordInv
<1>6. CASE AnswerPlain(r)
  <2>1. /\ trail' = [trail EXCEPT ![r].pc = "billing", ![r].cost = PlainCost]
        /\ UNCHANGED <<auditVars, faults, month>>
    BY <1>6 DEF AnswerPlain, budgetVars
  <2>. QED  BY <1>b, <2>1, WriterFrame, TrailAssumption DEF RecordInv
<1>7. CASE CallFails(r)
  <2>1. Record(r, 0, "none") /\ UNCHANGED <<faults, month>>
    BY <1>7 DEF CallFails, budgetVars
  <2>. QED  BY <1>1, <2>1, RequestRecorded
<1>8. CASE Waiter(r) \/ Reader(r) \/ Client(r)
  <2>1. UNCHANGED <<trail, auditVars, faults, month>>
    BY <1>8 DEF Waiter, Reader, Client, StreamOnly, budgetVars
  <2>. QED  BY <1>a, <2>1, WriterFrame DEF RecordInv
<1>9. CASE TakeResult(r)
  <2>1. /\ trail' = [trail EXCEPT ![r].pc = "billing", ![r].cost = CostOf(stream[r].result)]
        /\ UNCHANGED <<auditVars, faults, month>>
    BY <1>9 DEF TakeResult, budgetVars
  <2>2. CostOf(stream[r].result) \in Nat
    BY DEF CostOf
  <2>. QED  BY <1>b, <2>1, <2>2, WriterFrame DEF RecordInv
<1>10. CASE Bill(r)
  <2>1. PICK size \in {trail[r].size, "none"} :
            Record(r, trail[r].cost, size) /\ UNCHANGED <<faults, month>>
    BY <1>10 DEF Bill, budgetVars
  <2>2. trail[r].cost \in Nat /\ size \in Sizes
    BY <1>1, <1>2 DEF Trails
  <2>. QED  BY <2>1, <2>2, RequestRecorded
<1>11. CASE Writer(r)
  <2>1. WriterStep(r) /\ UNCHANGED <<trail, faults, month>>
    BY <1>11 DEF Writer, budgetVars
  <2>. QED  BY <1>a, <2>1, WriterRecords DEF RecordInv
<1>. QED
  BY <1>3, <1>4, <1>5, <1>6, <1>7, <1>8, <1>9, <1>10, <1>11 DEF Follow

\* Initially no writer is at work, and only the past has rows.
LEMMA InitRecords == Init => RecordInv
<1>. SUFFICES ASSUME Init PROVE RecordInv
  OBVIOUS
<1>1. PICK arrivals \in Arrivals :
          /\ trail = [r \in Requests |-> Arrived(arrivals.kinds[r], arrivals.sizes[r])]
          /\ month = arrivals.month
  BY DEF Init
<1>2. /\ arrivals.kinds \in [Requests -> Dialects \cup {"plain", "none"}]
      /\ arrivals.sizes \in [Requests -> Sizes]
      /\ arrivals.month \in Nat \ {0}
  BY TrailAssumption
<1>3. trail \in [Requests -> Trails]
  BY <1>1, <1>2 DEF Arrived, Trails, Stages
<1>4. HandlerOK
  BY <1>1, <1>2, <1>3 DEF Init, HandlerOK
<1>5. Entry(0, 1, "none") \in Entries
  BY DEF Entry, Entries, Sizes
<1>6. NoWriter(Entry(0, 1, "none")) \in Writers /\ NoWriter(Entry(0, 1, "none")).pc = "off"
  BY <1>5 DEF NoWriter, Begin, Writers, Entries, Sizes
<1>7. writer \in [Requests -> Writers] /\ \A r \in Requests : writer[r].pc = "off"
  BY <1>6 DEF Init
<1>8. rows \in Ledgers
  BY TrailAssumption DEF Init, Ledgers, PastRow, Rows
<1>9. WriterOK
  BY <1>7, <1>8 DEF WriterOK, RowStands, BodiesStand
<1>. QED  BY <1>4, <1>9 DEF RecordInv

\* Rows are kept, handlers and writers end where they are.
LEMMA RestartRecords ==
  ASSUME RecordInv, Restart
  PROVE  RecordInv'
<1>1. /\ trail \in [Requests -> Trails] /\ faults \in Nat
      /\ writer \in [Requests -> Writers] /\ WriterOK
  BY DEF RecordInv, HandlerOK, WriterOK
<1>2. \A r \in Requests : trail'[r] \in Trails
  <2>. SUFFICES ASSUME NEW r \in Requests PROVE trail'[r] \in Trails
    OBVIOUS
  <2>1. trail[r] \in Trails /\ [trail[r] EXCEPT !.pc = "lost"] \in Trails
    BY <1>1 DEF Trails, Stages
  <2>. QED  BY <2>1 DEF Restart
<1>3. trail' \in [Requests -> Trails]
  BY <1>2 DEF Restart
<1>4. HandlerOK'
  BY <1>1, <1>3 DEF Restart, Fault, HandlerOK, RecordInv
<1>5. \A r \in Requests : /\ writer'[r] \in Writers
                          /\ writer'[r] = writer[r] \/ writer'[r].pc = "lost"
  <2>. SUFFICES ASSUME NEW r \in Requests
                PROVE  /\ writer'[r] \in Writers
                       /\ writer'[r] = writer[r] \/ writer'[r].pc = "lost"
    OBVIOUS
  <2>1. /\ writer[r] \in Writers /\ [writer[r] EXCEPT !.pc = "lost"] \in Writers
        /\ [writer[r] EXCEPT !.pc = "lost"].pc = "lost"
    BY <1>1 DEF Writers
  <2>. QED  BY <2>1 DEF Restart
<1>6. writer' \in [Requests -> Writers] /\ UNCHANGED <<rows, bodies>>
  BY <1>5 DEF Restart
<1>7. WriterOK'
  BY <1>1, <1>5, <1>6 DEF WriterOK, RowStands, BodiesStand
<1>. QED  BY <1>4, <1>7 DEF RecordInv

\* Every step keeps the records.
LEMMA NextRecords ==
  ASSUME RecordInv, [Next]_vars
  PROVE  RecordInv'
<1>1. CASE \E r \in Requests : Arrive(r) \/ Follow(r) \/ Reader(r) \/ Client(r)
  BY <1>1, FollowRecords
<1>2. CASE BudgetSteps
  <2>1. UNCHANGED <<trail, faults, auditVars>>
    BY <1>2 DEF BudgetSteps
  <2>2. UNCHANGED month \/ month' = month + 1
    BY <1>2 DEF BudgetSteps, Budget!JobStep, Budget!ExpireVerdict, Budget!NextMonth,
                Budget!CheckStep, Budget!Aggregate, Budget!FetchAlerts, Budget!NextAlert,
                Budget!SkipAlert, Budget!SendAlert, Budget!MarkAlert, Budget!JobEnds,
                Budget!ReadCached, Budget!ReadCap, Budget!StoreVerdict, Budget!SetCheck
  <2>3. HandlerOK'
    BY <2>1, <2>2 DEF RecordInv, HandlerOK
  <2>. QED  BY <2>1, <2>3, WriterFrame DEF RecordInv
<1>3. CASE StoreFault
  <2>1. UNCHANGED <<trail, month>> /\ faults' = faults + 1
    BY <1>3 DEF StoreFault, Fault, budgetVars, Budget!JobFails, Budget!CheckFault,
                Budget!ReadCachedFails, Budget!ReadCapFails, Budget!StoreVerdictFails,
                Budget!SetCheck
  <2>2. HandlerOK'
    BY <2>1 DEF RecordInv, HandlerOK
  <2>3. UNCHANGED auditVars \/ \E r \in Requests : WriterFault(r)
    BY <1>3 DEF StoreFault
  <2>. QED  BY <2>2, <2>3, WriterFrame, WriterRecords DEF RecordInv
<1>4. CASE Restart
  BY <1>4, RestartRecords
<1>5. CASE UNCHANGED vars
  <2>1. HandlerOK'
    BY <1>5 DEF vars, budgetVars, RecordInv, HandlerOK
  <2>. QED  BY <1>5, <2>1, WriterFrame DEF vars, RecordInv
<1>. QED  BY <1>1, <1>2, <1>3, <1>4, <1>5 DEF Next

\* An audit entry that is done is there in full, row and bodies, whatever the
\* order of its attempts and of the failures and restarts between them
\* (insert_audit_log and log_async of middleware/audit.rs).
THEOREM RecordsComplete == Spec => []RecordComplete
<1>1. RecordInv => RecordComplete
  BY DEF RecordInv, WriterOK, RowStands, BodiesStand, RecordComplete
<1>. QED  BY InitRecords, NextRecords, <1>1, PTL DEF Spec

-----------------------------------------------------------------------------
\* The job and its alerts.

\* A notice is an alert and a kind.
LEMMA NoticePairs ==
  /\ \A n \in Budget!Notices : /\ n[1] \in Alerts /\ n[2] \in {"warn", "cap"}
                               /\ n = <<n[1], n[2]>>
  /\ \A a \in Alerts : <<a, "warn">> \in Budget!Notices /\ <<a, "cap">> \in Budget!Notices
BY DEF Budget!Notices

\* Between its runs the job holds nothing.
LEMMA IdleTyped == Budget!IdleJob \in Jobs /\ Budget!IdleJob.pc = "off"
BY DEF Budget!IdleJob, Jobs

\* What leaves the job, the marks and the notices sent alone keeps their
\* invariant: there are only more faults.
LEMMA JobFrame ==
  ASSUME JobInv, faults \in Nat, faults' \in {faults, faults + 1},
         UNCHANGED <<active, spend, marks, sent, job>>
  PROVE  JobInv'
<1>1. JobTypes' /\ JobKnows'
  BY DEF JobInv, JobTypes, JobKnows, Ahead
<1>2. sent \in [Budget!Notices -> Nat]
  BY DEF JobInv, JobTypes
<1>3. SentOften'
  BY <1>2 DEF JobInv, SentOften, Marking
<1>. QED  BY <1>1, <1>3 DEF JobInv

\* A run of the job that is over, or cut off: a notice that was sent and not
\* marked takes a fault.
LEMMA JobEnded ==
  ASSUME JobInv, faults \in Nat, faults' \in {faults, faults + 1}, job' = Budget!IdleJob,
         job.pc = "marking" => faults' = faults + 1,
         UNCHANGED <<active, spend, marks, sent>>
  PROVE  JobInv'
<1>1. job' \in Jobs /\ job'.pc = "off"
  BY IdleTyped
<1>2. JobTypes' /\ JobKnows'
  BY <1>1 DEF JobInv, JobTypes, JobKnows, Ahead
<1>3. sent \in [Budget!Notices -> Nat]
  BY DEF JobInv, JobTypes
<1>4. SentOften'
  BY <1>1, <1>3 DEF JobInv, SentOften, Marking
<1>. QED  BY <1>2, <1>4 DEF JobInv

\* The job looks at the next notice, or chooses an alert: nothing comes
\* ahead that was not, and nothing is being marked.
LEMMA JobLooks ==
  ASSUME JobInv, faults \in Nat, NEW j \in Jobs, job' = j,
         j.pc \in {"choosing", "looking"},
         j.pc = "looking" => j.notice \in Budget!Notices /\ j.notice[1] \notin j.left,
         \A n \in Budget!Notices : Ahead(n)' /\ n \in marks' => n \in j.marks,
         UNCHANGED <<active, spend, sent, faults>>,
         marks' = IF job.pc = "marking" THEN marks \cup {job.notice} ELSE marks
  PROVE  JobInv'
<1>1. JobTypes /\ JobKnows /\ SentOften
  BY DEF JobInv
<1>2. marks' \subseteq Budget!Notices
  BY <1>1 DEF JobTypes, JobKnows
<1>3. JobTypes' /\ JobKnows'
  BY <1>1, <1>2 DEF JobTypes, JobKnows
<1>4. sent \in [Budget!Notices -> Nat]
  BY <1>1 DEF JobTypes
<1>5. SentOften'
  BY <1>1, <1>4 DEF SentOften, Marking
<1>. QED  BY <1>3, <1>5 DEF JobInv

\* After a notice comes the cap of the same alert, or the next alert.
LEMMA LookedOn ==
  ASSUME JobInv, job.pc \in {"looking", "marking"}
  PROVE  \E j \in Jobs :
            /\ j = Budget!LookOn /\ j.left = job.left /\ j.marks = job.marks
            /\ \/ j.pc = "choosing"
               \/ /\ j.pc = "looking" /\ j.notice = <<job.notice[1], "cap">>
                  /\ job.notice[2] = "warn" /\ j.notice \in Budget!Notices
<1>1. job \in Jobs /\ job.notice \in Budget!Notices
  BY DEF JobInv, JobTypes, JobKnows
<1>2. <<job.notice[1], "cap">> \in Budget!Notices
  BY <1>1, NoticePairs
<1>3. CASE job.notice[2] = "warn" /\ CapAt[job.notice[1]] # NoCap
  <2>. DEFINE j == [job EXCEPT !.pc = "looking", !.notice = <<job.notice[1], "cap">>]
  <2>1. j = Budget!LookOn
    BY <1>3 DEF Budget!LookOn
  <2>2. /\ j \in Jobs /\ j.pc = "looking" /\ j.left = job.left /\ j.marks = job.marks
        /\ j.notice = <<job.notice[1], "cap">>
    BY <1>1, <1>2 DEF Jobs
  <2>. QED  BY <1>2, <1>3, <2>1, <2>2
<1>4. CASE ~(job.notice[2] = "warn" /\ CapAt[job.notice[1]] # NoCap)
  <2>. DEFINE j == [job EXCEPT !.pc = "choosing", !.notice = <<>>]
  <2>1. j = Budget!LookOn
    BY <1>4 DEF Budget!LookOn
  <2>2. j \in Jobs /\ j.pc = "choosing" /\ j.left = job.left /\ j.marks = job.marks
    BY <1>1 DEF Jobs
  <2>. QED  BY <2>1, <2>2
<1>. QED  BY <1>3, <1>4

\* So what is ahead then was ahead before, and is not the notice at hand.
LEMMA LookedOnAhead ==
  ASSUME JobInv, job.pc \in {"looking", "marking"}, job' = Budget!LookOn,
         NEW n \in Budget!Notices, Ahead(n)'
  PROVE  Ahead(n) /\ n # job.notice /\ job'.marks = job.marks
<1>1. PICK j \in Jobs :
            /\ j = Budget!LookOn /\ j.left = job.left /\ j.marks = job.marks
            /\ \/ j.pc = "choosing"
               \/ /\ j.pc = "looking" /\ j.notice = <<job.notice[1], "cap">>
                  /\ job.notice[2] = "warn" /\ j.notice \in Budget!Notices
  BY LookedOn
<1>2. job' = j
  BY <1>1
<1>3. /\ job.notice[1] \notin job.left /\ job.notice \in Budget!Notices
      /\ job.notice = <<job.notice[1], job.notice[2]>> /\ n = <<n[1], n[2]>>
  BY NoticePairs DEF JobInv, JobKnows
<1>4. CASE n[1] \in j.left
  BY <1>1, <1>2, <1>3, <1>4 DEF Ahead
<1>5. CASE n[1] \notin j.left
  <2>1. /\ j.pc = "looking" /\ j.notice = <<job.notice[1], "cap">> /\ job.notice[2] = "warn"
        /\ n = j.notice \/ j.notice[2] = "warn"
    BY <1>1, <1>2, <1>5 DEF Ahead
  <2>2. n = <<job.notice[1], "cap">>
    BY <2>1
  <2>3. n[1] = job.notice[1] /\ n[2] = "cap"
    BY <2>2
  <2>. QED  BY <1>1, <1>2, <2>1, <2>3 DEF Ahead
<1>. QED  BY <1>4, <1>5

\* Every step of the job.
LEMMA JobSteps ==
  ASSUME JobInv, faults \in Nat, UNCHANGED faults, month \in Nat,
         \A m \in Nat : Budget!Spent(m) \in Nat, Budget!JobStep
  PROVE  JobInv'
<1>1. JobTypes /\ JobKnows /\ SentOften /\ job \in Jobs
  BY DEF JobInv, JobTypes
<1>2. CASE Budget!Aggregate
  <2>. DEFINE j == [job EXCEPT !.pc = "fetching"]
  <2>1. job' = j /\ UNCHANGED <<active, marks, sent>> /\ job.pc = "off"
    BY <1>2 DEF Budget!Aggregate
  <2>2. j \in Jobs /\ j.pc = "fetching"
    BY <1>1 DEF Jobs
  <2>3. spend' \in [month : Nat, amount : Nat]
    BY <1>1, <1>2 DEF Budget!Aggregate, JobTypes
  <2>4. JobTypes' /\ JobKnows'
    BY <1>1, <2>1, <2>2, <2>3 DEF JobTypes, JobKnows, Ahead
  <2>5. SentOften'
    BY <1>1, <2>1, <2>2 DEF SentOften, Marking
  <2>. QED  BY <2>4, <2>5 DEF JobInv
<1>3. CASE Budget!FetchAlerts
  <2>. DEFINE j == [pc     |-> "choosing",
                    left   |-> active,
                    notice |-> <<>>,
                    spend  |-> spend.amount,
                    marks  |-> marks]
  <2>1. job' = j /\ UNCHANGED <<active, spend, marks, sent>> /\ job.pc = "fetching"
    BY <1>3 DEF Budget!FetchAlerts
  <2>2. j \in Jobs /\ j.pc = "choosing" /\ j.marks = marks
    BY <1>1 DEF Jobs, JobTypes
  <2>. HIDE DEF j
  <2>. QED  BY <2>1, <2>2, JobLooks
<1>4. CASE Budget!NextAlert
  <2>1. PICK a \in job.left :
            job' = [job EXCEPT !.pc = "looking", !.left = @ \ {a}, !.notice = <<a, "warn">>]
    BY <1>4 DEF Budget!NextAlert
  <2>. DEFINE j == [job EXCEPT !.pc = "looking", !.left = job.left \ {a},
                               !.notice = <<a, "warn">>]
  <2>2. job' = j
    BY <2>1
  <2>3. a \in Alerts /\ <<a, "warn">> \in Budget!Notices
    BY <1>1, NoticePairs DEF Jobs
  <2>4. /\ j \in Jobs /\ j.pc = "looking" /\ j.left = job.left \ {a}
        /\ j.notice = <<a, "warn">> /\ j.marks = job.marks
    BY <1>1, <2>3 DEF Jobs
  <2>. HIDE DEF j
  <2>5. job.pc = "choosing" /\ UNCHANGED <<active, spend, marks, sent>>
    BY <1>4 DEF Budget!NextAlert
  <2>6. ASSUME NEW n \in Budget!Notices, Ahead(n)'
        PROVE  Ahead(n)
    <3>1. n[1] \in j.left \/ n[1] = a
      BY <2>2, <2>4, <2>6 DEF Ahead
    <3>. QED  BY <2>1, <2>4, <2>5, <3>1 DEF Ahead
  <2>7. \A n \in Budget!Notices : Ahead(n)' /\ n \in marks' => n \in j.marks
    BY <1>1, <2>4, <2>5, <2>6 DEF JobKnows
  <2>8. j.notice[1] \notin j.left
    BY <2>4
  <2>. QED  BY <2>2, <2>3, <2>4, <2>5, <2>7, <2>8, JobLooks
<1>5. CASE Budget!SkipAlert
  <2>1. /\ job.pc = "looking" /\ job' = Budget!LookOn
        /\ UNCHANGED <<active, spend, marks, sent>>
    BY <1>5 DEF Budget!SkipAlert
  <2>. QED  BY <1>1, <2>1, LookedOn, LookedOnAhead, JobLooks DEF JobKnows
<1>6. CASE Budget!SendAlert
  <2>. DEFINE n == job.notice
              j == [job EXCEPT !.pc = "marking"]
  <2>1. /\ job.pc = "looking" /\ n \notin job.marks /\ sent' = [sent EXCEPT ![n] = @ + 1]
        /\ job' = j /\ UNCHANGED <<active, spend, marks>>
    BY <1>6 DEF Budget!SendAlert, Budget!Due
  <2>2. n \in Budget!Notices /\ n[1] \notin job.left
    BY <1>1, <2>1 DEF JobKnows
  <2>3. /\ j \in Jobs /\ j.pc = "marking" /\ j.notice = n /\ j.left = job.left
        /\ j.marks = job.marks
    BY <1>1 DEF Jobs
  <2>. HIDE DEF j
  <2>4. n \notin marks
    BY <1>1, <2>1, <2>2 DEF JobKnows, Ahead
  <2>5. sent \in [Budget!Notices -> Nat] /\ sent[n] \in Nat /\ sent[n] <= faults
    BY <1>1, <2>1, <2>2, <2>4 DEF JobTypes, SentOften, Marking
  <2>6. /\ sent' \in [Budget!Notices -> Nat] /\ sent'[n] = sent[n] + 1
        /\ \A o \in Budget!Notices \ {n} : sent'[o] = sent[o]
    BY <2>1, <2>2, <2>5
  <2>7. JobTypes'
    BY <1>1, <2>1, <2>3, <2>6 DEF JobTypes
  <2>8. JobKnows'
    BY <1>1, <2>1, <2>2, <2>3 DEF JobKnows, Ahead
  <2>9. SentOften'
    <3>. SUFFICES ASSUME NEW o \in Budget!Notices
                  PROVE  /\ o \in marks' => sent'[o] >= 1
                         /\ o \in marks' \/ Marking(o)' => sent'[o] <= 1 + faults'
                         /\ o \notin marks' /\ ~Marking(o)' => sent'[o] <= faults'
                         /\ Marking(o)' => sent'[o] >= 1
      BY DEF SentOften
    <3>1. CASE o = n
      BY <2>1, <2>3, <2>4, <2>5, <2>6, <3>1 DEF Marking
    <3>2. CASE o # n
      BY <1>1, <2>1, <2>3, <2>6, <3>2 DEF Marking, SentOften
    <3>. QED  BY <3>1, <3>2
  <2>. QED  BY <2>7, <2>8, <2>9 DEF JobInv
<1>7. CASE Budget!MarkAlert
  <2>1. /\ job.pc = "marking" /\ job' = Budget!LookOn /\ marks' = marks \cup {job.notice}
        /\ UNCHANGED <<active, spend, sent>>
    BY <1>7 DEF Budget!MarkAlert
  <2>. QED  BY <1>1, <2>1, LookedOn, LookedOnAhead, JobLooks DEF JobKnows
<1>8. CASE Budget!JobEnds
  BY <1>8, JobEnded DEF Budget!JobEnds
<1>. QED
  BY <1>2, <1>3, <1>4, <1>5, <1>6, <1>7, <1>8 DEF Budget!JobStep

-----------------------------------------------------------------------------
\* What the rows of a month come to.

CostedOf(f, m) == {r \in DOMAIN f : f[r] # NoRow /\ f[r].cost > 0 /\ f[r].month = m}

UnitsOf(f, m) == UNION {{r} \X (1..f[r].cost) : r \in CostedOf(f, m)}

\* The sum of a month depends on the rows alone.
LEMMA SpentIs ==
  /\ \A m : Budget!Spent(m) = Cardinality(UnitsOf(rows, m))
  /\ \A m : Budget!Spent(m)' = Cardinality(UnitsOf(rows', m))
BY DEF Budget!Spent, Budget!Costed, UnitsOf, CostedOf, Budget!Cardinality, Cardinality

\* They are finitely many.
LEMMA UnitsFinite ==
  ASSUME NEW f \in Ledgers, NEW m
  PROVE  IsFiniteSet(UnitsOf(f, m)) /\ Cardinality(UnitsOf(f, m)) \in Nat
<1>. DEFINE S == CostedOf(f, m)
            T == {{r} \X (1..f[r].cost) : r \in S}
            h == [r \in S |-> {r} \X (1..f[r].cost)]
<1>1. IsFiniteSet(S)
  <2>1. S \subseteq Requests \cup Past
    BY DEF CostedOf, Ledgers
  <2>. QED  BY <2>1, TrailAssumption, FS_Subset
<1>2. h \in Surjection(S, T)
  BY DEF Surjection
<1>3. IsFiniteSet(T)
  <2>. HIDE DEF h, S, T
  <2>. QED  BY <1>1, <1>2, FS_Surjection
<1>4. ASSUME NEW t \in T PROVE IsFiniteSet(t)
  <2>1. PICK r \in S : t = {r} \X (1..f[r].cost)
    OBVIOUS
  <2>2. r \in DOMAIN f /\ f[r] # NoRow
    BY DEF CostedOf
  <2>3. f[r] \in Rows
    BY <2>2 DEF Ledgers
  <2>4. 1 \in Int /\ f[r].cost \in Int
    BY <2>3 DEF Rows
  <2>5. IsFiniteSet({r}) /\ IsFiniteSet(1..f[r].cost)
    BY <2>4, FS_Singleton, FS_Interval
  <2>. QED  BY <2>1, <2>5, FS_Product
<1>5. IsFiniteSet(UNION T)
  <2>. HIDE DEF T
  <2>. QED  BY <1>3, <1>4, FS_UNION
<1>. QED  BY <1>5, FS_CardinalityType DEF UnitsOf

\* While rows are only added, they get no fewer.
LEMMA UnitsGrow ==
  ASSUME NEW f \in Ledgers, NEW g \in Ledgers, NEW m,
         \A r \in Requests \cup Past : f[r] # NoRow => g[r] = f[r]
  PROVE  Cardinality(UnitsOf(f, m)) <= Cardinality(UnitsOf(g, m))
<1>1. DOMAIN f = Requests \cup Past /\ DOMAIN g = Requests \cup Past
  BY DEF Ledgers
<1>2. \A r \in CostedOf(f, m) : r \in CostedOf(g, m) /\ g[r] = f[r]
  BY <1>1 DEF CostedOf
<1>3. UnitsOf(f, m) \subseteq UnitsOf(g, m)
  BY <1>2 DEF UnitsOf
<1>. QED  BY <1>3, UnitsFinite, FS_Subset

\* Both for any two ledgers, so for those before and after a step.
LEMMA LedgersGrow ==
  \A f, g \in Ledgers : \A m :
      /\ Cardinality(UnitsOf(f, m)) \in Nat
      /\ (\A r \in Requests \cup Past : f[r] # NoRow => g[r] = f[r])
            => Cardinality(UnitsOf(f, m)) <= Cardinality(UnitsOf(g, m))
BY UnitsFinite, UnitsGrow

\* No step takes a row away or rewrites one, so a month's sum never falls.
LEMMA SpentGrows ==
  ASSUME rows \in Ledgers, rows' \in Ledgers,
         \A r \in Requests \cup Past : rows[r] # NoRow => rows'[r] = rows[r]
  PROVE  \A m : /\ Budget!Spent(m) \in Nat /\ Budget!Spent(m)' \in Nat
                /\ Budget!Spent(m) <= Budget!Spent(m)'
BY SpentIs, LedgersGrow

\* Only phase 1 of a writer touches the rows, and only where there is none.
LEMMA RowsKept ==
  ASSUME RecordInv, [Next]_vars
  PROVE  \A r \in Requests \cup Past : rows[r] # NoRow => rows'[r] = rows[r]
<1>. DEFINE Kept == \A r \in Requests \cup Past : rows[r] # NoRow => rows'[r] = rows[r]
<1>1. DOMAIN rows = Requests \cup Past
  BY DEF RecordInv, WriterOK, Ledgers
<1>2. ASSUME NEW r \in Requests, WriterStep(r) \/ WriterFault(r)
      PROVE  Kept
  <2>1. CASE InsertRow(r) \/ InsertRowFails(r)
    <3>1. rows[r] = NoRow /\ (UNCHANGED rows \/ rows' = [rows EXCEPT ![r] = Row(r)])
      BY <2>1 DEF InsertRow, InsertRowFails
    <3>. QED  BY <1>1, <3>1
  <2>2. CASE \/ StorePayload(r) \/ StorePayloadFails(r) \/ NoPartition(r) \/ Duplicate(r)
             \/ InsertBodies(r) \/ InsertBodiesFails(r) \/ InsertDetails(r) \/ Retry(r)
    <3>1. UNCHANGED rows
      BY <2>2 DEF StorePayload, StorePayloadFails, NoPartition, Duplicate, InsertBodies,
                  InsertBodiesFails, InsertDetails, Retry
    <3>. QED  BY <3>1
  <2>. QED  BY <1>2, <2>1, <2>2 DEF WriterStep, WriterFault
<1>3. CASE \E r \in Requests : Arrive(r) \/ Follow(r) \/ Reader(r) \/ Client(r)
  <2>1. PICK r \in Requests : Arrive(r) \/ Follow(r) \/ Reader(r) \/ Client(r)
    BY <1>3
  <2>2. CASE Writer(r)
    BY <1>2, <2>2 DEF Writer
  <2>3. CASE Arrive(r) \/ Waiter(r) \/ Reader(r) \/ Client(r) \/ AnswerStream(r)
             \/ AnswerPlain(r) \/ TakeResult(r)
    BY <2>3 DEF Arrive, Waiter, Reader, Client, StreamOnly, AnswerStream, AnswerPlain,
                TakeResult, auditVars
  <2>4. CASE Decide(r) \/ CallFails(r) \/ Bill(r)
    BY <2>4 DEF Decide, CallFails, Bill, Record, Emit, auditVars
  <2>. QED  BY <2>1, <2>2, <2>3, <2>4 DEF Follow
<1>4. CASE BudgetSteps \/ Restart \/ UNCHANGED vars
  BY <1>4 DEF BudgetSteps, Restart, vars, auditVars
<1>5. CASE StoreFault
  BY <1>2, <1>5 DEF StoreFault, auditVars
<1>. QED  BY <1>3, <1>4, <1>5 DEF Next

-----------------------------------------------------------------------------
\* Which variables a step leaves alone.

Budgets == <<active, spend, marks, sent, job>>

\* The steps of a request leave the budget alone; its arrival begins a check.
LEMMA FollowFrame ==
  ASSUME NEW r \in Requests, Arrive(r) \/ Follow(r) \/ Reader(r) \/ Client(r)
  PROVE  /\ UNCHANGED <<Budgets, month, faults, cached>>
         /\ UNCHANGED check \/ check' = [check EXCEPT ![r].pc = "cache"]
<1>1. CASE Arrive(r)
  BY <1>1 DEF Arrive, Budgets
<1>2. CASE Follow(r) \/ Reader(r) \/ Client(r)
  BY <1>2 DEF Follow, Decide, AnswerStream, AnswerPlain, CallFails, Waiter, TakeResult,
              Bill, Writer, Reader, Client, StreamOnly, Budgets, budgetVars
<1>. QED  BY <1>1, <1>2

\* A check changes its verdict and the cached one only.
LEMMA CheckFrame ==
  ASSUME NEW r \in Requests, Budget!CheckStep(r) \/ Budget!CheckFault(r)
  PROVE  UNCHANGED <<Budgets, month>>
BY DEF Budget!CheckStep, Budget!CheckFault, Budget!ReadCached, Budget!ReadCachedFails,
       Budget!ReadCap, Budget!ReadCapFails, Budget!StoreVerdict, Budget!StoreVerdictFails,
       Budget!SetCheck, Budgets

\* Initially nothing is marked or sent.
LEMMA InitJob == Init => JobInv
<1>. SUFFICES ASSUME Init PROVE JobInv
  OBVIOUS
<1>1. active \subseteq Alerts
  BY TrailAssumption DEF Init
<1>2. /\ spend = [month |-> 0, amount |-> 0] /\ marks = {}
      /\ sent = [n \in Budget!Notices |-> 0] /\ job = Budget!IdleJob /\ faults = 0
  BY DEF Init, Budget!BudgetInit
<1>3. JobTypes
  BY <1>1, <1>2, IdleTyped DEF JobTypes
<1>4. JobKnows /\ SentOften
  BY <1>2, IdleTyped DEF JobKnows, Ahead, SentOften, Marking
<1>. QED  BY <1>3, <1>4 DEF JobInv

\* Every step keeps the job's invariant.
LEMMA NextJob ==
  ASSUME RecordInv, RecordInv', JobInv, [Next]_vars
  PROVE  JobInv'
<1>1. faults \in Nat /\ month \in Nat
  BY DEF RecordInv, HandlerOK
<1>2. CASE \E r \in Requests : Arrive(r) \/ Follow(r) \/ Reader(r) \/ Client(r)
  <2>1. UNCHANGED <<Budgets, faults>>
    BY <1>2, FollowFrame
  <2>. QED  BY <1>1, <2>1, JobFrame DEF Budgets
<1>3. CASE BudgetSteps
  <2>1. UNCHANGED <<faults, rows>>
    BY <1>3 DEF BudgetSteps, auditVars
  <2>2. CASE Budget!JobStep
    <3>1. \A m \in Nat : Budget!Spent(m) \in Nat
      BY SpentIs, LedgersGrow DEF RecordInv, WriterOK
    <3>. QED  BY <1>1, <2>1, <2>2, <3>1, JobSteps
  <2>3. CASE \E r \in Requests : Budget!CheckStep(r)
    <3>1. UNCHANGED Budgets
      BY <2>3, CheckFrame
    <3>. QED  BY <1>1, <2>1, <3>1, JobFrame DEF Budgets
  <2>4. CASE Budget!ExpireVerdict \/ Budget!NextMonth
    <3>1. UNCHANGED Budgets
      BY <2>4 DEF Budget!ExpireVerdict, Budget!NextMonth, Budgets
    <3>. QED  BY <1>1, <2>1, <3>1, JobFrame DEF Budgets
  <2>. QED  BY <1>3, <2>2, <2>3, <2>4 DEF BudgetSteps
<1>4. CASE StoreFault
  <2>1. faults' = faults + 1
    BY <1>4 DEF StoreFault, Fault
  <2>2. CASE Budget!JobFails
    BY <1>1, <2>1, <2>2, JobEnded DEF Budget!JobFails
  <2>3. CASE ~Budget!JobFails
    <3>1. UNCHANGED Budgets
      BY <1>4, <2>3, CheckFrame DEF StoreFault, budgetVars, Budgets
    <3>. QED  BY <1>1, <2>1, <3>1, JobFrame DEF Budgets
  <2>. QED  BY <2>2, <2>3
<1>5. CASE Restart
  BY <1>1, <1>5, JobEnded DEF Restart, Fault
<1>6. CASE UNCHANGED vars
  BY <1>1, <1>6, JobFrame DEF vars, budgetVars
<1>. QED  BY <1>2, <1>3, <1>4, <1>5, <1>6 DEF Next

\* A notification is sent at most once, and once more per fault: in any order
\* of the alerts, over restarts and failures of the run at any statement
\* (run_budget_check of jobs/budget_checker.rs).
THEOREM AlertsStayBounded == Spec => []AlertsBounded
<1>. DEFINE Inv == RecordInv /\ JobInv
<1>1. Init => Inv
  BY InitRecords, InitJob
<1>2. Inv /\ [Next]_vars => Inv'
  <2>. SUFFICES ASSUME RecordInv, JobInv, [Next]_vars PROVE RecordInv' /\ JobInv'
    OBVIOUS
  <2>1. RecordInv'
    BY NextRecords
  <2>. QED  BY <2>1, NextJob
<1>3. Inv => AlertsBounded
  <2>. SUFFICES ASSUME RecordInv, JobInv, NEW n \in Budget!Notices
                PROVE  (n \in marks => sent[n] >= 1) /\ sent[n] <= 1 + faults
    BY DEF AlertsBounded
  <2>1. faults \in Nat /\ sent[n] \in Nat
    BY DEF RecordInv, HandlerOK, JobInv, JobTypes
  <2>. QED  BY <2>1 DEF JobInv, SentOften
<1>. QED  BY <1>1, <1>2, <1>3, PTL DEF Spec

-----------------------------------------------------------------------------
\* The verdicts. What backs one stays: rows, faults and months only grow.
LEMMA BackingKept ==
  ASSUME RecordInv, RecordInv', [Next]_vars, active \subseteq Alerts,
         UNCHANGED active, faults' \in {faults, faults + 1}, month' \in {month, month + 1}
  PROVE  /\ Backed => Backed'
         /\ UNCHANGED spend /\ spend.amount \in Nat /\ SpendCovered => SpendCovered'
<1>1. /\ faults \in Nat /\ month \in Nat \ {0} /\ rows \in Ledgers /\ rows' \in Ledgers
  BY DEF RecordInv, HandlerOK, WriterOK
<1>2. \A m : /\ Budget!Spent(m) \in Nat /\ Budget!Spent(m)' \in Nat
             /\ Budget!Spent(m) <= Budget!Spent(m)'
  BY <1>1, RowsKept, SpentGrows
<1>3. 1..month \subseteq 1..month'
  BY <1>1
<1>4. \A a \in Budget!Capped : CapAt[a] \in Nat /\ a \in Budget!Capped'
  BY TrailAssumption DEF Budget!Capped
<1>5. Backed => Backed'
  BY <1>1, <1>2, <1>3, <1>4 DEF Backed
<1>6. UNCHANGED spend /\ spend.amount \in Nat /\ SpendCovered => SpendCovered'
  BY <1>2, <1>3 DEF SpendCovered
<1>. QED  BY <1>5, <1>6

\* One request's check is set, to a verdict that is backed if it is one over
\* the cap.
LEMMA CheckSet ==
  ASSUME VerdictInv, Backed => Backed', SpendCovered', NEW r \in Requests,
         NEW stage \in {"off", "cache", "database", "storing", "decided"},
         NEW over \in BOOLEAN, check' = [check EXCEPT ![r] = [pc |-> stage, over |-> over]],
         over => Backed',
         cached' = cached \/ cached' = over
  PROVE  VerdictInv'
<1>1. check' \in [Requests -> [pc : {"off", "cache", "database", "storing", "decided"},
                               over : BOOLEAN]]
  BY DEF VerdictInv
<1>2. \A s \in Requests : check'[s].over => Backed'
  BY DEF VerdictInv
<1>3. cached' \in BOOLEAN \cup {NoVerdict} /\ (cached' = TRUE => Backed')
  BY DEF VerdictInv
<1>. QED  BY <1>1, <1>2, <1>3 DEF VerdictInv

\* The steps of a check, from Redis or from the database, failing or not.
LEMMA CheckSteps ==
  ASSUME RecordInv, JobInv, VerdictInv, Backed => Backed', SpendCovered', NEW r \in Requests,
         \/ Budget!CheckStep(r)
         \/ Budget!CheckFault(r) /\ faults' = faults + 1
  PROVE  VerdictInv'
<1>1. /\ cached \in BOOLEAN \cup {NoVerdict} /\ check[r].over \in BOOLEAN
      /\ check[r].over => Backed
      /\ cached = TRUE => Backed
  BY DEF VerdictInv
<1>2. CASE Budget!ReadCached(r)
  <2>1. CASE cached # NoVerdict
    BY <1>1, <1>2, <2>1, CheckSet DEF Budget!ReadCached, Budget!SetCheck
  <2>2. CASE cached = NoVerdict
    BY <1>2, <2>2, CheckSet DEF Budget!ReadCached, Budget!SetCheck
  <2>. QED  BY <2>1, <2>2
<1>3. CASE Budget!ReadCachedFails(r)
  BY <1>3, CheckSet DEF Budget!ReadCachedFails, Budget!SetCheck
<1>4. CASE Budget!ReadCap(r)
  <2>1. CASE Budget!SetCheck(r, "storing", FALSE)
    BY <1>4, <2>1, CheckSet DEF Budget!ReadCap, Budget!SetCheck
  <2>2. ASSUME NEW a \in Budget!Capped,
               Budget!SetCheck(r, "storing", spend.amount >= CapAt[a])
        PROVE  VerdictInv'
    <3>1. CapAt[a] \in Nat /\ spend.amount \in Nat
      BY TrailAssumption DEF Budget!Capped, JobInv, JobTypes
    <3>2. PICK m \in 1..month : spend.amount <= Budget!Spent(m)
      BY DEF VerdictInv, SpendCovered
    <3>3. Budget!Spent(m) \in Nat
      BY SpentIs, LedgersGrow DEF RecordInv, WriterOK
    <3>4. ASSUME spend.amount >= CapAt[a]
          PROVE  Backed'
      <4>1. Budget!Spent(m) >= CapAt[a]
        BY <3>1, <3>2, <3>3, <3>4
      <4>. QED  BY <4>1 DEF Backed
    <3>5. (spend.amount >= CapAt[a]) \in BOOLEAN
      OBVIOUS
    <3>. QED  BY <1>4, <2>2, <3>4, <3>5, CheckSet DEF Budget!ReadCap, Budget!SetCheck
  <2>. QED  BY <1>4, <2>1, <2>2 DEF Budget!ReadCap
<1>5. CASE Budget!ReadCapFails(r) /\ faults' = faults + 1
  <2>1. Backed'
    BY <1>5 DEF Backed, RecordInv, HandlerOK
  <2>. QED  BY <1>5, <2>1, CheckSet DEF Budget!ReadCapFails, Budget!SetCheck
<1>6. CASE Budget!StoreVerdict(r)
  BY <1>1, <1>6, CheckSet DEF Budget!StoreVerdict, Budget!SetCheck
<1>7. CASE Budget!StoreVerdictFails(r)
  BY <1>1, <1>7, CheckSet DEF Budget!StoreVerdictFails, Budget!SetCheck
<1>. QED
  BY <1>2, <1>3, <1>4, <1>5, <1>6, <1>7 DEF Budget!CheckStep, Budget!CheckFault

\* What leaves verdicts alone, but for checks that come without one.
LEMMA VerdictFrame ==
  ASSUME VerdictInv, Backed => Backed', SpendCovered', cached' \in {cached, NoVerdict},
         check' \in [Requests -> [pc : {"off", "cache", "database", "storing", "decided"},
                                  over : BOOLEAN]],
         \A r \in Requests : check'[r].over => check[r].over
  PROVE  VerdictInv'
BY TrailAssumption DEF VerdictInv

\* Initially no verdict has been reached.
LEMMA InitVerdict == Init => VerdictInv
<1>. SUFFICES ASSUME Init PROVE VerdictInv
  OBVIOUS
<1>1. /\ spend = [month |-> 0, amount |-> 0] /\ cached = NoVerdict
      /\ check = [r \in Requests |-> Budget!NoCheck]
  BY DEF Init, Budget!BudgetInit
<1>2. Budget!NoCheck \in [pc : {"off", "cache", "database", "storing", "decided"},
                          over : BOOLEAN]
      /\ ~Budget!NoCheck.over
  BY DEF Budget!NoCheck
<1>3. rows \in Ledgers /\ month \in Nat \ {0}
  BY InitRecords DEF RecordInv, WriterOK, HandlerOK
<1>4. 1 \in 1..month /\ Budget!Spent(1) \in Nat
  BY <1>3, SpentIs, LedgersGrow
<1>5. SpendCovered
  BY <1>1, <1>4 DEF SpendCovered
<1>. QED  BY <1>1, <1>2, <1>5, TrailAssumption DEF VerdictInv

\* Every step keeps the verdicts' invariant.
LEMMA NextVerdict ==
  ASSUME TrailInv, RecordInv', [Next]_vars
  PROVE  VerdictInv'
<1>. DEFINE Checks == [Requests -> [pc : {"off", "cache", "database", "storing", "decided"},
                                    over : BOOLEAN]]
<1>1. /\ RecordInv /\ JobInv /\ VerdictInv /\ active \subseteq Alerts
      /\ spend.amount \in Nat /\ SpendCovered /\ check \in Checks
  BY DEF TrailInv, JobInv, JobTypes, VerdictInv
<1>a. ASSUME UNCHANGED active, faults' \in {faults, faults + 1},
             month' \in {month, month + 1}
      PROVE  (Backed => Backed') /\ (UNCHANGED spend => SpendCovered')
  BY <1>1, <1>a, BackingKept
<1>2. CASE \E r \in Requests : Arrive(r) \/ Follow(r) \/ Reader(r) \/ Client(r)
  <2>1. PICK r \in Requests : Arrive(r) \/ Follow(r) \/ Reader(r) \/ Client(r)
    BY <1>2
  <2>2. /\ UNCHANGED <<active, spend, month, faults, cached>>
        /\ UNCHANGED check \/ check' = [check EXCEPT ![r].pc = "cache"]
    BY <2>1, FollowFrame DEF Budgets
  <2>3. check' \in Checks /\ \A s \in Requests : check'[s].over = check[s].over
    BY <1>1, <2>2
  <2>. QED  BY <1>1, <1>a, <2>2, <2>3, VerdictFrame
<1>3. CASE BudgetSteps
  <2>1. UNCHANGED <<faults, rows>>
    BY <1>3 DEF BudgetSteps, auditVars
  <2>2. CASE Budget!Aggregate
    <3>1. UNCHANGED <<active, month, cached, check>>
      BY <2>2 DEF Budget!Aggregate
    <3>2. UNCHANGED spend \/ spend' = [month |-> month, amount |-> Budget!Spent(month)]
      BY <2>2 DEF Budget!Aggregate
    <3>3. month \in 1..month' /\ Budget!Spent(month) \in Nat
      BY <1>1, <3>1, SpentIs, LedgersGrow DEF RecordInv, HandlerOK, WriterOK
    <3>4. Budget!Spent(month) <= Budget!Spent(month)'
      BY <2>1, <3>1, <3>3 DEF Budget!Spent, Budget!Costed
    <3>5. SpendCovered'
      <4>1. CASE UNCHANGED spend
        BY <1>a, <2>1, <3>1, <4>1
      <4>2. CASE spend' = [month |-> month, amount |-> Budget!Spent(month)]
        <5>1. \E m \in 1..month' : spend'.amount <= Budget!Spent(m)'
          BY <3>1, <3>3, <3>4, <4>2
        <5>. QED  BY <5>1 DEF SpendCovered
      <4>. QED  BY <3>2, <4>1, <4>2
    <3>. QED  BY <1>1, <1>a, <2>1, <3>1, <3>5, VerdictFrame
  <2>3. CASE Budget!JobStep /\ ~Budget!Aggregate
    <3>1. UNCHANGED <<active, spend, month, cached, check>>
      BY <2>3 DEF Budget!JobStep, Budget!FetchAlerts, Budget!NextAlert,
                  Budget!SkipAlert, Budget!SendAlert, Budget!MarkAlert, Budget!JobEnds
    <3>. QED  BY <1>1, <1>a, <2>1, <3>1, VerdictFrame
  <2>4. CASE \E r \in Requests : Budget!CheckStep(r)
    <3>1. UNCHANGED <<active, spend, month>>
      BY <2>4, CheckFrame DEF Budgets
    <3>. QED  BY <1>1, <1>a, <2>1, <2>4, <3>1, CheckSteps
  <2>5. CASE Budget!ExpireVerdict
    <3>1. UNCHANGED <<active, spend, month, check>> /\ cached' = NoVerdict
      BY <2>5 DEF Budget!ExpireVerdict
    <3>. QED  BY <1>1, <1>a, <2>1, <3>1, VerdictFrame
  <2>6. CASE Budget!NextMonth
    <3>1. UNCHANGED <<active, spend, cached, check>> /\ month' = month + 1
      BY <2>6 DEF Budget!NextMonth
    <3>. QED  BY <1>1, <1>a, <2>1, <3>1, VerdictFrame
  <2>. QED  BY <1>3, <2>2, <2>3, <2>4, <2>5, <2>6 DEF BudgetSteps
<1>4. CASE StoreFault
  <2>1. faults' = faults + 1
    BY <1>4 DEF StoreFault, Fault
  <2>2. CASE \E r \in Requests : Budget!CheckFault(r)
    <3>1. UNCHANGED <<active, spend, month>>
      BY <2>2, CheckFrame DEF Budgets
    <3>. QED  BY <1>1, <1>a, <2>1, <2>2, <3>1, CheckSteps
  <2>3. CASE ~\E r \in Requests : Budget!CheckFault(r)
    <3>1. UNCHANGED <<active, spend, month, cached, check>>
      BY <1>4, <2>3 DEF StoreFault, budgetVars, Budget!JobFails
    <3>. QED  BY <1>1, <1>a, <2>1, <3>1, VerdictFrame
  <2>. QED  BY <2>2, <2>3
<1>5. CASE Restart
  <2>1. /\ UNCHANGED <<active, spend, month, cached>> /\ faults' = faults + 1
        /\ check' = [r \in Requests |-> Budget!NoCheck]
    BY <1>5 DEF Restart, Fault
  <2>2. check' \in Checks /\ \A r \in Requests : ~check'[r].over
    BY <2>1 DEF Budget!NoCheck
  <2>. QED  BY <1>1, <1>a, <2>1, <2>2, VerdictFrame
<1>6. CASE UNCHANGED vars
  <2>1. UNCHANGED <<active, spend, month, faults, cached, check>>
    BY <1>6 DEF vars, budgetVars
  <2>. QED  BY <1>1, <1>a, <2>1, VerdictFrame
<1>. QED  BY <1>2, <1>3, <1>4, <1>5, <1>6 DEF Next

\* A project is refused for its budget only if the rows of a month reach a
\* cap, or a store has failed: a verdict is about an aggregate that may be
\* old and is kept for longer still, but neither can run ahead of the rows
\* (is_project_over_hard_cap_cached of jobs/budget_checker.rs).
THEOREM VerdictsBacked == Spec => []VerdictBacked
<1>1. Init => TrailInv
  BY InitRecords, InitJob, InitVerdict DEF TrailInv
<1>2. TrailInv /\ [Next]_vars => TrailInv'
  <2>. SUFFICES ASSUME TrailInv, [Next]_vars PROVE TrailInv'
    OBVIOUS
  <2>1. RecordInv'
    BY NextRecords DEF TrailInv
  <2>. QED  BY <2>1, NextJob, NextVerdict DEF TrailInv
<1>3. TrailInv => VerdictBacked
  BY DEF TrailInv, VerdictInv, VerdictBacked, Backed
<1>. QED  BY <1>1, <1>2, <1>3, PTL DEF Spec

-----------------------------------------------------------------------------
\* The stream and its bill.

Tokens == {"none", "completion", "all"}

Readers == {"reading", "sending", "breaking", "closing", "broken", "finishing", "off"}

Bridges ==
    [dialect : Dialects,
     left    : Seq({"prompt", "usage", "stop"}),
     chunks  : Nat,
     reader  : Readers,
     cut     : BOOLEAN,
     tokens  : Tokens,
     slot    : Tokens \cup {"unset"},
     queue   : Nat,
     client  : BOOLEAN,
     blocked : BOOLEAN,
     waiter  : {"checking", "checked", "listening", "woken", "ready", "off"},
     result  : Tokens \cup {"unset"}]

\* What is left of an OpenAI stream: all of it, its end, or nothing.
Whole(left) == Len(left) = 2 /\ left[1] = "usage" /\ left[2] = "stop"

Rest(left) == Len(left) = 0 \/ (Len(left) = 1 /\ left[1] = "stop")

\* Of an OpenAI stream whose usage was read in one piece, either the slot or,
\* while the reader has still to fill it, the accumulator has all of it;
\* and before that the slot is empty for as long as the upstream is read.
BillsAll(b) ==
    /\ Whole(b.left) \/ Rest(b.left)
    /\ b.waiter = "woken" => b.slot # "unset"
    /\ b.waiter # "ready" /\ ~b.cut /\ Whole(b.left)
          => (b.reader \in {"reading", "sending"} => b.slot = "unset")
    /\ b.waiter # "ready" /\ ~b.cut /\ Rest(b.left)
          => \/ b.slot = "all"
             \/ b.slot = "unset" /\ b.tokens = "all" /\ b.reader # "off"

StreamInv ==
    /\ stream \in [Requests -> Bridges]
    /\ \A r \in Requests : stream[r].dialect = "openai" => BillsAll(stream[r])

\* What is left after the next k events.
LEMMA EventsLeft ==
  \A s \in Seq({"prompt", "usage", "stop"}) : \A k \in 0..Len(s) :
      /\ SubSeq(s, k + 1, Len(s)) \in Seq({"prompt", "usage", "stop"})
      /\ Len(SubSeq(s, k + 1, Len(s))) = Len(s) - k
      /\ \A i \in 1..Len(s) - k : SubSeq(s, k + 1, Len(s))[i] = s[k + i]
<1>. SUFFICES ASSUME NEW s \in Seq({"prompt", "usage", "stop"}), NEW k \in 0..Len(s)
              PROVE  /\ SubSeq(s, k + 1, Len(s)) \in Seq({"prompt", "usage", "stop"})
                     /\ Len(SubSeq(s, k + 1, Len(s))) = Len(s) - k
                     /\ \A i \in 1..Len(s) - k : SubSeq(s, k + 1, Len(s))[i] = s[k + i]
  OBVIOUS
<1>. DEFINE E == {"prompt", "usage", "stop"}
            rest == SubSeq(s, k + 1, Len(s))
<1>1. Len(s) \in Nat /\ k + 1 \in Int /\ \A i \in k + 1 .. Len(s) : s[i] \in E
  OBVIOUS
<1>2. /\ rest \in Seq(E) /\ Len(rest) = IF k + 1 <= Len(s) THEN Len(s) - (k + 1) + 1 ELSE 0
      /\ \A i \in 1 .. Len(s) - (k + 1) + 1 : rest[i] = s[k + 1 + i - 1]
  <2>. HIDE DEF E
  <2>. QED  BY <1>1, SubSeqProperties
<1>3. Len(s) - (k + 1) + 1 = Len(s) - k
  BY <1>1
<1>4. \A i \in 1 .. Len(s) - k : i \in Int /\ k + 1 + i - 1 = k + i
  BY <1>1
<1>. HIDE DEF rest
<1>5. \A i \in 1 .. Len(s) - k : rest[i] = s[k + i]
  BY <1>2, <1>3, <1>4
<1>6. Len(rest) = Len(s) - k
  BY <1>1, <1>2
<1>. QED  BY <1>2, <1>5, <1>6 DEF rest

\* The events of every dialect.
LEMMA EventsTyped ==
  \A dialect \in Dialects : Bridge!Events(dialect) \in Seq({"prompt", "usage", "stop"})
<1>. DEFINE E == {"prompt", "usage", "stop"}
<1>1. Bridge!Events("openai") \in Seq(E)
  <2>1. Bridge!Events("openai") = <<"usage", "stop">>
    BY DEF Bridge!Events
  <2>2. <<"usage", "stop">> \in Seq({"prompt", "usage", "stop"})
    OBVIOUS
  <2>. QED  BY <2>1, <2>2
<1>2. Bridge!Events("anthropic") \in Seq(E)
  <2>1. Bridge!Events("anthropic") = <<"prompt", "usage", "stop">>
    BY DEF Bridge!Events
  <2>2. <<"prompt", "usage", "stop">> \in Seq({"prompt", "usage", "stop"})
    OBVIOUS
  <2>. QED  BY <2>1, <2>2
<1>3. Bridge!Events("gemini") \in Seq(E)
  <2>1. Bridge!Events("gemini") = <<"usage">>
    BY DEF Bridge!Events
  <2>2. <<"usage">> \in Seq({"prompt", "usage", "stop"})
    OBVIOUS
  <2>. QED  BY <2>1, <2>2
<1>4. Bridge!Events("bedrock") \in Seq(E)
  <2>1. Bridge!Events("bedrock") = <<"stop", "usage">>
    BY DEF Bridge!Events
  <2>2. <<"stop", "usage">> \in Seq({"prompt", "usage", "stop"})
    OBVIOUS
  <2>. QED  BY <2>1, <2>2
<1>. QED  BY <1>1, <1>2, <1>3, <1>4 DEF Dialects

\* A stream that begins is all still to come.
LEMMA Opened ==
  \A dialect \in Dialects :
      /\ Bridge!NewBridge(dialect) \in Bridges
      /\ Bridge!NewBridge(dialect).dialect = dialect
      /\ dialect = "openai" => BillsAll(Bridge!NewBridge(dialect))
<1>1. \A dialect \in Dialects : Bridge!NewBridge(dialect) \in Bridges
  BY EventsTyped DEF Bridge!NewBridge, Bridges, Tokens, Readers
<1>2. Len(Bridge!Events("openai")) = 2 /\ Bridge!Events("openai")[1] = "usage"
      /\ Bridge!Events("openai")[2] = "stop"
  BY DEF Bridge!Events
<1>3. BillsAll(Bridge!NewBridge("openai"))
  BY <1>2 DEF Bridge!NewBridge, BillsAll, Whole, Rest
<1>. QED  BY <1>1, <1>3 DEF Bridge!NewBridge

\* Nor is anything due where no stream is.
LEMMA NoneOpen == Bridge!NoBridge \in Bridges /\ Bridge!NoBridge.dialect = "gemini"
<1>1. Bridge!NewBridge("gemini") \in Bridges /\ Bridge!NewBridge("gemini").dialect = "gemini"
  BY Opened DEF Dialects
<1>2. <<>> \in Seq({"prompt", "usage", "stop"})
  OBVIOUS
<1>. QED  BY <1>1, <1>2 DEF Bridge!NoBridge, Bridges, Readers

\* c is b after a fill, which touches the slot, the accumulator and the
\* waiter only.
Fills(b, t, c) ==
    /\ c \in Bridges
    /\ c.dialect = b.dialect /\ c.left = b.left /\ c.cut = b.cut /\ c.reader = b.reader
    /\ c.slot = IF b.slot = "unset" THEN t ELSE b.slot
    /\ c.tokens = IF b.slot = "unset" THEN "none" ELSE t
    /\ c.waiter = IF b.waiter = "listening" THEN "woken" ELSE b.waiter

\* Which is what Fill does.
LEMMA Filled ==
  \A b \in Bridges : \A t \in Tokens : Fills(b, t, Bridge!Fill(b, t))
<1>. SUFFICES ASSUME NEW b \in Bridges, NEW t \in Tokens
              PROVE  Fills(b, t, Bridge!Fill(b, t))
  OBVIOUS
<1>. DEFINE slot == IF b.slot = "unset" THEN t ELSE b.slot
            tokens == IF b.slot = "unset" THEN "none" ELSE t
            waiter == IF b.waiter = "listening" THEN "woken" ELSE b.waiter
            c == [b EXCEPT !.slot = slot, !.tokens = tokens, !.waiter = waiter]
<1>1. Bridge!Fill(b, t) = c
  BY DEF Bridge!Fill
<1>2. /\ slot \in Tokens \cup {"unset"} /\ tokens \in Tokens
      /\ waiter \in {"checking", "checked", "listening", "woken", "ready", "off"}
  BY DEF Bridges, Tokens
<1>3. /\ c \in Bridges /\ c.slot = slot /\ c.tokens = tokens /\ c.waiter = waiter
      /\ c.dialect = b.dialect /\ c.left = b.left /\ c.cut = b.cut /\ c.reader = b.reader
  <2>. HIDE DEF slot, tokens, waiter
  <2>. QED  BY <1>2 DEF Bridges
<1>. QED  BY <1>1, <1>3 DEF Fills

\* A step of one bridge leaves the others alone.
LEMMA OneBridge ==
  ASSUME StreamInv, NEW r \in Requests, NEW c \in Bridges, stream' = [stream EXCEPT ![r] = c],
         c.dialect = "openai" => BillsAll(c)
  PROVE  /\ StreamInv'
         /\ stream'[r] = c
         /\ \A s \in Requests \ {r} : stream'[s] = stream[s]
BY DEF StreamInv

\* What a request's stream goes through: it stays as billed, and its waiter
\* gets what is due.
Billed(r) ==
    /\ StreamInv'
    /\ stream[r].dialect = "openai" => GetsUsage(r)
    /\ \A s \in Requests \ {r} : stream'[s] = stream[s]

\* Steps that do not give the waiter anything.
LEMMA NothingGiven ==
  ASSUME StreamInv, NEW r \in Requests, NEW c \in Bridges, stream' = [stream EXCEPT ![r] = c],
         c.dialect = "openai" => stream[r].dialect = "openai" /\ BillsAll(c),
         c.waiter = "ready" => stream[r].waiter = "ready"
  PROVE  Billed(r)
BY OneBridge DEF Billed, GetsUsage

\* What the waiter takes is what is due, whichever of its three looks finds it.
LEMMA SlotTaken ==
  ASSUME StreamInv, NEW r \in Requests, Bridge!TakeSlot(r), stream[r].waiter # "ready",
         stream[r].dialect = "openai" => \/ stream[r].slot # "unset"
                                         \/ stream[r].reader = "off"
                                         \/ stream[r].blocked
  PROVE  Billed(r)
<1>. DEFINE b == stream[r]
            c == [b EXCEPT !.waiter = "ready", !.result = b.slot, !.slot = "unset"]
<1>1. b \in Bridges /\ stream \in [Requests -> Bridges]
      /\ (b.dialect = "openai" => BillsAll(b))
  BY DEF StreamInv
<1>2. stream' = [stream EXCEPT ![r] = c]
  BY <1>1 DEF Bridge!TakeSlot
<1>3. /\ c \in Bridges /\ c.dialect = b.dialect /\ c.left = b.left /\ c.cut = b.cut
      /\ c.waiter = "ready" /\ c.result = b.slot
  BY <1>1 DEF Bridges
<1>. HIDE DEF c
<1>4. c.dialect = "openai" => BillsAll(c)
  BY <1>1, <1>3 DEF BillsAll
<1>5. /\ StreamInv' /\ stream'[r] = c
      /\ \A s \in Requests \ {r} : stream'[s] = stream[s]
  BY <1>2, <1>3, <1>4, OneBridge
<1>6. ASSUME b.dialect = "openai"
      PROVE  b.slot = "all" \/ Excused(b)
  <2>1. CASE Whole(b.left)
    <3>1. 1 \in 1..Len(b.left) /\ b.left[1] = "usage"
      BY <2>1 DEF Whole
    <3>. QED  BY <3>1 DEF Excused
  <2>2. CASE Rest(b.left)
    BY <1>1, <1>6, <2>2 DEF BillsAll, Excused
  <2>. QED  BY <1>1, <1>6, <2>1, <2>2 DEF BillsAll
<1>. QED  BY <1>3, <1>5, <1>6 DEF Billed, GetsUsage

\* The steps of the waiter.
LEMMA WaiterBilled ==
  ASSUME StreamInv, NEW r \in Requests, Bridge!WaiterStep(r)
  PROVE  Billed(r)
<1>. DEFINE b == stream[r]
<1>1. b \in Bridges /\ stream \in [Requests -> Bridges]
      /\ (b.dialect = "openai" => BillsAll(b))
  BY DEF StreamInv
<1>a. ASSUME NEW stage \in {"checked", "listening"}, b.waiter # "ready",
             stream' = [stream EXCEPT ![r].waiter = stage]
      PROVE  Billed(r)
  <2>. DEFINE c == [b EXCEPT !.waiter = stage]
  <2>1. stream' = [stream EXCEPT ![r] = c]
    BY <1>1, <1>a
  <2>2. /\ c \in Bridges /\ c.dialect = b.dialect /\ c.left = b.left /\ c.cut = b.cut
        /\ c.waiter = stage /\ c.slot = b.slot /\ c.tokens = b.tokens
        /\ c.reader = b.reader
    BY <1>1 DEF Bridges
  <2>. HIDE DEF c
  <2>3. c.dialect = "openai" => BillsAll(c)
    BY <1>1, <1>a, <2>2 DEF BillsAll
  <2>. QED  BY <2>1, <2>2, <2>3, NothingGiven
<1>2. CASE Bridge!CheckSlot(r)
  BY <1>2, <1>a, SlotTaken DEF Bridge!CheckSlot, Bridge!Waits
<1>3. CASE Bridge!Listen(r)
  BY <1>3, <1>a DEF Bridge!Listen, Bridge!Waits
<1>4. CASE Bridge!Wake(r)
  <2>1. Bridge!TakeSlot(r) /\ b.waiter = "woken"
    BY <1>4 DEF Bridge!Wake, Bridge!Waits
  <2>. QED  BY <1>1, <2>1, SlotTaken DEF BillsAll
<1>5. CASE Bridge!GiveUp(r)
  BY <1>5, SlotTaken DEF Bridge!GiveUp, Bridge!Waits, Bridge!DeadlinePassed
<1>. QED  BY <1>2, <1>3, <1>4, <1>5 DEF Bridge!WaiterStep

\* What the steps of the reader and the client that read and fill nothing
\* come to: another stage, and another channel.
LEMMA OnlyMoved ==
  ASSUME StreamInv, NEW r \in Requests, NEW c \in Bridges, stream' = [stream EXCEPT ![r] = c],
         c.dialect = stream[r].dialect, c.left = stream[r].left, c.cut = stream[r].cut,
         c.tokens = stream[r].tokens, c.slot = stream[r].slot, c.waiter = stream[r].waiter,
         c.reader \in {"reading", "sending"} => stream[r].reader \in {"reading", "sending"},
         c.reader = "off" => stream[r].reader = "off"
  PROVE  Billed(r)
<1>1. stream[r].dialect = "openai" => BillsAll(stream[r])
  BY DEF StreamInv
<1>2. c.dialect = "openai" => BillsAll(c)
  BY <1>1 DEF BillsAll
<1>. QED  BY <1>2, NothingGiven

\* The steps of the client.
LEMMA ClientBilled ==
  ASSUME StreamInv, NEW r \in Requests, Bridge!ClientStep(r)
  PROVE  Billed(r)
<1>. DEFINE b == stream[r]
<1>1. b \in Bridges /\ stream \in [Requests -> Bridges]
  BY DEF StreamInv
<1>2. CASE Bridge!Consume(r)
  <2>. DEFINE c == [b EXCEPT !.queue = b.queue - 1]
  <2>1. stream' = [stream EXCEPT ![r] = c] /\ b.queue > 0
    BY <1>1, <1>2 DEF Bridge!Consume
  <2>a. b.queue - 1 \in Nat
    BY <1>1, <2>1 DEF Bridges
  <2>2. /\ c \in Bridges /\ c.dialect = b.dialect /\ c.left = b.left /\ c.cut = b.cut
        /\ c.tokens = b.tokens /\ c.slot = b.slot /\ c.waiter = b.waiter
        /\ c.reader = b.reader
    BY <1>1, <2>a DEF Bridges
  <2>. HIDE DEF c
  <2>. QED  BY <2>1, <2>2, OnlyMoved
<1>3. CASE Bridge!Leave(r)
  <2>. DEFINE c == [b EXCEPT !.client = FALSE, !.queue = 0]
  <2>1. stream' = [stream EXCEPT ![r] = c]
    BY <1>1, <1>3 DEF Bridge!Leave
  <2>2. /\ c \in Bridges /\ c.dialect = b.dialect /\ c.left = b.left /\ c.cut = b.cut
        /\ c.tokens = b.tokens /\ c.slot = b.slot /\ c.waiter = b.waiter
        /\ c.reader = b.reader
    BY <1>1 DEF Bridges
  <2>. HIDE DEF c
  <2>. QED  BY <2>1, <2>2, OnlyMoved
<1>. QED  BY <1>2, <1>3 DEF Bridge!ClientStep

\* A stream is not both.
LEMMA NotWhole ==
  \A s \in Seq({"prompt", "usage", "stop"}) : Rest(s) => ~Whole(s)
BY DEF Rest, Whole

\* A chunk of an OpenAI stream: the usage is in it, or was before, or is
\* still to come, or has been cut in two.
LEMMA ChunkRead ==
  ASSUME StreamInv, NEW r \in Requests, Bridge!Read(r)
  PROVE  Billed(r)
<1>. DEFINE b == stream[r]
<1>1. b \in Bridges /\ stream \in [Requests -> Bridges] /\ b.reader = "reading"
      /\ (b.dialect = "openai" => BillsAll(b))
  BY DEF StreamInv, Bridge!Read, Bridge!Reads
<1>2. PICK n \in 0..Len(b.left), split \in {0, 1} :
        LET events == {b.left[i] : i \in 1..n}
            new    == Bridge!TokensIn(b.dialect, events)
            tokens == IF new = "none" THEN b.tokens ELSE new
            read   == [b EXCEPT !.left = SubSeq(@, n + split + 1, Len(@)),
                                !.chunks = IF n + split = 0 THEN @ + 1 ELSE @,
                                !.cut = @ \/ (split = 1 /\ b.left[n + 1] = "usage"),
                                !.tokens = tokens]
            next   == IF Bridge!Done(b.dialect, events) THEN Bridge!Fill(read, tokens) ELSE read
        IN  /\ split = 1 => n < Len(b.left) /\ b.dialect # "bedrock"
            /\ n + split = 0 => b.chunks < MaxChunks
            /\ \E stage \in {"sending"} \cup
                            (IF n = 0 /\ b.dialect = "bedrock" THEN {"reading"} ELSE {}) :
                  stream' = [stream EXCEPT ![r] = [next EXCEPT !.reader = stage]]
  BY DEF Bridge!Read
<1>. DEFINE k      == n + split
            events == {b.left[i] : i \in 1..n}
            new    == Bridge!TokensIn(b.dialect, events)
            tokens == IF new = "none" THEN b.tokens ELSE new
            left   == SubSeq(b.left, k + 1, Len(b.left))
            chunks == IF k = 0 THEN b.chunks + 1 ELSE b.chunks
            cut    == b.cut \/ (split = 1 /\ b.left[n + 1] = "usage")
            read   == [b EXCEPT !.left = left, !.chunks = chunks, !.cut = cut,
                                !.tokens = tokens]
            next   == IF Bridge!Done(b.dialect, events) THEN Bridge!Fill(read, tokens) ELSE read
<1>3. PICK stage \in {"sending"} \cup
                        (IF n = 0 /\ b.dialect = "bedrock" THEN {"reading"} ELSE {}) :
          stream' = [stream EXCEPT ![r] = [next EXCEPT !.reader = stage]]
  BY <1>2
<1>4. b.left \in Seq({"prompt", "usage", "stop"}) /\ b.chunks \in Nat /\ b.cut \in BOOLEAN
      /\ b.tokens \in Tokens
  BY <1>1 DEF Bridges
<1>5. Len(b.left) \in Nat /\ k \in 0..Len(b.left)
  <2>1. split = 1 => n < Len(b.left)
    BY <1>2
  <2>2. Len(b.left) \in Nat /\ n \in 0..Len(b.left) /\ split \in {0, 1}
    BY <1>4
  <2>. QED  BY <2>1, <2>2
<1>6. /\ left \in Seq({"prompt", "usage", "stop"})
      /\ Len(left) = Len(b.left) - k
      /\ \A i \in 1..Len(b.left) - k : left[i] = b.left[k + i]
  <2>. HIDE DEF k
  <2>. QED  BY <1>4, <1>5, EventsLeft
<1>7. tokens \in Tokens
  BY <1>4 DEF Bridge!TokensIn, Tokens
<1>8. /\ read \in Bridges /\ read.dialect = b.dialect /\ read.left = left /\ read.cut = cut
      /\ read.tokens = tokens /\ read.slot = b.slot /\ read.waiter = b.waiter
  <2>1. chunks \in Nat /\ cut \in BOOLEAN
    BY <1>4
  <2>. HIDE DEF left, chunks, cut, tokens
  <2>. QED  BY <1>1, <1>6, <1>7, <2>1 DEF Bridges
<1>9. Fills(read, tokens, Bridge!Fill(read, tokens))
  <2>. HIDE DEF read, tokens
  <2>. QED  BY <1>7, <1>8, Filled
<1>. DEFINE c    == [next EXCEPT !.reader = stage]
            done == Bridge!Done(b.dialect, events)
<1>10. /\ next \in Bridges /\ next.dialect = b.dialect /\ next.left = left /\ next.cut = cut
       /\ done => /\ next.slot = (IF b.slot = "unset" THEN tokens ELSE b.slot)
                  /\ next.waiter = (IF b.waiter = "listening" THEN "woken" ELSE b.waiter)
       /\ ~done => next.slot = b.slot /\ next.waiter = b.waiter /\ next.tokens = tokens
  <2>1. CASE done
    <3>1. next = Bridge!Fill(read, tokens)
      BY <2>1
    <3>. HIDE DEF read, tokens, next, done, left, cut
    <3>. QED  BY <1>8, <1>9, <2>1, <3>1 DEF Fills
  <2>2. CASE ~done
    <3>1. next = read
      BY <2>2
    <3>. HIDE DEF read, tokens, next, done, left, cut
    <3>. QED  BY <1>8, <2>2, <3>1
  <2>. QED  BY <2>1, <2>2
<1>11. stage \in {"sending", "reading"}
  BY <1>3
<1>12. /\ c \in Bridges /\ c.dialect = b.dialect /\ c.left = left /\ c.cut = cut
       /\ c.reader = stage
       /\ done => /\ c.slot = (IF b.slot = "unset" THEN tokens ELSE b.slot)
                  /\ c.waiter = (IF b.waiter = "listening" THEN "woken" ELSE b.waiter)
       /\ ~done => c.slot = b.slot /\ c.waiter = b.waiter /\ c.tokens = tokens
  <2>. HIDE DEF next, done, left, cut, tokens
  <2>. QED  BY <1>10, <1>11 DEF Bridges, Readers
<1>13. stream' = [stream EXCEPT ![r] = c]
  BY <1>3
<1>14. ASSUME b.dialect = "openai"
       PROVE  BillsAll(c)
  <2>. HIDE DEF next, c
  <2>1. BillsAll(b)
    BY <1>1, <1>14
  <2>2. b.slot \in Tokens \cup {"unset"}
    BY <1>1 DEF Bridges
  <2>3. c.waiter = "woken" => c.slot # "unset"
    <3>. HIDE DEF done, tokens
    <3>. QED  BY <1>7, <1>12, <2>1, <2>2 DEF BillsAll, Tokens
  <2>4. CASE Whole(b.left) /\ k = 0
    <3>1. n = 0 /\ split = 0
      BY <2>4
    <3>2. events = {}
      BY <3>1
    <3>3. ~done /\ (cut <=> b.cut)
      BY <1>14, <3>1, <3>2 DEF Bridge!Done
    <3>4. Whole(left)
      BY <1>6, <2>4 DEF Whole
    <3>5. ~Rest(left)
      BY <3>4 DEF Whole, Rest
    <3>. HIDE DEF done, tokens, left, cut, events, k
    <3>. QED  BY <1>1, <1>12, <2>1, <2>3, <2>4, <3>3, <3>4, <3>5 DEF BillsAll
  <2>5. CASE Whole(b.left) /\ k # 0
    <3>1. Len(left) = 2 - k /\ k \in 1..2 /\ \A i \in 1..2 - k : left[i] = b.left[k + i]
      <4>. HIDE DEF k, left
      <4>. QED  BY <1>5, <1>6, <2>5 DEF Whole
    <3>2. Rest(left) /\ ~Whole(left)
      <4>. HIDE DEF k, left
      <4>1. CASE k = 1
        BY <2>5, <3>1, <4>1 DEF Whole, Rest
      <4>2. CASE k = 2
        <5>1. Len(left) = 0
          BY <3>1, <4>2
        <5>. QED  BY <5>1, <1>6, NotWhole DEF Rest
      <4>. QED  BY <3>1, <4>1, <4>2
    <3>3. CASE n = 0
      <4>1. cut
        BY <2>5, <3>3 DEF Whole
      <4>. HIDE DEF done, tokens, left, cut, events, k
      <4>. QED  BY <1>12, <2>3, <3>2, <4>1 DEF BillsAll
    <3>4. CASE n # 0
      <4>1. "usage" \in events
        <5>1. n \in Nat /\ 1 \in 1..n /\ b.left[1] = "usage"
          BY <1>4, <2>5, <3>4 DEF Whole
        <5>. QED  BY <5>1
      <4>2. new = "all"
        BY <1>14, <4>1 DEF Bridge!TokensIn
      <4>3. tokens = "all"
        BY <4>2
      <4>4. cut \/ ~b.cut
        BY <1>4
      <4>. HIDE DEF done, tokens, left, cut, events, k
      <4>. QED
        BY <1>1, <1>11, <1>12, <2>1, <2>3, <2>5, <3>2, <4>3, <4>4 DEF BillsAll
    <3>. QED  BY <3>3, <3>4
  <2>6. CASE Rest(b.left) /\ ~Whole(b.left)
    <3>1. /\ Len(left) = Len(b.left) - k
          /\ Len(b.left) = 0 \/ (Len(b.left) = 1 /\ b.left[1] = "stop")
          /\ k \in 0..Len(b.left) /\ \A i \in 1..Len(b.left) - k : left[i] = b.left[k + i]
      <4>. HIDE DEF k, left
      <4>. QED  BY <1>5, <1>6, <2>6 DEF Rest
    <3>2. Rest(left) /\ ~Whole(left)
      <4>. HIDE DEF k, left
      <4>1. CASE Len(left) = 0
        BY <4>1, <1>6, NotWhole DEF Rest
      <4>2. CASE Len(left) # 0
        <5>1. k = 0 /\ Len(b.left) = 1 /\ b.left[1] = "stop" /\ Len(left) = 1
          BY <3>1, <4>2
        <5>2. left[1] = b.left[1]
          BY <3>1, <5>1
        <5>. QED  BY <5>1, <5>2 DEF Rest, Whole
      <4>. QED  BY <4>1, <4>2
    <3>3. "usage" \notin events
      <4>1. \A i \in 1..n : i \in 1..Len(b.left) /\ b.left[i] = "stop"
        BY <1>4, <2>6 DEF Rest
      <4>. QED  BY <4>1
    <3>4. tokens = b.tokens
      BY <3>3 DEF Bridge!TokensIn
    <3>5. cut \/ ~b.cut
      BY <1>4
    <3>. HIDE DEF done, tokens, left, cut, events, k
    <3>. QED  BY <1>1, <1>11, <1>12, <2>1, <2>3, <2>6, <3>2, <3>4, <3>5 DEF BillsAll
  <2>. QED  BY <2>1, <2>4, <2>5, <2>6 DEF BillsAll
<1>15. c.waiter = "ready" => b.waiter = "ready"
  <2>. HIDE DEF next, c, done
  <2>. QED  BY <1>12
<1>16. c \in Bridges /\ c.dialect = b.dialect
  BY <1>12
<1>. HIDE DEF c
<1>. QED  BY <1>13, <1>14, <1>15, <1>16, NothingGiven

\* The steps of the reader.
LEMMA ReaderBilled ==
  ASSUME StreamInv, NEW r \in Requests, Bridge!ReaderStep(r)
  PROVE  Billed(r)
<1>. DEFINE b == stream[r]
<1>1. b \in Bridges /\ stream \in [Requests -> Bridges]
      /\ (b.dialect = "openai" => BillsAll(b))
  BY DEF StreamInv
<1>a. ASSUME NEW stage \in Readers, NEW queue \in Nat, NEW blocked \in BOOLEAN,
             stream' = [stream EXCEPT
                           ![r] = [b EXCEPT !.reader = stage, !.queue = queue,
                                            !.blocked = blocked]],
             stage \in {"reading", "sending"} => b.reader \in {"reading", "sending"},
             stage = "off" => b.reader = "off"
      PROVE  Billed(r)
  <2>. DEFINE c == [b EXCEPT !.reader = stage, !.queue = queue, !.blocked = blocked]
  <2>1. /\ c \in Bridges /\ c.dialect = b.dialect /\ c.left = b.left /\ c.cut = b.cut
        /\ c.tokens = b.tokens /\ c.slot = b.slot /\ c.waiter = b.waiter
        /\ c.reader = stage
    BY <1>1 DEF Bridges
  <2>2. stream' = [stream EXCEPT ![r] = c]
    BY <1>a
  <2>. HIDE DEF c
  <2>. QED  BY <1>a, <2>1, <2>2, OnlyMoved
<1>2. b.queue \in Nat /\ b.queue + 1 \in Nat /\ b.blocked \in BOOLEAN /\ b.tokens \in Tokens
  BY <1>1 DEF Bridges
<1>b. ASSUME NEW stage \in Readers,
             stream' = [stream EXCEPT ![r].reader = stage],
             stage \in {"reading", "sending"} => b.reader \in {"reading", "sending"},
             stage = "off" => b.reader = "off"
      PROVE  Billed(r)
  <2>. DEFINE c == [b EXCEPT !.reader = stage]
  <2>1. /\ c \in Bridges /\ c.dialect = b.dialect /\ c.left = b.left /\ c.cut = b.cut
        /\ c.tokens = b.tokens /\ c.slot = b.slot /\ c.waiter = b.waiter
        /\ c.reader = stage
    BY <1>1 DEF Bridges
  <2>2. stream' = [stream EXCEPT ![r] = c]
    BY <1>1, <1>b
  <2>. HIDE DEF c
  <2>. QED  BY <1>b, <2>1, <2>2, OnlyMoved
<1>c. ASSUME b.reader \in Bridge!Sending
      PROVE  /\ Bridge!AfterSend(r) \in Readers \ {"off", "sending"}
             /\ Bridge!AfterSend(r) = "reading" => b.reader = "sending"
  BY <1>c DEF Bridge!AfterSend, Bridge!Reads, Bridge!Sending, Readers
<1>d. ASSUME NEW stage \in {"closing", "off"}, b.reader \in {"broken", "finishing"},
             stream' = [stream EXCEPT
                           ![r] = [Bridge!Fill(b, b.tokens) EXCEPT !.reader = stage]]
      PROVE  Billed(r)
  <2>. DEFINE next == Bridge!Fill(b, b.tokens)
              c    == [next EXCEPT !.reader = stage]
  <2>1. Fills(b, b.tokens, next)
    BY <1>1, <1>2, Filled
  <2>2. stage \in Readers
    BY DEF Readers
  <2>3. stream' = [stream EXCEPT ![r] = c]
    BY <1>d
  <2>4. /\ c \in Bridges /\ c.dialect = b.dialect /\ c.left = b.left /\ c.cut = b.cut
        /\ c.reader = stage /\ c.slot = next.slot /\ c.waiter = next.waiter
        /\ c.tokens = next.tokens
    <3>. HIDE DEF next
    <3>. QED  BY <2>1, <2>2 DEF Fills, Bridges
  <2>5. c.dialect = "openai" => BillsAll(c)
    <3>. HIDE DEF next, c
    <3>1. b.slot \in Tokens \cup {"unset"}
      BY <1>1 DEF Bridges
    <3>. QED  BY <1>1, <1>2, <1>d, <2>1, <2>4, <3>1 DEF BillsAll, Fills, Tokens
  <2>6. c.waiter = "ready" => b.waiter = "ready"
    <3>. HIDE DEF next, c
    <3>. QED  BY <2>1, <2>4 DEF Fills
  <2>. HIDE DEF c
  <2>. QED  BY <2>3, <2>4, <2>5, <2>6, NothingGiven
<1>3. CASE Bridge!Read(r)
  BY <1>3, ChunkRead
<1>4. CASE Bridge!Send(r)
  <2>1. /\ b.reader \in Bridge!Sending
        /\ stream' = [stream EXCEPT ![r].queue = @ + 1, ![r].reader = Bridge!AfterSend(r)]
    BY <1>4 DEF Bridge!Send
  <2>. DEFINE stage == Bridge!AfterSend(r)
  <2>2. /\ stage \in Readers \ {"off", "sending"}
        /\ stage = "reading" => b.reader = "sending"
    BY <1>c, <2>1
  <2>. HIDE DEF stage
  <2>3. stream' = [stream EXCEPT
                      ![r] = [b EXCEPT !.reader = stage, !.queue = b.queue + 1,
                                       !.blocked = b.blocked]]
    <3>1. stream' = [stream EXCEPT ![r] = [b EXCEPT !.queue = b.queue + 1, !.reader = stage]]
      BY <1>1, <2>1 DEF stage
    <3>2. [b EXCEPT !.queue = b.queue + 1, !.reader = stage] =
          [b EXCEPT !.reader = stage, !.queue = b.queue + 1, !.blocked = b.blocked]
      BY <1>1 DEF Bridges
    <3>. QED  BY <3>1, <3>2
  <2>. QED  BY <1>2, <1>a, <2>2, <2>3
<1>5. CASE Bridge!Block(r)
  <2>1. stream' = [stream EXCEPT ![r].blocked = TRUE]
    BY <1>5 DEF Bridge!Block
  <2>2. stream' = [stream EXCEPT
                      ![r] = [b EXCEPT !.reader = b.reader, !.queue = b.queue,
                                       !.blocked = TRUE]]
    <3>1. stream' = [stream EXCEPT ![r] = [b EXCEPT !.blocked = TRUE]]
      BY <1>1, <2>1
    <3>2. [b EXCEPT !.blocked = TRUE] =
          [b EXCEPT !.reader = b.reader, !.queue = b.queue, !.blocked = TRUE]
      BY <1>1 DEF Bridges
    <3>. QED  BY <3>1, <3>2
  <2>3. b.reader \in Readers
    BY <1>1 DEF Bridges
  <2>. QED  BY <1>2, <1>a, <2>2, <2>3
<1>6. CASE Bridge!SendToNobody(r)
  <2>. DEFINE stage == IF Bridge!Reads(r, "sending") /\ stream[r].slot # "unset"
                       THEN "finishing" ELSE Bridge!AfterSend(r)
  <2>1. b.reader \in Bridge!Sending /\ stream' = [stream EXCEPT ![r].reader = stage]
    BY <1>6 DEF Bridge!SendToNobody
  <2>2. /\ stage \in Readers \ {"off", "sending"}
        /\ stage = "reading" => b.reader = "sending"
    BY <1>c, <2>1 DEF Readers
  <2>. HIDE DEF stage
  <2>. QED  BY <1>b, <2>1, <2>2
<1>7. CASE Bridge!Break(r) \/ Bridge!End(r)
  <2>1. PICK stage \in {"breaking", "finishing"} : stream' = [stream EXCEPT ![r].reader = stage]
    BY <1>7 DEF Bridge!Break, Bridge!End
  <2>2. stage \in Readers
    BY DEF Readers
  <2>. QED  BY <1>b, <2>1, <2>2
<1>8. CASE Bridge!FillBroken(r)
  BY <1>8, <1>d DEF Bridge!FillBroken, Bridge!Reads
<1>9. CASE Bridge!FillEnded(r)
  BY <1>9, <1>d DEF Bridge!FillEnded, Bridge!Reads
<1>. QED
  BY <1>3, <1>4, <1>5, <1>6, <1>7, <1>8, <1>9 DEF Bridge!ReaderStep

\* What leaves the streams alone.
LEMMA StreamFrame == ASSUME StreamInv, UNCHANGED stream PROVE StreamInv'
BY DEF StreamInv, BillsAll

\* Every step keeps the streams' invariant, and gives a waiter what is due.
LEMMA NextStream ==
  ASSUME StreamInv, [Next]_vars
  PROVE  /\ StreamInv'
         /\ \A r \in Requests : stream[r].dialect = "openai" => GetsUsage(r)
<1>. DEFINE Kept == /\ StreamInv'
                    /\ \A r \in Requests : stream[r].dialect = "openai" => GetsUsage(r)
<1>a. ASSUME UNCHANGED stream
      PROVE  Kept
  BY <1>a, StreamFrame DEF GetsUsage
<1>b. ASSUME NEW r \in Requests, Billed(r)
      PROVE  Kept
  BY <1>b DEF Billed, GetsUsage
<1>1. CASE \E r \in Requests : Arrive(r) \/ Follow(r) \/ Reader(r) \/ Client(r)
  <2>1. PICK r \in Requests : Arrive(r) \/ Follow(r) \/ Reader(r) \/ Client(r)
    BY <1>1
  <2>2. CASE AnswerStream(r)
    <3>. DEFINE c == Bridge!NewBridge(trail[r].kind)
    <3>1. trail[r].kind \in Dialects /\ stream' = [stream EXCEPT ![r] = c]
      BY <2>2 DEF AnswerStream, Bridge!Open
    <3>2. /\ c \in Bridges
          /\ c.dialect = "openai" => BillsAll(c)
          /\ c.waiter = "checking"
      BY <3>1, Opened DEF Bridge!NewBridge
    <3>. HIDE DEF c
    <3>3. StreamInv' /\ stream'[r] = c /\ \A s \in Requests \ {r} : stream'[s] = stream[s]
      BY <3>1, <3>2, OneBridge
    <3>. QED  BY <3>2, <3>3 DEF GetsUsage
  <2>3. CASE Waiter(r) \/ Reader(r) \/ Client(r)
    BY <1>b, <2>3, WaiterBilled, ReaderBilled, ClientBilled DEF Waiter, Reader, Client
  <2>4. CASE \/ Arrive(r) \/ Decide(r) \/ AnswerPlain(r) \/ CallFails(r) \/ TakeResult(r)
             \/ Bill(r) \/ Writer(r)
    BY <1>a, <2>4 DEF Arrive, Decide, AnswerPlain, CallFails, TakeResult, Bill, Writer
  <2>. QED  BY <2>1, <2>2, <2>3, <2>4 DEF Follow
<1>2. CASE BudgetSteps \/ StoreFault \/ UNCHANGED vars
  BY <1>a, <1>2 DEF BudgetSteps, StoreFault, vars
<1>3. CASE Restart
  <2>1. stream' = [r \in Requests |-> Bridge!NoBridge] /\ Bridge!NoBridge.waiter = "off"
    BY <1>3, Opened DEF Restart, Bridge!NoBridge, Bridge!NewBridge
  <2>. QED  BY <2>1, NoneOpen DEF StreamInv, GetsUsage
<1>. QED  BY <1>1, <1>2, <1>3 DEF Next

\* The billing task of an OpenAI stream gets all of its usage, unless this was
\* never read, came in two chunks, or a full channel has kept the reader from
\* reporting it: for any capacity, any chunks and any order of reader, client
\* and waiter (tee_sse_stream and wait_for_stream_result of stream_bridge.rs).
THEOREM OpenAIBilledInFull == Spec => UsageBilled
<1>1. Init => StreamInv
  BY NoneOpen DEF Init, StreamInv
<1>2. StreamInv /\ [Next]_vars
      => StreamInv' /\ [\A r \in Requests : stream[r].dialect = "openai" => GetsUsage(r)]_vars
  BY NextStream
<1>. QED  BY <1>1, <1>2, PTL DEF Spec, UsageBilled

=============================================================================
