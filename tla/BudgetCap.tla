------------------------------ MODULE BudgetCap ------------------------------
(***************************************************************************)
(* The budget of one project: the job that aggregates the month's spend    *)
(* from audit_logs and sends the alerts (jobs/budget_checker.rs, every 15  *)
(* minutes), and the hard cap that a request is held against, with its     *)
(* verdict cached in Redis for 60 s. The module has no Next: it is a part  *)
(* of SpendTrail.                                                          *)
(***************************************************************************)
EXTENDS Naturals, FiniteSets

CONSTANTS
    Requests,
    Alerts,    \* the rows of budget_alerts, which only an operator writes
    LastMonth, \* bound
    WarnAt,    \* warn_threshold_usd of each
    CapAt,     \* hard_cap_usd of each, or NoCap
    NoCap,
    NoVerdict, \* nothing in Redis
    NoRow

VARIABLES
    active,   \* the alerts that are active
    rows,     \* audit_logs, of the audit writer
    month,    \* the month it is
    spend,    \* the project's row of project_spend; month 0 is none
    marks,    \* the alerts' warn_fired_at and cap_fired_at that are set
    sent,     \* how often each notification has been sent
    job,      \* the periodic job
    cached,   \* project_hardcap:<id>
    check     \* the check of each request

Notices == {<<a, kind>> : a \in Alerts, kind \in {"warn", "cap"}}

IdleJob == [pc |-> "off", left |-> {}, notice |-> <<>>, spend |-> 0, marks |-> {}]

NoCheck == [pc |-> "off", over |-> FALSE]

\* In any month, with any of the alerts active.
BudgetInit ==
    /\ spend = [month |-> 0, amount |-> 0]
    /\ marks = {}
    /\ sent = [n \in Notices |-> 0]
    /\ job = IdleJob
    /\ cached = NoVerdict
    /\ check = [r \in Requests |-> NoCheck]

-----------------------------------------------------------------------------
\* run_budget_check

Costed(m) == {r \in DOMAIN rows : rows[r] # NoRow /\ rows[r].cost > 0 /\ rows[r].month = m}

\* The units of the costs, one by one: their number is the sum.
Spent(m) == Cardinality(UNION {{r} \X (1..rows[r].cost) : r \in Costed(m)})

\* Mutant: the rows are not limited to the month.
Aggregate_AllTime ==
    /\ job.pc = "off"
    /\ LET total == Spent(1) + Spent(2)
       IN  spend' = IF total = 0 THEN spend ELSE [month |-> month, amount |-> total]
    /\ job' = [job EXCEPT !.pc = "fetching"]
    /\ UNCHANGED <<active, month, marks, sent, cached, check>>

\* Without a costed row in the month the GROUP BY yields no row to upsert.
Aggregate ==
    /\ job.pc = "off"
    /\ spend' = IF Costed(month) = {} THEN spend
                ELSE [month |-> month, amount |-> Spent(month)]
    /\ job' = [job EXCEPT !.pc = "fetching"]
    /\ UNCHANGED <<active, month, marks, sent, cached, check>>

\* spend and marks are those of this moment.
FetchAlerts ==
    /\ job.pc = "fetching"
    /\ job' = [pc     |-> "choosing",
               left   |-> active,
               notice |-> <<>>,
               spend  |-> spend.amount,
               marks  |-> marks]
    /\ UNCHANGED <<active, month, spend, marks, sent, cached, check>>

\* The alerts come in any order, each with its warning first.
NextAlert ==
    /\ job.pc = "choosing"
    /\ \E a \in job.left :
          job' = [job EXCEPT !.pc = "looking", !.left = @ \ {a}, !.notice = <<a, "warn">>]
    /\ UNCHANGED <<active, month, spend, marks, sent, cached, check>>

\* After a warning comes the cap of the same alert, if it has one.
LookOn ==
    IF job.notice[2] = "warn" /\ CapAt[job.notice[1]] # NoCap
    THEN [job EXCEPT !.pc = "looking", !.notice = <<job.notice[1], "cap">>]
    ELSE [job EXCEPT !.pc = "choosing", !.notice = <<>>]

\* Mutant: the mark is looked at nowhere.
Due_Again(notice) ==
    job.spend >= IF notice[2] = "warn" THEN WarnAt[notice[1]] ELSE CapAt[notice[1]]

Due(notice) ==
    /\ notice \notin job.marks
    /\ job.spend >= IF notice[2] = "warn" THEN WarnAt[notice[1]] ELSE CapAt[notice[1]]

SkipAlert ==
    /\ job.pc = "looking"
    /\ ~Due(job.notice)
    /\ job' = LookOn
    /\ UNCHANGED <<active, month, spend, marks, sent, cached, check>>

\* What the webhook answers is not looked at.
SendAlert ==
    /\ job.pc = "looking"
    /\ Due(job.notice)
    /\ sent' = [sent EXCEPT ![job.notice] = @ + 1]
    /\ job' = [job EXCEPT !.pc = "marking"]
    /\ UNCHANGED <<active, month, spend, marks, cached, check>>

MarkAlert ==
    /\ job.pc = "marking"
    /\ marks' = marks \cup {job.notice}
    /\ job' = LookOn
    /\ UNCHANGED <<active, month, spend, sent, cached, check>>

JobEnds ==
    /\ job.pc = "choosing"
    /\ job.left = {}
    /\ job' = IdleJob
    /\ UNCHANGED <<active, month, spend, marks, sent, cached, check>>

\* A statement that fails ends the run; the alerts that are left are not
\* looked at.
JobFails ==
    /\ job.pc \in {"fetching", "marking"}
    /\ job' = IdleJob
    /\ UNCHANGED <<active, month, spend, marks, sent, cached, check>>

JobStep ==
    \/ Aggregate \/ FetchAlerts \/ NextAlert
    \/ SkipAlert \/ SendAlert \/ MarkAlert \/ JobEnds

-----------------------------------------------------------------------------
\* is_project_over_hard_cap_cached

Checks(r, stage) == check[r].pc = stage

SetCheck(r, stage, over) ==
    /\ check' = [check EXCEPT ![r] = [pc |-> stage, over |-> over]]
    /\ UNCHANGED <<active, month, spend, marks, sent, job>>

ReadCached(r) ==
    /\ Checks(r, "cache")
    /\ IF cached # NoVerdict THEN SetCheck(r, "decided", cached)
       ELSE SetCheck(r, "database", FALSE)
    /\ UNCHANGED cached

\* Redis does not answer: the database is asked.
ReadCachedFails(r) ==
    /\ Checks(r, "cache")
    /\ SetCheck(r, "database", FALSE)
    /\ UNCHANGED cached

Capped == {a \in active : CapAt[a] # NoCap}

\* LIMIT 1 without an order: one alert with a cap decides, whichever it is.
\* The month of the aggregate is not looked at.
ReadCap(r) ==
    /\ Checks(r, "database")
    /\ \/ /\ Capped = {}
          /\ SetCheck(r, "storing", FALSE)
       \/ \E a \in Capped : SetCheck(r, "storing", spend.amount >= CapAt[a])
    /\ UNCHANGED cached

\* Without the database the project counts as over its cap.
ReadCapFails(r) ==
    /\ Checks(r, "database")
    /\ SetCheck(r, "storing", TRUE)
    /\ UNCHANGED cached

StoreVerdict(r) ==
    /\ Checks(r, "storing")
    /\ SetCheck(r, "decided", check[r].over)
    /\ cached' = check[r].over

StoreVerdictFails(r) ==
    /\ Checks(r, "storing")
    /\ SetCheck(r, "decided", check[r].over)
    /\ UNCHANGED cached

\* 60 s are over.
ExpireVerdict ==
    /\ cached # NoVerdict
    /\ cached' = NoVerdict
    /\ UNCHANGED <<active, month, spend, marks, sent, job, check>>

NextMonth ==
    /\ month < LastMonth
    /\ month' = month + 1
    /\ UNCHANGED <<active, spend, marks, sent, job, cached, check>>

CheckStep(r) == ReadCached(r) \/ ReadCap(r) \/ StoreVerdict(r)

CheckFault(r) == ReadCachedFails(r) \/ ReadCapFails(r) \/ StoreVerdictFails(r)

=============================================================================
