-------------------------- MODULE SessionLifecycle --------------------------
(***************************************************************************)
(* One session of a project (store/postgres/sessions.rs): created by its   *)
(* first request, charged by a task spawned after each answer, paused,     *)
(* resumed and completed by administrators, expired by a job when nothing  *)
(* has touched it for 24 hours. A status change is a SELECT, a check of    *)
(* the transition, and an UPDATE that does not look at the status again.   *)
(***************************************************************************)
EXTENDS Naturals

CONSTANTS
    Requests,  \* requests that carry the session id
    Admins,    \* concurrent PATCH .../status calls
    Caps,      \* amounts an administrator may set as spend_cap_usd
    NoCap,     \* spend_cap_usd is null
    cost,      \* what each request costs
    MaxChanges \* bound: status changes asked for

\* What the constants must be.
ConstantsAssumption ==
    /\ Caps \subseteq Nat
    /\ NoCap \notin Nat
    /\ cost \in [Requests -> Nat]
    /\ MaxChanges \in Nat

VARIABLES
    status,    \* the row's status, or "none" before the first request
    completed, \* completed_at is set
    cap,       \* spend_cap_usd
    total,     \* total_cost_usd
    idle,      \* updated_at is more than 24 hours ago
    pc,        \* where each request is
    apc,       \* where each status change is
    seen,      \* the status it read
    wanted,    \* the status it asks for
    changes    \* status changes asked for so far

row  == <<status, completed, cap, total, idle>>
vars == <<row, pc, apc, seen, wanted, changes>>

Live   == {"active", "paused"}
Status == Live \cup {"completed", "expired"}

\* The statuses the PATCH handler accepts.
Asked == {"active", "paused", "completed"}

Stage == {"new", "rejected", "admitted", "owing", "recorded", "lost"}

Init ==
    /\ status = "none"
    /\ completed = FALSE
    /\ cap = NoCap
    /\ total = 0
    /\ idle = FALSE
    /\ pc = [r \in Requests |-> "new"]
    /\ apc = [a \in Admins |-> "idle"]
    /\ seen = [a \in Admins |-> "none"]
    /\ wanted = [a \in Admins |-> "active"]
    /\ changes = 0

-----------------------------------------------------------------------------
\* Requests

WithinCap == cap # NoCap => total < cap

\* upsert_session and the guard of section 3.6. A rejected request has
\* touched updated_at too.
Upsert(r) ==
    /\ pc[r] = "new"
    /\ status' = IF status = "none" THEN "active" ELSE status
    /\ idle' = FALSE
    /\ pc' = [pc EXCEPT ![r] = IF status' = "active" /\ WithinCap
                               THEN "admitted" ELSE "rejected"]
    /\ UNCHANGED <<completed, cap, total, apc, seen, wanted, changes>>

\* Fail closed.
UpsertFails(r) ==
    /\ pc[r] = "new"
    /\ pc' = [pc EXCEPT ![r] = "rejected"]
    /\ UNCHANGED <<row, apc, seen, wanted, changes>>

\* The answer is sent and the increment is spawned.
Respond(r) ==
    /\ pc[r] = "admitted"
    /\ pc' = [pc EXCEPT ![r] = "owing"]
    /\ UNCHANGED <<row, apc, seen, wanted, changes>>

\* A later check denies the request, the upstream fails before an answer, or
\* the client disconnects: no increment is spawned.
End(r) ==
    /\ pc[r] = "admitted"
    /\ pc' = [pc EXCEPT ![r] = "lost"]
    /\ UNCHANGED <<row, apc, seen, wanted, changes>>

\* increment_session_spend: in one UPDATE, whatever the status and the cap.
Increment(r) ==
    /\ pc[r] = "owing"
    /\ total' = total + cost[r]
    /\ idle' = FALSE
    /\ pc' = [pc EXCEPT ![r] = "recorded"]
    /\ UNCHANGED <<status, completed, cap, apc, seen, wanted, changes>>

IncrementFails(r) ==
    /\ pc[r] = "owing"
    /\ pc' = [pc EXCEPT ![r] = "lost"]
    /\ UNCHANGED <<row, apc, seen, wanted, changes>>

-----------------------------------------------------------------------------
\* Administrators

\* Mutant: a session that ended can be made active again.
Valid_Reopens(from, to) ==
    \/ from = "active" /\ to \in {"paused", "completed", "expired"}
    \/ from \in {"paused", "completed", "expired"} /\ to = "active"

Valid(from, to) ==
    \/ from = "active" /\ to \in {"paused", "completed", "expired"}
    \/ from = "paused" /\ to \in {"active", "expired"}

\* The SELECT of update_session_status, and its validation.
ReadStatus(a, new) ==
    /\ apc[a] = "idle"
    /\ changes < MaxChanges
    /\ changes' = changes + 1
    /\ seen' = [seen EXCEPT ![a] = status]
    /\ wanted' = [wanted EXCEPT ![a] = new]
    /\ apc' = [apc EXCEPT ![a] = IF Valid(status, new) THEN "writing" ELSE "idle"]
    /\ UNCHANGED <<row, pc>>

\* Its UPDATE.
WriteStatus(a) ==
    /\ apc[a] = "writing"
    /\ status' = wanted[a]
    /\ completed' = (completed \/ wanted[a] = "completed")
    /\ idle' = FALSE
    /\ apc' = [apc EXCEPT ![a] = "idle"]
    /\ UNCHANGED <<cap, total, pc, seen, wanted, changes>>

WriteFails(a) ==
    /\ apc[a] = "writing"
    /\ apc' = [apc EXCEPT ![a] = "idle"]
    /\ UNCHANGED <<row, pc, seen, wanted, changes>>

SetSpendCap(c) ==
    /\ status # "none"
    /\ cap # c
    /\ cap' = c
    /\ idle' = FALSE
    /\ UNCHANGED <<status, completed, total, pc, apc, seen, wanted, changes>>

-----------------------------------------------------------------------------
\* Time and the cleanup job

GoIdle ==
    /\ status # "none"
    /\ ~idle
    /\ idle' = TRUE
    /\ UNCHANGED <<status, completed, cap, total, pc, apc, seen, wanted, changes>>

Orphaned == status \in Live /\ idle

ExpireOrphaned ==
    /\ Orphaned
    /\ status' = "expired"
    /\ idle' = FALSE
    /\ UNCHANGED <<completed, cap, total, pc, apc, seen, wanted, changes>>

Next ==
    \/ \E r \in Requests :
          \/ Upsert(r) \/ UpsertFails(r) \/ Respond(r) \/ End(r)
          \/ Increment(r) \/ IncrementFails(r)
    \/ \E a \in Admins :
          \/ \E new \in Asked : ReadStatus(a, new)
          \/ WriteStatus(a) \/ WriteFails(a)
    \/ \E c \in Caps : SetSpendCap(c)
    \/ GoIdle \/ ExpireOrphaned

Spec == Init /\ [][Next]_vars

-----------------------------------------------------------------------------
\* Properties

\* Types of the variables.
TypeOK ==
    /\ status \in Status \cup {"none"}
    /\ completed \in BOOLEAN
    /\ cap \in Caps \cup {NoCap}
    /\ total \in Nat
    /\ idle \in BOOLEAN
    /\ pc \in [Requests -> Stage]
    /\ apc \in [Admins -> {"idle", "writing"}]
    /\ seen \in [Admins -> Status \cup {"none"}]
    /\ wanted \in [Admins -> Live \cup {"completed"}]
    /\ changes \in 0..MaxChanges

\* sessions.rs: "Valid transitions: active -> paused, completed, expired;
\* paused -> active, expired; any other transition returns None (invalid)."
TransitionsValid ==
    [][status # status' => status = "none" \/ Valid(status, status')]_vars

\* An invalid transition needs two changes that overlap: it is only ever made
\* by an update whose read is out of date.
InvalidOnlyByRace ==
    [][(/\ status \in Status
        /\ status # status'
        /\ <<status, status'>> \notin
               ({"active"} \X {"paused", "completed", "expired"})
                   \cup ({"paused"} \X {"active", "expired"}))
       => \E a \in Admins : WriteStatus(a) /\ seen[a] # status]_vars

=============================================================================
