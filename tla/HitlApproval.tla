---------------------------- MODULE HitlApproval ----------------------------
(***************************************************************************)
(* The human-in-the-loop gate of the proxy: what happens to a request once *)
(* a policy answered RequireApproval (proxy/handler/core.rs, section 3.8). *)
(*                                                                         *)
(* Actors, all running concurrently:                                       *)
(*   - one proxy handler per request: count, create, BLPOP, fallback       *)
(*     polling, final database check, token re-validation;                 *)
(*   - the reviewers' decide_approval handlers: a guarded UPDATE, then, in *)
(*     a second step that may be lost, an LPUSH;                           *)
(*   - the approval-expiry job and the clock behind expires_at;            *)
(*   - an administrator revoking tokens.                                   *)
(*                                                                         *)
(* An approval row is named by the request whose INSERT created it, so no  *)
(* identifier is ever used twice (they are fresh UUIDs in the code).       *)
(* The gateway crashing is every one of its handlers being dropped and     *)
(* every decision not yet pushed being lost, in any order.                 *)
(***************************************************************************)
EXTENDS Naturals, Sequences, FiniteSets, SequenceTheorems, TLAPS

CONSTANTS
    Requests,   \* proxy requests that need an approval
    Tokens,     \* virtual tokens
    Keys,       \* values of the X-TrueFlow-Idempotency-Key header
    None,       \* no key, no approval, no reply
    tokenOf,    \* the token each request presents
    keyOf,      \* the idempotency key each request sends, or None
    MaxPending, \* HITL_MAX_PENDING_PER_TOKEN
    Unbounded   \* requests whose policy timeout is "0s": BLPOP 0 never times out

ASSUME ConstantsAssumption ==
    /\ tokenOf \in [Requests -> Tokens]
    /\ keyOf \in [Requests -> Keys \cup {None}]
    /\ None \notin Keys \cup Requests
    /\ None \notin {"approved", "rejected"}
    /\ MaxPending \in Nat
    /\ Unbounded \subseteq Requests

VARIABLES
    row,     \* approval_requests.status per row, "none" before the INSERT
    due,     \* rows whose expires_at has passed
    list,    \* the Redis list hitl:decision:{id} of each row
    unsent,  \* decisions written to the row and not yet LPUSHed
    pc,      \* where each request's handler is
    ticket,  \* the approval_id each handler waits for
    reply,   \* a decision Redis has popped for a handler, still on the wire
    active   \* tokens.is_active

vars == <<row, due, list, unsent, pc, ticket, reply, active>>

Decision == {"approved", "rejected"}
Status   == {"pending", "expired"} \cup Decision

Waiting  == {"connecting", "blocked", "answered", "polling", "checking"}
Finished == {"admitted", "capped", "rejected", "expired", "revoked",
             "failed", "dropped"}
Stage    == {"new", "counted", "validating"} \cup Waiting \cup Finished

Init ==
    /\ row    = [q \in Requests |-> "none"]
    /\ due    = {}
    /\ list   = [q \in Requests |-> <<>>]
    /\ unsent = {}
    /\ pc     = [r \in Requests |-> "new"]
    /\ ticket = [r \in Requests |-> None]
    /\ reply  = [r \in Requests |-> None]
    /\ active = [t \in Tokens |-> TRUE]

-----------------------------------------------------------------------------
\* Filing the approval

PendingRows(t) == {q \in Requests : row[q] = "pending" /\ tokenOf[q] = t}

\* SELECT COUNT(*) ... status = 'pending', compared with the cap before
\* anything is inserted.
CountPending(r) ==
    /\ pc[r] = "new"
    /\ \/ /\ Cardinality(PendingRows(tokenOf[r])) >= MaxPending
          /\ pc' = [pc EXCEPT ![r] = "capped"]
       \/ /\ Cardinality(PendingRows(tokenOf[r])) < MaxPending
          /\ pc' = [pc EXCEPT ![r] = "counted"]
    /\ UNCHANGED <<row, due, list, unsent, ticket, reply, active>>

\* The count query fails: the handler proceeds (fail-open).
CountFails(r) ==
    /\ pc[r] = "new"
    /\ pc' = [pc EXCEPT ![r] = "counted"]
    /\ UNCHANGED <<row, due, list, unsent, ticket, reply, active>>

\* Mutant: the uniqueness constraint covers the key alone.
Conflicts_KeyOnly(r) ==
    {q \in Requests : row[q] # "none" /\ keyOf[q] = keyOf[r] /\ keyOf[r] # None}

\* Rows that the UNIQUE(token_id, idempotency_key) constraint makes conflict
\* with r's INSERT; a NULL key conflicts with nothing.
Conflicts(r) ==
    {q \in Requests : /\ row[q] # "none"
                      /\ tokenOf[q] = tokenOf[r]
                      /\ keyOf[q] = keyOf[r]
                      /\ keyOf[r] # None}

\* INSERT ... ON CONFLICT DO NOTHING RETURNING id, else SELECT the existing
\* id, whatever that row's status is by now.
CreateApproval(r) ==
    /\ pc[r] = "counted"
    /\ \/ /\ Conflicts(r) = {}
          /\ row'    = [row EXCEPT ![r] = "pending"]
          /\ ticket' = [ticket EXCEPT ![r] = r]
       \/ \E q \in Conflicts(r) :
             /\ ticket' = [ticket EXCEPT ![r] = q]
             /\ UNCHANGED row
    /\ pc' = [pc EXCEPT ![r] = "connecting"]
    /\ UNCHANGED <<due, list, unsent, reply, active>>

CreateFails(r) ==
    /\ pc[r] = "counted"
    /\ pc' = [pc EXCEPT ![r] = "failed"]
    /\ UNCHANGED <<row, due, list, unsent, ticket, reply, active>>

-----------------------------------------------------------------------------
\* Waiting for the decision

\* Mutant: a status that is no decision counts as consent.
Outcome_FailOpen(d) == IF d = "rejected" THEN "rejected" ELSE "validating"

\* What the handler does with a decision string: "pending" and "expired"
\* both end in ApprovalTimeout.
Outcome(d) == CASE d = "approved" -> "validating"
                [] d = "rejected" -> "rejected"
                [] OTHER          -> "expired"

\* BLPOP reaches Redis on the dedicated connection: it pops at once or blocks.
SendBlpop(r) ==
    /\ pc[r] = "connecting"
    /\ \/ /\ list[ticket[r]] # <<>>
          /\ reply' = [reply EXCEPT ![r] = Head(list[ticket[r]])]
          /\ list'  = [list EXCEPT ![ticket[r]] = Tail(@)]
          /\ pc'    = [pc EXCEPT ![r] = "answered"]
       \/ /\ list[ticket[r]] = <<>>
          /\ pc' = [pc EXCEPT ![r] = "blocked"]
          /\ UNCHANGED <<list, reply>>
    /\ UNCHANGED <<row, due, unsent, ticket, active>>

ReceiveReply(r) ==
    /\ pc[r] = "answered"
    /\ pc'    = [pc EXCEPT ![r] = Outcome(reply[r])]
    /\ reply' = [reply EXCEPT ![r] = None]
    /\ UNCHANGED <<row, due, list, unsent, ticket, active>>

BlpopTimesOut(r) ==
    /\ pc[r] = "blocked"
    /\ r \notin Unbounded
    /\ pc' = [pc EXCEPT ![r] = "checking"]
    /\ UNCHANGED <<row, due, list, unsent, ticket, reply, active>>

\* The connection cannot be opened or breaks. A decision Redis had already
\* popped for it is lost with it.
BlpopFails(r) ==
    /\ pc[r] \in {"connecting", "blocked", "answered"}
    /\ pc'    = [pc EXCEPT ![r] = "polling"]
    /\ reply' = [reply EXCEPT ![r] = None]
    /\ UNCHANGED <<row, due, list, unsent, ticket, active>>

\* One turn of the 500 ms LPOP loop that finds a decision. A turn that finds
\* none changes nothing.
PollPops(r) ==
    /\ pc[r] = "polling"
    /\ list[ticket[r]] # <<>>
    /\ pc'   = [pc EXCEPT ![r] = Outcome(Head(list[ticket[r]]))]
    /\ list' = [list EXCEPT ![ticket[r]] = Tail(@)]
    /\ UNCHANGED <<row, due, unsent, ticket, reply, active>>

\* The loop ends without a decision: its deadline passed or an LPOP failed.
PollGivesUp(r) ==
    /\ pc[r] = "polling"
    /\ pc' = [pc EXCEPT ![r] = "checking"]
    /\ UNCHANGED <<row, due, list, unsent, ticket, reply, active>>

\* Mutant: a wait that ends without a decision is a timeout, unchecked.
CheckStatus_Skipped(r) ==
    /\ pc[r] = "checking"
    /\ pc' = [pc EXCEPT ![r] = "expired"]
    /\ UNCHANGED <<row, due, list, unsent, ticket, reply, active>>

\* get_approval_status: the last word when Redis gave no decision.
CheckStatus(r) ==
    /\ pc[r] = "checking"
    /\ pc' = [pc EXCEPT ![r] = Outcome(row[ticket[r]])]
    /\ UNCHANGED <<row, due, list, unsent, ticket, reply, active>>

CheckFails(r) ==
    /\ pc[r] = "checking"
    /\ pc' = [pc EXCEPT ![r] = "failed"]
    /\ UNCHANGED <<row, due, list, unsent, ticket, reply, active>>

\* Mutant: the token is not read again after the wait.
Validate_Stale(r) ==
    /\ pc[r] = "validating"
    /\ pc' = [pc EXCEPT ![r] = "admitted"]
    /\ UNCHANGED <<row, due, list, unsent, ticket, reply, active>>

\* After an approval the token is read again; it may have been revoked.
Validate(r) ==
    /\ pc[r] = "validating"
    /\ pc' = [pc EXCEPT ![r] = IF active[tokenOf[r]] THEN "admitted"
                                                     ELSE "revoked"]
    /\ UNCHANGED <<row, due, list, unsent, ticket, reply, active>>

\* The re-validation query fails: fail-closed.
ValidateFails(r) ==
    /\ pc[r] = "validating"
    /\ pc' = [pc EXCEPT ![r] = "failed"]
    /\ UNCHANGED <<row, due, list, unsent, ticket, reply, active>>

\* The client disconnects or the gateway dies: the handler's future is
\* dropped at whatever await it was at.
Drop(r) ==
    /\ pc[r] \notin Finished \cup {"new"}
    /\ pc'    = [pc EXCEPT ![r] = "dropped"]
    /\ reply' = [reply EXCEPT ![r] = None]
    /\ UNCHANGED <<row, due, list, unsent, ticket, active>>

-----------------------------------------------------------------------------
\* Reviewers, Redis, the clock, the expiry job, token revocation

\* Mutant: the UPDATE does not ask for a pending row.
DecideApproval_AnyStatus(q, d) ==
    /\ row[q] # "none"
    /\ row'    = [row EXCEPT ![q] = d]
    /\ unsent' = unsent \cup {<<q, d>>}
    /\ UNCHANGED <<due, list, pc, ticket, reply, active>>

\* UPDATE ... WHERE status = 'pending'; expires_at is not looked at.
DecideApproval(q, d) ==
    /\ row[q] = "pending"
    /\ row'    = [row EXCEPT ![q] = d]
    /\ unsent' = unsent \cup {<<q, d>>}
    /\ UNCHANGED <<due, list, pc, ticket, reply, active>>

Blocked(q) == {r \in Requests : pc[r] = "blocked" /\ ticket[r] = q}

\* LPUSH: Redis hands the element to one client blocked on the key, and only
\* keeps it in the list when there is none.
PushDecision(q, d) ==
    /\ <<q, d>> \in unsent
    /\ unsent' = unsent \ {<<q, d>>}
    /\ \/ \E r \in Blocked(q) :
             /\ reply' = [reply EXCEPT ![r] = d]
             /\ pc'    = [pc EXCEPT ![r] = "answered"]
             /\ UNCHANGED list
       \/ /\ Blocked(q) = {}
          /\ list' = [list EXCEPT ![q] = <<d>> \o @]
          /\ UNCHANGED <<reply, pc>>
    /\ UNCHANGED <<row, due, ticket, active>>

\* The fire-and-forget LPUSH fails, or its handler dies before it.
PushFails(q, d) ==
    /\ <<q, d>> \in unsent
    /\ unsent' = unsent \ {<<q, d>>}
    /\ UNCHANGED <<row, due, list, pc, ticket, reply, active>>

\* The 60 s TTL of the decision list runs out.
DecisionLapses(q) ==
    /\ list[q] # <<>>
    /\ list' = [list EXCEPT ![q] = <<>>]
    /\ UNCHANGED <<row, due, unsent, pc, ticket, reply, active>>

\* Ten minutes after the INSERT, expires_at < NOW().
FallDue(q) ==
    /\ row[q] # "none"
    /\ q \notin due
    /\ due' = due \cup {q}
    /\ UNCHANGED <<row, list, unsent, pc, ticket, reply, active>>

Overdue == {q \in due : row[q] = "pending"}

\* One tick of the expiry job: a single UPDATE. It wakes no waiting handler.
ExpireApprovals ==
    /\ Overdue # {}
    /\ row' = [q \in Requests |-> IF q \in Overdue THEN "expired" ELSE row[q]]
    /\ UNCHANGED <<due, list, unsent, pc, ticket, reply, active>>

\* revoke_token and bulk_revoke; nothing sets is_active back.
RevokeToken(t) ==
    /\ active[t]
    /\ active' = [active EXCEPT ![t] = FALSE]
    /\ UNCHANGED <<row, due, list, unsent, pc, ticket, reply>>

-----------------------------------------------------------------------------
\* What the handler of r does by itself once it is past the count, when
\* nothing fails.
HandlerStep(r) ==
    \/ CreateApproval(r)
    \/ SendBlpop(r) \/ ReceiveReply(r) \/ BlpopTimesOut(r)
    \/ PollPops(r) \/ PollGivesUp(r)
    \/ CheckStatus(r)
    \/ Validate(r)

HandlerFails(r) ==
    CreateFails(r) \/ BlpopFails(r) \/ CheckFails(r) \/ ValidateFails(r) \/ Drop(r)

ReviewStep ==
    \E q \in Requests, d \in Decision :
        DecideApproval(q, d) \/ PushDecision(q, d) \/ PushFails(q, d)

Next ==
    \/ \E r \in Requests : CountPending(r) \/ CountFails(r)
    \/ \E r \in Requests : HandlerStep(r) \/ HandlerFails(r)
    \/ ReviewStep
    \/ \E q \in Requests : DecisionLapses(q) \/ FallDue(q)
    \/ ExpireApprovals
    \/ \E t \in Tokens : RevokeToken(t)

\* Fairness: tokio keeps polling a live handler and every wait of it is
\* bounded by a timeout; time passes; the expiry job ticks every minute and
\* is restarted when it panics. Failures, reviewers, clients, revocations,
\* Redis' TTL and the arrival of requests are not fair.
Fairness ==
    /\ \A r \in Requests : WF_vars(HandlerStep(r))
    /\ \A q \in Requests : WF_vars(FallDue(q))
    /\ WF_vars(ExpireApprovals)

Spec     == Init /\ [][Next]_vars
FairSpec == Spec /\ Fairness

-----------------------------------------------------------------------------
\* Properties

\* Types of the variables; a row's list only ever holds decisions.
TypeOK ==
    /\ row \in [Requests -> Status \cup {"none"}]
    /\ due \subseteq Requests
    /\ list \in [Requests -> Seq(Decision)]
    /\ unsent \subseteq Requests \X Decision
    /\ pc \in [Requests -> Stage]
    /\ ticket \in [Requests -> Requests \cup {None}]
    /\ reply \in [Requests -> Decision \cup {None}]
    /\ active \in [Tokens -> BOOLEAN]

\* A request passes the gate, or is told "rejected", only if the approval row
\* it waits for says so, and keeps saying so: the row, the Redis list, the
\* reply on the wire and the handler never disagree, however the decision
\* travelled and however many requests share the approval.
OutcomeMatchesRow ==
    \A r \in Requests :
        /\ pc[r] \in {"validating", "admitted", "revoked"} =>
               row[ticket[r]] = "approved"
        /\ pc[r] = "rejected" => row[ticket[r]] = "rejected"

\* Retries that carry the same idempotency key on the same token all wait for
\* one approval, and no request waits for another token's approval.
KeyNamesOneApproval ==
    \A r, s \in Requests :
        ticket[r] # None /\ ticket[s] # None =>
            /\ tokenOf[ticket[r]] = tokenOf[r]
            /\ keyOf[r] # None /\ keyOf[r] = keyOf[s] /\ tokenOf[r] = tokenOf[s]
                   => ticket[r] = ticket[s]

\* A token revoked while its request waits for a human never lets the request
\* through, even though the approval itself goes ahead (fix 6B-4).
RevokedNeverAdmitted ==
    [][\A r \in Requests :
          ~active[tokenOf[r]] /\ pc[r] # "admitted" => pc'[r] # "admitted"]_vars

\* Every handler that entered the gate leaves it.
HandlersFinish ==
    \A r \in Requests : pc[r] # "new" ~> pc[r] \in Finished

\* An approval given while a handler waits is never lost: a failed LPUSH, a
\* broken connection, a lapsed list or a sibling that took the decision all
\* leave the final database check, so the handler never reports a timeout.
ApprovalNotLost ==
    \A r \in Requests :
        (pc[r] \in Waiting /\ row[ticket[r]] = "approved")
            ~> pc[r] \in {"admitted", "revoked", "failed", "dropped"}

\* No approval stays pending for ever, so the pending cap cannot lock a token
\* out for good when nobody reviews its requests.
PendingResolves ==
    \A q \in Requests : row[q] = "pending" ~> row[q] # "pending"

\* Nothing that the gate has begun stays open or ends against the decision:
\* the three of them hold together.
GateResolves == HandlersFinish /\ ApprovalNotLost /\ PendingResolves

-----------------------------------------------------------------------------
\* Refinement: a handler's stage seen as a verdict.
Verdict(s) == CASE s = "validating" -> "granted"
                [] s = "admitted"   -> "admitted"
                [] s \in Finished \ {"admitted"} -> "refused"
                [] OTHER            -> "open"

Gate == INSTANCE ApprovalGate WITH verdict <- [r \in Requests |-> Verdict(pc[r])]

\* The gate with all its Redis paths, fallbacks and failures keeps the promise
\* of ApprovalGate: only an approved row on a live token admits a request.
GateRefined == Gate!GateSpec

-----------------------------------------------------------------------------
\* Proofs, for any sets of requests, tokens and keys and any pending cap. The
\* inductive invariant says that a decision, on every leg of its way from the
\* row to the handler, is the row's status; it is inductive because a decided
\* row never changes again. KeyInv adds whose row each request waits for, and
\* with both every step is a step of ApprovalGate or a stutter.

\* Stages in which the handler holds the approval it waits for.
Ticketed == Waiting \cup {"validating", "admitted", "revoked", "rejected", "expired"}

TicketsFiled ==
    \A r \in Requests :
        /\ pc[r] \in Ticketed => ticket[r] \in Requests /\ row[ticket[r]] \in Status
        /\ pc[r] \in {"new", "counted"} => row[r] = "none"

ListAgrees == \A q \in Requests : \A i \in 1..Len(list[q]) : list[q][i] = row[q]

UnsentAgrees == \A q \in Requests, d \in Decision : <<q, d>> \in unsent => row[q] = d

ReplyAgrees ==
    \A r \in Requests :
        pc[r] = "answered" => reply[r] \in Decision /\ reply[r] = row[ticket[r]]

\* The inductive invariant.
GateInv == /\ TypeOK
           /\ TicketsFiled
           /\ ListAgrees
           /\ UnsentAgrees
           /\ ReplyAgrees
           /\ OutcomeMatchesRow

-----------------------------------------------------------------------------
\* A list of decisions that popped its head: what was popped was in it, and
\* what is left was in it.
LEMMA PopAgrees ==
  ASSUME NEW s \in Seq(Decision), s # <<>>, NEW v,
         \A i \in 1..Len(s) : s[i] = v
  PROVE  /\ Head(s) = v /\ v \in Decision
         /\ Tail(s) \in Seq(Decision)
         /\ \A i \in 1..Len(Tail(s)) : Tail(s)[i] = v
<1>1. Len(s) \in Nat /\ Len(s) > 0
  BY EmptySeq
<1>2. Head(s) = s[1] /\ s[1] = v
  BY <1>1
<1>3. Len(Tail(s)) = Len(s) - 1 /\ \A i \in 1..Len(Tail(s)) : Tail(s)[i] = s[i+1]
  BY HeadTailProperties
<1>. QED
  BY <1>1, <1>2, <1>3, HeadTailProperties

\* Pushing a decision in front of a list of equal ones.
LEMMA PushAgrees ==
  ASSUME NEW s \in Seq(Decision), NEW v \in Decision,
         \A i \in 1..Len(s) : s[i] = v
  PROVE  /\ <<v>> \o s \in Seq(Decision)
         /\ \A i \in 1..Len(<<v>> \o s) : (<<v>> \o s)[i] = v
<1>1. <<v>> \in Seq(Decision) /\ Len(<<v>>) = 1 /\ <<v>>[1] = v
  OBVIOUS
<1>2. /\ <<v>> \o s \in Seq(Decision)
      /\ Len(<<v>> \o s) = 1 + Len(s)
      /\ \A i \in 1..1 + Len(s) :
            (<<v>> \o s)[i] = IF i <= 1 THEN <<v>>[i] ELSE s[i - 1]
  BY <1>1, ConcatProperties
<1>. QED
  BY <1>1, <1>2

-----------------------------------------------------------------------------
\* It holds initially.
LEMMA InitInv == Init => GateInv
<1>. SUFFICES ASSUME Init PROVE GateInv
  OBVIOUS
<1>. USE ConstantsAssumption DEF Init
<1>1. TypeOK
  BY DEF TypeOK, Stage, Status
<1>. QED
  BY <1>1 DEF GateInv, TicketsFiled, ListAgrees, UnsentAgrees, ReplyAgrees,
              OutcomeMatchesRow, Ticketed, Waiting

\* Steps of a handler, except those that pop a decision from the list.
LEMMA HandlerInv ==
  ASSUME GateInv, NEW r \in Requests,
         \/ CountPending(r) \/ CountFails(r) \/ CreateApproval(r)
         \/ ReceiveReply(r) \/ BlpopTimesOut(r) \/ PollGivesUp(r)
         \/ CheckStatus(r) \/ Validate(r) \/ HandlerFails(r)
  PROVE  GateInv'
<1>. USE ConstantsAssumption
     DEF GateInv, TypeOK, TicketsFiled, ListAgrees, UnsentAgrees, ReplyAgrees,
         OutcomeMatchesRow, Ticketed, Waiting, Finished, Stage, Status, Decision
<1>1. CASE CountPending(r)
  <2>1. PICK s \in {"capped", "counted"} : pc' = [pc EXCEPT ![r] = s]
    BY <1>1 DEF CountPending
  <2>. QED
    BY <1>1, <2>1 DEF CountPending
<1>2. CASE CountFails(r)
  BY <1>2 DEF CountFails
<1>3. CASE CreateApproval(r)
  <2>1. CASE /\ row'    = [row EXCEPT ![r] = "pending"]
             /\ ticket' = [ticket EXCEPT ![r] = r]
    <3>1. row[r] = "none" /\ \A q \in Requests : q # r => row'[q] = row[q]
      BY <1>3, <2>1 DEF CreateApproval
    <3>2. TypeOK' /\ TicketsFiled'
      BY <1>3, <2>1, <3>1 DEF CreateApproval
    <3>3. ASSUME NEW i \in 1..Len(list[r]) PROVE FALSE
      <4>1. list[r] \in Seq(Decision)
        OBVIOUS
      <4>2. list[r][i] \in Decision
        BY <4>1, ElementOfSeq
      <4>. QED
        BY <3>1, <4>2
    <3>4. ListAgrees'
      BY <1>3, <3>1, <3>3 DEF CreateApproval
    <3>5. UnsentAgrees'
      <4>1. UNCHANGED unsent
        BY <1>3 DEF CreateApproval
      <4>2. ASSUME NEW q \in Requests, NEW d \in Decision, <<q, d>> \in unsent
            PROVE  row'[q] = d
        <5>1. row[q] = d /\ row[q] # "none"
          BY <4>2
        <5>. QED
          BY <3>1, <5>1
      <4>. QED
        BY <4>1, <4>2
    <3>6. ReplyAgrees' /\ OutcomeMatchesRow'
      BY <1>3, <2>1, <3>1 DEF CreateApproval
    <3>. QED
      BY <3>2, <3>4, <3>5, <3>6
  <2>2. CASE UNCHANGED row /\ \E q \in Conflicts(r) : ticket' = [ticket EXCEPT ![r] = q]
    BY <1>3, <2>2 DEF CreateApproval, Conflicts
  <2>. QED
    BY <1>3, <2>1, <2>2 DEF CreateApproval
<1>4. CASE ReceiveReply(r)
  BY <1>4 DEF ReceiveReply, Outcome
<1>5. CASE BlpopTimesOut(r)
  BY <1>5 DEF BlpopTimesOut
<1>6. CASE PollGivesUp(r)
  BY <1>6 DEF PollGivesUp
<1>7. CASE CheckStatus(r)
  BY <1>7 DEF CheckStatus, Outcome
<1>8. CASE Validate(r)
  BY <1>8 DEF Validate
<1>9. CASE CreateFails(r)
  BY <1>9 DEF CreateFails
<1>10. CASE BlpopFails(r)
  BY <1>10 DEF BlpopFails
<1>11. CASE CheckFails(r)
  BY <1>11 DEF CheckFails
<1>12. CASE ValidateFails(r)
  BY <1>12 DEF ValidateFails
<1>13. CASE Drop(r)
  BY <1>13 DEF Drop
<1>. QED
  BY <1>1, <1>2, <1>3, <1>4, <1>5, <1>6, <1>7, <1>8, <1>9, <1>10, <1>11, <1>12,
     <1>13
  DEF HandlerFails

\* A handler that pops the decision list, by BLPOP or by LPOP.
LEMMA PopInv ==
  ASSUME GateInv, NEW r \in Requests, SendBlpop(r) \/ PollPops(r)
  PROVE  GateInv'
<1>. DEFINE q == ticket[r]
<1>. USE ConstantsAssumption
     DEF GateInv, TypeOK, TicketsFiled, UnsentAgrees, ReplyAgrees,
         OutcomeMatchesRow, Ticketed, Waiting, Finished, Stage, Status
<1>1. q \in Requests /\ list[q] \in Seq(Decision)
  BY DEF SendBlpop, PollPops
<1>2. CASE list[q] = <<>>
  <2>1. pc' = [pc EXCEPT ![r] = "blocked"]
        /\ UNCHANGED <<row, due, list, unsent, ticket, reply, active>>
    BY <1>2 DEF SendBlpop, PollPops
  <2>. QED
    BY <1>1, <2>1 DEF ListAgrees, Decision, SendBlpop, PollPops
<1>3. CASE list[q] # <<>>
  <2>1. /\ Head(list[q]) = row[q] /\ row[q] \in Decision
        /\ Tail(list[q]) \in Seq(Decision)
        /\ \A i \in 1..Len(Tail(list[q])) : Tail(list[q])[i] = row[q]
    BY <1>1, <1>3, PopAgrees DEF ListAgrees
  <2>2. /\ list' = [list EXCEPT ![q] = Tail(list[q])]
        /\ UNCHANGED <<row, due, unsent, ticket, active>>
    BY <1>3 DEF SendBlpop, PollPops
  <2>3. ListAgrees'
    BY <1>1, <2>1, <2>2 DEF ListAgrees
  <2>4. list' \in [Requests -> Seq(Decision)]
    BY <1>1, <2>1, <2>2
  <2>5. CASE SendBlpop(r)
    <3>1. /\ pc'    = [pc EXCEPT ![r] = "answered"]
          /\ reply' = [reply EXCEPT ![r] = row[q]]
      BY <1>3, <2>1, <2>5 DEF SendBlpop
    <3>2. TypeOK' /\ TicketsFiled' /\ UnsentAgrees'
      BY <2>1, <2>2, <2>4, <2>5, <3>1 DEF SendBlpop
    <3>3. ReplyAgrees' /\ OutcomeMatchesRow'
      BY <1>1, <2>1, <2>2, <3>1
    <3>. QED
      BY <2>3, <3>2, <3>3
  <2>6. CASE PollPops(r)
    BY <1>1, <1>3, <2>1, <2>2, <2>3, <2>4, <2>6 DEF PollPops, Outcome, Decision
  <2>. QED
    BY <2>5, <2>6
<1>. QED
  BY <1>2, <1>3

\* Reviewers, Redis, the clock, the job and revocations.
LEMMA EnvironmentInv ==
  ASSUME GateInv,
         \/ ReviewStep
         \/ \E q \in Requests : DecisionLapses(q) \/ FallDue(q)
         \/ ExpireApprovals
         \/ \E t \in Tokens : RevokeToken(t)
  PROVE  GateInv'
<1>. USE ConstantsAssumption
     DEF GateInv, TypeOK, TicketsFiled, ListAgrees, UnsentAgrees, ReplyAgrees,
         OutcomeMatchesRow, Ticketed, Waiting, Finished, Stage, Status, Decision
<1>1. ASSUME NEW q \in Requests, NEW d \in Decision, DecideApproval(q, d)
      PROVE  GateInv'
  BY <1>1 DEF DecideApproval
<1>2. ASSUME NEW q \in Requests, NEW d \in Decision, PushDecision(q, d)
      PROVE  GateInv'
  <2>1. row[q] = d
    BY <1>2 DEF PushDecision
  <2>2. CASE \E r \in Blocked(q) : /\ reply' = [reply EXCEPT ![r] = d]
                                  /\ pc'    = [pc EXCEPT ![r] = "answered"]
                                  /\ UNCHANGED list
    BY <1>2, <2>1, <2>2 DEF PushDecision, Blocked
  <2>3. CASE list' = [list EXCEPT ![q] = <<d>> \o @] /\ UNCHANGED <<reply, pc>>
    <3>1. /\ <<d>> \o list[q] \in Seq(Decision)
          /\ \A i \in 1..Len(<<d>> \o list[q]) : (<<d>> \o list[q])[i] = d
      BY <2>1, PushAgrees
    <3>2. ListAgrees' /\ list' \in [Requests -> Seq(Decision)]
      BY <1>2, <2>1, <2>3, <3>1 DEF PushDecision
    <3>. QED
      BY <1>2, <2>3, <3>2 DEF PushDecision
  <2>. QED
    BY <1>2, <2>2, <2>3 DEF PushDecision
<1>3. ASSUME NEW q \in Requests, NEW d \in Decision, PushFails(q, d)
      PROVE  GateInv'
  BY <1>3 DEF PushFails
<1>4. ASSUME NEW q \in Requests, DecisionLapses(q) PROVE GateInv'
  BY <1>4 DEF DecisionLapses
<1>5. ASSUME NEW q \in Requests, FallDue(q) PROVE GateInv'
  BY <1>5 DEF FallDue
<1>6. CASE ExpireApprovals
  <2>1. /\ UNCHANGED <<due, list, unsent, pc, ticket, reply, active>>
        /\ \A q \in Requests :
              /\ row[q] # "pending" => row'[q] = row[q]
              /\ row[q] = "pending" => row'[q] \in Status
        /\ row' \in [Requests -> Status \cup {"none"}]
    BY <1>6 DEF ExpireApprovals, Overdue
  <2>2. ListAgrees'
    <3>. SUFFICES ASSUME NEW q \in Requests, NEW i \in 1..Len(list[q])
                  PROVE  list[q][i] = row'[q]
      BY <2>1
    <3>1. list[q] \in Seq(Decision)
      OBVIOUS
    <3>2. list[q][i] \in Decision
      BY <3>1, ElementOfSeq
    <3>. QED
      BY <2>1, <3>2
  <2>3. UnsentAgrees'
    <3>. SUFFICES ASSUME NEW q \in Requests, NEW d \in Decision, <<q, d>> \in unsent
                  PROVE  row'[q] = d
      BY <2>1
    <3>. QED
      BY <2>1
  <2>4. TicketsFiled' /\ ReplyAgrees' /\ OutcomeMatchesRow'
    BY <2>1
  <2>. QED
    BY <2>1, <2>2, <2>3, <2>4
<1>7. ASSUME NEW t \in Tokens, RevokeToken(t) PROVE GateInv'
  BY <1>7 DEF RevokeToken
<1>. QED
  BY <1>1, <1>2, <1>3, <1>4, <1>5, <1>6, <1>7 DEF ReviewStep

\* GateInv is inductive.
LEMMA StepInv == GateInv /\ [Next]_vars => GateInv'
<1>. SUFFICES ASSUME GateInv, [Next]_vars PROVE GateInv'
  OBVIOUS
<1>1. CASE Next
  <2>1. ASSUME NEW r \in Requests,
               CountPending(r) \/ CountFails(r) \/ HandlerStep(r) \/ HandlerFails(r)
        PROVE  GateInv'
    BY <2>1, HandlerInv, PopInv DEF HandlerStep
  <2>. QED
    BY <1>1, <2>1, EnvironmentInv DEF Next
<1>2. CASE UNCHANGED vars
  BY <1>2 DEF vars, GateInv, TypeOK, TicketsFiled, ListAgrees, UnsentAgrees,
              ReplyAgrees, OutcomeMatchesRow
<1>. QED
  BY <1>1, <1>2

\* The inductive invariant holds in every reachable state.
THEOREM GateInvariant == Spec => []GateInv
BY InitInv, StepInv, PTL DEF Spec

\* Every variable of the gate keeps its type.
THEOREM TypeCorrect == Spec => []TypeOK
BY GateInvariant, PTL DEF GateInv

\* Admission and rejection always agree with the approval row.
THEOREM OutcomesAgree == Spec => []OutcomeMatchesRow
BY GateInvariant, PTL DEF GateInv

\* A revoked token never gets through the gate: fix 6B-4.
THEOREM RevocationHolds == Spec => RevokedNeverAdmitted
<1>1. GateInv /\ [Next]_vars
        => [\A r \in Requests :
               ~active[tokenOf[r]] /\ pc[r] # "admitted" => pc'[r] # "admitted"]_vars
  <2>. SUFFICES ASSUME GateInv, Next, NEW r \in Requests,
                       ~active[tokenOf[r]], pc[r] # "admitted", pc'[r] = "admitted"
                PROVE  FALSE
    OBVIOUS
  <2>. USE DEF GateInv, TypeOK
  <2>1. ASSUME NEW s \in Requests,
               CountPending(s) \/ CountFails(s) \/ HandlerStep(s) \/ HandlerFails(s)
        PROVE  FALSE
    BY <2>1 DEF CountPending, CountFails, HandlerStep, HandlerFails, CreateApproval,
                CreateFails, SendBlpop, ReceiveReply, BlpopTimesOut, BlpopFails,
                PollPops, PollGivesUp, CheckStatus, CheckFails, Validate,
                ValidateFails, Drop, Outcome
  <2>2. CASE ReviewStep
    BY <2>2 DEF ReviewStep, DecideApproval, PushDecision, PushFails
  <2>3. CASE \E q \in Requests : DecisionLapses(q) \/ FallDue(q)
    BY <2>3 DEF DecisionLapses, FallDue
  <2>4. CASE ExpireApprovals \/ \E t \in Tokens : RevokeToken(t)
    BY <2>4 DEF ExpireApprovals, RevokeToken
  <2>. QED
    BY <2>1, <2>2, <2>3, <2>4 DEF Next
<1>. QED
  BY <1>1, GateInvariant, PTL DEF Spec, RevokedNeverAdmitted

-----------------------------------------------------------------------------
\* Who waits for whose approval. GateInv says nothing of keys; KeyInv does,
\* and needs of it only that a handler about to file has not filed yet.

\* Each ticket is a filed row of the request's own token and key.
TicketsKeyed ==
    \A r \in Requests :
        /\ pc[r] \in {"new", "counted"} => ticket[r] = None
        /\ ticket[r] # None =>
               /\ ticket[r] \in Requests /\ row[ticket[r]] # "none"
               /\ tokenOf[ticket[r]] = tokenOf[r]
               /\ keyOf[r] # None => keyOf[ticket[r]] = keyOf[r]

\* What the UNIQUE constraint keeps.
KeysUnique ==
    \A p, q \in Requests :
        /\ row[p] # "none" /\ row[q] # "none"
        /\ tokenOf[p] = tokenOf[q] /\ keyOf[p] = keyOf[q] /\ keyOf[p] # None
        => p = q

KeyInv == TicketsKeyed /\ KeysUnique

\* A step that files nothing, unfiles nothing and starts no handler again
\* leaves KeyInv alone.
LEMMA KeysFrame ==
  ASSUME GateInv, KeyInv,
         \A q \in Requests : row'[q] # "none" <=> row[q] # "none",
         \A q \in Requests : pc'[q] \in {"new", "counted"} => pc[q] \in {"new", "counted"},
         ticket' = ticket
  PROVE  KeyInv'
<1>1. TicketsKeyed'
  BY DEF KeyInv, TicketsKeyed
<1>2. KeysUnique'
  BY DEF KeyInv, KeysUnique
<1>. QED
  BY <1>1, <1>2 DEF KeyInv

\* KeyInv is inductive, given GateInv: only filing touches it.
LEMMA KeyStep == GateInv /\ KeyInv /\ [Next]_vars => KeyInv'
<1>. SUFFICES ASSUME GateInv, KeyInv, [Next]_vars PROVE KeyInv'
  OBVIOUS
<1>. USE DEF GateInv, TypeOK
<1>1. ASSUME NEW r \in Requests, CreateApproval(r) PROVE KeyInv'
  <2>1. pc[r] = "counted" /\ pc' = [pc EXCEPT ![r] = "connecting"] /\ row[r] = "none"
    BY <1>1 DEF CreateApproval, TicketsFiled
  <2>2. CASE /\ Conflicts(r) = {}
             /\ row' = [row EXCEPT ![r] = "pending"]
             /\ ticket' = [ticket EXCEPT ![r] = r]
    <3>1. TicketsKeyed'
      BY <2>1, <2>2, ConstantsAssumption DEF KeyInv, TicketsKeyed
    <3>2. KeysUnique'
      BY <2>1, <2>2 DEF KeyInv, KeysUnique, Conflicts
    <3>. QED
      BY <3>1, <3>2 DEF KeyInv
  <2>3. ASSUME NEW q \in Conflicts(r), row' = row, ticket' = [ticket EXCEPT ![r] = q]
        PROVE  KeyInv'
    <3>1. TicketsKeyed'
      BY <2>1, <2>3 DEF KeyInv, TicketsKeyed, Conflicts
    <3>2. KeysUnique'
      BY <2>3 DEF KeyInv, KeysUnique
    <3>. QED
      BY <3>1, <3>2 DEF KeyInv
  <2>. QED
    BY <1>1, <2>2, <2>3 DEF CreateApproval
<1>2. ASSUME NEW r \in Requests,
             \/ CountPending(r) \/ CountFails(r) \/ SendBlpop(r) \/ ReceiveReply(r)
             \/ BlpopTimesOut(r) \/ PollPops(r) \/ PollGivesUp(r) \/ CheckStatus(r)
             \/ Validate(r) \/ HandlerFails(r)
      PROVE  KeyInv'
  <2>1. row' = row /\ ticket' = ticket
    BY <1>2 DEF CountPending, CountFails, SendBlpop, ReceiveReply, BlpopTimesOut,
                PollPops, PollGivesUp, CheckStatus, Validate, HandlerFails,
                CreateFails, BlpopFails, CheckFails, ValidateFails, Drop
  <2>2. PICK s : pc' = [pc EXCEPT ![r] = s] /\ (s = "counted" => pc[r] = "new") /\ s # "new"
    BY <1>2 DEF CountPending, CountFails, SendBlpop, ReceiveReply, BlpopTimesOut,
                PollPops, PollGivesUp, CheckStatus, Validate, HandlerFails,
                CreateFails, BlpopFails, CheckFails, ValidateFails, Drop, Outcome
  <2>. QED
    BY <2>1, <2>2, KeysFrame
<1>3. CASE ReviewStep
  <2>1. ASSUME NEW q \in Requests, NEW d \in Decision, DecideApproval(q, d)
        PROVE  KeyInv'
    BY <2>1, KeysFrame DEF DecideApproval, Decision
  <2>2. ASSUME NEW q \in Requests, NEW d \in Decision, PushDecision(q, d)
        PROVE  KeyInv'
    BY <2>2, KeysFrame DEF PushDecision, Blocked
  <2>3. ASSUME NEW q \in Requests, NEW d \in Decision, PushFails(q, d)
        PROVE  KeyInv'
    BY <2>3, KeysFrame DEF PushFails
  <2>. QED
    BY <1>3, <2>1, <2>2, <2>3 DEF ReviewStep
<1>4. CASE ExpireApprovals
  BY <1>4, KeysFrame DEF ExpireApprovals, Overdue
<1>5. CASE \/ \E q \in Requests : DecisionLapses(q) \/ FallDue(q)
           \/ \E t \in Tokens : RevokeToken(t)
           \/ UNCHANGED vars
  BY <1>5, KeysFrame DEF DecisionLapses, FallDue, RevokeToken, vars
<1>. QED
  BY <1>1, <1>2, <1>3, <1>4, <1>5 DEF Next, HandlerStep

\* KeyInv holds in every reachable state.
LEMMA KeyInvariant == Spec => []KeyInv
<1>1. Init => KeyInv
  BY DEF Init, KeyInv, TicketsKeyed, KeysUnique
<1>. QED
  BY <1>1, KeyStep, GateInvariant, PTL DEF Spec

\* No request waits for another token's approval, and retries with one key
\* wait for one approval.
THEOREM KeysNameOne == Spec => []KeyNamesOneApproval
<1>1. GateInv /\ KeyInv => KeyNamesOneApproval
  BY DEF KeyInv, TicketsKeyed, KeysUnique, KeyNamesOneApproval
<1>. QED
  BY <1>1, GateInvariant, KeyInvariant, PTL

-----------------------------------------------------------------------------
\* The refinement. A step of one handler is seen as a step of its verdict.

\* A handler that moves changes its own verdict and no other.
LEMMA VerdictMoves ==
  ASSUME GateInv, NEW r \in Requests, NEW s \in Stage,
         pc' = [pc EXCEPT ![r] = s]
  PROVE  [q \in Requests |-> Verdict(pc[q])]'
            = [[q \in Requests |-> Verdict(pc[q])] EXCEPT ![r] = Verdict(s)]
BY DEF GateInv, TypeOK

\* A step between stages of one verdict is a stutter.
LEMMA Stutters ==
  ASSUME GateInv, NEW r \in Requests, NEW s \in Stage,
         pc' = [pc EXCEPT ![r] = s], Verdict(s) = Verdict(pc[r]),
         UNCHANGED <<row, ticket, active>>
  PROVE  UNCHANGED Gate!gateVars
<1>1. [q \in Requests |-> Verdict(pc[q])]' = [q \in Requests |-> Verdict(pc[q])]
  BY DEF GateInv, TypeOK
<1>. QED
  BY <1>1 DEF Gate!gateVars

\* A handler that ends without an admission refuses its request.
LEMMA Refuses ==
  ASSUME GateInv, NEW r \in Requests, NEW s \in Finished \ {"admitted"},
         pc[r] \notin Finished, pc' = [pc EXCEPT ![r] = s],
         UNCHANGED <<row, ticket, active>>
  PROVE  Gate!Refuse(r)
<1>1. s \in Stage /\ Verdict(s) = "refused" /\ Verdict(pc[r]) \in {"open", "granted"}
  BY DEF Stage, Verdict, Finished
<1>. QED
  BY <1>1, VerdictMoves DEF Gate!Refuse

\* A handler that learns of its decision acts on its row's.
LEMMA Learns ==
  ASSUME GateInv, NEW r \in Requests,
         pc[r] \in Waiting, pc' = [pc EXCEPT ![r] = Outcome(row[ticket[r]])],
         UNCHANGED <<row, ticket, active>>
  PROVE  Gate!Grant(r) \/ Gate!Refuse(r)
<1>. DEFINE d == row[ticket[r]]
<1>1. CASE d = "approved"
  <2>1. Outcome(d) = "validating" /\ "validating" \in Stage
    BY <1>1 DEF Outcome, Stage
  <2>2. Verdict(pc[r]) = "open" /\ Verdict("validating") = "granted"
    BY DEF Verdict, Waiting, Finished
  <2>3. ticket[r] # None /\ row[ticket[r]] = "approved"
    BY <1>1, ConstantsAssumption DEF GateInv, TicketsFiled, Ticketed
  <2>. QED
    BY <2>1, <2>2, <2>3, VerdictMoves DEF Gate!Grant
<1>2. CASE d # "approved"
  <2>1. Outcome(d) \in Finished \ {"admitted"} /\ pc[r] \notin Finished
    BY <1>2 DEF Outcome, Finished, Waiting
  <2>. QED
    BY <2>1, Refuses
<1>. QED
  BY <1>1, <1>2

\* Each step of a handler files, grants, admits, refuses or is not seen.
LEMMA HandlerRefines ==
  ASSUME GateInv, KeyInv, NEW r \in Requests,
         CountPending(r) \/ CountFails(r) \/ HandlerStep(r) \/ HandlerFails(r)
  PROVE  [Gate!GateNext]_(Gate!gateVars)
<1>. SUFFICES \/ Gate!File(r) \/ Gate!Grant(r) \/ Gate!Admit(r) \/ Gate!Refuse(r)
              \/ UNCHANGED Gate!gateVars
  BY DEF Gate!GateNext
<1>. USE DEF Verdict, Stage, Waiting, Finished
<1>1. CASE CountPending(r)
  <2>1. CASE pc' = [pc EXCEPT ![r] = "capped"]
    BY <1>1, <2>1, Refuses DEF CountPending
  <2>2. CASE pc' = [pc EXCEPT ![r] = "counted"]
    BY <1>1, <2>2, Stutters DEF CountPending
  <2>. QED
    BY <1>1, <2>1, <2>2 DEF CountPending
<1>2. CASE CountFails(r)
  BY <1>2, Stutters DEF CountFails
<1>3. CASE CreateApproval(r)
  <2>1. [q \in Requests |-> Verdict(pc[q])]' = [q \in Requests |-> Verdict(pc[q])]
    BY <1>3 DEF CreateApproval, GateInv, TypeOK
  <2>2. Verdict(pc[r]) = "open" /\ ticket[r] = None /\ row[r] = "none"
    BY <1>3 DEF CreateApproval, GateInv, TicketsFiled, KeyInv, TicketsKeyed
  <2>3. /\ active' = active
        /\ \/ row' = [row EXCEPT ![r] = "pending"] /\ ticket' = [ticket EXCEPT ![r] = r]
           \/ \E q \in Requests : /\ row[q] # "none" /\ tokenOf[q] = tokenOf[r]
                                  /\ ticket' = [ticket EXCEPT ![r] = q]
                                  /\ UNCHANGED row
    BY <1>3 DEF CreateApproval, Conflicts
  <2>. QED
    BY <2>1, <2>2, <2>3 DEF Gate!File
<1>4. CASE SendBlpop(r)
  BY <1>4, Stutters DEF SendBlpop
<1>5. CASE ReceiveReply(r)
  <2>1. /\ pc' = [pc EXCEPT ![r] = Outcome(row[ticket[r]])]
        /\ pc[r] \in Waiting /\ UNCHANGED <<row, ticket, active>>
    BY <1>5 DEF ReceiveReply, GateInv, ReplyAgrees
  <2>. QED
    BY <2>1, Learns
<1>6. CASE BlpopTimesOut(r)
  BY <1>6, Stutters DEF BlpopTimesOut
<1>7. CASE PollPops(r)
  <2>1. ticket[r] \in Requests /\ list[ticket[r]] \in Seq(Decision)
    BY <1>7 DEF PollPops, GateInv, TypeOK, TicketsFiled, Ticketed
  <2>2. Head(list[ticket[r]]) = row[ticket[r]]
    BY <1>7, <2>1, PopAgrees DEF PollPops, GateInv, ListAgrees
  <2>3. /\ pc' = [pc EXCEPT ![r] = Outcome(row[ticket[r]])]
        /\ pc[r] \in Waiting /\ UNCHANGED <<row, ticket, active>>
    BY <1>7, <2>2 DEF PollPops
  <2>. QED
    BY <2>3, Learns
<1>8. CASE PollGivesUp(r)
  BY <1>8, Stutters DEF PollGivesUp
<1>9. CASE CheckStatus(r)
  <2>1. /\ pc' = [pc EXCEPT ![r] = Outcome(row[ticket[r]])]
        /\ pc[r] \in Waiting /\ UNCHANGED <<row, ticket, active>>
    BY <1>9 DEF CheckStatus
  <2>. QED
    BY <2>1, Learns
<1>10. CASE Validate(r)
  <2>1. CASE active[tokenOf[r]]
    <3>1. pc' = [pc EXCEPT ![r] = "admitted"] /\ Verdict(pc[r]) = "granted"
      BY <1>10, <2>1 DEF Validate
    <3>. QED
      BY <1>10, <2>1, <3>1, VerdictMoves DEF Validate, Gate!Admit
  <2>2. CASE ~active[tokenOf[r]]
    BY <1>10, <2>2, Refuses DEF Validate
  <2>. QED
    BY <2>1, <2>2
<1>11. CASE HandlerFails(r)
  BY <1>11, Refuses, Stutters
  DEF HandlerFails, CreateFails, BlpopFails, CheckFails, ValidateFails, Drop
<1>. QED
  BY <1>1, <1>2, <1>3, <1>4, <1>5, <1>6, <1>7, <1>8, <1>9, <1>10, <1>11
  DEF HandlerStep

\* What the others do settles, expires or revokes, or is not seen.
LEMMA EnvironmentRefines ==
  ASSUME GateInv,
         \/ ReviewStep
         \/ \E q \in Requests : DecisionLapses(q) \/ FallDue(q)
         \/ ExpireApprovals
         \/ \E t \in Tokens : RevokeToken(t)
  PROVE  [Gate!GateNext]_(Gate!gateVars)
<1>1. ASSUME pc' = pc
      PROVE  [q \in Requests |-> Verdict(pc[q])]' = [q \in Requests |-> Verdict(pc[q])]
  BY <1>1
<1>2. ASSUME NEW q \in Requests, NEW d \in Decision, DecideApproval(q, d)
      PROVE  Gate!Settle(q)
  <2>1. /\ row[q] = "pending" /\ row' = [row EXCEPT ![q] = d]
        /\ d \in {"approved", "rejected"} /\ UNCHANGED <<pc, ticket, active>>
    BY <1>2 DEF DecideApproval, Decision
  <2>. QED
    BY <1>1, <2>1 DEF Gate!Settle
<1>3. ASSUME NEW q \in Requests, NEW d \in Decision, PushDecision(q, d)
      PROVE  UNCHANGED Gate!gateVars
  <2>1. UNCHANGED <<row, ticket, active>>
    BY <1>3 DEF PushDecision
  <2>2. CASE \E r \in Blocked(q) : pc' = [pc EXCEPT ![r] = "answered"]
    BY <2>1, <2>2, Stutters DEF Blocked, Stage, Waiting, Finished, Verdict
  <2>3. CASE pc' = pc
    BY <1>1, <2>1, <2>3 DEF Gate!gateVars
  <2>. QED
    BY <1>3, <2>2, <2>3 DEF PushDecision
<1>4. ASSUME \/ \E q \in Requests, d \in Decision : PushFails(q, d)
             \/ \E q \in Requests : DecisionLapses(q) \/ FallDue(q)
      PROVE  UNCHANGED Gate!gateVars
  BY <1>1, <1>4 DEF PushFails, DecisionLapses, FallDue, Gate!gateVars
<1>5. CASE ExpireApprovals
  <2>1. /\ Overdue \in SUBSET {q \in Requests : row[q] = "pending"}
        /\ row' = [q \in Requests |-> IF q \in Overdue THEN "expired" ELSE row[q]]
        /\ UNCHANGED <<pc, ticket, active>>
    BY <1>5 DEF ExpireApprovals, Overdue, GateInv, TypeOK
  <2>2. Gate!Expire
    BY <1>1, <2>1 DEF Gate!Expire
  <2>. QED
    BY <2>2 DEF Gate!GateNext
<1>6. ASSUME NEW t \in Tokens, RevokeToken(t)
      PROVE  Gate!Revoke(t)
  <2>1. active' = [active EXCEPT ![t] = FALSE] /\ UNCHANGED <<row, pc, ticket>>
    BY <1>6 DEF RevokeToken
  <2>. QED
    BY <1>1, <2>1 DEF Gate!Revoke
<1>. QED
  BY <1>2, <1>3, <1>4, <1>5, <1>6 DEF ReviewStep, Gate!GateNext

\* HitlApproval implements ApprovalGate: Redis, its fallbacks, timeouts and
\* failures are all steps or stutters of the gate that only an approved row
\* on a live token opens.
THEOREM GateImplemented == Spec => GateRefined
<1>1. Init => Gate!GateInit
  BY DEF Init, Gate!GateInit, Verdict, Finished
<1>2. GateInv /\ KeyInv /\ [Next]_vars => [Gate!GateNext]_(Gate!gateVars)
  <2>. SUFFICES ASSUME GateInv, KeyInv, [Next]_vars
                PROVE  [Gate!GateNext]_(Gate!gateVars)
    OBVIOUS
  <2>1. CASE UNCHANGED vars
    BY <2>1 DEF vars, Gate!gateVars
  <2>. QED
    BY <2>1, HandlerRefines, EnvironmentRefines DEF Next
<1>. QED
  BY <1>1, <1>2, GateInvariant, KeyInvariant, PTL DEF Spec, GateRefined, Gate!GateSpec

=============================================================================
