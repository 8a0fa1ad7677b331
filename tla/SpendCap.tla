------------------------------ MODULE SpendCap ------------------------------
(***************************************************************************)
(* Spend caps of one token (middleware/spend.rs), as the proxy handler     *)
(* uses them: an advisory check before the request is sent upstream, and   *)
(* after the answer, when the cost is known, a Lua script that adds the    *)
(* cost to every capped counter or to none. Periods without a cap are      *)
(* counted afterwards, one INCRBYFLOAT each.                               *)
(*                                                                         *)
(* Amounts are whole units. A load of the caps returns the rows of the     *)
(* database or a value they had before, which the 60 s cache may still     *)
(* hold (module SpendCapsCache models that cache itself).                  *)
(*                                                                         *)
(* A request of this module is one call that bills: the answer to a        *)
(* request, streamed or not, or one that the handler only logs when it     *)
(* cannot be billed (from the response cache, of an MCP loop's turn, or at *)
(* a cost that the test header gives). What becomes of a bill that fails   *)
(* depends on who bills.                                                   *)
(***************************************************************************)
EXTENDS Naturals, FiniteSets, FiniteSetTheorems, TLAPS

CONSTANTS
    Requests,   \* concurrent proxy requests of the token
    Periods,    \* daily, monthly, lifetime
    Rolling,    \* the periods whose Redis key changes with the calendar
    Limits,     \* amounts an administrator may set as a cap
    NoCap,      \* a period without a spend_caps row
    cost,       \* what each request costs, once it has been answered
    FailOpen,   \* TRUEFLOW_REDIS_FAIL_OPEN
    MaxWindow,  \* bound: calendar windows
    MaxChanges  \* bound: changes of the caps

ASSUME ConstantsAssumption ==
    /\ IsFiniteSet(Requests)
    /\ Rolling \subseteq Periods
    /\ Limits \subseteq Nat \ {0}
    /\ NoCap \notin Nat
    /\ cost \in [Requests -> Nat \ {0}]
    /\ FailOpen \in BOOLEAN
    /\ MaxWindow \in Nat
    /\ MaxChanges \in Nat

\* Who calls check_and_increment_spend: the handler, for the answer it is about
\* to return; the task spawned for a streamed answer; or a place in the handler
\* that logs an Err and goes on.
Site == {"unary", "streamed", "logged"}

VARIABLES
    site,    \* who bills the request
    limit,   \* spend_caps.limit_usd per period, or NoCap
    stale,   \* earlier values of limit that the cache may still return
    changes, \* how often the caps were changed
    window,  \* the calendar window a period's key names now
    counter, \* the Redis counters spend:{token}:{period}:{window}
    pc,      \* where each request is
    caps,    \* the caps a request has loaded
    at,      \* the windows a request took from the clock when it bills
    todo     \* periods without a cap that a request still has to count

vars == <<site, limit, stale, changes, window, counter, pc, caps, at, todo>>

CapValue == Limits \cup {NoCap}
Windows  == 0..MaxWindow

\* Stages in which the request has been answered at a cost. A bill that failed
\* is first a local variable, "overrun"; it is "flagged" once an audit row says
\* spend_cap_overrun, "denied" when the handler refuses the answer before that,
\* and "logged" where nothing but the log is told.
Executed == {"executed", "billing", "tracking", "billed",
             "overrun", "flagged", "denied", "logged", "lost"}
Stage    == {"new", "checking", "sent", "refused", "free"} \cup Executed

Init ==
    /\ site \in [Requests -> Site]
    /\ limit \in [Periods -> CapValue]
    /\ stale = {}
    /\ changes = 0
    /\ window  = [p \in Periods |-> 0]
    /\ counter = [p \in Periods |-> [w \in Windows |-> 0]]
    /\ pc   = [r \in Requests |-> "new"]
    /\ caps = [r \in Requests |-> limit]
    /\ at   = [r \in Requests |-> window]
    /\ todo = [r \in Requests |-> {}]

-----------------------------------------------------------------------------
\* check_spend_cap, before the request is sent

Loadable == {limit} \cup stale

Capped(c) == {p \in Periods : c[p] # NoCap}

PreflightLoad(r) ==
    /\ pc[r] = "new"
    /\ \E c \in Loadable : caps' = [caps EXCEPT ![r] = c]
    /\ pc' = [pc EXCEPT ![r] = "checking"]
    /\ UNCHANGED <<site, limit, stale, changes, window, counter, at, todo>>

\* The caps cannot be loaded: the request is refused.
PreflightLoadFails(r) ==
    /\ pc[r] = "new"
    /\ pc' = [pc EXCEPT ![r] = "refused"]
    /\ UNCHANGED <<site, limit, stale, changes, window, counter, caps, at, todo>>

Exceeded(r) ==
    \E p \in Capped(caps[r]) : counter[p][window[p]] > caps[r][p]

PreflightCheck(r) ==
    /\ pc[r] = "checking"
    /\ pc' = [pc EXCEPT ![r] = IF Exceeded(r) THEN "refused" ELSE "sent"]
    /\ UNCHANGED <<site, limit, stale, changes, window, counter, caps, at, todo>>

\* Redis cannot be read: fail-closed unless configured otherwise.
PreflightRedisDown(r) ==
    /\ pc[r] = "checking"
    /\ Capped(caps[r]) # {}
    /\ pc' = [pc EXCEPT ![r] = IF FailOpen THEN "sent" ELSE "refused"]
    /\ UNCHANGED <<site, limit, stale, changes, window, counter, caps, at, todo>>

-----------------------------------------------------------------------------
\* The upstream call, and check_and_increment_spend after it

\* An answer with a cost above zero: from the provider, with success and usage,
\* from the response cache, or as the test header says.
Upstream(r) ==
    /\ pc[r] = "sent"
    /\ pc' = [pc EXCEPT ![r] = "executed"]
    /\ UNCHANGED <<site, limit, stale, changes, window, counter, caps, at, todo>>

\* No success status, no usage in the answer or no price for the model, or the
\* request is denied by a later check before it is sent: not billed.
UpstreamFails(r) ==
    /\ pc[r] = "sent"
    /\ pc' = [pc EXCEPT ![r] = "free"]
    /\ UNCHANGED <<site, limit, stale, changes, window, counter, caps, at, todo>>

BillLoad(r) ==
    /\ pc[r] = "executed"
    /\ \E c \in Loadable : caps' = [caps EXCEPT ![r] = c]
    /\ at' = [at EXCEPT ![r] = window]
    /\ pc' = [pc EXCEPT ![r] = "billing"]
    /\ UNCHANGED <<site, limit, stale, changes, window, counter, todo>>

\* An Err of check_and_increment_spend sets the local spend_cap_overrun, or is
\* only logged.
Failed(r) == IF site[r] = "logged" THEN "logged" ELSE "overrun"

BillLoadFails(r) ==
    /\ pc[r] = "executed"
    /\ pc' = [pc EXCEPT ![r] = Failed(r)]
    /\ UNCHANGED <<site, limit, stale, changes, window, counter, caps, at, todo>>

Current(r, p) == counter[p][at[r][p]]

\* Mutant: the script compares what was spent before this request.
Fits_BeforeCost(r) ==
    \A p \in Capped(caps[r]) : Current(r, p) <= caps[r][p]

\* Phases 1 and 2 of the Lua script.
Fits(r) ==
    \A p \in Capped(caps[r]) : Current(r, p) + cost[r] <= caps[r][p]

\* Phase 3 of the Lua script.
AddToCapped(r) ==
    counter' = [p \in Periods |->
        IF p \in Capped(caps[r])
        THEN [counter[p] EXCEPT ![at[r][p]] = @ + cost[r]]
        ELSE counter[p]]

\* Mutant: a refused increment is not reported.
BillRefused_Silent(r) ==
    /\ pc[r] = "billing"
    /\ ~Fits(r)
    /\ pc' = [pc EXCEPT ![r] = "billed"]
    /\ UNCHANGED <<site, limit, stale, changes, window, counter, caps, at, todo>>

\* The script answers DAILY, MONTHLY or LIFETIME: nothing is counted.
BillRefused(r) ==
    /\ pc[r] = "billing"
    /\ ~Fits(r)
    /\ pc' = [pc EXCEPT ![r] = Failed(r)]
    /\ UNCHANGED <<site, limit, stale, changes, window, counter, caps, at, todo>>

\* The script answers OK: all capped counters are incremented in one step.
BillCounted(r) ==
    /\ pc[r] = "billing"
    /\ Fits(r)
    /\ AddToCapped(r)
    /\ todo' = [todo EXCEPT ![r] = Periods \ Capped(caps[r])]
    /\ pc' = [pc EXCEPT ![r] = IF Capped(caps[r]) = Periods THEN "billed"
                                                            ELSE "tracking"]
    /\ UNCHANGED <<site, limit, stale, changes, window, caps, at>>

\* EVAL fails, before or after Redis has run the script.
BillEvalFails(r) ==
    /\ pc[r] = "billing"
    /\ \/ Fits(r) /\ AddToCapped(r)
       \/ UNCHANGED counter
    /\ pc' = [pc EXCEPT ![r] = Failed(r)]
    /\ UNCHANGED <<site, limit, stale, changes, window, caps, at, todo>>

\* INCRBYFLOAT for a period without a cap. Its failure is ignored. The code
\* takes daily, monthly, lifetime in this order; the order is immaterial here.
Track(r, p) ==
    /\ pc[r] = "tracking"
    /\ p \in todo[r]
    /\ \/ counter' = [counter EXCEPT ![p][at[r][p]] = @ + cost[r]]
       \/ UNCHANGED counter
    /\ todo' = [todo EXCEPT ![r] = @ \ {p}]
    /\ pc' = [pc EXCEPT ![r] = IF todo[r] = {p} THEN "billed" ELSE "tracking"]
    /\ UNCHANGED <<site, limit, stale, changes, window, caps, at>>

\* audit.emit with the local in the row.
Emit(r) ==
    /\ pc[r] = "overrun"
    /\ pc' = [pc EXCEPT ![r] = "flagged"]
    /\ UNCHANGED <<site, limit, stale, changes, window, counter, caps, at, todo>>

\* Between the bill and audit.emit a post-flight rule denies the answer, and the
\* handler returns; the local goes with it. (A bill that was counted stays so.)
PostflightDenies(r) ==
    /\ pc[r] = "overrun"
    /\ site[r] = "unary"
    /\ pc' = [pc EXCEPT ![r] = "denied"]
    /\ UNCHANGED <<site, limit, stale, changes, window, counter, caps, at, todo>>

\* The client disconnects and the handler's future is dropped. When the
\* provider was already called, nothing records its cost from there on. The
\* task that bills a streamed answer is not the handler's and runs on.
Drop(r) ==
    /\ \/ pc[r] \in {"checking", "sent"}
       \/ /\ pc[r] \in {"executed", "billing", "tracking", "overrun"}
          /\ site[r] # "streamed"
    /\ pc' = [pc EXCEPT ![r] = IF pc[r] \in {"checking", "sent"} THEN "free"
                                                                 ELSE "lost"]
    /\ UNCHANGED <<site, limit, stale, changes, window, counter, caps, at, todo>>

-----------------------------------------------------------------------------
\* The calendar, administrators and the caps cache

RollWindow(p) ==
    /\ p \in Rolling
    /\ window[p] < MaxWindow
    /\ window' = [window EXCEPT ![p] = @ + 1]
    /\ UNCHANGED <<site, limit, stale, changes, counter, pc, caps, at, todo>>

\* upsert_spend_cap and delete_spend_cap.
SetCap(p, l) ==
    /\ changes < MaxChanges
    /\ limit' = [limit EXCEPT ![p] = l]
    /\ stale' = stale \cup {limit}
    /\ changes' = changes + 1
    /\ UNCHANGED <<site, window, counter, pc, caps, at, todo>>

RequestStep(r) ==
    \/ PreflightLoad(r) \/ PreflightLoadFails(r)
    \/ PreflightCheck(r) \/ PreflightRedisDown(r)
    \/ Upstream(r) \/ UpstreamFails(r)
    \/ BillLoad(r) \/ BillLoadFails(r)
    \/ BillRefused(r) \/ BillCounted(r) \/ BillEvalFails(r)
    \/ \E p \in Periods : Track(r, p)
    \/ Emit(r) \/ PostflightDenies(r) \/ Drop(r)

Next ==
    \/ \E r \in Requests : RequestStep(r)
    \/ \E p \in Periods : RollWindow(p)
    \/ \E p \in Periods, l \in CapValue : SetCap(p, l)

Spec == Init /\ [][Next]_vars

-----------------------------------------------------------------------------
\* Properties

\* The units of the amounts of S, one by one: their number is the sum.
Units(amount, S) == UNION {{x} \X (1..amount[x]) : x \in S}

Total(p) == Cardinality(Units(counter[p], Windows))

CostOf(S) == Cardinality(Units(cost, S))

Answered == {r \in Requests : pc[r] \in Executed}

\* Types of the variables.
TypeOK ==
    /\ site \in [Requests -> Site]
    /\ limit \in [Periods -> CapValue]
    /\ stale \subseteq [Periods -> CapValue]
    /\ changes \in 0..MaxChanges
    /\ window \in [Periods -> Windows]
    /\ counter \in [Periods -> [Windows -> Nat]]
    /\ pc \in [Requests -> Stage]
    /\ caps \in [Requests -> [Periods -> CapValue]]
    /\ at \in [Requests -> [Periods -> Windows]]
    /\ todo \in [Requests -> SUBSET Periods]

\* While the caps are not changed, no counter of a capped period ever passes
\* its cap, however many requests are billed at once and across midnight.
CapHolds ==
    changes = 0 =>
        \A p \in Capped(limit), w \in Windows : counter[p][w] <= limit[p]

\* No period ever counts more than the answers of the token cost.
CountedOnce == \A p \in Periods : Total(p) <= CostOf(Answered)

\* The answers whose cost a capped period may lack: the bill is still in
\* progress or an audit row flags it; or nothing but the log knows of it,
\* because whoever bills only logs a failure, because a post-flight rule denied
\* the answer of a bill that failed, or because the client was gone. The last
\* three do not happen to a streamed answer, which is counted or flagged.
MayLack ==
    {r \in Requests :
        \/ pc[r] \in {"executed", "billing", "overrun", "flagged"}
        \/ site[r] = "logged" /\ pc[r] = "logged"
        \/ site[r] = "unary" /\ pc[r] = "denied"
        \/ site[r] # "streamed" /\ pc[r] = "lost"}

\* Every cost the gateway can compute is counted in each capped period, but for
\* the cases of MayLack.
NothingElseLost ==
    changes = 0 =>
        \A p \in Capped(limit) : CostOf(Answered) <= Total(p) + CostOf(MayLack)

\* The counters of a token and its answers agree: nothing is counted that was
\* not spent, and what was spent is missing only in the cases of MayLack.
SpendAccounted == CountedOnce /\ NothingElseLost

\* README: "When a token hits its cap, subsequent requests are blocked — not
\* logged and allowed through." A check made while the counter of a capped
\* period has reached the cap does not let the request through.
HitCapBlocks ==
    [][\A r \in Requests, p \in Periods :
          (/\ pc[r] = "checking"
           /\ p \in Capped(caps[r])
           /\ counter[p][window[p]] >= caps[r][p])
              => pc'[r] # "sent"]_vars

-----------------------------------------------------------------------------
\* Proofs, for any requests, periods, caps and costs. The counters stay within
\* unchanging caps because every bill compares and adds in one step, with the
\* caps that are in force (CapsInForce), and because what is added without a
\* comparison is added only to periods that have no cap (TodoUncapped). The
\* accounts agree because each period has counted the whole cost of a set of
\* requests, each once, which is bounded on both sides by where the handlers
\* are (LedgerInv); who bills decides how a bill may fail (SitesHold).

CapsInForce == changes = 0 => stale = {} /\ \A r \in Requests : caps[r] = limit

TodoUncapped ==
    changes = 0 => \A r \in Requests : \A p \in todo[r] : limit[p] = NoCap

\* Who bills decides how a bill can end.
SitesHold ==
    \A r \in Requests :
        /\ pc[r] = "logged" => site[r] = "logged"
        /\ pc[r] = "denied" => site[r] = "unary"
        /\ pc[r] = "lost"   => site[r] # "streamed"

\* The inductive invariant.
SpendInv == TypeOK /\ CapsInForce /\ TodoUncapped /\ CapHolds

-----------------------------------------------------------------------------
\* A cap in force is a natural number.
LEMMA CappedNat ==
  ASSUME NEW c \in [Periods -> CapValue], NEW p \in Capped(c)
  PROVE  p \in Periods /\ c[p] \in Nat
BY ConstantsAssumption DEF Capped, CapValue

\* Adding a cost to every capped period, at the windows the request holds,
\* keeps the counters natural numbers and touches nothing else.
LEMMA AddTyped ==
  ASSUME TypeOK, NEW r \in Requests, AddToCapped(r)
  PROVE  /\ counter' \in [Periods -> [Windows -> Nat]]
         /\ \A p \in Periods, w \in Windows :
               counter'[p][w] = IF p \in Capped(caps[r]) /\ w = at[r][p]
                                THEN counter[p][w] + cost[r]
                                ELSE counter[p][w]
<1>1. cost[r] \in Nat
  BY ConstantsAssumption
<1>2. counter \in [Periods -> [Windows -> Nat]] /\ at[r] \in [Periods -> Windows]
  BY DEF TypeOK
<1>3. ASSUME NEW p \in Periods
      PROVE  /\ counter'[p] \in [Windows -> Nat]
             /\ \A w \in Windows :
                   counter'[p][w] = IF p \in Capped(caps[r]) /\ w = at[r][p]
                                    THEN counter[p][w] + cost[r]
                                    ELSE counter[p][w]
  <2>1. CASE p \in Capped(caps[r])
    <3>1. counter'[p] = [counter[p] EXCEPT ![at[r][p]] = @ + cost[r]]
      BY <2>1 DEF AddToCapped
    <3>2. counter[p] \in [Windows -> Nat] /\ at[r][p] \in Windows
      BY <1>2
    <3>3. counter[p][at[r][p]] + cost[r] \in Nat
      BY <1>1, <3>2
    <3>. QED  BY <2>1, <3>1, <3>2, <3>3
  <2>2. CASE p \notin Capped(caps[r])
    <3>1. counter'[p] = counter[p]
      BY <2>2 DEF AddToCapped
    <3>. QED  BY <1>2, <2>2, <3>1
  <2>. QED  BY <2>1, <2>2
<1>4. counter' = [p \in Periods |-> counter'[p]]
  BY DEF AddToCapped
<1>. QED  BY <1>3, <1>4

-----------------------------------------------------------------------------
\* Types.

\* The initial states are typed.
LEMMA InitTyped == Init => TypeOK
<1>. SUFFICES ASSUME Init PROVE TypeOK
  OBVIOUS
<1>1. 0 \in Windows /\ 0 \in 0..MaxChanges
  BY ConstantsAssumption DEF Windows
<1>2. "new" \in Stage
  BY DEF Stage
<1>. QED  BY <1>1, <1>2 DEF Init, TypeOK

\* One step of one request.
LEMMA RequestTyped ==
  ASSUME TypeOK, NEW r \in Requests, RequestStep(r)
  PROVE  TypeOK'
<1>. USE DEF TypeOK
<1>a. cost[r] \in Nat
  BY ConstantsAssumption
<1>b. {"checking", "sent", "refused", "free", "executed", "billing", "tracking",
       "billed", "overrun", "flagged", "denied", "logged", "lost"} \subseteq Stage
  BY DEF Stage, Executed
<1>c. Loadable \subseteq [Periods -> CapValue]
  BY DEF Loadable
<1>1. CASE PreflightLoad(r)
  BY <1>1, <1>b, <1>c DEF PreflightLoad
<1>2. CASE PreflightLoadFails(r)
  BY <1>2, <1>b DEF PreflightLoadFails
<1>3. CASE PreflightCheck(r)
  BY <1>3, <1>b DEF PreflightCheck
<1>4. CASE PreflightRedisDown(r)
  BY <1>4, <1>b DEF PreflightRedisDown
<1>5. CASE Upstream(r)
  BY <1>5, <1>b DEF Upstream
<1>6. CASE UpstreamFails(r)
  BY <1>6, <1>b DEF UpstreamFails
<1>7. CASE BillLoad(r)
  BY <1>7, <1>b, <1>c DEF BillLoad
<1>8. CASE BillLoadFails(r)
  BY <1>8, <1>b DEF BillLoadFails, Failed
<1>9. CASE BillRefused(r)
  BY <1>9, <1>b DEF BillRefused, Failed
<1>10. CASE BillCounted(r)
  <2>1. counter' \in [Periods -> [Windows -> Nat]]
    BY <1>10, AddTyped DEF BillCounted
  <2>2. Periods \ Capped(caps[r]) \in SUBSET Periods
    OBVIOUS
  <2>. QED  BY <1>10, <1>b, <2>1, <2>2 DEF BillCounted
<1>11. CASE BillEvalFails(r)
  <2>1. counter' \in [Periods -> [Windows -> Nat]]
    BY <1>11, AddTyped DEF BillEvalFails
  <2>. QED  BY <1>11, <1>b, <2>1 DEF BillEvalFails, Failed
<1>12. ASSUME NEW p \in Periods, Track(r, p)
       PROVE  TypeOK'
  <2>1. at[r][p] \in Windows /\ counter[p] \in [Windows -> Nat]
    OBVIOUS
  <2>2. counter[p][at[r][p]] + cost[r] \in Nat
    BY <1>a, <2>1
  <2>3. counter' \in [Periods -> [Windows -> Nat]]
    <3>1. CASE UNCHANGED counter
      BY <3>1
    <3>2. CASE counter' = [counter EXCEPT ![p][at[r][p]] = @ + cost[r]]
      <4>1. [counter[p] EXCEPT ![at[r][p]] = @ + cost[r]] \in [Windows -> Nat]
        BY <2>1, <2>2
      <4>2. counter' = [counter EXCEPT
                            ![p] = [counter[p] EXCEPT ![at[r][p]] = @ + cost[r]]]
        BY <3>2
      <4>. QED  BY <4>1, <4>2
    <3>. QED  BY <1>12, <3>1, <3>2 DEF Track
  <2>4. todo' \in [Requests -> SUBSET Periods]
    BY <1>12 DEF Track
  <2>. QED  BY <1>12, <1>b, <2>3, <2>4 DEF Track
<1>13. CASE Drop(r)
  BY <1>13, <1>b DEF Drop
<1>14. CASE Emit(r) \/ PostflightDenies(r)
  BY <1>14, <1>b DEF Emit, PostflightDenies
<1>. QED
  BY <1>1, <1>2, <1>3, <1>4, <1>5, <1>6, <1>7, <1>8, <1>9, <1>10, <1>11,
     <1>12, <1>13, <1>14 DEF RequestStep

\* Every step keeps the types.
LEMMA StepTyped == TypeOK /\ [Next]_vars => TypeOK'
<1>. SUFFICES ASSUME TypeOK, [Next]_vars PROVE TypeOK'
  OBVIOUS
<1>1. ASSUME NEW r \in Requests, RequestStep(r) PROVE TypeOK'
  BY <1>1, RequestTyped
<1>2. ASSUME NEW p \in Periods, RollWindow(p) PROVE TypeOK'
  <2>1. window[p] + 1 \in Windows
    BY <1>2, ConstantsAssumption DEF RollWindow, TypeOK, Windows
  <2>. QED  BY <1>2, <2>1 DEF RollWindow, TypeOK
<1>3. ASSUME NEW p \in Periods, NEW l \in CapValue, SetCap(p, l) PROVE TypeOK'
  <2>1. changes + 1 \in 0..MaxChanges
    BY <1>3, ConstantsAssumption DEF SetCap, TypeOK
  <2>. QED  BY <1>3, <2>1 DEF SetCap, TypeOK
<1>4. CASE UNCHANGED vars
  BY <1>4 DEF vars, TypeOK
<1>. QED  BY <1>1, <1>2, <1>3, <1>4 DEF Next

\* Every variable keeps its type (SpendCap.TypeOK).
THEOREM TypeCorrect == Spec => []TypeOK
BY InitTyped, StepTyped, PTL DEF Spec

-----------------------------------------------------------------------------
\* The caps.

\* No counter is above its cap at first, and nothing is cached.
LEMMA InitInv == Init => SpendInv
<1>. SUFFICES ASSUME Init PROVE SpendInv
  OBVIOUS
<1>1. TypeOK
  BY InitTyped
<1>2. CapsInForce /\ TodoUncapped
  BY DEF Init, CapsInForce, TodoUncapped
<1>3. CapHolds
  <2>1. ASSUME NEW p \in Capped(limit), NEW w \in Windows
        PROVE  counter[p][w] <= limit[p]
    <3>1. p \in Periods /\ limit[p] \in Nat
      BY <1>1, CappedNat DEF TypeOK
    <3>2. counter[p][w] = 0
      BY <3>1 DEF Init
    <3>. QED  BY <3>1, <3>2
  <2>. QED  BY <2>1 DEF CapHolds
<1>. QED  BY <1>1, <1>2, <1>3 DEF SpendInv

\* A bill that fits the caps in force keeps every counter within them.
LEMMA BillFits ==
  ASSUME SpendInv, NEW r \in Requests, Fits(r), AddToCapped(r),
         UNCHANGED <<limit, changes>>
  PROVE  CapHolds'
<1>. SUFFICES ASSUME changes = 0, NEW p \in Capped(limit), NEW w \in Windows
              PROVE  counter'[p][w] <= limit[p]
  BY DEF CapHolds, Capped
<1>1. TypeOK /\ caps[r] = limit /\ counter[p][w] <= limit[p]
  BY DEF SpendInv, CapsInForce, CapHolds
<1>2. p \in Periods /\ limit[p] \in Nat /\ cost[r] \in Nat
  BY <1>1, CappedNat, ConstantsAssumption DEF TypeOK
<1>3. CASE w = at[r][p]
  <2>1. counter[p][w] + cost[r] <= limit[p]
    BY <1>1, <1>3 DEF Fits, Current
  <2>. QED  BY <1>1, <1>2, <1>3, <2>1, AddTyped
<1>4. CASE w # at[r][p]
  BY <1>1, <1>2, <1>4, AddTyped
<1>. QED  BY <1>3, <1>4

\* Counting a period without a cap leaves the capped counters alone.
LEMMA TrackUncapped ==
  ASSUME SpendInv, NEW r \in Requests, NEW p \in Periods, Track(r, p)
  PROVE  CapHolds'
<1>. SUFFICES ASSUME changes = 0, NEW q \in Capped(limit), NEW w \in Windows
              PROVE  counter'[q][w] <= limit[q]
  BY DEF CapHolds, Capped, Track
<1>1. counter[q][w] <= limit[q]
  BY DEF SpendInv, CapHolds
<1>2. q # p
  BY DEF SpendInv, TodoUncapped, Track, Capped
<1>3. counter'[q] = counter[q]
  BY <1>2 DEF Track, SpendInv, TypeOK, Capped
<1>. QED  BY <1>1, <1>3

\* A step of a request keeps the three parts beside the types.
LEMMA RequestInv ==
  ASSUME SpendInv, NEW r \in Requests, RequestStep(r)
  PROVE  CapsInForce' /\ TodoUncapped' /\ CapHolds'
<1>. USE DEF SpendInv
<1>1. UNCHANGED <<limit, stale, changes>>
  BY DEF RequestStep, PreflightLoad, PreflightLoadFails, PreflightCheck,
         PreflightRedisDown, Upstream, UpstreamFails, BillLoad, BillLoadFails,
         BillRefused, BillCounted, BillEvalFails, Track, Drop, Emit,
         PostflightDenies
<1>2. CapsInForce'
  <2>1. CASE PreflightLoad(r) \/ BillLoad(r)
    <3>1. PICK c \in Loadable : caps' = [caps EXCEPT ![r] = c]
      BY <2>1 DEF PreflightLoad, BillLoad
    <3>2. changes = 0 => c = limit
      BY DEF CapsInForce, Loadable
    <3>. QED  BY <1>1, <3>1, <3>2 DEF CapsInForce, TypeOK
  <2>2. CASE UNCHANGED caps
    BY <1>1, <2>2 DEF CapsInForce
  <2>. QED
    BY <2>1, <2>2
    DEF RequestStep, PreflightLoadFails, PreflightCheck, PreflightRedisDown,
        Upstream, UpstreamFails, BillLoadFails, BillRefused, BillCounted,
        BillEvalFails, Track, Drop, Emit,
         PostflightDenies
<1>3. TodoUncapped'
  <2>1. CASE BillCounted(r)
    <3>1. todo' = [todo EXCEPT ![r] = Periods \ Capped(caps[r])]
      BY <2>1 DEF BillCounted
    <3>. QED  BY <1>1, <3>1 DEF TodoUncapped, CapsInForce, TypeOK, Capped
  <2>2. ASSUME NEW p \in Periods, Track(r, p) PROVE TodoUncapped'
    <3>1. todo' = [todo EXCEPT ![r] = @ \ {p}]
      BY <2>2 DEF Track
    <3>. QED  BY <1>1, <3>1 DEF TodoUncapped, TypeOK
  <2>3. CASE UNCHANGED todo
    BY <1>1, <2>3 DEF TodoUncapped
  <2>. QED
    BY <2>1, <2>2, <2>3
    DEF RequestStep, PreflightLoad, PreflightLoadFails, PreflightCheck,
        PreflightRedisDown, Upstream, UpstreamFails, BillLoad, BillLoadFails,
        BillRefused, BillEvalFails, Drop, Emit, PostflightDenies
<1>4. CapHolds'
  <2>1. CASE BillCounted(r)
    BY <1>1, <2>1, BillFits DEF BillCounted
  <2>2. ASSUME BillEvalFails(r), Fits(r), AddToCapped(r) PROVE CapHolds'
    BY <1>1, <2>2, BillFits
  <2>3. ASSUME NEW p \in Periods, Track(r, p) PROVE CapHolds'
    BY <2>3, TrackUncapped
  <2>4. CASE UNCHANGED counter
    BY <1>1, <2>4 DEF CapHolds, Capped
  <2>. QED
    BY <2>1, <2>2, <2>3, <2>4
    DEF RequestStep, PreflightLoad, PreflightLoadFails, PreflightCheck,
        PreflightRedisDown, Upstream, UpstreamFails, BillLoad, BillLoadFails,
        BillRefused, BillEvalFails, Drop, Emit, PostflightDenies
<1>. QED  BY <1>2, <1>3, <1>4

\* SpendInv is inductive.
LEMMA StepInv == SpendInv /\ [Next]_vars => SpendInv'
<1>. SUFFICES ASSUME SpendInv, [Next]_vars PROVE SpendInv'
  OBVIOUS
<1>1. TypeOK'
  BY StepTyped DEF SpendInv
<1>2. ASSUME NEW r \in Requests, RequestStep(r) PROVE SpendInv'
  BY <1>1, <1>2, RequestInv DEF SpendInv
<1>3. ASSUME NEW p \in Periods, RollWindow(p) PROVE SpendInv'
  BY <1>1, <1>3
  DEF RollWindow, SpendInv, CapsInForce, TodoUncapped, CapHolds, Capped
<1>4. ASSUME NEW p \in Periods, NEW l \in CapValue, SetCap(p, l) PROVE SpendInv'
  <2>1. changes' # 0
    BY <1>4 DEF SetCap, SpendInv, TypeOK
  <2>. QED  BY <1>1, <2>1 DEF SpendInv, CapsInForce, TodoUncapped, CapHolds
<1>5. CASE UNCHANGED vars
  BY <1>1, <1>5 DEF vars, SpendInv, CapsInForce, TodoUncapped, CapHolds, Capped
<1>. QED  BY <1>2, <1>3, <1>4, <1>5 DEF Next

\* No counter of a capped period passes its cap while the caps stay as they
\* are (SpendCap.CapHolds), whatever the requests, costs and failures.
THEOREM CapsEnforced == Spec => []CapHolds
<1>1. SpendInv => CapHolds
  BY DEF SpendInv
<1>. QED  BY InitInv, StepInv, <1>1, PTL DEF Spec

-----------------------------------------------------------------------------
\* Sums. A sum of amounts is the number of their units, so that what is known
\* of finite sets is known of sums.

\* A finite number of amounts has a finite number of units.
LEMMA UnitsFinite ==
  ASSUME NEW S, IsFiniteSet(S), NEW f, \A x \in S : f[x] \in Nat
  PROVE  IsFiniteSet(Units(f, S)) /\ Cardinality(Units(f, S)) \in Nat
<1>. DEFINE T == {{x} \X (1..f[x]) : x \in S}
            h == [x \in S |-> {x} \X (1..f[x])]
<1>1. h \in Surjection(S, T)
  BY DEF Surjection
<1>2. IsFiniteSet(T)
  <2>. HIDE DEF h, T
  <2>. QED
    BY <1>1, FS_Surjection
<1>3. ASSUME NEW t \in T PROVE IsFiniteSet(t)
  <2>1. PICK x \in S : t = {x} \X (1..f[x])
    OBVIOUS
  <2>2. 1 \in Int /\ f[x] \in Int
    OBVIOUS
  <2>3. IsFiniteSet({x}) /\ IsFiniteSet(1..f[x])
    BY <2>2, FS_Singleton, FS_Interval
  <2>. QED
    BY <2>1, <2>3, FS_Product
<1>4. IsFiniteSet(UNION T)
  <2>. HIDE DEF T
  <2>. QED
    BY <1>2, <1>3, FS_UNION
<1>. QED
  BY <1>4, FS_CardinalityType DEF Units

\* More of the same amounts are not less.
LEMMA UnitsGrow ==
  ASSUME NEW S, IsFiniteSet(S), NEW f, \A x \in S : f[x] \in Nat,
         NEW R \in SUBSET S
  PROVE  Cardinality(Units(f, R)) <= Cardinality(Units(f, S))
<1>1. Units(f, R) \in SUBSET Units(f, S)
  BY DEF Units
<1>. QED
  BY <1>1, UnitsFinite, FS_Subset

\* A run of units of one amount.
LEMMA RunOfUnits ==
  ASSUME NEW x, NEW a \in Int, NEW b \in Int, a <= b + 1
  PROVE  /\ IsFiniteSet({x} \X (a .. b))
         /\ Cardinality({x} \X (a .. b)) = b - a + 1
<1>1. IsFiniteSet({x}) /\ Cardinality({x}) = 1
  BY FS_Singleton
<1>2. IsFiniteSet(a .. b) /\ Cardinality(a .. b) = b - a + 1
  BY FS_Interval
<1>3. /\ IsFiniteSet({x} \X (a .. b))
      /\ Cardinality({x} \X (a .. b)) = Cardinality({x}) * Cardinality(a .. b)
  BY <1>1, <1>2, FS_Product
<1>4. \A k \in Int : 1 * k = k
  OBVIOUS
<1>. QED
  BY <1>1, <1>2, <1>3, <1>4

\* Two disjoint sets together have the elements of each.
LEMMA DisjointSum ==
  ASSUME NEW A, IsFiniteSet(A), NEW B, IsFiniteSet(B), A \cap B = {}
  PROVE  Cardinality(A \cup B) = Cardinality(A) + Cardinality(B)
<1>1. Cardinality(A \cup B) = Cardinality(A) + Cardinality(B) - Cardinality(A \cap B)
  BY FS_Union
<1>2. Cardinality(A \cap B) = 0
  BY FS_EmptySet
<1>3. Cardinality(A) \in Nat /\ Cardinality(B) \in Nat
  BY FS_CardinalityType
<1>. QED
  BY <1>1, <1>2, <1>3

\* An amount that grows by n adds n to the sum.
LEMMA UnitsAdd ==
  ASSUME NEW S, IsFiniteSet(S), NEW f, \A y \in S : f[y] \in Nat,
         NEW x \in S, NEW n \in Nat,
         NEW g, g[x] = f[x] + n, \A y \in S : y # x => g[y] = f[y]
  PROVE  Cardinality(Units(g, S)) = Cardinality(Units(f, S)) + n
<1>. DEFINE run == {x} \X (f[x] + 1 .. f[x] + n)
<1>1. Units(g, S) = Units(f, S) \cup run
  <2>1. 1..g[x] = (1..f[x]) \cup (f[x] + 1 .. f[x] + n)
    OBVIOUS
  <2>2. {x} \X (1..g[x]) = ({x} \X (1..f[x])) \cup run
    BY <2>1
  <2>3. \A y \in S : y # x => {y} \X (1..g[y]) = {y} \X (1..f[y])
    OBVIOUS
  <2>4. ASSUME NEW e PROVE e \in Units(g, S) <=> e \in Units(f, S) \cup run
    <3>1. e \in Units(g, S) <=> \E y \in S : e \in {y} \X (1..g[y])
      BY DEF Units
    <3>2. e \in Units(f, S) <=> \E y \in S : e \in {y} \X (1..f[y])
      BY DEF Units
    <3>. HIDE DEF run
    <3>. QED
      BY <2>2, <2>3, <3>1, <3>2
  <2>. QED
    BY <2>4
<1>2. Units(f, S) \cap run = {}
  <2>1. ASSUME NEW e \in run, e \in Units(f, S) PROVE FALSE
    <3>1. PICK y \in S : e \in {y} \X (1..f[y])
      BY <2>1 DEF Units
    <3>2. y = x /\ e[2] \in f[x] + 1 .. f[x] + n /\ e[2] \in 1..f[y]
      BY <2>1, <3>1
    <3>. QED
      BY <3>1, <3>2
  <2>. QED
    BY <2>1
<1>3. IsFiniteSet(run) /\ Cardinality(run) = n
  <2>. DEFINE a == f[x] + 1
              b == f[x] + n
  <2>1. a \in Int /\ b \in Int /\ a <= b + 1 /\ b - a + 1 = n
    OBVIOUS
  <2>. HIDE DEF a, b
  <2>2. IsFiniteSet({x} \X (a .. b)) /\ Cardinality({x} \X (a .. b)) = b - a + 1
    BY <2>1, RunOfUnits
  <2>. QED
    BY <2>1, <2>2 DEF a, b
<1>4. IsFiniteSet(Units(f, S)) /\ Cardinality(Units(f, S)) \in Nat
  BY UnitsFinite
<1>. HIDE DEF run
<1>. QED
  BY <1>1, <1>2, <1>3, <1>4, DisjointSum

\* Amounts of two disjoint sets.
LEMMA UnitsSplit ==
  ASSUME NEW S, IsFiniteSet(S), NEW T, IsFiniteSet(T), S \cap T = {},
         NEW f, \A x \in S \cup T : f[x] \in Nat
  PROVE  Cardinality(Units(f, S \cup T))
            = Cardinality(Units(f, S)) + Cardinality(Units(f, T))
<1>1. Units(f, S \cup T) = Units(f, S) \cup Units(f, T)
  BY DEF Units
<1>2. Units(f, S) \cap Units(f, T) = {}
  BY DEF Units
<1>3. /\ IsFiniteSet(Units(f, S)) /\ Cardinality(Units(f, S)) \in Nat
      /\ IsFiniteSet(Units(f, T)) /\ Cardinality(Units(f, T)) \in Nat
  BY UnitsFinite
<1>. QED
  BY <1>1, <1>2, <1>3, DisjointSum

\* One more amount.
LEMMA UnitsOne ==
  ASSUME NEW S, IsFiniteSet(S), NEW x, x \notin S,
         NEW f, \A y \in S \cup {x} : f[y] \in Nat
  PROVE  Cardinality(Units(f, S \cup {x})) = Cardinality(Units(f, S)) + f[x]
<1>1. IsFiniteSet({x})
  BY FS_Singleton
<1>2. Cardinality(Units(f, S \cup {x}))
         = Cardinality(Units(f, S)) + Cardinality(Units(f, {x}))
  BY <1>1, UnitsSplit
<1>3. Units(f, {x}) = {x} \X (1 .. f[x])
  BY DEF Units
<1>4. Cardinality({x} \X (1 .. f[x])) = f[x]
  <2>1. 1 \in Int /\ f[x] \in Int /\ 1 <= f[x] + 1
    OBVIOUS
  <2>2. Cardinality({x} \X (1 .. f[x])) = f[x] - 1 + 1
    BY <2>1, RunOfUnits
  <2>. QED
    BY <2>2
<1>. QED
  BY <1>2, <1>3, <1>4

-----------------------------------------------------------------------------
\* The accounts.

\* Stages in which a period may hold the cost.
Settled == {"tracking", "billed", "overrun", "flagged", "denied", "logged", "lost"}

\* S are the requests whose cost the period has counted: all of its billed
\* ones if it has a cap, and perhaps some whose handler does not know.
Counts(p, S) ==
    /\ Total(p) = Cardinality(Units(cost, S))
    /\ \A r \in S : /\ pc[r] \in Settled
                    /\ pc[r] = "tracking" => p \notin todo[r]
    /\ \A r \in Requests :
          pc[r] \in {"tracking", "billed"} /\ p \in Capped(caps[r]) => r \in S

LedgerInv == \A p \in Periods : \E S \in SUBSET Requests : Counts(p, S)

\* The requests and the windows of the model are finitely many, and costs are
\* natural numbers.
LEMMA Finitely ==
  /\ IsFiniteSet(Windows)
  /\ \A S \in SUBSET Requests :
        /\ IsFiniteSet(S) /\ \A r \in S : cost[r] \in Nat
        /\ Cardinality(Units(cost, S)) \in Nat
<1>1. IsFiniteSet(Windows)
  BY ConstantsAssumption, FS_Interval DEF Windows
<1>2. ASSUME NEW S \in SUBSET Requests
      PROVE  IsFiniteSet(S) /\ \A r \in S : cost[r] \in Nat
  BY ConstantsAssumption, FS_Subset
<1>. QED
  BY <1>1, <1>2, UnitsFinite

\* The cost of one more request.
LEMMA CostOne ==
  ASSUME NEW S \in SUBSET Requests, NEW r \in Requests, r \notin S
  PROVE  Cardinality(Units(cost, S \cup {r})) = Cardinality(Units(cost, S)) + cost[r]
<1>1. IsFiniteSet(S)
  BY Finitely
<1>2. \A q \in S \cup {r} : cost[q] \in Nat
  BY ConstantsAssumption
<1>. QED
  BY <1>1, <1>2, UnitsOne

\* What one request adds to a period's counter becomes a part of its total.
LEMMA TotalGrows ==
  ASSUME TypeOK, NEW p \in Periods, NEW r \in Requests,
         \A w \in Windows :
            counter'[p][w] = IF w = at[r][p] THEN counter[p][w] + cost[r]
                                             ELSE counter[p][w]
  PROVE  Total(p)' = Total(p) + cost[r]
<1>1. at[r][p] \in Windows /\ \A w \in Windows : counter[p][w] \in Nat
  BY DEF TypeOK
<1>2. cost[r] \in Nat
  BY ConstantsAssumption
<1>3. Cardinality(Units(counter'[p], Windows))
         = Cardinality(Units(counter[p], Windows)) + cost[r]
  BY <1>1, <1>2, Finitely, UnitsAdd
<1>. QED
  BY <1>3 DEF Total

\* A step that leaves a period's counter alone, and r's place in its account.
LEMMA LedgerFrame ==
  ASSUME NEW p \in Periods, NEW S \in SUBSET Requests, Counts(p, S),
         NEW r \in Requests, counter'[p] = counter[p],
         \A q \in Requests : q # r =>
            pc'[q] = pc[q] /\ todo'[q] = todo[q] /\ caps'[q] = caps[q],
         r \in S => /\ pc'[r] \in Settled
                    /\ pc'[r] = "tracking" => p \notin todo'[r],
         pc'[r] \in {"tracking", "billed"} /\ p \in Capped(caps'[r]) => r \in S
  PROVE  Counts(p, S)'
<1>1. Total(p)' = Total(p)
  BY DEF Total
<1>. QED
  BY <1>1 DEF Counts

\* A step that counts r in a period that has not counted it.
LEMMA LedgerAdds ==
  ASSUME TypeOK,
         NEW p \in Periods, NEW S \in SUBSET Requests, Counts(p, S),
         NEW r \in Requests, r \notin S,
         \A w \in Windows :
            counter'[p][w] = IF w = at[r][p] THEN counter[p][w] + cost[r]
                                             ELSE counter[p][w],
         \A q \in Requests : q # r =>
            pc'[q] = pc[q] /\ todo'[q] = todo[q] /\ caps'[q] = caps[q],
         pc'[r] \in Settled,
         pc'[r] = "tracking" => p \notin todo'[r]
  PROVE  Counts(p, S \cup {r})'
<1>1. Total(p)' = Total(p) + cost[r]
  BY TotalGrows
<1>2. Cardinality(Units(cost, S \cup {r})) = Cardinality(Units(cost, S)) + cost[r]
  BY CostOne
<1>. QED
  BY <1>1, <1>2 DEF Counts

\* Every step of a request keeps the account of every period.
LEMMA RequestLedger ==
  ASSUME TypeOK, LedgerInv, NEW r \in Requests, RequestStep(r), NEW p \in Periods
  PROVE  \E S \in SUBSET Requests : Counts(p, S)'
<1>1. PICK S \in SUBSET Requests : Counts(p, S)
  BY DEF LedgerInv
<1>2. \A q \in Requests : q # r =>
         pc'[q] = pc[q] /\ todo'[q] = todo[q] /\ caps'[q] = caps[q]
  BY DEF TypeOK, RequestStep, PreflightLoad, PreflightLoadFails, PreflightCheck,
         PreflightRedisDown, Upstream, UpstreamFails, BillLoad, BillLoadFails,
         BillRefused, BillCounted, BillEvalFails, Track, Drop, Emit,
         PostflightDenies
<1>3. ASSUME AddToCapped(r), pc[r] = "billing",
             pc'[r] \in Settled, caps' = caps,
             pc'[r] = "tracking" /\ p \in Capped(caps[r]) => p \notin todo'[r]
      PROVE  \E U \in SUBSET Requests : Counts(p, U)'
  <2>1. r \notin S
    BY <1>1, <1>3 DEF Counts, Settled
  <2>2. CASE p \in Capped(caps[r])
    <3>1. \A w \in Windows :
             counter'[p][w] = IF w = at[r][p] THEN counter[p][w] + cost[r]
                                              ELSE counter[p][w]
      BY <1>3, <2>2, AddTyped
    <3>2. Counts(p, S \cup {r})'
      BY <1>1, <1>2, <1>3, <2>1, <2>2, <3>1, LedgerAdds
    <3>. QED
      BY <3>2
  <2>3. CASE p \notin Capped(caps[r])
    <3>1. counter'[p] = counter[p]
      BY <1>3, <2>3 DEF AddToCapped
    <3>2. Counts(p, S)'
      BY <1>1, <1>2, <1>3, <2>1, <2>3, <3>1, LedgerFrame
    <3>. QED
      BY <3>2
  <2>. QED
    BY <2>2, <2>3
<1>4. CASE BillCounted(r)
  <2>1. /\ pc[r] = "billing" /\ AddToCapped(r) /\ caps' = caps
        /\ pc'[r] \in {"tracking", "billed"} /\ todo'[r] = Periods \ Capped(caps[r])
    BY <1>4 DEF BillCounted, TypeOK
  <2>2. pc'[r] \in Settled
    BY <2>1 DEF Settled
  <2>. QED
    BY <1>3, <2>1, <2>2
<1>5. CASE BillEvalFails(r) /\ AddToCapped(r)
  <2>1. /\ pc[r] = "billing" /\ caps' = caps
        /\ pc'[r] \in Settled /\ pc'[r] # "tracking"
    BY <1>5 DEF BillEvalFails, Failed, Settled, TypeOK
  <2>. QED
    BY <1>3, <1>5, <2>1
<1>6. ASSUME NEW q \in Periods, Track(r, q), counter' # counter
      PROVE  \E U \in SUBSET Requests : Counts(p, U)'
  <2>1. /\ counter' = [counter EXCEPT ![q] =
                          [counter[q] EXCEPT ![at[r][q]] = counter[q][at[r][q]] + cost[r]]]
        /\ pc[r] = "tracking" /\ q \in todo[r] /\ caps' = caps
        /\ pc'[r] \in {"tracking", "billed"} /\ todo'[r] = todo[r] \ {q}
        /\ pc'[r] \in Settled
    BY <1>6 DEF Track, Settled, TypeOK
  <2>2. CASE p = q
    <3>1. r \notin S
      BY <1>1, <2>1, <2>2 DEF Counts
    <3>2. /\ counter'[p] = [counter[p] EXCEPT ![at[r][p]] = counter[p][at[r][p]] + cost[r]]
          /\ counter[p] \in [Windows -> Nat]
      BY <2>1, <2>2 DEF TypeOK
    <3>3. \A w \in Windows :
             counter'[p][w] = IF w = at[r][p] THEN counter[p][w] + cost[r]
                                              ELSE counter[p][w]
      BY <3>2
    <3>4. Counts(p, S \cup {r})'
      BY <1>1, <1>2, <2>1, <2>2, <3>1, <3>3, LedgerAdds
    <3>. QED
      BY <3>4
  <2>3. CASE p # q
    <3>1. counter'[p] = counter[p]
      BY <2>1, <2>3 DEF TypeOK
    <3>2. /\ r \in S => p \notin todo[r]
          /\ p \in Capped(caps[r]) => r \in S
      BY <1>1, <2>1 DEF Counts
    <3>3. Counts(p, S)'
      BY <1>1, <1>2, <2>1, <3>1, <3>2, LedgerFrame
    <3>. QED
      BY <3>3
  <2>. QED
    BY <2>2, <2>3
<1>7. ASSUME counter' = counter PROVE \E U \in SUBSET Requests : Counts(p, U)'
  <2>1. /\ r \in S => /\ pc[r] \in Settled
                      /\ pc[r] = "tracking" => p \notin todo[r]
        /\ pc[r] \in {"tracking", "billed"} /\ p \in Capped(caps[r]) => r \in S
    BY <1>1 DEF Counts
  <2>2. CASE BillCounted(r)
    BY <1>4, <2>2
  <2>3. ASSUME NEW q \in Periods, Track(r, q) PROVE Counts(p, S)'
    <3>1. /\ pc[r] = "tracking" /\ caps' = caps
          /\ pc'[r] \in {"tracking", "billed"} /\ todo'[r] = todo[r] \ {q}
          /\ pc'[r] \in Settled
      BY <2>3 DEF Track, Settled, TypeOK
    <3>. QED
      BY <1>1, <1>2, <1>7, <2>1, <3>1, LedgerFrame
  <2>4. CASE Drop(r)
    <3>1. /\ caps' = caps /\ todo' = todo
          /\ pc'[r] = IF pc[r] \in {"checking", "sent"} THEN "free" ELSE "lost"
      BY <2>4 DEF Drop, TypeOK
    <3>2. pc'[r] \notin {"tracking", "billed"} /\ (r \in S => pc'[r] \in Settled)
      BY <2>1, <3>1 DEF Settled
    <3>3. Counts(p, S)'
      BY <1>1, <1>2, <1>7, <2>1, <3>1, <3>2, LedgerFrame
    <3>. QED
      BY <3>3
  <2>5. CASE \/ PreflightLoad(r) \/ PreflightLoadFails(r) \/ PreflightCheck(r)
             \/ PreflightRedisDown(r) \/ Upstream(r) \/ UpstreamFails(r)
             \/ BillLoad(r) \/ BillLoadFails(r) \/ BillRefused(r) \/ BillEvalFails(r)
    <3>1. /\ pc[r] \in {"new", "checking", "sent", "executed", "billing"}
          /\ pc'[r] \notin {"tracking", "billed"}
      BY <2>5
      DEF TypeOK, PreflightLoad, PreflightLoadFails, PreflightCheck, PreflightRedisDown,
          Upstream, UpstreamFails, BillLoad, BillLoadFails, BillRefused, BillEvalFails,
          Failed
    <3>2. r \notin S
      BY <2>1, <3>1 DEF Settled
    <3>3. Counts(p, S)'
      BY <1>1, <1>2, <1>7, <3>1, <3>2, LedgerFrame
    <3>. QED
      BY <3>3
  <2>6. CASE Emit(r) \/ PostflightDenies(r)
    <3>1. /\ pc'[r] \in {"flagged", "denied"}
          /\ caps' = caps /\ todo' = todo
      BY <2>6 DEF Emit, PostflightDenies, TypeOK
    <3>2. pc'[r] \in Settled /\ pc'[r] \notin {"tracking", "billed"}
      BY <3>1 DEF Settled
    <3>. QED
      BY <1>1, <1>2, <1>7, <3>1, <3>2, LedgerFrame
  <2>. QED
    BY <2>2, <2>3, <2>4, <2>5, <2>6 DEF RequestStep
<1>. QED
  BY <1>4, <1>5, <1>6, <1>7
  DEF RequestStep, PreflightLoad, PreflightLoadFails, PreflightCheck,
      PreflightRedisDown, Upstream, UpstreamFails, BillLoad, BillLoadFails,
      BillRefused, BillEvalFails, Drop, Emit, PostflightDenies

\* Nothing is counted at first.
LEMMA InitLedger == Init => LedgerInv
<1>. SUFFICES ASSUME Init, NEW p \in Periods PROVE Counts(p, {})
  BY DEF LedgerInv
<1>1. Units(counter[p], Windows) = {} /\ Units(cost, {}) = {}
  BY DEF Init, Units
<1>. QED
  BY <1>1 DEF Init, Counts, Total

\* LedgerInv is inductive, given the types.
LEMMA LedgerStep == TypeOK /\ LedgerInv /\ [Next]_vars => LedgerInv'
<1>. SUFFICES ASSUME TypeOK, LedgerInv, [Next]_vars PROVE LedgerInv'
  OBVIOUS
<1>1. ASSUME NEW r \in Requests, RequestStep(r) PROVE LedgerInv'
  BY <1>1, RequestLedger DEF LedgerInv
<1>2. CASE \/ \E p \in Periods : RollWindow(p)
           \/ \E p \in Periods, l \in CapValue : SetCap(p, l)
           \/ UNCHANGED vars
  <2>1. UNCHANGED <<counter, pc, caps, todo>>
    BY <1>2 DEF RollWindow, SetCap, vars
  <2>. QED
    BY <2>1 DEF LedgerInv, Counts, Total
<1>. QED
  BY <1>1, <1>2 DEF Next

\* Only a call that just logs ends as logged, only an answer to be returned is
\* denied, and a spawned task does not end with its client.
LEMMA SitesStep == TypeOK /\ SitesHold /\ [Next]_vars => SitesHold'
<1>. SUFFICES ASSUME TypeOK, SitesHold, [Next]_vars PROVE SitesHold'
  OBVIOUS
<1>1. ASSUME NEW r \in Requests, RequestStep(r) PROVE SitesHold'
  <2>1. /\ site' = site
        /\ \/ pc'[r] \notin {"logged", "denied", "lost"}
           \/ pc'[r] = "logged" /\ site[r] = "logged"
           \/ pc'[r] = "denied" /\ site[r] = "unary"
           \/ pc'[r] = "lost" /\ site[r] # "streamed"
    BY <1>1
    DEF TypeOK, RequestStep, PreflightLoad, PreflightLoadFails, PreflightCheck,
        PreflightRedisDown, Upstream, UpstreamFails, BillLoad, BillLoadFails,
        BillRefused, BillCounted, BillEvalFails, Track, Drop, Emit,
        PostflightDenies, Failed
  <2>2. \A q \in Requests : q # r => pc'[q] = pc[q]
    BY <1>1
    DEF TypeOK, RequestStep, PreflightLoad, PreflightLoadFails, PreflightCheck,
        PreflightRedisDown, Upstream, UpstreamFails, BillLoad, BillLoadFails,
        BillRefused, BillCounted, BillEvalFails, Track, Drop, Emit,
        PostflightDenies
  <2>. QED
    BY <2>1, <2>2 DEF SitesHold
<1>2. CASE UNCHANGED <<site, pc>>
  BY <1>2 DEF SitesHold
<1>. QED
  BY <1>1, <1>2 DEF Next, RollWindow, SetCap, vars

\* The counters of a token and its answers agree (SpendCap.SpendAccounted):
\* nothing is counted that was not spent, in any period; and in a capped one
\* nothing that was spent is missing but in the cases of MayLack: a bill in
\* progress or flagged, a call that only logs, an answer denied after its bill
\* had failed, a client that left.
THEOREM AccountsAgree == Spec => []SpendAccounted
<1>1. SpendInv /\ LedgerInv /\ SitesHold => SpendAccounted
  <2>. SUFFICES ASSUME SpendInv, LedgerInv, SitesHold PROVE SpendAccounted
    OBVIOUS
  <2>. DEFINE In(stages) == {r \in Requests : pc[r] \in stages}
              counted    == In({"tracking", "billed"})
  <2>1. ASSUME NEW p \in Periods PROVE Total(p) <= CostOf(Answered)
    <3>1. PICK S \in SUBSET Requests : Counts(p, S)
      BY DEF LedgerInv
    <3>2. S \in SUBSET Answered /\ Answered \in SUBSET Requests
      BY <3>1 DEF Counts, Settled, Answered, Executed
    <3>3. Cardinality(Units(cost, S)) <= Cardinality(Units(cost, Answered))
      BY <3>2, Finitely, UnitsGrow
    <3>. QED
      BY <3>1, <3>3 DEF Counts, CostOf
  <2>2. ASSUME changes = 0, NEW p \in Capped(limit)
        PROVE  CostOf(Answered) <= Total(p) + CostOf(MayLack)
    <3>1. p \in Periods /\ \A r \in Requests : caps[r] = limit
      BY <2>2 DEF Capped, SpendInv, CapsInForce
    <3>2. PICK S \in SUBSET Requests : Counts(p, S)
      BY <3>1 DEF LedgerInv
    <3>3. counted \in SUBSET S
      BY <3>1, <3>2 DEF Counts
    <3>4. Answered = counted \cup MayLack /\ counted \cap MayLack = {}
      BY DEF Answered, Executed, MayLack, SitesHold, SpendInv, TypeOK
    <3>5. counted \in SUBSET Requests /\ MayLack \in SUBSET Requests
      BY DEF MayLack
    <3>. HIDE DEF In, counted
    <3>6. Cardinality(Units(cost, Answered))
             = Cardinality(Units(cost, counted)) + Cardinality(Units(cost, MayLack))
      BY <3>4, <3>5, Finitely, UnitsSplit
    <3>7. Cardinality(Units(cost, counted)) <= Cardinality(Units(cost, S))
      BY <3>2, <3>3, Finitely, UnitsGrow
    <3>8. Total(p) = Cardinality(Units(cost, S))
      BY <3>2 DEF Counts
    <3>9. /\ Cardinality(Units(cost, counted)) \in Nat
          /\ Cardinality(Units(cost, S)) \in Nat
          /\ Cardinality(Units(cost, MayLack)) \in Nat
      BY <3>2, <3>5, Finitely
    <3>. QED
      BY <3>6, <3>7, <3>8, <3>9 DEF CostOf
  <2>. QED
    BY <2>1, <2>2 DEF SpendAccounted, CountedOnce, NothingElseLost
<1>2. Init => SitesHold
  BY DEF Init, SitesHold
<1>. QED
  BY <1>1, <1>2, InitInv, StepInv, InitLedger, LedgerStep, SitesStep, PTL
  DEF Spec, SpendInv

=============================================================================
