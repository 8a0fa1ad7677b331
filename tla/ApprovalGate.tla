---------------------------- MODULE ApprovalGate ----------------------------
(***************************************************************************)
(* What the human-in-the-loop gate promises, without Redis, timeouts or    *)
(* fallbacks: every approval is settled at most once, and a request is     *)
(* admitted only on its own approval, after the reviewers granted it and   *)
(* while its token is live. HitlApproval implements this specification.    *)
(***************************************************************************)
CONSTANTS Requests, Tokens, None, tokenOf

VARIABLES
    row,     \* the status of each approval, "none" before it is filed
    ticket,  \* the approval a request waits for
    verdict, \* "open", "granted" (approval seen), "admitted" or "refused"
    active   \* live tokens

gateVars == <<row, ticket, verdict, active>>

GateInit ==
    /\ row     = [q \in Requests |-> "none"]
    /\ ticket  = [r \in Requests |-> None]
    /\ verdict = [r \in Requests |-> "open"]
    /\ active  = [t \in Tokens |-> TRUE]

\* The request files its own approval, or joins one of its token.
File(r) ==
    /\ ticket[r] = None /\ verdict[r] = "open"
    /\ \/ /\ row[r] = "none"
          /\ row'    = [row EXCEPT ![r] = "pending"]
          /\ ticket' = [ticket EXCEPT ![r] = r]
       \/ \E q \in Requests :
             /\ row[q] # "none" /\ tokenOf[q] = tokenOf[r]
             /\ ticket' = [ticket EXCEPT ![r] = q]
             /\ UNCHANGED row
    /\ UNCHANGED <<verdict, active>>

Settle(q) ==
    /\ row[q] = "pending"
    /\ \E s \in {"approved", "rejected"} : row' = [row EXCEPT ![q] = s]
    /\ UNCHANGED <<ticket, verdict, active>>

\* Any number of approvals nobody settled expire together.
Expire ==
    /\ \E S \in SUBSET {q \in Requests : row[q] = "pending"} :
          row' = [q \in Requests |-> IF q \in S THEN "expired" ELSE row[q]]
    /\ UNCHANGED <<ticket, verdict, active>>

Grant(r) ==
    /\ verdict[r] = "open" /\ ticket[r] # None
    /\ row[ticket[r]] = "approved"
    /\ verdict' = [verdict EXCEPT ![r] = "granted"]
    /\ UNCHANGED <<row, ticket, active>>

Admit(r) ==
    /\ verdict[r] = "granted"
    /\ active[tokenOf[r]]
    /\ verdict' = [verdict EXCEPT ![r] = "admitted"]
    /\ UNCHANGED <<row, ticket, active>>

Refuse(r) ==
    /\ verdict[r] \in {"open", "granted"}
    /\ verdict' = [verdict EXCEPT ![r] = "refused"]
    /\ UNCHANGED <<row, ticket, active>>

Revoke(t) ==
    /\ active' = [active EXCEPT ![t] = FALSE]
    /\ UNCHANGED <<row, ticket, verdict>>

GateNext ==
    \/ \E r \in Requests : File(r) \/ Settle(r) \/ Grant(r) \/ Admit(r) \/ Refuse(r)
    \/ Expire
    \/ \E t \in Tokens : Revoke(t)

GateSpec == GateInit /\ [][GateNext]_gateVars

=============================================================================
