------------------------------ MODULE ApiKeys -------------------------------
(***************************************************************************)
(* The API keys of one organization (store/postgres/api_keys.rs), created  *)
(* and revoked through the management API (api/handlers/auth.rs) by its    *)
(* own keys or an administrator who logs in with a JWT (admin_auth,        *)
(* api/mod.rs). A request is authorized by the role its key had when it    *)
(* began. A revocation counts the admin keys in one statement and writes   *)
(* in another.                                                             *)
(***************************************************************************)
EXTENDS Naturals, FiniteSets

CONSTANTS
    Keys,
    Requests,
    kind, \* "create" or "revoke", for each request
    Jwt   \* a login of an administrator without a key

\* What the constants must be.
ConstantsAssumption ==
    /\ IsFiniteSet(Keys) /\ Jwt \notin Keys
    /\ kind \in [Requests -> {"create", "revoke"}]

Roles == {"admin", "member"}

Jobs == [by : Keys \cup {Jwt}, key : Keys]

VARIABLES
    row,     \* "none", "active" or "revoked" for each key
    role,    \* of each key
    job,     \* the key that each request is sent with and the key it is about
    pc,
    counted  \* the admin keys that a revocation has counted

vars == <<row, role, job, pc, counted>>

\* role = 'admin' AND is_active = true.
AdminKeys == {k \in Keys : row[k] = "active" /\ role[k] = "admin"}

Init ==
    /\ row \in [Keys -> {"none", "active"}]
    /\ role \in [Keys -> Roles]
    /\ job \in [Requests -> Jobs]
    /\ pc = [q \in Requests |-> "start"]
    /\ counted = [q \in Requests |-> 0]

Go(q, stage) == pc' = [pc EXCEPT ![q] = stage]

\* admin_auth and require_role: the key is active and an admin's.
Authorized(q) == job[q].by = Jwt \/ job[q].by \in AdminKeys

Authorize(q) ==
    /\ pc[q] = "start"
    /\ Go(q, IF Authorized(q) THEN kind[q] ELSE "refused")
    /\ UNCHANGED <<row, role, job, counted>>

CreateKey(q) ==
    /\ pc[q] = "create"
    /\ row[job[q].key] = "none"
    /\ row' = [row EXCEPT ![job[q].key] = "active"]
    /\ \E r \in Roles : role' = [role EXCEPT ![job[q].key] = r]
    /\ Go(q, "done")
    /\ UNCHANGED <<job, counted>>

\* Mutant: an off-by-one in the comparison with the count.
Last_OffByOne(k) == k \in AdminKeys /\ Cardinality(AdminKeys) < 1

Last(k) == k \in AdminKeys /\ Cardinality(AdminKeys) <= 1

\* The first statement of revoke_api_key_atomic, and the checks of its result.
CountAdmins(q) ==
    /\ pc[q] = "revoke"
    /\ counted' = [counted EXCEPT ![q] = Cardinality(AdminKeys)]
    /\ Go(q, IF row[job[q].key] = "none" \/ Last(job[q].key) THEN "refused" ELSE "writing")
    /\ UNCHANGED <<row, role, job>>

\* Its UPDATE.
RevokeKey(q) ==
    /\ pc[q] = "writing"
    /\ row' = [row EXCEPT ![job[q].key] = "revoked"]
    /\ Go(q, "done")
    /\ UNCHANGED <<role, job, counted>>

\* A statement fails, or the client goes.
Fail(q) ==
    /\ pc[q] \in {"create", "revoke", "writing"}
    /\ Go(q, "failed")
    /\ UNCHANGED <<row, role, job, counted>>

Next ==
    \E q \in Requests :
        Authorize(q) \/ CreateKey(q) \/ CountAdmins(q) \/ RevokeKey(q) \/ Fail(q)

Spec == Init /\ [][Next]_vars

-----------------------------------------------------------------------------
\* Properties

\* The last admin key of an organization is revoked only by a revocation that
\* has counted others, which another one has revoked since.
LastAdminOnlyByRace ==
    [][AdminKeys # {} /\ AdminKeys' = {} =>
          \E q, p \in Requests :
              /\ pc[q] = "writing" /\ pc'[q] = "done"
              /\ counted[q] > Cardinality(AdminKeys)
              /\ p # q /\ pc[p] = "done" /\ kind[p] = "revoke"]_vars

\* api_keys.rs: "Atomically revoke an API key while preventing last-admin
\* revocation. This fixes a TOCTOU race condition".
LastAdminStays == [][AdminKeys # {} => AdminKeys' # {}]_vars

=============================================================================
