----------------------------- MODULE SecretStores -----------------------------
(***************************************************************************)
(* How the secret of one credential is fetched (vault/): from the row, by  *)
(* envelope decryption, or from a store of the customer's that the row     *)
(* refers to. A store of HashiCorp or Azure keeps an access token that all *)
(* its calls share: a call that finds it close to its end logs in for      *)
(* itself, with no lock across the login, and the last reply is kept.      *)
(* Each network step has a timeout.                                        *)
(***************************************************************************)
EXTENDS Naturals

CONSTANTS
    Calls,
    Rows,      \* credentials: vault_backend, external_vault_ref
    Contents,  \* what the customer's store holds
    Lease,     \* lifetime of a token
    Margin,    \* TOKEN_REFRESH_BUFFER_SECS
    Delay,     \* VAULT_TIMEOUT_SECS
    MaxClock,  \* bound
    None

\* What the constants must be.
ConstantsAssumption ==
    /\ {Lease, Margin, Delay, MaxClock} \subseteq Nat
    /\ 2 * Delay <= Margin

VARIABLES
    clock,
    row, active, content,
    cache,   \* its token, with the end the gateway believes in, or None
    job,     \* "retrieve", "retrieve_credential" or "health"
    pc,
    store,   \* the store that each call has been routed to
    token,   \* the token a call has sent or been given: when it really ends
    due,     \* when its network step times out
    got      \* the plaintext it returns

call == <<store, token, due, got>>
vars == <<clock, row, active, content, cache, job, pc, call>>

Init ==
    /\ clock = 0
    /\ row \in Rows
    /\ content \in Contents
    /\ active = TRUE
    \* new() of HashiCorp's stores logs in, that of Azure's does not.
    /\ cache = IF row.backend \in {"transit", "kv"} THEN [ends |-> Lease, believed |-> Lease] ELSE None
    /\ job \in [Calls -> {"retrieve", "retrieve_credential", "health"}]
    /\ pc = [c \in Calls |-> "start"]
    /\ store = [c \in Calls |-> None]
    /\ token = [c \in Calls |-> 0]
    /\ due = [c \in Calls |-> 0]
    /\ got = [c \in Calls |-> None]

Go(c, stage, d) ==
    /\ pc' = [pc EXCEPT ![c] = stage]
    /\ due' = [due EXCEPT ![c] = IF d = 0 THEN 0 ELSE clock + d]

World == UNCHANGED <<clock, row, active, content, cache, job>>

Fail(c) == Go(c, "failed", 0) /\ UNCHANGED <<store, token, got>>

-----------------------------------------------------------------------------
\* The registry. The proxy asks without naming a backend, and gets the default.
Retrieve(c) ==
    /\ pc[c] = "start"
    /\ job[c] = "retrieve"
    /\ store' = [store EXCEPT ![c] = "builtin"]
    /\ Go(c, "lookup", 0)
    /\ UNCHANGED <<token, got>> /\ World

RetrieveCredential(c) ==
    /\ pc[c] = "start"
    /\ job[c] = "retrieve_credential"
    /\ IF active
       THEN /\ store' = [store EXCEPT ![c] = row.backend]
            /\ Go(c, "lookup", 0) /\ UNCHANGED <<token, got>>
       ELSE Fail(c)
    /\ World

ListBackends(c) ==
    /\ pc[c] = "start"
    /\ job[c] = "health"
    /\ store' = [store EXCEPT ![c] = row.backend]
    /\ Go(c, "health", 0)
    /\ UNCHANGED <<token, got>> /\ World

-----------------------------------------------------------------------------
\* The stores look the row up once more, and read the reference.

\* parse_external_ref of Transit: name:vault:..., or a ciphertext for the
\* default key; of KV: everything before the last colon is the path.
Readable == [transit |-> {"name:vault:v1:x", "vault:v1:x"},
             kv      |-> {"name:vault:v1:x", "vault:v1:x", "path:key"},
             azure   |-> {"name:vault:v1:x", "vault:v1:x", "path:key", "name"}]

\* Decryption of an envelope that is not there fails.
BuiltinRetrieve(c) ==
    /\ pc[c] = "lookup"
    /\ store[c] = "builtin"
    /\ IF active /\ row.backend = "builtin"
       THEN got' = [got EXCEPT ![c] = "envelope"] /\ Go(c, "done", 0) /\ UNCHANGED <<store, token>>
       ELSE Fail(c)
    /\ World

ExternalRetrieve(c) ==
    /\ pc[c] = "lookup"
    /\ store[c] \in DOMAIN Readable
    /\ IF active /\ row.ref \in Readable[store[c]]
       THEN Go(c, "token", 0) /\ UNCHANGED <<store, token, got>>
       ELSE Fail(c)
    /\ World

\* A health check asks the store and then for a token; Azure's only for that.
HealthCheck(c) ==
    /\ pc[c] = "health"
    /\ CASE store[c] = "builtin" -> Go(c, "done", 0) /\ UNCHANGED <<store, token, got>>
         [] store[c] = "azure"   -> Go(c, "token", 0) /\ UNCHANGED <<store, token, got>>
         [] OTHER -> Fail(c) \/ (Go(c, "token", 0) /\ UNCHANGED <<store, token, got>>)
    /\ World

-----------------------------------------------------------------------------
\* Access tokens.

\* Mutant: a token is taken until it expires.
NeedsRefresh_Late(k) == clock >= k.believed

NeedsRefresh(k) == clock + Margin >= k.believed

\* A call with a token is sent; a health check has seen enough.
Send(c, ends) ==
    /\ token' = [token EXCEPT ![c] = ends]
    /\ IF job[c] = "health" THEN Go(c, "done", 0) ELSE Go(c, "sent", Delay)
    /\ UNCHANGED <<store, got>>

GetToken(c) ==
    /\ pc[c] = "token"
    /\ IF cache # None /\ ~ NeedsRefresh(cache)
       THEN Send(c, cache.ends)
       ELSE Go(c, "login", Delay) /\ UNCHANGED <<store, token, got>>
    /\ World

\* AppRole or Kubernetes, a managed identity or a service principal: the
\* reply comes some time after the token is issued.
Login(c) ==
    /\ pc[c] = "login"
    /\ token' = [token EXCEPT ![c] = clock + Lease]
    /\ pc' = [pc EXCEPT ![c] = "issued"]
    /\ UNCHANGED <<store, due, got>> /\ World

LoginFails(c) ==
    /\ pc[c] \in {"login", "issued"}
    /\ Fail(c)
    /\ World

\* It is taken to end a lease after the reply, whatever is in the cache.
Authenticate(c) ==
    /\ pc[c] = "issued"
    /\ cache' = [ends |-> token[c], believed |-> clock + Lease]
    /\ Send(c, token[c])
    /\ UNCHANGED <<clock, row, active, content, job>>

-----------------------------------------------------------------------------
\* The call arrives and is answered. A token that has ended is refused, and
\* nothing is tried again.
Arrive(c, kind) == pc[c] = "sent" /\ store[c] = kind

Answer(c, plain) ==
    IF clock >= token[c] THEN Go(c, "refused", 0) /\ UNCHANGED <<store, token, got>>
    ELSE IF plain = None THEN Fail(c)
    ELSE got' = [got EXCEPT ![c] = plain] /\ Go(c, "done", 0) /\ UNCHANGED <<store, token>>

\* Transit returns base64 of what must be UTF-8.
Decrypt(c) ==
    /\ Arrive(c, "transit")
    /\ Answer(c, IF content = "text" THEN content ELSE None)
    /\ World

\* KV returns a map: the key may be missing, and its value need not be a string.
ReadSecret(c) ==
    /\ Arrive(c, "kv")
    /\ Answer(c, IF content = "absent" THEN None ELSE content)
    /\ World

FetchSecret(c) ==
    /\ Arrive(c, "azure")
    /\ Answer(c, IF content = "text" THEN content ELSE None)
    /\ World

CallFails(c) ==
    /\ pc[c] = "sent"
    /\ Fail(c)
    /\ World

-----------------------------------------------------------------------------
Delete ==
    /\ active
    /\ active' = FALSE
    /\ UNCHANGED <<clock, row, content, cache, job, pc, call>>

\* Time stops for what has timed out.
Tick ==
    /\ clock < MaxClock
    /\ \A c \in Calls : pc[c] \in {"login", "issued", "sent"} => clock < due[c]
    /\ clock' = clock + 1
    /\ UNCHANGED <<row, active, content, cache, job, pc, call>>

Next ==
    \/ \E c \in Calls :
          \/ Retrieve(c) \/ RetrieveCredential(c) \/ ListBackends(c)
          \/ BuiltinRetrieve(c) \/ ExternalRetrieve(c) \/ HealthCheck(c)
          \/ GetToken(c) \/ Login(c) \/ LoginFails(c) \/ Authenticate(c)
          \/ Decrypt(c) \/ ReadSecret(c) \/ FetchSecret(c) \/ CallFails(c)
    \/ Delete \/ Tick

Spec == Init /\ [][Next]_vars

-----------------------------------------------------------------------------
\* Properties

\* hashicorp_common.rs: "refresh 5 minutes before expiry". No call reaches the
\* customer's store with a token that has ended, though it may have been
\* issued up to one timeout before the end that was noted, and be on its way
\* for another: unless a lease is shorter than that.
TokenOutlivesCall == 2 * Delay < Lease => \A c \in Calls : pc[c] # "refused"

\* mod.rs, retrieve: "using the appropriate backend". A credential that is
\* there is looked up where its row says.
RoutedToOwnStore == \A c \in Calls : store[c] \in {None, row.backend}

=============================================================================
