------------------------------ MODULE JwksCache ------------------------------
(***************************************************************************)
(* Logins with a JWT (middleware/oidc.rs, admin_auth in api/mod.rs): the   *)
(* signing keys that an identity provider publishes, the process-wide      *)
(* cache of them, and logins that verify against the cache and, when that  *)
(* fails, against keys fetched anew. Fetches of several logins overlap and *)
(* each puts its reply into the cache when it comes.                       *)
(***************************************************************************)
EXTENDS Naturals, FiniteSets

CONSTANTS
    Logins,   \* each with one JWT
    Keys,     \* signing keys, by kid
    Ttl,      \* JWKS_CACHE_TTL_SECS
    Delay,    \* how long a reply with keys is on its way
    MaxClock, \* bound
    None

\* What the constants must be.
ConstantsAssumption ==
    /\ {Ttl, Delay, MaxClock} \subseteq Nat
    /\ Ttl > 0

VARIABLES
    clock,
    published, \* the keys of the provider
    withdrawn, \* when it withdrew each key, or None
    cache,     \* CachedJwks, or None
    key,       \* the key that signed each JWT
    good,      \* the JWTs whose signature and claims are in order
    pc,
    jwks,      \* the keys a login has in hand or on their way
    attempt,   \* 1, or 2 after the forced refresh
    due,       \* when its reply must have come
    hindered   \* history: logins with a failed request or an unpublished key

idp  == <<published, withdrawn>>
jwt  == <<key, good>>
vars == <<clock, idp, cache, jwt, pc, jwks, attempt, due, hindered>>

Init ==
    /\ clock = 0
    /\ published \in (SUBSET Keys) \ {{}}
    /\ withdrawn = [k \in Keys |-> None]
    /\ cache = None
    /\ key \in [Logins -> Keys]
    /\ good \in SUBSET Logins
    /\ pc = [i \in Logins |-> "new"]
    /\ jwks = [i \in Logins |-> {}]
    /\ attempt = [i \in Logins |-> 1]
    /\ due = [i \in Logins |-> 0]
    /\ hindered = {}

-----------------------------------------------------------------------------
Go(i, stage, n, ks, t) ==
    /\ pc' = [pc EXCEPT ![i] = stage]
    /\ attempt' = [attempt EXCEPT ![i] = n]
    /\ jwks' = [jwks EXCEPT ![i] = ks]
    /\ due' = [due EXCEPT ![i] = t]

End(i, stage) == Go(i, stage, 1, {}, 0)

\* The JWT is presented, the provider of its issuer is found in the database
\* and its JWKS URI is known or discovered.
Present(i) ==
    /\ pc[i] = "new"
    /\ Go(i, "lookup", 1, {}, 0)
    /\ hindered' = IF key[i] \in published THEN hindered ELSE hindered \cup {i}
    /\ UNCHANGED <<clock, idp, cache, jwt>>

Fresh == cache # None /\ clock - cache.fetched < Ttl

\* get_jwks.
LookUp(i) ==
    /\ pc[i] = "lookup"
    /\ IF Fresh THEN Go(i, "verify", 1, cache.jwks, 0)
                ELSE Go(i, "fetch", 1, {}, 0)
    /\ UNCHANGED <<clock, idp, cache, jwt, hindered>>

\* The provider answers with its keys of this moment.
Serve(i) ==
    /\ pc[i] = "fetch"
    /\ Go(i, "arriving", attempt[i], published, clock + Delay)
    /\ UNCHANGED <<clock, idp, cache, jwt, hindered>>

Arrive(i) ==
    /\ pc[i] = "arriving"
    /\ cache' = [jwks |-> jwks[i], fetched |-> clock]
    /\ Go(i, "verify", attempt[i], jwks[i], 0)
    /\ UNCHANGED <<clock, idp, jwt, hindered>>

\* The discovery or the fetch fails: 401.
Fail(i) ==
    /\ pc[i] \in {"lookup", "fetch", "arriving"}
    /\ End(i, "rejected")
    /\ hindered' = hindered \cup {i}
    /\ UNCHANGED <<clock, idp, cache, jwt>>

Verifies(i) == i \in good /\ key[i] \in jwks[i]

\* Mutant: the first failure is final.
Retry_Never(i) == FALSE

Retry(i) == attempt[i] = 1

\* verify_with_jwks. After the first failure, whatever its reason, the entry
\* is dropped and the keys are fetched once more.
Verify(i) ==
    /\ pc[i] = "verify"
    /\ CASE Verifies(i) -> End(i, "accepted") /\ UNCHANGED cache
         [] ~Verifies(i) /\ Retry(i) -> Go(i, "fetch", 2, {}, 0) /\ cache' = None
         [] OTHER -> End(i, "rejected") /\ UNCHANGED cache
    /\ UNCHANGED <<clock, idp, jwt, hindered>>

-----------------------------------------------------------------------------
\* The provider rotates: a key that has not been withdrawn is published, or a
\* published one is withdrawn.
Publish(k) ==
    /\ k \notin published
    /\ withdrawn[k] = None
    /\ published' = published \cup {k}
    /\ UNCHANGED <<clock, withdrawn, cache, jwt, pc, jwks, attempt, due, hindered>>

Withdraw(k) ==
    /\ k \in published
    /\ published' = published \ {k}
    /\ withdrawn' = [withdrawn EXCEPT ![k] = clock]
    /\ hindered' = hindered \cup {i \in Logins : key[i] = k /\ pc[i] # "new"}
    /\ UNCHANGED <<clock, cache, jwt, pc, jwks, attempt, due>>

\* A verification takes no time.
Tick ==
    /\ clock < MaxClock
    /\ \A i \in Logins : /\ pc[i] # "verify"
                         /\ pc[i] = "arriving" => clock < due[i]
    /\ clock' = clock + 1
    /\ UNCHANGED <<idp, cache, jwt, pc, jwks, attempt, due, hindered>>

Next ==
    \/ \E i \in Logins :
          Present(i) \/ LookUp(i) \/ Serve(i) \/ Arrive(i) \/ Fail(i) \/ Verify(i)
    \/ \E k \in Keys : Publish(k) \/ Withdraw(k)
    \/ Tick

Spec == Init /\ [][Next]_vars

-----------------------------------------------------------------------------
\* Properties

\* oidc.rs: "This handles key rotation where the IdP has new keys we haven't
\* cached yet". A JWT in order, whose key is published from beginning to end,
\* is not rejected unless a request fails, whatever keys the cache has and
\* whichever logins replace or drop them meanwhile.
RotationAccepted ==
    \A i \in good : pc[i] = "rejected" => i \in hindered

\* A key is not accepted for longer than the lifetime of an entry, and the way
\* of its reply, after it was withdrawn.
WithdrawnKeysExpire ==
    [][\A i \in Logins :
          pc[i] # "accepted" /\ pc'[i] = "accepted" /\ withdrawn[key[i]] # None
              => clock < withdrawn[key[i]] + Delay + Ttl]_vars

\* Logins follow the keys of the provider in both directions: a key that is
\* published works at once, one that is withdrawn stops in bounded time.
LoginsFollowKeys == [][RotationAccepted']_vars /\ WithdrawnKeysExpire

=============================================================================
