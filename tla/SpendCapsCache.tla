--------------------------- MODULE SpendCapsCache ---------------------------
(***************************************************************************)
(* The cached spend caps of one token (middleware/spend.rs): a Redis entry *)
(* that lives 60 s, filled by requests that miss it, one at a time in each *)
(* gateway process, and deleted after a change of the rows. A load is a    *)
(* GET, a wait for the token's mutex, a second GET, a SELECT and a SETEX:  *)
(* anything may happen in between. Module SpendCap abstracts all of it to  *)
(* "the rows, or a value they had before".                                 *)
(***************************************************************************)
EXTENDS Naturals

CONSTANTS
    Loaders,    \* concurrent loads
    Gateways,   \* gateway processes that share the Redis
    home,       \* the process a load runs in
    Writers,    \* concurrent changes of the caps
    Values,     \* contents of the token's rows
    Absent,     \* no cache entry
    Nobody,     \* the mutex is free
    RedisFails, \* whether commands may fail
    MaxWrites   \* bound: changes of the caps

\* What the constants must be.
ConstantsAssumption ==
    /\ home \in [Loaders -> Gateways]
    /\ Absent \notin Values
    /\ Nobody \notin Loaders
    /\ RedisFails \in BOOLEAN
    /\ MaxWrites \in Nat

VARIABLES
    db,     \* the token's spend_caps rows
    cached, \* the entry spend_caps:{token}
    holder, \* who holds the token's mutex, in each process
    pc,     \* where each load is
    got,    \* what each load returns, or is about to cache
    wpc,    \* where each change is
    writes  \* changes so far

vars == <<db, cached, holder, pc, got, wpc, writes>>

Init ==
    /\ db \in Values
    /\ cached = Absent
    /\ holder = [g \in Gateways |-> Nobody]
    /\ pc = [l \in Loaders |-> "idle"]
    /\ got = [l \in Loaders |-> db]
    /\ wpc = [w \in Writers |-> "idle"]
    /\ writes = 0

-----------------------------------------------------------------------------
\* load_spend_caps_cached

\* A load ends: its guard is dropped with it.
Release(l) == holder' = [g \in Gateways |-> IF holder[g] = l THEN Nobody ELSE holder[g]]

Hit(l) ==
    /\ pc[l] = "idle"
    /\ cached # Absent
    /\ got' = [got EXCEPT ![l] = cached]
    /\ UNCHANGED <<db, cached, holder, pc, wpc, writes>>

\* A failed GET counts as a miss.
Miss(l) ==
    /\ pc[l] = "idle"
    /\ cached = Absent \/ RedisFails
    /\ pc' = [pc EXCEPT ![l] = "waiting"]
    /\ UNCHANGED <<db, cached, holder, got, wpc, writes>>

Lock(l) ==
    /\ pc[l] = "waiting"
    /\ holder[home[l]] = Nobody
    /\ holder' = [holder EXCEPT ![home[l]] = l]
    /\ pc' = [pc EXCEPT ![l] = "locked"]
    /\ UNCHANGED <<db, cached, got, wpc, writes>>

\* Another load has filled the entry meanwhile.
RecheckHit(l) ==
    /\ pc[l] = "locked"
    /\ cached # Absent
    /\ got' = [got EXCEPT ![l] = cached]
    /\ pc' = [pc EXCEPT ![l] = "idle"]
    /\ Release(l)
    /\ UNCHANGED <<db, cached, wpc, writes>>

RecheckMiss(l) ==
    /\ pc[l] = "locked"
    /\ cached = Absent \/ RedisFails
    /\ pc' = [pc EXCEPT ![l] = "querying"]
    /\ UNCHANGED <<db, cached, holder, got, wpc, writes>>

Query(l) ==
    /\ pc[l] = "querying"
    /\ got' = [got EXCEPT ![l] = db]
    /\ pc' = [pc EXCEPT ![l] = "filling"]
    /\ UNCHANGED <<db, cached, holder, wpc, writes>>

QueryFails(l) ==
    /\ pc[l] = "querying"
    /\ pc' = [pc EXCEPT ![l] = "idle"]
    /\ Release(l)
    /\ UNCHANGED <<db, cached, got, wpc, writes>>

\* The SETEX, best-effort.
Fill(l) ==
    /\ pc[l] = "filling"
    /\ cached' \in {got[l]} \cup (IF RedisFails THEN {cached} ELSE {})
    /\ pc' = [pc EXCEPT ![l] = "idle"]
    /\ Release(l)
    /\ UNCHANGED <<db, got, wpc, writes>>

\* The client of the request disconnects.
Drop(l) ==
    /\ pc[l] # "idle"
    /\ pc' = [pc EXCEPT ![l] = "idle"]
    /\ Release(l)
    /\ UNCHANGED <<db, cached, got, wpc, writes>>

-----------------------------------------------------------------------------
\* upsert_spend_cap, delete_spend_cap, and the entry's TTL

WriteRows(w, v) ==
    /\ wpc[w] = "idle"
    /\ writes < MaxWrites
    /\ v # db
    /\ db' = v
    /\ writes' = writes + 1
    /\ wpc' = [wpc EXCEPT ![w] = "written"]
    /\ UNCHANGED <<cached, holder, pc, got>>

\* Mutant: the entry is overwritten with rows read earlier, not deleted.
Invalidate_Refills(w) ==
    /\ wpc[w] = "written"
    /\ \E v \in Values : cached' = v
    /\ wpc' = [wpc EXCEPT ![w] = "idle"]
    /\ UNCHANGED <<db, holder, pc, got, writes>>

Invalidate(w) ==
    /\ wpc[w] = "written"
    /\ cached' \in {Absent} \cup (IF RedisFails THEN {cached} ELSE {})
    /\ wpc' = [wpc EXCEPT ![w] = "idle"]
    /\ UNCHANGED <<db, holder, pc, got, writes>>

\* The entry has a TTL.
Lapses == cached # Absent

Expire ==
    /\ Lapses
    /\ cached' = Absent
    /\ UNCHANGED <<db, holder, pc, got, wpc, writes>>

Step(l) == Lock(l) \/ RecheckHit(l) \/ RecheckMiss(l) \/ Query(l) \/ QueryFails(l) \/ Fill(l)

Next ==
    \/ \E l \in Loaders : Hit(l) \/ Miss(l) \/ Step(l) \/ Drop(l)
    \/ \E w \in Writers : (\E v \in Values : WriteRows(w, v)) \/ Invalidate(w)
    \/ Expire

Spec == Init /\ [][Next]_vars

\* Loads that have begun go on; tokio's mutex serves its waiters in order, so
\* one that is offered the lock again and again gets it; TTLs elapse. Nobody
\* is obliged to begin a load or a change.
FairSpec ==
    /\ Spec
    /\ \A l \in Loaders : WF_vars(Step(l)) /\ SF_vars(Lock(l))
    /\ WF_vars(Expire)

-----------------------------------------------------------------------------
\* Properties

Fresh == cached \in {Absent, db}

\* The entry becomes stale only through a change whose DEL is still to come,
\* or through a load that read the rows before a change and caches them after.
StaleOnlyByOverlap ==
    [][(Fresh /\ ~Fresh') =>
          \/ \E w \in Writers : wpc[w] = "idle" /\ wpc'[w] = "written"
          \/ \E l \in Loaders : pc[l] = "filling" /\ got[l] # db /\ cached' = got[l]]_vars

\* When the caps stop changing, the entry agrees with the rows for good,
\* whatever failed before.
CacheConverges == <>[]Fresh

\* spend.rs, MED-8: loads that miss together wait for one mutex. Every load ends,
\* with or without an answer, though the holder fails or is dropped.
LoadsFinish == \A l \in Loaders : pc[l] # "idle" ~> pc[l] = "idle"

\* Checks and bills of a token see the caps that an administrator has set: the
\* entry is stale for known reasons only and not for good, and a load ends.
CacheFollowsRows == StaleOnlyByOverlap /\ CacheConverges /\ LoadsFinish

=============================================================================
