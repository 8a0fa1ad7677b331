----------------------------- MODULE PriceTable -----------------------------
(***************************************************************************)
(* The prices of models: the table model_pricing, the copy that each       *)
(* process keeps (models/pricing_cache.rs), the handlers that change the   *)
(* one and reload the other (api/handlers/pricing.rs), and what a call     *)
(* costs on each of the paths that look a price up (models/cost.rs,        *)
(* core.rs, smart_router.rs). A price is one number, for input and output. *)
(***************************************************************************)
EXTENDS Naturals, Sequences, SequencesExt, FiniteSetsExt, TLC

CONSTANTS
    Instances,   \* processes
    Tasks,       \* handlers, each of them once
    Workloads,   \* what the tasks do: [Tasks -> Jobs]
    Order,       \* the keys of the table, [provider, pattern], as it is sorted
    Within,      \* from a model to the patterns that it contains
    MaxRestarts, \* bound
    None

Keys == ToSet(Order)

\* "at" is the process that the request reached.
Jobs == [at : Instances, kind : {"upsert", "delete"}, key : Keys, price : 1..3]

\* An order of the table has no key twice.
OrderAssumption == IsInjective(Order)

VARIABLES
    table, \* from keys to a price, or None where nothing is or it was deleted
    cache, \* each process's copy of that
    job,
    pc,
    read,  \* the rows that a task has read
    alone, \* tasks that no other change of the table has met
    behind, \* processes whose copy a failure or a meeting may have left old
    restarts

vars == <<table, cache, job, pc, read, alone, behind, restarts>>

Empty == [k \in Keys |-> None]

Init ==
    /\ table \in [Keys -> {1, None}]
    /\ cache = [i \in Instances |-> table]
    /\ job \in Workloads
    /\ pc = [t \in Tasks |-> "start"]
    /\ read = [t \in Tasks |-> Empty]
    /\ alone = Tasks
    /\ behind = {}
    /\ restarts = 0

-----------------------------------------------------------------------------
Go(t, stage) == pc' = [pc EXCEPT ![t] = stage]

\* t has changed the table and not yet its process's copy.
Reloading(t) == pc[t] \in {"read", "replace"}

\* What t's change of the table means to the others: they are not alone, nor
\* is it if one of them is reloading, and no other process will hear of it.
Meets(t) ==
    LET others == {u \in Tasks \ {t} : Reloading(u)}
    IN  /\ alone' = alone \ (others \cup IF others = {} THEN {} ELSE {t})
        /\ behind' = behind \cup (Instances \ {job[t].at})

\* A deletion is of a row that was listed. Where there is none any more,
\* nothing is reloaded.
Delete_NotReloaded(t) ==
    /\ pc[t] = "start"
    /\ job[t].kind = "delete"
    /\ Go(t, "over")
    /\ table' = [table EXCEPT ![job[t].key] = None]
    /\ Meets(t)
    /\ UNCHANGED <<cache, job, read, restarts>>

Delete(t) ==
    /\ pc[t] = "start"
    /\ job[t].kind = "delete"
    /\ \/ /\ table[job[t].key] # None
          /\ table' = [table EXCEPT ![job[t].key] = None]
          /\ Meets(t)
          /\ Go(t, "read")
       \/ table[job[t].key] = None /\ Go(t, "over") /\ UNCHANGED <<table, alone, behind>>
    /\ UNCHANGED <<cache, job, read, restarts>>

\* An upsert also brings a deleted row back.
Upsert(t) ==
    /\ pc[t] = "start"
    /\ job[t].kind = "upsert"
    /\ table' = [table EXCEPT ![job[t].key] = job[t].price]
    /\ Meets(t)
    /\ Go(t, "read")
    /\ UNCHANGED <<cache, job, read, restarts>>

\* A request that is refused, or an error of the database.
Refuse(t) ==
    /\ pc[t] = "start"
    /\ Go(t, "over")
    /\ UNCHANGED <<table, cache, job, read, alone, behind, restarts>>

ReadRows(t) ==
    /\ pc[t] = "read"
    /\ read' = [read EXCEPT ![t] = table]
    /\ Go(t, "replace")
    /\ UNCHANGED <<table, cache, job, alone, behind, restarts>>

\* The rows cannot be read, which is logged, or the client goes.
Leave(t) ==
    /\ Reloading(t)
    /\ Go(t, "over")
    /\ behind' = behind \cup {job[t].at}
    /\ UNCHANGED <<table, cache, job, read, alone, restarts>>

\* PricingCache::reload
Reload(t) ==
    /\ pc[t] = "replace"
    /\ cache' = [cache EXCEPT ![job[t].at] = read[t]]
    /\ behind' = IF t \in alone THEN behind \ {job[t].at} ELSE behind \cup {job[t].at}
    /\ Go(t, "over")
    /\ UNCHANGED <<table, job, read, alone, restarts>>

\* A process starts anew and loads the table, or goes on without.
Restart(i) ==
    /\ restarts < MaxRestarts
    /\ restarts' = restarts + 1
    /\ pc' = [t \in Tasks |-> IF job[t].at = i /\ Reloading(t) THEN "over" ELSE pc[t]]
    /\ \/ /\ cache' = [cache EXCEPT ![i] = table]
          /\ behind' = behind \ {i}
       \/ /\ cache' = [cache EXCEPT ![i] = Empty]
          /\ behind' = behind \cup {i}
    /\ UNCHANGED <<table, job, read, alone>>

Next ==
    \/ \E t \in Tasks :
          \/ Upsert(t) \/ Delete(t) \/ Refuse(t) \/ ReadRows(t) \/ Leave(t) \/ Reload(t)
    \/ \E i \in Instances : Restart(i)

Spec == Init /\ [][Next]_vars

-----------------------------------------------------------------------------
\* The price of a call.

\* The name by which a path looks for the prices of a provider.
NameOf(path, provider) ==
    CASE path = "answer" -> IF provider = "gemini" THEN "google" ELSE provider
      [] path = "loop"   -> IF provider = "gemini" THEN "google"
                            ELSE IF provider \in {"azure", "unknown"} THEN "openai" ELSE provider
      [] path = "router" -> IF provider = "azure" THEN "azureopenai" ELSE provider

Anyone == "any"

Arm(provider, pattern, price) == [provider |-> provider, pattern |-> pattern, price |-> price]

\* Of the prices in cost.rs, those of patterns that one model contains.
Arms ==
    <<Arm("openai", "gpt-4o-mini", 4), Arm("openai", "gpt-4o", 5), Arm("openai", "gpt-4", 6),
      Arm(Anyone, "llama", 7), Arm("groq", "llama", 8)>>

DefaultPrice == 9

\* The first of the entries that fits.
FirstFit(entries, provider, model) ==
    LET fits == {i \in DOMAIN entries : /\ entries[i].provider \in {provider, Anyone}
                                        /\ entries[i].pattern \in Within[model]}
    IN  IF fits = {} THEN None ELSE entries[Min(fits)].price

\* The copy of a process, in the order of the table.
Entries(rows) ==
    LET kept == SelectSeq(Order, LAMBDA k : rows[k] # None)
    IN  [i \in DOMAIN kept |-> Arm(kept[i].provider, kept[i].pattern, rows[kept[i]])]

\* lookup
Lookup(i, provider, model) == FirstFit(Entries(cache[i]), provider, model)

\* calculate_cost_with_cache
Price(i, path, provider, model) ==
    LET name     == NameOf(path, provider)
        kept     == Lookup(i, name, model)
        fallback == FirstFit(Arms, name, model)
    IN  IF kept # None THEN kept ELSE IF fallback # None THEN fallback ELSE DefaultPrice

\* select_lowest_cost: an unknown price is the highest.
Cheapest(i, targets) ==
    LET price(t) == Lookup(i, NameOf("router", t.provider), t.model)
        priced   == {t \in targets : price(t) # None}
    IN  IF priced = {} THEN targets
        ELSE {t \in priced : \A u \in priced : price(t) <= price(u)}

-----------------------------------------------------------------------------
\* A change that met no other is in the prices of the process that made it:
\* when none of its tasks is reloading, a process's copy is the table, but
\* for changes by other processes, reloads that failed, and those that met.
PricesLive ==
    \A i \in Instances \ behind :
        (\A t \in Tasks : job[t].at = i => ~Reloading(t)) => cache[i] = table

\* pricing.rs:80: "Reload cache so cost calculations pick up the change
\* immediately", whichever process calculates.
ProcessesAgree ==
    (\A t \in Tasks : ~Reloading(t)) => \A i, j \in Instances : cache[i] = cache[j]

\* cost.rs:66: "More-specific patterns must come before less-specific ones":
\* a model is charged at the price of the longest pattern in it.
SpecificFirst ==
    \A i \in Instances, m \in DOMAIN Within, k \in Keys :
        /\ k.pattern \in Within[m]
        /\ cache[i][k] # None
        /\ \A p \in Within[m] : Len(p) <= Len(k.pattern)
        => Lookup(i, k.provider, m) = cache[i][k]

\* The same holds of the prices in cost.rs: each of them is some model's.
ArmsReached ==
    \A n \in DOMAIN Arms : \E m \in DOMAIN Within :
        FirstFit(Arms, Arms[n].provider, m) = Arms[n].price

\* What a call costs does not depend on the path that it takes.
PathsAgree ==
    \A i \in Instances, m \in DOMAIN Within, p \in {"azure", "unknown", "gemini"} :
        Price(i, "answer", p, m) = Price(i, "loop", p, m)

\* The router goes by the prices that calls are charged at.
RouterKnowsPrices ==
    \A i \in Instances, m \in DOMAIN Within, p \in {"azure", "gemini"} :
        Lookup(i, NameOf("router", p), m) = Lookup(i, NameOf("answer", p), m)

=============================================================================
