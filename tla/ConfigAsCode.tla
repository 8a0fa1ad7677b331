---------------------------- MODULE ConfigAsCode ----------------------------
(***************************************************************************)
(* Applying a configuration file to the tokens and policies of a project:  *)
(* the command line compares the file with an export (iac/, main.rs),      *)
(* imports it, exports again and sets the spend caps that differ. The      *)
(* import (api/config.rs) runs statement by statement, outside of a        *)
(* transaction: it may stop half way, and is then repeated. Programs may   *)
(* also call the import themselves. Names are unique, those of deleted     *)
(* rows included.                                                          *)
(***************************************************************************)
EXTENDS Naturals

CONSTANTS
    TokenNames, PolicyNames, Periods,
    Upstreams, Levels, Amounts, Rules, Retries, \* what rows may have
    Files,       \* documents: tokens and policies by their names
    Projects,    \* what the database has at first
    BlockedUrls, \* upstreams that is_safe_webhook_url refuses
    MaxRuns, MaxChanges, MaxFailures, \* bounds
    None

TokenRows ==
    [active : BOOLEAN, upstream : Upstreams, level : Levels, policies : SUBSET PolicyNames,
     caps : [Periods -> Amounts \cup {None}]]

PolicyRows ==
    [active : BOOLEAN, token : TokenNames, rules : Rules, retry : Retries \cup {None}]

\* What the constants must be.
ConstantsAssumption ==
    /\ {MaxRuns, MaxChanges, MaxFailures} \subseteq Nat
    /\ None \notin TokenRows \cup PolicyRows \cup Levels
    /\ "redacted" \in Levels
    /\ \A f \in Files :
          /\ \A t \in DOMAIN f.tokens : t \in TokenNames /\ f.tokens[t] \in
                [upstream : Upstreams, level : Levels \cup {None}, policies : SUBSET PolicyNames,
                 caps : [Periods -> Amounts \cup {None}]]
          /\ \A p \in DOMAIN f.policies : p \in PolicyNames /\ f.policies[p] \in
                [token : TokenNames, rules : Rules, retry : Retries \cup {None}]
    /\ \A project \in Projects :
          /\ project.tokens \in [TokenNames -> TokenRows \cup {None}]
          /\ project.policies \in [PolicyNames -> PolicyRows \cup {None}]

VARIABLES
    tokens,   \* rows: active, upstream, level, policies, caps; or None
    policies, \* rows: active, token, rules, retry; or None
    caller,   \* "cli" or "api"
    file,
    pc,
    live,     \* the last export
    known,    \* tokens, then policies, that the import has found or made
    todo,     \* names it has still to import
    clean,    \* history: nobody else has changed anything since it began
    runs, changes, failures

db == <<tokens, policies>>
bounds == <<runs, changes, failures>>
vars == <<db, caller, file, pc, live, known, todo, clean, bounds>>

NoCaps == [p \in Periods |-> None]

Present(rows) == {n \in DOMAIN rows : rows[n] # None}

Active(rows) == {n \in Present(rows) : rows[n].active}

Init ==
    /\ \E start \in Projects : tokens = start.tokens /\ policies = start.policies
    /\ file \in Files
    /\ caller \in {"cli", "api"}
    /\ pc = "idle"
    /\ live = [tokens |-> <<>>, policies |-> <<>>]
    /\ known = {}
    /\ todo = {}
    /\ clean = TRUE
    /\ runs = 0 /\ changes = 0 /\ failures = 0

-----------------------------------------------------------------------------
\* The export, and the plan.

\* Policies that are active, tokens that are not revoked, and their caps. The
\* token of a policy is in the export of the server and not in that of the
\* command line.
Exported ==
    [tokens   |-> [t \in Active(tokens) |-> tokens[t]],
     policies |-> [p \in Active(policies) |-> policies[p]]]

\* compute_plan: names to create or update. What only the server has is shown
\* and not changed.
PolicyDiffers(p, export) ==
    \/ p \notin DOMAIN export.policies
    \/ file.policies[p].rules # export.policies[p].rules
    \/ file.policies[p].retry # export.policies[p].retry

TokenDiffers(t, export) ==
    \/ t \notin DOMAIN export.tokens
    \/ file.tokens[t].upstream # export.tokens[t].upstream
    \/ file.tokens[t].level # export.tokens[t].level
    \/ file.tokens[t].policies # export.tokens[t].policies

CapDiffers(t, p, export) ==
    LET wanted == file.tokens[t].caps[p]
    IN  wanted # None /\ (t \in DOMAIN export.tokens => export.tokens[t].caps[p] # wanted)

Caps(export) == {c \in (DOMAIN file.tokens) \X Periods : CapDiffers(c[1], c[2], export)}

Plan(export) ==
    {<<"policy", p>> : p \in {q \in DOMAIN file.policies : PolicyDiffers(q, export)}}
    \cup {<<"token", t>> : t \in {u \in DOMAIN file.tokens : TokenDiffers(u, export)}}
    \cup Caps(export)

-----------------------------------------------------------------------------
\* The command line.
Start ==
    /\ pc \in {"idle", "failed"}
    /\ runs < MaxRuns
    /\ runs' = runs + 1
    /\ pc' = IF caller = "cli" THEN "export" ELSE "import"
    /\ clean' = TRUE
    /\ UNCHANGED <<db, caller, file, live, known, todo, changes, failures>>

Export ==
    /\ pc = "export"
    /\ live' = Exported
    /\ pc' = IF Plan(live') = {} THEN "unchanged" ELSE "confirm"
    /\ UNCHANGED <<db, caller, file, known, todo, clean, bounds>>

Confirm ==
    /\ pc = "confirm"
    /\ pc' \in {"import", "cancelled"}
    /\ UNCHANGED <<db, caller, file, live, known, todo, clean, bounds>>

-----------------------------------------------------------------------------
\* import_document.

\* The import wants to know the token of each policy, and the files of the
\* command line have no place for it.
Readable == caller = "api" \/ DOMAIN file.policies = {}

ListTokens ==
    /\ pc = "import"
    /\ IF Readable
       THEN known' = Active(tokens) /\ todo' = DOMAIN file.tokens /\ pc' = "tokens"
       ELSE pc' = "unprocessable" /\ UNCHANGED <<known, todo>>
    /\ UNCHANGED <<db, caller, file, live, clean, bounds>>

\* A token without a level in the file gets the default.
Level(t) == IF file.tokens[t].level = None THEN "redacted" ELSE file.tokens[t].level

\* Its policies "will be created with token binding": until then, and after
\* it, the token has none.
Imported(t, caps) ==
    [active |-> TRUE, upstream |-> file.tokens[t].upstream, level |-> Level(t),
     policies |-> {}, caps |-> caps]

Take(n) == n \in todo /\ todo' = todo \ {n}

Fails == pc' = "failed"

ImportToken(t) ==
    /\ pc = "tokens"
    /\ Take(t)
    /\ IF file.tokens[t].upstream \in BlockedUrls THEN UNCHANGED <<tokens, known, pc>>
       ELSE IF t \in known
       THEN /\ tokens' = IF t \in Active(tokens)
                         THEN [tokens EXCEPT ![t] = Imported(t, tokens[t].caps)] ELSE tokens
            /\ UNCHANGED <<known, pc>>
       ELSE IF tokens[t] = None
       THEN /\ tokens' = [tokens EXCEPT ![t] = Imported(t, NoCaps)]
            /\ known' = known \cup {t}
            /\ UNCHANGED pc
       ELSE Fails /\ UNCHANGED <<tokens, known>>
    /\ UNCHANGED <<policies, caller, file, live, clean, bounds>>

\* A policy whose token is not known is skipped. Deleted ones are listed too.
ListPolicies ==
    /\ pc = "tokens"
    /\ todo = {}
    /\ todo' = {p \in DOMAIN file.policies : file.policies[p].token \in known}
    /\ known' = Present(policies)
    /\ pc' = "policies"
    /\ UNCHANGED <<db, caller, file, live, clean, bounds>>

\* COALESCE: what the file does not give stays. The token stays as well.
ImportPolicy(p) ==
    /\ pc = "policies"
    /\ Take(p)
    /\ IF p \in known
       THEN /\ policies' =
                   IF p \in Active(policies)
                   THEN [policies EXCEPT ![p].rules = file.policies[p].rules,
                             ![p].retry = IF file.policies[p].retry = None THEN @
                                          ELSE file.policies[p].retry]
                   ELSE policies
            /\ UNCHANGED <<known, pc>>
       ELSE IF policies[p] = None
       THEN /\ policies' = [policies EXCEPT ![p] =
                   [active |-> TRUE, token |-> file.policies[p].token,
                    rules |-> file.policies[p].rules, retry |-> file.policies[p].retry]]
            /\ known' = known \cup {p}
            /\ UNCHANGED pc
       ELSE Fails /\ UNCHANGED <<policies, known>>
    /\ UNCHANGED <<tokens, caller, file, live, clean, bounds>>

EndImport ==
    /\ pc = "policies"
    /\ todo = {}
    /\ pc' = IF caller = "cli" THEN "refresh" ELSE "imported"
    /\ UNCHANGED <<db, caller, file, live, known, todo, clean, bounds>>

\* Each statement, and each call of the command line, may fail.
Fail ==
    /\ pc \in {"export", "import", "tokens", "policies", "refresh", "caps"}
    /\ failures < MaxFailures
    /\ failures' = failures + 1
    /\ Fails
    /\ UNCHANGED <<db, caller, file, live, known, todo, clean, runs, changes>>

-----------------------------------------------------------------------------
\* Spend caps, from a second export.
Refresh ==
    /\ pc = "refresh"
    /\ live' = Exported
    /\ todo' = Caps(Exported)
    /\ pc' = "caps"
    /\ UNCHANGED <<db, caller, file, known, clean, bounds>>

\* find_token_id, then the call.
UpsertCap(t, p) ==
    /\ pc = "caps"
    /\ Take(<<t, p>>)
    /\ IF t \in Active(tokens)
       THEN tokens' = [tokens EXCEPT ![t].caps[p] = file.tokens[t].caps[p]] /\ UNCHANGED pc
       ELSE Fails /\ UNCHANGED tokens
    /\ UNCHANGED <<policies, caller, file, live, known, clean, bounds>>

Complete ==
    /\ pc = "caps"
    /\ todo = {}
    /\ pc' = "applied"
    /\ UNCHANGED <<db, caller, file, live, known, todo, clean, bounds>>

-----------------------------------------------------------------------------
\* Other administrators.
Interfere == changes < MaxChanges /\ changes' = changes + 1 /\ clean' = FALSE

Revoke(t) ==
    /\ t \in Active(tokens)
    /\ Interfere
    /\ tokens' = [tokens EXCEPT ![t].active = FALSE]
    /\ UNCHANGED <<policies, caller, file, pc, live, known, todo, runs, failures>>

Attach(t, p) ==
    /\ t \in Active(tokens)
    /\ Interfere
    /\ tokens' = [tokens EXCEPT ![t].policies = @ \cup {p}]
    /\ UNCHANGED <<policies, caller, file, pc, live, known, todo, runs, failures>>

DeletePolicy(p) ==
    /\ p \in Active(policies)
    /\ Interfere
    /\ policies' = [policies EXCEPT ![p].active = FALSE]
    /\ UNCHANGED <<tokens, caller, file, pc, live, known, todo, runs, failures>>

Next ==
    \/ Start \/ Export \/ Confirm \/ ListTokens \/ ListPolicies \/ EndImport \/ Fail
    \/ Refresh \/ Complete
    \/ \E t \in TokenNames :
          ImportToken(t) \/ Revoke(t) \/ (\E p \in Periods : UpsertCap(t, p))
          \/ (\E p \in PolicyNames : Attach(t, p))
    \/ \E p \in PolicyNames : ImportPolicy(p) \/ DeletePolicy(p)

Spec == Init /\ [][Next]_vars

-----------------------------------------------------------------------------
\* Properties

TokenApplied(t) ==
    file.tokens[t].upstream \notin BlockedUrls =>
        /\ t \in Active(tokens)
        /\ tokens[t].upstream = file.tokens[t].upstream
        /\ tokens[t].level = Level(t)
        /\ caller = "cli" => \A p \in Periods : file.tokens[t].caps[p] \in {None, tokens[t].caps[p]}

\* A deleted policy keeps its name, and with it the import from making another.
PolicyApplied(p) ==
    file.policies[p].token \in Active(tokens) /\ (policies[p] # None => policies[p].active) =>
        /\ policies[p] # None
        /\ policies[p].rules = file.policies[p].rules
        /\ file.policies[p].retry \in {None, policies[p].retry}

\* "Live state matches the config file", "Apply complete": however often the
\* import or the command line has stopped half way before, when nobody else
\* changes anything during the run that succeeds, the project has the
\* upstreams, levels and caps of the file, and the rules of its policies.
AppliedIsLive ==
    pc \in {"unchanged", "applied", "imported"} /\ clean =>
        /\ \A t \in DOMAIN file.tokens : TokenApplied(t)
        /\ caller = "api" => \A p \in DOMAIN file.policies : PolicyApplied(p)

\* What was applied need not be applied again.
PlanEmptyAfterApply == pc = "applied" /\ clean => Plan(Exported) = {}

\* "Policy names attached to this token (resolved on import)".
PoliciesAttached ==
    pc \in {"applied", "imported"} /\ clean =>
        \A t \in DOMAIN file.tokens \cap Active(tokens) : file.tokens[t].policies \subseteq tokens[t].policies

\* A file that the command line reads can be applied.
FilesApply == pc # "unprocessable"

=============================================================================
