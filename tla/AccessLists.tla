----------------------------- MODULE AccessLists -----------------------------
(***************************************************************************)
(* Which models a token may call: its own list, groups of patterns and its *)
(* team, the handlers that change groups and teams while requests are      *)
(* under way (api/handlers/model_access.rs, teams.rs), and the checks of a *)
(* request (middleware/model_access.rs, teams.rs; core.rs). A row's list   *)
(* is the set of its patterns; a value that is no list has none.           *)
(***************************************************************************)
EXTENDS Naturals, FiniteSets

CONSTANTS
    Requests,
    Groups,     \* ids of groups
    Tokens,     \* [own, groups, team, providers] of the tokens there may be
    Models,
    Fits,       \* the pairs of a pattern and a model that it matches
    Providers,  \* from models to the name of their provider, lower case
    Lists,      \* the lists that an edit may bring, and the tables start with
    MaxChanges, \* bound
    MaxFailures, \* bound
    Junk,       \* a value that is no list, of which no string is taken
    None

VARIABLES
    rows,     \* from groups to their list, or None where there is no group
    team,     \* the team's [list, active], or None
    token, model, \* what a request asks for, and with which token
    pc,
    offered,  \* the patterns that a request's groups have had since it began
    required, \* those that its team has had
    lost,     \* requests whose groups were empty or could not be read
    alone,    \* requests whose team had no list or could not be read
    changes,
    failures

vars == <<rows, team, token, model, pc, offered, required, lost, alone, changes, failures>>

\* Patterns match models, and every model has a provider.
NamesAssumption == Models = DOMAIN Providers /\ \A pair \in Fits : pair[2] \in Models

Taken(list) == IF list = Junk THEN {} ELSE list

-----------------------------------------------------------------------------
\* What the groups of a token and its team offer in tables r and t.

OfGroups(tok, r) == UNION {Taken(r[g]) : g \in {h \in tok.groups : r[h] # None}}

OfTeam(tok, t) ==
    IF ~tok.team \/ t = None THEN {}
    ELSE IF ~t.active \/ t.list = None THEN {} ELSE Taken(t.list)

Init ==
    /\ rows \in [Groups -> (Lists \ {Junk}) \cup {None}]
    /\ team \in [list : (Lists \ {Junk}) \cup {None}, active : BOOLEAN] \cup {None}
    /\ token \in [Requests -> Tokens]
    /\ model \in [Requests -> Models]
    /\ pc = [r \in Requests |-> "model"]
    /\ offered = [r \in Requests |-> OfGroups(token[r], rows)]
    /\ required = [r \in Requests |-> OfTeam(token[r], team)]
    /\ lost = {r \in Requests : OfGroups(token[r], rows) = {}}
    /\ alone = {r \in Requests : OfTeam(token[r], team) = {}}
    /\ changes = 0
    /\ failures = 0

-----------------------------------------------------------------------------
\* Every edit is one statement. What requests under way may see of it:
Seen ==
    /\ changes < MaxChanges
    /\ changes' = changes + 1
    /\ offered' = [r \in Requests |-> offered[r] \cup OfGroups(token[r], rows')]
    /\ required' = [r \in Requests |-> required[r] \cup OfTeam(token[r], team')]
    /\ lost' = lost \cup {r \in Requests : pc[r] = "model" /\ OfGroups(token[r], rows') = {}}
    /\ alone' = alone \cup {r \in Requests : pc[r] # "sent" /\ OfTeam(token[r], team') = {}}
    /\ UNCHANGED <<token, model, pc, failures>>

\* create_model_access_group refuses what is no list of patterns.
CreateGroup(g) ==
    /\ rows[g] = None
    /\ \E list \in Lists \ {Junk} : rows' = [rows EXCEPT ![g] = list]
    /\ UNCHANGED team
    /\ Seen

\* update_model_access_group looks at the strings of a list alone.
UpdateGroup(g) ==
    /\ rows[g] # None
    /\ \E list \in Lists : rows' = [rows EXCEPT ![g] = list]
    /\ UNCHANGED team
    /\ Seen

\* delete_model_access_group
DeleteGroup(g) ==
    /\ rows[g] # None
    /\ rows' = [rows EXCEPT ![g] = None]
    /\ UNCHANGED team
    /\ Seen

\* update_team: a list that is not given stays; no pattern is looked at.
UpdateTeam ==
    /\ team # None
    /\ \E list \in Lists : team' = [team EXCEPT !.list = list]
    /\ UNCHANGED rows
    /\ Seen

\* delete_team; tokens of the team lose it, at the latest when it is looked up.
DeleteTeam ==
    /\ team # None
    /\ team' = None
    /\ UNCHANGED rows
    /\ Seen

-----------------------------------------------------------------------------
Fit(patterns, m) == \E p \in patterns : <<p, m>> \in Fits

\* A query that fails is logged and taken for one that found no row.
Read(fails) ==
    /\ fails => failures < MaxFailures
    /\ failures' = IF fails THEN failures + 1 ELSE failures

\* Mutant: where the groups have no pattern the token's own list is not read.
Allowed_OwnAfterGroups(m, own, ofGroups) ==
    IF ofGroups = {} THEN TRUE ELSE Fit(own \cup ofGroups, m)

\* check_model_access: no pattern allows everything.
Allowed(m, own, ofGroups) ==
    LET patterns == own \cup ofGroups
    IN  patterns = {} \/ Fit(patterns, m)

\* resolve_group_models and check_model_access
CheckModel(r) ==
    /\ pc[r] = "model"
    /\ \E fails \in BOOLEAN :
          LET patterns == IF fails THEN {} ELSE OfGroups(token[r], rows)
          IN  /\ Read(fails)
              /\ lost' = lost \cup IF fails THEN {r} ELSE {}
              /\ pc' = [pc EXCEPT ![r] =
                           IF Allowed(model[r], token[r].own, patterns) THEN "team" ELSE "refused"]
    /\ UNCHANGED <<rows, team, token, model, offered, required, alone, changes>>

\* get_team and check_team_model_access
CheckTeam(r) ==
    /\ pc[r] = "team"
    /\ \E fails \in BOOLEAN :
          LET patterns == IF fails THEN {} ELSE OfTeam(token[r], team)
          IN  /\ Read(fails)
              /\ alone' = alone \cup IF fails THEN {r} ELSE {}
              /\ pc' = [pc EXCEPT ![r] =
                           IF Allowed(model[r], patterns, {}) THEN "provider" ELSE "refused"]
    /\ UNCHANGED <<rows, team, token, model, offered, required, lost, changes>>

\* check_provider_access: no name allows everyone.
CheckProvider(r) ==
    /\ pc[r] = "provider"
    /\ LET names == token[r].providers
       IN  pc' = [pc EXCEPT ![r] = IF names \in {None, {}} \/ Providers[model[r]] \in names
                                   THEN "sent" ELSE "refused"]
    /\ UNCHANGED <<rows, team, token, model, offered, required, lost, alone, changes, failures>>

Next ==
    \/ \E g \in Groups : CreateGroup(g) \/ UpdateGroup(g) \/ DeleteGroup(g)
    \/ UpdateTeam \/ DeleteTeam
    \/ \E r \in Requests : CheckModel(r) \/ CheckTeam(r) \/ CheckProvider(r)

Spec == Init /\ [][Next]_vars

-----------------------------------------------------------------------------
\* A request that is sent names a model that the token's list or its groups
\* allow and that its team allows. A restriction falls only where it is lost:
\* the token has no list of its own, and its groups were without a pattern or
\* could not be read; or the team was without one or could not be read.
AdmittedByPattern ==
    \A r \in Requests : pc[r] = "sent" =>
        /\ \/ Fit(token[r].own \cup offered[r], model[r])
           \/ token[r].own = {} /\ r \in lost
        /\ Fit(required[r], model[r]) \/ r \in alone

\* model_access.rs:13: only a token whose lists are NULL or empty may call every
\* model; one with groups may not.
GroupsRestrict ==
    \A r \in Requests :
        pc[r] = "sent" /\ token[r].groups # {} =>
            Fit(token[r].own \cup offered[r], model[r])

=============================================================================
