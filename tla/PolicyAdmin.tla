----------------------------- MODULE PolicyAdmin -----------------------------
(***************************************************************************)
(* Requests of administrators that change the policies of one token: the   *)
(* update and deletion of a policy (api/handlers/policies.rs), and the     *)
(* presets of guardrails that are enabled for the token or disabled        *)
(* (api/guardrail_presets.rs). Each is a series of statements without a    *)
(* transaction, and the list of a token's policies is read, changed and    *)
(* written back as a whole. The columns are those that the statements      *)
(* expect. Of the phases, the CHECK of the migrations admits "pre" and     *)
(* "post", and the presets insert "request" and "response": what it admits *)
(* is chosen at first, so that both tables are covered.                    *)
(***************************************************************************)
EXTENDS Naturals, Sequences, FiniteSetsExt

CONSTANTS
    Requests,
    Jobs,     \* what requests may ask for
    Projects, \* policies that are there at first
    Checks,   \* sets of phases, one of which the CHECK on the table admits
    None

VARIABLES
    rows,     \* policies, in the order of their creation
    ids,      \* policy_ids of the token
    versions, \* rows of policy_versions
    phases,   \* what the CHECK on policies.phase admits
    job, pc,
    target,   \* the policy that a request is about, or found, for each kind
    ident,    \* policy_ids, as it has read them
    edit,     \* the UPDATE that it is in
    doomed,   \* policies that a request disables
    begun,    \* history: rows and policy_ids when it began
    alone,    \* history: nobody else has been under way since
    written   \* history: contents that each policy has had

request == <<pc, target, ident, edit, doomed, begun, alone>>
given == <<job, phases>>
vars == <<rows, ids, versions, given, request, written>>

Kinds == {"in", "out"}

IsRow(x) ==
    /\ x = [name |-> x.name, active |-> x.active, version |-> x.version, mode |-> x.mode,
            phase |-> x.phase, rules |-> x.rules]
    /\ x.active \in BOOLEAN

\* What the constants must be: guardrails have rules, and what is updated or
\* deleted is there.
JobsAssumption ==
    /\ None \notin Nat
    /\ \A p \in Projects : p \in Seq({p[i] : i \in DOMAIN p}) /\ \A i \in DOMAIN p : IsRow(p[i])
    /\ \A j \in Jobs :
          \/ /\ j.do = "enable" /\ j.kinds \subseteq Kinds /\ j.rules # None
             /\ \A k \in Kinds : <<k, j.source>> # None
          \/ j.do = "disable"
          \/ j.do \in {"update", "delete"} /\ \A p \in Projects : j.id \in DOMAIN p

Content(i, table) ==
    [id |-> i, version |-> table[i].version, mode |-> table[i].mode,
     phase |-> table[i].phase, rules |-> table[i].rules]

Init ==
    /\ phases \in Checks
    /\ rows \in {p \in Projects : \A i \in DOMAIN p : p[i].phase \in phases}
    /\ ids = DOMAIN rows
    /\ versions = {}
    /\ job \in [Requests -> Jobs]
    /\ pc = [r \in Requests |-> "begin"]
    /\ target = [r \in Requests |-> [in |-> None, out |-> None]]
    /\ ident = [r \in Requests |-> {}]
    /\ edit = [r \in Requests |-> None]
    /\ doomed = [r \in Requests |-> {}]
    /\ begun = [r \in Requests |-> None]
    /\ alone = [r \in Requests |-> TRUE]
    /\ written = {Content(i, rows) : i \in DOMAIN rows}

Active(i) == rows[i].active

Go(r, stage) == pc' = [pc EXCEPT ![r] = stage]

table == <<rows, ids, versions, written>>

Running(q) == pc[q] \notin {"begin", "ok", "failed"}

Begin(r) ==
    /\ pc[r] = "begin"
    /\ begun' = [begun EXCEPT ![r] = [rows |-> rows, ids |-> ids]]
    /\ alone' = [q \in Requests |-> IF q = r THEN \A p \in Requests : ~ Running(p)
                                    ELSE alone[q] /\ ~ Running(q)]
    /\ Go(r, IF job[r].do \in {"enable", "disable"} THEN "list" ELSE job[r].do)
    /\ UNCHANGED <<table, given, target, ident, edit, doomed>>

-----------------------------------------------------------------------------
\* update_policy of the store: first a copy of the row, then the UPDATE.

Snapshot(r) ==
    /\ pc[r] = "snapshot"
    /\ versions' = versions \cup {Content(i, rows) : i \in {j \in {edit[r].id} : rows[j].active}}
    /\ Go(r, "write")
    /\ UNCHANGED <<rows, ids, written, given, target, ident, edit, doomed, begun, alone>>

\* UNIQUE(project_id, name), deleted rows included.
NameTaken(i, name) == \E j \in DOMAIN rows : j # i /\ rows[j].name = name

Coalesce(new, old) == IF new = None THEN old ELSE new

Edited(row, e) ==
    [row EXCEPT !.name = Coalesce(e.name, @), !.mode = Coalesce(e.mode, @),
                !.phase = Coalesce(e.phase, @), !.rules = Coalesce(e.rules, @),
                !.version = @ + 1]

\* A deleted policy stays as it is: to update it fails, the guardrails go on.
Update(r) ==
    /\ pc[r] = "write"
    /\ LET e == edit[r]
       IN  IF rows[e.id].active /\ ~ NameTaken(e.id, e.name)
           THEN /\ rows' = [rows EXCEPT ![e.id] = Edited(@, e)]
                /\ written' = written \cup {Content(e.id, rows')}
                /\ Go(r, e.then)
           ELSE /\ Go(r, IF rows[e.id].active \/ job[r].do = "update" THEN "failed" ELSE e.then)
                /\ UNCHANGED <<rows, written>>
    /\ UNCHANGED <<ids, versions, given, target, ident, edit, doomed, begun, alone>>

-----------------------------------------------------------------------------
\* api/handlers/policies.rs

\* With new rules or a new phase, the policy is read first.
UpdatePolicy(r) ==
    /\ pc[r] = "update"
    /\ IF (job[r].rules # None \/ job[r].phase # None) /\ ~ rows[job[r].id].active
       THEN Go(r, "failed") /\ UNCHANGED edit
       ELSE /\ edit' = [edit EXCEPT ![r] = [id |-> job[r].id, name |-> None, mode |-> job[r].mode,
                                            phase |-> job[r].phase, rules |-> job[r].rules,
                                            then |-> "ok"]]
            /\ Go(r, "snapshot")
    /\ UNCHANGED <<table, given, target, ident, doomed, begun, alone>>

\* Soft: the token's list keeps the id.
DeletePolicy(r) ==
    /\ pc[r] = "delete"
    /\ rows' = [rows EXCEPT ![job[r].id].active = FALSE]
    /\ Go(r, "ok")
    /\ UNCHANGED <<ids, versions, written, given, target, ident, edit, doomed, begun, alone>>

-----------------------------------------------------------------------------
\* api/guardrail_presets.rs

\* list_policies shows deleted policies as well, the last one made first.
OfKind(kinds) == {i \in DOMAIN rows : rows[i].name[1] \in kinds}

\* insert_policy's phase for the guardrails of a kind.
PhaseOf(kind) == IF kind = "in" THEN "request" ELSE "response"

\* Those for requests must have their phase, those for answers any.
Candidates(kind) == {i \in OfKind({kind}) : kind = "in" => rows[i].phase = PhaseOf("in")}

Existing(kind) == IF Candidates(kind) = {} THEN None ELSE Max(Candidates(kind))

List(r) ==
    /\ pc[r] = "list"
    /\ IF job[r].do = "enable"
       THEN /\ target' = [target EXCEPT ![r] = [in |-> Existing("in"), out |-> Existing("out")]]
            /\ Go(r, "in")
            /\ UNCHANGED doomed
       ELSE /\ doomed' = [doomed EXCEPT ![r] = OfKind(Kinds)]
            /\ Go(r, IF OfKind(Kinds) = {} THEN "ok" ELSE "token")
            /\ UNCHANGED target
    /\ UNCHANGED <<table, given, ident, edit, begun, alone>>

\* The policy of one kind is renamed and updated, or made, if a preset is for
\* it. The INSERT fails if the name is taken or the CHECK refuses the phase.
Upsert(r, kind, then) ==
    /\ pc[r] = kind
    /\ LET name == <<kind, job[r].source>>
           i    == target[r][kind]
       IN  CASE kind \notin job[r].kinds ->
                  Go(r, then) /\ UNCHANGED <<table, edit, target>>
             [] kind \in job[r].kinds /\ i # None ->
                  /\ edit' = [edit EXCEPT ![r] = [id |-> i, name |-> name, mode |-> None,
                                                  phase |-> None, rules |-> job[r].rules,
                                                  then |-> then]]
                  /\ Go(r, "snapshot")
                  /\ UNCHANGED <<table, target>>
             [] kind \in job[r].kinds /\ i = None
                /\ (NameTaken(0, name) \/ PhaseOf(kind) \notin phases) ->
                  Go(r, "failed") /\ UNCHANGED <<table, edit, target>>
             [] OTHER ->
                  /\ rows' = Append(rows, [name |-> name, active |-> TRUE, version |-> 1,
                                           mode |-> "enforce", phase |-> PhaseOf(kind),
                                           rules |-> job[r].rules])
                  /\ written' = written \cup {Content(Len(rows'), rows')}
                  /\ target' = [target EXCEPT ![r][kind] = Len(rows')]
                  /\ Go(r, then)
                  /\ UNCHANGED <<ids, versions, edit>>
    /\ UNCHANGED <<given, ident, doomed, begun, alone>>

GetToken(r) ==
    /\ pc[r] = "token"
    /\ ident' = [ident EXCEPT ![r] = ids]
    /\ Go(r, "attach")
    /\ UNCHANGED <<table, given, target, edit, doomed, begun, alone>>

\* The policy for requests as it was found or made, that for answers only if
\* a preset is for it.
Enabled(r) == {target[r][k] : k \in {"in"} \cup job[r].kinds} \ {None}

\* Mutant: the token gets the policies of the guardrails for its own.
Attached_Only(r) == IF job[r].do = "enable" THEN Enabled(r) ELSE ident[r] \ doomed[r]

Attached(r) == IF job[r].do = "enable" THEN ident[r] \cup Enabled(r) ELSE ident[r] \ doomed[r]

SetTokenPolicyIds(r) ==
    /\ pc[r] = "attach"
    /\ ids' = Attached(r)
    /\ Go(r, IF job[r].do = "enable" THEN "ok" ELSE "remove")
    /\ UNCHANGED <<rows, versions, written, given, target, ident, edit, doomed, begun, alone>>

\* One by one; a policy that could not be deleted is not minded.
Deactivate(r) ==
    /\ pc[r] = "remove"
    /\ LET left == {i \in doomed[r] : rows[i].active}
       IN  IF left = {} THEN Go(r, "ok") /\ UNCHANGED rows
           ELSE rows' = [rows EXCEPT ![Max(left)].active = FALSE] /\ UNCHANGED pc
    /\ UNCHANGED <<ids, versions, written, given, target, ident, edit, doomed, begun, alone>>

Next ==
    \E r \in Requests :
        \/ Begin(r) \/ UpdatePolicy(r) \/ DeletePolicy(r) \/ List(r)
        \/ Upsert(r, "in", "out") \/ Upsert(r, "out", "token")
        \/ Snapshot(r) \/ Update(r) \/ GetToken(r) \/ SetTokenPolicyIds(r) \/ Deactivate(r)

Spec == Init /\ [][Next]_vars

-----------------------------------------------------------------------------

\* get_policies_for_token: every phase but "post" is read as Phase::Pre.
When(row) == IF row.phase = "post" THEN "post" ELSE "pre"

\* The policies it finds for requests ("pre") and for answers ("post").
Enforced(when) == {i \in ids : rows[i].active /\ When(rows[i]) = when}

Unchanged(r, untouched) == \A i \in untouched : rows[i] = begun[r].rows[i]

Was(r) == DOMAIN begun[r].rows

Revived(r) == \E i \in Was(r) : begun[r].rows[i].name[1] \in job[r].kinds /\ ~ begun[r].rows[i].active

EnableHolds(r) ==
    /\ begun[r].ids \subseteq ids
    /\ Unchanged(r, {i \in Was(r) : rows[i].name[1] \notin job[r].kinds})
    /\ \A k \in job[r].kinds :
          \E i \in Enforced("pre") \cup Enforced("post") :
              /\ rows[i].name = <<k, job[r].source>> /\ rows[i].rules = job[r].rules
              /\ i \in Enforced("pre") \/ (k = "out" /\ i \in Was(r))

EnableFailed(r) ==
    /\ ids = begun[r].ids
    /\ Unchanged(r, {i \in Was(r) : rows[i].name[1] \notin job[r].kinds})

DisableHolds(r) ==
    /\ ids = {i \in begun[r].ids : rows[i].name[1] \notin Kinds}
    /\ Unchanged(r, {i \in Was(r) : rows[i].name[1] \notin Kinds})
    /\ \A i \in OfKind(Kinds) : ~ rows[i].active

\* What was replaced can be read in the history.
UpdateHolds(r) ==
    LET i == job[r].id
    IN  /\ rows[i].mode = Coalesce(job[r].mode, begun[r].rows[i].mode)
        /\ rows[i].phase = Coalesce(job[r].phase, begun[r].rows[i].phase)
        /\ rows[i].rules = Coalesce(job[r].rules, begun[r].rows[i].rules)
        /\ Unchanged(r, Was(r) \ {i})
        /\ ids = begun[r].ids
        /\ Content(i, begun[r].rows) \in versions

\* A request that nobody else has disturbed did what it answers, whatever the
\* requests before it left. The guardrails it enabled are in force beside the
\* policies that the token had: on requests, those meant for answers too, but
\* for one that was there before and has the phase "post" (see
\* AnswersGuarded). Those it disabled are not in force and nothing else has
\* changed, and the rules that it replaced are in the history. Enabling that
\* fails leaves the token's list, and every policy that is no guardrail, as it
\* was. Guardrails that had been deleted before are left out: see
\* ReenabledIsEnforced.
AnswersHold ==
    [][\A r \in Requests : Running(r) /\ alone[r] =>
           /\ pc'[r] = "ok" =>
                 CASE job[r].do = "enable"  -> Revived(r) \/ EnableHolds(r)'
                   [] job[r].do = "disable" -> DisableHolds(r)'
                   [] job[r].do = "update"  -> UpdateHolds(r)'
                   [] OTHER                 -> ~ rows'[job[r].id].active
           /\ pc'[r] = "failed" /\ job[r].do = "enable" =>
                 Revived(r) \/ EnableFailed(r)']_vars

\* guardrail_presets.rs: "Returns true if the preset name is an output
\* (response-phase) guardrail." Its phase is refused, or read as Phase::Pre.
AnswersGuarded ==
    [][\A r \in Requests : Running(r) /\ pc'[r] = "ok" /\ alone[r] =>
           (job[r].do = "enable" /\ "out" \in job[r].kinds =>
                \E i \in Enforced("post")' : rows'[i].name[1] = "out")]_vars

\* guardrail_presets.rs: "Check for existing guardrails (idempotent upsert)".
\* An existing one that has been disabled is updated in vain.
ReenabledIsEnforced ==
    [][\A r \in Requests : Running(r) /\ pc'[r] = "ok" /\ alone[r] /\ job[r].do = "enable" =>
           EnableHolds(r)']_vars

\* A preset that was enabled is enforced until it is disabled or deleted.
EnabledStays ==
    \A r \in Requests :
        /\ pc[r] = "ok" /\ job[r].do = "enable" /\ ~ Revived(r)
        /\ \A q \in Requests : job[q].do \in {"disable", "delete"} => pc[q] = "begin"
        => \A k \in job[r].kinds :
               \E i \in Enforced("pre") \cup Enforced("post") : rows[i].name[1] = k

\* migrations/011: "snapshot every edit as an immutable row".
HistoryComplete == written \subseteq versions \cup {Content(i, rows) : i \in DOMAIN rows}

=============================================================================
