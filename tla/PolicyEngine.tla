---------------------------- MODULE PolicyEngine ----------------------------
(***************************************************************************)
(* The policy engine (middleware/engine, models/policy.rs): which actions  *)
(* a request triggers. A condition is a tree; here it is the sequence of   *)
(* its nodes, children before parents and the root last, and "of" holds    *)
(* the positions of a node's children. A field that does not resolve is    *)
(* Missing; a pattern operator (in, glob, regex, contains, starts_with,    *)
(* ends_with) is membership in the set of the values it matches.           *)
(***************************************************************************)
EXTENDS Naturals, Sequences, FiniteSets, SequencesExt

CONSTANTS
    Missing,  \* a field that does not resolve
    MaxDepth  \* MAX_RECURSION_DEPTH

ASSUME PolicyAssumption == MaxDepth \in Nat

\* Every operator but exists is false of a field that does not resolve, and
\* an order is false of values that are not numbers.
Compare(op, actual, expected) ==
    /\ actual # Missing
    /\ \/ op = "exists"
       \/ op = "eq"      /\ actual = expected
       \/ op = "neq"     /\ actual # expected
       \/ op = "gt"      /\ actual \in Nat /\ actual > expected
       \/ op = "gte"     /\ actual \in Nat /\ actual >= expected
       \/ op = "lt"      /\ actual \in Nat /\ actual < expected
       \/ op = "lte"     /\ actual \in Nat /\ actual <= expected
       \/ op = "matches" /\ actual \in expected

\* An empty all is false, and so is any node below the depth limit.
Holds(cond, fields) ==
    LET holds[i \in DOMAIN cond, depth \in 0..(MaxDepth + 1)] ==
            LET node     == cond[i]
                child(k) == holds[k, depth + 1]
            IN  /\ depth <= MaxDepth
                /\ \/ node.kind = "always"
                   \/ node.kind = "check" /\ Compare(node.op, fields[node.field], node.value)
                   \/ node.kind = "all"   /\ node.of # {} /\ \A k \in node.of : child(k)
                   \/ node.kind = "any"   /\ \E k \in node.of : child(k)
                   \/ node.kind = "not"   /\ \A k \in node.of : ~child(k)
    IN  holds[Len(cond), 0]

\* The rules of the policies of a phase in order, each with its mode.
RulesOf(policies, phase) ==
    FlattenSeq([i \in DOMAIN policies |->
        IF policies[i].phase = phase
        THEN [j \in DOMAIN policies[i].rules |->
                 [rule |-> policies[i].rules[j], mode |-> policies[i].mode]]
        ELSE <<>>])

Kinds(actions) == {actions[i].kind : i \in DOMAIN actions}

\* Mutant: a deny that is only shadowed ends the evaluation too.
Stops_Shadow(entry) == "deny" \in Kinds(entry.rule.then)

\* An enforced deny ends the evaluation, also when its rule is asynchronous.
Stops(entry) == entry.mode = "enforce" /\ "deny" \in Kinds(entry.rule.then)

\* What the handler gets: the actions to execute, those to evaluate in the
\* background, and the number of rules that a shadow policy would have
\* triggered.
EvaluatePolicies(policies, fields, phase) ==
    LET rules   == RulesOf(policies, phase)
        matched == {i \in DOMAIN rules : Holds(rules[i].rule.when, fields)}
        reached == {i \in matched : \A j \in matched : j < i => ~Stops(rules[j])}
        triggered(async) ==
            FlattenSeq([i \in DOMAIN rules |->
                IF i \in reached /\ rules[i].mode = "enforce" /\ rules[i].rule.async = async
                THEN rules[i].rule.then ELSE <<>>])
    IN  [actions |-> triggered(FALSE),
         async   |-> triggered(TRUE),
         shadow  |-> Cardinality({i \in reached : rules[i].mode = "shadow"})]

\* Blocked tools first; then the whitelist, unless it is empty.
ToolsPermitted(tools, allowed, blocked) ==
    /\ tools \cap blocked = {}
    /\ allowed # {} => tools \subseteq allowed

\* The patterns of the token and of its groups; none at all allows any model.
ModelPermitted(model, patterns) == patterns = {} \/ model \in patterns

\* The target of the first branch of a conditional route whose comparison
\* holds, or else the fallback, if there is one. Branches use the operators
\* exists, eq, neq and the matching ones.
RouteTargets(branches, fallback, fields) ==
    LET match == SelectInSeq(branches, LAMBDA b : Compare(b.op, fields[b.field], b.value))
    IN  IF match # 0 THEN {branches[match].target} ELSE fallback

-----------------------------------------------------------------------------
\* Presets a client asks for in headers; the action carries the preset's
\* name as its policy's.

PresetAction(preset) ==
    IF preset \in {"prompt_injection", "code_injection"}
    THEN [kind |-> "filter", policy |-> preset]
    ELSE [kind |-> "redact", policy |-> preset, blocks |-> preset = "pii_block"]

PresetActions(presets) == [i \in DOMAIN presets |-> PresetAction(presets[i])]

\* X-TrueFlow-Guardrails: presets replace the policies' actions, or go first.
WithGuardrails(actions, header) ==
    IF header.mode = "disabled" \/ header.guardrails = <<>> THEN actions
    ELSE PresetActions(header.guardrails)
             \o (IF header.mode = "override" THEN <<>> ELSE actions)

\* X-TrueFlow-Guardrails-Enable.
WithEnabled(actions, header) ==
    IF header.mode = "disabled" THEN actions
    ELSE PresetActions(header.enable) \o actions

\* X-TrueFlow-Guardrails-Disable removes by the policy's name, whatever the
\* action.
WithoutDisabled(actions, header) ==
    IF header.mode = "disabled" THEN actions
    ELSE FlattenSeq([i \in DOMAIN actions |->
             IF actions[i].policy \in header.disable THEN <<>> ELSE <<actions[i]>>])

\* The actions the handler's loop executes.
PreFlightActions(policies, fields, header) ==
    WithoutDisabled(
        WithEnabled(
            WithGuardrails(EvaluatePolicies(policies, fields, "pre").actions, header),
            header),
        header)

-----------------------------------------------------------------------------
\* What policies promise.

\* What the code's types say of policies and headers: that lists are lists.
IsList(s) == s \in Seq(ToSet(s))

PoliciesTyped(policies) ==
    /\ IsList(policies)
    /\ \A i \in DOMAIN policies :
          /\ IsList(policies[i].rules)
          /\ \A j \in DOMAIN policies[i].rules :
                /\ IsList(policies[i].rules[j].then)
                /\ policies[i].rules[j].async \in BOOLEAN

HeaderTyped(header) == IsList(header.guardrails) /\ IsList(header.enable)

\* Places, in the order of evaluation, of the enforced rules with a deny that
\* a request matches.
Denials(policies, fields) ==
    LET rules == RulesOf(policies, "pre")
    IN  {k \in DOMAIN rules : Stops(rules[k]) /\ Holds(rules[k].rule.when, fields)}

\* The client's headers take an action out, if the token lets them.
Spared(action, header) ==
    /\ header.mode # "disabled"
    /\ \/ header.mode = "override" /\ header.guardrails # <<>>
       \/ action.policy \in header.disable

\* A deny that does not count: it is asynchronous, or taken out.
Voided(rule, header) ==
    \/ rule.async
    \/ \A i \in DOMAIN rule.then : rule.then[i].kind = "deny" => Spared(rule.then[i], header)

Forbids(policies, fields, header) ==
    LET rules == RulesOf(policies, "pre")
    IN  \E k \in Denials(policies, fields) :
           \A j \in Denials(policies, fields) : j <= k => ~Voided(rules[j].rule, header)

=============================================================================
