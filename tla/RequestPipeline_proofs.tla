----------------------- MODULE RequestPipeline_proofs -----------------------
(***************************************************************************)
(* Proofs about RequestPipeline, for any requests, policies, model lists,  *)
(* upstreams and bounds. What one handler knows of its own request is      *)
(* inductive stage by stage (HandlerInv); what requests share is tied to   *)
(* the handlers by an invariant of each: the cache to the handlers that    *)
(* stored (CacheInv), the counters to the calls (Counted), and the windows *)
(* to the limits that were passed (WindowsInv). A deny stays among the     *)
(* actions to execute until one of them ends the request (DenyInv).        *)
(* What is charged is known exactly, in order, at every stage (Charged).   *)
(***************************************************************************)
EXTENDS RequestPipeline, FiniteSetTheorems, WellFoundedInduction, TLAPS

-----------------------------------------------------------------------------
\* Proof that a deny reaches the handler's loop, whatever other rules and
\* headers there are.

\* Induction, for a set of numbers.
LEMMA SetInduction ==
  ASSUME NEW S, 0 \in S, \A n \in Nat : n \in S => n + 1 \in S
  PROVE  Nat \subseteq S
<1>. DEFINE T == Nat \ S
<1>. SUFFICES ASSUME T # {} PROVE FALSE
  OBVIOUS
<1>1. PICK n \in T : \A m \in T : <<m, n>> \notin OpToRel(<, Nat)
  BY NatLessThanWellFounded, WFMin, T \subseteq Nat
<1>2. n - 1 \in Nat /\ (n - 1) + 1 = n
  OBVIOUS
<1>3. n - 1 \in T
  BY <1>2
<1>4. <<n - 1, n>> \in OpToRel(<, Nat)
  BY <1>2 DEF OpToRel
<1>. QED  BY <1>1, <1>3, <1>4

\* A set of numbers has a first one.
LEMMA FirstOf ==
  ASSUME NEW S \in SUBSET Nat, NEW k \in S
  PROVE  \E n \in S : n <= k /\ \A m \in S : n <= m
<1>1. PICK n \in S : \A m \in S : <<m, n>> \notin OpToRel(<, Nat)
  BY NatLessThanWellFounded, WFMin
<1>2. \A m \in S : ~(m < n)
  BY <1>1 DEF OpToRel
<1>. QED  BY <1>2

\* What FlattenSeq computes, step by step.
Flattens(f, q, n) == f = [i \in 1..n |-> IF i = 1 THEN q[i] ELSE f[i - 1] \o q[i]]

\* Its recursion has a result.
LEMMA FlattenDefined ==
  ASSUME NEW q, NEW n \in Nat
  PROVE  \E f : Flattens(f, q, n)
<1>. DEFINE S == {k \in Nat : \E f : Flattens(f, q, k)}
<1>1. 0 \in S
  <2>1. Flattens([i \in 1..0 |-> q[i]], q, 0)
    BY DEF Flattens
  <2>. QED  BY <2>1
<1>2. ASSUME NEW k \in Nat, k \in S PROVE k + 1 \in S
  <2>1. PICK f : Flattens(f, q, k)
    BY <1>2
  <2>. DEFINE step(g, i) == IF i = 1 THEN q[i] ELSE g[i - 1] \o q[i]
              g == [i \in 1..(k + 1) |-> IF i <= k THEN f[i] ELSE step(f, i)]
  <2>2. \A i \in 1..k : f[i] = step(f, i)
    BY <2>1 DEF Flattens
  <2>3. ASSUME NEW i \in 1..(k + 1) PROVE g[i] = step(g, i)
    <3>1. g[i] = step(f, i)
      BY <2>2
    <3>2. i # 1 => i - 1 \in 1..(k + 1) /\ i - 1 <= k
      OBVIOUS
    <3>3. i # 1 => g[i - 1] = f[i - 1]
      BY <3>2
    <3>. QED  BY <3>1, <3>3
  <2>4. g = [i \in 1..(k + 1) |-> step(g, i)]
    <3>1. g = [i \in 1..(k + 1) |-> g[i]]
      OBVIOUS
    <3>. HIDE DEF g
    <3>. QED  BY <2>3, <3>1
  <2>5. Flattens(g, q, k + 1)
    <3>. HIDE DEF g
    <3>. QED  BY <2>4 DEF Flattens
  <2>. QED  BY <2>5
<1>3. Nat \subseteq S
  <2>. HIDE DEF S
  <2>. QED  BY <1>1, <1>2, SetInduction
<1>. QED  BY <1>3

\* FlattenSeq keeps the elements of the sequences and adds none.
LEMMA FlattenKeeps ==
  ASSUME NEW E, NEW q \in Seq(Seq(E))
  PROVE  /\ FlattenSeq(q) \in Seq(E)
         /\ \A i \in DOMAIN q : \A k \in DOMAIN q[i] :
               \E m \in DOMAIN FlattenSeq(q) : FlattenSeq(q)[m] = q[i][k]
<1>1. CASE Len(q) = 0
  <2>1. FlattenSeq(q) = <<>> /\ q = <<>>
    BY <1>1 DEF FlattenSeq
  <2>. QED  BY <2>1
<1>2. CASE Len(q) # 0
  <2>0. Len(q) \in Nat \ {0} /\ DOMAIN q = 1..Len(q) /\ \A i \in 1..Len(q) : q[i] \in Seq(E)
    BY <1>2
  <2>1. PICK f : Flattens(f, q, Len(q)) /\ FlattenSeq(q) = f[Len(q)]
    <3>. DEFINE f == CHOOSE f : Flattens(f, q, Len(q))
    <3>1. Flattens(f, q, Len(q))
      BY <2>0, FlattenDefined
    <3>2. FlattenSeq(q) = f[Len(q)]
      BY <1>2, Zenon DEF FlattenSeq, Flattens
    <3>. QED  BY <3>1, <3>2, Zenon
  <2>3. /\ f[1] = q[1]
        /\ \A i \in 1..(Len(q) - 1) : f[i + 1] = f[i] \o q[i + 1]
    <3>1. \A i \in 1..Len(q) : f[i] = IF i = 1 THEN q[i] ELSE f[i - 1] \o q[i]
      BY <2>1 DEF Flattens
    <3>2. ASSUME NEW i \in 1..(Len(q) - 1) PROVE f[i + 1] = f[i] \o q[i + 1]
      <4>1. i + 1 \in 1..Len(q) /\ i + 1 # 1 /\ i + 1 - 1 = i
        BY <2>0
      <4>. DEFINE Joined(s, t) == s \o t
      <4>2. \A j \in 1..Len(q) : j # 1 => f[j] = Joined(f[j - 1], q[j])
        BY <3>1, Zenon
      <4>. HIDE DEF Joined
      <4>3. f[i + 1] = Joined(f[i], q[i + 1])
        BY <4>1, <4>2
      <4>. QED  BY <4>3, Zenon DEF Joined
    <3>3. 1 \in 1..Len(q)
      BY <2>0
    <3>4. f[1] = q[1]
      BY <3>1, <3>3, Zenon
    <3>. QED  BY <3>2, <3>4, Zenon
  <2>. DEFINE Has(s, i) == \A k \in DOMAIN q[i] : \E m \in DOMAIN s : s[m] = q[i][k]
              Good(n) == f[n] \in Seq(E) /\ \A i \in 1..n : Has(f[n], i)
              S == {n \in Nat : n \in 1..Len(q) => Good(n)}
  <2>4. 0 \in S
    OBVIOUS
  <2>5. ASSUME NEW n \in Nat, n \in S, n + 1 \in 1..Len(q)
        PROVE  Good(n + 1)
    <3>1. CASE n = 0
      <4>1. n + 1 = 1 /\ f[1] = q[1]
        BY <2>0, <2>3, <3>1
      <4>. QED  BY <2>0, <4>1
    <3>2. CASE n # 0
      <4>1. n \in 1..Len(q) /\ n + 1 \in 1..Len(q) /\ n + 1 # 1 /\ n + 1 - 1 = n
        BY <2>0, <2>5, <3>2
      <4>2. f[n + 1] = f[n] \o q[n + 1]
        <5>1. n \in 1..(Len(q) - 1)
          BY <2>0, <4>1
        <5>. QED  BY <2>3, <5>1
      <4>3. f[n] \in Seq(E) /\ q[n + 1] \in Seq(E) /\ \A i \in 1..n : Has(f[n], i)
        BY <2>0, <2>5, <4>1
      <4>. DEFINE Joins(u, s, t) ==
                    /\ u \in Seq(E)
                    /\ \A m \in DOMAIN s : m \in DOMAIN u /\ u[m] = s[m]
                    /\ \A m \in DOMAIN t : Len(s) + m \in DOMAIN u /\ u[Len(s) + m] = t[m]
      <4>4. ASSUME NEW s \in Seq(E), NEW t \in Seq(E), NEW u, u = s \o t
            PROVE  Joins(u, s, t)
        BY <4>4
      <4>5. Joins(f[n + 1], f[n], q[n + 1])
        <5>. HIDE DEF Joins
        <5>. QED  BY <4>2, <4>3, <4>4, Zenon
      <4>6. ASSUME NEW i \in 1..(n + 1), NEW k \in DOMAIN q[i]
            PROVE  \E m \in DOMAIN f[n + 1] : f[n + 1][m] = q[i][k]
        <5>1. CASE i = n + 1
          BY <4>5, <5>1
        <5>2. CASE i # n + 1
          <6>1. i \in 1..n
            BY <5>2
          <6>2. PICK m \in DOMAIN f[n] : f[n][m] = q[i][k]
            BY <4>3, <6>1
          <6>. QED  BY <4>5, <6>2
        <5>. QED  BY <5>1, <5>2
      <4>. QED  BY <4>5, <4>6
    <3>. QED  BY <3>1, <3>2
  <2>6. Nat \subseteq S
    <3>1. ASSUME NEW n \in Nat, n \in S PROVE n + 1 \in S
      <4>1. n + 1 \in Nat
        OBVIOUS
      <4>2. n + 1 \in 1..Len(q) => Good(n + 1)
        BY <2>5, <3>1
      <4>. HIDE DEF Good
      <4>. QED  BY <4>1, <4>2, Zenon
    <3>. HIDE DEF S
    <3>. QED  BY <2>4, <3>1, SetInduction
  <2>7. Good(Len(q))
    <3>. HIDE DEF Good
    <3>. QED  BY <2>0, <2>6
  <2>. QED  BY <2>0, <2>1, <2>7
<1>. QED  BY <1>1, <1>2

\* x is in the list s.
Lists(s, x) == \E m \in DOMAIN s : s[m] = x

\* A sequence is a list of what is in it.
LEMMA ListOf ==
  ASSUME NEW E, NEW s \in Seq(E)
  PROVE  IsList(s)
<1>1. DOMAIN s = 1..Len(s) /\ Len(s) \in Nat /\ s = [i \in 1..Len(s) |-> s[i]]
  OBVIOUS
<1>2. \A i \in 1..Len(s) : s[i] \in ToSet(s)
  BY <1>1 DEF ToSet
<1>. HIDE DEF ToSet
<1>. QED  BY <1>1, <1>2 DEF IsList

\* Two lists, one after the other, are a list of what is in both.
LEMMA JoinedLists ==
  ASSUME NEW s, NEW t, IsList(s), IsList(t)
  PROVE  /\ IsList(s \o t)
         /\ \A x : Lists(t, x) => Lists(s \o t, x)
<1>. DEFINE E == ToSet(s) \cup ToSet(t)
<1>1. s \in Seq(E) /\ t \in Seq(E)
  <2>1. s \in Seq(ToSet(s)) /\ t \in Seq(ToSet(t))
    BY DEF IsList
  <2>2. \A A, B : A \subseteq B => Seq(A) \subseteq Seq(B)
    OBVIOUS
  <2>. QED  BY <2>1, <2>2
<1>. HIDE DEF E
<1>2. s \o t \in Seq(E)
  BY <1>1
<1>3. \A m \in DOMAIN t : Len(s) + m \in DOMAIN (s \o t) /\ (s \o t)[Len(s) + m] = t[m]
  BY <1>1
<1>. QED  BY <1>2, <1>3, ListOf DEF Lists

\* A list of lists, made one or none at each place, in one.
LEMMA FlattenedList ==
  ASSUME NEW D, NEW n \in Nat, D = 1..n, NEW q, q = [i \in D |-> q[i]],
         \A i \in D : IsList(q[i])
  PROVE  /\ IsList(FlattenSeq(q))
         /\ \A i \in D : \A x : Lists(q[i], x) => Lists(FlattenSeq(q), x)
         /\ \A m \in DOMAIN FlattenSeq(q) :
               \E i \in D : Lists(q[i], FlattenSeq(q)[m])
<1>. DEFINE E == UNION {ToSet(q[i]) : i \in D}
<1>1. \A i \in D : q[i] \in Seq(E)
  <2>1. \A A, B : A \subseteq B => Seq(A) \subseteq Seq(B)
    OBVIOUS
  <2>2. ASSUME NEW i \in D PROVE q[i] \in Seq(E)
    <3>1. q[i] \in Seq(ToSet(q[i])) /\ ToSet(q[i]) \subseteq E
      BY DEF IsList
    <3>. HIDE DEF E
    <3>. QED  BY <2>1, <3>1
  <2>. QED  BY <2>2
<1>2. \A x \in E : \E i \in D : Lists(q[i], x)
  BY DEF ToSet, Lists
<1>. HIDE DEF E
<1>3. q \in Seq(Seq(E)) /\ DOMAIN q = D
  BY <1>1
<1>4. FlattenSeq(q) \in Seq(E)
  BY <1>3, FlattenKeeps
<1>5. \A m \in DOMAIN FlattenSeq(q) : FlattenSeq(q)[m] \in E
  BY <1>4
<1>6. \A i \in D : \A k \in DOMAIN q[i] : Lists(FlattenSeq(q), q[i][k])
  BY <1>3, FlattenKeeps, Zenon DEF Lists
<1>7. \A i \in D : \A x : Lists(q[i], x) => Lists(FlattenSeq(q), x)
  BY <1>6, Zenon DEF Lists
<1>. QED  BY <1>2, <1>4, <1>5, <1>7, ListOf, Zenon

\* Rules are those of the policies.
LEMMA RulesTyped ==
  ASSUME NEW policies, PoliciesTyped(policies), NEW phase
  PROVE  LET rules == RulesOf(policies, phase)
         IN  /\ IsList(rules)
             /\ \A k \in DOMAIN rules : /\ IsList(rules[k].rule.then)
                                        /\ rules[k].rule.async \in BOOLEAN
<1>. DEFINE n == Len(policies)
            entry(i, j) == [rule |-> policies[i].rules[j], mode |-> policies[i].mode]
            entries(i) == [j \in DOMAIN policies[i].rules |-> entry(i, j)]
            q == [i \in DOMAIN policies |->
                    IF policies[i].phase = phase THEN entries(i) ELSE <<>>]
            good(e) == IsList(e.rule.then) /\ e.rule.async \in BOOLEAN
<1>1. n \in Nat /\ DOMAIN policies = 1..n
  BY DEF PoliciesTyped, IsList
<1>2. RulesOf(policies, phase) = FlattenSeq(q)
  BY Zenon DEF RulesOf
<1>3. ASSUME NEW i \in DOMAIN policies
      PROVE  IsList(q[i]) /\ \A x : Lists(q[i], x) => good(x)
  <2>1. CASE policies[i].phase = phase
    <3>1. q[i] = entries(i)
      BY <2>1
    <3>2. IsList(policies[i].rules)
      BY DEF PoliciesTyped
    <3>3. DOMAIN policies[i].rules = 1..Len(policies[i].rules) /\ Len(policies[i].rules) \in Nat
      BY <3>2 DEF IsList
    <3>4. entries(i) \in Seq({entry(i, j) : j \in DOMAIN policies[i].rules})
      BY <3>3
    <3>5. \A j \in DOMAIN entries(i) : good(entries(i)[j])
      <4>1. ASSUME NEW j \in DOMAIN policies[i].rules PROVE good(entry(i, j))
        BY DEF PoliciesTyped
      <4>2. \A j \in DOMAIN entries(i) :
               j \in DOMAIN policies[i].rules /\ entries(i)[j] = entry(i, j)
        OBVIOUS
      <4>. HIDE DEF good, entry, entries
      <4>. QED  BY <4>1, <4>2
    <3>. HIDE DEF entries, good
    <3>. QED  BY <3>1, <3>4, <3>5, ListOf, Zenon DEF Lists
  <2>2. CASE policies[i].phase # phase
    <3>1. q[i] = <<>>
      BY <2>2
    <3>2. <<>> \in Seq({}) /\ DOMAIN <<>> = {}
      OBVIOUS
    <3>. QED  BY <3>1, <3>2, ListOf DEF Lists
  <2>. QED  BY <2>1, <2>2
<1>4. q = [i \in DOMAIN policies |-> q[i]]
  OBVIOUS
<1>. HIDE DEF q, good, n
<1>5. /\ IsList(FlattenSeq(q))
      /\ \A m \in DOMAIN FlattenSeq(q) :
            \E i \in DOMAIN policies : Lists(q[i], FlattenSeq(q)[m])
  BY <1>1, <1>3, <1>4, FlattenedList, Zenon
<1>6. \A m \in DOMAIN FlattenSeq(q) : good(FlattenSeq(q)[m])
  BY <1>3, <1>5, Zenon
<1>. QED  BY <1>2, <1>5, <1>6, Zenon DEF good

\* The actions of the first enforced deny that matches are those that the
\* handler executes, unless the rule is asynchronous.
LEMMA FirstDenyTriggered ==
  ASSUME NEW policies, PoliciesTyped(policies), NEW fields, NEW phase,
         NEW rules, rules = RulesOf(policies, phase),
         NEW d \in DOMAIN rules, Holds(rules[d].rule.when, fields), Stops(rules[d]),
         ~rules[d].rule.async,
         \A j \in DOMAIN rules :
            j < d => ~(Holds(rules[j].rule.when, fields) /\ Stops(rules[j]))
  PROVE  LET actions == EvaluatePolicies(policies, fields, phase).actions
         IN  /\ IsList(actions)
             /\ \A x : Lists(rules[d].rule.then, x) => Lists(actions, x)
<1>. DEFINE matched == {i \in DOMAIN rules : Holds(rules[i].rule.when, fields)}
            reached == {i \in matched : \A j \in matched : j < i => ~Stops(rules[j])}
            q == [i \in DOMAIN rules |->
                    IF i \in reached /\ rules[i].mode = "enforce" /\ rules[i].rule.async = FALSE
                    THEN rules[i].rule.then ELSE <<>>]
<1>1. EvaluatePolicies(policies, fields, phase).actions = FlattenSeq(q)
  BY DEF EvaluatePolicies
<1>2. /\ IsList(rules)
      /\ \A k \in DOMAIN rules : /\ IsList(rules[k].rule.then)
                                 /\ rules[k].rule.async \in BOOLEAN
  BY RulesTyped, Zenon
<1>3. Len(rules) \in Nat /\ DOMAIN rules = 1..Len(rules)
  BY <1>2 DEF IsList
<1>4. d \in reached
  OBVIOUS
<1>5. rules[d].mode = "enforce" /\ rules[d].rule.async = FALSE
  BY <1>2 DEF Stops
<1>6. q[d] = rules[d].rule.then
  BY <1>4, <1>5
<1>7. \A i \in DOMAIN rules : IsList(q[i])
  <2>1. IsList(<<>>)
    <3>1. <<>> \in Seq({})
      OBVIOUS
    <3>. QED  BY <3>1, ListOf
  <2>2. \A i \in DOMAIN rules : q[i] \in {rules[i].rule.then, <<>>}
    OBVIOUS
  <2>. HIDE DEF q
  <2>. QED  BY <1>2, <2>1, <2>2
<1>8. q = [i \in DOMAIN rules |-> q[i]]
  OBVIOUS
<1>. HIDE DEF q
<1>9. /\ IsList(FlattenSeq(q))
      /\ \A i \in DOMAIN rules : \A x : Lists(q[i], x) => Lists(FlattenSeq(q), x)
  BY <1>3, <1>7, <1>8, FlattenedList, Zenon
<1>. QED  BY <1>1, <1>6, <1>9, Zenon

\* Headers keep an action, unless they override it or name its policy.
LEMMA HeadersKeep ==
  ASSUME NEW actions, IsList(actions), NEW header, HeaderTyped(header),
         NEW x, Lists(actions, x),
         \/ header.mode = "disabled"
         \/ /\ ~(header.mode = "override" /\ header.guardrails # <<>>)
            /\ x.policy \notin header.disable
  PROVE  LET kept == WithoutDisabled(WithEnabled(WithGuardrails(actions, header), header),
                                     header)
         IN  IsList(kept) /\ Lists(kept, x)
<1>. DEFINE guarded == WithGuardrails(actions, header)
            enabled == WithEnabled(guarded, header)
<1>1. ASSUME NEW presets, IsList(presets) PROVE IsList(PresetActions(presets))
  <2>1. DOMAIN presets = 1..Len(presets) /\ Len(presets) \in Nat
    BY <1>1 DEF IsList
  <2>2. PresetActions(presets) \in Seq({PresetAction(presets[i]) : i \in DOMAIN presets})
    BY <2>1 DEF PresetActions
  <2>. QED  BY <2>2, ListOf
<1>2. CASE header.mode = "disabled"
  BY <1>2 DEF WithGuardrails, WithEnabled, WithoutDisabled
<1>3. CASE header.mode # "disabled"
  <2>1. IsList(guarded) /\ Lists(guarded, x)
    <3>1. CASE header.guardrails = <<>>
      BY <3>1 DEF WithGuardrails
    <3>2. CASE header.guardrails # <<>>
      <4>1. guarded = PresetActions(header.guardrails) \o actions
        BY <1>3, <3>2 DEF WithGuardrails
      <4>. QED  BY <1>1, <4>1, JoinedLists DEF HeaderTyped
    <3>. QED  BY <3>1, <3>2
  <2>. HIDE DEF guarded
  <2>2. enabled = PresetActions(header.enable) \o guarded
    BY <1>3 DEF WithEnabled
  <2>3. IsList(enabled) /\ Lists(enabled, x)
    BY <1>1, <2>1, <2>2, JoinedLists DEF HeaderTyped
  <2>. HIDE DEF enabled
  <2>. DEFINE q == [i \in DOMAIN enabled |->
                       IF enabled[i].policy \in header.disable THEN <<>> ELSE <<enabled[i]>>]
  <2>4. WithoutDisabled(enabled, header) = FlattenSeq(q)
    BY <1>3 DEF WithoutDisabled
  <2>5. Len(enabled) \in Nat /\ DOMAIN enabled = 1..Len(enabled)
    BY <2>3 DEF IsList
  <2>6. \A i \in DOMAIN enabled : IsList(q[i])
    <3>1. \A y : <<>> \in Seq({y}) /\ <<y>> \in Seq({y})
      OBVIOUS
    <3>2. \A y : IsList(<<>>) /\ IsList(<<y>>)
      BY <3>1, ListOf
    <3>. QED  BY <3>2
  <2>7. PICK i \in DOMAIN enabled : enabled[i] = x
    BY <2>3 DEF Lists
  <2>8. Lists(q[i], x)
    <3>1. q[i] = <<x>>
      BY <1>3, <2>7
    <3>2. 1 \in DOMAIN <<x>> /\ <<x>>[1] = x
      OBVIOUS
    <3>. QED  BY <3>1, <3>2 DEF Lists
  <2>9. q = [k \in DOMAIN enabled |-> q[k]]
    OBVIOUS
  <2>. HIDE DEF q
  <2>10. IsList(FlattenSeq(q)) /\ Lists(FlattenSeq(q), x)
    BY <2>5, <2>6, <2>7, <2>8, <2>9, FlattenedList, Zenon
  <2>. QED  BY <2>4, <2>10, Zenon DEF enabled, guarded
<1>. QED  BY <1>2, <1>3

\* A request that a rule denies gets a deny among its actions: for any
\* policies before and after, any mixture of modes, any conditions and headers.
THEOREM DenyReachesHandler ==
  ASSUME NEW policies, PoliciesTyped(policies), NEW header, HeaderTyped(header),
         NEW fields, Forbids(policies, fields, header)
  PROVE  LET actions == PreFlightActions(policies, fields, header)
         IN  IsList(actions) /\ "deny" \in Kinds(actions)
<1>. DEFINE rules == RulesOf(policies, "pre")
            denials == Denials(policies, fields)
            triggered == EvaluatePolicies(policies, fields, "pre").actions
            actions == PreFlightActions(policies, fields, header)
<1>1. PICK k \in denials : \A j \in denials : j <= k => ~Voided(rules[j].rule, header)
  BY Zenon DEF Forbids
<1>2. denials \subseteq Nat
  <2>1. IsList(rules)
    BY RulesTyped, Zenon
  <2>2. DOMAIN rules \subseteq Nat
    <3>. HIDE DEF rules
    <3>. QED  BY <2>1 DEF IsList
  <2>3. denials \subseteq DOMAIN rules
    BY Zenon DEF Denials
  <2>. QED  BY <2>2, <2>3, Zenon
<1>3. PICK d \in denials : d <= k /\ \A j \in denials : d <= j
  BY <1>2, FirstOf, Zenon
<1>4. ~Voided(rules[d].rule, header)
  BY <1>1, <1>3, Zenon
<1>5. PICK i \in DOMAIN rules[d].rule.then :
         rules[d].rule.then[i].kind = "deny" /\ ~Spared(rules[d].rule.then[i], header)
  BY <1>4, Zenon DEF Voided
<1>. DEFINE x == rules[d].rule.then[i]
<1>6. d \in DOMAIN rules /\ Stops(rules[d]) /\ Holds(rules[d].rule.when, fields)
  BY Zenon DEF Denials
<1>7. ASSUME NEW j \in DOMAIN rules, j < d,
             Holds(rules[j].rule.when, fields), Stops(rules[j])
      PROVE  FALSE
  <2>1. j \in denials
    BY <1>7, Zenon DEF Denials
  <2>2. d <= j /\ d \in Nat /\ j \in Nat
    BY <1>2, <1>3, <2>1
  <2>. QED  BY <1>7, <2>2
<1>8. ~rules[d].rule.async
  BY <1>4, Zenon DEF Voided
<1>9. IsList(triggered) /\ Lists(triggered, x)
  <2>1. Lists(rules[d].rule.then, x)
    BY <1>5, Zenon DEF Lists
  <2>2. \A j \in DOMAIN rules :
           j < d => ~(Holds(rules[j].rule.when, fields) /\ Stops(rules[j]))
    BY <1>7, Zenon
  <2>. HIDE DEF x
  <2>. QED  BY <1>6, <1>8, <2>1, <2>2, FirstDenyTriggered, Zenon
<1>10. \/ header.mode = "disabled"
       \/ /\ ~(header.mode = "override" /\ header.guardrails # <<>>)
          /\ x.policy \notin header.disable
  BY <1>5, Zenon DEF Spared
<1>11. IsList(actions) /\ Lists(actions, x)
  <2>. HIDE DEF x, triggered
  <2>1. /\ IsList(WithoutDisabled(WithEnabled(WithGuardrails(triggered, header), header), header))
        /\ Lists(WithoutDisabled(WithEnabled(WithGuardrails(triggered, header), header), header), x)
    BY <1>9, <1>10, HeadersKeep, Zenon
  <2>. QED  BY <2>1, Zenon DEF PreFlightActions, triggered
<1>12. "deny" \in Kinds(actions)
  <2>. HIDE DEF actions
  <2>1. PICK m \in DOMAIN actions : actions[m] = x
    BY <1>11, Zenon DEF Lists
  <2>2. actions[m].kind = "deny"
    BY <1>5, <2>1, Zenon
  <2>. QED  BY <2>2 DEF Kinds
<1>. QED  BY <1>11, <1>12, Zenon

-----------------------------------------------------------------------------

\* A handler is a record. Its todo list is what PreFlightActions computes and
\* stays without a type, and so do the names in it.
HandlerFields ==
    {"pc", "row", "groups", "seen", "todo", "model", "text", "limited", "passed", "hitl",
     "override", "url", "attempt", "sends", "success", "answers", "body", "charged",
     "cost", "rows", "source"}

IsRecord(r) == h[r] = [f \in HandlerFields |-> h[r][f]]
IsTable     == h = [r \in Requests |-> h[r]]

Handler(r) ==
    /\ IsRecord(r)
    /\ h[r].pc \in Running \cup Over
    /\ h[r].attempt \in Nat /\ h[r].sends \in Nat /\ h[r].answers \in Nat
    /\ h[r].body \in Nat /\ h[r].rows \in Nat
    /\ h[r].charged \in Seq(Nat)

\* Stages before the check of the model, before the call, and ends that
\* leave nothing of either.
Unchecked == {"arrived", "authenticated", "acting", "admitting", "approving", "routing",
              "routed", "looking", "checking"}
Prepared  == {"listed", "building", "injecting", "entering"}
Uncalled  == Unchecked \cup Prepared
Returned  == {"refused", "unsigned", "failed", "cut", "suppressed", "dropped",
              "droppedSending"}

\* Nothing is sent before the call, and what is sent is what was checked.
Checked(r) ==
    /\ h[r].pc \in Uncalled \cup Returned \cup {"served"}
          => h[r].attempt = 0 /\ h[r].sends = 0
    /\ h[r].pc \in Uncalled \cup {"served"} => h[r].answers = 0
    /\ h[r].pc \notin Unchecked \cup Returned \cup {"served"}
          => ModelPermitted(h[r].model, h[r].row \cup h[r].groups)

Unkeyed(r) == req[r].mutating /\ ~req[r].keyed /\ ~req[r].stream

\* Of an unkeyed body nothing was taken while an attempt is outstanding.
SentOnce(r) ==
    /\ h[r].pc = "sending" => /\ h[r].attempt > 0
                              /\ Unkeyed(r) => h[r].sends = 0
    /\ h[r].pc \in {"sending", "reading", "streamed"} => h[r].answers = 0
    /\ h[r].pc \in {"looping", "resending", "receiving", "pricing", "charging"}
          => h[r].answers > 0
    /\ h[r].answers = 0 /\ Unkeyed(r) => h[r].sends <= 1

\* The loop has charged n answers but the first, or but the first and the
\* last; then Bill charges the last.
Paid(n)   == [i \in 1..(n - 1) |-> i + 1]
Due(r)    == h[r].charged = Paid(h[r].answers)
Late(r)   == h[r].answers > 1 /\ h[r].charged = Paid(h[r].answers - 1)
Billed(r) == h[r].answers > 0 /\ h[r].charged = Append(Paid(h[r].answers), h[r].answers)

\* Neither of no answers nor of one is there any.
LEMMA PaidNone == Paid(0) = <<>> /\ Paid(1) = <<>>
<1>1. Paid(0) \in Seq(Nat) /\ Len(Paid(0)) = 0
  BY DEF Paid
<1>2. Paid(1) \in Seq(Nat) /\ Len(Paid(1)) = 0
  BY DEF Paid
<1>. QED
  BY <1>1, <1>2

\* What is charged, in order, stage by stage.
Charged(r) ==
    /\ h[r].body \in {0, h[r].answers}
    /\ h[r].pc \in Uncalled \cup {"sending", "reading", "streamed", "looping",
                               "resending", "receiving", "billing"} => Due(r)
    /\ h[r].pc \in {"pricing", "charging"} => Late(r)
    /\ h[r].pc \in {"screening", "storing", "answered"}
          => h[r].cost = h[r].body /\ IF h[r].body = 0 THEN Due(r) ELSE Billed(r)
    /\ h[r].pc \in Returned => Due(r) \/ Billed(r) \/ (Late(r) /\ h[r].pc = "dropped")
    /\ h[r].pc = "served" => h[r].charged = <<1>>

\* A handler that runs has left no row.
RowLeft(r) ==
    /\ h[r].rows <= 1
    /\ h[r].pc \in Running => h[r].rows = 0
    /\ h[r].pc \in {"answered", "storing", "served", "failed"} => h[r].rows = 1

\* Only a success is stored, and only a handler that is done holds an answer
\* of another.
Holding(r) ==
    /\ h[r].pc = "storing" => h[r].success
    /\ h[r].source # None => h[r].pc = "served"

Sound(r) == Checked(r) /\ SentOnce(r) /\ Charged(r) /\ RowLeft(r) /\ Holding(r)

HandlerInv == IsTable /\ \A r \in Requests : Handler(r) /\ Sound(r)

\* Whose answer it is, whoever holds it: a handler that is done and will not
\* change again.
AnswerOf(q, key) == /\ q \in Requests
                    /\ h[q].pc = "answered" /\ h[q].success
                    /\ CacheKey(q) = key

CacheInv ==
    /\ \A e \in cache : AnswerOf(e.source, e.key)
    /\ \A r \in Requests : h[r].source # None => AnswerOf(h[r].source, CacheKey(r))

\* Limits that were passed in the last Window ticks have their entries.
Entered(r) ==
    \A p \in h[r].passed :
        /\ p.at \in 0..now /\ p.limit \in Nat
        /\ p.at + Window > now
              => \E e \in hits : e.window = p.window /\ e.member[1] = r /\ e.at = p.at

WindowsInv ==
    /\ req \in Arrivals
    /\ now \in Nat
    /\ IsFiniteSet(hits)
    /\ \A r \in Requests : Entered(r)
    /\ RateLimitHolds

-----------------------------------------------------------------------------
\* One handler.

\* A step of the handler of r; requests never change.
Moves(r) == /\ req' = req
            /\ IsTable'
            /\ \A q \in Requests \ {r} : h'[q] = h[q]

\* Then only r's part of the invariant is at stake.
LEMMA OneMoves ==
  ASSUME HandlerInv, NEW r \in Requests, Moves(r), Handler(r)', Sound(r)'
  PROVE  HandlerInv'
<1>1. ASSUME NEW q \in Requests, q # r PROVE Handler(q)' /\ Sound(q)'
  <2>1. h'[q] = h[q] /\ req' = req /\ Handler(q) /\ Sound(q)
    BY <1>1 DEF HandlerInv, Moves
  <2>2. Handler(q)'
    BY <2>1 DEF Handler, IsRecord
  <2>3. Checked(q)' /\ SentOnce(q)'
    BY <2>1 DEF Sound, Checked, SentOnce, Unkeyed
  <2>4. Charged(q)' /\ RowLeft(q)' /\ Holding(q)'
    BY <2>1 DEF Sound, Charged, Due, Late, Billed, RowLeft, Holding
  <2>. QED
    BY <2>2, <2>3, <2>4 DEF Sound
<1>. QED
  BY <1>1 DEF HandlerInv, Moves

\* A handler that returns has nothing but its rows, its limits, its URL and
\* its charges, and only a disconnect ends one that is about to charge.
EndsAs(r, end, audit) ==
    /\ Return(r, end, audit)
    /\ end = "failed" => audit = 1
    /\ h[r].pc \in {"pricing", "charging"} => end = "dropped"

Ends(r) == req' = req /\ \E end \in Returned, audit \in {0, 1} : EndsAs(r, end, audit)

\* What such a handler is.
Ended(g, q, pc, rows, passed, url, answers, charged) ==
    g = [NewHandler(q) EXCEPT !.pc = pc, !.rows = rows, !.passed = passed, !.url = url,
                              !.answers = answers, !.charged = charged]

\* It has every field, and what the invariant says of a new handler.
LEMMA EndedFields ==
  ASSUME NEW g, NEW q, NEW pc, NEW rows, NEW passed, NEW url, NEW answers, NEW charged,
         Ended(g, q, pc, rows, passed, url, answers, charged)
  PROVE  /\ g = [f \in HandlerFields |-> g[f]]
         /\ g.pc = pc /\ g.rows = rows /\ g.answers = answers /\ g.charged = charged
         /\ g.attempt = 0 /\ g.sends = 0 /\ g.body = 0 /\ g.source = None
<1>1. g = [f \in HandlerFields |-> g[f]]
  BY DEF Ended, HandlerFields, NewHandler
<1>2. g.pc = pc /\ g.rows = rows /\ g.answers = answers /\ g.charged = charged
  BY DEF Ended, NewHandler
<1>3. g.attempt = 0 /\ g.sends = 0 /\ g.body = 0 /\ g.source = None
  BY DEF Ended, NewHandler
<1>. QED
  BY <1>1, <1>2, <1>3

\* Each return keeps r's part of the invariant: it ends the request, with a
\* row when it fails it.
LEMMA EndInv ==
  ASSUME HandlerInv, NEW r \in Requests, h[r].pc \in Running, Ends(r)
  PROVE  HandlerInv'
<1>0. PICK end \in Returned, audit \in {0, 1} : EndsAs(r, end, audit)
  BY DEF Ends
<1>1. Ended(h'[r], req[r], end, h[r].rows + audit, h[r].passed, h[r].url,
            h[r].answers, h[r].charged)
  BY <1>0 DEF Ended, EndsAs, Return, HandlerInv, IsTable
<1>2. Moves(r)
  BY <1>0 DEF EndsAs, Return, HandlerInv, Moves, IsTable, Ends
<1>3. /\ IsRecord(r)'
      /\ h'[r].pc = end /\ h'[r].rows = h[r].rows + audit
      /\ h'[r].attempt = 0 /\ h'[r].sends = 0 /\ h'[r].body = 0
      /\ h'[r].answers = h[r].answers /\ h'[r].charged = h[r].charged
      /\ h'[r].source = None
  BY <1>1, EndedFields DEF IsRecord
<1>4. h[r].rows = 0 /\ Handler(r) /\ Charged(r)
  <2>1. Handler(r) /\ Sound(r)
    BY DEF HandlerInv
  <2>2. Charged(r) /\ RowLeft(r)
    BY <2>1 DEF Sound
  <2>3. h[r].rows = 0
    BY <2>2 DEF RowLeft
  <2>. QED
    BY <2>1, <2>2, <2>3
<1>5. Handler(r)'
  <2>1. end \in Over
    BY DEF Over, Returned
  <2>2. h'[r].rows \in Nat
    BY <1>3, <1>4
  <2>. QED
    BY <1>3, <1>4, <2>1, <2>2 DEF Handler
<1>6. Checked(r)' /\ SentOnce(r)' /\ RowLeft(r)' /\ Holding(r)'
  BY <1>0, <1>3, <1>4 DEF EndsAs, Checked, SentOnce, RowLeft, Holding,
    Running, Unchecked, Prepared, Uncalled, Returned
<1>7. Charged(r)'
  <2>1. Due(r) \/ Billed(r) \/ (Late(r) /\ end = "dropped")
    BY <1>0, <1>4 DEF EndsAs, Charged, Running, Uncalled, Unchecked, Prepared
  <2>2. Due(r)' \/ Billed(r)' \/ (Late(r)' /\ end = "dropped")
    BY <1>3, <2>1 DEF Due, Billed, Late
  <2>. QED
    BY <1>3, <2>2 DEF Charged, Uncalled, Unchecked, Prepared, Returned
<1>. QED
  BY <1>2, <1>5, <1>6, <1>7, OneMoves DEF Sound

Refused(r) == req' = req /\ \E audit \in {0, 1} : Return(r, "refused", audit)

\* Before the call a handler moves on without counting anything, and once the
\* model is checked, without changing it.
Advances(r) ==
    /\ Moves(r) /\ IsRecord(r)'
    /\ \/ h[r].pc \in Unchecked /\ h'[r].pc \in Unchecked
       \/ /\ h[r].pc \in Prepared /\ h'[r].pc \in Prepared
          /\ h'[r].model = h[r].model /\ h'[r].row = h[r].row /\ h'[r].groups = h[r].groups
    /\ h'[r].attempt = h[r].attempt /\ h'[r].sends = h[r].sends
    /\ h'[r].answers = h[r].answers /\ h'[r].body = h[r].body
    /\ h'[r].charged = h[r].charged /\ h'[r].rows = h[r].rows
    /\ h'[r].source = h[r].source

\* So does each step that only moves on to a later stage before the call.
LEMMA AdvanceInv ==
  ASSUME HandlerInv, NEW r \in Requests, Advances(r)
  PROVE  HandlerInv'
<1>1. Handler(r) /\ Sound(r)
  BY DEF HandlerInv
<1>2. Handler(r)'
  BY <1>1 DEF Advances, Handler, Unchecked, Prepared, Running
<1>3. Sound(r)'
  BY <1>1 DEF Advances, Sound, Checked, SentOnce, Charged, Due, Late, Billed, RowLeft, Holding,
    Running, Unchecked, Prepared, Uncalled, Returned
<1>. QED
  BY <1>2, <1>3, OneMoves DEF Advances

\* Up to the call, but for a cached answer and the check of the model, a
\* handler advances or ends.
Prepares(r) ==
    \/ PreFlight(r) \/ ResolveUpstream(r) \/ RetrieveCredential(r)
    \/ CheckTeamAndProvider(r) \/ BuildRequest(r) \/ InjectCredential(r)

RateLimits(r) == PolicyRateLimit(r) \/ DefaultRateLimit(r)

\* Every step of preparing the request is such a refusal or such a move, and
\* only the rate limits pass a limit.
LEMMA PrepareStep ==
  ASSUME HandlerInv, NEW r \in Requests, Prepares(r)
  PROVE  /\ h[r].pc \in Uncalled
         /\ \/ Refused(r)
            \/ /\ Advances(r)
               /\ h'[r].passed = h[r].passed \/ RateLimits(r)
               /\ h'[r].seen = h[r].seen \/ EvaluatePreFlight(r)
<1>. DEFINE Goes == /\ h[r].pc \in Uncalled
                    /\ \/ Refused(r)
                       \/ /\ Advances(r)
                          /\ h'[r].passed = h[r].passed \/ RateLimits(r)
                          /\ h'[r].seen = h[r].seen \/ EvaluatePreFlight(r)
<1>1. IsTable /\ IsRecord(r)
  BY DEF HandlerInv, Handler
<1>2. ASSUME req' = req, h[r].pc \in Unchecked, h' = [h EXCEPT ![r].todo = Tail(@)]
      PROVE  Goes
  BY <1>1, <1>2 DEF Advances, Moves, IsTable, IsRecord, HandlerFields, Uncalled
<1>3. ASSUME req' = req, h[r].pc \in Unchecked, NEW m, NEW text,
             \/ h' = [h EXCEPT ![r].todo = Tail(@), ![r].model = m, ![r].text = text]
             \/ h' = [h EXCEPT ![r].todo = Tail(@), ![r].text = text]
      PROVE  Goes
  BY <1>1, <1>3 DEF Advances, Moves, IsTable, IsRecord, HandlerFields, Uncalled
<1>4. ASSUME req' = req, h[r].pc \in Unchecked, NEW t,
             h' = [h EXCEPT ![r].todo = Tail(@), ![r].model = t.model, ![r].override = t.base]
      PROVE  Goes
  BY <1>1, <1>4 DEF Advances, Moves, IsTable, IsRecord, HandlerFields, Uncalled
<1>5. ASSUME req' = req, h[r].pc \in Unchecked, NEW next \in Unchecked, Goto(r, next)
      PROVE  Goes
  BY <1>1, <1>5 DEF Advances, Moves, IsTable, IsRecord, HandlerFields, Goto,
    Uncalled
<1>6. ASSUME req' = req, h[r].pc \in Uncalled,
             NEW audit \in {0, 1}, Return(r, "refused", audit)
      PROVE  Goes
  BY <1>6 DEF Refused
<1>7. "acting" \in Unchecked /\ "acting" \in Uncalled
  BY DEF Unchecked, Uncalled
<1>. SUFFICES Goes
  OBVIOUS
<1>. HIDE DEF Goes
<1>. USE <1>6, <1>7 DEF At, Acts
<1>8. CASE Authenticate(r)
  BY <1>1, <1>8 DEF Authenticate, Advances, Moves, IsTable, IsRecord,
    HandlerFields, Unchecked, Uncalled, Goes
<1>9. CASE EvaluatePreFlight(r)
  BY <1>1, <1>9 DEF EvaluatePreFlight, Advances, Moves, IsTable, IsRecord,
    HandlerFields, Unchecked, Uncalled, Goes, EvaluateWith
<1>10. CASE Note(r)
  BY <1>2, <1>10 DEF Note
<1>11. CASE RequireApproval(r)
  BY <1>1, <1>11 DEF RequireApproval, Advances, Moves, IsTable, IsRecord,
    HandlerFields, Unchecked, Uncalled, Goes
<1>12. CASE Deny(r)
  BY <1>12 DEF Deny
<1>13. CASE PolicyRateLimit(r)
  <2>1. ASSUME NEW window, NEW limit,
               h' = [h EXCEPT ![r].todo = Tail(@), ![r].limited = TRUE,
                              ![r].passed = Passed(r, window, limit)]
        PROVE  Goes
    BY <1>1, <1>13, <2>1
    DEF PolicyRateLimit, RateLimits, Advances, Moves, IsTable, IsRecord,
        HandlerFields, Uncalled, Goes
  <2>. QED
    BY <1>13, <2>1 DEF PolicyRateLimit
<1>14. CASE Rewrite(r)
  BY <1>3, <1>14 DEF Rewrite
<1>15. CASE DynamicRoute(r)
  BY <1>2, <1>4, <1>15 DEF DynamicRoute
<1>16. CASE ConditionalRoute(r)
  BY <1>4, <1>16 DEF ConditionalRoute
<1>17. CASE ContentFilter(r)
  BY <1>2, <1>17 DEF ContentFilter
<1>18. CASE Redact(r)
  BY <1>3, <1>18 DEF Redact
<1>19. CASE ExternalGuardrail(r)
  BY <1>2, <1>19 DEF ExternalGuardrail
<1>20. CASE ToolScope(r)
  BY <1>2, <1>20 DEF ToolScope
<1>21. CASE DefaultRateLimit(r)
  BY <1>1, <1>21 DEF DefaultRateLimit, RateLimits, Advances, Moves, IsTable,
    IsRecord, HandlerFields, Unchecked, Uncalled, Goes, Goto
<1>22. CASE Admit(r)
  BY <1>5, <1>22 DEF Admit, Unchecked, Uncalled
<1>23. CASE Approve(r)
  BY <1>5, <1>23 DEF Approve, Unchecked, Uncalled
<1>24. CASE ResolveUpstream(r)
  BY <1>1, <1>24 DEF ResolveUpstream, Advances, Moves, IsTable, IsRecord,
    HandlerFields, Unchecked, Uncalled, Goes
<1>25. CASE RetrieveCredential(r)
  BY <1>5, <1>25 DEF RetrieveCredential, Unchecked, Uncalled
<1>26. CASE CheckTeamAndProvider(r)
  BY <1>1, <1>26 DEF CheckTeamAndProvider, Goto, Advances, Moves, IsTable,
    IsRecord, HandlerFields, Prepared, Uncalled, Goes
<1>27. CASE BuildRequest(r)
  BY <1>1, <1>27 DEF BuildRequest, Advances, Moves, IsTable, IsRecord,
    HandlerFields, Prepared, Uncalled, Goes
<1>28. CASE InjectCredential(r)
  BY <1>1, <1>28 DEF InjectCredential, Goto, Advances, Moves, IsTable, IsRecord,
    HandlerFields, Prepared, Uncalled, Goes
<1>. QED
  BY <1>8, <1>9, <1>10, <1>11, <1>12, <1>13, <1>14, <1>15, <1>16, <1>17, <1>18,
    <1>19, <1>20, <1>21, <1>22, <1>23, <1>24, <1>25, <1>26, <1>27, <1>28 DEF
    Prepares, PreFlight

\* From the cache and the check of the model to the answer.
Goes(r) ==
    /\ Moves(r) /\ Handler(r)' /\ Sound(r)'
    /\ h'[r].passed = h[r].passed /\ h'[r].seen = h[r].seen
    /\ h'[r].pc \notin {"arrived", "authenticated", "acting"}

Calls(r) == \/ LookUp(r) \/ CheckModelAccess(r) \/ EnterUpstream(r) \/ Retry(r)
            \/ Respond(r) \/ Fail(r) \/ ReadBody(r) \/ Disconnect(r)

\* The cache, the check of the model, and the call to its last retry.
LEMMA CallStep ==
  ASSUME HandlerInv, NEW r \in Requests, Calls(r)
  PROVE  h[r].pc \in Running /\ (Ends(r) \/ Goes(r))
<1>1. IsTable /\ IsRecord(r) /\ Handler(r) /\ Sound(r)
  BY DEF HandlerInv, Handler
<1>2. req' = req
  BY DEF Calls, LookUp, CheckModelAccess, EnterUpstream, Retry, Respond, Fail,
    ReadBody,
         Disconnect
<1>0. h[r].pc \in Running
  BY DEF Calls, LookUp, CheckModelAccess, EnterUpstream, Retry, Respond, Fail,
    ReadBody,
         Disconnect, At, Running
<1>. SUFFICES Ends(r) \/ Goes(r)
  BY <1>0
<1>. USE <1>1, <1>2 DEF At, Goto
<1>3. ASSUME NEW end \in Returned, end # "failed", NEW audit \in {0, 1},
             Return(r, end, audit),
             h[r].pc \in {"pricing", "charging"} => end = "dropped"
      PROVE  Ends(r)
  BY <1>3 DEF Ends, EndsAs
<1>4. CASE LookUp(r)
  <2>1. CASE Goto(r, "checking")
    BY <1>4, <2>1 DEF LookUp, Goes, Moves, IsTable, IsRecord, HandlerFields,
      Handler, Running,
       Sound, Checked, SentOnce, Charged, Due, Late, Billed, RowLeft, Holding, Unchecked, Prepared, Uncalled, Returned
  <2>2. CASE \E e \in cache : h' = [h EXCEPT ![r].pc = "served",
                                  ![r].source = e.source,
                                  ![r].charged = <<1>>,
                                  ![r].rows = @ + 1]
    <3>0. PICK e \in cache : h' = [h EXCEPT ![r].pc = "served",
                                          ![r].source = e.source,
                                          ![r].charged = <<1>>,
                                          ![r].rows = @ + 1]
      BY <2>2
    <3>1. /\ Moves(r) /\ IsRecord(r)' /\ h'[r].passed = h[r].passed /\ h'[r].seen = h[r].seen
          /\ h'[r].pc = "served" /\ h'[r].charged = <<1>> /\ h'[r].rows = h[r].rows + 1
          /\ h'[r].attempt = h[r].attempt /\ h'[r].sends = h[r].sends
          /\ h'[r].answers = h[r].answers /\ h'[r].body = h[r].body
      BY <3>0 DEF Moves, IsTable, IsRecord, HandlerFields
    <3>2. h[r].pc = "looking"
      BY <1>4 DEF LookUp
    <3>3. Handler(r)'
      BY <3>1 DEF Handler, Over
    <3>4. Sound(r)'
      BY <3>1, <3>2 DEF Handler, Running, Sound, Checked, SentOnce, Charged, Due, Late, Billed,
        RowLeft, Holding, Unchecked, Prepared, Uncalled, Returned
    <3>. QED
      BY <3>1, <3>3, <3>4 DEF Goes
  <2>. QED
    BY <1>4, <2>1, <2>2 DEF LookUp
<1>5. CASE CheckModelAccess(r)
  <2>1. CASE Return(r, "refused", 1)
    BY <1>3, <1>5, <2>1 DEF CheckModelAccess, Running, Returned
  <2>2. ASSUME NEW groups, ModelPermitted(h[r].model, h[r].row \cup groups),
               h' = [h EXCEPT ![r].pc = "listed", ![r].groups = groups]
        PROVE  Goes(r)
    <3>1. /\ Moves(r) /\ IsRecord(r)' /\ h'[r].passed = h[r].passed /\ h'[r].seen = h[r].seen
          /\ h'[r].source = h[r].source
          /\ h'[r].pc = "listed" /\ h'[r].groups = groups
          /\ h'[r].model = h[r].model /\ h'[r].row = h[r].row
          /\ h'[r].charged = h[r].charged /\ h'[r].rows = h[r].rows
          /\ h'[r].attempt = h[r].attempt /\ h'[r].sends = h[r].sends
          /\ h'[r].answers = h[r].answers /\ h'[r].body = h[r].body
      BY <2>2 DEF Moves, IsTable, IsRecord, HandlerFields
    <3>2. Handler(r)'
      BY <3>1 DEF Handler, Running
    <3>3. Sound(r)'
      <4>1. h[r].pc = "checking" /\ ModelPermitted(h'[r].model, h'[r].row \cup h'[r].groups)
        BY <1>5, <2>2, <3>1 DEF CheckModelAccess
      <4>. QED
        BY <3>1, <4>1 DEF Running, Sound, Checked, SentOnce, Charged, Due, Late, Billed,
           RowLeft, Holding, Unchecked, Prepared, Uncalled, Returned
    <3>. QED
      BY <3>1, <3>2, <3>3 DEF Goes
  <2>. QED
    BY <1>5, <2>1, <2>2 DEF CheckModelAccess, CheckedModel, Running
<1>6. CASE EnterUpstream(r)
  <2>1. CASE Return(r, "refused", 0) \/ Return(r, "unsigned", 0)
    BY <1>3, <1>6, <2>1 DEF EnterUpstream, Running, Returned
  <2>2. CASE h' = [h EXCEPT ![r].pc = "sending", ![r].attempt = 1]
    <3>1. /\ Moves(r) /\ IsRecord(r)' /\ h'[r].passed = h[r].passed /\ h'[r].seen = h[r].seen
          /\ h'[r].source = h[r].source
          /\ h'[r].pc = "sending" /\ h'[r].attempt = 1 /\ h'[r].sends = h[r].sends
          /\ h'[r].model = h[r].model /\ h'[r].row = h[r].row /\ h'[r].groups = h[r].groups
          /\ h'[r].charged = h[r].charged /\ h'[r].rows = h[r].rows
          /\ h'[r].answers = h[r].answers /\ h'[r].body = h[r].body
      BY <2>2 DEF Moves, IsTable, IsRecord, HandlerFields
    <3>2. Handler(r)'
      BY <3>1 DEF Handler, Running
    <3>3. Sound(r)'
      BY <1>6, <3>1 DEF EnterUpstream, Running, Sound, Checked, SentOnce, Charged, Due, Late, Billed,
         RowLeft, Holding, Unchecked, Prepared, Uncalled, Returned
    <3>. QED
      BY <3>1, <3>2, <3>3 DEF Goes
  <2>. QED
    BY <1>6, <2>1, <2>2 DEF EnterUpstream
<1>7. CASE Retry(r)
  <2>1. PICK taken \in {0, 1} :
             h' = [h EXCEPT ![r].attempt = @ + 1, ![r].sends = @ + taken]
    BY <1>7 DEF Retry, Resend
  <2>2. /\ Moves(r) /\ IsRecord(r)' /\ h'[r].passed = h[r].passed /\ h'[r].seen = h[r].seen
        /\ h'[r].source = h[r].source
        /\ h'[r].pc = h[r].pc /\ h'[r].attempt = h[r].attempt + 1
        /\ h'[r].sends = h[r].sends + taken
        /\ h'[r].model = h[r].model /\ h'[r].row = h[r].row /\ h'[r].groups = h[r].groups
        /\ h'[r].charged = h[r].charged /\ h'[r].rows = h[r].rows
        /\ h'[r].answers = h[r].answers /\ h'[r].body = h[r].body
    BY <2>1 DEF Moves, IsTable, IsRecord, HandlerFields
  <2>3. ~Unkeyed(r)
    <3>1. h[r].attempt > 0 /\ h[r].attempt <= Retries(r) /\ h[r].attempt \in Nat
      BY <1>7 DEF Retry, Resend, Sound, SentOnce, Handler
    <3>. QED
      BY <3>1 DEF Retries, Unkeyed
  <2>4. Handler(r)'
    BY <2>2 DEF Handler
  <2>5. Sound(r)'
    <3>1. h[r].pc = "sending"
      BY <1>7 DEF Retry
    <3>2. Checked(r)' /\ RowLeft(r)' /\ Holding(r)'
      BY <2>2, <3>1 DEF Running, Sound, Checked, RowLeft, Holding, Unchecked,
        Prepared, Uncalled, Returned
    <3>3. SentOnce(r)'
      BY <2>2, <2>3, <3>1 DEF Sound, SentOnce, Unkeyed, Handler
    <3>4. Charged(r)'
      BY <2>2, <3>1 DEF Sound, Charged, Due, Late, Billed, Uncalled
    <3>. QED
      BY <3>2, <3>3, <3>4 DEF Sound
  <2>. QED
    BY <1>7, <2>2, <2>4, <2>5 DEF Goes, Retry
<1>8. CASE Respond(r)
  <2>1. PICK ok \in BOOLEAN :
           h' = [h EXCEPT ![r].pc = IF req[r].stream /\ ok THEN "streamed" ELSE "reading",
                          ![r].sends = @ + 1, ![r].success = ok]
    BY <1>8 DEF Respond
  <2>2. /\ Moves(r) /\ IsRecord(r)' /\ h'[r].passed = h[r].passed /\ h'[r].seen = h[r].seen
        /\ h'[r].source = h[r].source
        /\ h'[r].pc = (IF req[r].stream /\ ok THEN "streamed" ELSE "reading")
        /\ h'[r].attempt = h[r].attempt /\ h'[r].sends = h[r].sends + 1
        /\ h'[r].model = h[r].model /\ h'[r].row = h[r].row /\ h'[r].groups = h[r].groups
        /\ h'[r].charged = h[r].charged /\ h'[r].rows = h[r].rows
        /\ h'[r].answers = h[r].answers /\ h'[r].body = h[r].body
    BY <2>1 DEF Moves, IsTable, IsRecord, HandlerFields
  <2>3. h'[r].pc \in {"streamed", "reading"} /\ h[r].pc = "sending"
    BY <1>8, <2>2 DEF Respond
  <2>4. Handler(r)'
    BY <2>2, <2>3 DEF Handler, Running, Over
  <2>5. Sound(r)'
    <3>1. Checked(r)' /\ RowLeft(r)' /\ Holding(r)'
      BY <2>2, <2>3 DEF Running, Sound, Checked, RowLeft, Holding, Unchecked,
        Prepared, Uncalled, Returned
    <3>2. SentOnce(r)'
      BY <2>2, <2>3 DEF Sound, SentOnce, Unkeyed, Handler
    <3>3. Charged(r)'
      BY <2>2, <2>3 DEF Sound, Charged, Due, Late, Billed, Uncalled
    <3>. QED
      BY <3>1, <3>2, <3>3 DEF Sound
  <2>. QED
    BY <2>2, <2>4, <2>5 DEF Goes
<1>9. CASE Fail(r)
  BY <1>9 DEF Fail, Ends, EndsAs, Returned
<1>10. CASE ReadBody(r)
  <2>1. CASE Return(r, "cut", 0)
    BY <1>3, <1>10, <2>1 DEF ReadBody, Running, Returned
  <2>2. CASE h' = [h EXCEPT ![r].pc = "looping", ![r].answers = 1, ![r].body = 1]
    <3>1. /\ Moves(r) /\ IsRecord(r)' /\ h'[r].passed = h[r].passed /\ h'[r].seen = h[r].seen
          /\ h'[r].source = h[r].source
          /\ h'[r].pc = "looping" /\ h'[r].answers = 1 /\ h'[r].body = 1
          /\ h'[r].attempt = h[r].attempt /\ h'[r].sends = h[r].sends
          /\ h'[r].model = h[r].model /\ h'[r].row = h[r].row /\ h'[r].groups = h[r].groups
          /\ h'[r].charged = h[r].charged /\ h'[r].rows = h[r].rows
      BY <2>2 DEF Moves, IsTable, IsRecord, HandlerFields
    <3>2. Handler(r)'
      BY <3>1 DEF Handler, Running
    <3>3. Sound(r)'
      <4>1. h[r].pc = "reading"
        BY <1>10 DEF ReadBody
      <4>2. Checked(r)' /\ SentOnce(r)' /\ RowLeft(r)' /\ Holding(r)'
        BY <3>1, <4>1 DEF Running, Sound, Checked, SentOnce, RowLeft, Holding,
           Unchecked, Prepared, Uncalled, Returned
      <4>3. h[r].charged = Paid(0)
        BY <4>1 DEF Sound, SentOnce, Charged, Due
      <4>4. Due(r)'
        BY <3>1, <4>3, PaidNone DEF Due
      <4>5. Charged(r)'
        BY <3>1, <4>4 DEF Charged, Uncalled, Unchecked, Prepared, Returned
      <4>. QED
        BY <4>2, <4>5 DEF Sound
    <3>. QED
      BY <3>1, <3>2, <3>3 DEF Goes
  <2>3. CASE Goto(r, "billing")
    <3>1. /\ Moves(r) /\ IsRecord(r)' /\ h'[r].passed = h[r].passed /\ h'[r].seen = h[r].seen
          /\ h'[r].source = h[r].source
          /\ h'[r].pc = "billing" /\ h'[r].answers = h[r].answers /\ h'[r].body = h[r].body
          /\ h'[r].attempt = h[r].attempt /\ h'[r].sends = h[r].sends
          /\ h'[r].model = h[r].model /\ h'[r].row = h[r].row /\ h'[r].groups = h[r].groups
          /\ h'[r].charged = h[r].charged /\ h'[r].rows = h[r].rows
      BY <2>3 DEF Moves, IsTable, IsRecord, HandlerFields
    <3>2. Handler(r)'
      BY <3>1 DEF Handler, Running
    <3>3. Sound(r)'
      BY <1>10, <3>1 DEF ReadBody, Running, Sound, Checked, SentOnce, Charged, Due, Late, Billed,
        RowLeft, Holding, Unkeyed, Unchecked, Prepared, Uncalled, Returned
    <3>. QED
      BY <3>1, <3>2, <3>3 DEF Goes
  <2>. QED
    BY <1>10, <2>1, <2>2, <2>3 DEF ReadBody
<1>11. CASE Disconnect(r)
  BY <1>3, <1>11 DEF Disconnect, Returned
<1>. QED
  BY <1>4, <1>5, <1>6, <1>7, <1>8, <1>9, <1>10, <1>11 DEF Calls

\* Charging the answer that is late leaves none but the first.
LEMMA PaidNext ==
  ASSUME NEW n \in Nat, n > 1
  PROVE  Append(Paid(n - 1), n) = Paid(n)
<1>. DEFINE a == Append(Paid(n - 1), n)
<1>1. Paid(n - 1) \in Seq(Nat) /\ Len(Paid(n - 1)) = n - 2
  BY DEF Paid
<1>2. a \in Seq(Nat) /\ Len(a) = n - 1 /\ \A i \in 1..(n - 1) : a[i] = i + 1
  BY <1>1 DEF Paid
<1>3. Paid(n) \in Seq(Nat) /\ Len(Paid(n)) = n - 1 /\ \A i \in 1..(n - 1) : Paid(n)[i] = i + 1
  BY DEF Paid
<1>. HIDE DEF a
<1>4. a = Paid(n)
  BY <1>2, <1>3
<1>. QED
  BY <1>4 DEF a

\* The tool loop, the bill, the policies on the answer, the row and the cache.
LEMMA PostFlightStep ==
  ASSUME HandlerInv, NEW r \in Requests, PostFlight(r)
  PROVE  Goes(r) \/ (Suppress(r) /\ h[r].pc \in Running /\ Ends(r))
<1>1. IsTable /\ IsRecord(r) /\ Handler(r) /\ Sound(r)
  BY DEF HandlerInv, Handler
<1>2. req' = req
  BY DEF PostFlight, LoopEnds, LoopContinues, LoopRetry, LoopFails,
     LoopRespond, LoopCut, LoopError, LoopAnswer, PriceAnswer, ChargeAnswer,
     Bill, Suppress, Pass, Finish, Store
<1>. DEFINE Kept == /\ Moves(r) /\ IsRecord(r)'
                    /\ h'[r].model = h[r].model /\ h'[r].row = h[r].row
                    /\ h'[r].groups = h[r].groups /\ h'[r].passed = h[r].passed /\ h'[r].seen = h[r].seen
                    /\ h'[r].source = h[r].source
<1>. USE <1>1, <1>2 DEF At, Goto
<1>3. CASE LoopEnds(r)
  <2>1. /\ Kept /\ h[r].pc = "looping" /\ h'[r].pc = "billing"
        /\ h'[r].attempt = h[r].attempt /\ h'[r].sends = h[r].sends
        /\ h'[r].answers = h[r].answers /\ h'[r].body = h[r].body
        /\ h'[r].charged = h[r].charged /\ h'[r].rows = h[r].rows
    BY <1>3 DEF LoopEnds, Moves, IsTable, IsRecord, HandlerFields
  <2>2. Handler(r)'
    BY <2>1 DEF Handler, Running
  <2>3. Sound(r)'
    BY <2>1 DEF Running, Sound, Checked, SentOnce, Charged, Due, Late, Billed, RowLeft, Holding,
      Unkeyed,
       Unchecked, Prepared, Uncalled, Returned
  <2>. QED
    BY <2>1, <2>2, <2>3 DEF Goes
<1>4. CASE LoopContinues(r)
  <2>1. /\ Kept /\ h[r].pc = "looping" /\ h'[r].pc = "resending"
        /\ h'[r].attempt = 1 /\ h'[r].sends = 0
        /\ h'[r].answers = h[r].answers /\ h'[r].body = h[r].body
        /\ h'[r].charged = h[r].charged /\ h'[r].rows = h[r].rows
    BY <1>4 DEF LoopContinues, Moves, IsTable, IsRecord, HandlerFields
  <2>2. Handler(r)'
    BY <2>1 DEF Handler, Running
  <2>3. Sound(r)'
    BY <2>1 DEF Running, Sound, Checked, SentOnce, Charged, Due, Late, Billed, RowLeft, Holding,
      Unkeyed,
       Unchecked, Prepared, Uncalled, Returned
  <2>. QED
    BY <2>1, <2>2, <2>3 DEF Goes
<1>5. CASE LoopRetry(r)
  <2>1. PICK taken \in {0, 1} :
             h' = [h EXCEPT ![r].attempt = @ + 1, ![r].sends = @ + taken]
    BY <1>5 DEF LoopRetry, Resend
  <2>2. /\ Kept /\ h[r].pc = "resending" /\ h'[r].pc = "resending"
        /\ h'[r].attempt = h[r].attempt + 1 /\ h'[r].sends = h[r].sends + taken
        /\ h'[r].answers = h[r].answers /\ h'[r].body = h[r].body
        /\ h'[r].charged = h[r].charged /\ h'[r].rows = h[r].rows
    BY <1>5, <2>1 DEF LoopRetry, Moves, IsTable, IsRecord, HandlerFields
  <2>3. Handler(r)'
    BY <2>2 DEF Handler, Running
  <2>4. Sound(r)'
    BY <2>2 DEF Running, Sound, Checked, SentOnce, Charged, Due, Late, Billed, RowLeft, Holding,
      Unkeyed, Handler,
       Unchecked, Prepared, Uncalled, Returned
  <2>. QED
    BY <2>2, <2>3, <2>4 DEF Goes
<1>6. CASE LoopFails(r)
  <2>1. PICK taken \in {0, 1} :
             h' = [h EXCEPT ![r].pc = "billing", ![r].sends = @ + taken]
    BY <1>6 DEF LoopFails
  <2>2. /\ Kept /\ h[r].pc = "resending" /\ h'[r].pc = "billing"
        /\ h'[r].attempt = h[r].attempt /\ h'[r].sends = h[r].sends + taken
        /\ h'[r].answers = h[r].answers /\ h'[r].body = h[r].body
        /\ h'[r].charged = h[r].charged /\ h'[r].rows = h[r].rows
    BY <1>6, <2>1 DEF LoopFails, Moves, IsTable, IsRecord, HandlerFields
  <2>3. Handler(r)'
    BY <2>2 DEF Handler, Running
  <2>4. Checked(r)' /\ SentOnce(r)' /\ RowLeft(r)' /\ Holding(r)'
    BY <2>2 DEF Sound, Running, Checked, SentOnce, RowLeft, Holding, Unkeyed, Handler,
       Unchecked, Prepared, Uncalled, Returned
  <2>5. Charged(r)'
    BY <2>2 DEF Sound, Charged, Due, Late, Billed, Uncalled, Unchecked, Prepared, Returned
  <2>. QED
    BY <2>2, <2>3, <2>4, <2>5 DEF Sound, Goes
<1>7. CASE LoopRespond(r)
  <2>2. /\ Kept /\ h[r].pc = "resending" /\ h'[r].pc = "receiving"
        /\ h'[r].attempt = h[r].attempt /\ h'[r].sends = h[r].sends + 1
        /\ h'[r].answers = h[r].answers /\ h'[r].body = h[r].body
        /\ h'[r].charged = h[r].charged /\ h'[r].rows = h[r].rows
    BY <1>7 DEF LoopRespond, Moves, IsTable, IsRecord, HandlerFields
  <2>3. Handler(r)'
    BY <2>2 DEF Handler, Running
  <2>4. Checked(r)' /\ SentOnce(r)' /\ RowLeft(r)' /\ Holding(r)'
    BY <2>2 DEF Sound, Running, Checked, SentOnce, RowLeft, Holding, Unkeyed, Handler,
       Unchecked, Prepared, Uncalled, Returned
  <2>5. Charged(r)'
    BY <2>2 DEF Sound, Charged, Due, Late, Billed, Uncalled, Unchecked, Prepared, Returned
  <2>. QED
    BY <2>2, <2>3, <2>4, <2>5 DEF Sound, Goes
<1>8. CASE LoopCut(r) \/ LoopError(r)
  <2>2. /\ Kept /\ h[r].pc = "receiving" /\ h'[r].pc = "billing"
        /\ h'[r].attempt = h[r].attempt /\ h'[r].sends = h[r].sends
        /\ h'[r].answers = h[r].answers /\ h'[r].body \in {0, h[r].body}
        /\ h'[r].charged = h[r].charged /\ h'[r].rows = h[r].rows
    BY <1>8 DEF LoopCut, LoopError, Moves, IsTable, IsRecord, HandlerFields
  <2>3. Handler(r)'
    BY <2>2 DEF Handler, Running
  <2>4. Checked(r)' /\ SentOnce(r)' /\ RowLeft(r)' /\ Holding(r)'
    BY <2>2 DEF Sound, Running, Checked, SentOnce, RowLeft, Holding, Unkeyed, Handler,
       Unchecked, Prepared, Uncalled, Returned
  <2>5. Charged(r)'
    BY <2>2 DEF Sound, Charged, Due, Late, Billed, Uncalled, Unchecked, Prepared, Returned
  <2>. QED
    BY <2>2, <2>3, <2>4, <2>5 DEF Sound, Goes
<1>9. CASE LoopAnswer(r)
  <2>1. h[r].answers \in Nat /\ h[r].answers > 0
    BY <1>9 DEF LoopAnswer, Handler, Sound, SentOnce
  <2>2. /\ Kept /\ h[r].pc = "receiving" /\ h'[r].pc = "pricing"
        /\ h'[r].attempt = h[r].attempt /\ h'[r].sends = h[r].sends
        /\ h'[r].answers = h[r].answers + 1 /\ h'[r].body = h[r].answers + 1
        /\ h'[r].charged = h[r].charged /\ h'[r].rows = h[r].rows
    BY <1>9 DEF LoopAnswer, Moves, IsTable, IsRecord, HandlerFields
  <2>3. Handler(r)'
    BY <2>1, <2>2 DEF Handler, Running
  <2>4. Checked(r)' /\ SentOnce(r)' /\ RowLeft(r)' /\ Holding(r)'
    BY <2>1, <2>2 DEF Sound, Running, Checked, SentOnce, RowLeft, Holding, Unkeyed, Handler,
       Unchecked, Prepared, Uncalled, Returned
  <2>5. Charged(r)'
    <3>1. Due(r)
      BY <2>2 DEF Sound, Charged
    <3>2. h'[r].answers > 1 /\ h'[r].answers - 1 = h[r].answers
      BY <2>1, <2>2
    <3>3. Late(r)'
      BY <2>2, <3>1, <3>2 DEF Due, Late
    <3>. QED
      BY <2>2, <3>3 DEF Charged, Uncalled, Unchecked, Prepared, Returned
  <2>. QED
    BY <2>2, <2>3, <2>4, <2>5 DEF Sound, Goes
<1>10. CASE PriceAnswer(r)
  <2>2. /\ Kept /\ h[r].pc = "pricing" /\ h'[r].pc = "charging"
        /\ h'[r].attempt = h[r].attempt /\ h'[r].sends = h[r].sends
        /\ h'[r].answers = h[r].answers /\ h'[r].body = h[r].body
        /\ h'[r].charged = h[r].charged /\ h'[r].rows = h[r].rows
    BY <1>10 DEF PriceAnswer, Moves, IsTable, IsRecord, HandlerFields
  <2>3. Handler(r)'
    BY <2>2 DEF Handler, Running
  <2>4. Checked(r)' /\ SentOnce(r)' /\ RowLeft(r)' /\ Holding(r)'
    BY <2>2 DEF Sound, Running, Checked, SentOnce, RowLeft, Holding, Unkeyed, Handler,
       Unchecked, Prepared, Uncalled, Returned
  <2>5. Charged(r)'
    BY <2>2 DEF Sound, Charged, Due, Late, Billed, Uncalled, Unchecked, Prepared, Returned
  <2>. QED
    BY <2>2, <2>3, <2>4, <2>5 DEF Sound, Goes
<1>11. CASE ChargeAnswer(r)
  <2>1. h[r].charged \in Seq(Nat) /\ h[r].answers \in Nat /\ Late(r)
    BY <1>11 DEF ChargeAnswer, Handler, Sound, Charged
  <2>2. /\ Kept /\ h[r].pc = "charging" /\ h'[r].pc = "looping"
        /\ h'[r].attempt = h[r].attempt /\ h'[r].sends = h[r].sends
        /\ h'[r].answers = h[r].answers /\ h'[r].body = h[r].body
        /\ h'[r].charged = Append(h[r].charged, h[r].answers)
        /\ h'[r].rows = h[r].rows
    BY <1>11 DEF ChargeAnswer, Moves, IsTable, IsRecord, HandlerFields
  <2>3. Handler(r)'
    BY <2>1, <2>2 DEF Handler, Running
  <2>4. Checked(r)' /\ SentOnce(r)' /\ RowLeft(r)' /\ Holding(r)'
    BY <2>2 DEF Sound, Running, Checked, SentOnce, RowLeft, Holding, Unkeyed, Handler,
       Unchecked, Prepared, Uncalled, Returned
  <2>5. Charged(r)'
    <3>1. Due(r)'
      BY <2>1, <2>2, PaidNext DEF Due, Late
    <3>. QED
      BY <2>2, <3>1 DEF Sound, Charged, Uncalled, Unchecked, Prepared, Returned
  <2>. QED
    BY <2>2, <2>3, <2>4, <2>5 DEF Sound, Goes
<1>12. CASE Bill(r)
  <2>1. h[r].charged \in Seq(Nat) /\ h[r].answers \in Nat /\ h[r].body \in Nat
    BY DEF Handler
  <2>2. /\ Kept /\ h[r].pc = "billing" /\ h'[r].pc = "screening"
        /\ h'[r].attempt = h[r].attempt /\ h'[r].sends = h[r].sends
        /\ h'[r].answers = h[r].answers /\ h'[r].body = h[r].body
        /\ h'[r].charged = (IF h[r].body = 0 THEN h[r].charged
                            ELSE Append(h[r].charged, h[r].body))
        /\ h'[r].cost = h[r].body /\ h'[r].rows = h[r].rows
    BY <1>12 DEF Bill, Moves, IsTable, IsRecord, HandlerFields
  <2>3. Handler(r)'
    BY <2>1, <2>2 DEF Handler, Running
  <2>4. Checked(r)' /\ SentOnce(r)' /\ RowLeft(r)' /\ Holding(r)'
    BY <2>2 DEF Sound, Running, Checked, SentOnce, RowLeft, Holding, Unkeyed,
       Unchecked, Prepared, Uncalled, Returned
  <2>5. Charged(r)'
    <3>1. Due(r) /\ h[r].body \in {0, h[r].answers}
      BY <2>2 DEF Sound, Charged
    <3>2. IF h'[r].body = 0 THEN Due(r)' ELSE Billed(r)'
      BY <2>1, <2>2, <3>1 DEF Due, Billed
    <3>. QED
      BY <2>2, <3>1, <3>2 DEF Charged, Uncalled, Unchecked, Prepared, Returned
  <2>. QED
    BY <2>2, <2>3, <2>4, <2>5 DEF Sound, Goes
<1>13. CASE Suppress(r)
  <2>1. "suppressed" \in Returned /\ h[r].pc \in Running /\ Return(r, "suppressed", 0)
    BY <1>13 DEF Suppress, Returned, Running
  <2>. QED
    BY <1>13, <2>1 DEF Suppress, At, Ends, EndsAs, Returned
<1>14. CASE Pass(r)
  <2>1. /\ Kept /\ h[r].pc = "screening" /\ h'[r].pc = "screening"
        /\ h'[r].attempt = h[r].attempt /\ h'[r].sends = h[r].sends
        /\ h'[r].answers = h[r].answers /\ h'[r].body = h[r].body
        /\ h'[r].charged = h[r].charged /\ h'[r].rows = h[r].rows
        /\ h'[r].cost = h[r].cost
    BY <1>14 DEF Pass, Moves, IsTable, IsRecord, HandlerFields
  <2>2. Handler(r)'
    BY <2>1 DEF Handler, Running
  <2>3. Sound(r)'
    BY <2>1 DEF Running, Sound, Checked, SentOnce, Charged, Due, Late, Billed, RowLeft, Holding,
      Unkeyed,
       Unchecked, Prepared, Uncalled, Returned
  <2>. QED
    BY <2>1, <2>2, <2>3 DEF Goes
<1>15. CASE Finish(r)
  <2>1. /\ Kept /\ h[r].pc = "screening" /\ h'[r].pc \in {"storing", "answered"}
        /\ h'[r].pc = "storing" => h'[r].success
        /\ h'[r].attempt = h[r].attempt /\ h'[r].sends = h[r].sends
        /\ h'[r].answers = h[r].answers /\ h'[r].body = h[r].body
        /\ h'[r].charged = h[r].charged /\ h'[r].rows = h[r].rows + 1
        /\ h'[r].cost = h[r].cost
    BY <1>15 DEF Finish, Moves, IsTable, IsRecord, HandlerFields
  <2>2. Handler(r)'
    BY <2>1 DEF Handler, Over
  <2>3. Sound(r)'
    BY <2>1 DEF Running, Sound, Checked, SentOnce, Charged, Due, Late, Billed, RowLeft, Holding,
      Unkeyed,
       Unchecked, Prepared, Uncalled, Returned
  <2>. QED
    BY <2>1, <2>2, <2>3 DEF Goes
<1>16. CASE Store(r)
  <2>1. /\ Kept /\ h[r].pc = "storing" /\ h'[r].pc = "answered"
        /\ h'[r].attempt = h[r].attempt /\ h'[r].sends = h[r].sends
        /\ h'[r].answers = h[r].answers /\ h'[r].body = h[r].body
        /\ h'[r].charged = h[r].charged /\ h'[r].rows = h[r].rows
        /\ h'[r].cost = h[r].cost
    BY <1>16 DEF Store, Moves, IsTable, IsRecord, HandlerFields
  <2>2. Handler(r)'
    BY <2>1 DEF Handler, Over
  <2>3. Sound(r)'
    BY <2>1 DEF Running, Sound, Checked, SentOnce, Charged, Due, Late, Billed, RowLeft, Holding,
      Unkeyed,
       Unchecked, Prepared, Uncalled, Returned
  <2>. QED
    BY <2>1, <2>2, <2>3 DEF Goes
<1>. QED
  BY <1>3, <1>4, <1>5, <1>6, <1>7, <1>8, <1>9, <1>10, <1>11, <1>12, <1>13, <1>14,
     <1>15, <1>16 DEF PostFlight

-----------------------------------------------------------------------------
\* Every step, and what all of them have in common.

HandlerStep(r) == PreFlight(r) \/ Call(r) \/ PostFlight(r) \/ Disconnect(r)

\* A handler that moves is not done.
LEMMA StepMoves ==
  ASSUME HandlerInv, NEW r \in Requests, HandlerStep(r)
  PROVE  /\ Moves(r) /\ h[r].pc \in Running \cup {"storing"}
         /\ HandlerInv'
<1>1. IsTable
  BY DEF HandlerInv
<1>2. ASSUME Ends(r) PROVE Moves(r)
  BY <1>1, <1>2 DEF Ends, EndsAs, Return, Moves, IsTable
<1>0. ASSUME Refused(r), h[r].pc \in Uncalled PROVE Ends(r)
  BY <1>0 DEF Refused, Ends, EndsAs, Returned, Uncalled, Unchecked, Prepared
<1>3. ASSUME Advances(r) PROVE Moves(r)
  BY <1>3 DEF Advances
<1>4. ASSUME Goes(r) PROVE Moves(r) /\ HandlerInv'
  BY <1>4, OneMoves DEF Goes
<1>5. CASE Prepares(r)
  <2>1. h[r].pc \in Running
    BY <1>5, PrepareStep DEF Uncalled, Unchecked, Prepared, Running
  <2>. QED
    BY <1>0, <1>2, <1>3, <1>5, <2>1, PrepareStep, EndInv, AdvanceInv
<1>6. CASE Calls(r)
  BY <1>2, <1>4, <1>6, CallStep, EndInv
<1>7. CASE PostFlight(r)
  <2>1. h[r].pc \in Running \cup {"storing"}
    BY <1>7 DEF PostFlight, LoopEnds, LoopContinues, LoopRetry, LoopFails,
       LoopRespond, LoopCut, LoopError, LoopAnswer, PriceAnswer, ChargeAnswer,
       Bill, Suppress, Pass, Finish, Store, At, Running
  <2>. QED
    BY <1>2, <1>4, <1>7, <2>1, PostFlightStep, EndInv
<1>. QED
  BY <1>5, <1>6, <1>7 DEF HandlerStep, Prepares, Calls, Call

\* Initially every handler is new and holds nothing.
LEMMA InitHandlerInv == Init => HandlerInv
<1>. SUFFICES ASSUME Init PROVE HandlerInv
  OBVIOUS
<1>1. h = [q \in Requests |-> NewHandler(req[q])]
  BY DEF Init
<1>2. IsTable
  BY <1>1 DEF IsTable
<1>3. <<>> \in Seq(Nat)
  OBVIOUS
<1>4. ASSUME NEW r \in Requests PROVE Handler(r)
  BY <1>1, <1>3 DEF Handler, IsRecord, HandlerFields, NewHandler, Running
<1>5. ASSUME NEW r \in Requests PROVE Sound(r)
  <2>1. Checked(r) /\ SentOnce(r) /\ RowLeft(r) /\ Holding(r)
    BY <1>1 DEF Checked, SentOnce, RowLeft, Holding, NewHandler,
       Running, Unchecked, Prepared, Uncalled, Returned
  <2>2. /\ h[r].pc = "arrived" /\ h[r].body = 0 /\ h[r].answers = 0
        /\ h[r].charged = <<>>
    BY <1>1 DEF NewHandler
  <2>3. Due(r)
    BY <2>2, PaidNone DEF Due
  <2>4. Charged(r)
    BY <2>2, <2>3 DEF Charged, Returned
  <2>. QED
    BY <2>1, <2>4 DEF Sound
<1>. QED
  BY <1>2, <1>4, <1>5 DEF HandlerInv

\* Administrators, the cache's expiry and the clock leave the handlers alone.
Outside ==
    \/ \E t \in {req[r].token : r \in Requests} : Revoke(t) \/ ChangeLists(t)
    \/ \E e \in cache : Expire(e)
    \/ Tick

\* Administrators, expiries and the clock touch no handler and no counter.
LEMMA OutsideFrame == Outside => UNCHANGED <<req, h, inflight>>
BY DEF Outside, Revoke, ChangeLists, Expire, Tick

\* The invariant is about the handlers and their requests only.
LEMMA SameHandlers ==
  ASSUME HandlerInv, UNCHANGED <<req, h>>
  PROVE  HandlerInv'
<1>1. h' = h /\ req' = req
  OBVIOUS
<1>2. IsTable'
  BY <1>1 DEF HandlerInv, IsTable
<1>3. ASSUME NEW r \in Requests PROVE Handler(r)' /\ Sound(r)'
  <2>1. Handler(r)'
    BY <1>1 DEF HandlerInv, Handler, IsRecord
  <2>2. Checked(r)' /\ SentOnce(r)'
    BY <1>1 DEF HandlerInv, Sound, Checked, SentOnce, Unkeyed
  <2>3. Charged(r)' /\ RowLeft(r)' /\ Holding(r)'
    BY <1>1 DEF HandlerInv, Sound, Charged, Due, Late, Billed, RowLeft, Holding
  <2>. QED
    BY <2>1, <2>2, <2>3 DEF Sound
<1>. QED
  BY <1>2, <1>3 DEF HandlerInv

\* HandlerInv is inductive.
LEMMA HandlerNext == HandlerInv /\ [Next]_vars => HandlerInv'
<1>1. Next <=> Outside \/ \E r \in Requests : HandlerStep(r)
  BY DEF Next, Outside, HandlerStep
<1>. QED
  BY <1>1, StepMoves, OutsideFrame, SameHandlers DEF vars

-----------------------------------------------------------------------------
\* The cache.

\* Answers are immutable: the handler that gave one never moves again.
LEMMA AnswerStays ==
  ASSUME HandlerInv, NEW r \in Requests, HandlerStep(r), NEW q, NEW key, AnswerOf(q, key)
  PROVE  AnswerOf(q, key)'
<1>1. Moves(r) /\ q # r /\ q \in Requests
  BY StepMoves DEF AnswerOf, Running
<1>. QED
  BY <1>1 DEF AnswerOf, Moves, CacheKey

\* What a return leaves.
LEMMA ReturnEffect ==
  ASSUME IsTable, NEW r \in Requests, NEW end, NEW audit, Return(r, end, audit)
  PROVE  h'[r].pc = end /\ h'[r].url = h[r].url /\ h'[r].passed = h[r].passed
BY DEF IsTable, Return, NewHandler

\* Only a look-up makes a handler hold an answer, and only Store stores one.
LEMMA OthersHoldNone ==
  ASSUME HandlerInv, NEW r \in Requests, HandlerStep(r), ~LookUp(r), ~Store(r)
  PROVE  h'[r].pc # "served" /\ cache' = cache
<1>1. IsTable /\ IsRecord(r)
  BY DEF HandlerInv, Handler
<1>2. ASSUME Refused(r) PROVE h'[r].pc # "served"
  BY <1>1, <1>2, ReturnEffect DEF Refused
<1>3. CASE Prepares(r)
  <2>1. h'[r].pc # "served"
    BY <1>2, <1>3, PrepareStep DEF Advances, Unchecked, Prepared
  <2>2. cache' = cache
    BY <1>3 DEF Prepares, PreFlight, Authenticate, EvaluatePreFlight, Note,
      RequireApproval,
       Deny, PolicyRateLimit, Rewrite, DynamicRoute, ConditionalRoute, ContentFilter, Redact,
       ExternalGuardrail, ToolScope, DefaultRateLimit, Admit, Approve, ResolveUpstream,
       RetrieveCredential, CheckTeamAndProvider, BuildRequest, InjectCredential, shared
  <2>. QED
    BY <2>1, <2>2
<1>. USE <1>1, ReturnEffect DEF At, Goto, IsTable, IsRecord, HandlerFields, shared
<1>4. CASE CheckModelAccess(r)
  BY <1>4 DEF CheckModelAccess
<1>5. CASE EnterUpstream(r)
  BY <1>5 DEF EnterUpstream
<1>6. CASE Retry(r) \/ LoopRetry(r)
  BY <1>6 DEF Retry, LoopRetry, Resend
<1>7. CASE Respond(r)
  <2>1. PICK ok \in BOOLEAN :
           h' = [h EXCEPT ![r].pc = IF req[r].stream /\ ok THEN "streamed" ELSE "reading",
                          ![r].sends = @ + 1, ![r].success = ok]
    BY <1>7 DEF Respond
  <2>2. h'[r].pc = IF req[r].stream /\ ok THEN "streamed" ELSE "reading"
    BY <2>1
  <2>. QED
    BY <1>7, <2>2 DEF Respond
<1>8. CASE Fail(r) \/ Suppress(r)
  BY <1>8 DEF Fail, Suppress
<1>13. CASE Disconnect(r)
  BY <1>13 DEF Disconnect
<1>9. CASE ReadBody(r)
  BY <1>9 DEF ReadBody
<1>10. CASE LoopEnds(r) \/ LoopContinues(r) \/ LoopAnswer(r) \/ PriceAnswer(r) \/ ChargeAnswer(r)
  BY <1>10 DEF LoopEnds, LoopContinues, LoopAnswer, PriceAnswer, ChargeAnswer
<1>11. CASE LoopRespond(r) \/ LoopCut(r) \/ LoopError(r) \/ LoopFails(r)
  BY <1>11 DEF LoopRespond, LoopCut, LoopError, LoopFails
<1>12. CASE Bill(r) \/ Pass(r) \/ Finish(r)
  BY <1>12 DEF Bill, Pass, Finish
<1>. QED
  BY <1>3, <1>4, <1>5, <1>6, <1>7, <1>8, <1>9, <1>10, <1>11, <1>12, <1>13
  DEF HandlerStep, Prepares, Call, PostFlight

\* CacheInv is inductive, given HandlerInv.
LEMMA CacheNext ==
  ASSUME HandlerInv, CacheInv, [Next]_vars
  PROVE  CacheInv'
<1>1. HandlerInv'
  BY HandlerNext
<1>2. ASSUME NEW r \in Requests, HandlerStep(r) PROVE CacheInv'
  <2>1. Moves(r) /\ IsTable /\ IsRecord(r)
    BY <1>2, StepMoves DEF HandlerInv, Handler
  <2>2. ASSUME NEW q \in Requests, q # r, h'[q].source # None
        PROVE  AnswerOf(h[q].source, CacheKey(q))'
    <3>1. PICK source, key : source = h[q].source /\ key = CacheKey(q)
      OBVIOUS
    <3>2. h'[q].source = source /\ CacheKey(q)' = key
      BY <2>1, <2>2, <3>1 DEF Moves, CacheKey
    <3>3. AnswerOf(source, key)
      BY <2>2, <3>1, <3>2 DEF CacheInv
    <3>4. AnswerOf(source, key)'
      BY <1>2, <3>3, AnswerStays
    <3>. QED
      BY <3>2, <3>4
  <2>3. ASSUME NEW e \in cache PROVE AnswerOf(e.source, e.key)'
    BY <1>2, <2>3, AnswerStays DEF CacheInv
  <2>4. CASE LookUp(r)
    <3>1. CASE Goto(r, "checking")
      <4>1. h'[r].source = None
        BY <1>1, <2>1, <3>1 DEF HandlerInv, Sound, Holding, Goto, IsTable,
          IsRecord, HandlerFields
      <4>2. cache' = cache
        BY <2>4 DEF LookUp, shared
      <4>. QED
        BY <2>2, <2>3, <4>1, <4>2 DEF CacheInv
    <3>2. CASE ~Goto(r, "checking")
      <4>1. PICK e \in cache : /\ e.key = CacheKey(r)
                               /\ h' = [h EXCEPT ![r].pc = "served",
                                                 ![r].source = e.source,
                                                 ![r].charged = <<1>>,
                                                 ![r].rows = @ + 1]
        BY <2>4, <3>2 DEF LookUp
      <4>2. /\ h'[r].source = e.source /\ cache' = cache
            /\ h'[r].model = h[r].model /\ h'[r].text = h[r].text
        BY <2>1, <2>4, <4>1 DEF LookUp, shared, IsTable, IsRecord, HandlerFields
      <4>3. CacheKey(r)' = e.key
        BY <2>1, <4>1, <4>2 DEF Moves, CacheKey
      <4>. QED
        BY <2>2, <2>3, <4>2, <4>3 DEF CacheInv
    <3>. QED
      BY <3>1, <3>2
  <2>5. CASE Store(r)
    <3>1. /\ h[r].pc = "storing" /\ h'[r].pc = "answered"
          /\ h'[r].success = h[r].success /\ h'[r].source = h[r].source
          /\ h'[r].model = h[r].model /\ h'[r].text = h[r].text
      BY <2>1, <2>5 DEF Store, At, Goto, IsTable, IsRecord, HandlerFields
    <3>2. h[r].success /\ h[r].source = None
      BY <3>1 DEF HandlerInv, Sound, Holding
    <3>3. CacheKey(r)' = CacheKey(r) /\ AnswerOf(r, CacheKey(r))'
      BY <2>1, <3>1, <3>2 DEF AnswerOf, CacheKey, Moves
    <3>4. ASSUME NEW e \in cache' PROVE AnswerOf(e.source, e.key)'
      <4>1. CASE e \in cache
        BY <2>3, <4>1
      <4>2. CASE e = [key |-> CacheKey(r), source |-> r]
        BY <3>3, <4>2 DEF AnswerOf
      <4>. QED
        BY <2>5, <3>4, <4>1, <4>2 DEF Store
    <3>. QED
      BY <2>2, <3>1, <3>2, <3>4 DEF CacheInv
  <2>6. CASE ~LookUp(r) /\ ~Store(r)
    <3>1. h'[r].source = None /\ cache' = cache
      BY <1>1, <1>2, <2>6, OthersHoldNone DEF HandlerInv, Sound, Holding
    <3>. QED
      BY <2>2, <2>3, <3>1 DEF CacheInv
  <2>. QED
    BY <2>4, <2>5, <2>6
<1>3. CASE Outside
  <2>1. h' = h /\ req' = req /\ cache' \subseteq cache
    BY <1>3 DEF Outside, Revoke, ChangeLists, Expire, Tick
  <2>. QED
    BY <2>1 DEF CacheInv, AnswerOf, CacheKey
<1>4. CASE UNCHANGED vars
  BY <1>4 DEF vars, shared, CacheInv, AnswerOf, CacheKey
<1>. QED
  BY <1>2, <1>3, <1>4 DEF Next, Outside, HandlerStep

-----------------------------------------------------------------------------
\* The in-flight counters.

InCall(r) == h[r].pc \in {"sending", "unsigned", "droppedSending"}

CallsTo(url) == {r \in Requests : h[r].url = url /\ InCall(r)}

\* A handler's step leaves the counters alone, starts a call or ends it.
Stays(r)  == /\ InCall(r)' <=> InCall(r)
             /\ InCall(r) => h'[r].url = h[r].url
             /\ inflight' = inflight
Starts(r) == /\ ~InCall(r) /\ InCall(r)' /\ h'[r].url = h[r].url
             /\ inflight' = [inflight EXCEPT ![h[r].url] = @ + 1]
Finishes(r) == InCall(r) /\ ~InCall(r)' /\ Leave(r)

\* A handler's step raises one counter, lowers one, or leaves them all, and
\* does so exactly as it enters and leaves its call.
LEMMA CounterStep ==
  ASSUME HandlerInv, NEW r \in Requests, HandlerStep(r)
  PROVE  Stays(r) \/ Starts(r) \/ Finishes(r)
<1>1. IsTable /\ IsRecord(r)
  BY DEF HandlerInv, Handler
<1>. USE DEF Stays, InCall
<1>3. CASE Prepares(r)
  <2>1. h[r].pc \in Uncalled /\ (h'[r].pc \in Uncalled \/ h'[r].pc = "refused")
    BY <1>1, <1>3, PrepareStep, ReturnEffect DEF Refused, Advances, Uncalled
  <2>2. inflight' = inflight
    BY <1>3 DEF Prepares, PreFlight, Authenticate, EvaluatePreFlight, Note,
      RequireApproval,
       Deny, PolicyRateLimit, Rewrite, DynamicRoute, ConditionalRoute, ContentFilter, Redact,
       ExternalGuardrail, ToolScope, DefaultRateLimit, Admit, Approve, ResolveUpstream,
       RetrieveCredential, CheckTeamAndProvider, BuildRequest, InjectCredential, shared
  <2>. QED
    BY <2>1, <2>2 DEF Uncalled, Unchecked, Prepared
<1>. USE <1>1, ReturnEffect DEF At, Goto, IsTable, IsRecord, HandlerFields, shared
<1>4. CASE LookUp(r)
  <2>1. h'[r].pc \in {"served", "checking"} /\ h[r].pc = "looking"
    <3>1. CASE Goto(r, "checking")
      BY <1>4, <3>1 DEF LookUp
    <3>2. CASE ~Goto(r, "checking")
      <4>1. PICK e \in cache : h' = [h EXCEPT ![r].pc = "served",
                                              ![r].source = e.source,
                                              ![r].charged = <<1>>,
                                              ![r].rows = @ + 1]
        BY <1>4, <3>2 DEF LookUp
      <4>. QED
        BY <1>4, <4>1 DEF LookUp
    <3>. QED
      BY <3>1, <3>2
  <2>. QED
    BY <1>4, <2>1 DEF LookUp
<1>5. CASE CheckModelAccess(r)
  BY <1>5 DEF CheckModelAccess
<1>6. CASE EnterUpstream(r)
  BY <1>6 DEF EnterUpstream, Starts
<1>7. CASE Retry(r) \/ LoopRetry(r)
  BY <1>7 DEF Retry, LoopRetry, Resend
<1>8. CASE Respond(r)
  <2>1. PICK ok \in BOOLEAN :
           h' = [h EXCEPT ![r].pc = IF req[r].stream /\ ok THEN "streamed" ELSE "reading",
                          ![r].sends = @ + 1, ![r].success = ok]
    BY <1>8 DEF Respond
  <2>2. h'[r].pc = IF req[r].stream /\ ok THEN "streamed" ELSE "reading"
    BY <2>1
  <2>. QED
    BY <1>8, <2>2 DEF Respond, Finishes
<1>9. CASE Fail(r)
  BY <1>9 DEF Fail, Finishes
<1>10. CASE ReadBody(r)
  BY <1>10 DEF ReadBody
<1>11. CASE LoopEnds(r) \/ LoopContinues(r) \/ LoopAnswer(r) \/ PriceAnswer(r) \/ ChargeAnswer(r)
  BY <1>11 DEF LoopEnds, LoopContinues, LoopAnswer, PriceAnswer, ChargeAnswer
<1>12. CASE LoopRespond(r) \/ LoopCut(r) \/ LoopError(r) \/ LoopFails(r)
  BY <1>12 DEF LoopRespond, LoopCut, LoopError, LoopFails
<1>13. CASE Bill(r) \/ Pass(r)
  BY <1>13 DEF Bill, Pass
<1>14. CASE Finish(r) \/ Store(r)
  BY <1>14 DEF Finish, Store
<1>15. CASE Suppress(r)
  BY <1>15 DEF Suppress
<1>16. CASE Disconnect(r)
  BY <1>16 DEF Disconnect, Running
<1>. QED
  BY <1>3, <1>4, <1>5, <1>6, <1>7, <1>8, <1>9, <1>10, <1>11, <1>12, <1>13, <1>14,
    <1>15, <1>16
  DEF HandlerStep, Prepares, Call, PostFlight

Counted == inflight = [u \in Urls |-> Cardinality(CallsTo(u))]

\* The counters keep counting the calls.
LEMMA CountedStep ==
  ASSUME HandlerInv, Counted, NEW r \in Requests, HandlerStep(r)
  PROVE  Counted'
<1>1. Moves(r)
  BY StepMoves
<1>2. ASSUME NEW u PROVE IsFiniteSet(CallsTo(u)) /\ Cardinality(CallsTo(u)) \in Nat
  <2>1. CallsTo(u) \in SUBSET Requests /\ IsFiniteSet(Requests)
    BY PipelineAssumption DEF CallsTo
  <2>. QED
    BY <2>1, FS_Subset, FS_CardinalityType
<1>3. CASE Stays(r)
  <2>1. ASSUME NEW u \in Urls PROVE CallsTo(u)' = CallsTo(u)
    BY <1>1, <1>3 DEF Stays, Moves, CallsTo, InCall
  <2>. QED
    BY <1>3, <2>1 DEF Stays, Counted
<1>4. CASE Starts(r)
  <2>1. ASSUME NEW u \in Urls
        PROVE  Cardinality(CallsTo(u)') = IF u = h[r].url THEN Cardinality(CallsTo(u)) + 1
                                                       ELSE Cardinality(CallsTo(u))
    <3>1. CASE u = h[r].url
      <4>1. CallsTo(u)' = CallsTo(u) \cup {r} /\ r \notin CallsTo(u)
        BY <1>1, <1>4, <3>1 DEF Starts, Moves, CallsTo, InCall
      <4>. QED
        BY <1>2, <3>1, <4>1, FS_AddElement
    <3>2. CASE u # h[r].url
      <4>1. CallsTo(u)' = CallsTo(u)
        BY <1>1, <1>4, <3>2 DEF Starts, Moves, CallsTo, InCall
      <4>. QED
        BY <3>2, <4>1
    <3>. QED
      BY <3>1, <3>2
  <2>. QED
    BY <1>4, <2>1 DEF Starts, Counted
<1>5. CASE Finishes(r)
  <2>1. ASSUME NEW u \in Urls
        PROVE  Cardinality(CallsTo(u)') = IF u = h[r].url
                                          THEN IF Cardinality(CallsTo(u)) > 0
                                               THEN Cardinality(CallsTo(u)) - 1 ELSE 0
                                          ELSE Cardinality(CallsTo(u))
    <3>1. CASE u = h[r].url
      <4>1. CallsTo(u)' = CallsTo(u) \ {r} /\ r \in CallsTo(u)
        BY <1>1, <1>5, <3>1 DEF Finishes, Moves, CallsTo, InCall
      <4>2. Cardinality(CallsTo(u)') = Cardinality(CallsTo(u)) - 1
        BY <1>2, <4>1, FS_RemoveElement
      <4>3. Cardinality(CallsTo(u)) # 0
        BY <1>2, <4>1, FS_EmptySet
      <4>. QED
        BY <1>2, <3>1, <4>2, <4>3
    <3>2. CASE u # h[r].url
      <4>1. CallsTo(u)' = CallsTo(u)
        BY <1>1, <1>5, <3>2 DEF Finishes, Moves, CallsTo, InCall
      <4>. QED
        BY <3>2, <4>1
    <3>. QED
      BY <3>1, <3>2
  <2>. QED
    BY <1>5, <2>1 DEF Finishes, Leave, Counted
<1>. QED
  BY <1>3, <1>4, <1>5, CounterStep

-----------------------------------------------------------------------------
\* The windows.

\* A handler's step leaves them and its passes alone, or enters a window, and
\* passes its limit only if the window holds no more entries than that.
LEMMA LimitStep ==
  ASSUME HandlerInv, req \in Arrivals, NEW r \in Requests, HandlerStep(r)
  PROVE  \/ hits' = hits /\ h'[r].passed = h[r].passed
         \/ \E w : Hit(r, w) /\ h'[r].passed = h[r].passed
         \/ \E w, limit : /\ limit \in Nat /\ Hit(r, w) /\ ~Exceeded(w, limit)
                          /\ h'[r].passed = Passed(r, w, limit)
<1>1. IsTable /\ IsRecord(r)
  BY DEF HandlerInv, Handler
<1>2. ASSUME Ends(r) PROVE h'[r].passed = h[r].passed
  BY <1>1, <1>2, ReturnEffect DEF Ends, EndsAs
<1>3. CASE Calls(r)
  <2>1. h'[r].passed = h[r].passed
    BY <1>2, <1>3, CallStep DEF Goes
  <2>. QED
    BY <1>3, <2>1 DEF Calls, LookUp, CheckModelAccess, EnterUpstream, Retry,
      Respond, Fail,
       ReadBody, Disconnect, shared
<1>4. CASE PostFlight(r)
  <2>1. h'[r].passed = h[r].passed
    BY <1>2, <1>4, PostFlightStep DEF Goes
  <2>. QED
    BY <1>4, <2>1 DEF PostFlight, LoopEnds, LoopContinues, LoopRetry, LoopFails, LoopRespond,
       LoopCut, LoopError, LoopAnswer, PriceAnswer, ChargeAnswer, Bill, Suppress, Pass, Finish, Store, shared
<1>5. CASE Prepares(r) /\ ~RateLimits(r)
  <2>1. h'[r].passed = h[r].passed
    BY <1>1, <1>5, PrepareStep, ReturnEffect DEF Refused
  <2>. QED
    BY <1>5, <2>1
    DEF Prepares, RateLimits, PreFlight, Authenticate, EvaluatePreFlight, Note,
       RequireApproval, Deny, Rewrite, DynamicRoute, ConditionalRoute, ContentFilter, Redact,
       ExternalGuardrail, ToolScope, Admit, Approve, ResolveUpstream, RetrieveCredential,
       CheckTeamAndProvider, BuildRequest, InjectCredential, shared
<1>6. CASE PolicyRateLimit(r)
  <2>. DEFINE w     == PolicyWindow(req[r].token, Action(r).policy)
              limit == Action(r).max
  <2>. HIDE DEF w, limit
  <2>1. limit \in Nat
    BY <1>6 DEF PolicyRateLimit, limit
  <2>2. CASE Return(r, "refused", 0) /\ UNCHANGED hits
    BY <1>1, <2>2, ReturnEffect
  <2>3. CASE Hit(r, w) /\ Return(r, "refused", 1)
    BY <1>1, <2>3, ReturnEffect
  <2>4. CASE /\ Hit(r, w) /\ ~Exceeded(w, limit)
             /\ h' = [h EXCEPT ![r].todo = Tail(@), ![r].limited = TRUE,
                               ![r].passed = Passed(r, w, limit)]
    <3>1. h'[r].passed = Passed(r, w, limit)
      BY <1>1, <2>4 DEF IsTable, IsRecord, HandlerFields
    <3>. QED
      BY <2>1, <2>4, <3>1
  <2>. QED
    BY <1>6, <2>2, <2>3, <2>4 DEF PolicyRateLimit, w, limit
<1>7. CASE DefaultRateLimit(r)
  <2>. DEFINE w     == DefaultWindow(req[r].token)
              limit == req[r].defaultLimit
  <2>. HIDE DEF w, limit
  <2>1. limit \in Nat
    BY PipelineAssumption DEF limit
  <2>2. CASE Goto(r, "admitting") /\ UNCHANGED hits
    BY <1>1, <2>2 DEF Goto, IsTable, IsRecord, HandlerFields
  <2>3. CASE Return(r, "refused", 0) /\ UNCHANGED hits
    BY <1>1, <2>3, ReturnEffect
  <2>4. CASE Hit(r, w) /\ Return(r, "refused", 1)
    BY <1>1, <2>4, ReturnEffect
  <2>5. CASE /\ Hit(r, w) /\ ~Exceeded(w, limit)
             /\ h' = [h EXCEPT ![r].pc = "admitting", ![r].passed = Passed(r, w, limit)]
    <3>1. h'[r].passed = Passed(r, w, limit)
      BY <1>1, <2>5 DEF IsTable, IsRecord, HandlerFields
    <3>. QED
      BY <2>1, <2>5, <3>1
  <2>. QED
    BY <1>7, <2>2, <2>3, <2>4, <2>5 DEF DefaultRateLimit, w, limit
<1>. QED
  BY <1>3, <1>4, <1>5, <1>6, <1>7
  DEF HandlerStep, Prepares, PreFlight, Calls, Call, RateLimits

\* The entries of a window that a hit leaves: the request's own, and those
\* that are younger than the window.
Within(w) == {e \in hits : e.window = w}

\* What the window script does to the hits of its window.
LEMMA HitEffect ==
  ASSUME IsFiniteSet(hits), NEW r \in Requests, NEW w, Hit(r, w),
         now \in Nat
  PROVE  /\ IsFiniteSet(hits')
         /\ Window > 0 => \E e \in hits' : e.window = w /\ e.member[1] = r /\ e.at = now
         /\ \A e \in hits : e.window # w \/ e.at + Window > now => e \in hits'
<1>. DEFINE own == [window |-> w, member |-> <<r, Len(h[r].todo)>>, at |-> now]
<1>1. own.window = w /\ own.member[1] = r /\ own.at = now
  OBVIOUS
<1>2. IsFiniteSet(hits \cup {own})
  BY FS_AddElement
<1>. HIDE DEF own
<1>3. hits' = {e \in hits \cup {own} : e.window # w \/ e.at + Window > now}
  BY DEF Hit, own
<1>4. IsFiniteSet(hits')
  BY <1>2, <1>3, FS_Subset
<1>5. Window > 0 => own \in hits'
  BY <1>1, <1>3, PipelineAssumption
<1>. QED
  BY <1>1, <1>3, <1>4, <1>5

\* Who has an entry each are no more than the entries.
LEMMA OwnersBound ==
  ASSUME NEW E, IsFiniteSet(E), NEW P,
         \A q \in P : \E e \in E : e.member[1] = q
  PROVE  IsFiniteSet(P) /\ Cardinality(P) <= Cardinality(E)
<1>. DEFINE entry == [q \in P |-> CHOOSE e \in E : e.member[1] = q]
<1>1. \A q \in P : entry[q] \in E /\ entry[q].member[1] = q
  OBVIOUS
<1>2. entry \in [P -> E]
  BY <1>1
<1>3. entry \in Injection(P, E)
  <2>1. ASSUME NEW p \in P, NEW q \in P, entry[p] = entry[q] PROVE p = q
    BY <1>1, <2>1
  <2>. HIDE DEF entry
  <2>. QED
    BY <1>2, <2>1 DEF Injection, IsInjective
<1>. QED
  BY <1>3, FS_Injection

\* Requests that got past a limit of at most n on w in the Window ticks from t.
Passers(w, n, t) ==
    {q \in Requests : \E o \in h[q].passed :
        /\ o.window = w /\ o.limit <= n
        /\ o.at \in t..(t + Window - 1)}

\* RateLimitHolds, with the requests it counts named.
LEMMA PassersHold ==
  RateLimitHolds <=>
      \A r \in Requests : \A p \in h[r].passed :
          Cardinality(Passers(p.window, p.limit, p.at)) <= p.limit
BY DEF RateLimitHolds, Passers

\* A step that passes no limit leaves what RateLimitHolds counts alone.
LEMMA SamePasses ==
  ASSUME RateLimitHolds, \A r \in Requests : h'[r].passed = h[r].passed
  PROVE  RateLimitHolds'
<1>1. ASSUME NEW r \in Requests, NEW p \in h'[r].passed
      PROVE  Passers(p.window, p.limit, p.at)' = Passers(p.window, p.limit, p.at)
  BY DEF Passers
<1>. QED
  BY <1>1, PassersHold DEF RateLimitHolds, Passers

\* Handlers do not move the clock.
LEMMA StepTime ==
  ASSUME NEW r \in Requests, HandlerStep(r)
  PROVE  now' = now
<1>1. CASE PreFlight(r)
  BY <1>1 DEF PreFlight, Authenticate, EvaluatePreFlight, Note, RequireApproval,
     Deny, PolicyRateLimit, Rewrite, DynamicRoute, ConditionalRoute, ContentFilter, Redact,
     ExternalGuardrail, ToolScope, DefaultRateLimit, Admit, Approve, shared
<1>2. CASE Call(r)
  BY <1>2 DEF Call, ResolveUpstream, RetrieveCredential, LookUp, CheckModelAccess,
     CheckTeamAndProvider, BuildRequest, InjectCredential, EnterUpstream, Retry, Respond, Fail,
     ReadBody, shared
<1>3. CASE PostFlight(r)
  BY <1>3 DEF PostFlight, LoopEnds, LoopContinues, LoopRetry, LoopFails, LoopRespond,
       LoopCut, LoopError, LoopAnswer, PriceAnswer, ChargeAnswer, Bill, Suppress, Pass, Finish, Store, shared
<1>4. CASE Disconnect(r)
  BY <1>4 DEF Disconnect, shared
<1>. QED
  BY <1>1, <1>2, <1>3, <1>4 DEF HandlerStep

\* WindowsInv is inductive, given HandlerInv.
LEMMA WindowsNext ==
  ASSUME HandlerInv, WindowsInv, [Next]_vars
  PROVE  WindowsInv'
<1>. USE PipelineAssumption DEF WindowsInv
<1>1. ASSUME NEW r \in Requests, HandlerStep(r) PROVE WindowsInv'
  <2>1. Moves(r) /\ req' = req
    BY <1>1, StepMoves DEF Moves
  <2>2. now' = now
    BY <1>1, StepTime
  <2>3. ASSUME NEW q \in Requests, q # r PROVE h'[q] = h[q]
    BY <2>1, <2>3 DEF Moves
  <2>4. CASE hits' = hits /\ h'[r].passed = h[r].passed
    <3>1. ASSUME NEW q \in Requests PROVE h'[q].passed = h[q].passed
      BY <2>3, <2>4
    <3>2. RateLimitHolds'
      BY <3>1, SamePasses
    <3>3. ASSUME NEW q \in Requests PROVE Entered(q)'
      BY <2>2, <2>4, <3>1 DEF Entered
    <3>. QED
      BY <2>1, <2>2, <2>4, <3>2, <3>3
  <2>5. ASSUME NEW w, Hit(r, w), h'[r].passed = h[r].passed
        PROVE  WindowsInv'
    <3>1. ASSUME NEW q \in Requests PROVE h'[q].passed = h[q].passed
      BY <2>3, <2>5
    <3>2. RateLimitHolds'
      BY <3>1, SamePasses
    <3>3. IsFiniteSet(hits')
      BY <2>5, HitEffect
    <3>4. ASSUME NEW q \in Requests PROVE Entered(q)'
      BY <2>2, <2>5, <3>1, HitEffect DEF Entered
    <3>. QED
      BY <2>1, <2>2, <3>2, <3>3, <3>4
  <2>6. ASSUME NEW w, NEW limit \in Nat, Hit(r, w), ~Exceeded(w, limit),
               h'[r].passed = Passed(r, w, limit)
        PROVE  WindowsInv'
    <3>1. Entered(r)' /\ \A q \in Requests : Entered(q)'
      <4>1. ASSUME NEW q \in Requests, q # r PROVE Entered(q)'
        BY <2>2, <2>3, <2>6, <4>1, HitEffect DEF Entered
      <4>2. Entered(r)'
        <5>1. ASSUME NEW p \in h[r].passed
              PROVE  /\ p.at \in 0..now /\ p.limit \in Nat
                     /\ p.at + Window > now
                           => \E e \in hits' : e.window = p.window /\ e.member[1] = r /\ e.at = p.at
          BY <2>6, HitEffect DEF Entered
        <5>2. now \in 0..now /\ limit \in Nat
              /\ (now + Window > now
                    => \E e \in hits' : e.window = w /\ e.member[1] = r /\ e.at = now)
          BY <2>6, HitEffect
        <5>. QED
          BY <2>2, <2>6, <5>1, <5>2 DEF Entered, Passed
      <4>. QED
        BY <4>1, <4>2
    <3>2. IsFiniteSet(hits')
      BY <2>6, HitEffect
    <3>3. Cardinality(Within(w)') <= limit /\ IsFiniteSet(Within(w)')
          /\ Cardinality(Within(w)') \in Nat
      <4>1. Within(w)' \in SUBSET hits' /\ Within(w)' = {e \in hits' : e.window = w}
        BY DEF Within
      <4>. QED
        BY <2>6, <3>2, <4>1, FS_Subset, FS_CardinalityType DEF Exceeded
    <3>4. ASSUME NEW n \in Nat, limit <= n, NEW t \in Nat, now \in t..(t + Window - 1)
          PROVE  Cardinality(Passers(w, n, t)') <= n
      <4>1. ASSUME NEW q \in Passers(w, n, t)'
            PROVE  \E e \in Within(w)' : e.member[1] = q
        <5>1. PICK o \in h'[q].passed : o.window = w /\ o.at \in t..(t + Window - 1)
          BY DEF Passers
        <5>2. o.at + Window > now'
          BY <2>2, <3>4, <5>1
        <5>3. q \in Requests
          BY DEF Passers
        <5>. QED
          BY <3>1, <5>1, <5>2, <5>3 DEF Entered, Within
      <4>2. Cardinality(Passers(w, n, t)') <= Cardinality(Within(w)')
            /\ IsFiniteSet(Passers(w, n, t)')
        BY <3>3, <4>1, OwnersBound
      <4>3. Cardinality(Passers(w, n, t)') \in Nat
        BY <4>2, FS_CardinalityType
      <4>. QED
        BY <3>3, <3>4, <4>2, <4>3
    <3>5. ASSUME NEW q \in Requests, NEW p \in h'[q].passed
          PROVE  Cardinality(Passers(p.window, p.limit, p.at)') <= p.limit
      <4>0. p.at \in Nat /\ p.limit \in Nat /\ p.at <= now
        BY <2>2, <3>1 DEF Entered
      <4>1. CASE p.window = w /\ limit <= p.limit /\ now \in p.at..(p.at + Window - 1)
        BY <3>4, <4>0, <4>1
      <4>2. CASE ~(p.window = w /\ limit <= p.limit /\ now \in p.at..(p.at + Window - 1))
        <5>1. Passers(p.window, p.limit, p.at)' = Passers(p.window, p.limit, p.at)
          BY <2>3, <2>6, <4>2 DEF Passers, Passed
        <5>2. CASE p \in h[q].passed
          BY <5>1, <5>2, PassersHold
        <5>3. CASE p \notin h[q].passed
          <6>1. p = [window |-> w, at |-> now, limit |-> limit]
            BY <2>3, <2>6, <5>3 DEF Passed
          <6>2. Window = 0
            BY <4>0, <4>2, <6>1
          <6>3. Passers(p.window, p.limit, p.at) = {}
            BY <4>0, <6>2 DEF Passers
          <6>. QED
            BY <4>0, <5>1, <6>3, FS_EmptySet
        <5>. QED
          BY <5>2, <5>3
      <4>. QED
        BY <4>1, <4>2
    <3>6. RateLimitHolds'
      BY <3>5 DEF RateLimitHolds, Passers
    <3>. QED
      BY <2>1, <2>2, <3>1, <3>2, <3>6
  <2>. QED
    BY <1>1, <2>4, <2>5, <2>6, LimitStep
<1>2. CASE Outside
  <2>1. h' = h /\ req' = req /\ hits' = hits /\ now' \in {now, now + 1}
    BY <1>2 DEF Outside, Revoke, ChangeLists, Expire, Tick
  <2>2. ASSUME NEW r \in Requests PROVE Entered(r)'
    BY <2>1 DEF Entered
  <2>3. RateLimitHolds'
    BY <2>1, SamePasses
  <2>. QED
    BY <2>1, <2>2, <2>3
<1>3. CASE UNCHANGED vars
  <2>1. h' = h /\ req' = req /\ hits' = hits /\ now' = now
    BY <1>3 DEF vars, shared
  <2>2. ASSUME NEW r \in Requests PROVE Entered(r)'
    BY <2>1 DEF Entered
  <2>3. RateLimitHolds'
    BY <2>1, SamePasses
  <2>. QED
    BY <2>1, <2>2, <2>3
<1>. QED
  BY <1>1, <1>2, <1>3 DEF Next, Outside, HandlerStep

-----------------------------------------------------------------------------
\* What policies deny. Until the policies are evaluated the model is the one
\* that the client asked for, and from then on a request they forbid has a
\* deny among the actions still to execute, so that it never gets past them.

Denied(r) == IsList(h[r].todo) /\ "deny" \in Kinds(h[r].todo)

DenyInv(r) ==
    /\ h[r].pc \in {"arrived", "authenticated"} => h[r].model = req[r].model
    /\ h[r].pc = "acting" => (Forbidden(r) => Denied(r))
    /\ h[r].pc \notin {"arrived", "authenticated", "acting"} \cup Returned => ~Forbidden(r)

\* Executing another action leaves the deny where it is.
LEMMA TailKeepsDeny ==
  ASSUME NEW actions, IsList(actions), "deny" \in Kinds(actions),
         Head(actions).kind # "deny"
  PROVE  IsList(Tail(actions)) /\ "deny" \in Kinds(Tail(actions))
<1>1. actions \in Seq(ToSet(actions))
  BY DEF IsList
<1>2. PICK i \in DOMAIN actions : actions[i].kind = "deny"
  BY DEF Kinds
<1>3. i \in 1..Len(actions) /\ i # 1 /\ actions # <<>>
  BY <1>1, <1>2
<1>4. /\ Tail(actions) \in Seq(ToSet(actions))
      /\ i - 1 \in DOMAIN Tail(actions) /\ Tail(actions)[i - 1] = actions[i]
  BY <1>1, <1>3
<1>5. IsList(Tail(actions))
  BY <1>4, ListOf
<1>6. Tail(actions)[i - 1].kind = "deny"
  BY <1>2, <1>4
<1>. QED
  BY <1>4, <1>5, <1>6 DEF Kinds

\* The steps of the loop over the actions, but for the deny.
Executes(r) ==
    \/ Note(r) \/ RequireApproval(r) \/ PolicyRateLimit(r) \/ Rewrite(r)
    \/ DynamicRoute(r) \/ ConditionalRoute(r) \/ ContentFilter(r) \/ Redact(r)
    \/ ExternalGuardrail(r) \/ ToolScope(r)

\* Each refuses or goes on to the next action, whatever else it does.
LEMMA ExecuteStep ==
  ASSUME HandlerInv, NEW r \in Requests, Executes(r)
  PROVE  /\ h[r].pc = "acting" /\ Head(h[r].todo).kind # "deny"
         /\ \/ h'[r].pc = "refused"
            \/ h'[r].pc = "acting" /\ h'[r].todo = Tail(h[r].todo)
<1>1. IsTable /\ IsRecord(r)
  BY DEF HandlerInv, Handler
<1>. DEFINE Goal == /\ h[r].pc = "acting" /\ Head(h[r].todo).kind # "deny"
                    /\ \/ h'[r].pc = "refused"
                       \/ h'[r].pc = "acting" /\ h'[r].todo = Tail(h[r].todo)
<1>2. ASSUME NEW kind, kind # "deny", Acts(r, kind)
      PROVE  h[r].pc = "acting" /\ Head(h[r].todo).kind # "deny"
  BY <1>2 DEF Acts, At
<1>3. ASSUME NEW kind, kind # "deny", Acts(r, kind), NEW audit, Return(r, "refused", audit)
      PROVE  Goal
  BY <1>1, <1>2, <1>3, ReturnEffect
<1>4. ASSUME NEW kind, kind # "deny", Acts(r, kind), h' = [h EXCEPT ![r].todo = Tail(@)]
      PROVE  Goal
  BY <1>1, <1>2, <1>4 DEF IsTable, IsRecord, HandlerFields
<1>5. ASSUME NEW kind, kind # "deny", Acts(r, kind), NEW m, NEW text,
             \/ h' = [h EXCEPT ![r].todo = Tail(@), ![r].model = m, ![r].text = text]
             \/ h' = [h EXCEPT ![r].todo = Tail(@), ![r].text = text]
      PROVE  Goal
  BY <1>1, <1>2, <1>5 DEF IsTable, IsRecord, HandlerFields
<1>6. ASSUME NEW kind, kind # "deny", Acts(r, kind), NEW t,
             h' = [h EXCEPT ![r].todo = Tail(@), ![r].model = t.model, ![r].override = t.base]
      PROVE  Goal
  BY <1>1, <1>2, <1>6 DEF IsTable, IsRecord, HandlerFields
<1>. SUFFICES Goal
  OBVIOUS
<1>7. CASE RequireApproval(r)
  BY <1>1, <1>2, <1>7 DEF RequireApproval, IsTable, IsRecord, HandlerFields
<1>8. CASE PolicyRateLimit(r)
  <2>1. ASSUME NEW passed,
               h' = [h EXCEPT ![r].todo = Tail(@), ![r].limited = TRUE, ![r].passed = passed]
        PROVE  Goal
    <3>1. h'[r].pc = h[r].pc /\ h'[r].todo = Tail(h[r].todo)
      BY <1>1, <2>1 DEF IsTable, IsRecord, HandlerFields
    <3>2. h[r].pc = "acting" /\ Head(h[r].todo).kind # "deny"
      BY <1>2, <1>8 DEF PolicyRateLimit
    <3>. QED
      BY <3>1, <3>2
  <2>. HIDE DEF Goal
  <2>. QED
    BY <1>3, <1>8, <2>1 DEF PolicyRateLimit
<1>. HIDE DEF Goal
<1>9. CASE Note(r)
  BY <1>4, <1>9 DEF Note
<1>10. CASE Rewrite(r)
  BY <1>5, <1>10 DEF Rewrite
<1>11. CASE DynamicRoute(r)
  BY <1>4, <1>6, <1>11 DEF DynamicRoute
<1>12. CASE ConditionalRoute(r)
  BY <1>3, <1>6, <1>12 DEF ConditionalRoute
<1>13. CASE ContentFilter(r)
  BY <1>3, <1>4, <1>13 DEF ContentFilter
<1>14. CASE Redact(r)
  BY <1>3, <1>5, <1>14 DEF Redact
<1>15. CASE ExternalGuardrail(r)
  BY <1>3, <1>4, <1>15 DEF ExternalGuardrail
<1>16. CASE ToolScope(r)
  BY <1>3, <1>4, <1>16 DEF ToolScope
<1>. QED
  BY <1>7, <1>8, <1>9, <1>10, <1>11, <1>12, <1>13, <1>14, <1>15, <1>16 DEF Executes

\* With the same requests read and counted, as much is forbidden.
LEMMA SameForbidden ==
  ASSUME NEW r \in Requests, req' = req, h'[r].seen = h[r].seen
  PROVE  Forbidden(r)' <=> Forbidden(r)
BY DEF Forbidden

\* The policies are evaluated on the request that was asked.
LEMMA EvaluateDenies ==
  ASSUME HandlerInv, req \in Arrivals, NEW r \in Requests,
         h[r].model = req[r].model, req' = req, NEW requests, EvaluateWith(r, requests)
  PROVE  h'[r].pc = "acting" /\ (Forbidden(r)' => Denied(r)')
<1>. DEFINE fields == [model |-> req[r].model, requests |-> requests, status |-> Missing]
            actions == PreFlightActions(req[r].policies, fields, req[r].header)
<1>1. Fields(r, requests, Missing) = fields
  BY DEF Fields
<1>2. h' = [h EXCEPT ![r].pc = "acting", ![r].seen = requests, ![r].todo = actions]
  BY <1>1, Zenon DEF EvaluateWith
<1>. HIDE DEF actions
<1>3. h'[r].pc = "acting" /\ h'[r].seen = requests /\ h'[r].todo = actions
  BY <1>2 DEF HandlerInv, Handler, IsTable, IsRecord, HandlerFields
<1>4. PoliciesTyped(req[r].policies) /\ HeaderTyped(req[r].header)
  BY PipelineAssumption
<1>5. ASSUME Forbids(req[r].policies, fields, req[r].header)
      PROVE  IsList(actions) /\ "deny" \in Kinds(actions)
  <2>. HIDE DEF fields
  <2>. QED
    BY <1>4, <1>5, DenyReachesHandler, Zenon DEF actions
<1>6. Forbidden(r)' => Forbids(req[r].policies, fields, req[r].header)
  BY <1>3 DEF Forbidden
<1>. QED
  BY <1>3, <1>5, <1>6, Zenon DEF Denied

\* Every step of a handler keeps it.
LEMMA DenyStep ==
  ASSUME HandlerInv, req \in Arrivals, NEW r \in Requests, DenyInv(r), HandlerStep(r)
  PROVE  DenyInv(r)'
<1>1. req' = req /\ IsTable /\ IsRecord(r)
  BY StepMoves DEF Moves, HandlerInv, Handler
<1>2. ASSUME h'[r].pc \in Returned PROVE DenyInv(r)'
  BY <1>2 DEF DenyInv, Returned
<1>3. ASSUME Ends(r) PROVE DenyInv(r)'
  BY <1>1, <1>2, <1>3, ReturnEffect DEF Ends, EndsAs
<1>4. ASSUME h[r].pc \notin {"arrived", "authenticated", "acting"} \cup Returned,
             h'[r].seen = h[r].seen, h'[r].pc \notin {"arrived", "authenticated", "acting"}
      PROVE  DenyInv(r)'
  BY <1>1, <1>4, SameForbidden DEF DenyInv
<1>5. CASE Calls(r)
  <2>1. CASE Disconnect(r)
    <3>1. h'[r].pc \in Returned
      BY <1>1, <2>1, ReturnEffect DEF Disconnect, Returned
    <3>. QED
      BY <1>2, <3>1
  <2>2. CASE ~Disconnect(r)
    <3>1. h[r].pc \notin {"arrived", "authenticated", "acting"} \cup Returned
      BY <1>5, <2>2 DEF Calls, LookUp, CheckModelAccess, EnterUpstream, Retry, Respond, Fail,
         ReadBody, At, Returned
    <3>. QED
      BY <1>3, <1>4, <1>5, <3>1, CallStep DEF Goes
  <2>. QED
    BY <2>1, <2>2
<1>6. CASE PostFlight(r)
  <2>1. h[r].pc \notin {"arrived", "authenticated", "acting"} \cup Returned
    BY <1>6 DEF PostFlight, LoopEnds, LoopContinues, LoopRetry, LoopFails, LoopRespond,
       LoopCut, LoopError, LoopAnswer, PriceAnswer, ChargeAnswer, Bill, Suppress, Pass, Finish, Store, At, Returned
  <2>. QED
    BY <1>3, <1>4, <1>6, <2>1, PostFlightStep DEF Goes
<1>7. ASSUME Prepares(r), ~EvaluatePreFlight(r), h'[r].pc # "refused"
      PROVE  h'[r].seen = h[r].seen
  BY <1>1, <1>7, PrepareStep, ReturnEffect DEF Refused
<1>8. CASE Authenticate(r)
  <2>1. h[r].pc = "arrived"
        /\ (h'[r].pc = "refused" \/ (h'[r].pc = "authenticated" /\ h'[r].model = h[r].model))
    BY <1>1, <1>8, ReturnEffect DEF Authenticate, At, IsTable, IsRecord, HandlerFields
  <2>. QED
    BY <1>1, <1>2, <2>1 DEF DenyInv, Returned
<1>9. CASE EvaluatePreFlight(r)
  <2>1. h[r].model = req[r].model
    BY <1>9 DEF EvaluatePreFlight, At, DenyInv
  <2>2. ASSUME NEW requests, EvaluateWith(r, requests) PROVE DenyInv(r)'
    <3>1. h'[r].pc = "acting" /\ (Forbidden(r)' => Denied(r)')
      BY <1>1, <2>1, <2>2, EvaluateDenies
    <3>. QED
      BY <3>1 DEF DenyInv
  <2>3. CASE Return(r, "refused", 0)
    BY <1>1, <1>2, <2>3, ReturnEffect DEF Returned
  <2>. QED
    BY <1>9, <2>2, <2>3 DEF EvaluatePreFlight
<1>10. CASE Executes(r)
  <2>1. /\ h[r].pc = "acting" /\ Head(h[r].todo).kind # "deny"
        /\ h'[r].pc = "refused" \/ (h'[r].pc = "acting" /\ h'[r].todo = Tail(h[r].todo))
    BY <1>10, ExecuteStep
  <2>2. CASE h'[r].pc = "refused"
    BY <1>2, <2>2 DEF Returned
  <2>3. CASE h'[r].pc # "refused"
    <3>1. Prepares(r) /\ ~EvaluatePreFlight(r)
      BY <1>10, <2>1 DEF Executes, Prepares, PreFlight, EvaluatePreFlight, At
    <3>2. Forbidden(r)' => Denied(r)
      BY <1>1, <1>7, <2>1, <2>3, <3>1, SameForbidden DEF DenyInv
    <3>3. Denied(r) => Denied(r)'
      BY <2>1, <2>3, TailKeepsDeny DEF Denied
    <3>. QED
      BY <2>1, <2>3, <3>2, <3>3 DEF DenyInv, Returned
  <2>. QED
    BY <2>2, <2>3
<1>11. CASE Deny(r)
  BY <1>1, <1>2, <1>11, ReturnEffect DEF Deny, Returned
<1>12. CASE DefaultRateLimit(r)
  <2>1. h[r].pc = "acting" /\ h[r].todo = <<>>
    BY <1>12 DEF DefaultRateLimit, At
  <2>2. h'[r].pc \in {"refused", "admitting"}
    BY <1>1, <1>12, ReturnEffect DEF DefaultRateLimit, Goto, IsTable, IsRecord, HandlerFields
  <2>3. CASE h'[r].pc = "refused"
    BY <1>2, <2>3 DEF Returned
  <2>4. CASE h'[r].pc = "admitting"
    <3>1. Prepares(r) /\ ~EvaluatePreFlight(r)
      BY <1>12, <2>1 DEF Prepares, PreFlight, EvaluatePreFlight, At
    <3>2. Kinds(<<>>) = {}
      BY DEF Kinds
    <3>3. ~Forbidden(r)
      BY <2>1, <3>2 DEF DenyInv, Denied
    <3>4. ~Forbidden(r)'
      BY <1>1, <1>7, <2>4, <3>1, <3>3, SameForbidden
    <3>. QED
      BY <2>4, <3>4 DEF DenyInv
  <2>. QED
    BY <2>2, <2>3, <2>4
<1>13. CASE \/ Admit(r) \/ Approve(r) \/ ResolveUpstream(r) \/ RetrieveCredential(r)
            \/ CheckTeamAndProvider(r) \/ BuildRequest(r) \/ InjectCredential(r)
  <2>1. h[r].pc \in {"admitting", "approving", "routing", "routed", "listed", "building",
                     "injecting"}
    BY <1>13 DEF Admit, Approve, ResolveUpstream, RetrieveCredential, CheckTeamAndProvider,
       BuildRequest, InjectCredential, At
  <2>2. Prepares(r) /\ ~EvaluatePreFlight(r)
    BY <1>13, <2>1 DEF Prepares, PreFlight, EvaluatePreFlight, At
  <2>3. h'[r].pc \notin {"arrived", "authenticated", "acting"}
    BY <1>1, <1>13, ReturnEffect DEF Admit, Approve, ResolveUpstream, RetrieveCredential,
       CheckTeamAndProvider, BuildRequest, InjectCredential, Goto, IsTable, IsRecord, HandlerFields
  <2>. QED
    BY <1>2, <1>4, <1>7, <2>1, <2>2, <2>3 DEF Returned
<1>. QED
  BY <1>5, <1>6, <1>8, <1>9, <1>10, <1>11, <1>12, <1>13
  DEF HandlerStep, Prepares, PreFlight, Calls, Call, Executes

\* And no other step touches it.
LEMMA DenyNext ==
  ASSUME HandlerInv, req \in Arrivals, \A r \in Requests : DenyInv(r), [Next]_vars
  PROVE  \A r \in Requests : DenyInv(r)'
<1>1. ASSUME NEW q \in Requests, req' = req, h'[q] = h[q] PROVE DenyInv(q)'
  BY <1>1 DEF DenyInv, Forbidden, Denied
<1>2. ASSUME NEW r \in Requests, HandlerStep(r), NEW q \in Requests PROVE DenyInv(q)'
  BY <1>1, <1>2, DenyStep, StepMoves DEF Moves
<1>3. Next <=> Outside \/ \E r \in Requests : HandlerStep(r)
  BY DEF Next, Outside, HandlerStep
<1>4. Outside \/ UNCHANGED vars => req' = req /\ h' = h
  BY OutsideFrame DEF vars
<1>. QED
  BY <1>1, <1>2, <1>3, <1>4

-----------------------------------------------------------------------------
\* The theorems.

\* The inductive invariant.
PipelineInv ==
    /\ HandlerInv /\ CacheInv /\ Counted /\ WindowsInv
    /\ \A r \in Requests : DenyInv(r)

\* The initial states satisfy all of it.
LEMMA InitPipelineInv == Init => PipelineInv
<1>. SUFFICES ASSUME Init PROVE PipelineInv
  OBVIOUS
<1>1. h = [r \in Requests |-> NewHandler(req[r])]
  BY DEF Init
<1>2. HandlerInv
  BY InitHandlerInv
<1>3. CacheInv
  BY <1>1 DEF Init, CacheInv, NewHandler
<1>4. Counted
  <2>1. ASSUME NEW u \in Urls PROVE CallsTo(u) = {}
    BY <1>1 DEF CallsTo, InCall, NewHandler
  <2>. QED
    BY <2>1, FS_EmptySet DEF Init, Counted
<1>5. WindowsInv
  <2>1. ASSUME NEW r \in Requests PROVE h[r].passed = {}
    BY <1>1 DEF NewHandler
  <2>. QED
    BY <2>1, FS_EmptySet DEF Init, WindowsInv, Entered, RateLimitHolds
<1>6. ASSUME NEW r \in Requests PROVE DenyInv(r)
  BY <1>1 DEF DenyInv, NewHandler
<1>. QED
  BY <1>2, <1>3, <1>4, <1>5, <1>6 DEF PipelineInv

\* Counted is inductive, given HandlerInv.
LEMMA CountedNext ==
  ASSUME HandlerInv, Counted, [Next]_vars
  PROVE  Counted'
<1>1. ASSUME UNCHANGED <<req, h, inflight>> PROVE Counted'
  BY <1>1 DEF Counted, CallsTo, InCall
<1>2. UNCHANGED vars => UNCHANGED <<req, h, inflight>>
  BY DEF vars, shared
<1>3. Next <=> Outside \/ \E r \in Requests : HandlerStep(r)
  BY DEF Next, Outside, HandlerStep
<1>. QED
  BY <1>1, <1>2, <1>3, CountedStep, OutsideFrame

\* The invariants hold together, and no one of them needs a bound on the
\* requests, the policies or the clock.
THEOREM PipelineInvariant == Spec => []PipelineInv
<1>1. PipelineInv /\ [Next]_vars => PipelineInv'
  <2>1. PipelineInv /\ [Next]_vars => HandlerInv' /\ CacheInv' /\ Counted' /\ WindowsInv'
    BY HandlerNext, CacheNext, CountedNext, WindowsNext DEF PipelineInv
  <2>2. PipelineInv /\ [Next]_vars => \A r \in Requests : DenyInv(r)'
    BY DenyNext DEF PipelineInv, WindowsInv
  <2>. QED
    BY <2>1, <2>2 DEF PipelineInv
<1>. QED
  BY <1>1, InitPipelineInv, PTL DEF Spec

\* A deny that counts is obeyed: whatever policies, conditions, modes and
\* headers there are, and whatever runs before it, no upstream is called.
THEOREM DeniedNeverReachUpstream == Spec => []DeniedNeverSent
<1>1. PipelineInv => DeniedNeverSent
  <2>. SUFFICES ASSUME HandlerInv, NEW r \in Requests, DenyInv(r), h[r].attempt > 0
                PROVE  ~Forbidden(r)
    BY DEF PipelineInv, DeniedNeverSent, Called
  <2>1. Checked(r) /\ h[r].attempt # 0
    BY DEF HandlerInv, Sound
  <2>2. h[r].pc \notin {"arrived", "authenticated", "acting"} \cup Returned
    BY <2>1 DEF Checked, Uncalled, Unchecked
  <2>. QED
    BY <2>2 DEF DenyInv
<1>. QED
  BY <1>1, PipelineInvariant, PTL

\* Whatever overrides, splits and routes make of a request's model, no
\* upstream is called with one that its lists do not have.
THEOREM SentModelsPermitted == Spec => []ModelPermittedWhenSent
<1>1. PipelineInv => ModelPermittedWhenSent
  <2>. SUFFICES ASSUME HandlerInv, NEW r \in Requests, h[r].attempt > 0
                PROVE  ModelPermitted(h[r].model, h[r].row \cup h[r].groups)
    BY DEF PipelineInv, ModelPermittedWhenSent, Called
  <2>. QED
    BY DEF HandlerInv, Sound, Checked, Uncalled
<1>. QED
  BY <1>1, PipelineInvariant, PTL

\* Each window lets no more requests past a limit than the limit.
THEOREM RateLimitsHold == Spec => []RateLimitHolds
<1>1. PipelineInv => RateLimitHolds
  BY DEF PipelineInv, WindowsInv
<1>. QED
  BY <1>1, PipelineInvariant, PTL

\* In-flight counters are exact but for the calls that the code forgets.
THEOREM CountersExact == Spec => []InFlightCounts
<1>1. PipelineInv => InFlightCounts
  <2>. SUFFICES ASSUME Counted, NEW u \in Urls
                PROVE  inflight[u] = Cardinality({r \in Requests :
                          h[r].url = u /\ h[r].pc \in {"sending", "unsigned", "droppedSending"}})
    BY DEF PipelineInv, InFlightCounts
  <2>. QED
    BY DEF Counted, CallsTo, InCall
<1>. QED
  BY <1>1, PipelineInvariant, PTL

\* A body that is not safe to repeat is not repeated.
THEOREM UnkeyedNeverRepeated == Spec => []UnkeyedSentOnce
<1>1. PipelineInv => UnkeyedSentOnce
  <2>. SUFFICES ASSUME HandlerInv, NEW r \in Requests, h[r].sends > 1
                PROVE  ~Unkeyed(r) \/ h[r].answers > 0
    BY DEF PipelineInv, UnkeyedSentOnce, Unkeyed
  <2>1. SentOnce(r) /\ h[r].sends \in Nat /\ h[r].answers \in Nat
    BY DEF HandlerInv, Handler, Sound
  <2>. QED
    BY <2>1 DEF SentOnce
<1>. QED
  BY <1>1, PipelineInvariant, PTL

\* The cache crosses neither tokens nor bodies.
THEOREM CacheNeverCrosses == Spec => []CacheServesOwnAnswers
<1>1. PipelineInv => CacheServesOwnAnswers
  BY DEF PipelineInv, CacheInv, AnswerOf, CacheKey, CacheServesOwnAnswers
<1>. QED
  BY <1>1, PipelineInvariant, PTL

\* The charges that Bill leaves are in order, and only the last two can be
\* the same.
LEMMA PaidOnce ==
  ASSUME NEW n \in Nat, NEW c, c = Paid(n) \/ (n > 0 /\ c = Append(Paid(n), n)),
         NEW i \in DOMAIN c, NEW j \in DOMAIN c, i < j, c[i] = c[j]
  PROVE  c[i] = n /\ n > 1 /\ j = Len(c)
<1>1. CASE c = Paid(n)
  <2>1. DOMAIN c = 1..(n - 1) /\ \A k \in 1..(n - 1) : c[k] = k + 1
    BY <1>1 DEF Paid
  <2>2. i \in 1..(n - 1) /\ j \in 1..(n - 1)
    BY <2>1
  <2>3. i + 1 = j + 1
    BY <2>1, <2>2
  <2>. QED
    BY <2>2, <2>3
<1>2. CASE n > 0 /\ c = Append(Paid(n), n)
  <2>1. Paid(n) \in Seq(Nat) /\ Len(Paid(n)) = n - 1 /\ \A k \in 1..(n - 1) : Paid(n)[k] = k + 1
    BY <1>2 DEF Paid
  <2>2. Len(c) = n /\ DOMAIN c = 1..n /\ c[n] = n /\ \A k \in 1..(n - 1) : c[k] = k + 1
    BY <1>2, <2>1
  <2>3. i \in 1..n /\ j \in 1..n
    BY <2>2
  <2>4. i \in 1..(n - 1) /\ c[i] = i + 1
    BY <2>2, <2>3
  <2>5. j = n
    <3>1. ASSUME j # n PROVE c[j] = j + 1
      BY <2>2, <2>3, <3>1
    <3>. QED
      BY <2>3, <2>4, <3>1
  <2>6. c[i] = n
    BY <2>2, <2>5
  <2>7. n > 1
    BY <2>4
  <2>. QED
    BY <2>2, <2>5, <2>6, <2>7
<1>. QED
  BY <1>1, <1>2

\* And all answers but the first are among them.
LEMMA PaidAll ==
  ASSUME NEW n \in Nat, NEW c, c = Paid(n) \/ (n > 0 /\ c = Append(Paid(n), n)),
         NEW k \in 2..n
  PROVE  \E i \in DOMAIN c : c[i] = k
<1>1. Paid(n) \in Seq(Nat) /\ Len(Paid(n)) = n - 1 /\ \A i \in 1..(n - 1) : Paid(n)[i] = i + 1
  BY DEF Paid
<1>2. k - 1 \in 1..(n - 1) /\ (k - 1) + 1 = k
  OBVIOUS
<1>3. \A i \in 1..(n - 1) : i \in DOMAIN c /\ c[i] = Paid(n)[i]
  <2>1. CASE c = Paid(n)
    <3>1. DOMAIN Paid(n) = 1..(n - 1)
      BY DEF Paid
    <3>. QED
      BY <2>1, <3>1
  <2>2. CASE c = Append(Paid(n), n)
    BY <1>1, <2>2
  <2>. QED
    BY <2>1, <2>2
<1>. QED
  BY <1>1, <1>2, <1>3

\* Each answer of the loop is charged, once, before the loop goes on, and the
\* answer that the client gets is charged last.
THEOREM ChargesComplete == Spec => []AnswersCharged
<1>1. PipelineInv => AnswersCharged
  <2>. SUFFICES ASSUME PipelineInv PROVE AnswersCharged
    OBVIOUS
  <2>1. ASSUME NEW r \in Requests, NEW c, NEW last, c = h[r].charged, last = h[r].answers
        PROVE  /\ \A n \in 2..last :
                     \/ \E i \in DOMAIN c : c[i] = n
                     \/ n = last /\ h[r].pc \in {"pricing", "charging", "dropped"}
               /\ \A i, j \in DOMAIN c :
                     i < j /\ c[i] = c[j] => c[i] = last /\ last > 1 /\ j = Len(c)
               /\ h[r].pc \in {"answered", "storing"} /\ h[r].body > 0 =>
                     /\ c # <<>>
                     /\ c[Len(c)] = last /\ h[r].cost = last
                     /\ last = 1 => c = <<1>>
    <3>1. Charged(r) /\ Checked(r) /\ last \in Nat /\ h[r].body \in Nat /\ h[r].pc \in Running \cup Over
      BY <2>1 DEF PipelineInv, HandlerInv, Handler, Sound
    <3>2. CASE h[r].pc = "served"
      <4>1. c = <<1>> /\ last = 0
        BY <2>1, <3>1, <3>2 DEF Charged, Checked
      <4>. QED
        BY <3>2, <4>1
    <3>3. CASE Late(r) /\ h[r].pc \in {"pricing", "charging", "dropped"}
      <4>1. last > 1 /\ last - 1 \in Nat /\ c = Paid(last - 1)
        BY <2>1, <3>1, <3>3 DEF Late
      <4>2. ASSUME NEW n \in 2..last, n # last PROVE \E i \in DOMAIN c : c[i] = n
        BY <3>1, <4>1, <4>2, PaidAll
      <4>3. ASSUME NEW i \in DOMAIN c, NEW j \in DOMAIN c, i < j PROVE c[i] # c[j]
        <5>1. DOMAIN c = 1..(last - 2) /\ c[i] = i + 1 /\ c[j] = j + 1
          BY <3>1, <4>1 DEF Paid
        <5>. QED
          BY <4>3, <5>1, <3>1
      <4>. QED
        BY <3>3, <4>2, <4>3
    <3>4. CASE Due(r) \/ Billed(r)
      <4>1. c = Paid(last) \/ (last > 0 /\ c = Append(Paid(last), last))
        BY <2>1, <3>4 DEF Due, Billed
      <4>2. \A n \in 2..last : \E i \in DOMAIN c : c[i] = n
        BY <3>1, <4>1, PaidAll
      <4>3. \A i, j \in DOMAIN c :
               i < j /\ c[i] = c[j] => c[i] = last /\ last > 1 /\ j = Len(c)
        BY <3>1, <4>1, PaidOnce
      <4>4. ASSUME h[r].pc \in {"answered", "storing"}, h[r].body > 0
            PROVE  /\ c # <<>>
                   /\ c[Len(c)] = last /\ h[r].cost = last
                   /\ last = 1 => c = <<1>>
        <5>1. h[r].cost = last /\ last > 0 /\ c = Append(Paid(last), last)
          BY <2>1, <3>1, <4>4 DEF Charged, Billed
        <5>2. Paid(last) \in Seq(Nat) /\ Len(Paid(last)) = last - 1
          BY <3>1, <5>1 DEF Paid
        <5>3. Len(c) = last /\ c[Len(c)] = last /\ c # <<>>
          BY <3>1, <5>1, <5>2
        <5>4. ASSUME last = 1 PROVE c = <<1>>
          <6>1. c = Append(<<>>, 1)
            BY <5>1, <5>4, PaidNone
          <6>. QED
            BY <6>1
        <5>. QED
          BY <5>1, <5>3, <5>4
      <4>. QED
        BY <4>2, <4>3, <4>4
    <3>. QED
      BY <3>1, <3>2, <3>3, <3>4 DEF Charged, Running, Over, Uncalled, Unchecked, Prepared, Returned
  <2>. QED
    BY <2>1 DEF AnswersCharged
<1>. QED
  BY <1>1, PipelineInvariant, PTL

\* Some thirty ways out of the handler, and never two rows.
THEOREM OneRow == Spec => []AuditedOnce
<1>1. PipelineInv => AuditedOnce
  BY DEF PipelineInv, HandlerInv, Sound, RowLeft, AuditedOnce
<1>. QED
  BY <1>1, PipelineInvariant, PTL

=============================================================================
